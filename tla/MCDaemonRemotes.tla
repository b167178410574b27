-------------------------- MODULE MCDaemonRemotes --------------------------
(* Instances of DaemonRemotes for TLC: requests are interchangeable, and so   *)
(* are the profiles a driver can be made of.                                 *)
EXTENDS DaemonRemotes, TLC

Interchangeable ==
    Permutations(Request) \cup Permutations(Profile \ Unusable)
=============================================================================
