---------------------------- MODULE MCVaultFile ----------------------------
(* An instance of VaultFile for TLC: two goroutines of the daemon, and the   *)
(* command line.                                                             *)
EXTENDS VaultFile

CONSTANTS daemon, cli, t3, n1, k1

TwoProcesses == [t \in Thread |-> IF t = t3 THEN cli ELSE daemon]
OneOrAny == [p \in Proc |-> IF p = daemon THEN {k1} ELSE Key]

\* One call of each kind, and a save under another name.
SomeCalls == {c \in Call : c.kind \in {"delete", "get"} => c.name = n1}
=============================================================================
