----------------------------- MODULE MCS3Upload -----------------------------
(* Instances of S3Upload for TLC: the arguments the writers have.            *)
EXTENDS S3Upload

Stream(l, e, a) == [len |-> l, ending |-> e, announced |-> a, overwrite |-> TRUE]

\* One job for each way through Buffer and each ending of the parts: a known
\* size that is there, missing, or fails; an unknown one that fits, fails, or is
\* split; more than a part that ends within a part, at its end, or fails.
MixedJobs ==
    { Stream(1, "eof", 1), Stream(0, "eof", 1), Stream(0, "error", 1),
      Stream(1, "short", -1), Stream(1, "error", -1), Stream(3, "error", -1),
      Stream(3, "eof", 3), Stream(2, "short", 3),
      [Stream(1, "eof", 1) EXCEPT !.overwrite = FALSE] }
=============================================================================
