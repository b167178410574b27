--------------------------- MODULE MCLocalDriver ---------------------------
(* An instance of LocalDriver for TLC: the arguments of the calls.           *)
EXTENDS LocalDriver

Stream(k, l, e, s, o) == [key |-> k, len |-> l, ending |-> e, size |-> s, overwrite |-> o]

\* A known size that is there, that cuts the stream in a write without Overwrite,
\* or is not there; an unknown one of a stream that fails, or ends, for the other
\* key.
SomeJobs == { Stream(1, 2, "eof", 2, TRUE), Stream(1, 2, "error", 1, FALSE),
              Stream(1, 1, "eof", 2, TRUE), Stream(1, 1, "error", -1, TRUE),
              Stream(2, 2, "eof", -1, TRUE) }

\* A download, a deletion of an object and of a temporary file, and a listing
\* one name at a time.
SomeRequests == { [kind |-> "get", name |-> <<1, 0>>],
                  [kind |-> "delete", name |-> <<1, 0>>],
                  [kind |-> "delete", name |-> <<1, 1>>],
                  [kind |-> "list", max |-> 1] }
=============================================================================
