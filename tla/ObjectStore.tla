---------------------------- MODULE ObjectStore ----------------------------
(***************************************************************************)
(* What a storage driver promises those who write through it (the Driver   *)
(* interface of pkg/storage): one object or none under each key, replaced  *)
(* whole by a write that takes effect at one instant, or does not.         *)
(*                                                                         *)
(* The drivers keep less than that, each in its way.  A writer is exposed  *)
(* when it can no longer replace the object in one step: from then on it   *)
(* may remove the object, and fail after all.  A writer across a network   *)
(* may write and not learn of it: it writes again, or reports a failure.   *)
(***************************************************************************)
CONSTANTS Writer, Key, Object, Absent,
          Remote   \* the writers whose answers may be lost

VARIABLES
    objects,
    intent,   \* the key each writer writes to, and the objects it may make
    status,   \* "pending", "exposed", "unanswered", "done" or "failed"
    deletes   \* the keys whose objects somebody is going to delete

Init == /\ objects \in [Key -> Object \cup {Absent}]
        /\ intent \in [Writer -> [key : Key, whole : SUBSET Object]]
        /\ status = [w \in Writer |-> "pending"]
        /\ deletes \subseteq Key

Moves(w, from, to) == /\ status[w] \in from
                      /\ status' = [status EXCEPT ![w] = to]
                      /\ UNCHANGED deletes

Becomes(k, c) == objects' = [objects EXCEPT ![k] = c] /\ UNCHANGED intent

Puts(w) == \E c \in intent[w].whole : Becomes(intent[w].key, c)

Put(w) == Moves(w, {"pending", "exposed", "unanswered"}, "done") /\ Puts(w)

\* The object is there, and its writer has not been told.
PutUnanswered(w) ==
    /\ w \in Remote
    /\ \E next \in {"unanswered", "failed"} : Moves(w, {"pending", "unanswered"}, next)
    /\ Puts(w)

\* ... and is told at last.
Learn(w) == Moves(w, {"unanswered"}, "done") /\ UNCHANGED <<objects, intent>>

Expose(w) == Moves(w, {"pending"}, "exposed") /\ UNCHANGED <<objects, intent>>

Remove(w) == /\ status[w] = "exposed"
             /\ Becomes(intent[w].key, Absent)
             /\ UNCHANGED <<status, deletes>>

\* A writer that fails, or dies, leaves the objects as they are.
Fail(w) == /\ Moves(w, {"pending", "exposed", "unanswered"}, "failed")
           /\ UNCHANGED <<objects, intent>>

Delete(k) == /\ k \in deletes /\ deletes' = deletes \ {k}
             /\ Becomes(k, Absent)
             /\ UNCHANGED status

Next == \/ \E w \in Writer : \/ Put(w) \/ PutUnanswered(w) \/ Learn(w)
                             \/ Expose(w) \/ Remove(w) \/ Fail(w)
        \/ \E k \in Key : Delete(k)

vars == <<objects, intent, status, deletes>>
Spec == Init /\ [][Next]_vars
=============================================================================
