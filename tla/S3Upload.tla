------------------------------ MODULE S3Upload ------------------------------
(***************************************************************************)
(* Writing an object with the S3 driver (pkg/storage/s3): WriteWithOptions,*)
(* putSingleObject, uploadMultipart, and ExecuteWithRetry around every     *)
(* request.                                                                *)
(*                                                                         *)
(* A request may fail before or after it has taken effect in the bucket;   *)
(* the driver cannot tell which, and sends a request again whose error     *)
(* looks transient.  Writers of one key run side by side, their contexts   *)
(* may be cancelled, and their processes may die.                          *)
(***************************************************************************)
EXTENDS Integers, FiniteSets, SequencesExt

CONSTANTS
    Writer,      \* calls of WriteWithOptions on one key
    Jobs,        \* the arguments they may have
    PartSize,    \* units in a part, and the most that is sent in one request
    MaxRetries,  \* RetryConfig.MaxRetries
    Absent,      \* no object, no upload
    Zero,        \* a unit of a buffer nothing was read into
    Other,       \* a unit of the object there at the start
    MaxCancels,  \* bound: cancellations
    MaxCrashes   \* bound: deaths of a writer's process

\* len and ending: the units the reader r delivers, and how it ends: at its end,
\* with io.ErrUnexpectedEOF as a truncated HTTP body does, or with another error.
\* announced: the size argument, -1 when it is unknown.
Job == [len : Nat, ending : {"eof", "short", "error"},
        announced : Nat \cup {-1}, overwrite : BOOLEAN]

ASSUME UploadAssumption ==
    /\ PartSize \in Nat \ {0} /\ MaxRetries \in Nat
    /\ MaxCancels \in Nat /\ MaxCrashes \in Nat
    /\ Jobs \subseteq Job

\* What objects and parts are made of.
Unit == (Writer \X Nat) \cup {Zero, Other}

ASSUME AbsentAssumption == Absent \notin Seq(Unit) \cup Seq(Seq(Unit))

UploadId == Writer \X (0..MaxRetries)

VARIABLES
    object,     \* the object at the key: a sequence of units
    uploads,    \* the parts of each multipart upload in progress
    job,        \* each writer's arguments
    pc,         \* each writer's next step
    tries,      \* failed attempts at the request it is making
    pos, body,  \* units read, and the units of the request
    id,         \* uploadID
    completed,  \* completedParts: how many there are
    result,     \* what WriteWithOptions returned
    cancelled   \* ctx.Err() # nil

\* Auxiliary variables: read by properties and bounds, never by the code's steps.
VARIABLES
    shown,      \* what each writer has made of the object
    unaborted,  \* writers that died, or whose AbortMultipartUpload had no effect
    budget      \* what is left of the bounds

bucket == <<object, uploads, shown>>
local  == <<pc, tries, pos, body, id, completed, result>>
vars   == <<bucket, local, job, cancelled, unaborted, budget>>

NoUpload == MaxRetries + 1

Init ==
    /\ object \in {Absent, <<Other>>}
    /\ uploads = [u \in UploadId |-> Absent]
    /\ job \in [Writer -> Jobs]
    /\ pc = [w \in Writer |-> "start"]
    /\ tries = [w \in Writer |-> 0]
    /\ pos = [w \in Writer |-> 0]
    /\ body = [w \in Writer |-> << >>]
    /\ id = [w \in Writer |-> NoUpload]
    /\ completed = [w \in Writer |-> 0]
    /\ result = [w \in Writer |-> "none"]
    /\ cancelled = [w \in Writer |-> FALSE]
    /\ shown = {} /\ unaborted = {}
    /\ budget = [cancels |-> MaxCancels, crashes |-> MaxCrashes]

-----------------------------------------------------------------------------
(* Reading the stream.                                                     *)

\* The units after the first `from`, `n` of them.
Units(w, from, n) == [i \in 1..n |-> <<w, from + i>>]
Rest(w) == job[w].len - pos[w]

Goto(w, next) == pc' = [pc EXCEPT ![w] = next]
Ends(w, r)    == Goto(w, "done") /\ result' = [result EXCEPT ![w] = r]

\* Without Overwrite the driver asks first whether the object is there.
Start(w) ==
    /\ pc[w] = "start"
    /\ Goto(w, IF job[w].overwrite THEN "buffer" ELSE "stat")
    /\ UNCHANGED <<bucket, job, tries, pos, body, id, completed, result,
                   cancelled, unaborted, budget>>

Sends(w, units) == /\ body' = [body EXCEPT ![w] = units]
                   /\ Goto(w, "put") /\ UNCHANGED result
Refuses(w)      == Ends(w, "error") /\ UNCHANGED body
Splits(w)       == Goto(w, "create") /\ UNCHANGED <<body, result>>

\* A known size of at most one part: io.ReadFull into a buffer of that size.  A
\* stream that ends before its first unit leaves the buffer as it was made.
BufferKnown(w) ==
    LET size == job[w].announced IN
    \/ Rest(w) >= size /\ Sends(w, Units(w, 0, size))
    \/ Rest(w) = 0 /\ size > 0 /\ job[w].ending = "eof"
         /\ Sends(w, [i \in 1..size |-> Zero])
    \/ Rest(w) < size /\ (Rest(w) > 0 \/ job[w].ending # "eof") /\ Refuses(w)

\* An unknown size: the first part decides.
BufferUnknown(w) ==
    \/ Rest(w) >= PartSize /\ Splits(w)
    \/ Rest(w) < PartSize /\ job[w].ending # "error" /\ Sends(w, Units(w, 0, Rest(w)))
    \/ Rest(w) < PartSize /\ job[w].ending = "error" /\ Refuses(w)

Buffer(w) ==
    /\ pc[w] = "buffer"
    /\ \/ job[w].announced = -1 /\ BufferUnknown(w)
       \/ job[w].announced \in 0..PartSize /\ BufferKnown(w)
       \/ job[w].announced > PartSize /\ Splits(w)
    /\ UNCHANGED <<bucket, job, tries, pos, id, completed, cancelled, unaborted, budget>>

AfterStream_ErrorToo(w) == "complete"

\* Where the loop over the parts leads when the stream has ended: both
\* io.EOF and io.ErrUnexpectedEOF end it normally.
AfterStream(w) == IF job[w].ending = "error" THEN "abort" ELSE "complete"

FillPart(w) ==
    /\ pc[w] = "fill"
    /\ IF Rest(w) > 0
         THEN LET n == IF Rest(w) < PartSize THEN Rest(w) ELSE PartSize IN
              /\ body' = [body EXCEPT ![w] = Units(w, pos[w], n)]
              /\ pos' = [pos EXCEPT ![w] = @ + n]
              /\ Goto(w, "part")
         ELSE Goto(w, AfterStream(w)) /\ UNCHANGED <<body, pos>>
    /\ UNCHANGED <<bucket, job, tries, id, completed, result, cancelled, unaborted, budget>>

-----------------------------------------------------------------------------
(* Requests.                                                               *)

Requests == {"stat", "put", "create", "part", "complete"}
Sending(w) == pc[w] \in Requests /\ ~cancelled[w]

Upload(w) == <<w, id[w]>>

Becomes(w, content) == object' = content /\ shown' = shown \cup {<<w, content>>}

NextPart_Stuck(w) == 1
NextPart(w) == completed[w] + 1

\* The service stores a part under its number.
WithPart(parts, n, units) ==
    IF n <= Len(parts) THEN [parts EXCEPT ![n] = units] ELSE Append(parts, units)

\* What the service does with the request.  HeadObject changes nothing, and
\* CompleteMultipartUpload only finds an upload that is there.
TakesEffect(w) ==
    \/ pc[w] = "stat" /\ UNCHANGED bucket
    \/ pc[w] = "put" /\ Becomes(w, body[w]) /\ UNCHANGED uploads
    \/ /\ pc[w] = "create"
       /\ uploads' = [uploads EXCEPT ![<<w, tries[w]>>] = << >>]
       /\ UNCHANGED <<object, shown>>
    \/ /\ pc[w] = "part"
       /\ uploads' = [uploads EXCEPT ![Upload(w)] = WithPart(@, NextPart(w), body[w])]
       /\ UNCHANGED <<object, shown>>
    \/ /\ pc[w] = "complete" /\ completed[w] > 0 /\ uploads[Upload(w)] # Absent
       /\ Becomes(w, FlattenSeq(uploads[Upload(w)]))
       /\ uploads' = [uploads EXCEPT ![Upload(w)] = Absent]

\* A CompleteMultipartUpload sent again may be told that all is well.
AlreadyComplete(w) == /\ pc[w] = "complete" /\ completed[w] > 0
                      /\ uploads[Upload(w)] = Absent
                      /\ UNCHANGED bucket

\* An object that is there is not replaced.
AfterStat(w) == \/ object = Absent /\ Goto(w, "buffer") /\ UNCHANGED result
                \/ object # Absent /\ Ends(w, "error")

\* The driver goes on with the answer.
Proceeds(w) ==
    /\ tries' = [tries EXCEPT ![w] = 0]
    /\ id' = IF pc[w] = "create" THEN [id EXCEPT ![w] = tries[w]] ELSE id
    /\ completed' = IF pc[w] = "part" THEN [completed EXCEPT ![w] = NextPart(w)] ELSE completed
    /\ CASE pc[w] = "stat" -> AfterStat(w)
         [] pc[w] \in {"put", "complete"} -> Ends(w, "ok")
         [] pc[w] = "create" -> Goto(w, "fill") /\ UNCHANGED result
         [] pc[w] = "part" ->
              /\ Goto(w, IF Len(body[w]) = PartSize THEN "fill" ELSE AfterStream(w))
              /\ UNCHANGED result

Answered(w) ==
    /\ Sending(w)
    /\ TakesEffect(w) \/ AlreadyComplete(w)
    /\ Proceeds(w)
    /\ UNCHANGED <<job, pos, body, cancelled, unaborted, budget>>

AfterError_NoAbort(w) == IF pc[w] = "stat" THEN "buffer" ELSE "done"

\* Where the last error of a request leads.  Any error of HeadObject counts as
\* a missing object; once there is an upload, the deferred abort runs.
AfterError(w) == CASE pc[w] = "stat" -> "buffer"
                   [] pc[w] \in {"put", "create"} -> "done"
                   [] pc[w] \in {"part", "complete"} -> "abort"

GivesUp(w) ==
    /\ tries' = [tries EXCEPT ![w] = 0]
    /\ Goto(w, AfterError(w))
    /\ result' = IF AfterError(w) = "done" THEN [result EXCEPT ![w] = "error"] ELSE result

TriesAgain_Forever(w) == UNCHANGED tries
TriesAgain_OneMore(w) == tries[w] <= MaxRetries /\ tries' = [tries EXCEPT ![w] = @ + 1]

\* ExecuteWithRetry counts the failed attempts.
TriesAgain(w) == tries[w] < MaxRetries /\ tries' = [tries EXCEPT ![w] = @ + 1]

\* The request or its answer is lost, or it is refused.  A transient error is
\* tried again; the last one, and any other, is returned.
RequestFails(w) ==
    /\ Sending(w)
    /\ TakesEffect(w) \/ UNCHANGED bucket
    /\ \/ TriesAgain(w) /\ UNCHANGED <<pc, result>>
       \/ GivesUp(w)
    /\ UNCHANGED <<job, pos, body, id, completed, cancelled, unaborted, budget>>

\* ExecuteWithRetry looks at the context before every attempt.
ContextEnds(w) ==
    /\ pc[w] \in Requests /\ cancelled[w]
    /\ GivesUp(w)
    /\ UNCHANGED <<bucket, job, pos, body, id, completed, cancelled, unaborted, budget>>

\* AbortMultipartUpload has a context of its own and is sent once; its error is
\* dropped.
Abort(w) ==
    /\ pc[w] = "abort"
    /\ Ends(w, "error")
    /\ \/ uploads' = [uploads EXCEPT ![Upload(w)] = Absent] /\ UNCHANGED unaborted
       \/ UNCHANGED uploads /\ unaborted' = unaborted \cup {w}
    /\ UNCHANGED <<object, shown, job, tries, pos, body, id, completed, cancelled, budget>>

Write(w) == \/ Start(w) \/ Buffer(w) \/ FillPart(w)
            \/ Answered(w) \/ RequestFails(w) \/ ContextEnds(w) \/ Abort(w)

-----------------------------------------------------------------------------
(* Everybody else.                                                         *)

Spend(what) == /\ budget[what] > 0
               /\ budget' = [budget EXCEPT ![what] = @ - 1]

Cancel(w) == /\ pc[w] # "done" /\ ~cancelled[w]
             /\ Spend("cancels")
             /\ cancelled' = [cancelled EXCEPT ![w] = TRUE]
             /\ UNCHANGED <<bucket, local, job, unaborted>>

Crash(w) == /\ pc[w] # "done"
            /\ Spend("crashes")
            /\ Ends(w, "crashed")
            /\ unaborted' = unaborted \cup {w}
            /\ UNCHANGED <<bucket, job, tries, pos, body, id, completed, cancelled>>

Finished == (\A w \in Writer : pc[w] = "done") /\ UNCHANGED vars

Next == \/ \E w \in Writer : Write(w) \/ Cancel(w) \/ Crash(w)
        \/ Finished

\* A writer that can go on does: a request is answered, or fails.
Spec     == Init /\ [][Next]_vars
FairSpec == Spec /\ \A w \in Writer : WF_vars(Write(w))

-----------------------------------------------------------------------------
(* Properties.                                                             *)

PC == Requests \cup {"start", "buffer", "fill", "abort", "done"}

\* Every variable holds a value of its kind; no writer sends more than one part
\* at once, or makes more attempts than it may.
TypeOK ==
    /\ object \in Seq(Unit) \cup {Absent}
    /\ uploads \in [UploadId -> Seq(Seq(Unit)) \cup {Absent}]
    /\ job \in [Writer -> Jobs] /\ pc \in [Writer -> PC]
    /\ tries \in [Writer -> 0..MaxRetries]
    /\ pos \in [Writer -> Nat] /\ body \in [Writer -> Seq(Unit)]
    /\ id \in [Writer -> 0..NoUpload] /\ completed \in [Writer -> Nat]
    /\ result \in [Writer -> {"none", "ok", "error", "crashed"}]
    /\ cancelled \in [Writer -> BOOLEAN]
    /\ shown \subseteq Writer \X Seq(Unit) /\ unaborted \subseteq Writer
    /\ budget \in [cancels : Nat, crashes : Nat]
    /\ \A w \in Writer : Len(body[w]) <= PartSize

\* The object a writer makes of its job.
Sent(w) ==
    IF job[w].announced \in 0..PartSize
      THEN IF job[w].len >= job[w].announced
             THEN Units(w, 0, job[w].announced)
             ELSE [i \in 1..job[w].announced |-> Zero]
      ELSE Units(w, 0, job[w].len)

\* A stream whose end was not reached makes none, unless its size is known.
Whole(w) == job[w].ending # "error" \/ job[w].announced \in 0..PartSize

Status(w) ==
    CASE result[w] = "ok" -> "done"
      [] result[w] \in {"error", "crashed"} -> "failed"
      [] result[w] = "none" -> IF <<w, Sent(w)>> \in shown THEN "unanswered" ELSE "pending"

OS == INSTANCE ObjectStore WITH
        Key     <- {1},
        Object  <- Seq(Unit),
        Remote  <- Writer,
        objects <- [k \in {1} |-> object],
        intent  <- [w \in Writer |-> [key |-> 1, whole |-> {c \in {Sent(w)} : Whole(w)}]],
        status  <- [w \in Writer |-> Status(w)],
        deletes <- {}

\* The bucket implements ObjectStore: a reader of the key never sees a part of a
\* write, or parts of two writes, and whoever was told of success or of failure
\* writes no more.  What it keeps less than the local driver is PutUnanswered:
\* a write sent again may come after another's, and one that failed may be there.
ObjectStoreSpec == OS!Spec

\* A write that returned nil has been seen as a whole, whatever was lost and
\* sent again on the way.
AckedIsStored == \A w \in Writer : result[w] = "ok" => <<w, Sent(w)>> \in shown

\* A multipart upload outlives its call only if the driver never learned its id,
\* or its abort had no effect, or the process died.
UploadsAreCleared ==
    \A u \in UploadId :
        pc[u[1]] = "done" /\ uploads[u] # Absent => id[u[1]] # u[2] \/ u[1] \in unaborted

\* Every call returns: the retries are bounded.
WriteReturns == \A w \in Writer : <>(pc[w] = "done")
=============================================================================
