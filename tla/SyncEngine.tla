----------------------------- MODULE SyncEngine -----------------------------
(***************************************************************************)
(* Unidirectional synchronisation: pkg/sync (Sync, Comparator.Compare,     *)
(* BackupConflict) over two storage drivers.                               *)
(*                                                                         *)
(* A run lists the source, lists the destination, and hands one task per   *)
(* source file to a pool of workers.  A worker compares, backs the         *)
(* destination file up, reads the source and writes the destination, each  *)
(* of these a separate call on a driver.  When every worker has returned,  *)
(* the main goroutine deletes the extraneous destination files.  Between   *)
(* any two calls the clock may advance, somebody else may change either    *)
(* side, the backend may fail, and the caller may cancel the context.      *)
(***************************************************************************)
EXTENDS Integers, FiniteSets

CONSTANTS
    NumPaths,     \* relative paths, in the order List returns them
    NumWorkers,   \* SyncOptions.Workers
    NumGens,      \* distinguishable streams of bytes
    MaxSize,      \* the longest object
    Kinds,        \* the pairs of drivers a run may be given
    Page,         \* objects one List of a bucket returns at most
    Threshold,    \* MultipartThreshold: above it an S3 Write uploads parts
    Options,      \* the SyncOptions a run may be started with
    Absent,       \* no such object
    SrcTimes,     \* modification times of the source files there at the start
    StartClock,   \* the clock at the start
    MaxClock,     \* bound: the clock, in seconds
    MaxRuns,      \* bound: runs of Sync, one after the other
    MaxEdits,     \* bound: out-of-band changes of either side
    MaxFaults,    \* bound: backend failures
    MaxCancels    \* bound: cancellations of the caller's context

Path   == 1..NumPaths
Worker == 1..NumWorkers
Time   == 0..MaxClock

\* The content of an object is a stream and how much of it is there, so the
\* prefix of a content is a content.
Content == [gen : 1..NumGens, size : 1..MaxSize]
File    == [data : Content, mtime : Time]
Object  == File \cup {Absent}

Stats == [transferred : SUBSET Path, updated  : SUBSET Path,
          skipped     : SUBSET Path, conflict : SUBSET Path,
          deleted     : SUBSET Path]

Driver == {"local", "s3"}

SyncOptions == [checksum : BOOLEAN, delete : BOOLEAN,
                dryRun   : BOOLEAN, noBackup : BOOLEAN]

ASSUME BoundsAssumption ==
    /\ NumPaths \in Nat \ {0} /\ NumWorkers \in Nat \ {0}
    /\ NumGens \in Nat \ {0}  /\ MaxSize \in Nat \ {0}
    /\ Page \in Nat           /\ Threshold \in Nat
    /\ MaxClock \in Nat       /\ MaxRuns \in Nat
    /\ MaxEdits \in Nat       /\ MaxFaults \in Nat /\ MaxCancels \in Nat
    /\ StartClock \in 0..MaxClock /\ SrcTimes \subseteq 0..StartClock
ASSUME OptionsAssumption == Options \subseteq SyncOptions
ASSUME KindsAssumption   == Kinds \subseteq [src : Driver, dst : Driver]
ASSUME AbsentAssumption  == Absent \notin File /\ Absent \notin Content

VARIABLES
    kinds,        \* the drivers of the two stores
    src, dst,     \* the two stores, by relative path
    backups,      \* .conflicts/<path>.<second>.conflict
    now,          \* the wall clock
    phase,        \* where the main goroutine is
    opts,         \* the options of the run
    srcList,      \* srcObjects: what List of the source returned
    destMap,      \* what List of the destination returned
    queue,        \* taskChan: the tasks nobody has received yet
    pc, at,       \* each worker's next call, and the path of its task
    size,         \* ... the size its Stat returned
    stamp,        \* ... the second in the name of its backup
    buf,          \* ... the stream it has opened
    taskErr,      \* some worker failed
    cancelled,    \* ctx.Err() # nil
    toDelete,     \* the rest of the loop over destMap
    stats,        \* SyncStats: each counter as the set of paths it counted
    result        \* what Sync returned

\* Auxiliary variables: read by properties, never by the code's steps.
VARIABLES
    dstTouched, srcTouched,  \* paths changed out of band since the run began
    cutOff,       \* <<call, path>> whose stream broke off and nobody noticed
    previous,     \* options, stats and copies cut off of the run before, if it was
                  \* complete and nobody else has changed either side since it began
    budget        \* what is left of the bounds on runs, edits, faults, cancels

store  == <<kinds, src, dst, backups>>
main   == <<phase, opts, srcList, destMap, toDelete, result>>
pool   == <<queue, pc, at, size, stamp, buf, taskErr>>
aux    == <<dstTouched, srcTouched, cutOff, previous>>
vars   == <<store, now, main, pool, cancelled, stats, aux, budget>>

-----------------------------------------------------------------------------
(* What the drivers and the comparator compute.                            *)

Present(s) == {p \in Path : s[p] # Absent}

\* One call of List: every object of a local store, the first page of a bucket.
Listed(s, kind) ==
    [p \in Path |->
       IF kind = "s3" => Cardinality({q \in Present(s) : q < p}) < Page
         THEN s[p] ELSE Absent]

Prefix_OneMore(c, n) == [c EXCEPT !.size = n + 1]

Prefix(c, n) == [c EXCEPT !.size = n]

\* What has been read of a stream that breaks off.
Cuts(c) == {Prefix(c, n) : n \in 1..(c.size - 1)}

ModTimeEpsilon == 1

\* Compare in its default mode, on the two listed entries.
StatCompare(s, d) ==
    LET diff == s.mtime - d.mtime IN
    CASE s.data.size # d.data.size -> "conflict"
      [] s.data.size = d.data.size /\ diff > ModTimeEpsilon -> "modified"
      [] s.data.size = d.data.size /\ diff < -ModTimeEpsilon -> "conflict"
      [] OTHER -> "identical"

NoStats == [transferred |-> {}, updated |-> {}, skipped |-> {},
            conflict |-> {}, deleted |-> {}]

\* A run that returned nil before anybody cancelled it.
Complete == result = "ok" /\ ~cancelled

Counted == stats.transferred \cup stats.updated \cup stats.skipped
Settled == Present(srcList) \subseteq Counted

Spend(what) == /\ budget[what] > 0
               /\ budget' = [budget EXCEPT ![what] = @ - 1]

-----------------------------------------------------------------------------
Init ==
    /\ kinds \in Kinds
    /\ src \in [Path -> [data : Content, mtime : SrcTimes] \cup {Absent}]
    /\ dst \in [Path -> [data : Content, mtime : {0}] \cup {Absent}]
    /\ backups = [k \in Path \X Time |-> Absent]
    /\ now = StartClock
    /\ phase = "idle"
    /\ opts = [checksum |-> FALSE, delete |-> FALSE, dryRun |-> FALSE, noBackup |-> FALSE]
    /\ srcList = [p \in Path |-> Absent]
    /\ destMap = [p \in Path |-> Absent]
    /\ queue = {}
    /\ pc = [w \in Worker |-> "exit"]
    /\ at = [w \in Worker |-> 1]
    /\ size = [w \in Worker |-> 1]
    /\ stamp = [w \in Worker |-> 0]
    /\ buf = [w \in Worker |-> Absent]
    /\ taskErr = FALSE
    /\ cancelled = FALSE
    /\ toDelete = {}
    /\ stats = NoStats
    /\ result = "none"
    /\ dstTouched = {} /\ srcTouched = {} /\ cutOff = {} /\ previous = {}
    /\ budget = [runs |-> MaxRuns, edits |-> MaxEdits,
                 faults |-> MaxFaults, cancels |-> MaxCancels]

-----------------------------------------------------------------------------
(* The main goroutine.                                                     *)

Return(r) == phase' = "idle" /\ result' = r

CutCopies == {p \in Path : <<"write", p>> \in cutOff}

\* Sync is called.
Start(o) ==
    /\ phase = "idle"
    /\ Spend("runs")
    /\ phase' = "listSrc"
    /\ opts' = o
    /\ result' = "none"
    /\ taskErr' = FALSE
    /\ cancelled' = FALSE
    /\ stats' = NoStats
    /\ previous' = IF Complete /\ dstTouched = {} /\ srcTouched = {}
                     THEN {<<opts, stats, CutCopies>>} ELSE {}
    /\ dstTouched' = {} /\ srcTouched' = {} /\ cutOff' = {}
    /\ UNCHANGED <<store, now, srcList, destMap, toDelete,
                   queue, pc, at, size, stamp, buf>>

\* A driver call fails when the context is cancelled or the backend says no.
Fails == \/ cancelled /\ UNCHANGED budget
         \/ ~cancelled /\ Spend("faults")

ListSrc ==
    /\ phase = "listSrc"
    /\ ~cancelled
    /\ srcList' = Listed(src, kinds.src)
    /\ phase' = "listDst"
    /\ UNCHANGED <<store, now, opts, destMap, toDelete, result, pool,
                   cancelled, stats, aux, budget>>

ListSrcFails ==
    /\ phase = "listSrc"
    /\ Fails
    /\ Return("error")
    /\ UNCHANGED <<store, now, opts, srcList, destMap, toDelete, pool,
                   cancelled, stats, aux>>

\* The tasks are queued in listing order and min(Workers, tasks) goroutines,
\* at least one, start to receive them.
Spawn ==
    LET tasks   == Cardinality(Present(srcList))
        started == IF tasks < NumWorkers THEN tasks ELSE NumWorkers
    IN  /\ phase' = "work"
        /\ queue' = Present(srcList)
        /\ pc' = [w \in Worker |-> IF w <= started \/ w = 1
                                     THEN "receive" ELSE "exit"]
        /\ UNCHANGED <<at, size, stamp, buf, taskErr>>

ListDst ==
    /\ phase = "listDst"
    /\ ~cancelled
    /\ destMap' = Listed(dst, kinds.dst)
    /\ Spawn
    /\ UNCHANGED <<store, now, opts, srcList, toDelete, result,
                   cancelled, stats, aux, budget>>

\* A listing that fails counts as an empty destination.
ListDstFails ==
    /\ phase = "listDst"
    /\ Fails
    /\ destMap' = [p \in Path |-> Absent]
    /\ Spawn
    /\ UNCHANGED <<store, now, opts, srcList, toDelete, result,
                   cancelled, stats, aux>>

Outcome_ErrorLost == "ok"
Outcome == IF taskErr THEN "error" ELSE "ok"

AfterWait_IgnoresErr == IF opts.delete THEN "delete" ELSE "idle"

\* Where wg.Wait() leads.
AfterWait == IF opts.delete /\ ~taskErr THEN "delete" ELSE "idle"

Wait ==
    /\ phase = "work"
    /\ \A w \in Worker : pc[w] = "exit"
    /\ phase' = AfterWait
    /\ toDelete' = Present(destMap)
    /\ result' = IF AfterWait = "delete" THEN "none" ELSE Outcome
    /\ UNCHANGED <<store, now, opts, srcList, destMap, pool,
                   cancelled, stats, aux, budget>>

Removes_DryRunToo == TRUE
Removes == ~opts.dryRun

Extraneous(p) == srcList[p] = Absent

\* One entry of the loop over destMap, in map order.
DeleteEntry(p) ==
    /\ phase = "delete"
    /\ p \in toDelete
    /\ ~cancelled
    /\ toDelete' = toDelete \ {p}
    /\ IF Extraneous(p)
         THEN /\ stats' = [stats EXCEPT !.deleted = @ \cup {p}]
              /\ dst' = IF Removes THEN [dst EXCEPT ![p] = Absent] ELSE dst
         ELSE UNCHANGED <<dst, stats>>
    /\ UNCHANGED <<kinds, src, backups, now, phase, opts, srcList, destMap, result,
                   pool, cancelled, aux, budget>>

\* ctx.Err() is looked at before every entry; Delete itself fails only on an
\* extraneous one, and a bucket may have deleted it though no answer came, or
\* none before a cancellation.
DeleteFails ==
    /\ phase = "delete"
    /\ toDelete # {}
    /\ \/ cancelled /\ UNCHANGED <<dst, budget>>
       \/ /\ ~cancelled /\ Removes /\ Spend("faults")
          /\ \E p \in {q \in toDelete : Extraneous(q)} :
               \/ UNCHANGED dst
               \/ kinds.dst = "s3" /\ dst' = [dst EXCEPT ![p] = Absent]
    /\ Return("error")
    /\ UNCHANGED <<kinds, src, backups, now, opts, srcList, destMap, toDelete, pool,
                   cancelled, stats, aux>>

DeleteEnds ==
    /\ phase = "delete"
    /\ toDelete = {}
    /\ Return("ok")
    /\ UNCHANGED <<store, now, opts, srcList, destMap, toDelete, pool,
                   cancelled, stats, aux, budget>>

Main == \/ ListSrc \/ ListSrcFails \/ ListDst \/ ListDstFails
        \/ Wait \/ DeleteFails \/ DeleteEnds
        \/ \E p \in Path : DeleteEntry(p)

-----------------------------------------------------------------------------
(* A worker.                                                               *)

Listing(w) == destMap[at[w]]
Exists(w)  == Listing(w) # Absent

\* The steps of a worker leave all of this alone.
WorkerFrame == UNCHANGED <<kinds, src, now, main, cancelled,
                           dstTouched, srcTouched, previous>>

\* The variables of a task die with it: the worker goes on to `next`.
TaskEnds(w, next) ==
    /\ pc' = [pc EXCEPT ![w] = next]
    /\ at' = [at EXCEPT ![w] = 1]
    /\ size' = [size EXCEPT ![w] = 1]
    /\ stamp' = [stamp EXCEPT ![w] = 0]
    /\ buf' = [buf EXCEPT ![w] = Absent]

ReceiveNext(w) ==
    /\ pc[w] = "receive"
    /\ queue # {} /\ ~cancelled
    /\ \E p \in queue :
         /\ \A q \in queue : p <= q
         /\ queue' = queue \ {p}
         /\ at' = [at EXCEPT ![w] = p]
         /\ pc' = [pc EXCEPT ![w] = IF destMap[p] = Absent THEN "open" ELSE "compare"]
    /\ UNCHANGED <<dst, backups, size, stamp, buf, taskErr, stats, cutOff, budget>>
    /\ WorkerFrame

Drained_NotClosed == FALSE

\* A worker that would receive learns that nothing will come.
Drained == queue = {}

\* The channel is empty and closed, or the context is cancelled: in that case
\* the received task is dropped.
ReceiveLast(w) ==
    /\ pc[w] = "receive"
    /\ \/ Drained /\ UNCHANGED queue
       \/ queue # {} /\ cancelled
          /\ queue' = {p \in queue : \E q \in queue : q < p}
    /\ pc' = [pc EXCEPT ![w] = "exit"]
    /\ UNCHANGED <<dst, backups, at, size, stamp, buf, taskErr, stats, cutOff, budget>>
    /\ WorkerFrame

NeedsBackup_ConflictOnly(status) == ~opts.noBackup /\ status = "conflict"
NeedsBackup(status) == ~opts.noBackup /\ status \in {"conflict", "modified"}

CountsNow_Never(status) == FALSE

\* BackupConflict counts its file when it has saved it; a dry run counts it here.
CountsNow(status) == NeedsBackup(status) /\ opts.dryRun

AfterJudge(status) ==
    CASE status = "identical" -> "receive"
      [] status # "identical" /\ NeedsBackup(status) /\ ~opts.dryRun -> "stat"
      [] OTHER -> "open"

\* What a worker does with the verdict on an existing destination file.
Judge(w, status) ==
    /\ IF AfterJudge(status) = "receive"
         THEN TaskEnds(w, "receive")
         ELSE /\ pc' = [pc EXCEPT ![w] = AfterJudge(status)]
              /\ UNCHANGED <<at, size, stamp, buf>>
    /\ stats' = [stats EXCEPT
                   !.skipped  = IF status = "identical" THEN @ \cup {at[w]} ELSE @,
                   !.conflict = IF CountsNow(status) THEN @ \cup {at[w]} ELSE @]

CompareListed(w) ==
    /\ pc[w] = "compare" /\ ~opts.checksum
    /\ Judge(w, StatCompare(srcList[at[w]], Listing(w)))
    /\ UNCHANGED <<dst, backups, queue, taskErr, cutOff, budget>>
    /\ WorkerFrame

HashSrc(w) ==
    /\ pc[w] = "compare" /\ opts.checksum
    /\ ~cancelled /\ src[at[w]] # Absent
    /\ buf' = [buf EXCEPT ![w] = src[at[w]].data]
    /\ pc' = [pc EXCEPT ![w] = "hashDst"]
    /\ UNCHANGED <<dst, backups, queue, at, size, stamp, taskErr, stats, cutOff, budget>>
    /\ WorkerFrame

HashVerdict_TimeToo(w) ==
    IF buf[w] = dst[at[w]].data
         /\ StatCompare(srcList[at[w]], Listing(w)) = "identical"
      THEN "identical" ELSE "conflict"

\* Equal SHA-256 sums, equal contents.
HashVerdict(w) == IF buf[w] = dst[at[w]].data THEN "identical" ELSE "conflict"

HashDst(w) ==
    /\ pc[w] = "hashDst"
    /\ ~cancelled /\ dst[at[w]] # Absent
    /\ Judge(w, HashVerdict(w))
    /\ UNCHANGED <<dst, backups, queue, taskErr, cutOff, budget>>
    /\ WorkerFrame

\* BackupConflict: the name's timestamp and the size, then the stream, then the copy.
BackupStat(w) ==
    /\ pc[w] = "stat"
    /\ ~cancelled /\ dst[at[w]] # Absent
    /\ stamp' = [stamp EXCEPT ![w] = now]
    /\ size' = [size EXCEPT ![w] = dst[at[w]].data.size]
    /\ pc' = [pc EXCEPT ![w] = "read"]
    /\ UNCHANGED <<dst, backups, queue, at, buf, taskErr, stats, cutOff, budget>>
    /\ WorkerFrame

BackupRead(w) ==
    /\ pc[w] = "read"
    /\ ~cancelled /\ dst[at[w]] # Absent
    /\ buf' = [buf EXCEPT ![w] = dst[at[w]].data]
    /\ pc' = [pc EXCEPT ![w] = "save"]
    /\ UNCHANGED <<dst, backups, queue, at, size, stamp, taskErr, stats, cutOff, budget>>
    /\ WorkerFrame

Announced_Dest(w) ==
    IF pc[w] = "save" THEN size[w]
    ELSE IF Exists(w) THEN Listing(w).data.size ELSE srcList[at[w]].data.size

\* The size a Write announces: a backup's is what Stat said, a copy's is what
\* the listing gave.
Announced(w) == IF pc[w] = "save" THEN size[w] ELSE srcList[at[w]].data.size

\* The S3 driver looks at the announced size to choose the kind of upload, and a
\* multipart upload takes whatever the stream yields.
InParts(w) == kinds.dst = "s3" /\ Announced(w) > Threshold

\* Anything else that is shorter than announced is an error.
TooShort(w) == ~InParts(w) /\ buf[w].size < Announced(w)

\* A backup reads the destination, a copy the source.
FromBucket(w) == IF pc[w] = "save" THEN kinds.dst = "s3" ELSE kinds.src = "s3"

\* What Write stores: the stream, or as much of it as was announced.
Written(w) == IF InParts(w) THEN buf[w] ELSE Prefix(buf[w], Announced(w))

\* What the stream may have left there when Write returns.
Copies(w) == {Written(w)} \cup Cuts(buf[w])

\* Write acknowledges a copy.  When the body it reads from a bucket breaks off,
\* io.ErrUnexpectedEOF is also what a short last part reads like, and the upload
\* is completed with what has come.
Acknowledges(w, copy) ==
    \/ copy = Written(w) /\ UNCHANGED <<cutOff, budget>>
    \/ /\ InParts(w) /\ FromBucket(w)
       /\ copy \in Cuts(buf[w])
       /\ cutOff' = cutOff \cup {<<pc[w], at[w]>>}
       /\ Spend("faults")

\* The call puts its copy there.
SaveBackup(w, copy) == backups' = [backups EXCEPT ![<<at[w], stamp[w]>>] = copy]
SaveCopy(w, copy)   == dst' = [dst EXCEPT ![at[w]] = [data |-> copy, mtime |-> now]]

BackupWrite(w) ==
    /\ pc[w] = "save"
    /\ ~cancelled /\ ~TooShort(w)
    /\ \E copy \in Copies(w) : Acknowledges(w, copy) /\ SaveBackup(w, copy)
    /\ stats' = [stats EXCEPT !.conflict = @ \cup {at[w]}]
    /\ pc' = [pc EXCEPT ![w] = "open"]
    /\ UNCHANGED <<dst, queue, at, size, stamp, buf, taskErr>>
    /\ WorkerFrame

\* The task is done: one counter or the other.
Count(w) ==
    stats' = IF Exists(w) THEN [stats EXCEPT !.updated = @ \cup {at[w]}]
                          ELSE [stats EXCEPT !.transferred = @ \cup {at[w]}]

CountDryRun(w) ==
    /\ pc[w] = "open" /\ opts.dryRun
    /\ Count(w)
    /\ TaskEnds(w, "receive")
    /\ UNCHANGED <<dst, backups, queue, taskErr, cutOff, budget>>
    /\ WorkerFrame

OpenSrc(w) ==
    /\ pc[w] = "open" /\ ~opts.dryRun
    /\ ~cancelled /\ src[at[w]] # Absent
    /\ buf' = [buf EXCEPT ![w] = src[at[w]].data]
    /\ pc' = [pc EXCEPT ![w] = "write"]
    /\ UNCHANGED <<dst, backups, queue, at, size, stamp, taskErr, stats, cutOff, budget>>
    /\ WorkerFrame

WriteDst(w) ==
    /\ pc[w] = "write"
    /\ ~cancelled /\ ~TooShort(w)
    /\ \E copy \in Copies(w) : Acknowledges(w, copy) /\ SaveCopy(w, copy)
    /\ Count(w)
    /\ TaskEnds(w, "receive")
    /\ UNCHANGED <<backups, queue, taskErr>>
    /\ WorkerFrame

Calling(w) == \/ pc[w] = "compare" /\ opts.checksum
              \/ pc[w] \in {"hashDst", "stat", "read", "save", "write"}
              \/ pc[w] = "open" /\ ~opts.dryRun

\* The call cannot succeed: the object is gone, or shorter than announced.
Impossible(w) ==
    \/ pc[w] \in {"compare", "open"} /\ src[at[w]] = Absent
    \/ pc[w] \in {"hashDst", "stat", "read"} /\ dst[at[w]] = Absent
    \/ pc[w] \in {"save", "write"} /\ TooShort(w)

\* The worker records its error, the first one wins, and returns.
CallFails(w) ==
    /\ Calling(w)
    /\ Fails \/ (Impossible(w) /\ UNCHANGED budget)
    /\ taskErr' = TRUE
    /\ TaskEnds(w, "exit")
    /\ UNCHANGED <<dst, backups, queue, stats, cutOff>>
    /\ WorkerFrame

\* A local Write whose rename keeps failing has removed its target by then.
WriteLosesTarget(w) ==
    /\ kinds.dst = "local"
    /\ pc[w] \in {"save", "write"}
    /\ ~cancelled /\ ~TooShort(w)
    /\ Spend("faults")
    /\ taskErr' = TRUE
    /\ TaskEnds(w, "exit")
    /\ IF pc[w] = "write"
         THEN dst' = [dst EXCEPT ![at[w]] = Absent] /\ UNCHANGED backups
         ELSE SaveBackup(w, Absent) /\ UNCHANGED dst
    /\ UNCHANGED <<queue, stats, cutOff>>
    /\ WorkerFrame

\* A bucket has stored what it was sent, but no answer came, or the context was
\* cancelled meanwhile: an error to the caller.
WriteUnanswered(w) ==
    /\ kinds.dst = "s3"
    /\ pc[w] \in {"save", "write"}
    /\ ~TooShort(w)
    /\ Fails
    /\ taskErr' = TRUE
    /\ TaskEnds(w, "exit")
    /\ IF pc[w] = "write"
         THEN SaveCopy(w, Written(w)) /\ UNCHANGED backups
         ELSE SaveBackup(w, Written(w)) /\ UNCHANGED dst
    /\ UNCHANGED <<queue, stats, cutOff>>
    /\ WorkerFrame

WorkerStep(w) ==
    \/ ReceiveNext(w) \/ ReceiveLast(w)
    \/ CompareListed(w) \/ HashSrc(w) \/ HashDst(w)
    \/ BackupStat(w) \/ BackupRead(w) \/ BackupWrite(w)
    \/ CountDryRun(w) \/ OpenSrc(w) \/ WriteDst(w)
    \/ CallFails(w) \/ WriteLosesTarget(w) \/ WriteUnanswered(w)

-----------------------------------------------------------------------------
(* Everybody else.                                                         *)

Changed(s, p) == {o \in Object : o # s[p] /\ (o # Absent => o.mtime = now)}

EditFrame == /\ Spend("edits")
             /\ previous' = {}
             /\ UNCHANGED <<kinds, backups, now, main, pool, cancelled, stats, cutOff>>

EditSrc(p) == /\ \E o \in Changed(src, p) : src' = [src EXCEPT ![p] = o]
              /\ srcTouched' = srcTouched \cup {p}
              /\ UNCHANGED <<dst, dstTouched>>
              /\ EditFrame

EditDst(p) == /\ \E o \in Changed(dst, p) : dst' = [dst EXCEPT ![p] = o]
              /\ dstTouched' = dstTouched \cup {p}
              /\ UNCHANGED <<src, srcTouched>>
              /\ EditFrame

Tick == /\ now < MaxClock
        /\ now' = now + 1
        /\ UNCHANGED <<store, main, pool, cancelled, stats, aux, budget>>

Cancel == /\ phase # "idle" /\ ~cancelled
          /\ Spend("cancels")
          /\ cancelled' = TRUE
          /\ UNCHANGED <<store, now, main, pool, stats, aux>>

Environment == \/ Tick \/ Cancel
               \/ \E p \in Path : EditSrc(p) \/ EditDst(p)

\* No run is left: the model may stop here and nowhere else.
Finished == phase = "idle" /\ budget.runs = 0 /\ UNCHANGED vars

Next == \/ \E o \in Options : Start(o)
        \/ Main
        \/ \E w \in Worker : WorkerStep(w)
        \/ Environment
        \/ Finished

\* A goroutine that can go on is eventually scheduled.
Fairness == WF_vars(Main) /\ \A w \in Worker : WF_vars(WorkerStep(w))

Spec     == Init /\ [][Next]_vars
FairSpec == Spec /\ Fairness

-----------------------------------------------------------------------------
(* Properties.                                                             *)

PC == {"receive", "compare", "hashDst", "stat", "read", "save", "open", "write", "exit"}

\* Every variable holds a value of its kind; in particular a file the engine
\* stores is never empty-handed or longer than the bytes it has read.
TypeOK ==
    /\ kinds \in Kinds
    /\ src \in [Path -> Object] /\ dst \in [Path -> Object]
    /\ backups \in [Path \X Time -> Content \cup {Absent}]
    /\ now \in Time
    /\ phase \in {"idle", "listSrc", "listDst", "work", "delete"}
    /\ opts \in SyncOptions
    /\ srcList \in [Path -> Object] /\ destMap \in [Path -> Object]
    /\ queue \subseteq Path
    /\ pc \in [Worker -> PC] /\ at \in [Worker -> Path]
    /\ size \in [Worker -> 1..MaxSize] /\ stamp \in [Worker -> Time]
    /\ buf \in [Worker -> Content \cup {Absent}]
    /\ taskErr \in BOOLEAN /\ cancelled \in BOOLEAN
    /\ toDelete \subseteq Path
    /\ stats \in Stats
    /\ result \in {"none", "ok", "error"}
    /\ dstTouched \subseteq Path /\ srcTouched \subseteq Path
    /\ cutOff \subseteq {"save", "write"} \X Path
    /\ previous \subseteq SyncOptions \X Stats \X SUBSET Path
    /\ budget \in [runs : Nat, edits : Nat, faults : Nat, cancels : Nat]

\* `there` is what the call has stored of the content `here`: all of it, or a part
\* if the stream broke off.
CopyOf(there, here, call, p) ==
    there = here \/ (<<call, p>> \in cutOff /\ there \in Cuts(here))

\* p has been copied or found equal in this run, so the two sides agree on it,
\* whatever the schedule of the workers and however the run ended, unless
\* somebody else changed either side meanwhile: a copy is the whole source file,
\* or the part of it that came before its stream broke off into a multipart
\* upload.  A file skipped on size and time alone is exempt.
Agree(p) ==
    ~opts.dryRun /\ (opts.checksum \/ p \notin stats.skipped)
        => /\ src[p] # Absent /\ dst[p] # Absent
           /\ CopyOf(dst[p].data, src[p].data, "write", p)

SettledAgree == \A p \in Counted \ (dstTouched \cup srcTouched) : Agree(p)

-----------------------------------------------------------------------------
(* The inductive invariant behind SettledAgree and ListedIsBackedUp.       *)

InBackup(p) == \E t \in Time : CopyOf(backups[<<p, t>>], dst[p].data, "save", p)

Busy(w) == pc[w] \notin {"receive", "exit"}

\* A task belongs to the channel, to one worker, or to the statistics.
TasksOwned ==
    /\ phase # "work" => \A w \in Worker : pc[w] = "exit"
    /\ phase \in {"listSrc", "listDst"} => stats = NoStats
    /\ phase = "work" => queue \subseteq Present(srcList) \ Counted
    /\ Counted \subseteq Present(srcList)
    /\ \A w \in Worker :
         Busy(w) => at[w] \in Present(srcList) \ (queue \cup Counted)
    /\ \A v, w \in Worker : Busy(v) /\ Busy(w) /\ v # w => at[v] # at[w]

\* The listing of the source is true of what nobody has changed since.
SourceSeen ==
    phase \in {"listDst", "work", "delete"} =>
        \A p \in Present(srcList) \ srcTouched : src[p] = srcList[p]

\* What a worker holds open is the whole file it is working on.
StreamOpen(w) ==
    /\ pc[w] \in {"hashDst", "save", "write"} => buf[w] # Absent
    /\ pc[w] \in {"hashDst", "write"} /\ at[w] \notin srcTouched
         => buf[w] = src[at[w]].data

StreamsOpen == \A w \in Worker : StreamOpen(w)

\* A worker past BackupConflict has left a copy of the file it is to replace.
BackupReady(w) ==
    /\ pc[w] \in {"compare", "hashDst", "stat", "read", "save"} => Exists(w)
    /\ pc[w] \in {"stat", "read", "save", "write"} => ~opts.dryRun
    /\ at[w] \notin dstTouched =>
         /\ pc[w] \in {"read", "save"} =>
              dst[at[w]] # Absent /\ size[w] = dst[at[w]].data.size
         /\ pc[w] = "save" => buf[w] = dst[at[w]].data
         /\ pc[w] \in {"open", "write"} /\ Exists(w)
              /\ ~opts.noBackup /\ ~opts.dryRun => InBackup(at[w])

BackupsReady == \A w \in Worker : BackupReady(w)

SyncInv == /\ TypeOK /\ TasksOwned /\ SourceSeen
           /\ StreamsOpen /\ BackupsReady /\ SettledAgree

-----------------------------------------------------------------------------
(* More properties.                                                        *)

\* Sync returned nil although nobody cancelled it: no task was dropped or lost,
\* also when workers failed or stopped early.
NilMeansAllSettled == Complete => Settled

\* Replacing (or losing) a destination file the listing showed and nobody else
\* has changed happens after its content is in the conflict directory: the whole
\* content, unless the stream of the backup itself broke off.
Replaces(p) == /\ phase = "work" /\ budget'.edits = budget.edits
               /\ dst[p] # Absent /\ dst'[p] # dst[p]

ListedIsBackedUp ==
    [][\A p \in Path :
         Replaces(p) /\ ~opts.noBackup /\ destMap[p] # Absent /\ p \notin dstTouched
             => InBackup(p)]_vars

\* --delete removes a file only when every task of the run has been settled,
\* and only a file the source does not have: a file the source still has goes
\* only if somebody put it there after the listing, or the source is a bucket and
\* the listing was one page of several.
DeletesOnlyOrphans ==
    [][\A p \in Path :
         phase = "delete" /\ budget'.edits = budget.edits
           /\ dst[p] # Absent /\ dst'[p] = Absent
             => /\ opts.delete /\ Settled /\ ~taskErr
                /\ src[p] = Absent \/ p \in srcTouched
                   \/ (kinds.src = "s3" /\ Page < NumPaths)]_vars

\* A dry run changes neither the destination nor the conflict directory.
DryRunIsPure ==
    [][opts.dryRun /\ phase # "idle" /\ budget'.edits = budget.edits
         => UNCHANGED store]_vars

\* A complete dry run announces exactly what the same run then does, provided
\* nothing was touched between and the backend did not fail.
DryRunPredicts ==
    \A r \in previous :
        Complete /\ budget.faults = MaxFaults
          /\ r[1].dryRun /\ opts = [r[1] EXCEPT !.dryRun = FALSE]
            => stats = r[2]

\* Once a run in checksum mode is complete, another one replaces nothing, and
\* displaces nothing into the conflict directory, but the files whose copies were
\* cut off.
ChecksumResyncIsQuiet ==
    \A r \in previous :
        ~r[1].dryRun /\ r[1].checksum /\ opts.checksum
            => stats.updated \cup stats.conflict \subseteq r[3]

\* Every call of Sync returns: main never waits for a worker that is gone.
RunReturns == (phase # "idle") ~> (phase = "idle")

(* What the documentation says and the code does not do.                   *)

\* pkg/sync/sync_test.go: the second run skips unchanged files, in any mode.
ResyncIsQuiet ==
    \A r \in previous : ~r[1].dryRun => stats.updated = {} /\ stats.conflict = {}

\* README.md: displaced target files are archived, whether or not the listing
\* of the destination could show them.
DisplacedIsBackedUp ==
    [][\A p \in Path :
         Replaces(p) /\ ~opts.noBackup /\ p \notin dstTouched => InBackup(p)]_vars
=============================================================================
