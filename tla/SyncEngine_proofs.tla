-------------------------- MODULE SyncEngine_proofs --------------------------
(***************************************************************************)
(* Proofs about SyncEngine, for every number of paths and workers, every   *)
(* page size, every pair of drivers, every set of options and every bound: *)
(* what a run writes, how it ends, and what two runs in a row have to do   *)
(* with each other.                                                        *)
(***************************************************************************)
EXTENDS SyncEngine, FiniteSetTheorems, TLAPS

USE BoundsAssumption, OptionsAssumption, KindsAssumption, AbsentAssumption

\* Paths and workers are numbers, and there is a path 1: the task of an idle worker.
LEMMA PathType == Path \subseteq Int /\ 1 \in Path /\ Worker \subseteq Int
  BY DEF Path, Worker

\* A page of a listing shows objects or nothing.
LEMMA ListedType ==
  ASSUME NEW s \in [Path -> Object], NEW kind
  PROVE  Listed(s, kind) \in [Path -> Object]
  BY DEF Listed, Object

\* An object that is there has a content and a time.
LEMMA DataType ==
  ASSUME NEW o \in Object, o # Absent
  PROVE  /\ o.data \in Content /\ o.mtime \in Time
         /\ o.data.size \in 1..MaxSize
  BY DEF Object, File, Content

\* A prefix of a content is a content, and of its own length the same one.
LEMMA PrefixType ==
  ASSUME NEW c \in Content, NEW n \in 1..MaxSize
  PROVE  Prefix(c, n) \in Content /\ (n = c.size => Prefix(c, n) = c)
  BY DEF Prefix, Content

\* What is left of a content that breaks off is a content.
LEMMA CutsType ==
  ASSUME NEW c \in Content
  PROVE  Cuts(c) \subseteq Content
<1> SUFFICES ASSUME NEW n \in 1..(c.size - 1) PROVE Prefix(c, n) \in Content
  BY DEF Cuts
<1>1. c.size \in 1..MaxSize
  BY DEF Content
<1>2. n \in 1..MaxSize
  BY <1>1
<1> QED
  BY <1>2, PrefixType

\* What Write stores is an object, and not the absence of one.
LEMMA FileType ==
  ASSUME NEW c \in Content, NEW t \in Time
  PROVE  /\ [data |-> c, mtime |-> t] \in Object
         /\ [data |-> c, mtime |-> t] # Absent
         /\ [data |-> c, mtime |-> t].data = c
  BY DEF Object, File

-----------------------------------------------------------------------------
(* Type correctness.                                                       *)

\* The initial states have the types of TypeOK.
LEMMA TypeInit == Init => TypeOK
<1> SUFFICES ASSUME Init PROVE TypeOK
  OBVIOUS
<1>1. src \in [Path -> Object] /\ dst \in [Path -> Object]
  BY DEF Init, Object, File, Time
<1>2. backups \in [Path \X Time -> Content \cup {Absent}]
  BY DEF Init
<1>3. at \in [Worker -> Path] /\ size \in [Worker -> 1..MaxSize]
      /\ stamp \in [Worker -> Time] /\ pc \in [Worker -> PC]
  BY DEF Init, Path, Time, PC
<1>4. stats \in Stats
  BY DEF Init, NoStats, Stats
<1>5. budget \in [runs : Nat, edits : Nat, faults : Nat, cancels : Nat]
  BY DEF Init
<1>6. opts \in SyncOptions /\ now \in Time
  BY DEF Init, SyncOptions, Time
<1> QED
  BY <1>1, <1>2, <1>3, <1>4, <1>5, <1>6 DEF Init, TypeOK, Object

\* Spending from the budget leaves a budget.
LEMMA SpendType ==
  ASSUME budget \in [runs : Nat, edits : Nat, faults : Nat, cancels : Nat],
         NEW what \in {"runs", "edits", "faults", "cancels"}, Spend(what)
  PROVE  budget' \in [runs : Nat, edits : Nat, faults : Nat, cancels : Nat]
<1>1. CASE what = "runs"    BY <1>1 DEF Spend
<1>2. CASE what = "edits"   BY <1>2 DEF Spend
<1>3. CASE what = "faults"  BY <1>3 DEF Spend
<1>4. CASE what = "cancels" BY <1>4 DEF Spend
<1> QED BY <1>1, <1>2, <1>3, <1>4

\* A failing driver call leaves a budget.
LEMMA FailsType ==
  ASSUME TypeOK, Fails
  PROVE  budget' \in [runs : Nat, edits : Nat, faults : Nat, cancels : Nat]
  BY SpendType DEF TypeOK, Fails

\* A call of Sync keeps the types.
LEMMA StartType ==
  ASSUME TypeOK, NEW o \in Options, Start(o)
  PROVE  TypeOK'
<1>1. budget' \in [runs : Nat, edits : Nat, faults : Nat, cancels : Nat]
  BY SpendType DEF TypeOK, Start
<1>2. stats' \in Stats /\ opts' \in SyncOptions
  BY DEF Start, NoStats, Stats
<1>3. previous' \subseteq SyncOptions \X Stats \X SUBSET Path
  <2>1. opts \in SyncOptions /\ stats \in Stats /\ CutCopies \in SUBSET Path
    BY DEF TypeOK, CutCopies
  <2>2. \A r \in previous' : r = <<opts, stats, CutCopies>>
    BY DEF Start
  <2> QED
    BY <2>1, <2>2
<1> QED
  BY <1>1, <1>2, <1>3 DEF TypeOK, Start, store

\* A step of the main goroutine keeps the types.
LEMMA MainType ==
  ASSUME TypeOK, Main
  PROVE  TypeOK'
<1> USE DEF TypeOK, store, main, pool, aux
<1>1. CASE ListSrc
  BY <1>1, ListedType DEF ListSrc
<1>2. CASE ListSrcFails
  BY <1>2, FailsType DEF ListSrcFails, Return
<1>3. ASSUME Spawn
      PROVE  /\ phase' = "work" /\ queue' \subseteq Path
             /\ pc' \in [Worker -> PC]
             /\ UNCHANGED <<at, size, stamp, buf, taskErr>>
  BY <1>3 DEF Spawn, Present, PC
<1>4. CASE ListDst
  BY <1>3, <1>4, ListedType DEF ListDst
<1>5. CASE ListDstFails
  BY <1>3, <1>5, FailsType DEF ListDstFails, Object
<1>6. CASE Wait
  BY <1>6 DEF Wait, AfterWait, Outcome, Present
<1>7. CASE DeleteFails
  <2>1. dst' \in [Path -> Object]
    BY <1>7 DEF DeleteFails, Object
  <2>2. budget' \in [runs : Nat, edits : Nat, faults : Nat, cancels : Nat]
    BY <1>7, SpendType DEF DeleteFails
  <2> QED
    BY <1>7, <2>1, <2>2 DEF DeleteFails, Return
<1>8. CASE DeleteEnds
  BY <1>8 DEF DeleteEnds, Return
<1>9. ASSUME NEW p \in Path, DeleteEntry(p)
      PROVE  TypeOK'
  <2>1. stats' \in Stats
    BY <1>9 DEF DeleteEntry, Stats
  <2>2. dst' \in [Path -> Object]
    BY <1>9 DEF DeleteEntry, Object
  <2> QED
    BY <1>9, <2>1, <2>2 DEF DeleteEntry
<1> QED
  BY <1>1, <1>2, <1>4, <1>5, <1>6, <1>7, <1>8, <1>9 DEF Main

\* A worker's step: what it does to its own variables, and the rest.
LEMMA TaskEndsType ==
  ASSUME TypeOK, NEW w \in Worker, NEW next \in PC, TaskEnds(w, next)
  PROVE  /\ pc' \in [Worker -> PC] /\ at' \in [Worker -> Path]
         /\ size' \in [Worker -> 1..MaxSize] /\ stamp' \in [Worker -> Time]
         /\ buf' \in [Worker -> Content \cup {Absent}]
  BY PathType DEF TypeOK, TaskEnds, Time

\* The comparison gives one of three verdicts on an existing file.
LEMMA StatusType ==
  /\ \A s, d : StatCompare(s, d) \in {"identical", "modified", "conflict"}
  /\ \A w : HashVerdict(w) \in {"identical", "modified", "conflict"}
  BY DEF StatCompare, HashVerdict

\* Acting on a verdict keeps the types.
LEMMA JudgeType ==
  ASSUME TypeOK, NEW w \in Worker, NEW status, Judge(w, status)
  PROVE  /\ pc' \in [Worker -> PC] /\ at' \in [Worker -> Path]
         /\ size' \in [Worker -> 1..MaxSize] /\ stamp' \in [Worker -> Time]
         /\ buf' \in [Worker -> Content \cup {Absent}]
         /\ stats' \in Stats
<1>1. AfterJudge(status) \in PC
  BY DEF AfterJudge, PC
<1>2. at[w] \in Path /\ stats \in Stats
  BY DEF TypeOK
<1>3. stats' \in Stats
  BY <1>2 DEF Judge, Stats
<1>4. CASE AfterJudge(status) = "receive"
  BY <1>1, <1>3, <1>4, TaskEndsType DEF Judge
<1>5. CASE AfterJudge(status) # "receive"
  BY <1>1, <1>3, <1>5 DEF Judge, TypeOK
<1> QED BY <1>4, <1>5

\* Counting a finished task keeps the type of the statistics.
LEMMA CountType ==
  ASSUME TypeOK, NEW w \in Worker, Count(w)
  PROVE  stats' \in Stats
  BY DEF TypeOK, Count, Stats

\* A write that is acknowledged may note that its stream broke off, and costs a
\* fault then; what it stores is a content.
LEMMA AcknowledgedType ==
  ASSUME TypeOK, NEW w \in Worker, pc[w] \in {"save", "write"},
         NEW copy, Acknowledges(w, copy)
  PROVE  /\ cutOff' \subseteq {"save", "write"} \X Path /\ cutOff \subseteq cutOff'
         /\ budget' \in [runs : Nat, edits : Nat, faults : Nat, cancels : Nat]
         /\ budget'.edits = budget.edits
<1>1. at[w] \in Path
  BY DEF TypeOK
<1>2. CASE UNCHANGED <<cutOff, budget>>
  BY <1>2 DEF TypeOK
<1>3. CASE cutOff' = cutOff \cup {<<pc[w], at[w]>>} /\ Spend("faults")
  <2>1. budget' \in [runs : Nat, edits : Nat, faults : Nat, cancels : Nat]
    BY <1>3, SpendType DEF TypeOK
  <2>2. budget'.edits = budget.edits
    BY <1>3 DEF Spend, TypeOK
  <2> QED
    BY <1>1, <1>3, <2>1, <2>2 DEF TypeOK
<1> QED
  BY <1>2, <1>3 DEF Acknowledges

\* The size a call announces is one an object can have.
LEMMA AnnouncedType ==
  ASSUME TypeOK, NEW w \in Worker, srcList[at[w]] # Absent
  PROVE  Announced(w) \in 1..MaxSize
<1>1. srcList[at[w]] \in Object /\ size[w] \in 1..MaxSize
  BY DEF TypeOK
<1> QED
  BY <1>1, DataType DEF Announced

\* What Write stores when nothing breaks off is a content.
LEMMA WrittenType ==
  ASSUME TypeOK, NEW w \in Worker, srcList[at[w]] # Absent, buf[w] \in Content
  PROVE  Written(w) \in Content
  BY AnnouncedType, PrefixType DEF Written

\* ... and so is what it stores of a stream that breaks off.
LEMMA CopiesType ==
  ASSUME TypeOK, NEW w \in Worker, srcList[at[w]] # Absent, buf[w] \in Content
  PROVE  Copies(w) \subseteq Content
  BY WrittenType, CutsType DEF Copies

\* Storing a content under the name of a backup, or none, keeps the backups' type.
LEMMA SaveBackupType ==
  ASSUME TypeOK, NEW w \in Worker, NEW copy \in Content \cup {Absent}, SaveBackup(w, copy)
  PROVE  backups' \in [Path \X Time -> Content \cup {Absent}]
  BY DEF TypeOK, SaveBackup

\* Storing a copy keeps the type of the destination.
LEMMA SaveCopyType ==
  ASSUME TypeOK, NEW w \in Worker, NEW copy \in Content, SaveCopy(w, copy)
  PROVE  dst' \in [Path -> Object]
<1>1. [data |-> copy, mtime |-> now] \in Object
  BY FileType DEF TypeOK
<1> QED
  BY <1>1 DEF TypeOK, SaveCopy

\* A worker step keeps the types: the streams it copies are open.
LEMMA WorkerType ==
  ASSUME TypeOK, TasksOwned, StreamsOpen, NEW w \in Worker, WorkerStep(w)
  PROVE  TypeOK'
<1> USE DEF TypeOK, WorkerFrame, main
<1>a. at[w] \in Path
  OBVIOUS
<1>b. "receive" \in PC /\ "exit" \in PC
  BY DEF PC
<1>c. pc[w] \in {"hashDst", "save", "write"} => buf[w] \in Content
  BY DEF StreamsOpen, StreamOpen
<1>d. Busy(w) => srcList[at[w]] # Absent
  BY DEF TasksOwned, Present
<1>1. CASE ReceiveNext(w)
  BY <1>1 DEF ReceiveNext, PC
<1>2. CASE ReceiveLast(w)
  BY <1>2 DEF ReceiveLast, PC
<1>3. CASE CompareListed(w)
  BY <1>3, JudgeType DEF CompareListed
<1>4. CASE HashSrc(w)
  BY <1>4, DataType DEF HashSrc, PC
<1>5. CASE HashDst(w)
  BY <1>5, JudgeType DEF HashDst
<1>6. CASE BackupStat(w)
  BY <1>6, DataType DEF BackupStat, PC
<1>7. CASE BackupRead(w)
  BY <1>7, DataType DEF BackupRead, PC
<1>8. CASE BackupWrite(w)
  <2>1. PICK copy \in Copies(w) : Acknowledges(w, copy) /\ SaveBackup(w, copy)
    BY <1>8 DEF BackupWrite
  <2>0. copy \in Content
    BY <1>8, <1>c, <1>d, <2>1, CopiesType DEF BackupWrite, Busy
  <2>2. stats' \in Stats
    BY <1>8, <1>a DEF BackupWrite, Stats
  <2>3. backups' \in [Path \X Time -> Content \cup {Absent}]
    BY <2>0, <2>1, SaveBackupType
  <2>4. /\ cutOff' \subseteq {"save", "write"} \X Path
        /\ budget' \in [runs : Nat, edits : Nat, faults : Nat, cancels : Nat]
    BY <1>8, <2>1, AcknowledgedType DEF BackupWrite
  <2> QED
    BY <1>8, <2>2, <2>3, <2>4 DEF BackupWrite, PC
<1>9. CASE CountDryRun(w)
  BY <1>9, <1>b, CountType, TaskEndsType DEF CountDryRun
<1>10. CASE OpenSrc(w)
  BY <1>10, DataType DEF OpenSrc, PC
<1>11. CASE WriteDst(w)
  <2>1. PICK copy \in Copies(w) : Acknowledges(w, copy) /\ SaveCopy(w, copy)
    BY <1>11 DEF WriteDst
  <2>0. copy \in Content
    BY <1>11, <1>c, <1>d, <2>1, CopiesType DEF WriteDst, Busy
  <2>2. dst' \in [Path -> Object]
    BY <2>0, <2>1, SaveCopyType
  <2>3. /\ cutOff' \subseteq {"save", "write"} \X Path
        /\ budget' \in [runs : Nat, edits : Nat, faults : Nat, cancels : Nat]
    BY <1>11, <2>1, AcknowledgedType DEF WriteDst
  <2> QED
    BY <1>11, <1>b, <2>2, <2>3, CountType, TaskEndsType DEF WriteDst
<1>12. CASE CallFails(w)
  BY <1>12, <1>b, FailsType, TaskEndsType DEF CallFails
<1>13. CASE WriteLosesTarget(w)
  BY <1>13, <1>b, SpendType, TaskEndsType, SaveBackupType DEF WriteLosesTarget, Object
<1>14. CASE WriteUnanswered(w)
  <2>1. srcList[at[w]] # Absent /\ buf[w] \in Content
    BY <1>14, <1>c, <1>d DEF WriteUnanswered, Busy
  <2>2. Written(w) \in Content
    BY <2>1, WrittenType
  <2>3. dst' \in [Path -> Object]
    BY <1>14, <2>2, SaveCopyType DEF WriteUnanswered
  <2>4. backups' \in [Path \X Time -> Content \cup {Absent}]
    BY <1>14, <2>2, SaveBackupType DEF WriteUnanswered
  <2> QED
    BY <1>14, <1>b, <2>3, <2>4, FailsType, TaskEndsType DEF WriteUnanswered
<1> QED
  BY <1>1, <1>2, <1>3, <1>4, <1>5, <1>6, <1>7, <1>8, <1>9, <1>10, <1>11,
     <1>12, <1>13, <1>14 DEF WorkerStep

\* The clock, a cancellation and out-of-band changes keep the types.
LEMMA EnvironmentType ==
  ASSUME TypeOK, Environment
  PROVE  TypeOK'
<1> USE DEF TypeOK, store, main, pool, aux
<1>1. CASE Tick
  BY <1>1 DEF Tick, Time
<1>2. CASE Cancel
  BY <1>2, SpendType DEF Cancel
<1>3. ASSUME NEW p \in Path, EditSrc(p)
      PROVE  TypeOK'
  BY <1>3, SpendType DEF EditSrc, EditFrame, Changed
<1>4. ASSUME NEW p \in Path, EditDst(p)
      PROVE  TypeOK'
  BY <1>4, SpendType DEF EditDst, EditFrame, Changed
<1> QED
  BY <1>1, <1>2, <1>3, <1>4 DEF Environment

\* Every step keeps the types.
LEMMA TypeStep == SyncInv /\ [Next]_vars => TypeOK'
<1> SUFFICES ASSUME SyncInv, [Next]_vars PROVE TypeOK'
  OBVIOUS
<1> USE DEF SyncInv
<1>1. CASE UNCHANGED vars
  BY <1>1 DEF TypeOK, vars, store, main, pool, aux
<1>2. CASE Finished
  BY <1>2 DEF Finished, TypeOK, vars, store, main, pool, aux
<1> QED
  BY <1>1, <1>2, StartType, MainType, WorkerType, EnvironmentType DEF Next

-----------------------------------------------------------------------------
(* How a run ends: the inductive invariant.                                *)

\* The inductive invariant holds at the start.
LEMMA InvInit == Init => SyncInv
<1> SUFFICES ASSUME Init PROVE SyncInv
  OBVIOUS
<1>1. TypeOK
  BY TypeInit
<1>2. Counted = {}
  BY DEF Init, Counted, NoStats
<1>3. TasksOwned
  BY <1>2 DEF Init, TasksOwned, Busy
<1>4. SourceSeen /\ StreamsOpen /\ BackupsReady
  BY DEF Init, SourceSeen, StreamsOpen, StreamOpen, BackupsReady, BackupReady
<1>5. SettledAgree
  BY <1>2 DEF SettledAgree, Agree, CopyOf
<1> QED
  BY <1>1, <1>3, <1>4, <1>5 DEF SyncInv

\* A call of Sync starts with no task, no worker and no statistics.
LEMMA StartInv ==
  ASSUME SyncInv, NEW o \in Options, Start(o)
  PROVE  SyncInv'
<1> USE DEF SyncInv
<1>1. TypeOK'
  BY StartType
<1>2. Counted' = {}
  BY DEF Start, Counted, NoStats
<1>3. \A w \in Worker : pc'[w] = "exit"
  BY DEF Start, TasksOwned
<1>4. TasksOwned'
  BY <1>2, <1>3 DEF Start, TasksOwned, Busy
<1>5. SourceSeen' /\ StreamsOpen' /\ BackupsReady'
  BY <1>3 DEF Start, SourceSeen, StreamsOpen, StreamOpen, BackupsReady, BackupReady
<1>6. SettledAgree'
  BY <1>2 DEF SettledAgree, Agree, CopyOf
<1> QED
  BY <1>1, <1>4, <1>5, <1>6

\* While no worker runs, the conjuncts about workers hold.
LEMMA NoWorkers ==
  ASSUME \A w \in Worker : pc[w] \in {"receive", "exit"}
  PROVE  StreamsOpen /\ BackupsReady
  BY DEF StreamsOpen, StreamOpen, BackupsReady, BackupReady

\* Queuing the tasks and starting the workers gives every task to the channel.
LEMMA SpawnInv ==
  ASSUME SyncInv, phase = "listDst", Spawn,
         UNCHANGED <<store, srcList, opts, stats, srcTouched, dstTouched, cutOff>>
  PROVE  TasksOwned' /\ SourceSeen' /\ StreamsOpen' /\ BackupsReady' /\ SettledAgree'
<1> USE DEF SyncInv
<1>1. \A w \in Worker : pc'[w] \in {"receive", "exit"}
  BY DEF Spawn
<1>2. Counted = {} /\ Counted' = {}
  BY DEF TasksOwned, Counted, NoStats
<1>3. TasksOwned'
  BY <1>1, <1>2 DEF TasksOwned, Spawn, Busy, Present
<1>4. SourceSeen'
  BY DEF SourceSeen, Spawn, store, Present
<1>5. StreamsOpen' /\ BackupsReady'
  BY <1>1 DEF StreamsOpen, StreamOpen, BackupsReady, BackupReady
<1>6. SettledAgree'
  BY <1>2 DEF SettledAgree, Agree, CopyOf
<1> QED
  BY <1>3, <1>4, <1>5, <1>6

\* A step of the main goroutine keeps the inductive invariant.
LEMMA MainInv ==
  ASSUME SyncInv, Main
  PROVE  SyncInv'
<1> USE DEF SyncInv, store, main, pool, aux
<1>0. TypeOK'
  BY MainType
<1>1. CASE ListSrc
  <2>1. Counted = {} /\ Counted' = {}
    BY <1>1 DEF ListSrc, TasksOwned, Counted, NoStats
  <2>2. TasksOwned'
    BY <1>1, <2>1 DEF ListSrc, TasksOwned, Busy
  <2>3. SourceSeen'
    BY <1>1 DEF ListSrc, SourceSeen, Listed, Present
  <2>4. StreamsOpen' /\ BackupsReady'
    BY <1>1 DEF ListSrc, TasksOwned, StreamsOpen, StreamOpen, BackupsReady, BackupReady
  <2>5. SettledAgree'
    BY <2>1 DEF SettledAgree, Agree, CopyOf
  <2> QED
    BY <1>0, <2>2, <2>3, <2>4, <2>5
<1>2. CASE ListDst \/ ListDstFails
  BY <1>0, <1>2, SpawnInv DEF ListDst, ListDstFails
<1>3. CASE ListSrcFails \/ Wait \/ DeleteEnds
  <2>1. /\ UNCHANGED <<src, dst, backups, opts, srcList, destMap, queue, pc, at,
                       size, buf, stats, dstTouched, srcTouched, cutOff>>
        /\ phase # "idle" /\ phase' \in {"idle", "delete"}
        /\ phase' = "delete" => phase = "work"
        /\ phase' = "idle" => phase \in {"listSrc", "work", "delete"}
        /\ \A w \in Worker : pc[w] = "exit"
    BY <1>3 DEF ListSrcFails, Wait, DeleteEnds, Return, AfterWait, TasksOwned
  <2>2. Counted' = Counted
    BY <2>1 DEF Counted
  <2>3. TasksOwned'
    BY <2>1, <2>2 DEF TasksOwned, Busy, Present
  <2>4. SourceSeen'
    BY <2>1 DEF SourceSeen, Present
  <2>5. StreamsOpen' /\ BackupsReady'
    BY <2>1 DEF StreamsOpen, StreamOpen, BackupsReady, BackupReady
  <2>6. SettledAgree'
    BY <2>1, <2>2 DEF SettledAgree, Agree, CopyOf
  <2> QED
    BY <1>0, <2>3, <2>4, <2>5, <2>6
<1>4. ASSUME DeleteFails \/ \E p \in Path : DeleteEntry(p)
      PROVE  SyncInv'
  <2>1. /\ UNCHANGED <<src, backups, opts, srcList, destMap, queue, pc, at,
                       size, buf, dstTouched, srcTouched, cutOff>>
        /\ phase = "delete" /\ phase' \in {"idle", "delete"}
        /\ \A w \in Worker : pc[w] = "exit"
    BY <1>4 DEF DeleteEntry, DeleteFails, Return, TasksOwned
  <2>2. Counted' = Counted
        /\ stats'.skipped = stats.skipped
    BY <1>4 DEF DeleteEntry, DeleteFails, Counted, TypeOK, Stats
  <2>3. \A q \in Present(srcList) : dst'[q] = dst[q]
    BY <1>4 DEF DeleteEntry, DeleteFails, Extraneous, Present, TypeOK
  <2>4. TasksOwned'
    BY <2>1, <2>2 DEF TasksOwned, Busy, Present
  <2>5. SourceSeen'
    BY <2>1 DEF SourceSeen, Present
  <2>6. StreamsOpen' /\ BackupsReady'
    BY <2>1 DEF StreamsOpen, StreamOpen, BackupsReady, BackupReady
  <2>7. SettledAgree'
    BY <2>1, <2>2, <2>3 DEF SettledAgree, Agree, CopyOf, TasksOwned
  <2> QED
    BY <1>0, <2>4, <2>5, <2>6, <2>7
<1> QED
  BY <1>1, <1>2, <1>3, <1>4 DEF Main

\* Out-of-band changes are remembered, so they keep the inductive invariant.
LEMMA EnvironmentInv ==
  ASSUME SyncInv, Environment
  PROVE  SyncInv'
<1> USE DEF SyncInv, store, main, pool, aux
<1>0. TypeOK'
  BY EnvironmentType
<1>1. CASE Tick \/ Cancel
  <2>1. UNCHANGED <<src, dst, backups, phase, opts, srcList, destMap, queue, pc, at,
                    size, buf, stats, dstTouched, srcTouched, cutOff>>
    BY <1>1 DEF Tick, Cancel
  <2>2. TasksOwned' /\ SourceSeen' /\ SettledAgree'
    BY <2>1 DEF TasksOwned, SourceSeen, SettledAgree, Agree, CopyOf, Busy, Counted, Present
  <2>3. StreamsOpen' /\ BackupsReady'
    BY <2>1
       DEF StreamsOpen, StreamOpen, BackupsReady, BackupReady, Exists, Listing, InBackup, CopyOf
  <2> QED
    BY <1>0, <2>2, <2>3
<1>2. ASSUME NEW p \in Path, EditSrc(p) \/ EditDst(p)
      PROVE  SyncInv'
  <2>1. UNCHANGED <<backups, phase, opts, srcList, destMap, queue, pc, at,
                    size, buf, stats, cutOff>>
    BY <1>2 DEF EditSrc, EditDst, EditFrame
  <2>2. /\ srcTouched \subseteq srcTouched' /\ dstTouched \subseteq dstTouched'
        /\ \A q \in Path \ srcTouched' : src'[q] = src[q]
        /\ \A q \in Path \ dstTouched' : dst'[q] = dst[q]
    BY <1>2 DEF EditSrc, EditDst, TypeOK
  <2>3. TasksOwned'
    BY <2>1 DEF TasksOwned, Busy, Counted, Present
  <2>4. SourceSeen'
    BY <2>1, <2>2 DEF SourceSeen, Present
  <2>5. StreamsOpen'
    BY <2>1, <2>2 DEF StreamsOpen, StreamOpen, TypeOK
  <2>6. ASSUME NEW w \in Worker
        PROVE  BackupReady(w)'
    <3>1. at[w] \in Path /\ at' = at /\ Exists(w)' = Exists(w)
      BY <2>1 DEF TypeOK, Exists, Listing
    <3>2. at[w] \notin dstTouched' =>
            dst'[at[w]] = dst[at[w]] /\ InBackup(at[w])' = InBackup(at[w])
      BY <2>1, <2>2, <3>1 DEF InBackup, CopyOf
    <3> QED
      BY <2>1, <2>2, <3>1, <3>2 DEF BackupsReady, BackupReady
  <2>7. SettledAgree'
    BY <2>1, <2>2 DEF SettledAgree, Agree, CopyOf, Counted, TypeOK, Stats
  <2> QED
    BY <1>0, <2>3, <2>4, <2>5, <2>6, <2>7 DEF BackupsReady
<1> QED
  BY <1>1, <1>2 DEF Environment

-----------------------------------------------------------------------------
(* The steps of a worker.                                                  *)

\* What a step of worker w may touch: its own variables, the destination and
\* the backups of its own task, the channel and the statistics.
StepFrame(w) ==
    /\ UNCHANGED <<kinds, src, phase, opts, srcList, destMap, dstTouched, srcTouched>>
    /\ cutOff \subseteq cutOff'
    /\ phase = "work"
    /\ \A v \in Worker \ {w} : /\ pc'[v] = pc[v] /\ at'[v] = at[v]
                               /\ size'[v] = size[v] /\ buf'[v] = buf[v]
    /\ \A p \in Path \ {at[w]} :
         dst'[p] = dst[p] /\ \A t \in Time : backups'[<<p, t>>] = backups[<<p, t>>]
    /\ \/ Busy(w)
       \/ UNCHANGED <<dst, backups, stats>>
    /\ queue' \subseteq queue
    /\ Counted' \in {Counted, Counted \cup {at[w]}}
    /\ stats.skipped \subseteq stats'.skipped

\* The statistics after a task has been counted.
LEMMA CountedBy ==
  ASSUME TypeOK, NEW w \in Worker, Count(w)
  PROVE  Counted' = Counted \cup {at[w]} /\ stats'.skipped = stats.skipped
  BY DEF TypeOK, Count, Counted, Stats

\* The statistics after a verdict: an identical file has been counted.
LEMMA JudgedBy ==
  ASSUME TypeOK, NEW w \in Worker, NEW status, Judge(w, status)
  PROVE  /\ status = "identical"
              => /\ Counted' = Counted \cup {at[w]}
                 /\ stats'.skipped = stats.skipped \cup {at[w]}
         /\ status # "identical"
              => Counted' = Counted /\ stats'.skipped = stats.skipped
  BY DEF TypeOK, Judge, Counted, Stats

\* What a worker step leaves alone, and what it may do to the stores.
LEMMA WorkerFrames ==
  ASSUME SyncInv, NEW w \in Worker, WorkerStep(w)
  PROVE  StepFrame(w)
<1> USE DEF SyncInv, WorkerFrame, main, Busy
<1>0. at[w] \in Path /\ stamp[w] \in Time
  BY DEF TypeOK
<1>1. phase = "work"
  <2>1. pc[w] # "exit"
    BY DEF WorkerStep, ReceiveNext, ReceiveLast, CompareListed, HashSrc, HashDst,
           BackupStat, BackupRead, BackupWrite, CountDryRun, OpenSrc, WriteDst,
           CallFails, Calling, WriteLosesTarget, WriteUnanswered
  <2> QED
    BY <2>1 DEF TasksOwned
<1>2. CASE ReceiveNext(w) \/ ReceiveLast(w)
  BY <1>1, <1>2 DEF ReceiveNext, ReceiveLast, StepFrame, TypeOK, Counted
<1>3. CASE CompareListed(w) \/ HashDst(w)
  <2>1. /\ UNCHANGED <<dst, backups, queue, cutOff>> /\ WorkerFrame
        /\ pc[w] \in {"compare", "hashDst"}
    BY <1>3 DEF CompareListed, HashDst
  <2>2. PICK status : Judge(w, status)
    BY <1>3 DEF CompareListed, HashDst
  <2>3. \A v \in Worker \ {w} : /\ pc'[v] = pc[v] /\ at'[v] = at[v]
                                /\ size'[v] = size[v] /\ buf'[v] = buf[v]
    BY <2>2 DEF Judge, TaskEnds, TypeOK
  <2>4. Counted' \in {Counted, Counted \cup {at[w]}} /\ stats.skipped \subseteq stats'.skipped
    BY <2>2, JudgedBy
  <2> QED
    BY <1>1, <2>1, <2>3, <2>4 DEF StepFrame
<1>4. CASE HashSrc(w) \/ BackupStat(w) \/ BackupRead(w) \/ OpenSrc(w)
  BY <1>1, <1>4 DEF HashSrc, BackupStat, BackupRead, OpenSrc, StepFrame, TypeOK, Counted
<1>5. CASE BackupWrite(w)
  <2>1. PICK copy \in Copies(w) : Acknowledges(w, copy) /\ SaveBackup(w, copy)
    BY <1>5 DEF BackupWrite
  <2>2. cutOff \subseteq cutOff'
    BY <1>5, <2>1, AcknowledgedType DEF BackupWrite
  <2>3. \A p \in Path \ {at[w]} :
           \A t \in Time : backups'[<<p, t>>] = backups[<<p, t>>]
    BY <1>0, <2>1 DEF SaveBackup, TypeOK
  <2> QED
    BY <1>1, <1>5, <2>2, <2>3 DEF BackupWrite, StepFrame, TypeOK, Counted, Stats
<1>6. CASE CountDryRun(w)
  BY <1>1, <1>6, CountedBy DEF CountDryRun, TaskEnds, StepFrame, TypeOK
<1>9. CASE WriteDst(w)
  <2>1. PICK copy \in Copies(w) : Acknowledges(w, copy) /\ SaveCopy(w, copy)
    BY <1>9 DEF WriteDst
  <2>2. cutOff \subseteq cutOff'
    BY <1>9, <2>1, AcknowledgedType DEF WriteDst
  <2>3. \A p \in Path \ {at[w]} : dst'[p] = dst[p]
    BY <2>1 DEF SaveCopy, TypeOK
  <2> QED
    BY <1>1, <1>9, <2>2, <2>3, CountedBy DEF WriteDst, TaskEnds, StepFrame, TypeOK
<1>7. CASE CallFails(w)
  BY <1>1, <1>7 DEF CallFails, Calling, TaskEnds, StepFrame, TypeOK, Counted
<1>8. CASE WriteLosesTarget(w) \/ WriteUnanswered(w)
  <2>1. \A p \in Path \ {at[w]} :
           dst'[p] = dst[p] /\ \A t \in Time : backups'[<<p, t>>] = backups[<<p, t>>]
    BY <1>0, <1>8 DEF WriteLosesTarget, WriteUnanswered, SaveBackup, SaveCopy, TypeOK
  <2> QED
    BY <1>1, <1>8, <2>1
       DEF WriteLosesTarget, WriteUnanswered, TaskEnds, StepFrame, TypeOK, Counted
<1> QED
  BY <1>2, <1>3, <1>4, <1>5, <1>6, <1>7, <1>8, <1>9 DEF WorkerStep

\* The conjuncts about another worker survive a step of w, because the two
\* never work on the same path.
LEMMA OthersInv ==
  ASSUME SyncInv, NEW w \in Worker, StepFrame(w), NEW v \in Worker \ {w}
  PROVE  /\ StreamOpen(v)'
         /\ BackupReady(v)'
         /\ Busy(v)' => at'[v] \in Present(srcList) \ (queue' \cup Counted')
<1> USE DEF SyncInv, StepFrame
<1>0. /\ at[v] \in Path /\ at'[v] = at[v] /\ pc'[v] = pc[v]
      /\ Exists(v)' = Exists(v) /\ Busy(v)' = Busy(v)
  BY DEF TypeOK, Exists, Listing, Busy
<1>1. Busy(v) => at[v] # at[w] \/ ~Busy(w)
  BY DEF TasksOwned
<1>2. Busy(v) => /\ dst'[at[v]] = dst[at[v]]
                 /\ InBackup(at[v]) => InBackup(at[v])'
  BY <1>0, <1>1 DEF InBackup, CopyOf
<1>3. StreamOpen(v)'
  BY <1>0 DEF StreamsOpen, StreamOpen
<1>4. BackupReady(v)'
  BY <1>0, <1>2 DEF BackupsReady, BackupReady, Busy
<1>5. Busy(v) => at[v] \in Present(srcList) \ (queue \cup Counted)
  BY DEF TasksOwned
<1>6. CASE Busy(w)
  BY <1>0, <1>1, <1>3, <1>4, <1>5, <1>6
<1>7. CASE ~Busy(w)
  <2>1. Counted' = Counted
    BY <1>7 DEF Counted
  <2> QED
    BY <1>0, <1>3, <1>4, <1>5, <2>1
<1> QED
  BY <1>6, <1>7

\* A write that is acknowledged and was announced with the size of its stream has
\* stored the stream, or noted that it broke off.
LEMMA AcknowledgesCopy ==
  ASSUME NEW w \in Worker, NEW copy, Acknowledges(w, copy),
         buf[w] \in Content, Announced(w) = buf[w].size
  PROVE  \/ copy = buf[w]
         \/ <<pc[w], at[w]>> \in cutOff' /\ copy \in Cuts(buf[w])
  BY DEF Acknowledges, Written, Prefix, Content

\* What is left to show for a step of w: its own conjuncts.
LEMMA OwnInv ==
  ASSUME SyncInv, NEW w \in Worker, StepFrame(w), TypeOK',
         NEW task, task = at[w],
         StreamOpen(w)', BackupReady(w)',
         Busy(w)' => /\ at'[w] \in Present(srcList) \ (queue' \cup Counted')
                     /\ \A v \in Worker \ {w} : Busy(v) => at[v] # at'[w],
         Counted' = Counted \/ task \in dstTouched \cup srcTouched \/ Agree(task)'
  PROVE  SyncInv'
<1> USE DEF SyncInv, StepFrame
<1>1. Present(srcList)' = Present(srcList)
  BY DEF Present
<1>2. \A v \in Worker \ {w} : Busy(v)' = Busy(v) /\ at'[v] = at[v]
  BY DEF Busy
<1>3. Busy(w) => at[w] \in Present(srcList) \ (queue \cup Counted)
  BY DEF TasksOwned
<1>4. ~Busy(w) => Counted' = Counted /\ dst' = dst /\ stats' = stats
  BY DEF Counted
<1>5. TasksOwned'
  <2>1. queue' \subseteq Present(srcList) \ Counted'
    BY <1>3, <1>4 DEF TasksOwned
  <2>2. Counted' \subseteq Present(srcList)
    BY <1>3, <1>4 DEF TasksOwned
  <2>3. \A v \in Worker : Busy(v)' =>
            at'[v] \in Present(srcList) \ (queue' \cup Counted')
    BY OthersInv
  <2>4. \A u, v \in Worker : Busy(u)' /\ Busy(v)' /\ u # v => at'[u] # at'[v]
    BY <1>2 DEF TasksOwned
  <2> QED
    BY <1>1, <2>1, <2>2, <2>3, <2>4 DEF TasksOwned
<1>6. SourceSeen'
  BY <1>1 DEF SourceSeen
<1>7. StreamsOpen' /\ BackupsReady'
  BY OthersInv DEF StreamsOpen, BackupsReady
<1>8. SettledAgree'
  <2> SUFFICES ASSUME NEW p \in Counted' \ (dstTouched \cup srcTouched)
               PROVE  Agree(p)'
    BY DEF SettledAgree
  <2>1. CASE p \in Counted
    <3>1. p \in Path /\ dst'[p] = dst[p]
      BY <1>3, <1>4, <2>1 DEF TasksOwned, Present
    <3> QED
      BY <2>1, <3>1 DEF SettledAgree, Agree, CopyOf
  <2>2. CASE p \notin Counted
    BY <2>2
  <2> QED
    BY <2>1, <2>2
<1> QED
  BY <1>5, <1>6, <1>7, <1>8

\* A verdict other than identical keeps the task with w: next comes the backup,
\* or the transfer when none is wanted.
LEMMA AfterJudged ==
  ASSUME TypeOK, NEW w \in Worker, NEW status, Judge(w, status),
         status \in {"modified", "conflict"}, Exists(w), StepFrame(w),
         UNCHANGED <<destMap, opts>>
  PROVE  /\ at' = at /\ Counted' = Counted
         /\ StreamOpen(w)' /\ BackupReady(w)'
<1>1. AfterJudge(status) \in {"stat", "open"}
      /\ (AfterJudge(status) = "open" => opts.noBackup \/ opts.dryRun)
      /\ (AfterJudge(status) = "stat" => ~opts.dryRun)
  BY DEF AfterJudge, NeedsBackup, TypeOK, SyncOptions
<1>2. /\ pc'[w] = AfterJudge(status) /\ at' = at
  BY <1>1 DEF Judge, TypeOK
<1>3. Counted' = Counted
  BY JudgedBy
<1>4. StreamOpen(w)'
  BY <1>1, <1>2 DEF StreamOpen
<1>5. Exists(w)'
  BY <1>2 DEF Exists, Listing
<1>6. BackupReady(w)'
  BY <1>1, <1>2, <1>5 DEF BackupReady, TypeOK, SyncOptions
<1> QED
  BY <1>2, <1>3, <1>4, <1>6

\* A worker step keeps the inductive invariant.
LEMMA WorkerInv ==
  ASSUME SyncInv, NEW w \in Worker, WorkerStep(w)
  PROVE  SyncInv'
<1> USE DEF WorkerFrame, main
<1>p. PICK p \in Path : p = at[w]
  BY DEF SyncInv, TypeOK
<1> USE <1>p
<1>0. TypeOK /\ StepFrame(w) /\ TypeOK' /\ p = at[w] /\ at[w] \in Path
  BY <1>p, WorkerFrames, WorkerType DEF SyncInv
<1>a. Busy(w) => /\ p \in Present(srcList) \ (queue \cup Counted)
                 /\ \A v \in Worker \ {w} : Busy(v) => at[v] # p
  BY DEF SyncInv, TasksOwned
<1>b. StreamOpen(w) /\ BackupReady(w)
  BY DEF SyncInv, StreamsOpen, BackupsReady
<1>c. Busy(w) /\ p \notin srcTouched => src[p] = srcList[p] /\ src[p] # Absent
  BY <1>0, <1>a DEF SyncInv, SourceSeen, StepFrame, Present
<1>d. queue \subseteq Present(srcList) \ Counted
      /\ \A v \in Worker : Busy(v) => at[v] \notin queue
  BY <1>0 DEF SyncInv, TasksOwned, StepFrame
\* A step after which w goes on with the same task.
<1>e. ASSUME Busy(w), at' = at, queue' = queue, Counted' = Counted,
             StreamOpen(w)', BackupReady(w)'
      PROVE  SyncInv'
  BY <1>0, <1>a, <1>e, OwnInv
\* A step after which w has no task.
<1>f. ASSUME ~Busy(w)', Counted' = Counted \/ p \in dstTouched \cup srcTouched \/ Agree(p)'
      PROVE  SyncInv'
  <2>1. StreamOpen(w)' /\ BackupReady(w)'
    BY <1>f DEF StreamOpen, BackupReady, Busy
  <2> QED
    BY <1>0, <1>f, <2>1, OwnInv
<1>1. CASE ReceiveNext(w)
  <2>1. Counted' = Counted /\ at'[w] \in queue /\ queue' = queue \ {at'[w]}
        /\ pc'[w] \in {"open", "compare"}
        /\ (destMap[at'[w]] = Absent <=> pc'[w] = "open")
        /\ UNCHANGED <<destMap, dstTouched, srcTouched>>
    BY <1>0, <1>1 DEF ReceiveNext, Counted, TypeOK
  <2>2. StreamOpen(w)'
    BY <2>1 DEF StreamOpen
  <2>3. pc'[w] = "compare" <=> Exists(w)'
    BY <2>1 DEF Exists, Listing
  <2>4. BackupReady(w)'
    BY <2>1, <2>3 DEF BackupReady
  <2>5. /\ at'[w] \in Present(srcList) \ (queue' \cup Counted')
        /\ \A v \in Worker \ {w} : Busy(v) => at[v] # at'[w]
    BY <1>d, <2>1
  <2> QED
    BY <1>0, <2>1, <2>2, <2>4, <2>5, OwnInv
<1>2. CASE ReceiveLast(w)
  <2>1. Counted' = Counted /\ ~Busy(w)'
    BY <1>0, <1>2 DEF ReceiveLast, Counted, Busy, TypeOK
  <2> QED
    BY <1>f, <2>1
<1>3. CASE CompareListed(w)
  <2> DEFINE status == StatCompare(srcList[p], Listing(w))
  <2>1. Judge(w, status) /\ ~opts.checksum /\ Busy(w) /\ Exists(w)
        /\ UNCHANGED <<dst, backups, queue, opts, destMap, dstTouched, srcTouched>>
    BY <1>0, <1>3, <1>b DEF CompareListed, BackupReady, Busy, StepFrame
  <2> HIDE DEF status
  <2>2. CASE status = "identical"
    <3>1. stats'.skipped = stats.skipped \cup {p}
      BY <1>0, <2>1, <2>2, JudgedBy
    <3>2. Agree(p)'
      BY <2>1, <3>1 DEF Agree, CopyOf
    <3>3. ~Busy(w)'
      BY <1>0, <2>1, <2>2 DEF AfterJudge, Judge, TaskEnds, Busy, TypeOK
    <3> QED
      BY <1>f, <3>2, <3>3
  <2>3. CASE status # "identical"
    BY <1>0, <1>e, <2>1, <2>3, AfterJudged, StatusType DEF status
  <2> QED
    BY <2>2, <2>3
<1>4. CASE HashSrc(w)
  <2>1. /\ Busy(w) /\ pc[w] = "compare" /\ pc' = [pc EXCEPT ![w] = "hashDst"]
        /\ buf' = [buf EXCEPT ![w] = src[p].data] /\ src[p] # Absent
        /\ UNCHANGED <<src, queue, at, destMap, stats>>
    BY <1>4 DEF HashSrc, Busy
  <2>2. buf'[w] # Absent /\ pc'[w] = "hashDst"
    BY <1>0, <2>1, DataType DEF TypeOK
  <2>3. StreamOpen(w)'
    BY <1>0, <2>1, <2>2 DEF StreamOpen, TypeOK
  <2>4. BackupReady(w)'
    BY <1>b, <2>1, <2>2 DEF BackupReady, Exists, Listing
  <2> QED
    BY <1>e, <2>1, <2>3, <2>4 DEF Counted
<1>5. CASE HashDst(w)
  <2> DEFINE status == HashVerdict(w)
  <2>1. /\ Judge(w, status) /\ Busy(w) /\ Exists(w)
        /\ pc[w] = "hashDst" /\ dst[p] # Absent
        /\ UNCHANGED <<src, dst, backups, queue, opts, destMap, dstTouched, srcTouched>>
    BY <1>0, <1>5, <1>b DEF HashDst, BackupReady, Busy, StepFrame
  <2>2. status = "identical" => buf[w] = dst[p].data
    BY DEF HashVerdict
  <2> HIDE DEF status
  <2>3. CASE status = "identical"
    <3>1. p \notin srcTouched => Agree(p)'
      BY <1>b, <1>c, <2>1, <2>2, <2>3 DEF StreamOpen, Agree, CopyOf
    <3>2. ~Busy(w)'
      BY <1>0, <2>1, <2>3 DEF AfterJudge, Judge, TaskEnds, Busy, TypeOK
    <3> QED
      BY <1>f, <3>1, <3>2
  <2>4. CASE status # "identical"
    BY <1>0, <1>e, <2>1, <2>4, AfterJudged, StatusType DEF status
  <2> QED
    BY <2>3, <2>4
<1>6. CASE BackupStat(w)
  <2>1. /\ Busy(w) /\ pc[w] = "stat" /\ pc' = [pc EXCEPT ![w] = "read"]
        /\ size' = [size EXCEPT ![w] = dst[p].data.size] /\ dst[p] # Absent
        /\ UNCHANGED <<dst, opts, queue, at, destMap, stats>>
    BY <1>6 DEF BackupStat, WorkerFrame, Busy
  <2>2. StreamOpen(w)'
    BY <1>0, <2>1 DEF StreamOpen, TypeOK
  <2>3. BackupReady(w)'
    BY <1>0, <1>b, <2>1 DEF BackupReady, Exists, Listing, TypeOK
  <2> QED
    BY <1>e, <2>1, <2>2, <2>3 DEF Counted
<1>7. CASE BackupRead(w)
  <2>1. /\ Busy(w) /\ pc[w] = "read" /\ pc' = [pc EXCEPT ![w] = "save"]
        /\ buf' = [buf EXCEPT ![w] = dst[p].data] /\ dst[p] # Absent
        /\ UNCHANGED <<dst, opts, queue, at, destMap, stats, size, dstTouched>>
    BY <1>7 DEF BackupRead, WorkerFrame, Busy
  <2>2. buf'[w] # Absent /\ pc'[w] = "save" /\ buf'[w] = dst[p].data
    BY <1>0, <2>1, DataType DEF TypeOK
  <2>3. StreamOpen(w)'
    BY <2>2 DEF StreamOpen
  <2>4. BackupReady(w)'
    BY <1>b, <2>1, <2>2 DEF BackupReady, Exists, Listing
  <2> QED
    BY <1>e, <2>1, <2>3, <2>4 DEF Counted
<1>8. CASE BackupWrite(w)
  <2>1. /\ Busy(w) /\ pc[w] = "save" /\ pc' = [pc EXCEPT ![w] = "open"]
        /\ UNCHANGED <<dst, queue, at, destMap, dstTouched>>
    BY <1>8 DEF BackupWrite, WorkerFrame, Busy
  <2>2. pc'[w] = "open" /\ stamp[w] \in Time
    BY <1>0, <2>1 DEF TypeOK
  <2>3. PICK copy \in Copies(w) : Acknowledges(w, copy) /\ SaveBackup(w, copy)
    BY <1>8 DEF BackupWrite
  <2>4. p \notin dstTouched =>
           copy = dst[p].data \/ (<<"save", p>> \in cutOff' /\ copy \in Cuts(dst[p].data))
    <3>1. buf[w] \in Content
      BY <1>0, <1>b, <2>1 DEF StreamOpen, TypeOK
    <3>2. p \notin dstTouched => Announced(w) = buf[w].size /\ buf[w] = dst[p].data
      BY <1>b, <2>1 DEF BackupReady, Announced
    <3> QED
      BY <2>1, <2>3, <3>1, <3>2, AcknowledgesCopy
  <2>5. backups'[<<p, stamp[w]>>] = copy
    BY <1>0, <2>2, <2>3 DEF SaveBackup, TypeOK
  <2>6. p \notin dstTouched => InBackup(p)'
    BY <2>1, <2>2, <2>4, <2>5 DEF InBackup, CopyOf
  <2>7. StreamOpen(w)'
    BY <2>2 DEF StreamOpen
  <2>8. BackupReady(w)'
    BY <2>1, <2>2, <2>6 DEF BackupReady, InBackup, CopyOf
  <2>9. Counted' = Counted
    BY <1>0, <1>8 DEF BackupWrite, Counted, TypeOK, Stats
  <2> QED
    BY <1>e, <2>1, <2>7, <2>8, <2>9
<1>9. CASE CountDryRun(w)
  <2>1. Agree(p)'
    BY <1>9 DEF CountDryRun, Agree, CopyOf
  <2>2. ~Busy(w)'
    BY <1>0, <1>9 DEF CountDryRun, TaskEnds, Busy, TypeOK
  <2> QED
    BY <1>f, <2>1, <2>2
<1>10. CASE OpenSrc(w)
  <2>1. /\ Busy(w) /\ pc[w] = "open" /\ pc' = [pc EXCEPT ![w] = "write"]
        /\ ~opts.dryRun
        /\ buf' = [buf EXCEPT ![w] = src[p].data] /\ src[p] # Absent
        /\ UNCHANGED <<src, dst, backups, opts, queue, at, destMap, stats,
                       dstTouched, srcTouched, cutOff>>
    BY <1>10 DEF OpenSrc, WorkerFrame, Busy
  <2>2. buf'[w] # Absent /\ pc'[w] = "write" /\ buf'[w] = src[p].data
    BY <1>0, <2>1, DataType DEF TypeOK
  <2>3. StreamOpen(w)'
    BY <2>1, <2>2 DEF StreamOpen
  <2>4. BackupReady(w)'
    BY <1>b, <2>1, <2>2 DEF BackupReady, Exists, Listing, InBackup, CopyOf
  <2> QED
    BY <1>e, <2>1, <2>3, <2>4 DEF Counted
<1>11. CASE WriteDst(w)
  <2>1. Busy(w) /\ pc[w] = "write" /\ Count(w) /\ UNCHANGED src
    BY <1>11 DEF WriteDst, Busy
  <2>a. buf[w] \in Content
    BY <1>0, <1>b, <2>1 DEF StreamOpen, TypeOK
  <2>2. PICK copy \in Copies(w) : Acknowledges(w, copy) /\ SaveCopy(w, copy)
    BY <1>11 DEF WriteDst
  <2>3. p \notin srcTouched =>
           copy = src[p].data \/ (<<"write", p>> \in cutOff' /\ copy \in Cuts(src[p].data))
    <3>1. p \notin srcTouched => Announced(w) = buf[w].size /\ buf[w] = src[p].data
      BY <1>b, <1>c, <2>1 DEF StreamOpen, Announced
    <3> QED
      BY <2>1, <2>2, <2>a, <3>1, AcknowledgesCopy
  <2>4. dst'[p] = [data |-> copy, mtime |-> now]
    BY <1>0, <2>2 DEF SaveCopy, TypeOK
  <2>5. dst'[p] # Absent /\ dst'[p].data = copy
    <3>1. copy \in Content
      BY <1>0, <1>a, <2>1, <2>2, <2>a, CopiesType DEF Present
    <3> QED
      BY <1>0, <2>4, <3>1, FileType DEF TypeOK
  <2>6. p \notin srcTouched => Agree(p)'
    BY <1>c, <2>1, <2>3, <2>5 DEF Agree, CopyOf
  <2>7. ~Busy(w)'
    BY <1>0, <1>11 DEF WriteDst, TaskEnds, Busy, TypeOK
  <2> QED
    BY <1>f, <2>6, <2>7
<1>12. CASE CallFails(w) \/ WriteLosesTarget(w) \/ WriteUnanswered(w)
  <2>1. Counted' = Counted /\ ~Busy(w)'
    BY <1>0, <1>12
       DEF CallFails, WriteLosesTarget, WriteUnanswered, TaskEnds, Counted, Busy, TypeOK
  <2> QED
    BY <1>f, <2>1
<1> QED
  BY <1>1, <1>2, <1>3, <1>4, <1>5, <1>6, <1>7, <1>8, <1>9, <1>10, <1>11, <1>12
     DEF WorkerStep

-----------------------------------------------------------------------------
(* The theorems.                                                           *)

\* Every step keeps the inductive invariant.
LEMMA InvStep == SyncInv /\ [Next]_vars => SyncInv'
<1> SUFFICES ASSUME SyncInv, [Next]_vars PROVE SyncInv'
  OBVIOUS
<1>1. CASE UNCHANGED vars
  <2>1. UNCHANGED <<src, dst, backups, phase, opts, srcList, destMap, queue, pc, at,
                    size, buf, stats, dstTouched, srcTouched, cutOff>>
    BY <1>1 DEF vars, store, main, pool, aux
  <2>2. TypeOK'
    BY TypeStep
  <2>3. TasksOwned' /\ SourceSeen' /\ SettledAgree'
    BY <2>1
       DEF SyncInv, TasksOwned, SourceSeen, SettledAgree, Agree, CopyOf, Busy, Counted,
           Present
  <2>4. StreamsOpen' /\ BackupsReady'
    BY <2>1 DEF SyncInv, StreamsOpen, StreamOpen, BackupsReady, BackupReady,
                Exists, Listing, InBackup, CopyOf
  <2> QED
    BY <2>2, <2>3, <2>4 DEF SyncInv
<1> QED
  BY <1>1, StartInv, MainInv, WorkerInv, EnvironmentInv DEF Next, Finished

\* The engine's inductive invariant: a task has one owner, a listing and an open
\* stream are true of what nobody has changed, a backup precedes a replacement.
THEOREM SyncInvariant == Spec => []SyncInv
  BY InvInit, InvStep, PTL DEF Spec

\* Every variable of the engine keeps its type.
THEOREM TypeCorrect == Spec => []TypeOK
  BY SyncInvariant, PTL DEF SyncInv

\* What has been copied in a run, or found equal by checksum, agrees with the
\* source for any number of workers and files, unless changed out of band.
THEOREM SettledFilesAgree == Spec => []SettledAgree
  BY SyncInvariant, PTL DEF SyncInv

\* A destination file that changes in the work phase is the task of a worker
\* about to write it.
LEMMA ReplacesIsWrite ==
  ASSUME SyncInv, Next, NEW p \in Path, Replaces(p)
  PROVE  \E w \in Worker : pc[w] = "write" /\ at[w] = p
<1> USE DEF store, main, pool, aux, Replaces
<1>1. ASSUME NEW o \in Options, Start(o) PROVE FALSE
  BY <1>1 DEF Start
<1>2. CASE Main
  BY <1>2 DEF Main, ListSrc, ListSrcFails, ListDst, ListDstFails, Wait,
              DeleteFails, DeleteEnds, DeleteEntry
<1>3. CASE Environment
  BY <1>3 DEF Environment, Tick, Cancel, EditSrc, EditDst, EditFrame, Spend, SyncInv, TypeOK
<1>4. ASSUME NEW w \in Worker, WorkerStep(w)
      PROVE  pc[w] = "write" /\ at[w] = p
  BY <1>4 DEF WorkerStep, ReceiveNext, ReceiveLast, CompareListed, HashSrc, HashDst,
              BackupStat, BackupRead, BackupWrite, CountDryRun, OpenSrc, WriteDst,
              CallFails, WriteLosesTarget, WriteUnanswered, SaveBackup, SaveCopy, SyncInv, TypeOK
<1> QED
  BY <1>1, <1>2, <1>3, <1>4 DEF Next, Finished, vars

\* Whenever the engine replaces or loses a destination file it has listed, the
\* content is in the conflict directory by then.
THEOREM ReplacedFilesAreBackedUp == Spec => ListedIsBackedUp
<1> DEFINE Safe == \A p \in Path :
      Replaces(p) /\ ~opts.noBackup /\ destMap[p] # Absent /\ p \notin dstTouched
          => InBackup(p)
<1>1. SyncInv /\ Next => Safe
  <2> SUFFICES ASSUME SyncInv, Next, NEW p \in Path, Replaces(p), ~opts.noBackup,
                      destMap[p] # Absent, p \notin dstTouched
               PROVE  InBackup(p)
    OBVIOUS
  <2>1. PICK w \in Worker : pc[w] = "write" /\ at[w] = p
    BY ReplacesIsWrite
  <2> QED
    BY <2>1 DEF SyncInv, BackupsReady, BackupReady, Exists, Listing
<1>2. SyncInv /\ [Next]_vars => [Safe]_vars
  BY <1>1
<1> QED
  BY <1>2, SyncInvariant, PTL DEF Spec, ListedIsBackedUp

\* A dry run writes nothing, neither its main goroutine nor a worker.
LEMMA DryRunStep ==
  ASSUME SyncInv, opts.dryRun, Main \/ \E w \in Worker : WorkerStep(w)
  PROVE  UNCHANGED store
<1> USE DEF store
<1>1. CASE Main
  BY <1>1 DEF Main, ListSrc, ListSrcFails, ListDst, ListDstFails, Wait, DeleteFails,
     DeleteEnds, DeleteEntry, Removes
<1>2. ASSUME NEW w \in Worker, WorkerStep(w)
      PROVE  UNCHANGED store
  <2>1. pc[w] \notin {"save", "write"}
    BY DEF SyncInv, BackupsReady, BackupReady
  <2> QED
    BY <1>2, <2>1 DEF WorkerStep, ReceiveNext, ReceiveLast, CompareListed, HashSrc, HashDst,
       BackupStat, BackupRead, BackupWrite, CountDryRun, OpenSrc, WriteDst, CallFails,
       WriteLosesTarget, WriteUnanswered, WorkerFrame
<1> QED
  BY <1>1, <1>2

\* A dry run writes and deletes nothing.
THEOREM DryRunsArePure == Spec => DryRunIsPure
<1> DEFINE Pure == opts.dryRun /\ phase # "idle" /\ budget'.edits = budget.edits
                     => UNCHANGED store
<1>1. SyncInv /\ Next => Pure
  <2> SUFFICES ASSUME SyncInv, Next, opts.dryRun, phase # "idle",
                      budget'.edits = budget.edits
               PROVE  UNCHANGED <<kinds, src, dst, backups>>
    BY DEF store
  <2>1. ASSUME NEW o \in Options, Start(o) PROVE FALSE
    BY <2>1 DEF Start
  <2>2. CASE Main \/ \E w \in Worker : WorkerStep(w)
    BY <2>2, DryRunStep DEF store
  <2>3. CASE Environment
    BY <2>3
       DEF Environment, Tick, Cancel, EditSrc, EditDst, EditFrame, Spend, SyncInv, TypeOK,
       store
  <2> QED
    BY <2>1, <2>2, <2>3 DEF Next, Finished, vars, store
<1>2. SyncInv /\ [Next]_vars => [Pure]_vars
  BY <1>1
<1> QED
  BY <1>2, SyncInvariant, PTL DEF Spec, DryRunIsPure

-----------------------------------------------------------------------------
(* How a run ends: the inductive invariant.                                *)

\* A path is waiting in the channel, in the hands of a worker, or counted.
Accounted(p) == \/ p \in queue \cup Counted
                \/ \E w \in Worker : Busy(w) /\ at[w] = p

\* While nobody has failed or cancelled, no task is lost, and the first worker,
\* which every run starts, stays until the channel is empty.
NoTaskIsLost ==
    phase = "work" /\ ~cancelled /\ ~taskErr =>
        /\ \A p \in Present(srcList) : Accounted(p)
        /\ pc[1] = "exit" => queue = {}

\* After the workers: deletions are asked for, and come after complete success.
SettledAfterWork ==
    /\ phase # "idle" => result = "none"
    /\ phase = "delete" => opts.delete /\ ~taskErr
    /\ (phase = "delete" \/ result = "ok") /\ ~cancelled => Settled

\* One List of the source returns all of it.
WholeSource == kinds.src # "s3" \/ Page >= NumPaths

\* A listing that returns everything is also right about what is not there.
SourceComplete ==
    WholeSource /\ phase \in {"listDst", "work", "delete"} =>
        \A p \in Path \ srcTouched : src[p] = srcList[p]

EndInv == NoTaskIsLost /\ SettledAfterWork /\ SourceComplete

-----------------------------------------------------------------------------
(* How a run ends: the steps.                                              *)

LEMMA EndInit == Init => EndInv
  BY DEF Init, EndInv, NoTaskIsLost, SettledAfterWork, SourceComplete

\* One page takes in everything when it is as long as the store.
LEMMA ListedIsAll ==
  ASSUME NEW s \in [Path -> Object], NEW kind, kind # "s3" \/ Page >= NumPaths
  PROVE  Listed(s, kind) = s
<1>1. ASSUME NEW p \in Path, Page >= NumPaths
      PROVE  Cardinality({q \in Present(s) : q < p}) < Page
  <2> DEFINE below == {q \in Present(s) : q < p}
  <2>1. below \subseteq 1..(p - 1) /\ p \in 1..NumPaths
    BY DEF Present, Path
  <2>2. IsFiniteSet(1..(p - 1)) /\ Cardinality(1..(p - 1)) = p - 1
    BY <2>1, FS_Interval
  <2>3. Cardinality(below) <= p - 1 /\ Cardinality(below) \in Nat
    BY <2>1, <2>2, FS_Subset, FS_CardinalityType
  <2> QED
    BY <1>1, <2>1, <2>3, BoundsAssumption
<1> QED
  BY <1>1 DEF Listed

\* What becomes of the task of a worker that has not failed.
LEMMA TaskFate ==
  ASSUME SyncInv, NEW w \in Worker, WorkerStep(w), ~taskErr', ~cancelled
  PROVE  /\ ~taskErr
         /\ \/ queue' = queue
            \/ \E p \in queue : queue' = queue \ {p} /\ Busy(w)' /\ at'[w] = p
         /\ Busy(w) => at[w] \in Counted' \/ (Busy(w)' /\ at'[w] = at[w])
         /\ pc'[w] = "exit" => queue' = {}
<1> USE DEF SyncInv, TypeOK, Busy
<1>1. CASE ReceiveNext(w)
  BY <1>1 DEF ReceiveNext
<1>2. CASE ReceiveLast(w)
  BY <1>2 DEF ReceiveLast, Drained
<1>3. ASSUME NEW status, Judge(w, status), pc[w] # "exit", UNCHANGED <<queue, taskErr>>,
             status \in {"identical", "modified", "conflict"}
      PROVE  /\ ~taskErr /\ queue' = queue /\ pc'[w] # "exit"
             /\ at[w] \in Counted' \/ (Busy(w)' /\ at'[w] = at[w])
  <2>1. CASE status = "identical"
    <3>1. ~taskErr /\ queue' = queue /\ pc'[w] = "receive"
      BY <1>3, <2>1 DEF Judge, AfterJudge, TaskEnds
    <3>2. at[w] \in Counted'
      BY <1>3, <2>1, JudgedBy
    <3> QED
      BY <3>1, <3>2
  <2>2. CASE status # "identical"
    BY <1>3, <2>2 DEF Judge, AfterJudge
  <2> QED
    BY <2>1, <2>2
<1>4. CASE CompareListed(w)
  <2>1. StatCompare(srcList[at[w]], Listing(w)) \in {"identical", "modified", "conflict"}
    BY DEF StatCompare
  <2> QED
    BY <1>3, <1>4, <2>1 DEF CompareListed
<1>5. CASE HashDst(w)
  BY <1>3, <1>5 DEF HashDst, HashVerdict
<1>6. CASE HashSrc(w) \/ BackupStat(w) \/ BackupRead(w) \/ BackupWrite(w) \/ OpenSrc(w)
  BY <1>6 DEF HashSrc, BackupStat, BackupRead, BackupWrite, OpenSrc
<1>7. CASE CountDryRun(w) \/ WriteDst(w)
  BY <1>7, CountedBy DEF CountDryRun, WriteDst, TaskEnds
<1>8. CASE CallFails(w) \/ WriteLosesTarget(w) \/ WriteUnanswered(w)
  BY <1>8 DEF CallFails, WriteLosesTarget, WriteUnanswered
<1> QED
  BY <1>1, <1>2, <1>4, <1>5, <1>6, <1>7, <1>8 DEF WorkerStep

\* A worker's step keeps every task accounted for.
LEMMA WorkerEnd ==
  ASSUME SyncInv, EndInv, NEW w \in Worker, WorkerStep(w)
  PROVE  EndInv'
<1>1. StepFrame(w) /\ UNCHANGED <<kinds, phase, opts, srcList, src, srcTouched, result, cancelled>>
  BY WorkerFrames
     DEF StepFrame, WorkerStep, ReceiveNext, ReceiveLast, CompareListed, HashSrc, HashDst,
         BackupStat, BackupRead, BackupWrite, CountDryRun, OpenSrc, WriteDst,
         CallFails, WriteLosesTarget, WriteUnanswered, WorkerFrame, main
<1>2. phase = "work"
  BY <1>1 DEF StepFrame
<1>3. ASSUME ~cancelled, ~taskErr'
      PROVE  /\ \A p \in Present(srcList) : Accounted(p)'
             /\ pc'[1] = "exit" => queue' = {}
  <2>1. /\ ~taskErr
        /\ \/ queue' = queue
           \/ \E p \in queue : queue' = queue \ {p} /\ Busy(w)' /\ at'[w] = p
        /\ Busy(w) => at[w] \in Counted' \/ (Busy(w)' /\ at'[w] = at[w])
        /\ pc'[w] = "exit" => queue' = {}
    BY <1>3, TaskFate
  <2>2. /\ \A p \in Present(srcList) : Accounted(p)
        /\ pc[1] = "exit" => queue = {}
    BY <1>2, <1>3, <2>1 DEF EndInv, NoTaskIsLost
  <2>3. \A v \in Worker \ {w} : pc'[v] = pc[v] /\ at'[v] = at[v]
    BY <1>1 DEF StepFrame
  <2>4. Counted \subseteq Counted' /\ queue' \subseteq queue /\ 1 \in Worker
    BY <1>1, BoundsAssumption DEF StepFrame, Worker
  <2>5. ASSUME NEW p \in Present(srcList) PROVE Accounted(p)'
    <3>1. CASE p \in queue
      BY <2>1, <2>4, <3>1 DEF Accounted
    <3>2. CASE p \in Counted
      BY <2>4, <3>2 DEF Accounted
    <3>3. ASSUME NEW v \in Worker, Busy(v), at[v] = p PROVE Accounted(p)'
      BY <2>1, <2>3, <3>3 DEF Accounted, Busy
    <3> QED
      BY <2>2, <3>1, <3>2, <3>3 DEF Accounted
  <2> QED
    BY <2>1, <2>2, <2>3, <2>4, <2>5
<1>4. NoTaskIsLost'
  BY <1>1, <1>3 DEF NoTaskIsLost, Present
<1>5. SettledAfterWork' /\ SourceComplete'
  BY <1>1, <1>2 DEF EndInv, SettledAfterWork, SourceComplete, WholeSource
<1> QED
  BY <1>4, <1>5 DEF EndInv

\* The main goroutine starts with every task in the channel, and ends with success
\* only when all workers have, and no task is left anywhere.
LEMMA MainEnd ==
  ASSUME SyncInv, EndInv, Main
  PROVE  EndInv'
<1> USE DEF EndInv, main, pool, aux, store
<1>1. CASE ListSrc
  <2>1. WholeSource => srcList' = src
    BY <1>1, ListedIsAll DEF ListSrc, SyncInv, TypeOK, WholeSource
  <2> QED
    BY <1>1, <2>1 DEF ListSrc, NoTaskIsLost, SettledAfterWork, SourceComplete, WholeSource
<1>2. CASE ListSrcFails
  BY <1>2 DEF ListSrcFails, Return, NoTaskIsLost, SettledAfterWork, SourceComplete
<1>3. CASE ListDst \/ ListDstFails
  <2>1. /\ phase = "listDst" /\ Spawn
        /\ UNCHANGED <<kinds, src, srcList, srcTouched, opts, result, cancelled, taskErr>>
    BY <1>3 DEF ListDst, ListDstFails, Spawn
  <2>2. 1 \in Worker /\ pc'[1] = "receive"
    BY <2>1, BoundsAssumption DEF Spawn, Worker
  <2>3. \A p \in Present(srcList) : Accounted(p)'
    BY <2>1 DEF Spawn, Accounted
  <2>4. NoTaskIsLost'
    BY <2>1, <2>2, <2>3 DEF NoTaskIsLost, Present
  <2> QED
    BY <2>1, <2>4 DEF Spawn, SettledAfterWork, SourceComplete, WholeSource
<1>4. CASE Wait
  <2>1. ASSUME ~cancelled, ~taskErr PROVE Settled
    <3>1. 1 \in Worker
      BY BoundsAssumption DEF Worker
    <3>2. queue = {} /\ \A p \in Present(srcList) : Accounted(p)
      BY <1>4, <2>1, <3>1 DEF Wait, NoTaskIsLost
    <3> QED
      BY <1>4, <3>2 DEF Wait, Accounted, Busy, Settled
  <2>2. UNCHANGED <<kinds, src, srcList, srcTouched, opts, stats, cancelled, taskErr>>
    BY <1>4 DEF Wait
  <2>3. Settled' = Settled
    BY <2>2 DEF Settled, Present, Counted
  <2>4. /\ phase' = "delete" => opts.delete /\ ~taskErr /\ result' = "none"
        /\ phase' \in {"delete", "idle"}
        /\ result' = "ok" => ~taskErr
    BY <1>4 DEF Wait, AfterWait, Outcome
  <2>5. SettledAfterWork'
    BY <2>1, <2>2, <2>3, <2>4 DEF SettledAfterWork
  <2> QED
    BY <1>4, <2>2, <2>4, <2>5 DEF Wait, NoTaskIsLost, SourceComplete, WholeSource
<1>5. ASSUME NEW p \in Path, DeleteEntry(p) PROVE EndInv'
  <2>1. UNCHANGED <<kinds, src, srcList, srcTouched, phase, opts, result, cancelled, taskErr>>
        /\ phase = "delete"
    BY <1>5 DEF DeleteEntry
  <2>2. Settled' = Settled
    BY <1>5, <2>1 DEF DeleteEntry, Settled, Present, Counted, SyncInv, TypeOK, Stats
  <2> QED
    BY <2>1, <2>2 DEF NoTaskIsLost, SettledAfterWork, SourceComplete, WholeSource
<1>6. CASE DeleteFails \/ DeleteEnds
  <2>1. UNCHANGED <<srcList, stats, cancelled>> /\ phase = "delete" /\ phase' = "idle"
    BY <1>6 DEF DeleteFails, DeleteEnds, Return
  <2>2. Settled' = Settled
    BY <2>1 DEF Settled, Present, Counted
  <2> QED
    BY <2>1, <2>2 DEF NoTaskIsLost, SettledAfterWork, SourceComplete
<1> QED
  BY <1>1, <1>2, <1>3, <1>4, <1>5, <1>6 DEF Main

\* Everybody else.
LEMMA OutsideEnd ==
  ASSUME SyncInv, EndInv, Environment \/ UNCHANGED vars
  PROVE  EndInv'
<1>1. /\ UNCHANGED <<main, pool, stats>>
      /\ kinds' = kinds
      /\ cancelled => cancelled'
      /\ srcTouched \subseteq srcTouched'
      /\ \A p \in Path \ srcTouched' : src'[p] = src[p]
  BY DEF Environment, Tick, Cancel, EditSrc, EditDst, EditFrame, vars, store, aux,
         SyncInv, TypeOK
<1>2. /\ UNCHANGED <<phase, opts, srcList, result, queue, pc, at, taskErr, stats>>
  BY <1>1 DEF main, pool
<1>3. Settled' = Settled /\ \A p : Accounted(p)' = Accounted(p)
  BY <1>2 DEF Settled, Accounted, Busy, Present, Counted
<1>4. NoTaskIsLost'
  BY <1>1, <1>2, <1>3 DEF EndInv, NoTaskIsLost, Present
<1>5. SettledAfterWork' /\ SourceComplete'
  BY <1>1, <1>2, <1>3 DEF EndInv, SettledAfterWork, SourceComplete, WholeSource
<1> QED
  BY <1>4, <1>5 DEF EndInv

LEMMA EndStep == SyncInv /\ EndInv /\ [Next]_vars => EndInv'
<1> SUFFICES ASSUME SyncInv, EndInv, [Next]_vars PROVE EndInv'
  OBVIOUS
<1>1. ASSUME NEW o \in Options, Start(o) PROVE EndInv'
  BY <1>1 DEF Start, EndInv, NoTaskIsLost, SettledAfterWork, SourceComplete
<1> QED
  BY <1>1, MainEnd, WorkerEnd, OutsideEnd DEF Next, Finished

-----------------------------------------------------------------------------
(* The theorems.                                                           *)

\* The inductive invariant of how a run ends.
THEOREM EndInvariant == Spec => []EndInv
  BY EndInit, EndStep, SyncInvariant, PTL DEF Spec

\* A nil error without a cancellation means that every listed file was settled, for
\* any number of workers, whichever of them failed or stopped early.
THEOREM NilIsComplete == Spec => []NilMeansAllSettled
<1>1. EndInv => NilMeansAllSettled
  BY DEF EndInv, SettledAfterWork, NilMeansAllSettled, Complete
<1> QED
  BY <1>1, EndInvariant, PTL

\* Deletions wait for complete success, and take only what the source has not, when
\* its listing was complete.
THEOREM DeletionsAreOrphans == Spec => DeletesOnlyOrphans
<1> DEFINE Safe == \A p \in Path :
      phase = "delete" /\ budget'.edits = budget.edits
        /\ dst[p] # Absent /\ dst'[p] = Absent
          => /\ opts.delete /\ Settled /\ ~taskErr
             /\ src[p] = Absent \/ p \in srcTouched
                \/ (kinds.src = "s3" /\ Page < NumPaths)
<1>1. SyncInv /\ EndInv /\ Next => Safe
  <2> SUFFICES ASSUME SyncInv, EndInv, Next, NEW p \in Path, phase = "delete",
                      budget'.edits = budget.edits, dst[p] # Absent, dst'[p] = Absent
               PROVE  /\ opts.delete /\ Settled /\ ~taskErr
                      /\ src[p] = Absent \/ p \in srcTouched
                         \/ (kinds.src = "s3" /\ Page < NumPaths)
    OBVIOUS
  <2>1. ~cancelled /\ Extraneous(p)
    <3>1. ASSUME NEW o \in Options, Start(o) PROVE FALSE
      BY <3>1 DEF Start
    <3>2. ASSUME NEW w \in Worker, WorkerStep(w) PROVE FALSE
      BY <3>2, WorkerFrames DEF StepFrame
    <3>3. CASE Environment
      BY <3>3 DEF Environment, Tick, Cancel, EditSrc, EditDst, EditFrame, Spend, SyncInv,
                  TypeOK, store
    <3>4. CASE Main
      BY <3>4 DEF Main, ListSrc, ListSrcFails, ListDst, ListDstFails, Wait, DeleteFails,
                  DeleteEnds, DeleteEntry, store, SyncInv, TypeOK
    <3> QED
      BY <3>1, <3>2, <3>3, <3>4 DEF Next, Finished, vars, store
  <2>2. ~cancelled /\ srcList[p] = Absent
    BY <2>1 DEF Extraneous
  <2>3. src[p] = Absent \/ p \in srcTouched \/ (kinds.src = "s3" /\ Page < NumPaths)
    BY <2>2, BoundsAssumption DEF EndInv, SourceComplete, WholeSource
  <2> QED
    BY <2>2, <2>3 DEF EndInv, SettledAfterWork
<1>2. SyncInv /\ EndInv /\ [Next]_vars => [Safe]_vars
  BY <1>1
<1> QED
  BY <1>2, SyncInvariant, EndInvariant, PTL DEF Spec, DeletesOnlyOrphans

-----------------------------------------------------------------------------
(* Two runs, one after the other: the invariants.                          *)

SrcNow == Listed(src, kinds.src)
DstNow == Listed(dst, kinds.dst)

\* While nobody touches the source, its listing is what one would get again.
ListingStands ==
    srcTouched = {} /\ (phase \in {"listDst", "work", "delete"} \/ result = "ok")
        => srcList = SrcNow

\* A run that is compared with the one before it has not been disturbed, and one
\* that returned nil had no failing worker.
Undisturbed ==
    /\ previous # {} => srcTouched = {} /\ dstTouched = {}
    /\ budget.faults <= MaxFaults

Same(p) == src[p] # Absent /\ dst[p] # Absent /\ dst[p].data = src[p].data

\* r is the first of two runs in checksum mode, and not a dry run.
ChecksAgain(r) == ~r[1].dryRun /\ r[1].checksum /\ opts.checksum

\* In the second one every file there is a task for is as the first one left it,
\* and no worker comes to replace one, but those whose copies were cut off.
Quiet(cut) ==
    /\ stats.updated \cup stats.conflict \subseteq cut
    /\ phase \in {"listSrc", "listDst"} => \A p \in Present(SrcNow) \ cut : Same(p)
    /\ phase = "work" => \A p \in queue \ cut : Same(p)
    /\ \A w \in Worker : Busy(w) /\ at[w] \notin cut =>
          /\ Same(at[w]) /\ pc[w] \notin {"stat", "read", "save"}
          /\ pc[w] \in {"open", "write"} => ~Exists(w)

AgainInv == /\ ListingStands /\ Undisturbed
            /\ \A r \in previous : ChecksAgain(r) => Quiet(r[3])

-----------------------------------------------------------------------------
(* A second run in checksum mode.                                          *)

\* Of the statistics a worker's step changes what they say of its own file.
LEMMA OwnStatistics ==
  ASSUME SyncInv, NEW w \in Worker, WorkerStep(w)
  PROVE  /\ stats'.deleted = stats.deleted
         /\ \A q \in Path \ {at[w]} :
              /\ q \in stats'.transferred <=> q \in stats.transferred
              /\ q \in stats'.updated  <=> q \in stats.updated
              /\ q \in stats'.skipped  <=> q \in stats.skipped
              /\ q \in stats'.conflict <=> q \in stats.conflict
         /\ ~Busy(w) => stats' = stats
<1>1. TypeOK /\ (~Busy(w) => stats' = stats)
  BY WorkerFrames DEF SyncInv, StepFrame
<1>2. CASE stats' = stats
  BY <1>1, <1>2
<1>3. ASSUME NEW status, Judge(w, status)
      PROVE  /\ stats'.deleted = stats.deleted
             /\ stats'.transferred = stats.transferred /\ stats'.updated = stats.updated
             /\ stats'.skipped \in {stats.skipped, stats.skipped \cup {at[w]}}
             /\ stats'.conflict \in {stats.conflict, stats.conflict \cup {at[w]}}
  BY <1>1, <1>3 DEF Judge, TypeOK, Stats
<1>4. CASE CompareListed(w) \/ HashDst(w)
  <2>1. PICK status : Judge(w, status) \/ stats' = stats
    BY <1>4 DEF CompareListed, HashDst
  <2> QED
    BY <1>1, <1>2, <1>3, <2>1
<1>5. CASE BackupWrite(w) \/ CountDryRun(w) \/ WriteDst(w)
  <2>1. Busy(w)
    BY <1>5 DEF BackupWrite, CountDryRun, WriteDst, Busy
  <2>2. /\ stats'.deleted = stats.deleted
        /\ stats'.transferred \in {stats.transferred, stats.transferred \cup {at[w]}}
        /\ stats'.updated \in {stats.updated, stats.updated \cup {at[w]}}
        /\ stats'.skipped \in {stats.skipped, stats.skipped \cup {at[w]}}
        /\ stats'.conflict \in {stats.conflict, stats.conflict \cup {at[w]}}
    BY <1>1, <1>5 DEF BackupWrite, CountDryRun, WriteDst, Count, TypeOK, Stats
  <2> QED
    BY <2>1, <2>2
<1>6. CASE ReceiveNext(w) \/ ReceiveLast(w) \/ HashSrc(w) \/ BackupStat(w) \/ BackupRead(w)
             \/ OpenSrc(w) \/ CallFails(w) \/ WriteLosesTarget(w) \/ WriteUnanswered(w)
  BY <1>2, <1>6 DEF ReceiveNext, ReceiveLast, HashSrc, BackupStat, BackupRead, OpenSrc,
     CallFails, WriteLosesTarget, WriteUnanswered
<1> QED
  BY <1>4, <1>5, <1>6 DEF WorkerStep

\* The listing stands, and what a step does to what it stands on is noticed.
LEMMA AgainBase ==
  ASSUME SyncInv, ListingStands, Undisturbed, [Next]_vars
  PROVE  ListingStands' /\ Undisturbed'
<1> USE DEF ListingStands, Undisturbed, SrcNow, store, main, pool, aux
<1>1. ASSUME NEW o \in Options, Start(o)
      PROVE  ListingStands' /\ Undisturbed'
  BY <1>1 DEF Start, Spend, SyncInv, TypeOK
<1>2. ASSUME Main
      PROVE  ListingStands' /\ Undisturbed'
  <2>1. /\ UNCHANGED <<kinds, src, srcTouched, dstTouched, previous>>
        /\ budget'.faults <= budget.faults
    BY <1>2 DEF Main, ListSrc, ListSrcFails, ListDst, ListDstFails, Wait, DeleteFails,
       DeleteEnds, DeleteEntry, Fails, Spend, SyncInv, TypeOK
  <2>2. \/ srcList' = SrcNow
        \/ phase' = "idle" /\ result' = "error"
        \/ srcList' = srcList /\ phase \in {"listDst", "work", "delete"}
    BY <1>2 DEF Main, ListSrc, ListSrcFails, ListDst, ListDstFails, Wait, DeleteFails,
       DeleteEnds, DeleteEntry, Return
  <2>3. SrcNow' = SrcNow
    BY <2>1 DEF Listed, Present
  <2>4. budget'.faults <= MaxFaults
    <3>1. TypeOK /\ TypeOK'
      BY <1>2, MainType DEF SyncInv
    <3>2. budget'.faults \in Nat /\ budget.faults \in Nat
      BY <3>1 DEF TypeOK
    <3> QED
      BY <2>1, <3>2, BoundsAssumption
  <2> QED
    BY <2>1, <2>2, <2>3, <2>4
<1>3. ASSUME NEW w \in Worker, WorkerStep(w)
      PROVE  ListingStands' /\ Undisturbed'
  <2>1. /\ UNCHANGED <<kinds, src, srcTouched, dstTouched, previous, srcList, phase, result>>
        /\ budget'.faults <= budget.faults
    BY <1>3 DEF WorkerStep, ReceiveNext, ReceiveLast, CompareListed, HashSrc, HashDst,
       BackupStat, BackupRead, BackupWrite, CountDryRun, OpenSrc, WriteDst, CallFails,
       WriteLosesTarget, WriteUnanswered, WorkerFrame, Acknowledges, Fails, Spend, SyncInv, TypeOK
  <2>2. budget'.faults <= MaxFaults
    <3>1. TypeOK /\ TypeOK'
      BY <1>3, WorkerType DEF SyncInv
    <3>2. budget'.faults \in Nat /\ budget.faults \in Nat
      BY <3>1 DEF TypeOK
    <3> QED
      BY <2>1, <3>2, BoundsAssumption
  <2> QED
    BY <2>1, <2>2
<1>4. ASSUME Environment \/ UNCHANGED vars
      PROVE  ListingStands' /\ Undisturbed'
  BY <1>4 DEF Environment, Tick, Cancel, EditSrc, EditDst, EditFrame, Spend, vars, SyncInv,
     TypeOK
<1> QED
  BY <1>1, <1>2, <1>3, <1>4 DEF Next, Finished

\* What the first run has counted it has left as it is in the source.
LEMMA QuietStart ==
  ASSUME SyncInv, EndInv, ListingStands, NEW o \in Options, Start(o),
         NEW r \in previous', ChecksAgain(r)'
  PROVE  Quiet(r[3])'
<1>0. /\ r = <<opts, stats, CutCopies>> /\ Complete
      /\ srcTouched = {} /\ dstTouched = {}
  BY DEF Start
<1>1. /\ ~opts.dryRun /\ opts.checksum /\ r[3] = CutCopies
      /\ UNCHANGED <<kinds, src, dst, pc>> /\ phase = "idle" /\ phase' = "listSrc"
      /\ stats' = NoStats
  BY <1>0 DEF Start, ChecksAgain, store
<1>2. srcList = SrcNow /\ Settled
  BY <1>0 DEF ListingStands, EndInv, SettledAfterWork, Complete
<1>3. \A p \in Present(SrcNow) \ CutCopies : Same(p)
  <2> SUFFICES ASSUME NEW p \in Present(SrcNow) \ CutCopies PROVE Same(p)
    OBVIOUS
  <2>1. p \in Counted /\ Agree(p) /\ <<"write", p>> \notin cutOff
    BY <1>0, <1>2 DEF Settled, SyncInv, SettledAgree, CutCopies, Present
  <2> QED
    BY <1>1, <2>1 DEF Agree, CopyOf, Same
<1>4. Present(SrcNow)' = Present(SrcNow) /\ \A p : Same(p)' = Same(p)
  BY <1>1 DEF SrcNow, Listed, Present, Same
<1>5. \A w \in Worker : ~Busy(w)'
  BY <1>1 DEF SyncInv, TasksOwned, Busy
<1> QED
  BY <1>1, <1>3, <1>4, <1>5 DEF Quiet, NoStats

\* The main goroutine lists, waits and deletes what is not in the source.
LEMMA QuietMain ==
  ASSUME SyncInv, ListingStands, Undisturbed, previous # {}, NEW cut, Quiet(cut), Main
  PROVE  Quiet(cut)'
<1> USE DEF store, main, pool, aux
<1>1. \A w \in Worker : phase # "work" \/ Wait => ~Busy(w)
  BY DEF SyncInv, TasksOwned, Busy, Wait
<1>2. srcTouched = {}
  BY DEF Undisturbed
<1>3. CASE ListSrc \/ ListSrcFails \/ Wait \/ DeleteEnds
  <2>1. /\ UNCHANGED <<kinds, src, dst, stats, pc>> /\ phase' # "work"
        /\ phase' = "listDst" => phase = "listSrc"
        /\ phase' # "listSrc"
    BY <1>3 DEF ListSrc, ListSrcFails, Wait, DeleteEnds, Return, AfterWait
  <2>2. Present(SrcNow)' = Present(SrcNow) /\ \A p : Same(p)' = Same(p)
    BY <2>1 DEF SrcNow, Listed, Present, Same
  <2>3. \A w \in Worker : ~Busy(w)'
    BY <1>1, <1>3, <2>1 DEF Busy, ListSrc, ListSrcFails, DeleteEnds
  <2> QED
    BY <2>1, <2>2, <2>3 DEF Quiet
<1>4. CASE ListDst \/ ListDstFails
  <2>1. /\ UNCHANGED <<src, dst, stats>> /\ phase' = "work" /\ phase = "listDst"
        /\ queue' = Present(srcList)
        /\ \A w \in Worker : pc'[w] \in {"receive", "exit"}
    BY <1>4 DEF ListDst, ListDstFails, Spawn
  <2>2. srcList = SrcNow
    BY <1>2, <2>1 DEF ListingStands
  <2>3. \A p : Same(p)' = Same(p)
    BY <2>1 DEF Same
  <2> QED
    BY <2>1, <2>2, <2>3 DEF Quiet, Busy
<1>5. ASSUME DeleteFails \/ \E p \in Path : DeleteEntry(p)
      PROVE  Quiet(cut)'
  <2>1. /\ phase = "delete" /\ phase' \in {"delete", "idle"} /\ pc' = pc
        /\ stats'.updated = stats.updated /\ stats'.conflict = stats.conflict
    BY <1>5 DEF DeleteEntry, DeleteFails, Return, SyncInv, TypeOK, Stats
  <2>2. \A w \in Worker : ~Busy(w)'
    BY <1>1, <2>1 DEF Busy
  <2> QED
    BY <2>1, <2>2 DEF Quiet
<1> QED
  BY <1>3, <1>4, <1>5 DEF Main

\* A worker finds what the first run left, or copies what no listing showed, or
\* mends a copy that was cut off.
LEMMA QuietWorker ==
  ASSUME SyncInv, Undisturbed, previous # {}, opts.checksum,
         NEW cut, Quiet(cut), NEW w \in Worker, WorkerStep(w)
  PROVE  Quiet(cut)'
<1> USE DEF WorkerFrame, main
<1>1. StepFrame(w) /\ TypeOK
  BY WorkerFrames DEF SyncInv
<1>2. srcTouched = {}
  BY DEF Undisturbed
<1>3. /\ phase' = "work" /\ \A v \in Worker \ {w} : Busy(v) /\ at[v] \notin cut =>
            Same(at[v])' /\ pc'[v] = pc[v] /\ at'[v] = at[v] /\ Exists(v)' = Exists(v)
  BY <1>1 DEF StepFrame, SyncInv, TasksOwned, Quiet, Same, Busy, TypeOK, Exists, Listing
<1>4. \A q \in queue' \ cut : Same(q)'
  BY <1>1 DEF StepFrame, SyncInv, TasksOwned, Quiet, Same, Busy, TypeOK
<1>5. /\ Busy(w) /\ at[w] \notin cut =>
             /\ Same(at[w]) /\ pc[w] \notin {"stat", "read", "save"}
             /\ (pc[w] \in {"open", "write"} => ~Exists(w))
      /\ at[w] \in Path
      /\ phase = "work" /\ \A q \in queue \ cut : Same(q)
  BY <1>1 DEF Quiet, StepFrame, TypeOK
<1>6. ASSUME stats'.updated \cup stats'.conflict \subseteq cut,
             Busy(w)' /\ at'[w] \notin cut =>
               /\ Same(at[w])' /\ pc'[w] \notin {"stat", "read", "save"}
               /\ (pc'[w] \in {"open", "write"} => ~Exists(w)')
      PROVE  Quiet(cut)'
  <2>1. \A v \in Worker \ {w} : Busy(v)' = Busy(v) /\ (at[v])' = at[v]
    BY <1>1 DEF StepFrame, Busy
  <2> QED
    BY <1>3, <1>4, <1>6, <2>1 DEF Quiet
<1>7. stats.updated \cup stats.conflict \subseteq cut
  BY DEF Quiet
<1>8. CASE ReceiveNext(w)
  <2>1. /\ at'[w] \in queue /\ UNCHANGED <<src, dst, stats, destMap>>
        /\ pc'[w] = IF destMap[at'[w]] = Absent THEN "open" ELSE "compare"
    BY <1>1, <1>8 DEF ReceiveNext, TypeOK
  <2>2. /\ at'[w] \notin cut => Same(at[w])'
        /\ pc'[w] = "open" => ~Exists(w)'
    BY <1>5, <2>1 DEF Same, Exists, Listing
  <2> QED
    BY <1>6, <1>7, <2>1, <2>2
<1>9. CASE ReceiveLast(w) \/ CallFails(w) \/ WriteLosesTarget(w) \/ WriteUnanswered(w)
  BY <1>1, <1>6, <1>7, <1>9
     DEF ReceiveLast, CallFails, WriteLosesTarget, WriteUnanswered, TaskEnds, Busy, TypeOK
<1>a. CASE Busy(w) /\ at[w] \in cut
  <2>1. stats'.updated \cup stats'.conflict \subseteq cut
    <3>1. TypeOK'
      BY WorkerType DEF SyncInv
    <3>2. stats'.updated \cup stats'.conflict \subseteq Path
      BY <3>1 DEF TypeOK, Stats
    <3> QED
      BY <1>7, <1>a, <3>2, OwnStatistics
  <2>2. Busy(w)' => at'[w] = at[w]
    BY <1>1, <1>a DEF WorkerStep, ReceiveNext, ReceiveLast, CompareListed, HashSrc, HashDst,
       BackupStat, BackupRead, BackupWrite, CountDryRun, OpenSrc, WriteDst, CallFails,
       WriteLosesTarget, WriteUnanswered, Judge, TaskEnds, Busy, TypeOK
  <2> QED
    BY <1>6, <1>a, <2>1, <2>2
<1>10. CASE (HashSrc(w) \/ OpenSrc(w)) /\ at[w] \notin cut
  <2>1. /\ Busy(w) /\ UNCHANGED <<src, dst, stats, at, destMap>>
        /\ pc'[w] = IF pc[w] = "open" THEN "write" ELSE "hashDst"
    BY <1>1, <1>10 DEF HashSrc, OpenSrc, Busy, TypeOK
  <2>2. Same(at[w])' /\ Exists(w)' = Exists(w)
    BY <1>5, <1>10, <2>1 DEF Same, Exists, Listing
  <2> QED
    BY <1>5, <1>6, <1>7, <1>10, <2>1, <2>2
<1>11. CASE HashDst(w) /\ at[w] \notin cut
  <2>1. Busy(w) /\ pc[w] = "hashDst" /\ Judge(w, HashVerdict(w))
    BY <1>11 DEF HashDst, Busy
  <2>2. buf[w] = src[at[w]].data
    BY <1>2, <2>1 DEF SyncInv, StreamsOpen, StreamOpen
  <2>3. HashVerdict(w) = "identical"
    BY <1>5, <1>11, <2>1, <2>2 DEF HashVerdict, Same
  <2>4. /\ pc'[w] = "receive"
        /\ stats'.updated = stats.updated /\ stats'.conflict = stats.conflict
    BY <1>1, <2>1, <2>3
       DEF Judge, AfterJudge, TaskEnds, CountsNow, NeedsBackup, TypeOK, Stats
  <2> QED
    BY <1>6, <1>7, <2>4 DEF Busy
<1>12. CASE (CountDryRun(w) \/ WriteDst(w)) /\ at[w] \notin cut
  <2>1. Busy(w) /\ pc[w] \in {"open", "write"} /\ Count(w) /\ pc'[w] = "receive"
    BY <1>1, <1>12 DEF CountDryRun, WriteDst, TaskEnds, Busy, TypeOK
  <2>2. stats'.updated = stats.updated /\ stats'.conflict = stats.conflict
    BY <1>1, <1>5, <1>12, <2>1 DEF Count, TypeOK, Stats
  <2> QED
    BY <1>6, <1>7, <2>1, <2>2 DEF Busy
<1>13. CASE /\ at[w] \notin cut
            /\ CompareListed(w) \/ BackupStat(w) \/ BackupRead(w) \/ BackupWrite(w)
  BY <1>5, <1>13 DEF CompareListed, BackupStat, BackupRead, BackupWrite, Busy
<1>14. CASE ~Busy(w)
  BY <1>8, <1>9, <1>14 DEF WorkerStep, CompareListed, HashSrc, HashDst, BackupStat,
     BackupRead, BackupWrite, CountDryRun, OpenSrc, WriteDst, Busy
<1> QED
  BY <1>8, <1>9, <1>a, <1>10, <1>11, <1>12, <1>13, <1>14 DEF WorkerStep

\* Before the first run there is none to compare it with.
LEMMA AgainInit == Init => AgainInv
  BY BoundsAssumption DEF Init, AgainInv, ListingStands, Undisturbed

\* Every step preserves the invariant of two runs in checksum mode.
LEMMA AgainStep == SyncInv /\ EndInv /\ AgainInv /\ [Next]_vars => AgainInv'
<1> SUFFICES ASSUME SyncInv, EndInv, AgainInv, [Next]_vars PROVE AgainInv'
  OBVIOUS
<1>0. ListingStands' /\ Undisturbed' /\ ListingStands /\ Undisturbed
  BY AgainBase DEF AgainInv
<1> SUFFICES ASSUME NEW r \in previous', ChecksAgain(r)' PROVE Quiet(r[3])'
  BY <1>0 DEF AgainInv
<1>1. ASSUME NEW o \in Options, Start(o) PROVE Quiet(r[3])'
  BY <1>0, <1>1, QuietStart
<1>2. ASSUME UNCHANGED <<previous, opts>>
      PROVE  Quiet(r[3]) /\ previous # {} /\ opts.checksum
  BY <1>2 DEF ChecksAgain, AgainInv
<1>3. CASE Main
  <2>1. UNCHANGED <<previous, opts>>
    BY <1>3 DEF Main, ListSrc, ListSrcFails, ListDst, ListDstFails, Wait, DeleteFails,
       DeleteEnds, DeleteEntry, aux
  <2> QED
    BY <1>0, <1>2, <1>3, <2>1, QuietMain
<1>4. ASSUME NEW w \in Worker, WorkerStep(w) PROVE Quiet(r[3])'
  <2>1. UNCHANGED <<previous, opts>>
    BY <1>4 DEF WorkerStep, ReceiveNext, ReceiveLast, CompareListed, HashSrc, HashDst,
       BackupStat, BackupRead, BackupWrite, CountDryRun, OpenSrc, WriteDst, CallFails,
       WriteLosesTarget, WriteUnanswered, WorkerFrame, main
  <2> QED
    BY <1>0, <1>2, <1>4, <2>1, QuietWorker
<1>5. CASE Environment \/ UNCHANGED vars
  <2>1. /\ UNCHANGED <<kinds, src, dst, stats, phase, queue, pc, at, destMap>>
        /\ UNCHANGED <<previous, opts>>
    BY <1>5 DEF Environment, Tick, Cancel, EditSrc, EditDst, EditFrame, vars,
       store, main, pool, aux
  <2>2. /\ \A p : Same(p)' = Same(p)
        /\ Present(SrcNow)' = Present(SrcNow)
        /\ \A w : Busy(w)' = Busy(w) /\ Exists(w)' = Exists(w)
    BY <2>1 DEF Same, SrcNow, Listed, Present, Busy, Exists, Listing
  <2> QED
    BY <1>2, <2>1, <2>2 DEF Quiet
<1> QED
  BY <1>1, <1>3, <1>4, <1>5 DEF Next, Finished

\* Once a run in checksum mode is complete, another one replaces nothing and
\* displaces nothing but the copies that were cut off, for any number of workers
\* and files.
THEOREM ChecksumIsStable == Spec => []ChecksumResyncIsQuiet
<1>1. AgainInv => ChecksumResyncIsQuiet
  BY DEF AgainInv, ChecksAgain, Quiet, ChecksumResyncIsQuiet
<1> QED
  BY <1>1, AgainInit, AgainStep, SyncInvariant, EndInvariant, PTL DEF Spec

-----------------------------------------------------------------------------
(* A run after its rehearsal: the invariant.                               *)

\* The verdict on a file, by what is there and what was listed.
Verdict(s, d, p) ==
    IF opts.checksum
      THEN IF src[p].data = dst[p].data THEN "identical" ELSE "conflict"
      ELSE StatCompare(s[p], d[p])

\* The statistics t say of p what a run over the listings s and d makes of it.
Foretells(t, s, d, p) ==
    /\ p \in t.transferred <=> d[p] = Absent
    /\ p \in t.skipped  <=> d[p] # Absent /\ Verdict(s, d, p) = "identical"
    /\ p \in t.updated  <=> d[p] # Absent /\ Verdict(s, d, p) # "identical"
    /\ p \in t.conflict <=> d[p] # Absent /\ NeedsBackup(Verdict(s, d, p))

\* They say nothing of other files, one thing of each, and what is deleted.
Fits(t, s, d) ==
    /\ t \in Stats
    /\ t.transferred \cup t.updated \cup t.skipped \cup t.conflict \subseteq Present(s)
    /\ t.transferred \cap (t.updated \cup t.skipped) = {} /\ t.updated \cap t.skipped = {}
    /\ t.deleted = IF opts.delete THEN Present(d) \ Present(s) ELSE {}

\* A worker does with its task what t says.
InHand(t, w) ==
    /\ pc[w] \in {"compare", "hashDst"} =>
          Foretells(t, srcList, destMap, at[w]) /\ at[w] \notin stats.conflict
    /\ pc[w] = "hashDst" => opts.checksum
    /\ pc[w] \in {"stat", "read", "save"} => at[w] \in t.updated \cap t.conflict
    /\ pc[w] \in {"open", "write"} =>
          /\ at[w] \in t.conflict <=> at[w] \in stats.conflict
          /\ at[w] \in IF Exists(w) THEN t.updated ELSE t.transferred

\* What is counted is counted as t says.
CountedAs(t) == \A p \in Counted :
    /\ p \in stats.transferred <=> p \in t.transferred
    /\ p \in stats.updated  <=> p \in t.updated
    /\ p \in stats.skipped  <=> p \in t.skipped
    /\ p \in stats.conflict <=> p \in t.conflict

\* The run is on its way to the statistics t.
Heads(t) ==
    /\ phase \in {"listSrc", "listDst"} =>
          Fits(t, SrcNow, DstNow) /\ \A p \in Present(SrcNow) : Foretells(t, SrcNow, DstNow, p)
    /\ phase \in {"work", "delete"} \/ result = "ok" =>
          Fits(t, srcList, destMap) /\ stats.conflict \subseteq Present(srcList) /\ CountedAs(t)
    /\ phase = "work" =>
          /\ \A p \in queue : Foretells(t, srcList, destMap, p) /\ p \notin stats.conflict
          /\ stats.deleted = {}
    /\ \A w \in Worker : Busy(w) => InHand(t, w)
    /\ phase = "delete" => /\ toDelete \subseteq Present(destMap)
                           /\ stats.deleted = Present(destMap) \ (toDelete \cup Present(srcList))
    /\ result = "ok" => stats.deleted = t.deleted

\* What a run has to do, from what is there now.
Forecast ==
    LET there == {p \in Present(SrcNow) : DstNow[p] # Absent}
        alike == {p \in there : Verdict(SrcNow, DstNow, p) = "identical"}
    IN [transferred |-> Present(SrcNow) \ there,
        skipped     |-> alike,
        updated     |-> there \ alike,
        conflict    |-> {p \in there : NeedsBackup(Verdict(SrcNow, DstNow, p))},
        deleted     |-> IF opts.delete THEN Present(DstNow) \ Present(SrcNow) ELSE {}]

\* Nobody touched, cancelled or failed anything.
Calm == /\ srcTouched = {} /\ dstTouched = {} /\ ~cancelled
        /\ budget.faults = MaxFaults

\* r is a dry run of what is being run.
Rehearses(r) == r[1].dryRun /\ opts = [r[1] EXCEPT !.dryRun = FALSE]

\* What a dry run heads for is what there is to do; and the real run heads for what
\* the dry run before it said.
Foretold == {t \in {Forecast} : opts.dryRun}
              \cup {r[2] : r \in {q \in previous : Rehearses(q)}}

ForecastInv == Calm => \A t \in Foretold : Heads(t)

-----------------------------------------------------------------------------
(* A run after its rehearsal: the steps.                                   *)

\* No step but the call of Sync makes a run calm again, and in a calm step nobody
\* else does anything and no call fails.
LEMMA CalmSteps ==
  ASSUME SyncInv, Undisturbed, Calm', [Next]_vars, \A o \in Options : ~Start(o)
  PROVE  /\ Calm /\ ~Fails /\ ~Spend("faults")
         /\ \A p \in Path : ~EditSrc(p) /\ ~EditDst(p)
         /\ ~Cancel
<1> USE DEF store, main, pool, aux, Calm
<1>0. TypeOK /\ TypeOK'
  BY TypeStep DEF SyncInv
<1>1. budget.faults \in Nat /\ budget.faults <= MaxFaults /\ MaxFaults \in Nat
  BY <1>0, BoundsAssumption DEF TypeOK, Undisturbed
<1>2. /\ srcTouched \subseteq srcTouched' /\ dstTouched \subseteq dstTouched'
      /\ cancelled => cancelled'
  <2>1. CASE Main
    BY <2>1 DEF Main, ListSrc, ListSrcFails, ListDst, ListDstFails, Wait, DeleteFails,
       DeleteEnds, DeleteEntry
  <2>2. ASSUME NEW w \in Worker, WorkerStep(w)
        PROVE  UNCHANGED <<srcTouched, dstTouched, cancelled>>
    BY <2>2 DEF WorkerStep, ReceiveNext, ReceiveLast, CompareListed, HashSrc, HashDst,
       BackupStat, BackupRead, BackupWrite, CountDryRun, OpenSrc, WriteDst, CallFails,
       WriteLosesTarget, WriteUnanswered, WorkerFrame
  <2>3. CASE Environment
    BY <2>3 DEF Environment, Tick, Cancel, EditSrc, EditDst, EditFrame
  <2> QED
    BY <2>1, <2>2, <2>3 DEF Next, Finished, vars
<1>3. ~cancelled /\ srcTouched = {} /\ dstTouched = {}
  BY <1>2
<1>4. ~Spend("faults")
  BY <1>0, <1>1 DEF Spend, TypeOK
<1>5. budget'.faults = budget.faults \/ Spend("faults")
  <2>1. budget' = budget \/ \E what \in {"runs", "edits", "faults", "cancels"} : Spend(what)
    BY DEF Next, Finished, Main, ListSrc, ListSrcFails, ListDst, ListDstFails, Wait,
       DeleteFails, DeleteEnds, DeleteEntry, WorkerStep, ReceiveNext, ReceiveLast,
       CompareListed, HashSrc, HashDst, BackupStat, BackupRead, BackupWrite, CountDryRun,
       OpenSrc, WriteDst, CallFails, WriteLosesTarget, WriteUnanswered, Acknowledges, Fails, Environment, Tick, Cancel,
       EditSrc, EditDst, EditFrame, vars
  <2> QED
    BY <1>0, <2>1 DEF Spend, TypeOK
<1>6. \A p \in Path : ~EditSrc(p) /\ ~EditDst(p)
  BY DEF EditSrc, EditDst
<1> QED
  BY <1>3, <1>4, <1>5, <1>6 DEF Fails, Cancel

\* What is there to do is what the forecast says, and nothing else.
LEMMA ForecastFits ==
  /\ Fits(Forecast, SrcNow, DstNow)
  /\ \A p \in Present(SrcNow) : Foretells(Forecast, SrcNow, DstNow, p)
<1> DEFINE f == Forecast
           there == {p \in Present(SrcNow) : DstNow[p] # Absent}
           alike == {p \in there : Verdict(SrcNow, DstNow, p) = "identical"}
<1>1. /\ f.transferred = Present(SrcNow) \ there /\ f.skipped = alike
      /\ f.updated = there \ alike
      /\ f.conflict = {p \in there : NeedsBackup(Verdict(SrcNow, DstNow, p))}
      /\ f.deleted = IF opts.delete THEN Present(DstNow) \ Present(SrcNow) ELSE {}
  BY DEF Forecast
<1>2. Present(SrcNow) \subseteq Path /\ Present(DstNow) \subseteq Path
  BY DEF Present
<1>3. f \in Stats
  BY <1>2 DEF Forecast, Stats
<1>4. \A p \in Present(SrcNow) : Foretells(f, SrcNow, DstNow, p)
  BY <1>1 DEF Foretells
<1> QED
  BY <1>1, <1>2, <1>3, <1>4 DEF Fits

\* Nothing has happened yet: a call of Sync heads for the forecast.
LEMMA StartHeads ==
  ASSUME SyncInv, NEW o \in Options, Start(o), NEW t, t = Forecast'
  PROVE  Heads(t)'
<1>1. (Fits(Forecast, SrcNow, DstNow)
        /\ \A p \in Present(SrcNow) : Foretells(Forecast, SrcNow, DstNow, p))'
  BY ForecastFits, PTL
<1>2. Fits(t, SrcNow, DstNow)' /\ (\A p \in Present(SrcNow) : Foretells(t, SrcNow, DstNow, p))'
  BY <1>1 DEF Fits, Foretells
<1>3. phase' = "listSrc" /\ result' = "none" /\ \A w \in Worker : ~Busy(w)'
  BY DEF Start, SyncInv, TasksOwned, Busy
<1> QED
  BY <1>2, <1>3 DEF Heads

\* A run that has headed for t and is complete has done what t says.
LEMMA HeadsEnds ==
  ASSUME SyncInv, EndInv, NEW t, Heads(t), Complete
  PROVE  stats = t
<1>1. /\ Fits(t, srcList, destMap) /\ CountedAs(t) /\ stats.deleted = t.deleted
      /\ stats.conflict \subseteq Present(srcList)
      /\ Present(srcList) \subseteq Counted /\ Counted \subseteq Present(srcList)
  BY DEF Heads, Complete, EndInv, SettledAfterWork, Settled, SyncInv, TasksOwned
<1>2. stats \in Stats /\ t \in Stats
  BY <1>1 DEF SyncInv, TypeOK, Fits
<1>3. /\ stats.transferred \cup stats.updated \cup stats.skipped \cup stats.conflict
           \subseteq Counted
      /\ t.transferred \cup t.updated \cup t.skipped \cup t.conflict \subseteq Counted
  BY <1>1 DEF Fits, Counted
<1>4. /\ stats.transferred = t.transferred /\ stats.updated = t.updated
      /\ stats.skipped = t.skipped /\ stats.conflict = t.conflict
  BY <1>1, <1>3 DEF CountedAs
<1> QED
  BY <1>1, <1>2, <1>4 DEF Stats

\* The main goroutine heads on.
LEMMA MainHeads ==
  ASSUME SyncInv, EndInv, ListingStands, Calm, ~Fails, NEW t, Heads(t), Main
  PROVE  Heads(t)'
<1> USE DEF store, main, pool, aux
<1>1. phase # "idle" /\ result = "none" /\ TypeOK /\ srcTouched = {}
  BY DEF Main, ListSrc, ListSrcFails, ListDst, ListDstFails, Wait, DeleteFails, DeleteEnds,
     DeleteEntry, EndInv, SettledAfterWork, SyncInv, Calm
<1>2. \A w \in Worker : phase # "work" \/ Wait => ~Busy(w)
  BY DEF SyncInv, TasksOwned, Busy, Wait
<1>3. CASE ListSrc
  <2>1. UNCHANGED <<kinds, src, dst, opts, stats, pc>> /\ phase = "listSrc" /\ phase' = "listDst"
        /\ result' = "none"
    BY <1>1, <1>3 DEF ListSrc
  <2>2. Fits(t, SrcNow, DstNow) /\ \A p \in Present(SrcNow) : Foretells(t, SrcNow, DstNow, p)
    BY <2>1 DEF Heads
  <2>3. SrcNow' = SrcNow /\ DstNow' = DstNow
    BY <2>1 DEF SrcNow, DstNow, Listed, Present
  <2>5. Present(SrcNow)' = Present(SrcNow) /\ Present(DstNow)' = Present(DstNow)
    BY <2>3 DEF Present
  <2>6. Fits(t, SrcNow, DstNow)'
    BY <2>1, <2>2, <2>5 DEF Fits
  <2>7. \A p \in Present(SrcNow)' : Foretells(t, SrcNow, DstNow, p)'
    BY <2>1, <2>2, <2>3, <2>5 DEF Foretells, Verdict, NeedsBackup
  <2>4. \A w \in Worker : ~Busy(w)'
    BY <1>2, <2>1 DEF Busy
  <2> QED
    BY <2>1, <2>4, <2>6, <2>7 DEF Heads
<1>4. CASE ListSrcFails \/ ListDstFails \/ DeleteFails
  BY <1>4 DEF ListSrcFails, ListDstFails, DeleteFails, Fails, Calm
<1>5. CASE ListDst
  <2>1. /\ UNCHANGED <<kinds, src, dst, opts, stats, srcList>> /\ phase = "listDst" /\ phase' = "work"
        /\ destMap' = DstNow /\ queue' = Present(srcList) /\ result' = "none"
        /\ \A w \in Worker : pc'[w] \in {"receive", "exit"}
    BY <1>1, <1>5 DEF ListDst, Spawn, DstNow
  <2>2. Fits(t, SrcNow, DstNow) /\ \A p \in Present(SrcNow) : Foretells(t, SrcNow, DstNow, p)
    BY <2>1 DEF Heads
  <2>3. srcList = SrcNow /\ stats = NoStats
    BY <1>1, <2>1 DEF ListingStands, SyncInv, TasksOwned
  <2>4. Fits(t, srcList, destMap)'
    BY <2>1, <2>2, <2>3 DEF Fits, Present
  <2>5. \A p \in queue' : Foretells(t, srcList, destMap, p)'
    BY <2>1, <2>2, <2>3 DEF Foretells, Verdict, NeedsBackup
  <2>6. Counted' = {} /\ stats'.conflict = {} /\ stats'.deleted = {}
    BY <2>1, <2>3 DEF Counted, NoStats
  <2>7. CountedAs(t)'
    BY <2>6 DEF CountedAs
  <2> QED
    BY <2>1, <2>4, <2>5, <2>6, <2>7 DEF Heads, Busy
<1>6. CASE Wait
  <2>1. /\ UNCHANGED <<opts, stats, srcList, destMap, pc>> /\ phase = "work"
        /\ toDelete' = Present(destMap)
        /\ phase' \in {"idle", "delete"}
        /\ phase' = "delete" => result' = "none"
        /\ result' = "ok" => ~opts.delete
    BY <1>6 DEF Wait, AfterWait, Outcome
  <2>2. /\ Fits(t, srcList, destMap) /\ stats.conflict \subseteq Present(srcList) /\ CountedAs(t)
        /\ stats.deleted = {}
    BY <2>1 DEF Heads
  <2>3. (Fits(t, srcList, destMap) /\ stats.conflict \subseteq Present(srcList) /\ CountedAs(t))'
    BY <2>1, <2>2 DEF Fits, Present, CountedAs, Counted
  <2>4. result' = "ok" => stats'.deleted = t.deleted
    BY <2>1, <2>2 DEF Fits
  <2>5. /\ toDelete' \subseteq Present(destMap)'
        /\ stats'.deleted = Present(destMap)' \ (toDelete' \cup Present(srcList)')
    BY <2>1, <2>2 DEF Present
  <2>6. \A w \in Worker : ~Busy(w)'
    BY <1>2, <1>6, <2>1 DEF Busy
  <2> QED
    BY <2>1, <2>3, <2>4, <2>5, <2>6 DEF Heads
<1>7. ASSUME NEW p \in Path, DeleteEntry(p)
      PROVE  Heads(t)'
  <2>1. /\ UNCHANGED <<opts, srcList, destMap, pc>> /\ phase = "delete" /\ phase' = "delete"
        /\ p \in toDelete /\ toDelete' = toDelete \ {p} /\ result' = "none"
        /\ stats' = IF srcList[p] = Absent THEN [stats EXCEPT !.deleted = @ \cup {p}]
                                            ELSE stats
    BY <1>1, <1>7 DEF DeleteEntry, Extraneous
  <2>2. /\ Fits(t, srcList, destMap) /\ stats.conflict \subseteq Present(srcList) /\ CountedAs(t)
        /\ toDelete \subseteq Present(destMap)
        /\ stats.deleted = Present(destMap) \ (toDelete \cup Present(srcList))
    BY <2>1 DEF Heads
  <2>3. /\ stats'.transferred = stats.transferred /\ stats'.updated = stats.updated
        /\ stats'.skipped = stats.skipped /\ stats'.conflict = stats.conflict
        /\ stats'.deleted = IF srcList[p] = Absent THEN stats.deleted \cup {p} ELSE stats.deleted
    BY <1>1, <2>1 DEF TypeOK, Stats
  <2>4. (Fits(t, srcList, destMap) /\ stats.conflict \subseteq Present(srcList) /\ CountedAs(t))'
    BY <2>1, <2>2, <2>3 DEF Fits, Present, CountedAs, Counted
  <2>5. /\ toDelete' \subseteq Present(destMap)
        /\ stats'.deleted = Present(destMap) \ (toDelete' \cup Present(srcList))
    BY <2>1, <2>2, <2>3 DEF Present
  <2>6. Present(destMap)' = Present(destMap) /\ Present(srcList)' = Present(srcList)
    BY <2>1 DEF Present
  <2>7. \A w \in Worker : ~Busy(w)'
    BY <1>2, <2>1 DEF Busy
  <2> QED
    BY <2>1, <2>4, <2>5, <2>6, <2>7 DEF Heads
<1>8. CASE DeleteEnds
  <2>1. /\ UNCHANGED <<opts, stats, srcList, destMap, pc>> /\ phase = "delete"
        /\ toDelete = {} /\ phase' = "idle" /\ opts.delete
    BY <1>8 DEF DeleteEnds, Return, EndInv, SettledAfterWork
  <2>2. /\ Fits(t, srcList, destMap) /\ stats.conflict \subseteq Present(srcList) /\ CountedAs(t)
        /\ stats.deleted = Present(destMap) \ Present(srcList)
    BY <2>1 DEF Heads
  <2>3. (Fits(t, srcList, destMap) /\ stats.conflict \subseteq Present(srcList) /\ CountedAs(t))'
    BY <2>1, <2>2 DEF Fits, Present, CountedAs, Counted
  <2>4. stats'.deleted = t.deleted
    BY <2>1, <2>2 DEF Fits
  <2>5. \A w \in Worker : ~Busy(w)'
    BY <1>2, <2>1 DEF Busy
  <2> QED
    BY <2>1, <2>3, <2>4, <2>5 DEF Heads
<1> QED
  BY <1>3, <1>4, <1>5, <1>6, <1>7, <1>8 DEF Main

\* What is left to show of a worker's step: what it does with its own task.
LEMMA OwnHeads ==
  ASSUME SyncInv, EndInv, Calm, NEW t, Heads(t), NEW w \in Worker, WorkerStep(w),
         NEW p, p = at[w],
         Busy(w)' => InHand(t, w)',
         p \in Counted' => p \in Counted \/
              /\ p \in stats'.transferred <=> p \in t.transferred
              /\ p \in stats'.updated  <=> p \in t.updated
              /\ p \in stats'.skipped  <=> p \in t.skipped
              /\ p \in stats'.conflict <=> p \in t.conflict
  PROVE  Heads(t)'
<1>1. StepFrame(w) /\ TypeOK /\ p \in Path /\ TypeOK'
  BY WorkerFrames, InvStep DEF SyncInv, TypeOK, Next
<1>2. /\ UNCHANGED <<src, phase, opts, srcList, destMap, result>> /\ phase = "work"
      /\ result = "none"
  BY <1>1 DEF StepFrame, WorkerStep, ReceiveNext, ReceiveLast, CompareListed, HashSrc,
     HashDst, BackupStat, BackupRead, BackupWrite, CountDryRun, OpenSrc, WriteDst, CallFails,
     WriteLosesTarget, WriteUnanswered, WorkerFrame, main, EndInv, SettledAfterWork
<1>3. /\ stats'.deleted = stats.deleted
      /\ \A q \in Path \ {p} :
           /\ q \in stats'.transferred <=> q \in stats.transferred
           /\ q \in stats'.updated  <=> q \in stats.updated
           /\ q \in stats'.skipped  <=> q \in stats.skipped
           /\ q \in stats'.conflict <=> q \in stats.conflict
      /\ ~Busy(w) => stats' = stats
  BY OwnStatistics
<1>4. Busy(w) => /\ p \in Present(srcList) \ (queue \cup Counted)
                 /\ \A v \in Worker \ {w} : Busy(v) => at[v] # p
  BY DEF SyncInv, TasksOwned
<1>5. /\ Fits(t, srcList, destMap) /\ stats.conflict \subseteq Present(srcList) /\ CountedAs(t)
      /\ \A q \in queue : Foretells(t, srcList, destMap, q) /\ q \notin stats.conflict
      /\ stats.deleted = {}
      /\ \A v \in Worker : Busy(v) => InHand(t, v)
  BY <1>2 DEF Heads
<1>6. \A q \in Path \ {p} : dst'[q] = dst[q]
  BY <1>1 DEF StepFrame
<1>7. ~Busy(w) => dst' = dst
  BY <1>1 DEF StepFrame
<1>8. \A q \in Path : (Busy(w) => q # p) =>
          (Foretells(t, srcList, destMap, q) => Foretells(t, srcList, destMap, q)')
  BY <1>2, <1>6, <1>7 DEF Foretells, Verdict, NeedsBackup
<1>9. Fits(t, srcList, destMap)'
  BY <1>2, <1>5 DEF Fits, Present
<1>10. stats'.conflict \subseteq Present(srcList)' /\ Present(srcList)' = Present(srcList)
  <2>1. Present(srcList)' = Present(srcList)
    BY <1>2 DEF Present
  <2>2. stats'.conflict \subseteq Path
    BY <1>1 DEF TypeOK, Stats
  <2> QED
    BY <1>3, <1>4, <1>5, <2>1, <2>2
<1>11. CountedAs(t)'
  <2> SUFFICES ASSUME NEW q \in Counted'
               PROVE  /\ q \in stats'.transferred <=> q \in t.transferred
                      /\ q \in stats'.updated  <=> q \in t.updated
                      /\ q \in stats'.skipped  <=> q \in t.skipped
                      /\ q \in stats'.conflict <=> q \in t.conflict
    BY DEF CountedAs
  <2>1. q \in Path
    BY <1>1 DEF Counted, TypeOK, Stats
  <2>2. CASE q # p
    BY <1>3, <1>5, <2>1, <2>2 DEF Counted, CountedAs
  <2>3. CASE q = p /\ Busy(w)
    BY <1>4, <2>3
  <2>4. CASE q = p /\ ~Busy(w)
    BY <1>3, <1>5, <2>4 DEF Counted, CountedAs
  <2> QED
    BY <2>2, <2>3, <2>4
<1>12. \A q \in queue' : Foretells(t, srcList, destMap, q)' /\ q \notin stats'.conflict
  BY <1>1, <1>3, <1>4, <1>5, <1>8 DEF StepFrame, TypeOK
<1>13. ASSUME NEW v \in Worker \ {w}, Busy(v)'
       PROVE  InHand(t, v)'
  <2>1. pc'[v] = pc[v] /\ at'[v] = at[v] /\ Busy(v) /\ at[v] \in Path /\ Exists(v)' = Exists(v)
    BY <1>1, <1>2, <1>13 DEF StepFrame, Busy, TypeOK, Exists, Listing
  <2>2. Busy(w) => at[v] # p
    BY <1>4, <2>1
  <2>3. at[v] \in stats'.conflict <=> at[v] \in stats.conflict
    BY <1>3, <2>1, <2>2
  <2>4. InHand(t, v)
    BY <1>5, <2>1
  <2>5. Foretells(t, srcList, destMap, at[v]) => Foretells(t, srcList, destMap, at[v])'
    <3>1. PICK q \in Path : q = at[v]
      BY <2>1
    <3>2. Foretells(t, srcList, destMap, q) => Foretells(t, srcList, destMap, q)'
      BY <1>8, <2>2, <3>1
    <3> QED
      BY <2>1, <3>1, <3>2 DEF Foretells, Verdict
  <2> QED
    BY <1>2, <2>1, <2>3, <2>4, <2>5 DEF InHand
<1> QED
  BY <1>2, <1>3, <1>5, <1>9, <1>10, <1>11, <1>12, <1>13 DEF Heads

\* The worker does what the verdict on its file calls for.
LEMMA JudgeHeads ==
  ASSUME SyncInv, EndInv, Calm, NEW t, Heads(t), NEW w \in Worker, WorkerStep(w),
         pc[w] \in {"compare", "hashDst"},
         Judge(w, Verdict(srcList, destMap, at[w]))
  PROVE  Heads(t)'
<1> DEFINE p == at[w]
           status == Verdict(srcList, destMap, p)
<1>1. /\ TypeOK /\ Busy(w) /\ p \in Path /\ Exists(w)
      /\ p \notin Counted /\ p \in Present(srcList)
  BY DEF SyncInv, TypeOK, Busy, BackupsReady, BackupReady, TasksOwned
<1>2. /\ InHand(t, w) /\ Foretells(t, srcList, destMap, p) /\ p \notin stats.conflict
  BY <1>1 DEF Heads, InHand
<1>3. UNCHANGED <<destMap, opts, at>> \/ AfterJudge(status) = "receive"
  BY DEF Judge, WorkerStep, ReceiveNext, ReceiveLast, CompareListed, HashSrc,
     HashDst, BackupStat, BackupRead, BackupWrite, CountDryRun, OpenSrc, WriteDst, CallFails,
     WriteLosesTarget, WriteUnanswered, WorkerFrame, main
<1>4. /\ stats'.transferred = stats.transferred /\ stats'.updated = stats.updated
      /\ stats'.skipped = IF status = "identical" THEN stats.skipped \cup {p} ELSE stats.skipped
      /\ stats'.conflict = IF CountsNow(status) THEN stats.conflict \cup {p} ELSE stats.conflict
  BY <1>1 DEF Judge, TypeOK, Stats
<1>5. /\ p \in t.transferred <=> FALSE
      /\ p \in t.skipped <=> status = "identical"
      /\ p \in t.updated <=> status # "identical"
      /\ p \in t.conflict <=> NeedsBackup(status)
  BY <1>1, <1>2 DEF Foretells, Exists, Listing
<1>6. p \in Counted' => /\ p \in stats'.transferred <=> p \in t.transferred
                        /\ p \in stats'.updated  <=> p \in t.updated
                        /\ p \in stats'.skipped  <=> p \in t.skipped
                        /\ p \in stats'.conflict <=> p \in t.conflict
  BY <1>1, <1>2, <1>4, <1>5 DEF Counted, CountsNow, NeedsBackup
<1>7. Busy(w)' => InHand(t, w)'
  <2> SUFFICES ASSUME Busy(w)' PROVE InHand(t, w)'
    OBVIOUS
  <2>1. status # "identical" /\ AfterJudge(status) # "receive"
        /\ pc'[w] = AfterJudge(status)
        /\ pc'[w] \in {"stat", "open"}
        /\ (pc'[w] = "stat" <=> NeedsBackup(status) /\ ~opts.dryRun)
    BY <1>1 DEF Judge, AfterJudge, TaskEnds, TypeOK, Busy
  <2>2. (at[w])' = p /\ Exists(w)'
    BY <1>1, <1>3, <2>1 DEF Exists, Listing
  <2>3. pc'[w] = "open" => (p \in t.conflict <=> p \in stats'.conflict)
    BY <1>2, <1>4, <1>5, <2>1 DEF CountsNow
  <2>4. pc'[w] = "stat" => p \in t.updated \cap t.conflict
    BY <1>5, <2>1
  <2> QED
    BY <1>5, <2>1, <2>2, <2>3, <2>4 DEF InHand
<1>8. p \in Counted' => p \in Counted \/
                        /\ p \in stats'.transferred <=> p \in t.transferred
                        /\ p \in stats'.updated  <=> p \in t.updated
                        /\ p \in stats'.skipped  <=> p \in t.skipped
                        /\ p \in stats'.conflict <=> p \in t.conflict
  BY <1>6
<1> QED
  BY <1>7, <1>8, OwnHeads

\* A worker heads on.
LEMMA WorkerHeads ==
  ASSUME SyncInv, EndInv, Calm, ~Fails, NEW t, Heads(t), NEW w \in Worker, WorkerStep(w)
  PROVE  Heads(t)'
<1> USE DEF WorkerFrame, main
<1>1. /\ TypeOK /\ at[w] \in Path /\ ~cancelled /\ srcTouched = {}
      /\ Busy(w) => InHand(t, w) /\ at[w] \notin Counted
      /\ phase = "work" /\ Fits(t, srcList, destMap)
      /\ \A q \in queue : Foretells(t, srcList, destMap, q) /\ q \notin stats.conflict
  <2>1. StepFrame(w) /\ TypeOK
    BY WorkerFrames DEF SyncInv
  <2> QED
    BY <2>1 DEF SyncInv, TypeOK, TasksOwned, Heads, Calm, StepFrame
<1>2. ASSUME Busy(w)' => InHand(t, w)', stats' = stats
      PROVE  Heads(t)'
  <2>1. Counted' = Counted
    BY <1>2 DEF Counted
  <2> QED
    BY <1>2, <2>1, OwnHeads
<1>3. CASE ReceiveNext(w)
  <2>1. PICK q \in queue : /\ at'[w] = q
                           /\ pc'[w] = IF destMap[q] = Absent THEN "open" ELSE "compare"
    BY <1>1, <1>3 DEF ReceiveNext, TypeOK
  <2>2. UNCHANGED <<kinds, src, dst, opts, stats, srcList, destMap>>
    BY <1>3 DEF ReceiveNext
  <2>3. Foretells(t, srcList, destMap, q) /\ q \notin stats.conflict
    BY <1>1
  <2>4. Foretells(t, srcList, destMap, at[w])'
    BY <2>1, <2>2, <2>3 DEF Foretells, Verdict, NeedsBackup
  <2>5. destMap[q] = Absent => q \in t.transferred /\ q \notin t.conflict
    BY <2>3 DEF Foretells
  <2>6. Exists(w)' <=> destMap[q] # Absent
    BY <2>1, <2>2 DEF Exists, Listing
  <2>7. InHand(t, w)'
    BY <2>1, <2>2, <2>3, <2>4, <2>5, <2>6 DEF InHand
  <2> QED
    BY <1>2, <2>2, <2>7
<1>4. CASE ReceiveLast(w) \/ CallFails(w)
  <2>1. stats' = stats /\ pc'[w] = "exit"
    BY <1>1, <1>4 DEF ReceiveLast, CallFails, TaskEnds, TypeOK
  <2> QED
    BY <1>2, <2>1 DEF Busy
<1>5. CASE WriteLosesTarget(w) \/ WriteUnanswered(w)
  BY <1>1, <1>5 DEF WriteLosesTarget, WriteUnanswered, Fails
<1>6. CASE CompareListed(w)
  <2>1. Judge(w, Verdict(srcList, destMap, at[w])) /\ pc[w] = "compare"
    BY <1>6 DEF CompareListed, Verdict, Listing
  <2> QED
    BY <2>1, JudgeHeads
<1>7. CASE HashDst(w)
  <2>1. InHand(t, w) /\ pc[w] = "hashDst" /\ Judge(w, HashVerdict(w))
    BY <1>1, <1>7 DEF HashDst, Busy
  <2>2. buf[w] = src[at[w]].data
    BY <1>1, <2>1 DEF SyncInv, StreamsOpen, StreamOpen
  <2>3. HashVerdict(w) = Verdict(srcList, destMap, at[w])
    BY <2>1, <2>2 DEF InHand, HashVerdict, Verdict
  <2> QED
    BY <2>1, <2>3, JudgeHeads
<1>8. CASE HashSrc(w)
  <2>1. /\ UNCHANGED <<kinds, src, dst, opts, stats, srcList, destMap, at>>
        /\ pc[w] = "compare" /\ pc'[w] = "hashDst" /\ opts.checksum
    BY <1>1, <1>8 DEF HashSrc, TypeOK
  <2>2. Foretells(t, srcList, destMap, at[w]) /\ at[w] \notin stats.conflict
    BY <1>1, <2>1 DEF InHand, Busy
  <2>3. Foretells(t, srcList, destMap, at[w])'
    BY <2>1, <2>2 DEF Foretells, Verdict, NeedsBackup
  <2> QED
    BY <1>2, <2>1, <2>2, <2>3 DEF InHand
<1>9. CASE BackupStat(w) \/ BackupRead(w)
  <2>1. /\ pc[w] \in {"stat", "read"} /\ pc'[w] \in {"read", "save"}
        /\ UNCHANGED <<stats, at>>
    BY <1>1, <1>9 DEF BackupStat, BackupRead, TypeOK
  <2>2. at[w] \in t.updated \cap t.conflict
    BY <1>1, <2>1 DEF InHand, Busy
  <2> QED
    BY <1>2, <2>1, <2>2 DEF InHand
<1>10. CASE BackupWrite(w)
  <2>1. /\ pc[w] = "save" /\ pc'[w] = "open" /\ UNCHANGED <<at, destMap>>
        /\ stats'.conflict = stats.conflict \cup {at[w]}
        /\ Counted' = Counted
    BY <1>1, <1>10 DEF BackupWrite, TypeOK, Stats, Counted
  <2>2. at[w] \in t.updated \cap t.conflict /\ at[w] \notin Counted
    BY <1>1, <2>1 DEF InHand, Busy
  <2>3. Exists(w) /\ Exists(w)'
    BY <2>1 DEF SyncInv, BackupsReady, BackupReady, Exists, Listing
  <2>4. InHand(t, w)'
    BY <2>1, <2>2, <2>3 DEF InHand
  <2> QED
    BY <2>1, <2>2, <2>4, OwnHeads
<1>11. CASE OpenSrc(w)
  <2>1. /\ pc[w] = "open" /\ pc'[w] = "write" /\ UNCHANGED <<stats, at, destMap>>
    BY <1>1, <1>11 DEF OpenSrc, TypeOK
  <2>2. /\ at[w] \in t.conflict <=> at[w] \in stats.conflict
        /\ at[w] \in IF Exists(w) THEN t.updated ELSE t.transferred
    BY <1>1, <2>1 DEF InHand, Busy
  <2>3. Exists(w)' = Exists(w)
    BY <2>1 DEF Exists, Listing
  <2> QED
    BY <1>2, <2>1, <2>2, <2>3 DEF InHand
<1>12. CASE CountDryRun(w) \/ WriteDst(w)
  <2>1. /\ pc[w] \in {"open", "write"} /\ pc'[w] = "receive" /\ Count(w)
    BY <1>1, <1>12 DEF CountDryRun, WriteDst, TaskEnds, TypeOK
  <2>2. /\ at[w] \in t.conflict <=> at[w] \in stats.conflict
        /\ at[w] \in IF Exists(w) THEN t.updated ELSE t.transferred
        /\ at[w] \notin Counted
    BY <1>1, <2>1 DEF InHand, Busy
  <2>3. /\ at[w] \in stats'.conflict <=> at[w] \in stats.conflict
        /\ at[w] \notin stats'.skipped
        /\ at[w] \in stats'.updated <=> Exists(w)
        /\ at[w] \in stats'.transferred <=> ~Exists(w)
    BY <1>1, <2>1, <2>2 DEF Count, Counted, TypeOK, Stats
  <2>4. /\ at[w] \in t.updated <=> Exists(w)
        /\ at[w] \in t.transferred <=> ~Exists(w)
        /\ at[w] \notin t.skipped
    BY <1>1, <2>2 DEF Fits
  <2>5. ~Busy(w)'
    BY <2>1 DEF Busy
  <2> QED
    BY <2>2, <2>3, <2>4, <2>5, OwnHeads
<1> QED
  BY <1>3, <1>4, <1>5, <1>6, <1>7, <1>8, <1>9, <1>10, <1>11, <1>12 DEF WorkerStep

\* What there is to do depends on the stores and on the options, and not on
\* whether it is a dry run.
LEMMA SameForecast ==
  ASSUME UNCHANGED <<kinds, src, dst>>,
         opts'.checksum = opts.checksum, opts'.delete = opts.delete,
         opts'.noBackup = opts.noBackup
  PROVE  Forecast' = Forecast
<1>1. SrcNow' = SrcNow /\ DstNow' = DstNow
  BY DEF SrcNow, DstNow, Listed, Present
<1> QED
  BY <1>1 DEF Forecast, Verdict, NeedsBackup, Present

\* A run starts on its forecast; and if the run before was its rehearsal, on what
\* that one counted, for it is the same.
LEMMA ForecastStart ==
  ASSUME SyncInv, EndInv, ForecastInv, NEW o \in Options, Start(o), Calm'
  PROVE  \A t \in Foretold' : Heads(t)'
<1> SUFFICES ASSUME NEW t \in Foretold' PROVE Heads(t)'
  OBVIOUS
<1>1. CASE t = Forecast'
  BY <1>1, StartHeads
<1>2. ASSUME NEW r \in previous', Rehearses(r)', t = r[2]
      PROVE  Heads(t)'
  <2>1. /\ Complete /\ srcTouched = {} /\ dstTouched = {} /\ r = <<opts, stats, CutCopies>>
        /\ opts.dryRun /\ opts' = [opts EXCEPT !.dryRun = FALSE]
        /\ UNCHANGED <<kinds, src, dst>>
    <3>1. r \in {<<opts, stats, CutCopies>>} /\ Complete /\ srcTouched = {} /\ dstTouched = {}
      BY <1>2 DEF Start
    <3>2. r = <<opts, stats, CutCopies>> /\ r[1] = opts
      BY <3>1
    <3> QED
      BY <1>2, <3>1, <3>2 DEF Start, Rehearses, store
  <2>2. Calm
    BY <2>1 DEF Calm, Complete, Start, Spend, SyncInv, TypeOK
  <2>3. Heads(Forecast)
    BY <2>1, <2>2 DEF ForecastInv, Foretold
  <2>4. stats = Forecast
    BY <2>1, <2>3, HeadsEnds
  <2>5. Forecast' = Forecast
    <3>1. /\ opts'.checksum = opts.checksum /\ opts'.delete = opts.delete
          /\ opts'.noBackup = opts.noBackup
      BY <2>1 DEF SyncInv, TypeOK, SyncOptions
    <3> QED
      BY <2>1, <3>1, SameForecast
  <2>6. t = Forecast'
    BY <1>2, <2>1, <2>4, <2>5
  <2> QED
    BY <2>6, StartHeads
<1> QED
  BY <1>1, <1>2 DEF Foretold

\* At the start nothing is foretold.
LEMMA ForecastInit == Init => ForecastInv
<1> SUFFICES ASSUME Init, NEW t \in Foretold PROVE Heads(t)
  BY DEF ForecastInv
<1>1. FALSE
  BY DEF Init, Foretold
<1> QED
  BY <1>1

\* Every step keeps a run on its way to what is foretold of it.
LEMMA ForecastStep ==
  SyncInv /\ EndInv /\ AgainInv /\ ForecastInv /\ [Next]_vars => ForecastInv'
<1> SUFFICES ASSUME SyncInv, EndInv, AgainInv, ForecastInv, [Next]_vars, Calm'
             PROVE  \A t \in Foretold' : Heads(t)'
  BY DEF ForecastInv
<1>1. ASSUME NEW o \in Options, Start(o)
      PROVE  \A t \in Foretold' : Heads(t)'
  BY <1>1, ForecastStart
<1>2. CASE \A o \in Options : ~Start(o)
  <2>1. /\ Calm /\ ~Fails
        /\ \A p \in Path : ~EditSrc(p) /\ ~EditDst(p)
        /\ ~Cancel
    BY <1>2, CalmSteps DEF AgainInv
  <2>2. Main \/ (\E w \in Worker : WorkerStep(w)) \/ Tick \/ UNCHANGED vars
    BY <1>2, <2>1 DEF Next, Environment, Finished
  <2>3. UNCHANGED <<opts, previous>>
    BY <2>2 DEF Main, ListSrc, ListSrcFails, ListDst, ListDstFails, Wait, DeleteFails,
       DeleteEnds, DeleteEntry, WorkerStep, ReceiveNext, ReceiveLast, CompareListed, HashSrc,
       HashDst, BackupStat, BackupRead, BackupWrite, CountDryRun, OpenSrc, WriteDst,
       CallFails, WriteLosesTarget, WriteUnanswered, WorkerFrame, Tick, vars, main, aux
  <2>4. opts.dryRun => UNCHANGED <<kinds, src, dst>>
    BY <2>2, DryRunStep DEF Tick, vars, store
  <2>5. opts.dryRun => Forecast' = Forecast
    <3>1. ASSUME UNCHANGED <<kinds, src, dst>> PROVE Forecast' = Forecast
      BY <2>3, <3>1, SameForecast
    <3> QED
      BY <2>4, <3>1
  <2>6. Foretold' = Foretold
    BY <2>3, <2>5 DEF Foretold, Rehearses
  <2> SUFFICES ASSUME NEW t, Heads(t) PROVE Heads(t)'
    BY <2>1, <2>6 DEF ForecastInv
  <2>7. CASE Main
    BY <2>1, <2>7, MainHeads DEF AgainInv
  <2>8. ASSUME NEW w \in Worker, WorkerStep(w) PROVE Heads(t)'
    BY <2>1, <2>8, WorkerHeads
  <2>9. CASE Tick \/ UNCHANGED vars
    <3>1. UNCHANGED <<kinds, src, dst, main, pool, stats>>
      BY <2>9 DEF Tick, vars, store
    <3>2. \A s, d, p : /\ Fits(t, s, d)' <=> Fits(t, s, d)
                       /\ Foretells(t, s, d, p)' <=> Foretells(t, s, d, p)
      BY <3>1 DEF Fits, Foretells, Verdict, NeedsBackup, main
    <3>3. SrcNow' = SrcNow /\ DstNow' = DstNow
      BY <3>1 DEF SrcNow, DstNow, Listed, Present
    <3>4. UNCHANGED <<phase, srcList, destMap, result, queue, toDelete, stats, pc, at>>
      BY <3>1 DEF main, pool
    <3>5. \A w \in Worker : (Busy(w)' <=> Busy(w)) /\ (Exists(w)' <=> Exists(w))
      BY <3>4 DEF Busy, Exists, Listing
    <3>6. CountedAs(t)' <=> CountedAs(t)
      BY <3>4 DEF CountedAs, Counted
    <3>7. \A w \in Worker : InHand(t, w) => InHand(t, w)'
      BY <3>1, <3>2, <3>4, <3>5 DEF InHand, main
    <3> QED
      BY <3>2, <3>3, <3>4, <3>5, <3>6, <3>7 DEF Heads, Present, Busy
  <2> QED
    BY <2>2, <2>7, <2>8, <2>9
<1> QED
  BY <1>1, <1>2

\* A complete dry run announces exactly what the same run then does.
THEOREM DryRunsPredict == Spec => []DryRunPredicts
<1>1. SyncInv /\ EndInv /\ AgainInv /\ ForecastInv => DryRunPredicts
  <2> SUFFICES ASSUME SyncInv, EndInv, AgainInv, ForecastInv, NEW r \in previous,
                      Complete, budget.faults = MaxFaults, Rehearses(r)
               PROVE  stats = r[2]
    BY DEF DryRunPredicts, Rehearses
  <2>1. Calm
    BY DEF Calm, Complete, AgainInv, Undisturbed
  <2>2. r[2] \in Foretold
    BY DEF Foretold
  <2> QED
    BY <2>1, <2>2, HeadsEnds DEF ForecastInv
<1>2. Init => AgainInv /\ ForecastInv
  BY AgainInit, ForecastInit
<1>3. SyncInv /\ EndInv /\ AgainInv /\ ForecastInv /\ [Next]_vars => (AgainInv /\ ForecastInv)'
  BY AgainStep, ForecastStep
<1> QED
  BY <1>1, <1>2, <1>3, SyncInvariant, EndInvariant, PTL DEF Spec
=============================================================================
