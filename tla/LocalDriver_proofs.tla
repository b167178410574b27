------------------------- MODULE LocalDriver_proofs -------------------------
(***************************************************************************)
(* Proofs about LocalDriver, for every number of keys, writers and         *)
(* attempts, any arguments of the calls, and every bound.                  *)
(***************************************************************************)
EXTENDS LocalDriver, FiniteSetTheorems, NatSets_proofs

USE LocalAssumption

-----------------------------------------------------------------------------
(* The inductive invariant.                                                *)

\* The types of what the writes and a download work with.
Types ==
    /\ files \in [Name -> File \cup {Absent}]
    /\ job \in [Writer -> Job] /\ pc \in [Writer -> PC]
    /\ result \in [Writer -> {"none", "ok", "error", "crashed"}]
    /\ renameErr \subseteq Writer
    /\ late \subseteq Writer /\ leftover \subseteq Writer
    /\ request \in Request

\* A write has a result when it is done, and removes its target only after a
\* rename has failed.
Outcome(w) ==
    /\ pc[w] = "done" <=> result[w] # "none"
    /\ pc[w] = "remove" => w \in renameErr

\* What is under the name of a temporary file: nothing before the write has made
\* it, a file of this write while it copies, the whole of it when it may be renamed.
TmpHolds(w) ==
    files[Tmp(w)] # Absent =>
        /\ pc[w] \in {"check", "create", "done"} => w \in leftover
        /\ pc[w] = "copy" => files[Tmp(w)].by = w
        /\ pc[w] \in {"rename", "remove"} => files[Tmp(w)] \in Whole(w)

\* A write without Overwrite that has passed its check finds its target only when
\* somebody else has written it since.
Checked(w) ==
    pc[w] \notin {"check", "done"} /\ ~job[w].overwrite /\ files[Own(w)] # Absent
        => w \in late

\* Under a key there is nothing, or what somebody stored.
Kept == \A k \in Key : files[Target(k)] \in Stored(Target(k)) \cup {Absent}

\* A download whose object has not changed has announced its size.
Announced ==
    /\ step \in {"stream", "got"} => request.kind = "get"
    /\ step = "stream" => \/ raced
                          \/ /\ files[request.name] # Absent
                             /\ header = files[request.name].size

LocalInv ==
    /\ Types
    /\ \A w \in Writer : Outcome(w) /\ TmpHolds(w) /\ Checked(w)
    /\ Kept /\ Announced
    /\ GetIsWhole

-----------------------------------------------------------------------------
(* Lemmas about names and files.                                           *)

\* The temporary file of a write has a name of its own.
LEMMA Names ==
  ASSUME job \in [Writer -> Job], NEW w \in Writer
  PROVE  /\ Tmp(w) \in Name /\ Own(w) \in Name /\ job[w].key \in Key
         /\ \A k \in Key : Target(k) \in Name /\ Target(k) # Tmp(w)
         /\ \A v \in Writer : Tmp(v) = Tmp(w) => v = w
         /\ \A k \in Key : Target(k) = Own(w) => k = job[w].key
<1>1. job[w] \in Job
  OBVIOUS
<1>2. job[w].key \in Key
  BY <1>1 DEF Job
<1> QED
  BY <1>2 DEF Name, Tmp, Own, Target, Key, Writer

\* What a write should make of its stream is a file, of its own.
LEMMA WholeType ==
  ASSUME job \in [Writer -> Job], NEW w \in Writer
  PROVE  Whole(w) \subseteq {f \in File : f.by = w}
<1>1. /\ job[w].len \in Nat /\ job[w].size \in Nat \cup {-1}
  BY DEF Job
<1>2. w \in 0..Writers
  BY DEF Writer
<1> QED
  BY <1>1, <1>2 DEF Whole, File

\* A stream copied completely is the whole file.
LEMMA CompleteIsWhole ==
  ASSUME job \in [Writer -> Job], NEW w \in Writer, Complete(w)
  PROVE  [by |-> w, size |-> Written(w)] \in Whole(w)
<1>1. job[w].len \in Nat /\ job[w].size \in Nat \cup {-1}
  BY DEF Job
<1>2. CASE job[w].size >= 0
  <2>1. job[w].size <= job[w].len /\ Written(w) = job[w].size
    BY <1>1, <1>2 DEF Complete, Written
  <2> QED
    BY <1>2, <2>1 DEF Whole
<1>3. CASE ~(job[w].size >= 0)
  <2>1. job[w].ending = "eof" /\ Written(w) = job[w].len
    BY <1>1, <1>3 DEF Complete, Written
  <2> QED
    BY <1>3, <2>1 DEF Whole
<1> QED
  BY <1>2, <1>3

\* The client's name, where it has one.
LEMMA RequestNames ==
  ASSUME request \in Request, request.kind # "list"
  PROVE  request.name \in Name
  BY DEF Request

-----------------------------------------------------------------------------
(* The initial states.                                                     *)

LEMMA InvInit == Init => LocalInv
<1> SUFFICES ASSUME Init PROVE LocalInv
  OBVIOUS
<1>1. Types
  <2>1. [by |-> 0, size |-> 1] \in File
    BY DEF File
  <2> QED
    BY <2>1 DEF Init, Types, PC
<1>2. ASSUME NEW w \in Writer
      PROVE  Outcome(w) /\ TmpHolds(w) /\ Checked(w)
  <2>1. Tmp(w) \in Name /\ Tmp(w)[2] # 0
    BY <1>1, Names DEF Types, Tmp, Writer
  <2> QED
    BY <2>1 DEF Init, Outcome, TmpHolds, Checked
<1>3. Kept
  <2> SUFFICES ASSUME NEW k \in Key
               PROVE  files[Target(k)] \in Stored(Target(k)) \cup {Absent}
    BY DEF Kept
  <2>1. Target(k) \in Name
    BY DEF Target, Name
  <2>2. [by |-> 0, size |-> 1] \in Stored(Target(k))
    BY DEF Stored
  <2> QED
    BY <2>1, <2>2 DEF Init
<1>4. Announced /\ GetIsWhole
  BY DEF Init, Announced, GetIsWhole
<1> QED
  BY <1>1, <1>2, <1>3, <1>4 DEF LocalInv

-----------------------------------------------------------------------------
(* The steps, one conjunct after the other.                                *)

\* What the steps of a write leave alone.
LEMMA WriteFrames ==
  ASSUME NEW w \in Writer, Write(w) \/ Crash(w)
  PROVE  UNCHANGED <<job, request, client>>
  BY DEF Write, Crash, Check, CreateTmp, Copy, Rename, RenameFails, RemoveTarget,
         Cleanup, writes

\* A write changes its own variables, its temporary file and its target only.
LEMMA WriteIsLocal ==
  ASSUME Types, NEW w \in Writer, Write(w) \/ Crash(w)
  PROVE  /\ \A v \in Writer \ {w} :
              /\ pc'[v] = pc[v] /\ result'[v] = result[v]
              /\ v \in renameErr' <=> v \in renameErr
              /\ v \in leftover' <=> v \in leftover
         /\ \A n \in Name \ {Tmp(w), Own(w)} : files'[n] = files[n]
<1> USE DEF Types, Goto, Ends, Sets
<1>1. CASE Check(w)        BY <1>1 DEF Check
<1>2. CASE CreateTmp(w)    BY <1>2, Names DEF CreateTmp
<1>3. CASE Copy(w)         BY <1>3, Names DEF Copy
<1>4. CASE Rename(w)       BY <1>4, Names DEF Rename
<1>5. CASE RenameFails(w)  BY <1>5 DEF RenameFails
<1>6. CASE RemoveTarget(w) BY <1>6, Names DEF RemoveTarget
<1>7. CASE Cleanup(w)      BY <1>7, Names DEF Cleanup
<1>8. CASE Crash(w)        BY <1>8 DEF Crash
<1> QED
  BY <1>1, <1>2, <1>3, <1>4, <1>5, <1>6, <1>7, <1>8 DEF Write

\* A step of the client leaves the writes alone, and removes a file at most.
LEMMA ClientFrames ==
  ASSUME Types, Client
  PROVE  /\ UNCHANGED <<job, writes, request, leftover>>
         /\ \/ UNCHANGED files
            \/ request.kind = "delete" /\ files' = [files EXCEPT ![request.name] = Absent]
  BY DEF Client, Delete, GetStat, GetStream, ListBegin, ListVisit, ListPage, Asks, Sets

\* A write keeps the types.
LEMMA WriteTypes ==
  ASSUME Types, NEW w \in Writer, Write(w) \/ Crash(w)
  PROVE  /\ files' \in [Name -> File \cup {Absent}]
         /\ pc' \in [Writer -> PC]
         /\ result' \in [Writer -> {"none", "ok", "error", "crashed"}]
         /\ renameErr' \subseteq Writer /\ leftover' \subseteq Writer
<1> USE DEF Types, Goto, Ends, Sets, PC, writes
<1>1. CASE Check(w)        BY <1>1 DEF Check
<1>2. CASE CreateTmp(w)
  <2>1. [by |-> w, size |-> 0] \in File
    BY DEF File, Writer
  <2> QED
    BY <1>2, <2>1, Names DEF CreateTmp
<1>3. CASE Copy(w)
  <2>1. Written(w) \in Nat
    BY DEF Written, Job
  <2>2. files' \in [Name -> File \cup {Absent}]
    <3>1. CASE files[Tmp(w)] = Absent
      BY <1>3, <3>1 DEF Copy
    <3>2. CASE files[Tmp(w)] # Absent
      <4>1. files[Tmp(w)] \in File
        BY <3>2, Names
      <4>2. [files[Tmp(w)] EXCEPT !.size = Written(w)] \in File
        BY <2>1, <4>1 DEF File
      <4> QED
        BY <1>3, <3>2, <4>2 DEF Copy
    <3> QED
      BY <3>1, <3>2
  <2> QED
    BY <1>3, <2>2 DEF Copy, AfterCopy
<1>4. CASE Rename(w)       BY <1>4, Names DEF Rename
<1>5. CASE RenameFails(w)  BY <1>5 DEF RenameFails
<1>6. CASE RemoveTarget(w) BY <1>6, Names DEF RemoveTarget, AfterFailure
<1>7. CASE Cleanup(w)      BY <1>7, Names DEF Cleanup
<1>8. CASE Crash(w)        BY <1>8 DEF Crash
<1> QED
  BY <1>1, <1>2, <1>3, <1>4, <1>5, <1>6, <1>7, <1>8 DEF Write

LEMMA TypesStep ==
  ASSUME Types, Next
  PROVE  Types' /\ job' = job /\ request' = request
<1>1. ASSUME NEW w \in Writer, Write(w) \/ Crash(w), Watch
      PROVE  Types' /\ job' = job /\ request' = request
  <2>1. job' = job /\ request' = request
    BY <1>1, WriteFrames
  <2>2. late' \subseteq Writer
    BY <1>1 DEF Watch, Types
  <2> QED
    BY <1>1, <2>1, <2>2, WriteTypes DEF Types
<1>2. CASE Client /\ Watch
  <2>1. late' \subseteq Writer
    BY <1>2 DEF Watch, Types
  <2> QED
    BY <1>2, <2>1, ClientFrames, RequestNames DEF Types, writes
<1>3. CASE Finished
  BY <1>3 DEF Finished, vars, Types, writes, watch
<1> QED
  BY <1>1, <1>2, <1>3 DEF Next

\* The write that has moved keeps its part of the invariant.
LEMMA OutcomeStep ==
  ASSUME Types, Next, \A v \in Writer : Outcome(v), NEW w \in Writer
  PROVE  Outcome(w)'
<1> USE DEF Outcome
<1>1. ASSUME NEW v \in Writer, Write(v) \/ Crash(v)
      PROVE  Outcome(w)'
  <2>1. CASE v = w
    <3> USE <2>1 DEF Types, Goto, Ends, Sets, writes
    <3>1. CASE Check(v)        BY <3>1 DEF Check
    <3>2. CASE CreateTmp(v)    BY <3>2 DEF CreateTmp
    <3>3. CASE Copy(v)         BY <3>3 DEF Copy, AfterCopy
    <3>4. CASE Rename(v)       BY <3>4 DEF Rename
    <3>5. CASE RenameFails(v)  BY <3>5 DEF RenameFails
    <3>6. CASE RemoveTarget(v) BY <3>6 DEF RemoveTarget, AfterFailure
    <3>7. CASE Cleanup(v)      BY <3>7 DEF Cleanup
    <3>8. CASE Crash(v)        BY <3>8 DEF Crash
    <3> QED
      BY <1>1, <3>1, <3>2, <3>3, <3>4, <3>5, <3>6, <3>7, <3>8 DEF Write
  <2>2. CASE v # w
    BY <1>1, <2>2, WriteIsLocal
  <2> QED
    BY <2>1, <2>2
<1>2. CASE Client
  BY <1>2, ClientFrames DEF writes
<1>3. CASE Finished
  BY <1>3 DEF Finished, vars, writes
<1> QED
  BY <1>1, <1>2, <1>3 DEF Next

\* A temporary file holds what it should.
LEMMA TmpStep ==
  ASSUME Types, Next, \A v \in Writer : Outcome(v) /\ TmpHolds(v), NEW w \in Writer
  PROVE  TmpHolds(w)'
<1>1. Tmp(w)' = Tmp(w) /\ Whole(w)' = Whole(w) /\ Types'
  BY TypesStep DEF Tmp, Whole
<1>2. ASSUME NEW v \in Writer, Write(v) \/ Crash(v)
      PROVE  TmpHolds(w)'
  <2>1. CASE v = w
    <3> USE <1>1, <2>1, Names DEF Types, TmpHolds, Goto, Ends, Sets, writes, PC
    <3>1. CASE Check(v)        BY <3>1 DEF Check
    <3>2. CASE CreateTmp(v)
      BY <3>2 DEF CreateTmp
    <3>3. CASE Copy(v)
      <4>1. CASE files[Tmp(v)] = Absent
        BY <3>3, <4>1 DEF Copy
      <4>2. CASE files[Tmp(v)] # Absent
        <5>1. files[Tmp(v)] \in File /\ files[Tmp(v)].by = v
          BY <3>3, <4>2 DEF Copy
        <5>2. [files[Tmp(v)] EXCEPT !.size = Written(v)] = [by |-> v, size |-> Written(v)]
          BY <5>1 DEF File
        <5>3. files'[Tmp(v)] = [by |-> v, size |-> Written(v)]
          BY <3>3, <4>2, <5>2 DEF Copy
        <5>4. Complete(v) \/ pc'[v] = "cleanup"
          BY <3>3 DEF Copy
        <5>5. pc'[v] \in {"rename", "cleanup"}
          BY <3>3 DEF Copy, AfterCopy
        <5> QED
          BY <5>3, <5>4, <5>5, CompleteIsWhole
      <4> QED
        BY <4>1, <4>2
    <3>4. CASE Rename(v)       BY <3>4 DEF Rename
    <3>5. CASE RenameFails(v)  BY <3>5 DEF RenameFails
    <3>6. CASE RemoveTarget(v) BY <3>6 DEF RemoveTarget, AfterFailure
    <3>7. CASE Cleanup(v)      BY <3>7 DEF Cleanup
    <3>8. CASE Crash(v)        BY <3>8 DEF Crash
    <3> QED
      BY <1>2, <3>1, <3>2, <3>3, <3>4, <3>5, <3>6, <3>7, <3>8 DEF Write
  <2>2. CASE v # w
    <3>1. Tmp(w) \in Name \ {Tmp(v), Own(v)}
      BY <2>2, Names DEF Types, Own
    <3> QED
      BY <1>1, <1>2, <2>2, <3>1, WriteIsLocal DEF TmpHolds
  <2> QED
    BY <2>1, <2>2
<1>3. CASE Client
  <2>1. files'[Tmp(w)] \in {files[Tmp(w)], Absent}
    BY <1>3, ClientFrames, Names DEF Types
  <2> QED
    BY <1>1, <1>3, <2>1, ClientFrames DEF TmpHolds, writes
<1>4. CASE Finished
  BY <1>1, <1>4 DEF Finished, vars, writes, TmpHolds
<1> QED
  BY <1>2, <1>3, <1>4 DEF Next

\* What may become of the file of a key.
LEMMA TargetStep ==
  ASSUME LocalInv, Next, NEW k \in Key
  PROVE  \/ files'[Target(k)] = files[Target(k)]
         \/ files'[Target(k)] = Absent
         \/ \E w \in Writer : /\ Rename(w) /\ job[w].key = k
                              /\ files'[Target(k)] \in Whole(w)
<1> USE DEF LocalInv, Types
<1>1. Target(k) \in Name
  BY DEF Target, Name
<1>2. ASSUME NEW w \in Writer, Write(w) \/ Crash(w)
      PROVE  \/ files'[Target(k)] \in {files[Target(k)], Absent}
             \/ Rename(w) /\ job[w].key = k /\ files'[Target(k)] \in Whole(w)
  <2>1. CASE Target(k) # Own(w)
    BY <1>1, <1>2, <2>1, Names, WriteIsLocal
  <2>2. CASE Target(k) = Own(w)
    <3> USE <1>1, <2>2, Names DEF Sets
    <3>1. CASE Check(w)        BY <3>1 DEF Check
    <3>2. CASE CreateTmp(w)    BY <3>2 DEF CreateTmp
    <3>3. CASE Copy(w)         BY <3>3 DEF Copy
    <3>4. CASE Rename(w)
      <4>1. files'[Target(k)] = files[Tmp(w)]
        BY <3>4 DEF Rename
      <4> QED
        BY <3>4, <4>1 DEF Rename, TmpHolds
    <3>5. CASE RenameFails(w)  BY <3>5 DEF RenameFails
    <3>6. CASE RemoveTarget(w) BY <3>6 DEF RemoveTarget
    <3>7. CASE Cleanup(w)      BY <3>7 DEF Cleanup
    <3>8. CASE Crash(w)        BY <3>8 DEF Crash
    <3> QED
      BY <1>2, <3>1, <3>2, <3>3, <3>4, <3>5, <3>6, <3>7, <3>8 DEF Write
  <2> QED
    BY <2>1, <2>2
<1>3. CASE Client
  BY <1>1, <1>3, ClientFrames
<1>4. CASE Finished
  BY <1>4 DEF Finished, vars
<1> QED
  BY <1>2, <1>3, <1>4 DEF Next

\* What is under a key stays something that somebody has stored.
LEMMA KeptStep ==
  ASSUME LocalInv, Next
  PROVE  Kept'
<1> SUFFICES ASSUME NEW k \in Key
             PROVE  files'[Target(k)] \in Stored(Target(k)) \cup {Absent}
  <2>1. Types' /\ job' = job
    BY TypesStep DEF LocalInv
  <2>2. \A n : Stored(n)' = Stored(n)
    BY <2>1 DEF Stored, Whole, Own, Target
  <2>3. ASSUME NEW k \in Key PROVE (files[Target(k)])' = files'[Target(k)]
    BY DEF Target
  <2> QED
    BY <2>2, <2>3 DEF Kept
<1>1. \A w \in Writer : job[w].key = k => Whole(w) \subseteq Stored(Target(k))
  BY DEF Stored, Own
<1> QED
  BY <1>1, TargetStep DEF LocalInv, Kept

\* A write without Overwrite does not miss another write since its check.
LEMMA CheckedStep ==
  ASSUME LocalInv, Next, NEW w \in Writer
  PROVE  Checked(w)'
<1> USE DEF LocalInv, Types
<1>1. Own(w)' = Own(w) /\ job' = job /\ Types'
  BY TypesStep DEF Own, Target
<1>2. Own(w) \in Name
  BY Names
<1>3. CASE Finished
  BY <1>1, <1>3 DEF Finished, vars, writes, watch, Checked
<1>4. ASSUME Watch, Running(w), Running(w)'
      PROVE  Checked(w)'
  <2>1. \/ files'[Own(w)] \in {Absent, files[Own(w)]}
        \/ w \in late'
    BY <1>4 DEF Watch
  <2>2. late \subseteq late'
    BY <1>4 DEF Watch
  <2> QED
    BY <1>1, <1>4, <2>1, <2>2 DEF Checked, Running
<1>5. ASSUME ~Running(w), Running(w)', ~Finished
      PROVE  Checked(w)'
  <2>1. Check(w) /\ ~Taken(w)
    <3>1. CASE Client
      BY <1>5, <3>1, ClientFrames DEF Running, writes
    <3>2. ASSUME NEW v \in Writer, Write(v) \/ Crash(v)
          PROVE  Check(w) /\ ~Taken(w)
      <4>1. v = w
        BY <1>5, <3>2, WriteIsLocal DEF Running
      <4>2. pc[w] \in {"check", "done"}
        BY <1>5 DEF Running
      <4>3. CASE Check(w)
        BY <1>5, <4>3 DEF Check, Running, Ends, Goto
      <4>4. CASE Crash(w)
        BY <1>5, <4>4 DEF Crash, Running, Ends, Goto
      <4> QED
        BY <3>2, <4>1, <4>2, <4>3, <4>4 DEF Write, Check, CreateTmp, Copy, Rename,
           RenameFails, RemoveTarget, Cleanup
    <3> QED
      BY <1>5, <3>1, <3>2 DEF Next
  <2>2. files' = files
    BY <2>1 DEF Check
  <2> QED
    BY <1>1, <2>1, <2>2 DEF Checked, Taken
<1>6. CASE ~Running(w)'
  BY <1>1, <1>6 DEF Checked, Running
<1> QED
  BY <1>3, <1>4, <1>5, <1>6 DEF Next

\* A download's steps, and the changes beside it.
LEMMA DownloadStep ==
  ASSUME LocalInv, Next
  PROVE  Announced' /\ GetIsWhole'
<1> USE DEF LocalInv
<1>1. Types' /\ job' = job /\ request' = request
  BY TypesStep
<1>2. \A n : Stored(n)' = Stored(n)
  BY <1>1 DEF Stored, Whole, Own, Target
<1>3. ASSUME NEW w \in Writer, Write(w) \/ Crash(w), Watch
      PROVE  Announced' /\ GetIsWhole'
  <2>1. UNCHANGED <<step, header, body>>
    BY <1>3, WriteFrames DEF client
  <2>2. \/ raced'
        \/ step = "stream" => files'[request.name] = files[request.name] /\ ~raced
    BY <1>3 DEF Watch
  <2>3. raced => raced'
    BY <1>3 DEF Watch
  <2> QED
    BY <1>1, <1>2, <2>1, <2>2, <2>3 DEF Announced, GetIsWhole
<1>4. CASE Client /\ Watch
  <2>1. raced => raced'
    BY <1>4 DEF Watch
  <2>2. CASE GetStat
    BY <1>1, <2>1, <2>2 DEF GetStat, Asks, Announced, GetIsWhole, Present
  <2>3. CASE GetStream
    <3>1. step = "stream" /\ request.kind = "get" /\ body' = files[request.name]
          /\ UNCHANGED header
      BY <2>3 DEF GetStream
    <3>2. step' \in {"got", "broken"}
      BY <2>3 DEF GetStream, Sends
    <3>3. Announced'
      BY <1>1, <3>1, <3>2 DEF Announced
    <3>4. ASSUME request.name[2] = 0
          PROVE  files[request.name] \in Stored(request.name) \cup {Absent}
      <4>1. request.name \in Name
        BY <3>1, RequestNames DEF Types
      <4>2. PICK k \in Key : request.name = Target(k)
        BY <3>4, <4>1 DEF Name, Target
      <4> QED
        BY <4>2 DEF Kept
    <3>5. ASSUME raced PROVE GetIsWhole'
      BY <2>1, <3>5 DEF GetIsWhole
    <3>6. ASSUME ~raced PROVE GetIsWhole'
      <4>1. files[request.name] # Absent /\ header = files[request.name].size
        BY <3>1, <3>6 DEF Announced
      <4> QED
        BY <1>1, <1>2, <3>1, <3>4, <4>1 DEF GetIsWhole
    <3> QED
      BY <3>3, <3>5, <3>6
  <2>4. CASE Delete \/ ListBegin \/ ListVisit \/ ListPage
    <3>1. step' \notin {"stream", "got"}
      BY <2>4 DEF Delete, ListBegin, ListVisit, ListPage, Asks
    <3> QED
      BY <3>1 DEF Announced, GetIsWhole
  <2> QED
    BY <1>4, <2>2, <2>3, <2>4 DEF Client
<1>5. CASE Finished
  BY <1>2, <1>5 DEF Finished, vars, client, watch, Announced, GetIsWhole
<1> QED
  BY <1>3, <1>4, <1>5 DEF Next

LEMMA InvStep == LocalInv /\ [Next]_vars => LocalInv'
<1>1. CASE Next
  BY <1>1, TypesStep, OutcomeStep, TmpStep, CheckedStep, KeptStep, DownloadStep DEF LocalInv
<1>2. CASE UNCHANGED vars
  <2>1. UNCHANGED <<files, job, pc, result, renameErr, late, leftover, request, step,
                    header, body, raced>>
    BY <1>2 DEF vars, writes, client, watch
  <2>2. /\ Types' = Types /\ Announced' = Announced
        /\ \A w \in Writer : /\ Outcome(w)' = Outcome(w) /\ Checked(w)' = Checked(w)
                              /\ TmpHolds(w)' = TmpHolds(w)
    BY <2>1 DEF Types, Outcome, TmpHolds, Checked, Announced, Own, Tmp, Target, Whole
  <2>3. \A n : Stored(n)' = Stored(n)
    BY <2>1 DEF Stored, Whole, Own, Target
  <2>4. Kept' = Kept /\ GetIsWhole' = GetIsWhole
    BY <2>1, <2>3 DEF Kept, GetIsWhole, Target
  <2> QED
    BY <2>2, <2>4 DEF LocalInv
<1> QED
  BY <1>1, <1>2

-----------------------------------------------------------------------------
(* The theorems.                                                           *)

\* The driver's inductive invariant: an object is one whole write, a temporary file
\* that may be renamed holds one, and nobody is overtaken unnoticed.
THEOREM LocalInvariant == Spec => []LocalInv
  BY InvInit, InvStep, PTL DEF Spec

\* A temporary file outlives its write only after a death or a failing removal.
THEOREM NoTempsAreLeft == Spec => []TempsAreCleared
<1>1. LocalInv => TempsAreCleared
  BY Names DEF LocalInv, Types, TmpHolds, TempsAreCleared, Present
<1> QED
  BY <1>1, LocalInvariant, PTL

\* A download that looks whole is a stored object, unless that changed meanwhile.
THEOREM DownloadsAreWhole == Spec => []GetIsWhole
  BY LocalInvariant, PTL DEF LocalInv

\* A write without Overwrite replaces only what appeared after its check.
THEOREM ChecksHold == Spec => NoOverwriteIsChecked
<1> DEFINE Safe == \A w \in Writer :
      result[w] = "none" /\ result'[w] = "ok" /\ ~job[w].overwrite
         /\ files[Own(w)] # Absent => w \in late
<1>1. LocalInv /\ Next => Safe
  <2> SUFFICES ASSUME LocalInv, Next, NEW w \in Writer,
                      result[w] = "none", result'[w] = "ok",
                      ~job[w].overwrite, files[Own(w)] # Absent
               PROVE  w \in late
    OBVIOUS
  <2> USE DEF LocalInv, Types
  <2>1. PICK v \in Writer : Write(v) \/ Crash(v)
    BY ClientFrames DEF Next, Finished, vars, writes
  <2>2. v = w
    BY <2>1, WriteIsLocal
  <2>3. pc[w] = "rename"
    BY <2>1, <2>2 DEF Write, Check, CreateTmp, Copy, Rename, RenameFails, RemoveTarget,
                      Cleanup, Crash, Ends
  <2> QED
    BY <2>3 DEF Checked
<1>2. LocalInv /\ [Next]_vars => [Safe]_vars
  BY <1>1
<1> QED
  BY <1>2, LocalInvariant, PTL DEF Spec, NoOverwriteIsChecked

-----------------------------------------------------------------------------
(* The refinement.                                                         *)

\* What ObjectStore's variables are mapped to.
Objects  == [k \in Key |-> files[Target(k)]]
Intents  == [w \in Writer |-> [key |-> job[w].key, whole |-> Whole(w)]]
Statuses == [w \in Writer |-> Status(w)]
Deletes  == IF request.kind = "delete" /\ step = "begin"
              THEN {k \in Key : Target(k) = request.name} ELSE {}

LEMMA InitRefines == Init => OS!Init
<1> SUFFICES ASSUME Init PROVE OS!Init
  OBVIOUS
<1>1. Types
  BY InvInit DEF LocalInv
<1>2. Objects \in [Key -> File \cup {Absent}]
  BY <1>1 DEF Types, Objects, Target, Name
<1>3. Intents \in [Writer -> [key : Key, whole : SUBSET File]]
  <2> SUFFICES ASSUME NEW w \in Writer
               PROVE  job[w].key \in Key /\ Whole(w) \subseteq File
    BY DEF Intents
  <2> QED
    BY <1>1, Names, WholeType DEF Types
<1>4. Statuses = [w \in Writer |-> "pending"]
  <2> SUFFICES ASSUME NEW w \in Writer PROVE Status(w) = "pending"
    BY DEF Statuses
  <2> QED
    BY DEF Init, Status
<1>5. Deletes \subseteq Key
  BY DEF Deletes
<1> QED
  BY <1>2, <1>3, <1>4, <1>5 DEF OS!Init, Objects, Intents, Statuses, Deletes

\* One step of a write is a step of its abstract writer, or none.
LEMMA WriteRefines ==
  ASSUME LocalInv, NEW w \in Writer, Write(w) \/ Crash(w)
  PROVE  \/ Objects' = Objects /\ Status(w)' = Status(w)
         \/ Objects' = Objects /\ Status(w) = "pending" /\ Status(w)' = "exposed"
         \/ /\ Objects' = Objects
            /\ Status(w) \in {"pending", "exposed"} /\ Status(w)' = "failed"
         \/ /\ Objects' = [Objects EXCEPT ![job[w].key] = Absent]
            /\ Status(w) = "exposed" /\ Status(w)' = "exposed"
         \/ /\ \E f \in Whole(w) : Objects' = [Objects EXCEPT ![job[w].key] = f]
            /\ Status(w) \in {"pending", "exposed"} /\ Status(w)' = "done"
<1> USE Names DEF LocalInv, Types, Outcome, Status, Goto, Ends, Sets, writes
<1>1. job' = job
  BY WriteFrames
<1>2. ASSUME \/ UNCHANGED files
             \/ \E f : files' = [files EXCEPT ![Tmp(w)] = f]
      PROVE  Objects' = Objects
  BY <1>2 DEF Objects, Target
<1>3. ASSUME NEW f, files' = [files EXCEPT ![Own(w)] = f]
      PROVE  Objects' = [Objects EXCEPT ![job[w].key] = f]
  BY <1>3 DEF Objects, Target, Own
<1>4. CASE Check(w)
  BY <1>2, <1>4 DEF Check
<1>5. CASE CreateTmp(w)
  BY <1>2, <1>5 DEF CreateTmp
<1>6. CASE Copy(w)
  <2>1. Objects' = Objects
    BY <1>2, <1>6 DEF Copy
  <2> QED
    BY <1>6, <2>1 DEF Copy
<1>7. CASE Rename(w)
  <2>1. files[Tmp(w)] \in Whole(w)
    BY <1>7 DEF Rename, TmpHolds
  <2>2. Objects' = [Objects EXCEPT ![job[w].key] = files[Tmp(w)]]
    BY <1>7 DEF Rename, Objects, Target, Own
  <2>3. Status(w) \in {"pending", "exposed"} /\ Status(w)' = "done"
    BY <1>7 DEF Rename
  <2> QED
    BY <2>1, <2>2, <2>3
<1>8. CASE RenameFails(w)
  BY <1>2, <1>8 DEF RenameFails
<1>9. CASE RemoveTarget(w)
  <2>1. Status(w) = "exposed" /\ Status(w)' = "exposed"
    BY <1>9 DEF RemoveTarget
  <2> QED
    BY <1>2, <1>3, <1>9, <2>1 DEF RemoveTarget
<1>10. CASE Cleanup(w)
  BY <1>2, <1>10 DEF Cleanup
<1>11. CASE Crash(w)
  BY <1>2, <1>11 DEF Crash
<1> QED
  BY <1>4, <1>5, <1>6, <1>7, <1>8, <1>9, <1>10, <1>11 DEF Write

\* Every step is one of the abstract store, or none.
LEMMA StepRefines == LocalInv /\ [Next]_vars => [OS!Next]_(OS!vars)
<1> SUFFICES ASSUME LocalInv, [Next]_vars PROVE [OS!Next]_(OS!vars)
  OBVIOUS
<1> USE DEF LocalInv
<1>1. ASSUME job' = job PROVE Intents' = Intents
  BY <1>1 DEF Intents, Whole
<1>2. ASSUME UNCHANGED <<Objects, Intents, Statuses, Deletes>>
      PROVE  UNCHANGED OS!vars
  BY <1>2 DEF OS!vars, Objects, Intents, Statuses, Deletes
<1>3. ASSUME NEW w \in Writer, Write(w) \/ Crash(w)
      PROVE  [OS!Next]_(OS!vars)
  <2>1. UNCHANGED <<job, request, client>>
    BY <1>3, WriteFrames
  <2>2. Intents' = Intents /\ Deletes' = Deletes
    BY <1>1, <2>1 DEF Deletes, client
  <2>3. Statuses' = [Statuses EXCEPT ![w] = Status(w)']
    <3>1. ASSUME NEW v \in Writer \ {w} PROVE Status(v)' = Status(v)
      BY <1>3, <3>1, WriteIsLocal DEF Status
    <3> QED
      BY <3>1 DEF Statuses
  <2>4. Statuses[w] = Status(w) /\ Intents[w].key = job[w].key /\ Intents[w].whole = Whole(w)
    BY DEF Statuses, Intents
  <2>5. CASE Objects' = Objects /\ Status(w)' = Status(w)
    <3>1. Statuses' = Statuses
      BY <2>3, <2>5 DEF Statuses
    <3> QED
      BY <1>2, <2>2, <2>5, <3>1
  <2>6. CASE Objects' = Objects /\ Status(w) = "pending" /\ Status(w)' = "exposed"
    <3>1. OS!Expose(w)
      BY <2>2, <2>3, <2>4, <2>6
         DEF OS!Expose, OS!Moves, Objects, Intents, Statuses, Deletes
    <3> QED
      BY <3>1 DEF OS!Next
  <2>7. CASE /\ Objects' = Objects
             /\ Status(w) \in {"pending", "exposed"} /\ Status(w)' = "failed"
    <3>1. OS!Fail(w)
      BY <2>2, <2>3, <2>4, <2>7
         DEF OS!Fail, OS!Moves, Objects, Intents, Statuses, Deletes
    <3> QED
      BY <3>1 DEF OS!Next
  <2>8. CASE /\ Objects' = [Objects EXCEPT ![job[w].key] = Absent]
             /\ Status(w) = "exposed" /\ Status(w)' = "exposed"
    <3>1. Statuses' = Statuses
      BY <2>3, <2>8 DEF Statuses
    <3>2. OS!Remove(w)
      BY <2>2, <2>4, <2>8, <3>1
         DEF OS!Remove, OS!Becomes, Objects, Intents, Statuses, Deletes
    <3> QED
      BY <3>2 DEF OS!Next
  <2>9. CASE /\ \E f \in Whole(w) : Objects' = [Objects EXCEPT ![job[w].key] = f]
             /\ Status(w) \in {"pending", "exposed"} /\ Status(w)' = "done"
    <3>1. OS!Puts(w)
      BY <2>2, <2>4, <2>9 DEF OS!Puts, OS!Becomes, Objects, Intents
    <3>2. OS!Moves(w, {"pending", "exposed", "unanswered"}, "done")
      BY <2>2, <2>3, <2>4, <2>9 DEF OS!Moves, Statuses, Deletes
    <3> QED
      BY <3>1, <3>2 DEF OS!Next, OS!Put
  <2> QED
    BY <1>3, <2>5, <2>6, <2>7, <2>8, <2>9, WriteRefines
<1>4. CASE Client
  <2>1. UNCHANGED <<job, writes, request>>
    BY <1>4, ClientFrames
  <2>2. Intents' = Intents /\ Statuses' = Statuses
    BY <1>1, <2>1 DEF Statuses, Status, writes
  <2>3. CASE Delete
    <3>1. request.kind = "delete" /\ request.name \in Name /\ Deletes' = {}
      BY <2>3, RequestNames DEF Types, Delete, Asks, Deletes
    <3>2. CASE request.name[2] = 0
      <4>1. PICK k \in Key : request.name = Target(k)
        BY <3>1, <3>2 DEF Name, Target
      <4>2. Deletes = {k}
        BY <2>3, <4>1 DEF Delete, Asks, Deletes, Target
      <4>3. Objects' = [Objects EXCEPT ![k] = Absent]
        <5>1. files' = [files EXCEPT ![Target(k)] = Absent]
          BY <2>3, <4>1 DEF Delete, Sets
        <5>2. \A j \in Key : Target(j) \in Name /\ (Target(j) = Target(k) => j = k)
          BY DEF Target, Name
        <5> QED
          BY <5>1, <5>2 DEF Objects, Types, Target
      <4>4. OS!Delete(k)
        BY <2>2, <3>1, <4>2, <4>3
           DEF OS!Delete, OS!Becomes, Objects, Intents, Statuses, Deletes
      <4> QED
        BY <4>4 DEF OS!Next
    <3>3. CASE request.name[2] # 0
      <4>1. Deletes = {}
        BY <3>3 DEF Deletes, Target
      <4>2. Objects' = Objects
        BY <2>3, <3>1, <3>3 DEF Delete, Sets, Objects, Target, Name, Types
      <4> QED
        BY <1>2, <2>2, <3>1, <4>1, <4>2
    <3> QED
      BY <3>2, <3>3
  <2>4. CASE GetStat \/ GetStream \/ ListBegin \/ ListVisit \/ ListPage
    <3>1. files' = files /\ request.kind # "delete"
      BY <2>4 DEF GetStat, GetStream, ListBegin, ListVisit, ListPage, Asks
    <3>2. Objects' = Objects /\ Deletes' = Deletes
      BY <2>1, <3>1 DEF Objects, Deletes
    <3> QED
      BY <1>2, <2>2, <3>2
  <2> QED
    BY <1>4, <2>3, <2>4 DEF Client
<1>5. CASE UNCHANGED vars
  <2>1. UNCHANGED <<files, job, result, renameErr, request, step>>
    BY <1>5 DEF vars, writes, client
  <2> QED
    BY <1>1, <1>2, <2>1 DEF Objects, Statuses, Status, Deletes
<1> QED
  BY <1>3, <1>4, <1>5 DEF Next, Finished

\* The local driver implements the abstract store: whatever fails, whoever dies and
\* however writes overlap, an object is replaced whole or not at all, and only a
\* write whose rename has failed takes it away.
THEOREM ImplementsObjectStore == Spec => ObjectStoreSpec
  BY InitRefines, StepRefines, LocalInvariant, PTL DEF Spec, ObjectStoreSpec, OS!Spec

-----------------------------------------------------------------------------
(* The order of names, and what sorting by it makes.                       *)

\* Names are ordered strictly, and all follow the empty token.
LEMMA Order ==
  ASSUME NEW S \in SUBSET (Nat \X Nat)
  PROVE  \A a, b, c \in S :
            /\ ~Before(a, a)
            /\ Before(a, b) => ~Before(b, a)
            /\ Before(a, b) /\ Before(b, c) => Before(a, c)
            /\ Before(a, b) \/ Before(b, a) \/ a = b
<1> TAKE a, b, c \in S
<1>1. \A p \in Nat \X Nat : p = <<p[1], p[2]>> /\ p[1] \in Nat /\ p[2] \in Nat
  OBVIOUS
<1>2. /\ a[1] \in Nat /\ a[2] \in Nat
       /\ b[1] \in Nat /\ b[2] \in Nat
       /\ c[1] \in Nat /\ c[2] \in Nat
  OBVIOUS
<1>3. a[1] = b[1] /\ a[2] = b[2] => a = b
  BY <1>1
<1> QED
  BY <1>2, <1>3 DEF Before

\* A finite set of names that is not empty has a last one.
LEMMA LastName ==
  ASSUME NEW S \in SUBSET Name, S # {}
  PROVE  \E n \in S : \A m \in S \ {n} : Before(m, n)
<1>1. \A n \in S : n \in (1..Keys) \X (0..Writers)
  BY DEF Name, Key
<1>2. \A n \in S : n[1] \in 1..Keys /\ n[2] \in 0..Writers /\ n = <<n[1], n[2]>>
  BY <1>1
<1> DEFINE K == {Keys - n[1] : n \in S}
<1>3. K \subseteq Nat /\ K # {}
  BY <1>2
<1> HIDE DEF K
<1>4. PICK k \in K : \A j \in K : k <= j
  BY <1>3, LeastElement
<1>5. PICK a \in S : k = Keys - a[1]
  BY <1>4 DEF K
<1>6. \A m \in S : m[1] <= a[1]
  <2> TAKE m \in S
  <2>1. Keys - m[1] \in K
    BY DEF K
  <2>2. Keys - a[1] <= Keys - m[1]
    BY <1>4, <1>5, <2>1
  <2> QED
    BY <1>2, <2>2
<1> DEFINE W == {Writers - n[2] : n \in {m \in S : m[1] = a[1]}}
<1>7. W \subseteq Nat /\ W # {}
  BY <1>2
<1> HIDE DEF W
<1>8. PICK k2 \in W : \A j \in W : k2 <= j
  BY <1>7, LeastElement
<1>9. PICK n \in S : n[1] = a[1] /\ k2 = Writers - n[2]
  BY <1>8 DEF W
<1>10. \A m \in S \ {n} : Before(m, n)
  <2> TAKE m \in S \ {n}
  <2>1. CASE m[1] # a[1]
    BY <1>2, <1>6, <1>9, <2>1 DEF Before
  <2>2. CASE m[1] = a[1]
    <3>1. Writers - m[2] \in W
      BY <2>2 DEF W
    <3>2. m[2] <= n[2]
      BY <1>2, <1>8, <1>9, <3>1
    <3>3. m[2] # n[2]
      BY <1>2, <1>9, <2>2
    <3> QED
      BY <1>2, <1>9, <2>2, <3>2, <3>3 DEF Before
  <2> QED
    BY <2>1, <2>2
<1> QED
  BY <1>10

\* A set of names is finite: keys and writers are.
LEMMA NamesAreFinite == ASSUME NEW S \in SUBSET Name
                        PROVE  IsFiniteSet(S) /\ Cardinality(S) \in Nat
<1>1. IsFiniteSet(Key) /\ IsFiniteSet(0..Writers)
  BY FS_Interval DEF Key
<1>2. IsFiniteSet(Name)
  BY <1>1, FS_Product DEF Name
<1> QED
  BY <1>2, FS_Subset, FS_CardinalityType

\* Whatever the number of names, each place has its name.
LEMMA PlacesAreTaken ==
  ASSUME NEW S \in SUBSET Name, NEW i \in 1..Cardinality(S)
  PROVE  \E n \in S : Cardinality({m \in S : Before(m, n)}) = i - 1
<1> DEFINE Good(T) == \A j \in 1..Cardinality(T) :
                        \E n \in T : Cardinality({m \in T : Before(m, n)}) = j - 1
           Nums == {c \in Nat : \A T \in SUBSET Name : Cardinality(T) = c => Good(T)}
<1>1. 0 \in Nums
  OBVIOUS
<1>2. ASSUME NEW c \in Nat, c \in Nums
      PROVE  c + 1 \in Nums
  <2> SUFFICES ASSUME NEW T \in SUBSET Name, Cardinality(T) = c + 1
               PROVE  Good(T)
    <3> HIDE DEF Good
    <3> QED
      OBVIOUS
  <2>1. T # {} /\ IsFiniteSet(T)
    BY NamesAreFinite, FS_EmptySet
  <2>2. PICK g \in T : \A m \in T \ {g} : Before(m, g)
    BY <2>1, LastName
  <2>3. Cardinality(T \ {g}) = c /\ T \ {g} \in SUBSET Name
    <3>1. Cardinality(T \ {g}) = IF g \in T THEN Cardinality(T) - 1 ELSE Cardinality(T)
      BY <2>1, FS_RemoveElement, Zenon
    <3> QED
      BY <3>1
  <2>4. Good(T \ {g})
    BY <1>2, <2>3
  <2>5. T \subseteq Nat \X Nat
    BY DEF Name, Key
  <2>6. \A n \in T : ~Before(g, n)
    BY <2>2, <2>5, Order
  <2> SUFFICES ASSUME NEW j \in 1..(c + 1)
               PROVE  \E n \in T : Cardinality({m \in T : Before(m, n)}) = j - 1
    OBVIOUS
  <2>7. CASE j = c + 1
    <3>1. \A m \in T : Before(m, g) <=> m \in T \ {g}
      BY <2>2, <2>6
    <3>2. {m \in T : Before(m, g)} = T \ {g}
      BY <3>1
    <3>3. Cardinality({m \in T : Before(m, g)}) = j - 1
      BY <2>3, <2>7, <3>2
    <3> QED
      BY <3>3
  <2>8. CASE j # c + 1
    <3>1. j \in 1..Cardinality(T \ {g})
      BY <2>3, <2>8
    <3>2. PICK n \in T \ {g} : Cardinality({m \in T \ {g} : Before(m, n)}) = j - 1
      BY <2>4, <3>1
    <3>3. {m \in T : Before(m, n)} = {m \in T \ {g} : Before(m, n)}
      BY <2>6, <3>2
    <3> QED
      BY <3>2, <3>3
  <2> QED
    BY <2>7, <2>8
<1>3. Nat \subseteq Nums
  <2> HIDE DEF Nums
  <2> QED
    BY <1>1, <1>2, SetInduction
<1>4. Cardinality(S) \in Nums
  BY <1>3, NamesAreFinite
<1> QED
  BY <1>4

\* A name before another has fewer before it.
LEMMA PlacesGrow ==
  ASSUME NEW S \in SUBSET Name, NEW a \in S, NEW b \in S, Before(a, b)
  PROVE  Cardinality({m \in S : Before(m, a)}) < Cardinality({m \in S : Before(m, b)})
<1> DEFINE A == {m \in S : Before(m, a)}
           B == {m \in S : Before(m, b)}
<1>1. S \in SUBSET (Nat \X Nat)
  BY DEF Name, Key
<1>2. A \subseteq B /\ a \in B /\ a \notin A
  BY <1>1, Order
<1>3. A \in SUBSET Name /\ B \in SUBSET Name
  OBVIOUS
<1> HIDE DEF A, B
<1>4. IsFiniteSet(B) /\ Cardinality(A) \in Nat /\ Cardinality(B) \in Nat
  BY <1>3, NamesAreFinite
<1>5. Cardinality(A) <= Cardinality(B) /\ Cardinality(A) # Cardinality(B)
  BY <1>2, <1>4, FS_Subset
<1> QED
  BY <1>4, <1>5 DEF A, B

\* Sorted has each of the names once, in order.
LEMMA SortedIsRight ==
  ASSUME NEW S \in SUBSET Name
  PROVE  /\ Sorted(S) \in Seq(S) /\ Len(Sorted(S)) = Cardinality(S)
         /\ \A i, j \in 1..Len(Sorted(S)) : i < j => Before(Sorted(S)[i], Sorted(S)[j])
         /\ \A n \in S : \E i \in 1..Len(Sorted(S)) : Sorted(S)[i] = n
<1> DEFINE C == Cardinality(S)
           P(n) == Cardinality({m \in S : Before(m, n)})
<1>1. C \in Nat /\ IsFiniteSet(S)
  BY NamesAreFinite
<1>2. ASSUME NEW i \in 1..C
      PROVE  Sorted(S)[i] \in S /\ P(Sorted(S)[i]) = i - 1
  <2>1. Sorted(S)[i] = CHOOSE n \in S : Cardinality({m \in S : Before(m, n)}) = i - 1
    BY <1>2 DEF Sorted
  <2>2. \E n \in S : Cardinality({m \in S : Before(m, n)}) = i - 1
    BY PlacesAreTaken
  <2> QED
    BY <2>1, <2>2
<1>3. Sorted(S) \in Seq(S) /\ Len(Sorted(S)) = C
  <2> DEFINE Nth(i) == CHOOSE n \in S : Cardinality({m \in S : Before(m, n)}) = i - 1
  <2>1. Sorted(S) = [i \in 1..C |-> Nth(i)]
    BY DEF Sorted
  <2> HIDE DEF Nth, C
  <2>2. ASSUME NEW i \in 1..C
        PROVE  Nth(i) \in S
    BY <1>2, <2>1
  <2>3. Sorted(S) \in [1..C -> S]
    BY <2>1, <2>2
  <2> QED
    BY <1>1, <2>3
<1>4. S \in SUBSET (Nat \X Nat)
  BY DEF Name, Key
<1>5. ASSUME NEW i \in 1..C, NEW j \in 1..C, i < j
      PROVE  Before(Sorted(S)[i], Sorted(S)[j])
  <2> DEFINE a == Sorted(S)[i]
             b == Sorted(S)[j]
  <2>1. a \in S /\ b \in S /\ P(a) = i - 1 /\ P(b) = j - 1
    BY <1>2
  <2> HIDE DEF a, b
  <2>2. Before(a, b) \/ Before(b, a) \/ a = b
    BY <1>4, <2>1, Order
  <2>3. a # b
    BY <1>5, <2>1
  <2>4. ~Before(b, a)
    <3> SUFFICES ASSUME Before(b, a) PROVE FALSE
      OBVIOUS
    <3>1. P(b) < P(a)
      BY <2>1, PlacesGrow
    <3> QED
      BY <1>1, <1>5, <2>1, <3>1
  <2> QED
    BY <2>2, <2>3, <2>4 DEF a, b
<1>6. ASSUME NEW n \in S
      PROVE  \E i \in 1..C : Sorted(S)[i] = n
  <2> DEFINE B == {m \in S : Before(m, n)}
  <2>1. B \subseteq S /\ n \notin B
    BY <1>4, Order
  <2>2. B \in SUBSET Name
    OBVIOUS
  <2>3. P(n) = Cardinality(B)
    OBVIOUS
  <2> HIDE DEF B
  <2>4. Cardinality(B) \in Nat /\ Cardinality(B) <= C /\ Cardinality(B) # C
    BY <1>1, <2>1, <2>2, NamesAreFinite, FS_Subset
  <2>5. P(n) + 1 \in 1..C
    BY <1>1, <2>3, <2>4
  <2> DEFINE a == Sorted(S)[P(n) + 1]
  <2>6. a \in S /\ P(a) = P(n)
    <3> HIDE DEF P
    <3>1. P(n) \in Nat
      BY <2>3, <2>4
    <3> QED
      BY <1>2, <2>5, <3>1
  <2> HIDE DEF a
  <2>7. ~Before(a, n) /\ ~Before(n, a)
    BY <2>3, <2>4, <2>6, PlacesGrow
  <2>8. a = n
    BY <1>4, <2>6, <2>7, Order
  <2> QED
    BY <2>5, <2>8 DEF a
<1> QED
  BY <1>3, <1>5, <1>6
-----------------------------------------------------------------------------
(* Listings in pages: what a walk has still to come to.                    *)

\* No write tries its rename more often than it may.
Trying(w) == pc[w] \notin {"cleanup", "done"} => attempt[w] < MaxAttempts

\* The pages so far have the names up to the token, in order, each of them once.
Ordered ==
    /\ listed = << >> => token = <<0, 0>>
    /\ \A i, j \in 1..Len(listed) : i < j => Before(listed[i], listed[j])
    /\ step # "done" => \A i \in 1..Len(listed) : ~Before(token, listed[i])

\* What is there all the time is in them, or is to come; nothing else is in them.
Faithful ==
    /\ ToSet(listed) \subseteq brief
    /\ step # "done" => \A n \in steady : Before(token, n) \/ n \in ToSet(listed)
    /\ step = "visit" => steady \subseteq unvisited \cup found /\ found \subseteq brief
    /\ step = "done" => steady \subseteq ToSet(listed)

Walking ==
    request.kind = "list" => /\ step \in {"begin", "visit", "done"}
                             /\ Ordered /\ Faithful

WalkInv == TypeOK /\ (\A w \in Writer : Trying(w)) /\ Walking

\* WalkInv holds at the start.
LEMMA WalkInit == Init => WalkInv
<1> SUFFICES ASSUME Init PROVE WalkInv
  OBVIOUS
<1>1. [by |-> 0, size |-> 1] \in File
  BY DEF File
<1>2. /\ attempt \in [Writer -> 0..MaxAttempts] /\ MaxAttempts > 0
      /\ \A w \in Writer : attempt[w] < MaxAttempts
  BY DEF Init
<1>3. TypeOK
  <2>1. /\ files \in [Name -> File \cup {Absent}] /\ job \in [Writer -> Jobs]
        /\ pc \in [Writer -> PC] /\ result \in [Writer -> {"none", "ok", "error", "crashed"}]
    BY <1>1 DEF Init, PC
  <2>2. listed \in Seq(Name) /\ token \in Name \cup {<<0, 0>>}
    BY DEF Init
  <2>3. budget \in [faults : Nat, crashes : Nat]
    BY DEF Init
  <2> QED
    BY <1>2, <2>1, <2>2, <2>3 DEF Init, TypeOK
<1>4. Walking
  BY DEF Init, Walking, Ordered, Faithful, ToSet
<1> QED
  BY <1>2, <1>3, <1>4 DEF WalkInv, Trying

\* The attempts of a write.
LEMMA TryingStep ==
  ASSUME Types, attempt \in [Writer -> 0..MaxAttempts], \A v \in Writer : Trying(v), Next
  PROVE  attempt' \in [Writer -> 0..MaxAttempts] /\ \A v \in Writer : Trying(v)'
<1>1. ASSUME NEW w \in Writer, Write(w) \/ Crash(w)
      PROVE  attempt' \in [Writer -> 0..MaxAttempts] /\ \A v \in Writer : Trying(v)'
  <2> USE DEF Types, Trying, Goto, Ends, PC
  <2>1. CASE Check(w)        BY <2>1 DEF Check
  <2>2. CASE CreateTmp(w)    BY <2>2 DEF CreateTmp
  <2>3. CASE Copy(w)         BY <2>3 DEF Copy, AfterCopy
  <2>4. CASE Rename(w)       BY <2>4 DEF Rename
  <2>5. CASE RenameFails(w)  BY <2>5 DEF RenameFails
  <2>6. CASE RemoveTarget(w) BY <2>6 DEF RemoveTarget, Tries, AfterFailure
  <2>7. CASE Cleanup(w)      BY <2>7 DEF Cleanup
  <2>8. CASE Crash(w)        BY <2>8 DEF Crash
  <2> QED
    BY <1>1, <2>1, <2>2, <2>3, <2>4, <2>5, <2>6, <2>7, <2>8 DEF Write
<1>2. CASE Client
  <2>1. UNCHANGED <<pc, attempt>>
    BY <1>2, ClientFrames DEF writes
  <2> QED
    BY <2>1 DEF Trying
<1>3. CASE Finished
  BY <1>3 DEF Finished, vars, writes, Trying
<1> QED
  BY <1>1, <1>2, <1>3 DEF Next

\* The budget of failures stays a pair of numbers.
LEMMA BudgetStep ==
  ASSUME budget \in [faults : Nat, crashes : Nat], Next
  PROVE  budget' \in [faults : Nat, crashes : Nat]
<1>1. ASSUME NEW what \in {"faults", "crashes"}, Spend(what)
      PROVE  budget' \in [faults : Nat, crashes : Nat]
  BY <1>1 DEF Spend
<1>2. UNCHANGED budget \/ Spend("faults") \/ Spend("crashes")
  <2>1. ASSUME NEW w \in Writer, Write(w) \/ Crash(w)
        PROVE  UNCHANGED budget \/ Spend("faults") \/ Spend("crashes")
    BY <2>1
       DEF Write, Crash, Check, CreateTmp, Copy, Rename, RenameFails, RemoveTarget, Cleanup
  <2>2. ASSUME Client
        PROVE  UNCHANGED budget
    BY <2>2 DEF Client, Delete, GetStat, GetStream, ListBegin, ListVisit, ListPage
  <2> QED
    BY <2>1, <2>2 DEF Next, Finished, vars
<1> QED
  BY <1>1, <1>2

\* What Watch does.
LEMMA WatchStep ==
  ASSUME TypeOK, Types', Watch
  PROVE  /\ steady' \subseteq brief' /\ brief' \subseteq Name
         /\ late' \subseteq Writer /\ raced' \in BOOLEAN
         /\ Present' \subseteq brief'
         /\ step = "begin" /\ listed = << >> => steady' = Present' /\ brief' = Present'
         /\ ~(step = "begin" /\ listed = << >>) =>
              steady' = steady \cap Present' /\ brief \subseteq brief'
<1>1. Present' \subseteq Name
  BY DEF Present
<1> QED
  BY <1>1 DEF Watch, TypeOK

\* A step of a write, and one of another request, leave the listing alone.
LEMMA WalkRests ==
  ASSUME TypeOK, Types', Walking, Watch, UNCHANGED <<request, client>>
  PROVE  Walking'
<1> SUFFICES ASSUME request.kind = "list"
             PROVE  step \in {"begin", "visit", "done"} /\ Ordered' /\ Faithful'
  BY DEF Walking, client
<1>1. Ordered /\ Faithful /\ step \in {"begin", "visit", "done"}
  BY DEF Walking
<1>2. Ordered'
  BY <1>1 DEF Ordered, client
<1>3. Faithful'
  <2>1. CASE step = "begin" /\ listed = << >>
    <3>1. token = <<0, 0>> /\ ToSet(listed) = {}
      BY <1>1, <2>1 DEF Ordered, ToSet
    <3>2. \A n \in Name : Before(<<0, 0>>, n)
      BY DEF Before, Name, Key
    <3>3. steady' \subseteq Name
      BY WatchStep
    <3> QED
      BY <2>1, <3>1, <3>2, <3>3 DEF Faithful, client, ToSet
  <2>2. CASE ~(step = "begin" /\ listed = << >>)
    <3>1. steady' \subseteq steady /\ brief \subseteq brief'
      BY <2>2, WatchStep
    <3>2. ToSet(listed)' = ToSet(listed)
      BY DEF client, ToSet
    <3> QED
      BY <1>1, <3>1, <3>2 DEF Faithful, client
  <2> QED
    BY <2>1, <2>2
<1> QED
  BY <1>1, <1>2, <1>3

\* The first page's request starts a walk: nothing is steady that was not there.
LEMMA BeginStep ==
  ASSUME TypeOK, Types', Walking, Watch, ListBegin
  PROVE  Walking'
<1>1. /\ request.kind = "list" /\ step = "begin" /\ step' = "visit"
      /\ unvisited' = Present /\ found' = {} /\ Present' = Present
      /\ UNCHANGED <<request, token, listed>>
  BY DEF ListBegin, Asks, Present
<1>2. Ordered /\ Faithful
  BY <1>1 DEF Walking
<1>3. Ordered'
  BY <1>1, <1>2 DEF Ordered
<1>4. Faithful'
  <2>1. ToSet(listed)' = ToSet(listed)
    BY <1>1 DEF ToSet
  <2>2. \A n \in Name : Before(<<0, 0>>, n)
    BY DEF Before, Name, Key
  <2>3. CASE listed = << >>
    <3>1. token = <<0, 0>> /\ ToSet(listed) = {}
      BY <1>2, <2>3 DEF Ordered, ToSet
    <3>2. steady' = Present' /\ steady' \subseteq Name
      BY <1>1, <2>3, WatchStep
    <3> QED
      BY <1>1, <2>1, <2>2, <3>1, <3>2 DEF Faithful
  <2>4. CASE listed # << >>
    <3>1. steady' = steady \cap Present' /\ brief \subseteq brief'
      BY <2>4, WatchStep
    <3> QED
      BY <1>1, <1>2, <2>1, <3>1 DEF Faithful
  <2> QED
    BY <2>3, <2>4
<1> QED
  BY <1>1, <1>3, <1>4 DEF Walking

\* A visit of the walk finds a name, or finds it gone.
LEMMA VisitStep ==
  ASSUME TypeOK, Types', Walking, Watch, ListVisit
  PROVE  Walking'
<1>1. /\ request.kind = "list" /\ step = "visit" /\ step' = "visit"
      /\ Present' = Present /\ UNCHANGED <<request, token, listed>>
  BY DEF ListVisit, Asks, Present
<1>2. PICK n \in unvisited : /\ unvisited' = unvisited \ {n}
                             /\ found' = found \cup ({n} \cap Present)
  BY DEF ListVisit
<1>3. Ordered /\ Faithful
  BY <1>1 DEF Walking
<1>4. steady' = steady \cap Present /\ brief \subseteq brief' /\ Present \subseteq brief'
  BY <1>1, WatchStep
<1>5. ToSet(listed)' = ToSet(listed)
  BY <1>1 DEF ToSet
<1>6. Ordered'
  BY <1>1, <1>3 DEF Ordered
<1>7. Faithful'
  BY <1>1, <1>2, <1>3, <1>4, <1>5 DEF Faithful
<1> QED
  BY <1>1, <1>6, <1>7 DEF Walking

\* A page that is put behind what is listed.
LEMMA Appended ==
  ASSUME NEW s \in Seq(Name), NEW r \in Seq(Name),
         \A i, j \in 1..Len(s) : i < j => Before(s[i], s[j]),
         \A i, j \in 1..Len(r) : i < j => Before(r[i], r[j]),
         \A i \in 1..Len(s), j \in 1..Len(r) : Before(s[i], r[j])
  PROVE  /\ s \o r \in Seq(Name)
         /\ \A i, j \in 1..Len(s \o r) : i < j => Before((s \o r)[i], (s \o r)[j])
         /\ ToSet(s \o r) = ToSet(s) \cup ToSet(r)
<1>1. /\ s \o r \in Seq(Name) /\ Len(s \o r) = Len(s) + Len(r)
      /\ \A i \in 1..Len(s) + Len(r) :
            (s \o r)[i] = IF i <= Len(s) THEN s[i] ELSE r[i - Len(s)]
  OBVIOUS
<1>2. ASSUME NEW i \in 1..Len(s \o r), NEW j \in 1..Len(s \o r), i < j
      PROVE  Before((s \o r)[i], (s \o r)[j])
  <2>1. Len(s) \in Nat /\ Len(r) \in Nat /\ i \in Nat /\ j \in Nat /\ j <= Len(s) + Len(r)
    BY <1>1
  <2>2. CASE j <= Len(s)
    BY <1>1, <1>2, <2>1, <2>2
  <2>3. CASE i <= Len(s) /\ ~(j <= Len(s))
    <3>1. j - Len(s) \in 1..Len(r) /\ i \in 1..Len(s)
      BY <2>1, <2>3
    <3> QED
      BY <1>1, <2>3, <3>1
  <2>4. CASE ~(i <= Len(s))
    <3>1. j - Len(s) \in 1..Len(r) /\ i - Len(s) \in 1..Len(r) /\ i - Len(s) < j - Len(s)
      BY <1>2, <2>1, <2>4
    <3>2. ~(j <= Len(s))
      BY <1>2, <2>1, <2>4
    <3> QED
      BY <1>1, <2>4, <3>1, <3>2
  <2> QED
    BY <2>1, <2>2, <2>3, <2>4
<1>3. ToSet(s \o r) = ToSet(s) \cup ToSet(r)
  <2>1. ASSUME NEW n \in ToSet(s \o r)
        PROVE  n \in ToSet(s) \cup ToSet(r)
    <3>1. PICK i \in 1..Len(s) + Len(r) : n = (s \o r)[i]
      BY <1>1 DEF ToSet
    <3>2. i \in 1..Len(s) \/ i - Len(s) \in 1..Len(r)
      OBVIOUS
    <3> QED
      BY <1>1, <3>1, <3>2 DEF ToSet
  <2>2. ASSUME NEW n \in ToSet(s)
        PROVE  n \in ToSet(s \o r)
    <3>1. PICK i \in 1..Len(s) : n = s[i]
      BY DEF ToSet
    <3>2. i \in 1..Len(s) + Len(r) /\ (s \o r)[i] = n
      BY <1>1, <3>1
    <3> QED
      BY <1>1, <3>2 DEF ToSet
  <2>3. ASSUME NEW n \in ToSet(r)
        PROVE  n \in ToSet(s \o r)
    <3>1. PICK i \in 1..Len(r) : n = r[i]
      BY DEF ToSet
    <3>2. Len(s) + i \in 1..Len(s) + Len(r) /\ (s \o r)[Len(s) + i] = n
      BY <1>1, <3>1
    <3> QED
      BY <1>1, <3>2 DEF ToSet
  <2> QED
    BY <2>1, <2>2, <2>3
<1> QED
  BY <1>1, <1>2, <1>3

\* What is left after the token, and what a page takes of it.
LEMMA Pages ==
  ASSUME TypeOK
  PROVE  LET rest == {n \in found : Before(token, n)}
         IN  /\ Remaining \in Seq(Name)
             /\ \A i, j \in 1..Len(Remaining) : i < j => Before(Remaining[i], Remaining[j])
             /\ \A i \in 1..Len(Remaining) : Remaining[i] \in rest
             /\ \A n \in rest : \E i \in 1..Len(Remaining) : Remaining[i] = n
<1> DEFINE rest == {n \in found : Before(token, n)}
<1>1. rest \in SUBSET Name
  BY DEF TypeOK
<1>2. Remaining = Sorted(rest)
  BY DEF Remaining
<1> HIDE DEF rest
<1>3. Remaining \in Seq(rest)
  BY <1>1, <1>2, SortedIsRight
<1>4. Remaining \in Seq(Name) /\ \A i \in 1..Len(Remaining) : Remaining[i] \in rest
  BY <1>1, <1>3
<1> QED
  BY <1>1, <1>2, <1>4, SortedIsRight DEF rest

\* The size of a page.
LEMMA RequestMax ==
  ASSUME request \in Requests, request.kind = "list"
  PROVE  request.max \in Nat
BY DEF Request

\* A page, and the token it sets, are made of names.
LEMMA PageTypes ==
  ASSUME TypeOK, ListPage
  PROVE  listed' \in Seq(Name) /\ token' \in Name \cup {<<0, 0>>}
<1>1. Remaining \in Seq(Name) /\ listed \in Seq(Name)
  BY Pages DEF TypeOK
<1>2. CASE request.max > 0 /\ request.max < Len(Remaining)
  <2>1. request.max \in 1..Len(Remaining)
    BY <1>1, <1>2, RequestMax DEF ListPage, TypeOK
  <2> DEFINE page == SubSeq(Remaining, 1, request.max)
  <2>2. listed' = listed \o page /\ token' = Remaining[request.max]
    BY <1>2 DEF ListPage, NextToken
  <2>3. page \in Seq(Name) /\ Remaining[request.max] \in Name
    <3> HIDE DEF page
    <3>1. Remaining[request.max] \in Name
      BY <1>1, <2>1
    <3>2. page \in Seq(Name)
      BY <1>1, <2>1 DEF page
    <3> QED
      BY <3>1, <3>2
  <2> HIDE DEF page
  <2> QED
    BY <1>1, <2>2, <2>3
<1>3. CASE ~(request.max > 0 /\ request.max < Len(Remaining))
  <2>1. listed' = listed \o Remaining /\ token' = token
    BY <1>3 DEF ListPage
  <2> QED
    BY <1>1, <2>1 DEF TypeOK
<1> QED
  BY <1>2, <1>3

\* A page keeps the walk ordered and faithful: it is cut behind the token.
LEMMA PageStep ==
  ASSUME TypeOK, Types', Walking, Watch, ListPage
  PROVE  Walking'
<1>1. /\ request.kind = "list" /\ step = "visit" /\ unvisited = {}
      /\ UNCHANGED <<request, found>> /\ Present' = Present
  BY DEF ListPage, Present
<1>2. Ordered /\ Faithful
  BY <1>1 DEF Walking
<1>3. steady' \subseteq steady /\ brief \subseteq brief'
  BY <1>1, WatchStep
<1>4. steady \subseteq found /\ found \subseteq brief /\ found \subseteq Name
  BY <1>1, <1>2 DEF Faithful, TypeOK
<1>5. /\ Remaining \in Seq(Name) /\ listed \in Seq(Name)
      /\ \A i, j \in 1..Len(Remaining) : i < j => Before(Remaining[i], Remaining[j])
      /\ \A i \in 1..Len(Remaining) : Remaining[i] \in found /\ Before(token, Remaining[i])
      /\ \A n \in found : Before(token, n) => \E i \in 1..Len(Remaining) : Remaining[i] = n
  BY Pages DEF TypeOK
<1> DEFINE Token == Name \cup {<<0, 0>>}
<1>6. /\ token \in Token /\ Name \subseteq Token
      /\ \A a, b, c \in Token :
            /\ ~Before(a, a)
            /\ Before(a, b) => ~Before(b, a)
            /\ Before(a, b) /\ Before(b, c) => Before(a, c)
            /\ Before(a, b) \/ Before(b, a) \/ a = b
  <2>1. Token \in SUBSET (Nat \X Nat)
    BY DEF Name, Key
  <2> QED
    BY <2>1, Order DEF TypeOK
<1> HIDE DEF Token
<1>7. \A i \in 1..Len(listed) : listed[i] \in Name /\ ~Before(token, listed[i])
  BY <1>1, <1>2, <1>5 DEF Ordered
<1>8. \A i \in 1..Len(listed), j \in 1..Len(Remaining) : Before(listed[i], Remaining[j])
  <2> TAKE i \in 1..Len(listed), j \in 1..Len(Remaining)
  <2> DEFINE a == listed[i]
             b == Remaining[j]
  <2>1. a \in Name /\ b \in Name /\ Before(token, b) /\ ~Before(token, a)
    BY <1>4, <1>5, <1>7
  <2> HIDE DEF a, b
  <2>2. Before(a, token) \/ a = token
    BY <1>6, <2>1
  <2>3. Before(a, b)
    BY <1>6, <2>1, <2>2
  <2> QED
    BY <2>3 DEF a, b
<1>9. CASE request.max > 0 /\ request.max < Len(Remaining)
  <2> DEFINE max == request.max
             page == SubSeq(Remaining, 1, max)
  <2>1. /\ listed' = listed \o page /\ token' = Remaining[max] /\ step' = "begin"
    BY <1>9 DEF ListPage, NextToken
  <2>2. max \in 1..Len(Remaining)
    BY <1>1, <1>5, <1>9, RequestMax DEF TypeOK
  <2>3. page \in Seq(Name) /\ Len(page) = max /\ \A i \in 1..max : page[i] = Remaining[i]
    BY <1>5, <2>2
  <2> HIDE DEF page, max
  <2>4. /\ \A i, j \in 1..Len(page) : i < j => Before(page[i], page[j])
        /\ \A i \in 1..Len(listed), j \in 1..Len(page) : Before(listed[i], page[j])
    <3>1. 1..Len(page) = 1..max /\ 1..max \subseteq 1..Len(Remaining)
      BY <2>2, <2>3
    <3>2. \A i, j \in 1..Len(page) : i < j => Before(page[i], page[j])
      BY <1>5, <2>3, <3>1
    <3>3. \A i \in 1..Len(listed), j \in 1..Len(page) : Before(listed[i], page[j])
      BY <1>8, <2>3, <3>1
    <3> QED
      BY <3>2, <3>3
  <2>5. /\ \A i, j \in 1..Len(listed') : i < j => Before(listed'[i], listed'[j])
        /\ ToSet(listed') = ToSet(listed) \cup ToSet(page) /\ listed' \in Seq(Name)
    BY <1>2, <1>5, <2>1, <2>3, <2>4, Appended DEF Ordered
  <2> DEFINE last == Remaining[max]
  <2>6. last \in Name /\ Before(token, last) /\ last \in found
    BY <1>4, <1>5, <2>2
  <2>7. \A i \in 1..max : ~Before(last, page[i])
    <3> TAKE i \in 1..max
    <3>1. i \in 1..Len(Remaining) /\ page[i] = Remaining[i] /\ page[i] \in Name
      BY <1>4, <1>5, <2>2, <2>3
    <3>2. CASE i = max
      BY <1>6, <2>6, <3>1, <3>2
    <3>3. CASE i # max
      <4>1. i < max
        BY <2>2, <3>3
      <4>2. Before(page[i], last)
        BY <1>5, <2>2, <3>1, <4>1
      <4> QED
        BY <1>6, <2>6, <3>1, <4>2
    <3> QED
      BY <3>2, <3>3
  <2>8. \A n \in ToSet(listed') : n \in Name /\ ~Before(last, n)
    <3>1. ASSUME NEW n \in ToSet(listed)
          PROVE  n \in Name /\ ~Before(last, n)
      <4>1. n \in Name /\ ~Before(token, n)
        <5>1. PICK i \in 1..Len(listed) : n = listed[i]
          BY <1>5 DEF ToSet
        <5> QED
          BY <1>7, <5>1
      <4> QED
        BY <1>6, <2>6, <4>1
    <3>2. ASSUME NEW n \in ToSet(page)
          PROVE  n \in Name /\ ~Before(last, n)
      BY <2>3, <2>7 DEF ToSet
    <3> QED
      BY <2>5, <3>1, <3>2
  <2>9. \A n \in steady : Before(last, n) \/ n \in ToSet(listed')
    <3> TAKE n \in steady
    <3>1. CASE n \in ToSet(listed)
      BY <2>5, <3>1
    <3>2. CASE n \notin ToSet(listed)
      <4>1. PICK i \in 1..Len(Remaining) : Remaining[i] = n
        BY <1>1, <1>2, <1>4, <1>5, <3>2 DEF Faithful
      <4>2. CASE i <= max
        <5>1. i \in Nat /\ 1 <= i /\ max \in Nat
          BY <1>5, <2>2
        <5>2. i \in 1..max
          BY <4>2, <5>1
        <5>3. page[i] = n /\ DOMAIN page = 1..max
          BY <2>3, <4>1, <5>2
        <5>4. n \in ToSet(page)
          BY <5>2, <5>3 DEF ToSet
        <5> QED
          BY <2>5, <5>4
      <4>3. CASE ~(i <= max)
        BY <1>5, <2>2, <4>1, <4>3
      <4> QED
        BY <4>2, <4>3
    <3> QED
      BY <3>1, <3>2
  <2>10. ToSet(page) \subseteq found
    BY <1>5, <2>2, <2>3 DEF ToSet
  <2>11. Ordered'
    <3>1. listed' # << >>
      BY <1>5, <2>1, <2>2, <2>3
    <3>2. \A i \in 1..Len(listed') : listed'[i] \in ToSet(listed')
      BY <2>5 DEF ToSet
    <3> QED
      BY <2>1, <2>5, <2>8, <3>1, <3>2 DEF Ordered
  <2>12. Faithful'
    <3>1. ToSet(listed)' = ToSet(listed')
      BY DEF ToSet
    <3> QED
      BY <1>2, <1>3, <1>4, <2>1, <2>5, <2>9, <2>10, <3>1 DEF Faithful
  <2> QED
    BY <1>1, <2>1, <2>11, <2>12 DEF Walking
<1>10. CASE ~(request.max > 0 /\ request.max < Len(Remaining))
  <2>1. /\ listed' = listed \o Remaining /\ token' = token /\ step' = "done"
    BY <1>10 DEF ListPage
  <2>2. /\ \A i, j \in 1..Len(listed') : i < j => Before(listed'[i], listed'[j])
        /\ ToSet(listed') = ToSet(listed) \cup ToSet(Remaining)
    BY <1>2, <1>5, <1>8, <2>1, Appended DEF Ordered
  <2>3. steady \subseteq ToSet(listed')
    <3> SUFFICES ASSUME NEW n \in steady, n \notin ToSet(listed)
                 PROVE  n \in ToSet(Remaining)
      BY <2>2
    <3>1. PICK i \in 1..Len(Remaining) : Remaining[i] = n
      BY <1>1, <1>2, <1>4, <1>5 DEF Faithful
    <3> QED
      BY <1>5, <3>1 DEF ToSet
  <2>4. ToSet(Remaining) \subseteq found
    BY <1>5 DEF ToSet
  <2>5. Ordered'
    <3>1. listed' = << >> => token = <<0, 0>>
      <4>1. Len(listed') = Len(listed) + Len(Remaining)
        BY <1>5, <2>1
      <4>2. listed' = << >> => listed = << >>
        BY <1>5, <4>1
      <4> QED
        BY <1>2, <4>2 DEF Ordered
    <3> QED
      BY <2>1, <2>2, <3>1 DEF Ordered
  <2>6. Faithful'
    <3>1. ToSet(listed)' = ToSet(listed')
      BY DEF ToSet
    <3> QED
      BY <1>2, <1>3, <1>4, <2>1, <2>2, <2>3, <2>4, <3>1 DEF Faithful
  <2> QED
    BY <1>1, <2>1, <2>5, <2>6 DEF Walking
<1> QED
  BY <1>9, <1>10

\* The variables of the client keep their types.
LEMMA ClientTypes ==
  ASSUME LocalInv, TypeOK, Client
  PROVE  /\ step' \in {"begin", "visit", "stream", "done", "got", "broken"}
         /\ unvisited' \subseteq Name /\ found' \subseteq Name
         /\ token' \in Name \cup {<<0, 0>>} /\ listed' \in Seq(Name)
         /\ header' \in Nat \cup {-1} /\ body' \in File \cup {Absent}
<1> USE DEF TypeOK, Asks
<1>1. CASE Delete
  BY <1>1 DEF Delete
<1>2. CASE GetStat
  <2>1. request.name \in Present => files[request.name] \in File
    BY DEF Present
  <2> QED
    BY <1>2, <2>1 DEF GetStat, File
<1>3. CASE GetStream
  <2>1. request.name \in Name
    BY <1>3, RequestNames DEF GetStream, LocalInv, Types
  <2> QED
    BY <1>3, <2>1 DEF GetStream, Sends
<1>4. CASE ListBegin
  BY <1>4 DEF ListBegin, Present
<1>5. CASE ListVisit
  BY <1>5 DEF ListVisit
<1>6. CASE ListPage
  <2>1. step' \in {"begin", "done"} /\ UNCHANGED <<unvisited, found, header, body>>
    BY <1>6 DEF ListPage
  <2> QED
    BY <1>6, <2>1, PageTypes
<1> QED
  BY <1>1, <1>2, <1>3, <1>4, <1>5, <1>6 DEF Client

\* Nothing changes.
LEMMA WalkIdle ==
  ASSUME WalkInv, UNCHANGED vars
  PROVE  WalkInv'
<1> USE DEF vars, writes, client, watch
<1>1. TypeOK'
  BY DEF WalkInv, TypeOK
<1>2. Walking'
  BY DEF WalkInv, Walking, Ordered, Faithful, ToSet
<1>3. \A w \in Writer : Trying(w)'
  BY DEF WalkInv, Trying
<1> QED
  BY <1>1, <1>2, <1>3 DEF WalkInv

\* Every step keeps WalkInv.
LEMMA WalkStep ==
  ASSUME LocalInv, LocalInv', WalkInv, Next
  PROVE  WalkInv'
<1>1. TypeOK /\ Types /\ Types' /\ Walking /\ \A w \in Writer : Trying(w)
  BY DEF WalkInv, LocalInv
<1>2. attempt' \in [Writer -> 0..MaxAttempts] /\ \A v \in Writer : Trying(v)'
  BY <1>1, TryingStep DEF TypeOK
<1>3. budget' \in [faults : Nat, crashes : Nat]
  BY <1>1, BudgetStep DEF TypeOK
<1>4. job' = job /\ request' = request
  BY <1>1, TypesStep
<1>5. CASE Watch /\ Client
  <2>1. TypeOK'
    BY <1>1, <1>2, <1>3, <1>4, <1>5, ClientTypes, WatchStep DEF TypeOK, Types, Trying
  <2>2. Walking'
    <3>1. CASE request.kind # "list"
      BY <1>4, <3>1 DEF Walking
    <3>2. CASE request.kind = "list"
      <4>1. ListBegin \/ ListVisit \/ ListPage
        BY <1>5, <3>2 DEF Client, Delete, GetStat, GetStream, Asks
      <4> QED
        BY <1>1, <1>5, <4>1, BeginStep, VisitStep, PageStep
    <3> QED
      BY <3>1, <3>2
  <2> QED
    BY <1>2, <2>1, <2>2 DEF WalkInv
<1>6. ASSUME Watch, NEW w \in Writer, Write(w) \/ Crash(w)
      PROVE  WalkInv'
  <2>1. UNCHANGED <<request, client>>
    BY <1>6, WriteFrames
  <2>2. TypeOK'
    BY <1>1, <1>2, <1>3, <1>4, <1>6, <2>1, WatchStep DEF TypeOK, Types, Trying, client
  <2>3. Walking'
    BY <1>1, <1>6, <2>1, WalkRests
  <2> QED
    BY <1>2, <2>2, <2>3 DEF WalkInv
<1>7. CASE Finished
  BY <1>7, WalkIdle DEF Finished
<1> QED
  BY <1>5, <1>6, <1>7 DEF Next

\* The invariant of the listings.
THEOREM WalkInvariant == Spec => []WalkInv
<1>1. WalkInv /\ LocalInv /\ LocalInv' /\ [Next]_vars => WalkInv'
  BY WalkStep, WalkIdle
<1> QED
  BY <1>1, WalkInit, LocalInvariant, PTL DEF Spec

\* Every variable keeps its type, and no write tries the rename more often than it
\* may (WriteWithOptions, ListWithOptions).
THEOREM TypeCorrect == Spec => []TypeOK
<1>1. WalkInv => TypeOK
  BY DEF WalkInv
<1> QED
  BY <1>1, WalkInvariant, PTL

\* A listing in pages, each from a walk of its own, is in order and without
\* repetition, has what was there throughout, and nothing that never was
\* (ListWithOptions), for any number of keys, writers and names on a page.
THEOREM WalksAreFaithful == Spec => []WalkIsFaithful
<1>1. WalkInv => WalkIsFaithful
  <2> SUFFICES ASSUME WalkInv, request.kind = "list", step = "done"
               PROVE  /\ \A i, j \in DOMAIN listed : i < j => Before(listed[i], listed[j])
                      /\ steady \subseteq ToSet(listed)
                      /\ ToSet(listed) \subseteq brief
    BY DEF WalkIsFaithful
  <2>1. DOMAIN listed = 1..Len(listed)
    BY DEF WalkInv, TypeOK
  <2> QED
    BY <2>1 DEF WalkInv, Walking, Ordered, Faithful
<1> QED
  BY <1>1, WalkInvariant, PTL
=============================================================================
