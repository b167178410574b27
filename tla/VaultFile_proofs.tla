-------------------------- MODULE VaultFile_proofs --------------------------
(***************************************************************************)
(* Proofs about VaultFile, for any number of processes and goroutines, any *)
(* names, profiles and passphrases, and every bound: it implements         *)
(* RemoteStore.                                                            *)
(***************************************************************************)
EXTENDS VaultFile, TLAPS

USE VaultAssumption, NoFileAssumption, CallsAssumption

-----------------------------------------------------------------------------
(* The inductive invariant.                                                *)

\* A goroutine between Lock and the end of Unlock.
Held(t) == pc[t] \in {"load", "write", "rename", "remove", "retry", "again", "unlock"}

\* ... and one that has loaded what it is going to change.
Window(t) == pc[t] \in {"write", "rename", "remove", "retry", "again"}

\* The mutex: a writer is alone in its process.
Locked(t) ==
    Held(t) => IF Writes(t)
                 THEN writer[ProcOf[t]] = {t} /\ readers[ProcOf[t]] = {}
                 ELSE writer[ProcOf[t]] = {} /\ t \in readers[ProcOf[t]]

\* The locals of a call: only writers reach saveStore, an answer is there when the
\* call is over, and the temporary file holds what the call makes of the map.
Locals(t) ==
    /\ Window(t) => Writes(t)
    /\ pc[t] # "unlock" => answer[t] = {} /\ failed[t] = FALSE
    /\ pc[t] \in {"rename", "remove", "retry", "again"} =>
          tmp[ProcOf[t]] = [key |-> key[t], remotes |-> Changed(loaded[t], call[t])]

\* A writer that nobody has overtaken has loaded what is stored, and may seal it.
Fresh(t) ==
    t \notin overtaken /\ Window(t) =>
        /\ loaded[t] = StoredRemotes
        /\ vault # NoFile => vault.key = key[t]
        /\ pc[t] = "again" => vault = NoFile

VaultInv == TypeOK /\ \A t \in Thread : Locked(t) /\ Locals(t) /\ Fresh(t)

-----------------------------------------------------------------------------
(* Lemmas about calls and stores.                                          *)

\* What a call is.
LEMMA CallShape ==
  ASSUME NEW c \in Call
  PROVE  /\ c.kind \in {"save", "delete", "get", "list"}
         /\ c.kind # "list" => c.name \in Name
         /\ c.kind = "save" => c.profile \in Profile
  BY DEF Call

LEMMA NoCallType == NoCall \in Call /\ NoRemotes \in Remotes /\ SomeKey \in Key
  BY DEF NoCall, Call, NoRemotes, Remotes, SomeKey

\* A write makes a store of a store, an answer consists of pairs.
LEMMA ChangedType ==
  ASSUME NEW r \in Remotes, NEW c \in Call
  PROVE  /\ c.kind \in {"save", "delete"} => Changed(r, c) \in Remotes
         /\ Found(r, c) \in Answer
         /\ c.kind \in {"save", "delete"} => Found(r, c) = {}
<1>1. c.kind \in {"save", "delete"} => Changed(r, c) \in Remotes
  <2>1. CASE c.kind = "save"
    BY <2>1, CallShape DEF Changed, Remotes
  <2>2. CASE c.kind = "delete"
    BY <2>2, CallShape DEF Changed, Remotes
  <2> QED
    BY <2>1, <2>2
<1>2. Found(r, c) \in Answer
  <2>1. CASE c.kind = "get"
    BY <2>1, CallShape DEF Found, Answer, Remotes
  <2>2. CASE c.kind = "list"
    BY <2>2 DEF Found, Answer
  <2>3. CASE c.kind \in {"save", "delete"}
    BY <2>3 DEF Found, Answer
  <2> QED
    BY <2>1, <2>2, <2>3, CallShape
<1>3. c.kind \in {"save", "delete"} => Found(r, c) = {}
  BY DEF Found
<1> QED
  BY <1>1, <1>2, <1>3

LEMMA InFileType == vault \in Sealed \cup {NoFile} => InFile \in Remotes
  BY NoCallType DEF InFile, Sealed

-----------------------------------------------------------------------------
(* Types.                                                                  *)

LEMMA TypesInit == Init => TypeOK
  BY NoCallType DEF Init, TypeOK, PC, Answer

LEMMA SpendType ==
  ASSUME budget \in [calls : Nat, faults : Nat, crashes : Nat],
         NEW what \in {"calls", "faults", "crashes"}, Spend(what)
  PROVE  budget' \in [calls : Nat, faults : Nat, crashes : Nat]
<1>1. budget[what] \in Nat /\ budget[what] > 0
  BY DEF Spend
<1>2. budget[what] - 1 \in Nat
  BY <1>1
<1> QED
  BY <1>2 DEF Spend

LEMMA InvokeTypes ==
  ASSUME TypeOK, NEW t \in Thread, NEW c \in Calls, NEW k \in KeysOf[ProcOf[t]], Invoke(t, c, k)
  PROVE  TypeOK'
<1>1. k \in Key /\ c \in Call
  OBVIOUS
<1> QED
  BY <1>1, SpendType DEF TypeOK, Invoke, Goto, PC, locks

LEMMA StepTypes ==
  ASSUME TypeOK, \A u \in Thread : Locals(u), NEW t \in Thread, Step(t)
  PROVE  TypeOK'
<1> USE DEF TypeOK, Goto, PC, locks
<1>1. CASE Lock(t)
  BY <1>1 DEF Lock
<1>2. CASE Load(t)
  <2>1. InFile \in Remotes /\ Found(InFile, call[t]) \in Answer
    BY InFileType, ChangedType
  <2>2. loaded' \in [Thread -> Remotes] /\ answer' \in [Thread -> Answer]
    BY <1>2, <2>1 DEF Load
  <2> QED
    BY <1>2, <2>2 DEF Load
<1>3. CASE LoadFails(t)
  BY <1>3, SpendType DEF LoadFails, AfterError
<1>4. CASE WriteTmp(t)
  <2>1. Changed(loaded[t], call[t]) \in Remotes
    BY <1>4, ChangedType DEF WriteTmp, Locals, Window, Writes
  <2>2. [key |-> key[t], remotes |-> Changed(loaded[t], call[t])] \in Sealed
    BY <2>1 DEF Sealed
  <2> QED
    BY <1>4, <2>2 DEF WriteTmp
<1>5. CASE WriteTmpFails(t)
  BY <1>5, SpendType DEF WriteTmpFails
<1>6. CASE Rename(t)
  BY <1>6 DEF Rename, Overtaken
<1>7. CASE RenameFails(t) \/ RemoveFails(t)
  BY <1>7, SpendType DEF RenameFails, RemoveFails
<1>8. CASE RemoveVault(t)
  BY <1>8 DEF RemoveVault, Overtaken
<1>9. CASE RetryFails(t) \/ AgainFails(t)
  BY <1>9, SpendType DEF RetryFails, AgainFails, GivesUp, Overtaken
<1>10. CASE Unlock(t)
  BY <1>10, NoCallType DEF Unlock, Answer
<1> QED
  BY <1>1, <1>2, <1>3, <1>4, <1>5, <1>6, <1>7, <1>8, <1>9, <1>10 DEF Step

LEMMA CrashTypes ==
  ASSUME TypeOK, NEW p \in Proc, Crash(p)
  PROVE  TypeOK'
  BY NoCallType, SpendType DEF TypeOK, Crash, PC, Answer, Overtaken

-----------------------------------------------------------------------------
(* The mutex and the locals of a call.                                     *)

\* A step changes the locals of its goroutine, and the temporary file of its
\* process.
LEMMA StepFrame ==
  ASSUME TypeOK, NEW t \in Thread, Step(t)
  PROVE  /\ \A u \in Thread \ {t} :
              /\ pc'[u] = pc[u] /\ call'[u] = call[u] /\ key'[u] = key[u]
              /\ loaded'[u] = loaded[u] /\ answer'[u] = answer[u] /\ failed'[u] = failed[u]
         /\ \A p \in Proc \ {ProcOf[t]} :
              tmp'[p] = tmp[p] /\ writer'[p] = writer[p] /\ readers'[p] = readers[p]
<1> USE DEF Goto, TypeOK, locks
<1>1. CASE Lock(t) \/ Load(t) \/ LoadFails(t) \/ Unlock(t)
  BY <1>1 DEF Lock, Load, LoadFails, Unlock
<1>2. CASE WriteTmp(t) \/ WriteTmpFails(t) \/ Rename(t) \/ RenameFails(t)
  BY <1>2 DEF WriteTmp, WriteTmpFails, Rename, RenameFails
<1>3. CASE RemoveVault(t) \/ RemoveFails(t) \/ RetryFails(t) \/ AgainFails(t)
  BY <1>3 DEF RemoveVault, RemoveFails, RetryFails, AgainFails, GivesUp
<1> QED
  BY <1>1, <1>2, <1>3 DEF Step

\* A writer is the only one of its process between Lock and Unlock.
LEMMA Alone ==
  ASSUME TypeOK, NEW t \in Thread, NEW u \in Thread, Locked(t), Locked(u),
         Held(t), Held(u), Writes(t), ProcOf[t] = ProcOf[u]
  PROVE  t = u
  BY DEF Locked

LEMMA LockedStep ==
  ASSUME VaultInv, NEW t \in Thread, Step(t), NEW u \in Thread
  PROVE  Locked(u)'
<1> USE DEF VaultInv, TypeOK, Held, Goto, Writes
<1>1. CASE u = t
  <2>1. CASE Lock(t)
    BY <1>1, <2>1 DEF Lock, Exclusive, Locked
  <2>2. CASE Load(t)
    BY <1>1, <2>2 DEF Load, Locked, locks
  <2>3. CASE LoadFails(t) \/ WriteTmp(t) \/ WriteTmpFails(t)
    BY <1>1, <2>3 DEF LoadFails, AfterError, WriteTmp, WriteTmpFails, Locked, locks
  <2>4. CASE Rename(t) \/ RenameFails(t) \/ RemoveVault(t) \/ RemoveFails(t)
    BY <1>1, <2>4 DEF Rename, RenameFails, RemoveVault, RemoveFails, Locked, locks
  <2>5. CASE RetryFails(t) \/ AgainFails(t)
    BY <1>1, <2>5 DEF RetryFails, AgainFails, GivesUp, Locked, locks
  <2>6. CASE Unlock(t)
    BY <1>1, <2>6 DEF Unlock, Locked
  <2> QED
    BY <2>1, <2>2, <2>3, <2>4, <2>5, <2>6 DEF Step
<1>2. CASE u # t /\ ProcOf[u] # ProcOf[t]
  BY <1>2, StepFrame DEF Locked
<1>3. CASE u # t /\ ProcOf[u] = ProcOf[t]
  <2>1. pc'[u] = pc[u] /\ call'[u] = call[u]
    BY <1>3, StepFrame
  <2>2. CASE Lock(t)
    <3>1. Locked(u) /\ ProcOf[t] \in Proc
      OBVIOUS
    <3>2. CASE Exclusive(t)
      <4>1. writer[ProcOf[t]] = {} /\ readers[ProcOf[t]] = {}
        BY <2>2, <3>2 DEF Lock
      <4> QED
        BY <1>3, <2>1, <3>1, <4>1 DEF Locked
    <3>3. CASE ~Exclusive(t)
      <4>1. /\ writer[ProcOf[t]] = {} /\ writer' = writer
            /\ readers' = [readers EXCEPT ![ProcOf[t]] = @ \cup {t}]
        BY <2>2, <3>3 DEF Lock
      <4> QED
        BY <1>3, <2>1, <3>1, <4>1 DEF Locked
    <3> QED
      BY <3>2, <3>3
  <2>3. CASE Unlock(t)
    BY <1>3, <2>1, <2>3 DEF Unlock, Locked
  <2>4. CASE UNCHANGED locks
    BY <2>1, <2>4 DEF Locked, locks
  <2> QED
    BY <2>2, <2>3, <2>4 DEF Step, Load, LoadFails, WriteTmp, WriteTmpFails, Rename,
       RenameFails, RemoveVault, RemoveFails, RetryFails, AgainFails, GivesUp
<1> QED
  BY <1>1, <1>2, <1>3

LEMMA LocalsStep ==
  ASSUME VaultInv, NEW t \in Thread, Step(t), NEW u \in Thread
  PROVE  Locals(u)'
<1> USE DEF VaultInv, TypeOK, Goto, Writes, Window
<1>1. CASE u = t
  <2> USE <1>1 DEF Locals
  <2>1. CASE Lock(t)          BY <2>1 DEF Lock
  <2>2. CASE Load(t)
    <3>1. Writes(t) => Found(InFile, call[t]) = {}
      BY InFileType, ChangedType
    <3> QED
      BY <2>2, <3>1 DEF Load
  <2>3. CASE LoadFails(t)     BY <2>3 DEF LoadFails, AfterError
  <2>4. CASE WriteTmp(t)      BY <2>4 DEF WriteTmp
  <2>5. CASE WriteTmpFails(t) BY <2>5 DEF WriteTmpFails
  <2>6. CASE Rename(t)        BY <2>6 DEF Rename
  <2>7. CASE RenameFails(t)   BY <2>7 DEF RenameFails
  <2>8. CASE RemoveVault(t)   BY <2>8 DEF RemoveVault
  <2>9. CASE RemoveFails(t)   BY <2>9 DEF RemoveFails
  <2>10. CASE RetryFails(t) \/ AgainFails(t)
    BY <2>10 DEF RetryFails, AgainFails, GivesUp
  <2>11. CASE Unlock(t)       BY <2>11 DEF Unlock
  <2> QED
    BY <2>1, <2>2, <2>3, <2>4, <2>5, <2>6, <2>7, <2>8, <2>9, <2>10, <2>11 DEF Step
<1>2. CASE u # t
  <2>1. /\ pc'[u] = pc[u] /\ call'[u] = call[u] /\ key'[u] = key[u]
        /\ loaded'[u] = loaded[u] /\ answer'[u] = answer[u] /\ failed'[u] = failed[u]
    BY <1>2, StepFrame
  <2>2. ASSUME pc[u] \in {"rename", "remove", "retry", "again"}
        PROVE  tmp'[ProcOf[u]] = tmp[ProcOf[u]]
    <3>1. CASE ProcOf[u] # ProcOf[t]
      BY <3>1, StepFrame
    <3>2. CASE ProcOf[u] = ProcOf[t]
      <4>1. ~Held(t)
        BY <1>2, <2>2, <3>2, Alone DEF Locals, Held
      <4> QED
        BY <4>1 DEF Held, Step, Lock, Load, LoadFails, WriteTmp, WriteTmpFails, Rename,
           RenameFails, RemoveVault, RemoveFails, RetryFails, AgainFails, Unlock
    <3> QED
      BY <3>1, <3>2
  <2> QED
    BY <2>1, <2>2 DEF Locals
<1> QED
  BY <1>1, <1>2

LEMMA CallsInv ==
  ASSUME VaultInv, NEW u \in Thread,
         \/ \E t \in Thread : \E c \in Calls, k \in KeysOf[ProcOf[t]] : Invoke(t, c, k)
         \/ \E p \in Proc : Crash(p)
  PROVE  Locked(u)' /\ Locals(u)'
<1> USE DEF VaultInv, TypeOK, Held, Writes, Window
<1>1. ASSUME NEW t \in Thread, NEW c \in Calls, NEW k \in KeysOf[ProcOf[t]], Invoke(t, c, k)
      PROVE  Locked(u)' /\ Locals(u)'
  BY <1>1 DEF Invoke, Goto, Locked, Locals, locks
<1>2. ASSUME NEW p \in Proc, Crash(p)
      PROVE  Locked(u)' /\ Locals(u)'
  <2>1. CASE ProcOf[u] = p
    BY <1>2, <2>1 DEF Crash, Locked, Locals
  <2>2. CASE ProcOf[u] # p
    BY <1>2, <2>2 DEF Crash, Locked, Locals
  <2> QED
    BY <2>1, <2>2
<1> QED
  BY <1>1, <1>2

-----------------------------------------------------------------------------
(* What is stored.                                                         *)

\* The remotes are in the file, or with any of the writers that hold them.
LEMMA StoredIs ==
  /\ Holders = {} => StoredRemotes = InFile
  /\ \A t \in Holders :
        (\A u \in Holders : loaded[u] = loaded[t]) => StoredRemotes = loaded[t]
  BY DEF StoredRemotes

\* They stay where they are while neither the file nor a holder changes.
LEMMA StoredStays ==
  ASSUME vault' = vault, Holders' = Holders, \A t \in Holders : loaded'[t] = loaded[t]
  PROVE  StoredRemotes' = StoredRemotes
  BY DEF StoredRemotes, InFile

LEMMA HoldersAgree ==
  ASSUME VaultInv, NEW t \in Holders
  PROVE  StoredRemotes = loaded[t] /\ vault = NoFile
  BY DEF VaultInv, Fresh, Holders, Window

\* The steps that leave the file and its holders alone.
Calm(t) == \/ Lock(t) \/ Load(t) \/ LoadFails(t) \/ WriteTmp(t) \/ WriteTmpFails(t)
           \/ RenameFails(t) \/ RemoveFails(t) \/ RetryFails(t) \/ Unlock(t)

LEMMA CalmStores ==
  ASSUME VaultInv, NEW t \in Thread, Calm(t)
  PROVE  vault' = vault /\ Holders' = Holders /\ StoredRemotes' = StoredRemotes
<1>1. pc[t] # "again" /\ pc'[t] # "again" /\ overtaken' \ {t} = overtaken \ {t} /\ vault' = vault
  BY DEF VaultInv, TypeOK, Calm, Lock, Load, LoadFails, AfterError, WriteTmp,
         WriteTmpFails, RenameFails, RemoveFails, RetryFails, GivesUp, Unlock, Goto
<1>2. \A u \in Thread \ {t} : pc'[u] = pc[u] /\ loaded'[u] = loaded[u]
  BY StepFrame DEF VaultInv, Calm, Step
<1>3. Holders' = Holders
  BY <1>1, <1>2 DEF Holders
<1>4. \A u \in Holders : loaded'[u] = loaded[u]
  BY <1>1, <1>2 DEF Holders
<1> QED
  BY <1>1, <1>3, <1>4, StoredStays

\* A load that misses nothing finds what is stored.
LEMMA LoadSeesStore ==
  ASSUME VaultInv, NEW t \in Thread, pc[t] = "load", ~Missing(ProcOf[t])
  PROVE  Holders = {} /\ StoredRemotes = InFile
<1>1. ASSUME NEW u \in Holders PROVE FALSE
  <2>1. u \in Thread /\ pc[u] = "again" /\ u \notin overtaken
    BY DEF Holders
  <2>2. ProcOf[u] = ProcOf[t]
    BY <2>1 DEF Missing
  <2>3. u = t
    BY <2>1, <2>2, Alone DEF VaultInv, Locals, Window, Held
  <2> QED
    BY <2>1, <2>3
<1> QED
  BY <1>1, StoredIs

\* The steps that overtake everybody: only their own writer can go on, and does not.
Sweeps(t) == Rename(t) \/ AgainFails(t) \/ (RemoveVault(t) /\ t \in overtaken)

LEMMA SweepsAll ==
  ASSUME VaultInv, NEW t \in Thread, Sweeps(t), NEW u \in Thread, Window(u)'
  PROVE  u \in overtaken'
<1> USE DEF VaultInv, TypeOK, Goto
<1>1. Window(t) /\ Writes(t) /\ Held(t)
  BY DEF Sweeps, Rename, AgainFails, GivesUp, RemoveVault, Window, Locals, Held
<1>2. CASE u = t
  BY <1>2 DEF Sweeps, Rename, AgainFails, GivesUp, RemoveVault, Window
<1>3. CASE u # t
  <2>1. Window(u) /\ Held(u)
    BY <1>3, StepFrame DEF Window, Held, Sweeps, Step
  <2>2. ProcOf[u] # ProcOf[t]
    BY <1>1, <1>3, <2>1, Alone
  <2>3. u \in Overtaken(ProcOf[t])
    BY <2>1, <2>2 DEF Overtaken, Window
  <2> QED
    BY <2>3 DEF Sweeps, Rename, AgainFails, GivesUp, RemoveVault
<1> QED
  BY <1>2, <1>3

\* A writer that nobody has overtaken takes the remotes out of the file.
LEMMA RemovalKeeps ==
  ASSUME VaultInv, NEW t \in Thread, RemoveVault(t), t \notin overtaken
  PROVE  /\ vault' = NoFile /\ overtaken' = overtaken
         /\ StoredRemotes' = StoredRemotes
<1> USE DEF VaultInv, TypeOK, Goto
<1>1. vault' = NoFile /\ overtaken' = overtaken /\ UNCHANGED loaded
  BY DEF RemoveVault
<1>2. Holders' = Holders \cup {t}
  BY <1>1 DEF RemoveVault, Holders
<1>3. loaded[t] = StoredRemotes
  BY DEF Fresh, Window, RemoveVault
<1>4. \A u \in Holders : loaded[u] = StoredRemotes
  BY HoldersAgree
<1>5. \A u \in Holders' : loaded'[u] = StoredRemotes
  BY <1>1, <1>2, <1>3, <1>4
<1>6. StoredRemotes' = loaded'[t]
  BY <1>2, <1>5 DEF StoredRemotes
<1> QED
  BY <1>1, <1>3, <1>6

LEMMA FreshStep ==
  ASSUME VaultInv, NEW t \in Thread, Step(t), NEW u \in Thread
  PROVE  Fresh(u)'
<1> USE DEF VaultInv, TypeOK, Goto
<1>1. CASE Sweeps(t)
  BY <1>1, SweepsAll DEF Fresh
<1>2. CASE RemoveVault(t) /\ t \notin overtaken
  <2>1. loaded' = loaded
    BY <1>2 DEF RemoveVault
  <2>2. Window(u)' => Window(u)
    BY <1>2 DEF RemoveVault, Window
  <2> QED
    BY <1>2, <2>1, <2>2, RemovalKeeps DEF Fresh
<1>3. CASE Calm(t)
  <2>1. vault' = vault /\ StoredRemotes' = StoredRemotes
    BY <1>3, CalmStores
  <2>2. CASE u # t
    <3>1. u \in overtaken' <=> u \in overtaken
      BY <1>3, <2>2 DEF Calm, Lock, Load, LoadFails, WriteTmp, WriteTmpFails, RenameFails,
         RemoveFails, RetryFails, Unlock
    <3>2. pc'[u] = pc[u] /\ key'[u] = key[u] /\ loaded'[u] = loaded[u]
      BY <2>2, StepFrame
    <3> QED
      BY <2>1, <3>1, <3>2 DEF Fresh, Window
  <2>3. CASE u = t /\ Load(t)
    <3>1. CASE Missing(ProcOf[t])
      BY <2>3, <3>1 DEF Load, Fresh
    <3>2. CASE ~Missing(ProcOf[t])
      <4>1. StoredRemotes = InFile
        BY <2>3, <3>2, LoadSeesStore DEF Load
      <4>2. loaded'[t] = InFile /\ key'[t] = key[t] /\ pc'[t] # "again"
        BY <2>3 DEF Load
      <4>3. vault # NoFile => vault.key = key[t]
        BY <2>3 DEF Load, Opens
      <4> QED
        BY <2>1, <2>3, <4>1, <4>2, <4>3 DEF Fresh
    <3> QED
      BY <3>1, <3>2
  <2>4. CASE u = t /\ ~Load(t)
    <3>1. ASSUME Window(t)'
          PROVE  /\ Window(t) /\ pc'[t] # "again"
                 /\ UNCHANGED <<overtaken, loaded, key>>
      BY <1>3, <2>4, <3>1 DEF Calm, Lock, LoadFails, AfterError, WriteTmp, WriteTmpFails,
         RenameFails, RemoveFails, RetryFails, GivesUp, Unlock, Window
    <3> QED
      BY <2>1, <2>4, <3>1 DEF Fresh
  <2> QED
    BY <2>2, <2>3, <2>4
<1> QED
  BY <1>1, <1>2, <1>3 DEF Step, Calm, Sweeps

\* What the death of a process makes of the store.
LEMMA CrashStores ==
  ASSUME VaultInv, NEW p \in Proc, Crash(p)
  PROVE  /\ \/ StoredRemotes' = StoredRemotes
            \/ /\ StoredRemotes' = NoRemotes
               /\ \E t \in Thread : ProcOf[t] = p /\ pc[t] = "again"
         /\ \A u \in Thread : Fresh(u)'
<1> USE DEF VaultInv, TypeOK
<1>1. /\ vault' = vault
      /\ \A u \in Thread : ProcOf[u] = p => pc'[u] = "idle"
      /\ \A u \in Thread : ProcOf[u] # p =>
            pc'[u] = pc[u] /\ loaded'[u] = loaded[u] /\ key'[u] = key[u]
  BY DEF Crash
<1>2. CASE \E t \in Thread : ProcOf[t] = p /\ pc[t] = "again"
  <2>1. ASSUME NEW u \in Thread, Window(u)' PROVE u \in overtaken'
    <3>1. ProcOf[u] # p
      BY <1>1, <2>1 DEF Window
    <3>2. u \in Overtaken(p)
      BY <1>1, <2>1, <3>1 DEF Overtaken, Window
    <3>3. overtaken' = (overtaken \cup Overtaken(p)) \ {t \in Thread : ProcOf[t] = p}
      BY <1>2 DEF Crash
    <3> QED
      BY <3>1, <3>2, <3>3
  <2>2. Holders' = {}
    BY <2>1 DEF Holders, Window
  <2>3. StoredRemotes' = InFile'
    BY <2>2 DEF StoredRemotes
  <2>4. InFile' = InFile
    BY <1>1 DEF InFile
  <2>5. CASE Holders = {}
    BY <2>1, <2>3, <2>4, <2>5, StoredIs DEF Fresh
  <2>6. CASE Holders # {}
    <3>1. vault = NoFile
      BY <2>6, HoldersAgree
    <3>2. StoredRemotes' = NoRemotes
      BY <2>3, <2>4, <3>1 DEF InFile
    <3> QED
      BY <1>2, <2>1, <3>2 DEF Fresh
  <2> QED
    BY <2>5, <2>6
<1>3. CASE ~ \E t \in Thread : ProcOf[t] = p /\ pc[t] = "again"
  <2>1. overtaken' = overtaken \ {t \in Thread : ProcOf[t] = p}
    BY <1>3 DEF Crash
  <2>2. Holders' = Holders /\ \A u \in Holders : loaded'[u] = loaded[u]
    BY <1>1, <1>3, <2>1 DEF Holders
  <2>3. StoredRemotes' = StoredRemotes
    BY <1>1, <2>2, StoredStays
  <2> QED
    BY <1>1, <2>1, <2>3 DEF Fresh, Window
<1> QED
  BY <1>2, <1>3

\* A new call changes neither.
LEMMA InvokeStores ==
  ASSUME VaultInv, NEW t \in Thread, NEW c \in Calls, NEW k \in KeysOf[ProcOf[t]], Invoke(t, c, k)
  PROVE  StoredRemotes' = StoredRemotes /\ \A u \in Thread : Fresh(u)'
<1> USE DEF VaultInv, TypeOK, Goto
<1>1. UNCHANGED <<vault, overtaken, loaded>>
  BY DEF Invoke
<1>2. Holders' = Holders
  BY DEF Invoke, Holders
<1>3. StoredRemotes' = StoredRemotes
  BY <1>1, <1>2, StoredStays
<1> QED
  BY <1>1, <1>3 DEF Fresh, Window, Invoke

-----------------------------------------------------------------------------
(* The invariant.                                                          *)

LEMMA InvInit == Init => VaultInv
<1> SUFFICES ASSUME Init PROVE VaultInv
  OBVIOUS
<1>1. ASSUME NEW t \in Thread PROVE Locked(t) /\ Locals(t) /\ Fresh(t)
  BY DEF Init, Locked, Held, Locals, Window, Fresh
<1> QED
  BY <1>1, TypesInit DEF VaultInv

LEMMA InvStep == VaultInv /\ [Next]_vars => VaultInv'
<1> SUFFICES ASSUME VaultInv, [Next]_vars PROVE VaultInv'
  OBVIOUS
<1>1. ASSUME NEW t \in Thread, NEW c \in Calls, NEW k \in KeysOf[ProcOf[t]], Invoke(t, c, k)
      PROVE  VaultInv'
  BY <1>1, InvokeTypes, CallsInv, InvokeStores DEF VaultInv
<1>2. ASSUME NEW t \in Thread, Step(t) PROVE VaultInv'
  BY <1>2, StepTypes, LockedStep, LocalsStep, FreshStep DEF VaultInv
<1>3. ASSUME NEW p \in Proc, Crash(p) PROVE VaultInv'
  BY <1>3, CrashTypes, CallsInv, CrashStores DEF VaultInv
<1>4. CASE UNCHANGED vars
  <2>1. TypeOK'
    BY <1>4 DEF vars, locks, VaultInv, TypeOK
  <2>2. StoredRemotes' = StoredRemotes
    BY <1>4 DEF vars, StoredRemotes, Holders, InFile
  <2>3. ASSUME NEW t \in Thread
        PROVE  Locked(t)' /\ Locals(t)' /\ Fresh(t)'
    <3>1. Locked(t) /\ Locals(t) /\ Fresh(t)
      BY DEF VaultInv
    <3>2. Locked(t)'
      BY <1>4, <3>1 DEF vars, locks, Locked, Held, Writes
    <3>3. Locals(t)'
      BY <1>4, <3>1 DEF vars, Locals, Writes, Window
    <3>4. Fresh(t)'
      BY <1>4, <2>2, <3>1 DEF vars, Fresh, Window
    <3> QED
      BY <3>2, <3>3, <3>4
  <2> QED
    BY <2>1, <2>3 DEF VaultInv
<1> QED
  BY <1>1, <1>2, <1>3, <1>4 DEF Next, Finished

-----------------------------------------------------------------------------
(* The refinement.                                                         *)

Statuses == [t \in Thread |-> Status(t)]

LEMMA StatusStep ==
  ASSUME VaultInv, NEW t \in Thread, Step(t)
  PROVE  Statuses' = [Statuses EXCEPT ![t] = Status(t)']
<1>1. \A u \in Thread \ {t} : Status(u)' = Status(u)
  BY StepFrame DEF VaultInv, Status
<1> QED
  BY <1>1 DEF Statuses

LEMMA InitRefines == Init => RS!Init
<1> SUFFICES ASSUME Init PROVE RS!Init
  OBVIOUS
<1>1. Holders = {} /\ InFile = NoRemotes
  BY DEF Init, Holders, InFile
<1>2. StoredRemotes = RS!NoRemotes
  BY <1>1, StoredIs DEF NoRemotes, RS!NoRemotes
<1>3. Statuses = [t \in Thread |-> "idle"]
  BY DEF Init, Statuses, Status
<1> QED
  BY <1>2, <1>3 DEF Init, RS!Init, Statuses, NoCall, RS!NoCall

\* A load is seen by nobody else, and is what a call that only reads does.
LEMMA LoadRefines ==
  ASSUME VaultInv, NEW t \in Thread, Load(t), t \notin overtaken'
  PROVE  RS!TakeEffect(t) \/ UNCHANGED RS!vars
<1> USE DEF VaultInv, TypeOK, Goto
<1>1. ~Missing(ProcOf[t]) /\ pc[t] = "load" /\ UNCHANGED call
  BY DEF Load
<1>2. StoredRemotes = InFile /\ StoredRemotes' = StoredRemotes
  BY <1>1, LoadSeesStore, CalmStores DEF Calm
<1>3. Statuses' = [Statuses EXCEPT ![t] = Status(t)']
  BY StatusStep DEF Step
<1>4. Status(t) = "pending" /\ answer[t] = {} /\ failed'[t] = FALSE
  BY <1>1 DEF Status, Locals, Load
<1>5. answer' = [answer EXCEPT ![t] = Found(InFile, call[t])]
  BY DEF Load
<1>6. CASE pc'[t] = "write"
  <2>1. Writes(t) /\ Status(t)' = "pending"
    BY <1>6 DEF Load, Status
  <2>2. answer' = answer
    BY <1>4, <1>5, <2>1, InFileType, ChangedType DEF Writes
  <2>3. Statuses' = Statuses
    BY <1>3, <1>4, <2>1 DEF Statuses
  <2> QED
    BY <1>1, <1>2, <2>2, <2>3 DEF RS!vars, Statuses
<1>7. CASE pc'[t] = "unlock"
  <2>1. Status(t)' = "done"
    BY <1>4, <1>7 DEF Status
  <2>2. \/ call[t].kind \in {"get", "list"}
        \/ call[t].kind = "delete" /\ InFile[call[t].name] = Nothing
    BY <1>7, CallShape DEF Load, Writes
  <2>3. RS!After(InFile, call[t]) = InFile
    BY <2>2, InFileType, CallShape DEF RS!After, Remotes
  <2>4. RS!Seen(InFile, call[t]) = Found(InFile, call[t])
    BY DEF RS!Seen, Found
  <2> QED
    BY <1>1, <1>2, <1>3, <1>4, <1>5, <2>1, <2>3, <2>4 DEF RS!TakeEffect, Statuses
<1> QED
  BY <1>6, <1>7 DEF Load

\* A rename puts the changed map where it was taken from.
LEMMA RenameRefines ==
  ASSUME VaultInv, NEW t \in Thread, Rename(t), t \notin overtaken
  PROVE  RS!TakeEffect(t)
<1> USE DEF VaultInv, TypeOK, Goto
<1>1. Window(t) /\ Writes(t) /\ UNCHANGED <<call, answer, failed>>
  BY DEF Rename, Window, Locals
<1>2. loaded[t] = StoredRemotes
  BY <1>1 DEF Fresh
<1>3. Holders' = {}
  BY SweepsAll DEF Sweeps, Holders, Window
<1>4. /\ vault' = [key |-> key[t], remotes |-> Changed(loaded[t], call[t])]
      /\ vault' # NoFile
  BY DEF Rename, Locals
<1>5. StoredRemotes' = Changed(StoredRemotes, call[t])
  BY <1>2, <1>3, <1>4 DEF StoredRemotes, InFile
<1>6. Changed(StoredRemotes, call[t]) = RS!After(StoredRemotes, call[t])
  BY <1>1 DEF Writes, Changed, RS!After
<1>7. answer' = [answer EXCEPT ![t] = RS!Seen(StoredRemotes, call[t])]
  BY <1>1 DEF Writes, RS!Seen, Locals, Rename
<1>8. Statuses' = [Statuses EXCEPT ![t] = Status(t)']
  BY StatusStep DEF Step
<1>9. Status(t) \in {"pending", "exposed"} /\ Status(t)' = "done"
  BY DEF Rename, Status, Locals
<1> QED
  BY <1>1, <1>5, <1>6, <1>7, <1>8, <1>9 DEF RS!TakeEffect, Statuses

\* Giving up after the removal loses the map.
LEMMA AgainRefines ==
  ASSUME VaultInv, NEW t \in Thread, AgainFails(t), t \notin overtaken
  PROVE  RS!Lose(t)
<1> USE DEF VaultInv, TypeOK, Goto
<1>1. vault' = vault /\ vault = NoFile /\ UNCHANGED <<call, answer>>
  BY DEF AgainFails, GivesUp, Fresh, Window
<1>2. Holders' = {}
  BY SweepsAll DEF Sweeps, Holders, Window
<1>3. StoredRemotes' = RS!NoRemotes
  BY <1>1, <1>2 DEF StoredRemotes, InFile, NoRemotes, RS!NoRemotes
<1>4. Statuses' = [Statuses EXCEPT ![t] = Status(t)']
  BY StatusStep DEF Step
<1>5. Status(t) = "exposed" /\ Status(t)' = "failed"
  BY DEF AgainFails, GivesUp, Status
<1> QED
  BY <1>1, <1>3, <1>4, <1>5 DEF RS!Lose, Statuses

\* The other steps of a call.
LEMMA CalmRefines ==
  ASSUME VaultInv, NEW t \in Thread, Calm(t), ~Load(t)
  PROVE  RS!Next \/ UNCHANGED RS!vars
<1> USE DEF VaultInv, TypeOK, Goto
<1>1. StoredRemotes' = StoredRemotes
  BY CalmStores
<1>2. Statuses' = [Statuses EXCEPT ![t] = Status(t)']
  BY StatusStep DEF Step, Calm
<1>3. CASE Lock(t) \/ WriteTmp(t) \/ RenameFails(t) \/ RemoveFails(t)
  <2>1. Status(t)' = Status(t) /\ UNCHANGED <<call, answer>>
    BY <1>3 DEF Lock, WriteTmp, RenameFails, RemoveFails, Status
  <2> QED
    BY <1>1, <1>2, <2>1 DEF RS!vars, Statuses
<1>4. CASE LoadFails(t) \/ WriteTmpFails(t) \/ RetryFails(t)
  <2>1. Status(t) = "pending" /\ Status(t)' = "failed" /\ UNCHANGED <<call, answer>>
    BY <1>4 DEF LoadFails, AfterError, WriteTmpFails, RetryFails, GivesUp, Status
  <2>2. RS!Fail(t)
    BY <1>1, <1>2, <2>1 DEF RS!Fail, Statuses
  <2> QED
    BY <2>2 DEF RS!Next
<1>5. CASE Unlock(t)
  <2>1. Status(t) \in {"done", "failed"} /\ Status(t)' = "idle"
    BY <1>5 DEF Unlock, Status
  <2>2. RS!Return(t)
    BY <1>1, <1>2, <1>5, <2>1 DEF Unlock, NoCall, RS!Return, RS!NoCall, Statuses
  <2> QED
    BY <2>2 DEF RS!Next
<1> QED
  BY <1>3, <1>4, <1>5 DEF Calm

\* The removal exposes the map.
LEMMA RemoveRefines ==
  ASSUME VaultInv, NEW t \in Thread, RemoveVault(t), t \notin overtaken
  PROVE  RS!Expose(t)
<1>1. Status(t) = "pending" /\ Status(t)' = "exposed" /\ UNCHANGED <<call, answer>>
  BY DEF VaultInv, TypeOK, RemoveVault, Status, Goto
<1>2. Statuses' = [Statuses EXCEPT ![t] = Status(t)']
  BY StatusStep DEF Step
<1> QED
  BY <1>1, <1>2, RemovalKeeps DEF RS!Expose, Statuses

\* A death is a death, with the map or without it.
LEMMA CrashRefines ==
  ASSUME VaultInv, NEW p \in Proc, Crash(p)
  PROVE  RS!Next
<1> DEFINE S == {t \in Thread : ProcOf[t] = p}
<1>1. Statuses' = [t \in Thread |-> IF t \in S THEN "idle" ELSE Statuses[t]]
  BY DEF VaultInv, TypeOK, Crash, Statuses, Status
<1>2. /\ answer' = [t \in Thread |-> IF t \in S THEN {} ELSE answer[t]]
      /\ call' = [t \in Thread |-> IF t \in S THEN RS!NoCall ELSE call[t]]
  BY DEF Crash, NoCall, RS!NoCall
<1>3. \/ StoredRemotes' = StoredRemotes
      \/ StoredRemotes' = RS!NoRemotes /\ \E t \in S : Statuses[t] = "exposed"
  BY CrashStores DEF NoRemotes, RS!NoRemotes, Statuses, Status
<1>4. RS!Die(S)
  BY <1>1, <1>2, <1>3 DEF RS!Die, Statuses
<1> QED
  BY <1>4 DEF RS!Next

LEMMA InvokeRefines ==
  ASSUME VaultInv, NEW t \in Thread, NEW c \in Calls, NEW k \in KeysOf[ProcOf[t]], Invoke(t, c, k)
  PROVE  RS!Next
<1>1. \A u \in Thread \ {t} : Status(u)' = Status(u)
  BY DEF VaultInv, TypeOK, Invoke, Goto, Status
<1>2. Status(t) = "idle" /\ Status(t)' = "pending"
  BY DEF VaultInv, TypeOK, Invoke, Goto, Status
<1>3. Statuses' = [Statuses EXCEPT ![t] = "pending"]
  BY <1>1, <1>2 DEF Statuses
<1>4. c \in RS!Call
  BY DEF Call, RS!Call
<1>5. RS!Invoke(t, c)
  BY <1>2, <1>3, InvokeStores DEF Invoke, RS!Invoke, Statuses
<1> QED
  BY <1>4, <1>5 DEF RS!Next

LEMMA StepRefines ==
  VaultInv /\ [Next]_vars =>
      [RS!Next \/ \E t \in overtaken \cup overtaken' : Step(t)]_(RS!vars)
<1> SUFFICES ASSUME VaultInv, [Next]_vars
             PROVE  \/ RS!Next \/ UNCHANGED RS!vars
                    \/ \E t \in overtaken \cup overtaken' : Step(t)
  OBVIOUS
<1>1. ASSUME NEW t \in Thread, Step(t), t \notin overtaken \cup overtaken'
      PROVE  RS!Next \/ UNCHANGED RS!vars
  <2>1. CASE Load(t)
    BY <1>1, <2>1, LoadRefines DEF RS!Next
  <2>2. CASE Rename(t)
    BY <1>1, <2>2, RenameRefines DEF RS!Next
  <2>3. CASE AgainFails(t)
    BY <1>1, <2>3, AgainRefines DEF RS!Next
  <2>4. CASE RemoveVault(t)
    BY <1>1, <2>4, RemoveRefines DEF RS!Next
  <2> QED
    BY <1>1, <2>1, <2>2, <2>3, <2>4, CalmRefines DEF Step, Calm
<1>2. CASE UNCHANGED vars
  <2>1. StoredRemotes' = StoredRemotes /\ Statuses' = Statuses
    BY <1>2 DEF vars, StoredRemotes, Holders, InFile, Statuses, Status
  <2> QED
    BY <1>2, <2>1 DEF vars, RS!vars, Statuses
<1> QED
  BY <1>1, <1>2, InvokeRefines, CrashRefines DEF Next, Finished

-----------------------------------------------------------------------------
(* The theorems.                                                           *)

\* The vault's inductive invariant.
THEOREM VaultInvariant == Spec => []VaultInv
  BY InvInit, InvStep, PTL DEF Spec

\* What is in a file is always a sealed store, and every variable keeps its type.
THEOREM TypeCorrect == Spec => []TypeOK
<1>1. VaultInv => TypeOK
  BY DEF VaultInv
<1> QED
  BY <1>1, VaultInvariant, PTL

\* The vault implements the atomic map, for any number of processes, whatever fails
\* and whoever dies, but for the calls that another process's call has overtaken.
THEOREM ImplementsRemoteStore == Spec => RemoteStoreSpec
  BY InitRefines, StepRefines, VaultInvariant, PTL DEF Spec, RemoteStoreSpec

\* Only an overtaken writer can reseal the vault with another passphrase.
THEOREM PassphrasesAreKept == Spec => PassphraseIsKept
<1> DEFINE Kept == vault # NoFile /\ vault' # NoFile /\ vault'.key # vault.key
                     => \E t \in overtaken : Rename(t)
<1>1. VaultInv /\ Next => Kept
  <2> SUFFICES ASSUME VaultInv, Next, vault # NoFile, vault' # NoFile, vault'.key # vault.key
               PROVE  \E t \in overtaken : Rename(t)
    OBVIOUS
  <2>1. PICK t \in Thread : Rename(t)
    BY DEF Next, Step, Invoke, Lock, Load, LoadFails, WriteTmp, WriteTmpFails, RenameFails,
       RemoveVault, RemoveFails, RetryFails, AgainFails, GivesUp, Unlock, Crash, Finished, vars
  <2>2. vault' = [key |-> key[t], remotes |-> Changed(loaded[t], call[t])] /\ Window(t)
    BY <2>1 DEF VaultInv, Locals, Rename, Window
  <2> QED
    BY <2>1, <2>2 DEF VaultInv, Fresh
<1>2. VaultInv /\ [Next]_vars => [Kept]_vars
  BY <1>1
<1> QED
  BY <1>2, VaultInvariant, PTL DEF Spec, PassphraseIsKept

\* In one process nobody is ever overtaken.
LEMMA NobodyOvertaken ==
  ASSUME \A p, q \in Proc : p = q
  PROVE  /\ Init => overtaken = {}
         /\ TypeOK /\ overtaken = {} /\ [Next]_vars => overtaken' = {}
<1>1. Init => overtaken = {}
  BY DEF Init
<1>2. ASSUME TypeOK, overtaken = {}, [Next]_vars PROVE overtaken' = {}
  <2>1. \A p \in Proc : Overtaken(p) = {} /\ ~Missing(p)
    BY DEF Overtaken, Missing
  <2>2. ASSUME NEW t \in Thread, Step(t) PROVE overtaken' = {}
    BY <1>2, <2>1, <2>2 DEF Step, Lock, Load, LoadFails, WriteTmp, WriteTmpFails, Rename,
       RenameFails, RemoveVault, RemoveFails, RetryFails, AgainFails, Unlock
  <2>3. ASSUME NEW p \in Proc, Crash(p) PROVE overtaken' = {}
    BY <1>2, <2>1, <2>3 DEF Crash
  <2> QED
    BY <1>2, <2>2, <2>3 DEF Next, Invoke, Finished, vars
<1> QED
  BY <1>1, <1>2

\* The goroutines of a single process, which share one mutex, have the atomic map
\* without any exception.
THEOREM OneProcessIsAtomic ==
  ASSUME \A p, q \in Proc : p = q
  PROVE  Spec => RS!Spec
<1>1. VaultInv /\ overtaken = {} /\ (overtaken = {})' /\ [Next]_vars => [RS!Next]_(RS!vars)
  BY StepRefines
<1>2. Init => overtaken = {}
  BY NobodyOvertaken
<1>3. VaultInv /\ overtaken = {} /\ [Next]_vars => (overtaken = {})'
  BY NobodyOvertaken DEF VaultInv
<1> QED
  BY <1>1, <1>2, <1>3, InitRefines, VaultInvariant, PTL DEF Spec, RS!Spec
=============================================================================
