----------------------------- MODULE VaultFile -----------------------------
(***************************************************************************)
(* The encrypted vault file of pkg/vault: FileVault's SaveRemote,          *)
(* DeleteRemote, GetRemote and ListRemotes, as the daemon's request        *)
(* goroutines and the command line call them.                              *)
(*                                                                         *)
(* Every process has one FileVault and so one RWMutex; the file is shared. *)
(* A writer loads the whole store, changes one entry, writes a temporary   *)
(* file and renames it over the vault.  Processes may die between any two  *)
(* of these steps, and reading, writing, renaming and removing may fail.   *)
(***************************************************************************)
EXTENDS Naturals, FiniteSets

CONSTANTS
    Proc,             \* processes that use the vault file
    Thread,           \* their goroutines
    ProcOf,           \* the process of each
    Name, Profile, Nothing,
    Key,              \* passphrases
    KeysOf,           \* those a process may use: a daemon has one
    Calls,            \* bound: the calls they make
    NoFile,           \* no file of that name
    MaxCalls,         \* bound: calls
    MaxFaults,        \* bound: failures to read, write, rename and remove files
    MaxCrashes        \* bound: deaths of a process

ASSUME VaultAssumption ==
    /\ ProcOf \in [Thread -> Proc]
    /\ KeysOf \in [Proc -> SUBSET Key]
    /\ Key # {} /\ Nothing \notin Profile
    /\ MaxCalls \in Nat /\ MaxFaults \in Nat /\ MaxCrashes \in Nat

Remotes == [Name -> Profile \cup {Nothing}]
Call == [kind : {"save"}, name : Name, profile : Profile]
          \cup [kind : {"delete", "get"}, name : Name] \cup [kind : {"list"}]
\* A sealed store: it opens only with the passphrase it was sealed with.
Sealed == [key : Key, remotes : Remotes]
Answer == SUBSET (Name \X (Profile \cup {Nothing}))

ASSUME NoFileAssumption == NoFile \notin Sealed
ASSUME CallsAssumption  == Calls \subseteq Call

VARIABLES
    vault,      \* the file at filePath
    tmp,        \* the file <filePath>.tmp.<pid> of each process
    writer,     \* the goroutine holding a process's mutex, as a set
    readers,    \* the goroutines holding it for reading
    pc,         \* each goroutine's next step
    call, key,  \* what it was called with
    loaded,     \* the map loadStore returned
    answer,     \* what it will return
    failed,     \* ... with an error
    budget      \* what is left of the bounds

\* Auxiliary variable: calls that a call of another process has run into.
VARIABLE overtaken

locks == <<writer, readers>>
vars  == <<vault, tmp, locks, pc, call, key, loaded, answer, failed, budget, overtaken>>

NoRemotes == [n \in Name |-> Nothing]
\* What the variables of a goroutine hold between two calls.
NoCall  == [kind |-> "list"]
SomeKey == CHOOSE k \in Key : TRUE

Init ==
    /\ vault = NoFile
    /\ tmp = [p \in Proc |-> NoFile]
    /\ writer = [p \in Proc |-> {}]
    /\ readers = [p \in Proc |-> {}]
    /\ pc = [t \in Thread |-> "idle"]
    /\ call = [t \in Thread |-> NoCall]
    /\ key = [t \in Thread |-> SomeKey]
    /\ loaded = [t \in Thread |-> NoRemotes]
    /\ answer = [t \in Thread |-> {}]
    /\ failed = [t \in Thread |-> FALSE]
    /\ budget = [calls |-> MaxCalls, faults |-> MaxFaults, crashes |-> MaxCrashes]
    /\ overtaken = {}

Spend(what) == /\ budget[what] > 0
               /\ budget' = [budget EXCEPT ![what] = @ - 1]

Goto(t, next) == pc' = [pc EXCEPT ![t] = next]

Writes(t) == call[t].kind \in {"save", "delete"}

\* The writers of other processes that have loaded what process p changes now.
Overtaken(p) == {u \in Thread : ProcOf[u] # p /\ pc[u] \in {"write", "rename", "remove", "retry", "again"}}

-----------------------------------------------------------------------------
(* A call.                                                                 *)

Invoke(t, c, k) ==
    /\ pc[t] = "idle"
    /\ Spend("calls")
    /\ call' = [call EXCEPT ![t] = c]
    /\ key' = [key EXCEPT ![t] = k]
    /\ Goto(t, "lock")
    /\ UNCHANGED <<vault, tmp, locks, loaded, answer, failed, overtaken>>

Exclusive_ReadLock(t) == FALSE

\* SaveRemote and DeleteRemote take the mutex, the other two share it.
Exclusive(t) == Writes(t)

\* v.mu.Lock() and v.mu.RLock(): a writer that waits keeps new readers out.
Lock(t) ==
    LET p == ProcOf[t]
        waiting == {u \in Thread : ProcOf[u] = p /\ pc[u] = "lock" /\ Exclusive(u)}
    IN  /\ pc[t] = "lock"
        /\ writer[p] = {}
        /\ IF Exclusive(t)
             THEN /\ readers[p] = {}
                  /\ writer' = [writer EXCEPT ![p] = {t}]
                  /\ UNCHANGED readers
             ELSE /\ waiting = {}
                  /\ readers' = [readers EXCEPT ![p] = @ \cup {t}]
                  /\ UNCHANGED writer
        /\ Goto(t, "load")
        /\ UNCHANGED <<vault, tmp, call, key, loaded, answer, failed, budget, overtaken>>

Opens_Any(t) == TRUE
Opens(t) == vault \in {NoFile} \cup [key : {key[t]}, remotes : Remotes]
InFile == IF vault = NoFile THEN NoRemotes ELSE vault.remotes

\* A writer of another process has removed the vault and not yet replaced it.
Missing(p) == \E u \in Thread \ overtaken : ProcOf[u] # p /\ pc[u] = "again"

\* What GetRemote and ListRemotes make of the map.
Found(r, c) ==
    CASE c.kind = "get"  -> {<<n, r[n]>> : n \in {m \in {c.name} : r[m] # Nothing}}
      [] c.kind = "list" -> {<<n, Nothing>> : n \in {m \in Name : r[m] # Nothing}}
      [] OTHER           -> {}

\* loadStore; a missing file is an empty store.  Deleting a remote that is not
\* there ends here.
Load(t) ==
    /\ pc[t] = "load"
    /\ Opens(t)
    /\ loaded' = [loaded EXCEPT ![t] = InFile]
    /\ answer' = [answer EXCEPT ![t] = Found(InFile, call[t])]
    /\ Goto(t, IF Writes(t) /\ ~(call[t].kind = "delete" /\ InFile[call[t].name] = Nothing)
                 THEN "write" ELSE "unlock")
    /\ overtaken' = IF Missing(ProcOf[t]) THEN overtaken \cup {t} ELSE overtaken
    /\ UNCHANGED <<vault, tmp, locks, call, key, failed, budget>>

AfterError_StillLocked == "idle"

\* Where an error leads: the deferred Unlock.
AfterError == "unlock"

\* The passphrase does not open the file, or the file cannot be read or is damaged.
LoadFails(t) ==
    /\ pc[t] = "load"
    /\ \/ ~Opens(t) /\ UNCHANGED budget
       \/ Spend("faults")
    /\ failed' = [failed EXCEPT ![t] = TRUE]
    /\ Goto(t, AfterError)
    /\ UNCHANGED <<vault, tmp, locks, call, key, loaded, answer, overtaken>>

Changed_KeyGone(r, c) ==
    CASE c.kind = "save"   -> [r EXCEPT ![c.name] = c.profile]
      [] c.kind = "delete" -> [n \in Name \ {c.name} |-> r[n]]

Changed(r, c) ==
    CASE c.kind = "save"   -> [r EXCEPT ![c.name] = c.profile]
      [] c.kind = "delete" -> [r EXCEPT ![c.name] = Nothing]

\* saveStore seals the map and writes the temporary file.
WriteTmp(t) ==
    /\ pc[t] = "write"
    /\ tmp' = [tmp EXCEPT ![ProcOf[t]] =
                 [key |-> key[t], remotes |-> Changed(loaded[t], call[t])]]
    /\ Goto(t, "rename")
    /\ UNCHANGED <<vault, locks, call, key, loaded, answer, failed, budget, overtaken>>

WriteTmpFails(t) ==
    /\ pc[t] = "write"
    /\ Spend("faults")
    /\ failed' = [failed EXCEPT ![t] = TRUE]
    /\ Goto(t, "unlock")
    /\ UNCHANGED <<vault, tmp, locks, call, key, loaded, answer, overtaken>>

Rename(t) ==
    /\ pc[t] \in {"rename", "retry", "again"}
    /\ tmp[ProcOf[t]] # NoFile
    /\ vault' = tmp[ProcOf[t]]
    /\ tmp' = [tmp EXCEPT ![ProcOf[t]] = NoFile]
    /\ Goto(t, "unlock")
    /\ overtaken' = overtaken \cup Overtaken(ProcOf[t])
    /\ UNCHANGED <<locks, call, key, loaded, answer, failed, budget>>

\* The first rename fails: the code removes the vault file before the second one,
\* and goes on to that one if the removal fails as well.
RenameFails(t) ==
    /\ pc[t] = "rename"
    /\ Spend("faults")
    /\ Goto(t, "remove")
    /\ UNCHANGED <<vault, tmp, locks, call, key, loaded, answer, failed, overtaken>>

RemoveVault(t) ==
    /\ pc[t] = "remove"
    /\ vault' = NoFile
    /\ Goto(t, "again")
    /\ overtaken' = overtaken \cup (IF t \in overtaken THEN Overtaken(ProcOf[t]) ELSE {})
    /\ UNCHANGED <<tmp, locks, call, key, loaded, answer, failed, budget>>

RemoveFails(t) ==
    /\ pc[t] = "remove"
    /\ Spend("faults")
    /\ Goto(t, "retry")
    /\ UNCHANGED <<vault, tmp, locks, call, key, loaded, answer, failed, overtaken>>

\* The second rename fails too: the deferred Remove takes the temporary file, or
\* leaves it.
GivesUp(t) ==
    /\ Spend("faults")
    /\ tmp' \in {tmp, [tmp EXCEPT ![ProcOf[t]] = NoFile]}
    /\ failed' = [failed EXCEPT ![t] = TRUE]
    /\ Goto(t, "unlock")
    /\ UNCHANGED <<vault, locks, call, key, loaded, answer>>

\* The old vault is still there,
RetryFails(t) ==
    /\ pc[t] = "retry"
    /\ GivesUp(t)
    /\ UNCHANGED overtaken

\* or it is gone with every remote in it.
AgainFails(t) ==
    /\ pc[t] = "again"
    /\ GivesUp(t)
    /\ overtaken' = overtaken \cup Overtaken(ProcOf[t])

Unlock(t) ==
    /\ pc[t] = "unlock"
    /\ writer' = [writer EXCEPT ![ProcOf[t]] = @ \ {t}]
    /\ readers' = [readers EXCEPT ![ProcOf[t]] = @ \ {t}]
    /\ loaded' = [loaded EXCEPT ![t] = NoRemotes]
    /\ answer' = [answer EXCEPT ![t] = {}]
    /\ failed' = [failed EXCEPT ![t] = FALSE]
    /\ call' = [call EXCEPT ![t] = NoCall]
    /\ key' = [key EXCEPT ![t] = SomeKey]
    /\ overtaken' = overtaken \ {t}
    /\ Goto(t, "idle")
    /\ UNCHANGED <<vault, tmp, budget>>

Step(t) == \/ Lock(t) \/ Load(t) \/ LoadFails(t) \/ WriteTmp(t) \/ WriteTmpFails(t)
           \/ Rename(t) \/ RenameFails(t) \/ RemoveVault(t) \/ RemoveFails(t)
           \/ RetryFails(t) \/ AgainFails(t) \/ Unlock(t)

\* A process dies; its files stay.  It may be started again at once.
Crash(p) ==
    LET gone == {t \in Thread : ProcOf[t] = p}
        Reset(f, v) == [t \in Thread |-> IF t \in gone THEN v ELSE f[t]]
    IN  /\ \E t \in gone : pc[t] # "idle"
        /\ Spend("crashes")
        /\ pc' = Reset(pc, "idle")
        /\ loaded' = Reset(loaded, NoRemotes)
        /\ answer' = Reset(answer, {})
        /\ failed' = Reset(failed, FALSE)
        /\ writer' = [writer EXCEPT ![p] = {}]
        /\ readers' = [readers EXCEPT ![p] = {}]
        /\ call' = Reset(call, NoCall)
        /\ key' = Reset(key, SomeKey)
        /\ overtaken' = IF \E t \in gone : pc[t] = "again"
                          THEN (overtaken \cup Overtaken(p)) \ gone ELSE overtaken \ gone
        /\ UNCHANGED <<vault, tmp>>

Finished == /\ budget.calls = 0 /\ \A t \in Thread : pc[t] = "idle"
            /\ UNCHANGED vars

Next == \/ \E t \in Thread : \/ \E c \in Calls, k \in KeysOf[ProcOf[t]] : Invoke(t, c, k)
                             \/ Step(t)
        \/ \E p \in Proc : Crash(p)
        \/ Finished

Spec     == Init /\ [][Next]_vars
\* A goroutine that can go on is eventually scheduled.
FairSpec == Spec /\ \A t \in Thread : WF_vars(Step(t))

-----------------------------------------------------------------------------
(* Properties.                                                             *)

PC == {"idle", "lock", "load", "write", "rename", "remove", "retry", "again", "unlock"}

\* Every variable holds a value of its kind, and what is in a file is a sealed
\* store with a profile or nothing under every name.
TypeOK ==
    /\ vault \in Sealed \cup {NoFile}
    /\ tmp \in [Proc -> Sealed \cup {NoFile}]
    /\ writer \in [Proc -> SUBSET Thread] /\ readers \in [Proc -> SUBSET Thread]
    /\ pc \in [Thread -> PC]
    /\ call \in [Thread -> Call] /\ key \in [Thread -> Key]
    /\ loaded \in [Thread -> Remotes] /\ answer \in [Thread -> Answer]
    /\ failed \in [Thread -> BOOLEAN]
    /\ budget \in [calls : Nat, faults : Nat, crashes : Nat]
    /\ overtaken \subseteq Thread

\* Between the removal of the vault and the second rename the remotes are in
\* the memory of the writer alone.
Holders == {t \in Thread \ overtaken : pc[t] = "again"}
StoredRemotes ==
    IF Holders = {} THEN InFile ELSE loaded[CHOOSE t \in Holders : TRUE]

Status(t) ==
    CASE pc[t] = "idle" -> "idle"
      [] pc[t] = "again" -> "exposed"
      [] pc[t] = "unlock" -> IF failed[t] THEN "failed" ELSE "done"
      [] OTHER -> "pending"

RS == INSTANCE RemoteStore
        WITH remotes <- StoredRemotes, status <- [t \in Thread |-> Status(t)]

\* The calls of all processes are those of one atomic map: each takes effect at
\* one instant or not at all, the answers agree with that order, and only a writer
\* that has removed the old file can lose the store: a failing removal followed by
\* a failing rename leaves it as it was.  A call that a call of
\* another process has overtaken is outside this order: their mutexes differ.
RemoteStoreSpec ==
    RS!Init /\ [][RS!Next \/ \E t \in overtaken \cup overtaken' : Step(t)]_(RS!vars)

\* The passphrase that opens the vault changes only under a writer that another
\* process has overtaken: in all other cases a save with another one fails.
PassphraseIsKept ==
    [][vault # NoFile /\ vault' # NoFile /\ vault'.key # vault.key
         => \E t \in overtaken : Rename(t)]_vars

\* Every call returns: the mutex is released on every path, errors included.
CallsReturn == \A t \in Thread : (pc[t] # "idle") ~> (pc[t] = "idle")
=============================================================================
