---------------------------- MODULE LocalDriver ----------------------------
(***************************************************************************)
(* The local driver (pkg/storage/local): calls of WriteWithOptions, and    *)
(* beside them a client that lists in pages, deletes, or downloads as the  *)
(* daemon does, over one directory.                                        *)
(*                                                                         *)
(* A write fills a temporary file beside its target and renames it; when   *)
(* the rename fails, the target is removed and the rename tried again.     *)
(* Every call on the file system is a step, may fail, and may be the last  *)
(* one of its process.                                                     *)
(***************************************************************************)
EXTENDS Integers, FiniteSets, SequencesExt

CONSTANTS
    Keys,        \* keys are 1..Keys, in listing order
    Writers,     \* calls of WriteWithOptions are 1..Writers
    Jobs,        \* their arguments
    Requests,    \* what the client asks for
    Absent,      \* no file of that name
    MaxAttempts, \* attempts at the rename
    MaxFaults,   \* bound: failures of the file system
    MaxCrashes   \* bound: deaths of a writer's process

Key    == 1..Keys
Writer == 1..Writers

\* The file of a key, and the temporary file of a writer: the suffix sorts it
\* after the key it is for.
Name   == Key \X (0..Writers)
Target(k) == <<k, 0>>

\* Who wrote a file, nobody at the start, and how many units of its stream.
File == [by : 0..Writers, size : Nat]

\* len units come from the reader r, which then ends or fails; size is the
\* argument, -1 when unknown.
Job == [key : Key, len : Nat, ending : {"eof", "error"},
        size : Nat \cup {-1}, overwrite : BOOLEAN]
Request == [kind : {"get", "delete"}, name : Name] \cup [kind : {"list"}, max : Nat]

ASSUME LocalAssumption ==
    /\ Keys \in Nat \ {0} /\ Writers \in Nat /\ MaxAttempts \in Nat \ {0}
    /\ MaxFaults \in Nat /\ MaxCrashes \in Nat
    /\ Jobs \subseteq Job /\ Requests \subseteq Request
    /\ Absent \notin File

VARIABLES
    files,      \* the directory
    job,        \* the arguments of each write
    pc,         \* its next step
    attempt,    \* turns of the rename loop
    renameErr,  \* the writers whose rename has failed
    result,     \* what it returned
    request,    \* the arguments of the client
    step,       \* its next step
    unvisited,  \* names WalkDir has still to come to
    found,      \* results, before they are cut to a page
    token,      \* ContinuationToken of the page, <<0, 0>> for none
    listed,     \* the pages together
    header,     \* Content-Length
    body        \* the file that was opened

\* Auxiliary variables: read by properties and bounds, never by the code's steps.
VARIABLES
    steady,     \* names present since the client's listing began
    brief,      \* names present at some time since then
    late,       \* writers whose target was written by another since their check
    raced,      \* the client's object changed between Stat and Read
    leftover,   \* writers that died, or whose temporary file would not go
    budget      \* what is left of the bounds

writes == <<pc, attempt, renameErr, result>>
client == <<step, unvisited, found, token, listed, header, body>>
watch  == <<steady, brief, late, raced>>
vars   == <<files, job, writes, request, client, watch, leftover, budget>>

Tmp(w) == <<job[w].key, w>>
Own(w) == Target(job[w].key)
Present == {n \in Name : files[n] # Absent}

Init ==
    /\ files \in [Name -> {Absent, [by |-> 0, size |-> 1]}]
    /\ \A n \in Name : n[2] # 0 => files[n] = Absent
    /\ job \in [Writer -> Jobs]
    /\ pc = [w \in Writer |-> "check"]
    /\ attempt = [w \in Writer |-> 0] /\ renameErr = {}
    /\ result = [w \in Writer |-> "none"]
    /\ request \in Requests
    /\ step = "begin"
    /\ unvisited = {} /\ found = {} /\ token = <<0, 0>> /\ listed = << >>
    /\ header = -1 /\ body = Absent
    /\ steady = {} /\ brief = {} /\ late = {} /\ raced = FALSE /\ leftover = {}
    /\ budget = [faults |-> MaxFaults, crashes |-> MaxCrashes]

Spend(what) == /\ budget[what] > 0
               /\ budget' = [budget EXCEPT ![what] = @ - 1]

Goto(w, next) == pc' = [pc EXCEPT ![w] = next]
Ends(w, r)    == Goto(w, "done") /\ result' = [result EXCEPT ![w] = r]
Sets(n, f)    == files' = [files EXCEPT ![n] = f]

-----------------------------------------------------------------------------
(* A write.                                                                *)

Taken_Never(w) == FALSE

\* os.Stat finds the target of a write without Overwrite.
Taken(w) == ~job[w].overwrite /\ files[Own(w)] # Absent

\* The context may have ended, or the path be refused, before anything is done.
Check(w) ==
    /\ pc[w] = "check"
    /\ \/ ~Taken(w) /\ Goto(w, "create") /\ UNCHANGED result
       \/ Ends(w, "error")
    /\ UNCHANGED <<files, job, attempt, renameErr, request, client, leftover, budget>>

CreateTmp(w) ==
    /\ pc[w] = "create"
    /\ \/ Sets(Tmp(w), [by |-> w, size |-> 0]) /\ Goto(w, "copy")
          /\ UNCHANGED <<result, budget>>
       \/ Spend("faults") /\ Ends(w, "error") /\ UNCHANGED files
    /\ UNCHANGED <<job, attempt, renameErr, request, client, leftover>>

Tries_OneMore(w) == attempt'[w] <= MaxAttempts
\* Another turn of the rename loop.
Tries(w) == attempt'[w] < MaxAttempts

\* What StreamCopy takes from the reader, cut at the announced size.
Written(w) == IF job[w].size \in 0..job[w].len THEN job[w].size ELSE job[w].len

Complete_AnyLength(w) == job[w].size >= 0 \/ job[w].ending = "eof"

\* The announced size is reached, or there is none and the stream ends.
Complete(w) == IF job[w].size >= 0 THEN Written(w) = job[w].size
                                   ELSE job[w].ending = "eof"

AfterCopy_RemoveFirst == "remove"
AfterCopy == "rename"

\* The bytes go to the open file, which may have lost its name.
Copy(w) ==
    /\ pc[w] = "copy"
    /\ files' = IF files[Tmp(w)] = Absent THEN files
                ELSE [files EXCEPT ![Tmp(w)].size = Written(w)]
    /\ \/ Complete(w) /\ Goto(w, AfterCopy) /\ UNCHANGED budget
       \/ ~Complete(w) /\ Goto(w, "cleanup") /\ UNCHANGED budget
       \/ Spend("faults") /\ Goto(w, "cleanup")
    /\ UNCHANGED <<job, attempt, renameErr, result, request, client, leftover>>

Rename(w) ==
    /\ pc[w] = "rename"
    /\ files[Tmp(w)] # Absent
    /\ files' = [files EXCEPT ![Own(w)] = files[Tmp(w)], ![Tmp(w)] = Absent]
    /\ Ends(w, "ok")
    /\ UNCHANGED <<job, attempt, renameErr, request, client, leftover, budget>>

\* A rename fails when the temporary file is gone, or for reasons of the system.
RenameFails(w) ==
    /\ pc[w] = "rename"
    /\ \/ files[Tmp(w)] = Absent /\ UNCHANGED budget
       \/ files[Tmp(w)] # Absent /\ Spend("faults")
    /\ Goto(w, "remove") /\ renameErr' = renameErr \cup {w}
    /\ UNCHANGED <<files, job, attempt, result, request, client, leftover>>

AfterFailure_Gone == "done"

\* Where the last failure leads: the deferred cleanup.
AfterFailure == "cleanup"

\* The loop removes the target before it sleeps and tries again; the error of
\* os.Remove is dropped.
RemoveTarget(w) ==
    /\ pc[w] = "remove"
    /\ \/ Sets(Own(w), Absent) /\ UNCHANGED budget
       \/ Spend("faults") /\ UNCHANGED files
    /\ attempt' = [attempt EXCEPT ![w] = @ + 1]
    /\ Goto(w, IF Tries(w) THEN "rename" ELSE AfterFailure)
    /\ UNCHANGED <<job, renameErr, result, request, client, leftover>>

\* The deferred function closes and removes the temporary file.
Cleanup(w) ==
    /\ pc[w] = "cleanup"
    /\ Ends(w, "error")
    /\ \/ Sets(Tmp(w), Absent) /\ UNCHANGED <<leftover, budget>>
       \/ Spend("faults") /\ leftover' = leftover \cup {w} /\ UNCHANGED files
    /\ UNCHANGED <<job, attempt, renameErr, request, client>>

Write(w) == \/ Check(w) \/ CreateTmp(w) \/ Copy(w) \/ Rename(w)
            \/ RenameFails(w) \/ RemoveTarget(w) \/ Cleanup(w)

Crash(w) ==
    /\ pc[w] # "done"
    /\ Spend("crashes")
    /\ Ends(w, "crashed")
    /\ leftover' = leftover \cup {w}
    /\ UNCHANGED <<files, job, attempt, renameErr, request, client>>

-----------------------------------------------------------------------------
(* The client.                                                             *)

Asks(kind, now, next) == /\ request.kind = kind /\ step = now
                         /\ step' = next

\* os.Remove takes away any file; one that is not there is no error.
Delete ==
    /\ Asks("delete", "begin", "done")
    /\ Sets(request.name, Absent)
    /\ UNCHANGED <<job, writes, request, unvisited, found, token, listed, header, body,
                   leftover, budget>>

\* The handler's Stat, whose size becomes the Content-Length.
GetStat ==
    /\ Asks("get", "begin", IF request.name \in Present THEN "stream" ELSE "done")
    /\ request.name \in Present => header' = files[request.name].size
    /\ request.name \notin Present => UNCHANGED header
    /\ UNCHANGED <<files, job, writes, request, unvisited, found, token, listed, body,
                   leftover, budget>>

\* The response looks whole when the file has the announced length.  Of a longer
\* one net/http sends that much, or less.
Sends(f) == \/ f.size >= header /\ step' = "got"
            \/ f.size # header /\ step' = "broken"

\* Stream opens the file, which no later rename changes, and copies it.
GetStream ==
    /\ request.kind = "get" /\ step = "stream"
    /\ body' = files[request.name]
    /\ IF request.name \in Present THEN Sends(body') ELSE step' = "broken"
    /\ UNCHANGED <<files, job, writes, request, unvisited, found, token, listed, header,
                   leftover, budget>>

\* The order of the names: a key, then its temporary files, then the next key.
Before(m, n) == m[1] < n[1] \/ (m[1] = n[1] /\ m[2] < n[2])

\* WalkDir reads the directory at once ...
ListBegin ==
    /\ Asks("list", "begin", "visit")
    /\ unvisited' = Present /\ found' = {}
    /\ UNCHANGED <<files, job, writes, request, token, listed, header, body, leftover,
                   budget>>

\* ... and then looks at each entry in order; one that has gone is left out.
ListVisit ==
    /\ Asks("list", "visit", "visit")
    /\ \E n \in unvisited :
          /\ \A m \in unvisited \ {n} : Before(n, m)
          /\ unvisited' = unvisited \ {n}
          /\ found' = found \cup ({n} \cap Present)
    /\ UNCHANGED <<files, job, writes, request, token, listed, header, body, leftover,
                   budget>>

\* sort.Slice puts each name behind those that come before it.
Sorted(names) == [i \in 1..Cardinality(names) |->
    CHOOSE n \in names : Cardinality({m \in names : Before(m, n)}) = i - 1]

\* The results after the token, sorted by key.
Remaining == Sorted({n \in found : Before(token, n)})

NextToken_OneMore(rest) == rest[request.max + 1]
\* The last key of the page.
NextToken(rest) == rest[request.max]

\* A page is cut off the results; the caller asks for the next until the last.
ListPage ==
    /\ request.kind = "list" /\ step = "visit" /\ unvisited = {}
    /\ LET truncated == request.max > 0 /\ request.max < Len(Remaining)
       IN IF truncated
            THEN /\ listed' = listed \o SubSeq(Remaining, 1, request.max)
                 /\ token' = NextToken(Remaining)
                 /\ step' = "begin"
            ELSE /\ listed' = listed \o Remaining
                 /\ step' = "done"
                 /\ UNCHANGED token
    /\ UNCHANGED <<files, job, writes, request, unvisited, found, header, body, leftover,
                   budget>>

Client == Delete \/ GetStat \/ GetStream \/ ListBegin \/ ListVisit \/ ListPage

-----------------------------------------------------------------------------

Running(w) == pc[w] \notin {"check", "done"}

\* The auxiliary variables follow the directory.
Watch ==
    /\ IF step = "begin" /\ listed = << >>
         THEN steady' = Present' /\ brief' = Present'
         ELSE steady' = steady \cap Present' /\ brief' = brief \cup Present'
    /\ late' = late \cup {w \in Writer : /\ Running(w) /\ Running(w)'
                                         /\ files'[Own(w)] \notin {Absent, files[Own(w)]}}
    /\ raced' = (raced \/ (step = "stream" /\ files'[request.name] # files[request.name]))

Finished == /\ step \in {"done", "got", "broken"} /\ \A w \in Writer : pc[w] = "done"
            /\ UNCHANGED vars

Next == \/ /\ (\E w \in Writer : Write(w) \/ Crash(w)) \/ Client
           /\ Watch
        \/ Finished

Spec == Init /\ [][Next]_vars

-----------------------------------------------------------------------------
(* Properties.                                                             *)

PC == {"check", "create", "copy", "rename", "remove", "cleanup", "done"}

\* Every variable holds a value of its kind, and no write tries the rename more
\* often than it may.
TypeOK ==
    /\ files \in [Name -> File \cup {Absent}]
    /\ job \in [Writer -> Jobs] /\ pc \in [Writer -> PC]
    /\ attempt \in [Writer -> 0..MaxAttempts] /\ renameErr \subseteq Writer
    /\ result \in [Writer -> {"none", "ok", "error", "crashed"}]
    /\ request \in Requests
    /\ step \in {"begin", "visit", "stream", "done", "got", "broken"}
    /\ unvisited \subseteq Name /\ found \subseteq Name
    /\ token \in Name \cup {<<0, 0>>} /\ listed \in Seq(Name)
    /\ header \in Nat \cup {-1} /\ body \in File \cup {Absent}
    /\ steady \subseteq brief /\ brief \subseteq Name
    /\ late \subseteq Writer /\ raced \in BOOLEAN /\ leftover \subseteq Writer
    /\ budget \in [faults : Nat, crashes : Nat]
    /\ \A w \in Writer : pc[w] = "rename" => attempt[w] < MaxAttempts

\* The file a writer should make of its stream: nothing, if it ends early.
Whole(w) ==
    LET enough == IF job[w].size >= 0 THEN job[w].size <= job[w].len
                                      ELSE job[w].ending = "eof"
        size   == IF job[w].size >= 0 THEN job[w].size ELSE job[w].len
    IN  IF enough THEN {[by |-> w, size |-> size]} ELSE {}

Status(w) == CASE result[w] = "ok" -> "done"
               [] result[w] \in {"error", "crashed"} -> "failed"
               [] result[w] = "none" ->
                    IF w \in renameErr THEN "exposed" ELSE "pending"

OS == INSTANCE ObjectStore WITH
        Object  <- File,
        Remote  <- {},
        objects <- [k \in Key |-> files[Target(k)]],
        intent  <- [w \in Writer |-> [key |-> job[w].key, whole |-> Whole(w)]],
        status  <- [w \in Writer |-> Status(w)],
        deletes <- IF request.kind = "delete" /\ step = "begin"
                     THEN {k \in Key : Target(k) = request.name} ELSE {}

\* The directory implements ObjectStore: under a key there is the whole of one
\* write or nothing, whatever fails and whoever dies; an acknowledged write was
\* there; and only a write whose rename has failed takes an object away.
ObjectStoreSpec == OS!Spec

\* A write without Overwrite replaces only what another writer has put there
\* since it looked (local.go:107 is apart from the rename).
NoOverwriteIsChecked ==
    [][\A w \in Writer :
          result[w] = "none" /\ result'[w] = "ok" /\ ~job[w].overwrite
             /\ files[Own(w)] # Absent => w \in late]_vars

\* A temporary file is there, under a name that List returns, only while its
\* write runs, after a death, or when it could not be removed.
TempsAreCleared ==
    \A w \in Writer : pc[w] = "done" /\ Tmp(w) \in Present => w \in leftover

\* A listing in pages has every name at most once and in order, leaves out none
\* that was there all the time, and has none that never was.
WalkIsFaithful ==
    request.kind = "list" /\ step = "done" =>
        /\ \A i, j \in DOMAIN listed : i < j => Before(listed[i], listed[j])
        /\ steady \subseteq ToSet(listed)
        /\ ToSet(listed) \subseteq brief

\* The contents that a file of this name may have as a whole.
Stored(n) == {[by |-> 0, size |-> 1]} \cup UNION {Whole(w) : w \in {v \in Writer : Own(v) = n}}

\* A download that looks whole is an object somebody stored, unless the object
\* was replaced after its size was announced.
GetIsWhole ==
    step = "got" /\ request.name[2] = 0 =>
        \/ raced
        \/ body \in Stored(request.name) /\ body.size = header
=============================================================================
