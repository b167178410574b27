------------------------------ MODULE FileOps ------------------------------
(***************************************************************************)
(* One run of the command line's rm, cp or sync (cmd/unistorage: RunRm,    *)
(* RunCp, RunSync with ResolveTarget; pkg/sync: what Sync plans to do)     *)
(* over stores that another client changes meanwhile.                      *)
(*                                                                         *)
(* Every call on a driver is a step, and may fail.  Of sync only the plan  *)
(* is made here: which file goes where, and what is deleted.  SyncEngine   *)
(* runs such plans.  Empty directories are left out.                       *)
(***************************************************************************)
EXTENDS Paths, FiniteSets

CONSTANTS
    Store,       \* what drivers store in: directory trees and S3 buckets
    Tree,        \* those that are trees, with the local driver
    Disk,        \* the tree of targets that name no remote
    Bucket,      \* the bucket in the profiles of S3 remotes
    Conflicts,   \* the name DefaultConflictDir
    Dots,        \* the piece "..", at which names that contain it are cut
    PageSize,    \* the most objects that a bucket lists at once
    Setups,      \* the keys in each store at the start
    Commands,    \* the command lines
    MaxFaults,   \* bound: driver calls that fail
    MaxEdits     \* bound: changes by another client

\* A target as ParseTarget returns it: a path of a remote, or on the disk.
Target(s, path) == [store |-> s, path |-> path]
CommandLine(op, from, to, flags, conflicts) ==
    [op |-> op, from |-> from, to |-> to, flags |-> flags, conflicts |-> conflicts]

\* An object, and a copy of it that holds only the first units.
Sizes == 1..3
Content(k, size) == [of |-> k, size |-> size, kept |-> size]
Cut(c, size) == [c EXCEPT !.kept = size]

ASSUME FileOpsAssumption ==
    /\ Tree \subseteq Store /\ Disk \in Tree
    /\ \A c \in Commands : /\ c.op \in {"rm", "cp", "sync"}
                           /\ {c.from.store, c.to.store} \subseteq Store
    /\ PageSize \in Nat /\ MaxFaults \in Nat /\ MaxEdits \in Nat
    /\ Slash \in STRING /\ {Bucket, Conflicts, Dots} \subseteq STRING \ {Slash}

\* No name is just two dots: nothing leads to the directory above.
NoParent(path) ==
    \A i \in DOMAIN path : path[i] = Dots =>
        \/ i > 1 /\ path[i - 1] # Slash
        \/ i < Len(path) /\ path[i + 1] # Slash

\* ParseTarget trims the slash before the path of a remote.
ASSUME PathsAssumption ==
    \A c \in Commands : /\ IsPath(c.conflicts)
                        /\ \A t \in {c.from, c.to} :
                              /\ IsPath(t.path) /\ NoParent(t.path)
                              /\ t.store # Disk => ~BeginsWithSlash(t.path)

\* Keys begin with a name, those in a tree end with one, and no file of a tree is
\* also a directory.
ASSUME SetupsAssumption ==
    \A setup \in Setups, s \in Store :
       /\ IsFiniteSet(setup[s])
       /\ \A k \in setup[s] :
             /\ IsPath(k) /\ NoParent(k) /\ k # << >> /\ ~BeginsWithSlash(k)
             /\ s \in Tree => ~EndsInSlash(k) /\ \A j \in setup[s] : ~Inside(j, k)

VARIABLES
    objects,    \* objects[s][k] is the content under each key k of store s
    cmd,        \* the command line
    pc,         \* its next step
    src, dst,   \* its resolved endpoints
    todo,       \* the files it has listed and not come to
    entry,      \* the one it is copying, with its listed size
    body,       \* ... and what it has opened
    plan,       \* the tasks and deletions of a sync
    result,     \* what it returned
    before,     \* auxiliary: the keys there were in each store at the start
    edited,     \* auxiliary: the keys that another client has changed
    broken,     \* auxiliary: keys of objects that reached another bucket in part
    budget      \* what is left of the bounds

work == <<src, dst, todo, entry, body, plan>>
vars == <<objects, cmd, pc, work, result, before, edited, broken, budget>>

Keys(s) == DOMAIN objects[s]

\* In a tree a key may be that of a directory.
IsDirectory(s, k) == s \in Tree /\ (k = << >> \/ \E j \in Keys(s) : Inside(j, k))

NoEntry == [key |-> << >>, size |-> 0]
NoBody  == Content(<< >>, 0)
NoPlan  == [tasks |-> {}, deletes |-> {}]
Nowhere == [ok |-> FALSE]

Init ==
    /\ before \in Setups
    /\ objects = [s \in Store |-> [k \in before[s] |-> Content(k, 2)]]
    /\ cmd \in Commands
    /\ pc = "begin" /\ result = "none"
    /\ src = Nowhere /\ dst = Nowhere
    /\ todo = {} /\ entry = NoEntry /\ body = NoBody /\ plan = NoPlan
    /\ edited = {} /\ broken = {}
    /\ budget = [faults |-> MaxFaults, edits |-> MaxEdits]

Spend(what) == /\ budget[what] > 0
               /\ budget' = [budget EXCEPT ![what] = @ - 1]

Goto(next) == pc' = next /\ UNCHANGED result
Ends(r)    == pc' = "done" /\ result' = r

-----------------------------------------------------------------------------
(* ResolveTarget.  An endpoint is a driver, rooted somewhere in a store,    *)
(* and a prefix.                                                            *)

Endpoint(s, root, prefix, isDir) ==
    [ok |-> TRUE, store |-> s, root |-> root, prefix |-> prefix, isDir |-> isDir]

\* A path on the disk: an existing directory, an existing file, or, for a
\* destination, what is not there yet and can be made.
OnDisk(path, isDest, mustBeDir) ==
    LET p    == Clean(path)
        dir  == Endpoint(Disk, p, << >>, TRUE)
        file == Endpoint(Disk, Dir(p), Base(p), FALSE)
    IN  IF IsDirectory(Disk, p) THEN dir
        ELSE IF p \in Keys(Disk) THEN file
        ELSE IF ~isDest \/ \E j \in Keys(Disk) : Inside(p, j) THEN Nowhere
        ELSE IF mustBeDir \/ EndsInSlash(path) THEN dir ELSE file

\* The profile's bucket may be repeated in front of the path.
InBucket(path) ==
    IF path = <<Bucket>> THEN << >> ELSE TrimPrefix(path, <<Bucket, Slash>>)

Remote(s, path) ==
    LET prefix == IF s \in Tree THEN path ELSE InBucket(path)
    IN  Endpoint(s, << >>, prefix, prefix = << >> \/ EndsInSlash(prefix))

Resolve(target, isDest, mustBeDir) ==
    IF target.store = Disk THEN OnDisk(target.path, isDest, mustBeDir)
                           ELSE Remote(target.store, target.path)

-----------------------------------------------------------------------------
(* The drivers.                                                            *)

\* The local driver cleans a path, and puts it under its root.
KeyAt(ep, path) == IF ep.store \in Tree THEN Join(ep.root, Clean(path)) ELSE path

\* (Mutant.) The S3 driver cleans the prefix it lists.
ListPrefix_Cleaned(ep) == Clean(ep.prefix)

\* Both compare the prefix as a string, the local driver without its slash.
ListPrefix(ep) == IF ep.store \in Tree THEN Clean(ep.prefix) ELSE ep.prefix

\* The files that List finds; directories, and keys that look like one, are
\* listed too, and everybody leaves them out.
Listing(ep) ==
    LET below == {k \in Keys(ep.store) : Inside(k, ep.root) /\ ~EndsInSlash(k)}
        Name(k) == IF ep.root = << >> THEN k ELSE TrimPrefix(k, Append(ep.root, Slash))
    IN  {[key |-> Name(k), size |-> objects[ep.store][k].kept] :
            k \in {j \in below : HasPrefix(Name(j), ListPrefix(ep))}}

\* A bucket returns one page, and nobody asks for the next.
Pages(ep) == IF ep.store \in Tree \/ Cardinality(Listing(ep)) <= PageSize
             THEN {Listing(ep)}
             ELSE kSubset(PageSize, Listing(ep))

\* (Mutant.) Files are written without regard for the directories.
Blocked_Empty(s, k) == k = << >>

\* Nothing can be written at, or removed from, the key of a directory or one
\* beyond a file; a bucket has no empty key.
Blocked(s, k) == \/ k = << >>
                 \/ IsDirectory(s, k)
                 \/ s \in Tree /\ \E j \in Keys(s) : Inside(k, j)

\* The local driver refuses a path in which a name, below its root, has two dots.
Forbidden(ep, path) == ep.store \in Tree /\ Dots \in Range(path)

\* What it cannot write or remove.
Refuses(ep, path) == Forbidden(ep, path) \/ Blocked(ep.store, KeyAt(ep, path))

\* What Read finds, and Stat, but for directories.
Finds(ep, path) == ~Forbidden(ep, path) /\ KeyAt(ep, path) \in Keys(ep.store)

Without(s, k) == [objects EXCEPT ![s] = Restrict(@, Keys(s) \ {k})]
With(s, k, c) ==
    [objects EXCEPT ![s] = [j \in Keys(s) \cup {k} |-> IF j = k THEN c ELSE objects[s][j]]]

\* What Write may store of a stream whose size was announced.  The local driver
\* reads so much and makes an error of less; the S3 driver does that with small
\* objects, and stores all of the stream of a large one.
Stored(s, c, size) == (IF c.kept >= size THEN {Cut(c, size)} ELSE {})
                      \cup (IF s \in Tree THEN {} ELSE {c})

Works == UNCHANGED budget
\* A call fails, in general without effect.
Fault == Spend("faults") /\ UNCHANGED objects

-----------------------------------------------------------------------------
(* RunRm.                                                                  *)

Flag(f)   == f \in cmd.flags
Whole(ep) == Flag("recursive") \/ ep.isDir

RmBegin ==
    /\ pc = "begin" /\ cmd.op = "rm"
    /\ src' = Resolve(cmd.from, FALSE, FALSE)
    /\ CASE ~src'.ok                       -> Ends("error")
         [] src'.ok /\ Flag("dry-run")     -> Ends("ok")
         [] OTHER -> Goto(IF Whole(src') THEN "list"
                          ELSE IF Flag("force") THEN "last" ELSE "stat")
    /\ Works /\ UNCHANGED <<objects, dst, todo, entry, body, plan>>

\* os.Stat finds directories too.
RmStat ==
    /\ pc = "stat" /\ cmd.op = "rm"
    /\ LET k == KeyAt(src, src.prefix)
           found == /\ ~Forbidden(src, src.prefix)
                    /\ k \in Keys(src.store) \/ IsDirectory(src.store, k)
       IN  \/ Works /\ Goto("last") /\ found
           \/ Works /\ Ends("error") /\ ~found
           \/ Fault /\ Ends("error")
    /\ UNCHANGED <<objects, work>>

RmList ==
    /\ pc = "list" /\ cmd.op = "rm"
    /\ \/ Works /\ Goto("delete") /\ todo' \in Pages(src)
       \/ Fault /\ Ends("error") /\ UNCHANGED todo
    /\ UNCHANGED <<objects, src, dst, entry, body, plan>>

\* Delete is idempotent: a key that is not there is no error.
Deletes(path) == /\ Works /\ ~Refuses(src, path)
                 /\ objects' = Without(src.store, KeyAt(src, path))

\* A bucket may have deleted the object all the same.
DeleteFails(path) ==
    \/ Works /\ Refuses(src, path) /\ UNCHANGED objects
    \/ Fault
    \/ src.store \notin Tree /\ Spend("faults")
       /\ objects' = Without(src.store, KeyAt(src, path))

\* (Mutant.) rm goes on after every error.
Tolerated_Always == TRUE

Tolerated == Flag("force")

RmDelete(e) ==
    /\ pc = "delete" /\ e \in todo
    /\ \/ Deletes(e.key) /\ Goto("delete")
       \/ DeleteFails(e.key) /\ IF Tolerated THEN Goto("delete") ELSE Ends("error")
    /\ todo' = todo \ {e}
    /\ UNCHANGED <<src, dst, entry, body, plan>>

\* At the end of a recursive removal an error is only logged.
RmLast ==
    /\ \/ pc = "last"
       \/ pc = "delete" /\ todo = {}
    /\ \/ Deletes(src.prefix) /\ Ends("ok")
       \/ DeleteFails(src.prefix) /\ Ends(IF pc = "delete" THEN "ok" ELSE "error")
    /\ UNCHANGED work

Rm == RmBegin \/ RmStat \/ RmList \/ (\E e \in todo : RmDelete(e)) \/ RmLast

-----------------------------------------------------------------------------
(* RunCp.                                                                  *)

\* The path of a listed key below a prefix, and the path to it below another.
Relative(ep, key) == TrimPrefix(TrimPrefix(key, Clean(ep.prefix)), <<Slash>>)
\* (Mutant.) cp keeps the names of the files only.
Below_Flat(ep, rel) ==
    IF Clean(ep.prefix) = << >> THEN Base(rel) ELSE Clean(ep.prefix) \o <<Slash>> \o Base(rel)

Below(ep, rel) ==
    IF Clean(ep.prefix) = << >> THEN rel ELSE Clean(ep.prefix) \o <<Slash>> \o rel

CpBegin ==
    /\ pc = "begin" /\ cmd.op = "cp"
    /\ src' = Resolve(cmd.from, FALSE, FALSE)
    /\ IF ~src'.ok
       THEN UNCHANGED dst /\ Ends("error")
       ELSE /\ dst' = Resolve(cmd.to, TRUE, Whole(src'))
            /\ IF dst'.ok THEN Goto(IF Whole(src') THEN "list" ELSE "stat") ELSE Ends("error")
    /\ Works /\ UNCHANGED <<objects, todo, entry, body, plan>>

CpList ==
    /\ pc = "list" /\ cmd.op = "cp"
    /\ \/ Works /\ Goto("open") /\ todo' \in Pages(src)
       \/ Fault /\ Ends("error") /\ UNCHANGED todo
    /\ UNCHANGED <<objects, src, dst, entry, body, plan>>

\* Of a single file, the size comes from Stat.  (A directory's Stat succeeds,
\* and copying it fails later with nothing stored.)
CpStat ==
    /\ pc = "stat" /\ cmd.op = "cp"
    /\ LET k == KeyAt(src, src.prefix)
       IN  \/ /\ Works /\ Goto("open") /\ Finds(src, src.prefix)
              /\ todo' = {[key |-> src.prefix, size |-> objects[src.store][k].kept]}
           \/ Works /\ Ends("error") /\ UNCHANGED todo /\ ~Finds(src, src.prefix)
           \/ Fault /\ Ends("error") /\ UNCHANGED todo
    /\ UNCHANGED <<objects, src, dst, entry, body, plan>>

CpOpen(e) ==
    /\ pc = "open" /\ e \in todo
    /\ \/ /\ Works /\ Goto("write") /\ Finds(src, e.key)
          /\ body' = objects[src.store][KeyAt(src, e.key)]
       \/ Works /\ Ends("error") /\ UNCHANGED body /\ ~Finds(src, e.key)
       \/ Fault /\ Ends("error") /\ UNCHANGED body
    /\ entry' = e /\ todo' = todo \ {e}
    /\ UNCHANGED <<objects, src, dst, plan>>

Destination(key) ==
    IF Whole(src) THEN Below(dst, Relative(src, key))
    ELSE IF dst.isDir \/ dst.prefix = << >> THEN Base(key) ELSE dst.prefix

WriteWorks(k) ==
    \E c \in Stored(dst.store, body, entry.size) : objects' = With(dst.store, k, c)

\* The local driver may have removed the target, when it could not rename to it; a
\* bucket may have stored the object all the same.
WriteFails(k) ==
    \/ Fault
    \/ dst.store \in Tree /\ body.kept >= entry.size /\ Spend("faults")
       /\ objects' = Without(dst.store, k)
    \/ dst.store \notin Tree /\ Spend("faults") /\ WriteWorks(k)

\* A stream from a bucket breaks off, and the multipart upload to another takes
\* that for its end.
BreaksOff(k) ==
    /\ src.store \notin Tree /\ dst.store \notin Tree /\ Spend("faults")
    /\ \E size \in 1..(body.kept - 1) : objects' = With(dst.store, k, Cut(body, size))

CpWrite ==
    /\ pc = "write"
    /\ LET path == Destination(entry.key)  k == KeyAt(dst, path)
       IN  \/ /\ ~Refuses(dst, path)
              /\ \/ WriteWorks(k) /\ Works /\ Goto("open") /\ UNCHANGED broken
                 \/ BreaksOff(k) /\ Goto("open") /\ broken' = broken \cup {body.of}
                 \/ WriteFails(k) /\ Ends("error") /\ UNCHANGED broken
           \/ /\ Refuses(dst, path) \/ body.kept < entry.size
              /\ Works /\ Ends("error") /\ UNCHANGED <<objects, broken>>
    /\ entry' = NoEntry /\ body' = NoBody
    /\ UNCHANGED <<src, dst, todo, plan>>

CpEnd ==
    /\ pc = "open" /\ todo = {}
    /\ Ends("ok")
    /\ Works /\ UNCHANGED <<objects, work>>

Cp == \/ /\ CpBegin \/ CpList \/ CpStat \/ (\E e \in todo : CpOpen(e)) \/ CpEnd
         /\ UNCHANGED broken
      \/ CpWrite

-----------------------------------------------------------------------------
(* RunSync, and Sync up to the first transfer.                             *)

\* (Mutant.) The guard refuses equal locations only.
Loops_Equal(from, to) ==
    /\ from.store = to.store /\ from.store \in Tree
    /\ KeyAt(from, from.prefix) = KeyAt(to, to.prefix)

\* The relative path of key k, which is in dir, begins with two dots.
Dotted(k, dir) ==
    HasPrefix(IF dir = << >> THEN k ELSE TrimPrefix(k, Append(dir, Slash)), <<Dots>>)

\* The guard against recursive runs takes a relative path that begins with two
\* dots for one that leads out of the source.  Each endpoint has a driver of its
\* own, so two in one bucket are never the same driver.
Loops(from, to) ==
    /\ from.store = to.store /\ from.store \in Tree
    /\ LET a == KeyAt(from, from.prefix)  b == KeyAt(to, to.prefix)
       IN  a = b \/ (Inside(b, a) /\ ~Dotted(b, a))

SyncBegin ==
    /\ pc = "begin" /\ cmd.op = "sync"
    /\ src' = Resolve(cmd.from, FALSE, TRUE)
    /\ IF ~src'.ok
       THEN UNCHANGED dst /\ Ends("error")
       ELSE /\ dst' = Resolve(cmd.to, TRUE, TRUE)
            /\ IF dst'.ok /\ ~Loops(src', dst') THEN Goto("list") ELSE Ends("error")
    /\ Works /\ UNCHANGED <<objects, todo, entry, body, plan>>

SyncListSrc ==
    /\ pc = "list" /\ cmd.op = "sync"
    /\ \/ Works /\ Goto("plan") /\ todo' \in Pages(src)
       \/ Fault /\ Ends("error") /\ UNCHANGED todo
    /\ UNCHANGED <<objects, src, dst, entry, body, plan>>

\* The default conflict directory and that of the command line are left out, and
\* what begins like them.
InConflicts(rel) == HasPrefix(rel, <<Conflicts>>) \/ HasPrefix(rel, cmd.conflicts)

Sources == {e \in todo : ~InConflicts(Relative(src, e.key))}
Task(e) == [from |-> e.key, to |-> Below(dst, Relative(src, e.key)), size |-> e.size]

\* An error of List counts as an empty destination.
SyncListDst ==
    /\ pc = "plan"
    /\ \E listed \in Pages(dst) \cup {{}} :
          /\ IF listed \in Pages(dst) THEN Works ELSE Fault
          /\ plan' = [tasks   |-> {Task(e) : e \in Sources},
                      deletes |-> {e.key : e \in
                          {d \in listed : LET rel == Relative(dst, d.key)
                                          IN  /\ Flag("delete") /\ ~InConflicts(rel)
                                              /\ rel \notin {Relative(src, f.key) : f \in Sources}}}]
    /\ Ends("planned")
    /\ UNCHANGED <<objects, src, dst, todo, entry, body>>

Sync == SyncBegin \/ SyncListSrc \/ SyncListDst

-----------------------------------------------------------------------------
(* The whole.                                                              *)

\* Another client writes or deletes an object.
Edit(s, k) ==
    /\ pc # "done"
    /\ Spend("edits")
    /\ ~Blocked(s, k)
    /\ \/ objects' = Without(s, k)
       \/ \E size \in {1, 3} : objects' = With(s, k, Content(k, size))
    /\ edited' = edited \cup {<<s, k>>}
    /\ UNCHANGED <<pc, work, result, broken>>

Finished == pc = "done" /\ UNCHANGED vars

Next ==
    \/ /\ \/ (Rm \/ Sync) /\ UNCHANGED <<edited, broken>>
          \/ Cp /\ UNCHANGED edited
          \/ \E s \in Store : \E k \in UNION {setup[s] : setup \in Setups} : Edit(s, k)
       /\ UNCHANGED <<cmd, before>>
    \/ Finished

Spec == Init /\ [][Next]_vars

-----------------------------------------------------------------------------
(* Properties.                                                             *)

\* What a user takes a target for, and the files its listings may take in.
Named(target) ==
    Clean(IF target.store \in Tree THEN target.path ELSE InBucket(target.path))
Ever(s) == before[s] \cup {k \in UNION {setup[s] : setup \in Setups} : <<s, k>> \in edited}
Beginning(target) == {k \in Ever(target.store) : HasPrefix(k, Named(target))}

\* Nothing beside the target has a name that begins with it.
NoSiblings(target) ==
    \A k \in Beginning(target) : k = Named(target) \/ Inside(k, Named(target))
OnePage(target) == target.store \in Tree \/ Cardinality(Beginning(target)) <= PageSize
Overlap(from, to) == /\ from.store = to.store
                     /\ \/ Named(from) = Named(to)
                        \/ Inside(Named(from), Named(to)) \/ Inside(Named(to), Named(from))

\* The types; and in a tree nothing is a file and a directory.
TypeOK ==
    /\ \A s \in Store : \A k \in Keys(s) :
          /\ k # << >> /\ objects[s][k].size \in Sizes /\ objects[s][k].kept \in Sizes
          /\ s \in Tree => \A j \in Keys(s) : ~Inside(j, k)
    /\ pc \in {"begin", "stat", "list", "delete", "last", "open", "write", "plan", "done"}
    /\ result \in {"none", "ok", "error", "planned"}
    /\ (pc = "done") = (result # "none")
    /\ pc = "write" => entry # NoEntry
    /\ budget \in [faults : 0..MaxFaults, edits : 0..MaxEdits]

Removed(s) == Keys(s) \ DOMAIN objects'[s]
ByCommand  == budget'.edits = budget.edits

\* fileops.go:225-278: whatever is listed, and whatever fails, rm removes only what
\* its target says, and stays inside a directory of the disk and a bucket prefix
\* that ends in a slash.  (Elsewhere a recursive rm takes in all names that begin
\* like its target, see RmStaysInside.)  Sync's plan removes nothing, and cp only,
\* in a tree, the file that it was to replace, when it ends with an error: that is
\* the local driver's way to fail (local.go:172-181).
RemovesAreNamed ==
    [][ByCommand => \A s \in Store : \A k \in Removed(s) :
          /\ cmd.op = "rm" =>
                /\ s = cmd.from.store /\ ~Flag("dry-run")
                /\ HasPrefix(k, Named(cmd.from))
                /\ ~Whole(src) => k = Named(cmd.from)
                /\ \/ src.prefix = << >>
                   \/ s \notin Tree /\ EndsInSlash(src.prefix)
                   => k = Named(cmd.from) \/ Inside(k, Named(cmd.from))
          /\ cmd.op # "rm" =>
                /\ cmd.op = "cp" /\ pc = "write" /\ result' = "error"
                /\ s = cmd.to.store /\ s \in Tree
                /\ k = KeyAt(dst, Destination(entry.key))]_vars

\* cmd/unistorage/main.go:239, "Remove directories and their contents
\* recursively": rm removes its target and what is in it.
RmStaysInside ==
    [][ByCommand => \A s \in Store : \A k \in Removed(s) :
          k = Named(cmd.from) \/ Inside(k, Named(cmd.from))]_vars

\* fileops.go:244-277: an rm that reports success has removed its target, the one
\* object or all that is in the directory, although the last Delete of a recursive
\* one is not checked (so that an object beside a prefix a/ may stay); unless it was
\* told to ignore errors, somebody writes meanwhile, or a bucket lists more than one
\* page.
RmRemoves ==
    (cmd.op = "rm" /\ result = "ok" /\ ~Flag("dry-run") /\ ~Flag("force")
        /\ edited = {} /\ OnePage(cmd.from))
    => \A k \in Keys(cmd.from.store) :
          ~EndsInSlash(k) => IF Whole(src) THEN ~Inside(k, Named(cmd.from))
                                           ELSE k # Named(cmd.from)

\* Where a copy of source key k belongs.  (A single file copied into a directory
\* of a remote loses the directory: fileops.go:194-197 keeps the base name only.)
Belongs(k) ==
    IF Whole(src) THEN Join(Named(cmd.to), TrimPrefix(k, Append(Named(cmd.from), Slash)))
    ELSE IF dst.store = Disk /\ dst.isDir THEN Join(Named(cmd.to), Base(k))
                                          ELSE Named(cmd.to)
LosesDirectory == ~Whole(src) /\ dst.store # Disk /\ dst.isDir

\* fileops.go:137-221: a cp that reports success has made a whole copy of every
\* file in its source where it belongs, however listing, opening and writing are
\* interleaved with others' changes elsewhere; and an object is cut off only if
\* its source was changed, or its way from one bucket to another broke off, which
\* the S3 driver acknowledges (s3.go:291).  It is promised nothing when the destination overlaps
\* the source (nobody refuses that), or when siblings are taken in: what is copied
\* first may then become the source of what is copied next.  And the first is not
\* promised when a bucket lists more than one page.
CpCopies ==
    cmd.op = "cp" /\ ~Overlap(cmd.from, cmd.to) /\ NoSiblings(cmd.from) =>
       /\ \A s \in Store : \A k \in Keys(s) :
             objects[s][k].kept < objects[s][k].size
             => LET of == objects[s][k].of
                IN  of \in broken \/ \E t \in Store : <<t, of>> \in edited
       /\ (result = "ok" /\ edited = {} /\ ~LosesDirectory /\ OnePage(cmd.from))
          => \A k \in before[cmd.from.store] :
                (IF Whole(src) THEN Inside(k, Named(cmd.from)) /\ ~EndsInSlash(k)
                               ELSE k = Named(cmd.from))
                => /\ Belongs(k) \in Keys(cmd.to.store)
                   /\ LET c == objects[cmd.to.store][Belongs(k)]
                      IN  c = Content(k, 2) \/ (k \in broken /\ c.of = k)

\* sync.go:93-107, 133-198, 295-310: what is deleted begins with the name of the
\* destination, no two files go to one place, and in one tree no file of the
\* source is replaced or deleted, unless the source lies in the destination (the
\* guard looks in one direction only), or the destination in the source under a
\* name that begins with two dots (the guard misses it), or one side has siblings.
PlanSparesSources ==
    result = "planned" =>
        LET sources == {KeyAt(src, t.from) : t \in plan.tasks}
            targets == {KeyAt(dst, t.to) : t \in plan.tasks}
            deletes == {KeyAt(dst, k) : k \in plan.deletes}
        IN  /\ \A k \in deletes : HasPrefix(k, Named(cmd.to))
            /\ targets \cap deletes = {}
            /\ NoSiblings(cmd.from) => Cardinality(targets) = Cardinality(plan.tasks)
            /\ (/\ src.store = dst.store /\ src.store \in Tree
                /\ NoSiblings(cmd.from) /\ NoSiblings(cmd.to)
                /\ ~Inside(Named(cmd.from), Named(cmd.to))
                /\ Inside(Named(cmd.to), Named(cmd.from))
                   => ~Dotted(Named(cmd.to), Named(cmd.from)))
               => sources \cap (targets \cup deletes) = {}
=============================================================================
