# A TLA+ model of UniStorage

UniStorage is a command-line tool and a local daemon over storage backends (a
directory tree, S3-compatible buckets). This directory models the parts of it
whose behaviour depends on order: the synchronisation engine, the encrypted
vault, the daemon's cache of storage drivers, writes to S3, the local driver, the
daemon's start and stop, and the file commands. The modules are translated from
the Go source; `PROJECT.json` maps every definition to its lines.

## 1. The system

| Component | State | Operations | Talks to |
|---|---|---|---|
| Sync engine (`pkg/sync`) | listings, task channel, counters, one error | `Sync`, `Compare`, `BackupConflict` | two drivers |
| Sync targets (`pkg/sync/target.go`) | none | `ParseTarget` | – |
| Driver contract (`pkg/storage`) | – | List, Read, Write, Delete, Stat, Stream | – |
| Local driver (`pkg/storage/local`) | files under a root, temporary files | the same, with pages and no-overwrite writes | file system |
| Path sanitizer (`pkg/storage/local/sanitizer.go`) | canonical root | `Sanitize` | file system |
| S3 driver (`pkg/storage/s3`) | uploads in progress (in the bucket) | the same, multipart uploads, retries | S3 service |
| Vault (`pkg/vault`) | one encrypted file, one mutex per process | save, get, list, delete a remote | file system |
| Daemon remotes (`internal/daemon`) | cache of drivers, the vault | `GetDriver`, handlers on remotes | vault, drivers |
| Daemon object handlers (`internal/daemon`) | none of their own | GET, PUT, DELETE, HEAD on objects | `GetDriver`, driver |
| Daemon authentication (`internal/daemon`) | a token file | `initToken`, `securityMiddleware` | – |
| Daemon lifecycle (`cmd/unistorage/daemon_cmd.go`) | PID file | start, status, stop | processes |
| Command line (`cmd/unistorage`) | none | remote, ls, cp, rm, sync, daemon | all of the above |
| Entitlement (`pkg/entitlement`) | constants | feature checks | – |

### What is hard, and what correct means

**Sync.** Several workers take tasks from one channel and make up to five driver
calls for each; between two calls anybody may change either store, the backend
may fail, and the context may be cancelled. A run is correct when what it counts
as done is done, when it displaces nothing without a backup, when `--delete`
removes only orphans and only after complete success, when a dry run tells the
truth and touches nothing, and when it returns.

**Vault.** A save reads, changes and rewrites one file that every process shares,
under a mutex that only the goroutines of one process share. It is correct when
its calls are those of an atomic map, across failures and crashes.

**Daemon.** A cache of drivers stands in front of the vault, and is filled and
cleared in steps that other requests interleave with. It is correct when nobody
is served by a driver of a remote that is gone or has been replaced.

**Local driver.** Writes go to a temporary file, then rename; a failed rename
removes the target and retries. Pages are cut from a fresh walk each time. It is
correct when a path holds one whole write or nothing, a walk over the pages shows
what was there throughout, and temporary files do not stay.

**S3 driver.** Requests are retried although an answer may have been lost; a
multipart upload spans many requests and must be completed or aborted.

**Lifecycle.** A PID file stands for a process; parent, child and a second start
write and remove it without a lock. It is correct when the file names the daemon
that serves, stop stops that one and no other process, and status tells the truth.

**File commands.** `rm`, `cp` and `sync` turn a target into a driver and a prefix,
list, and act on each listed path. Prefixes are compared as strings, a bucket lists
one page, and the stores change meanwhile. They are correct when they touch what
their targets name, and all of it.

`PROJECT.json` lists the hazards at their lines, with the property that covers
each, or a note why none does.

## 2. The modules

| Module | Models |
|---|---|
| `SyncEngine` | `Sync`, `Compare`, `BackupConflict` over two stores |
| `SyncEngine_proofs` | proofs: what a run counts is done, what it displaces is backed up, what a nil error means, what `--delete` takes; of two runs, a dry run and the run it announces, two in checksum mode |
| `RemoteStore` | the abstract vault: an atomic map from names to profiles |
| `VaultFile` | `FileVault` in several processes: mutexes, load, temporary files, renames, crashes; implements `RemoteStore` |
| `VaultFile_proofs` | proofs: that it implements `RemoteStore`, and without an exception in one process |
| `DaemonRemotes` | `GetDriver`, the driver cache, the handlers on remotes, over the atomic map |
| `DaemonRemotes_proofs` | proofs: where cache and vault agree, and what a list is right about |
| `S3Upload` | the S3 driver's writes: single and multipart uploads under `ExecuteWithRetry`; implements `ObjectStore` |
| `S3Upload_proofs` | proofs: its invariant, that it implements `ObjectStore`, acknowledged writes were there, uploads are cleared |
| `ObjectStore` | the abstract driver, which both drivers implement: one whole object or none under each key |
| `LocalDriver` | the local driver's writes, and a client that lists, deletes or downloads; implements `ObjectStore` |
| `LocalDriver_proofs` | proofs: its invariant, that it implements `ObjectStore`, and what a walk over pages shows |
| `DaemonLifecycle` | `daemon start`, `stop`, `status`; the PID file, the token file, the addresses |
| `DaemonLifecycle_proofs` | proofs: what orderly commands can rely on; daemon and clients share a token |
| `NatSets_proofs` | least elements of sets of numbers, and induction over such sets, for the other proofs |
| `Paths` | string operations on paths |
| `FileOps` | `rm`, `cp`, and the planning of `sync`, over trees and a bucket |
| `FileOps_proofs` | proofs: of paths, and with them that `rm` and `cp` do what they name and all of it, and that a plan spares its source |
| `MC*` | option sets, call arguments, command lines and symmetries for TLC |

`VaultFile` and `DaemonRemotes` compose through `RemoteStore`: the first is shown
to provide a map whose calls are atomic, and the second takes one step for each
call of the vault. A save or deletion there may also fail and lose every remote
(`VaultIsLost`), which is `Lose` of `RemoteStore`. That composition relies on the
calls of one process being atomic (checked) and on the command line's changes being
seen whole (a rename). A call of the command line may undo changes of the daemon that it
has not seen, or lose the vault, so `CommandLine` puts any map there. The other way
round, a daemon's call that the command line overtakes between load and rename, which
`VaultFile` shows to undo the command line's change, is not taken up again in
`DaemonRemotes`.

`LocalDriver` and `SyncEngine` compose in the same way through `ObjectStore`: a
write is one step that replaces an object whole, fails, or, when its rename fails,
may lose the object (`WriteLosesTarget`); into a bucket it may also fail although
the object is there (`WriteUnanswered`). `FileOps` ends where `SyncEngine`
begins: it makes the tasks and deletions of a `sync` out of targets and listings,
and `SyncEngine` runs such a plan over abstract paths.

### SyncEngine

The state is the state of one call of `Sync`, and of the two stores around it.

| Variable | In the code |
|---|---|
| `kinds` | the drivers of the two stores, local or S3 |
| `src`, `dst` | the objects of both drivers, by relative path |
| `backups` | `.conflicts/<path>.<second>.conflict` |
| `phase` | where the main goroutine is |
| `srcList`, `destMap` | what the two `List` calls returned (`tasks`/`srcMap` and `destMap`) |
| `queue` | `taskChan` |
| `pc`, `at`, `size`, `stamp`, `buf` | a worker's next call, its task, and the locals of the calls |
| `taskErr`, `stats`, `result` | the error, the counters, what `Sync` returned |
| `toDelete` | the rest of the loop over `destMap` |
| `now` | the clock, in seconds |

Each driver call is one action, and what the code does up to the next call is part
of it. Local code between two calls reads only the worker's own variables, or
variables that are constant while workers run, so no interleaving is lost. Where
two calls see the same object at different times (`Stat` and `Read` of a backup,
`List` and `Read` of the source), the model has both.

Data: a content is a stream (`gen`) and how many units of it are there (`size`),
so that a write which stops at the announced size is visible. Sizes start at one.
Each counter of `SyncStats` is the set of the paths it counted. Paths are numbers
in listing order; the string operations on prefixes are in `FileOps`.

The two stores may be of either driver, and the drivers differ in what a run can see.
`Listed` is everything in a directory and the first `Page` objects of a bucket. A local
write, and a small one into a bucket, stores as much as was announced and makes an error
of a shorter stream (`TooShort`). An S3 write that announces more than `Threshold`
uploads parts until the stream ends (`InParts`), whatever was announced; and if the
stream comes from a bucket and breaks off, `io.ErrUnexpectedEOF` is taken for its end and
the part that came is stored and acknowledged (`Acknowledges`, `s3.go:291`). `cutOff`
records the copies and backups for which that has happened.

Failures: `Fails` is a call that fails because the context is cancelled or the
backend says no; `WriteLosesTarget` is a local write whose rename keeps failing
after it has removed the target; `WriteUnanswered` is a write into a bucket that was
stored, but whose answer did not come, and a deletion may fail in the same way
(`DeleteFails`). Somebody else's change (`EditSrc`, `EditDst`)
replaces or removes a whole object. A stream that has been opened keeps what it
was opened on, as an open file does after a rename and as one S3 answer does; an
edit in place of a file that is being read is outside the model.

`dstTouched`, `srcTouched`, `cutOff`, `previous` and `budget` are auxiliary: they
are read by properties and bounds only.

### RemoteStore and VaultFile

`RemoteStore` is what the `Vault` interface promises: a call is invoked, takes
effect at one instant or fails, and returns. The one weakness is explicit: a call
that is *exposed* (it has removed the old file) may lose every remote.

In `VaultFile`, `Lock` is `mu.Lock` or `mu.RLock`, with Go's rule that a waiting
writer keeps new readers out; `Load` is `loadStore`; `WriteTmp` and the renames
are `saveStore`; `Unlock` is the deferred unlock, which every path reaches. When the
first rename fails (`RenameFails`) the code removes the vault and drops the error of
that (`vault.go:251`): after `RemoveVault` the second rename stands between the remotes
and their loss (`AgainFails`), after `RemoveFails` its failure leaves the vault as it was
(`RetryFails`). A load may fail of the passphrase, or of a file that cannot be read or is
damaged (`LoadFails`).
Encryption is a record that opens only with its key. The temporary file is one
per process, as its name carries the PID. `Crash` ends all goroutines of a
process and leaves the files.

The refinement mapping takes the remotes from the file, except between the
removal of the vault and the second rename, when the writer's memory is the only
place they are in (`StoredRemotes`); a goroutine waiting to return is done or
failed, and one that has removed the file is exposed.

Every process has a mutex of its own, so the command line and the daemon can undo
each other's changes. `overtaken` holds the writers that have loaded a store which
another process has changed since, and the calls that loaded while another
process had the vault removed; until they return, their steps are outside the
order that `RemoteStoreSpec` requires of all other calls. With one process it is
empty, and the refinement has no exception. A daemon has one passphrase, a command
line any (`KeysOf`).

### DaemonRemotes

A request is a goroutine. `Peek`, `LoadRemote` and `Register` are the three
critical sections of `GetDriver`; `EraseRemote` and `Forget` the two of
`handleDeleteRemote`; `ListNames` and `ListOne` the calls of `handleListRemotes`.
A driver is represented by the profile it was made from. `VaultFails` is a vault call
that fails and changes nothing, `VaultIsLost` a save that fails after it has removed the
vault: all remotes are gone, their drivers are not. `CommandLine` is
`unistorage remote add` or `remove` in another process, `Restart` a daemon that
dies, also in the middle of a save, and is started again. `changed` and `suspect` are auxiliary: which names
changed during a request, and which cached drivers the daemon could not have kept
right.

### S3Upload

A writer is one call of `WriteWithOptions`; all writers have one key. `Start` is
the overwrite check, `Buffer` the three cases of the size, `FillPart` the loop's
`ReadFull`, `Abort` the deferred `AbortMultipartUpload`. One attempt at a request
is one step, `Answered`, `RequestFails` or `ContextEnds`, and `tries` is the
`attempt` of `ExecuteWithRetry`; a step that fails may have taken effect.
`AfterStream` and `AfterError` are where the loop leads when the stream, or a
request, has ended. An upload's identity is its writer and the attempt that
created it. The threshold and the part size are the same constant in the code
(16 MiB) and one `PartSize` here. An object is a sequence of units, each of which
names the writer it came from; `Zero` is what an empty stream leaves in a buffer.
The bucket (`TakesEffect`, `AlreadyComplete`) is external: a put and a completion
replace the object whole, parts are kept by number. `shown` is auxiliary: what each
writer has made of the object.

The mapping to `ObjectStore` has one key, and every writer is `Remote`. A writer is
*unanswered* once the object has been all that it sends and its call has not
returned: from then on it may write the same again, learn of its success, or fail
although the object is there.

### ObjectStore and LocalDriver

`ObjectStore` has what either driver keeps of the contract, and says where they keep
less: a local writer may *expose* the object (`Expose`, `Remove`), one across a network
may not know what it has done (`PutUnanswered`, `Learn`). The other alternative of each
is out of its reach: `Remote` is empty for `LocalDriver`, and no writer of `S3Upload`
is ever exposed.

`files` is one directory: a name is a key and 0 for the object, or a key and a
writer for that writer's temporary file, whose suffix sorts it after the object.
`job` holds the arguments of each `WriteWithOptions`: how much the reader has,
whether it then ends or fails, the announced size, `Overwrite`. `Check`,
`CreateTmp`, `Copy`, `Rename`, `RenameFails`, `RemoveTarget` and `Cleanup` are its
calls on the file system; each may fail, and `Crash` ends the process after any.
The client makes one request: `Delete`, a download as the daemon's handler does it
(`GetStat`, then `GetStream`), or a listing in pages (`ListBegin` and `ListVisit`
are `WalkDir`, `ListPage` cuts the page and sets the token). A download may name
any object; a deletion may hit a temporary file, since listings return them.

The mapping to `ObjectStore` takes the files of the keys; a writer is *exposed*
once its rename has failed, as the loop then removes the target before it tries
again. `steady`, `brief`, `late`, `raced` and `leftover` are auxiliary: the names
present throughout a listing and at some time in it, the writers that were
overtaken after their check, whether the object changed under a download, and the
temporary files nobody will remove.

### DaemonLifecycle

Processes are numbered in the order of their starts; the number is the PID. `pc`
is where a daemon is in `runDaemonStart`, `Server.Start` and `initToken`, and
`launcher` where the parent is that spawned it, for a start in the background.
`pidFile`, `tokenFile`, `home` (the configuration directory) and `bound` (who
listens where) are what processes share. `os.WriteFile` empties the file before it
writes, so that a failure, or a death in the middle, leaves it as it was or without a PID
(`HalfWritten`, `Empty`); a write that succeeds is one step. `Crash` is a signal, which
skips the deferred removal of the PID file; the daemon installs no handler. `stop` reads
the PID (`StopReads`), kills whoever has it, sleeps, and removes the file; a PID whose
daemon has ended may belong to a stranger by then. From a file without a PID it
concludes that the daemon has stopped, and removes it (`StopDiscards`). `status` asks
the address it was given and then the default one, within three seconds for both, and
asks nobody if there is no PID (`StatusReads`). What the commands drop or log only may
fail in the model: reading, killing, removing (`KillFails`, and in `ReadPid`, `StopEnds`,
`RemovePid`), and a probe of an address where somebody listens (`ProbeFails`).

`orderly`, `raced`, `outrun`, `uncleared`, `nameless`, `killed`, `strangers` and
`hindered` are auxiliary: daemons whose PID stayed in the file when they ended
(`uncleared`), or whose PID was lost while they went on (`nameless`), and commands of
which a call failed (`hindered`). Most properties are about orderly use, in which no start or command begins beside
another and no start beside a daemon, and say what else can be relied on.

### Paths and FileOps

A path is a sequence of pieces. Names are cut where one name begins another, so
that `temp-old/x` begins with the string `temp` without being in the directory
`temp`: that is the distinction the code's `strings.HasPrefix` does not make.

`FileOps` is one command over stores: two trees (the disk and a local remote) and a
bucket. `Resolve` is `ResolveTarget`: an endpoint is a store, the root of its
driver and a prefix. `RmBegin` to `RmLast`, `CpBegin` to `CpEnd` and `SyncBegin` to
`SyncListDst` follow `RunRm`, `RunCp` and `RunSync` call by call; each driver call
is a step that may fail, and another client writes between them (`Edit`).
`Listing` and `Pages` are what `List` returns: everything below the prefix as a
string in a tree, the first page in a bucket (TLC tries every page, as the order of
keys is left open). `Stored` is what a write makes of a stream that is shorter or longer
than announced: the local driver and small S3 objects stop at the size, a multipart
upload takes the stream as it is (checked in detail in `S3Upload`). `BreaksOff` is a
stream from one bucket to another that ends early and is acknowledged. A failing write
may have removed its target in a tree, or stored it in a bucket (`WriteFails`); a failing
deletion may have deleted from a bucket (`DeleteFails`).

A name with two dots in it is cut there too (`Dots`), as the code looks at them in two
places. The local driver refuses such a path, though it lists the file (`Forbidden`). And
the guard of `Sync` takes a relative path that begins with two dots for one that leads
out of the source, so that a destination like `..backup` inside the source passes it
(`Loops`, `Dotted`). Paths through `..` itself are left out (`NoParent`).

`before`, `edited` and `broken` are auxiliary; `broken` are the objects that reached
another bucket in part.

## 3. The runs

| Run | Question | Bounds |
|---|---|---|
| `sync_run` | one run: are files counted, backed up, deleted rightly? | directories and buckets, 2 paths, 2 workers, 2 sizes, pages of 1, multipart uploads of 2 units; 1 edit, 1 fault, 1 cancellation |
| `sync_again` | two runs: dry-run truth, checksum stability, termination | from a directory or a bucket into a bucket, 2 paths, 2 workers, 2 sizes, pages of 1, multipart uploads of 2 units; 1 tick, 1 fault |
| `sync_resync` | *violated*: a second default run skips what has not changed | 1 path, 1 worker |
| `sync_list_fails` | *violated*: a displaced file has a backup | 1 path, 1 fault |
| `vault_calls` | is the vault an atomic map, and what do two processes lose? does every call return? | 2 goroutines of the daemon and the command line, 2 names, 2 passphrases, 3 calls, 3 faults, 1 crash |
| `daemon_cache` | where may cache and vault differ? is the list right? | 3 requests, 2 names, 3 profiles (1 unusable), 1 CLI change, 1 fault, 1 restart |
| `s3_write` | does it implement `ObjectStore`, whatever is lost and retried? | 2 writers, 9 kinds of stream of up to 1.5 parts, 1 retry, 1 cancellation, 1 crash |
| `local_driver` | the same of a file; are listings and downloads right beside writes? | 2 keys, 2 writers, 5 kinds of write, 4 kinds of request, 2 rename attempts, 2 faults, 1 crash |
| `daemon_life` | what can one rely on of PID file, token and reports? | 2 starts, 1 stop, 1 status, 2 addresses, 1 failure |
| `daemon_stop` | *violated*: stop finds the daemon that is running | 2 starts, 1 stop, 1 address, no failure |
| `file_ops` | do `rm`, `cp` and `sync` touch what their targets name? | 30 command lines, 3 stores, 2 setups, pages of 2; 2 edits, 2 faults |
| `rm_siblings` | *violated*: `rm -r` stays in the directory it names | 1 command line, no failure |

What the passing runs show:

- `SettledAgree`: whatever was counted as transferred, updated, or skipped by
  checksum agrees on both sides, in every schedule and however the run ended,
  unless somebody else touched it: the copy is the whole file, or, between two buckets,
  the part that came before the stream broke off, which the engine cannot
  tell. `NilMeansAllSettled`: a nil error without a
  cancellation means that no task was lost, although failing workers leave.
  With a cancellation it does not: workers drop their tasks silently.
- `ListedIsBackedUp`: a listed destination file is replaced, or lost by a failing
  write, only after its content is in the conflict directory, whole unless the stream of
  the backup itself broke off.
- `DeletesOnlyOrphans`: `--delete` waits for complete success, and removes only
  what the source does not have, or, of a bucket with more than one page, did not list.
- `DryRunIsPure`, `DryRunPredicts`: a dry run touches nothing, and its statistics
  are those of the real run after it.
- `ChecksumResyncIsQuiet`: in checksum mode a second run replaces nothing but what the
  first has cut off. In the
  default mode it does, which is the first finding.
- `RemoteStoreSpec`, `CallsReturn`: the vault implements the atomic map, except
  for calls overtaken by another process; only a call that has removed the old file
  can lose the store; every error path releases the mutex.
  `PassphraseIsKept`: a vault is resealed with another passphrase only in such a
  race.
- `CacheAgrees`: names every way the cache can be stale: POST on a cached remote, the
  command line, a save that fails and loses the vault, and a `GetDriver` that
  registers after a change; and, while it lasts, a DELETE between its two steps. `ListIsFaithful`: a listing is right about what did not change.
- `ObjectStoreSpec` of `S3Upload`: nobody reads a part of a write, or a mixture of
  two; a stream that fails after its first part leaves the object alone; no call
  writes after it has returned. `AckedIsStored`: a nil
  error means that the whole stream was the object, although answers were lost;
  the converse does not hold, as an error may follow a success whose answer was
  lost. `UploadsAreCleared`: the only uploads left are those whose id never
  arrived, whose abort failed, or whose process died. `WriteReturns`: no chain of
  failures keeps a call going.
- `ObjectStoreSpec` of `LocalDriver`: under a path there is one whole write or nothing, whoever
  fails or dies, and only a write whose rename has failed takes an object away.
  `NoOverwriteIsChecked`: the check before a write without overwrite is lost only
  to a write in between. `TempsAreCleared`: a temporary file stays only after a
  death or a failing removal. `WalkIsFaithful`: a walk over pages, each from a walk
  of its own, repeats nothing, shows what was there throughout and nothing that
  never was. `GetIsWhole`: a download that looks complete is an object somebody
  stored, unless it was replaced between its `Stat` and its `Read`.
- `OrderlyIsNamed`, `OrderlyStopStops`, `OrderlyStatus`, `OrderlyStartServes`: when
  commands do not overlap, the PID file names the daemon, stop leaves none, status
  tells the truth, and a start succeeds unless the configuration directory is
  missing in the background. The exceptions are failures the code drops: a daemon may
  go on without a name after its launcher failed to write the file or a stop to kill it,
  and a command of which a call failed may be wrong. `StrangersAreSpared`: how a stop may come to kill
  another process. `TokenIsShared`: daemon and clients agree on the token, unless
  two first starts overlapped or one could not read the file.
- `RemovesAreNamed`: `rm` removes where its target says, inside a directory
  only if that is the root of its driver, or a bucket prefix with its slash; besides it
  only a `cp` that fails removes anything, the file of a tree that it was to replace.
  `RmRemoves`: an `rm` that reports success has removed everything. `CpCopies`: a
  `cp` that reports success has made a whole copy of every file where it belongs.
  `PlanSparesSources`: no plan of a `sync` replaces or deletes its own source, or
  sends two files to one place. Their exceptions are the places where the code is
  weaker than one expects: names that begin alike, a bucket of more than one page,
  overlapping endpoints that nothing refuses, a source inside the destination,
  a destination inside the source under a name that begins with two dots, a stream that
  breaks off between two buckets, and a single file that is copied into a remote directory and lands
  at the root (`fileops.go:194`).

### Why the bounds are enough

Two paths and two workers give every relation between two tasks (both pending,
one failing while the other copies, one deleted while the other is kept); tasks do
not interact in larger groups, as each owns its path, which `TasksOwned` states
and the proof uses for any number. Two sizes distinguish a cut-off copy from a
whole one, and above and at the multipart threshold have both kinds of an S3 write. A
page of one object cuts a listing of two. Clocks of 0 to 2 reach
both sides of the one-second tolerance. One fault is enough for an error path.
In `s3_write` any request may fail; one
retry distinguishes a request sent once, sent again, and given up, and a stream of
one part and a half has a full part, a short one, and an end in between. The two
goroutines of the daemon wait for each other, and the command line waits for
neither; three faults reach the failing second rename after a failing removal.

In `local_driver` two writers of one key and of two keys meet; two rename attempts
have a first failure and a last one (the code has twenty, and treats those between
alike); pages of one name cut everywhere. The kinds of write are the announced size that
is there, cuts the stream, or is missing, and the unknown size of a stream that
ends or fails. In `daemon_life` two daemons suffice for one to overwrite and remove
the other's file, and one failure for each error path. In `file_ops` the setups
have names that begin alike, a file and a directory of one name in the bucket, and
more objects than a page; two command lines copy a directory into itself and beside
itself, and others reach the names with two dots. Two edits delete and write again, and two faults are a tolerated error
followed by another.

The violated runs use the smallest instances that show their traces.

`sync_again` leaves out edits: `previous` is emptied by them, so they add states
and no question. Its clock advances once, so copies, backups and the two runs fall
into the same second or into different ones.

Symmetry is used in `daemon_cache` only, where requests and usable profiles are
interchangeable and no liveness is checked.

Deadlock is checked in every run: the models stop only in `Finished`, when no
run, call, command or request is left, or in `Idle`, when daemons serve and nobody
calls.

### Fairness

`SyncEngine`: weak fairness of the main goroutine and of each worker. A goroutine
that can run is run by the Go scheduler, and driver calls return: the S3 client
and the file system answer or fail. Nothing is assumed of the environment.
`VaultFile`: weak fairness of each goroutine; `RWMutex` admits a waiting reader
after a writer and a waiting writer before new readers, and the number of calls
is bounded. `DaemonRemotes` states no liveness.
`S3Upload`: weak fairness of each writer; an HTTP request is answered or fails, and
the reader delivers or ends. Nothing is assumed about which of the two a request
does.
`LocalDriver`, `DaemonLifecycle` and `FileOps` state no liveness: a call is a
bounded sequence of steps that waits for nobody, and the deadlock check shows that
none of its steps is stuck.

## 4. The proofs

Every theorem holds for all values of the constants that meet the assumptions of
its module: positive counts and bounds, clocks in their range, a set of passphrases
that is not empty, and values for *no file*, *no object* and *nothing* that are not
files, objects or profiles. The bounds on runs, faults and edits are arbitrary
numbers there, so the theorems speak of executions of any length. Those about `FileOps`
assume of the stores what file systems and the daemon's clients give them
(`SetupsAssumption`: finitely many files, none inside another file of a tree, none named
by two dots) and of the command line what `ParseTarget` leaves of it, without paths
through `..` (`PathsAssumption`).

| Module | Theorem | Establishes |
|---|---|---|
| `SyncEngine_proofs` | `SyncInvariant` | `Spec => []SyncInv`, the inductive invariant |
| | `TypeCorrect` | `Spec => []TypeOK` |
| | `SettledFilesAgree` | `Spec => []SettledAgree` |
| | `ReplacedFilesAreBackedUp` | `Spec => ListedIsBackedUp` |
| | `DryRunsArePure` | `Spec => DryRunIsPure` |
| | `EndInvariant` | `Spec => []EndInv`, the invariant of how a run ends |
| | `NilIsComplete` | `Spec => []NilMeansAllSettled` |
| | `DeletionsAreOrphans` | `Spec => DeletesOnlyOrphans` |
| | `ChecksumIsStable` | `Spec => []ChecksumResyncIsQuiet` |
| | `DryRunsPredict` | `Spec => []DryRunPredicts` |
| `LocalDriver_proofs` | `LocalInvariant` | `Spec => []LocalInv`, the inductive invariant |
| | `NoTempsAreLeft` | `Spec => []TempsAreCleared` |
| | `DownloadsAreWhole` | `Spec => []GetIsWhole` |
| | `ChecksHold` | `Spec => NoOverwriteIsChecked` |
| | `ImplementsObjectStore` | `Spec => ObjectStoreSpec`, the refinement |
| | `WalkInvariant` | `Spec => []WalkInv`, the inductive invariant of a listing in pages |
| | `TypeCorrect` | `Spec => []TypeOK` |
| | `WalksAreFaithful` | `Spec => []WalkIsFaithful` |
| `VaultFile_proofs` | `VaultInvariant` | `Spec => []VaultInv`, the inductive invariant |
| | `TypeCorrect` | `Spec => []TypeOK` |
| | `ImplementsRemoteStore` | `Spec => RemoteStoreSpec`, the refinement |
| | `PassphrasesAreKept` | `Spec => PassphraseIsKept` |
| | `OneProcessIsAtomic` | with one process, `Spec` implements `RemoteStore` without an exception |
| `DaemonRemotes_proofs` | `RemotesInvariant` | `Spec => []RemotesInv`, the inductive invariant |
| | `TypeCorrect` | `Spec => []TypeOK` |
| | `CacheIsRight` | `Spec => []CacheAgrees` |
| | `ListsAreFaithful` | `Spec => []ListIsFaithful` |
| `S3Upload_proofs` | `UploadInvariant` | `Spec => []UploadInv`, the inductive invariant |
| | `TypeCorrect` | `Spec => []TypeOK` |
| | `ImplementsObjectStore` | `Spec => ObjectStoreSpec`, the refinement |
| | `AcksAreStored` | `Spec => []AckedIsStored` |
| | `UploadsAreNotLeft` | `Spec => []UploadsAreCleared` |
| `DaemonLifecycle_proofs` | `LifeInvariant` | `Spec => []LifeInv`, the inductive invariant |
| | `TypeCorrect` | `Spec => []TypeOK` |
| | `TheFileNamesTheDaemon` | `Spec => []OrderlyIsNamed` |
| | `StrangersLive` | `Spec => []StrangersAreSpared` |
| | `StartsServe` | `Spec => []OrderlyStartServes` |
| | `StopsStop` | `Spec => OrderlyStopStops` |
| | `StatusTellsTheTruth` | `Spec => OrderlyStatus` |
| | `TokensAreShared` | `Spec => []TokenIsShared` |
| `FileOps_proofs` | `FileInvariant` | `Spec => []FileInv`, the inductive invariant |
| | `TypesAreKept` | `Spec => []TypeOK` |
| | `RemovalsAreNamed` | `Spec => RemovesAreNamed` |
| | `FilesAreRemoved` | `Spec => []RmRemoves` |
| | `FilesAreCopied` | `Spec => []CpCopies` |
| | `PlansAreSafe` | `Spec => []PlanSparesSources` |

**Files of a run.** None of the properties of `SyncEngine` is inductive. That a
finished task leaves the two sides equal needs that the worker's stream is the
file's whole content (`StreamsOpen`) and that the listing, whose size is announced,
is still true of untouched files (`SourceSeen`). That it stays so, and that a backup
stays the backup of the file about to be replaced (`BackupsReady`), needs that no
other worker touches the path: `TasksOwned` says that a task belongs to the channel,
to one worker, or to the statistics. Even `TypeOK` needs them: a write copies from a
stream that must be open. `SyncInv` is the conjunction, and TLC checks it in
`sync_run`.

The proof has one lemma for each group of actions (`StartInv`, `MainInv`,
`WorkerInv`, `EnvironmentInv`). For a worker's step, `WorkerFrames` states what
every such step leaves alone, `OthersInv` derives that the conjuncts of the other
workers survive, and `WorkerInv` goes through the fourteen actions for the
worker's own conjuncts. What a write stores is the one place where the drivers differ:
`WrittenType` and `AcknowledgesCopy` say of the acknowledged copy that it is what was read, or a
part of it that `cutOff` records.

**The end of a run.** `TasksOwned` bounds a task's owners from above; a nil error
needs the other direction. `NoTaskIsLost` says that, while nobody has failed or
cancelled, every listed path is in the channel, with a worker, or counted. That the
channel is empty when all workers have left needs one worker that leaves only then:
the first, which every run starts even without tasks. `TaskFate` follows the task of
one worker through a step. `SettledAfterWork` carries the result over the deletions,
and `SourceComplete` says that a listing which returns everything is also right about
what is not there, which needs that a page as long as the store cuts nothing
(`ListedIsAll`, by the cardinality of an interval).

**Two runs.** While nobody touches the source its listing is what one would get again
(`ListingStands`), so that a second run has the tasks of the first. In checksum mode
the first has left each of them equal on both sides (`SettledAgree`), and `Quiet`
says how this goes through the second run, from the listings to the channel to the
workers: none comes to a step that replaces a file.
For a dry run and the run it announces the statistics themselves are compared.
`Forecast` computes them from the stores and the options, and `Heads(t)` says of a run
that it is on its way to the statistics `t`: the verdict on each waiting file is the
one that `t` has, a worker is on the branch for it, and what is counted is counted as
in `t`. A run that nothing disturbs starts on its forecast (`StartHeads`), keeps to it
through every step (`MainHeads`, `WorkerHeads`), and ends with it (`HeadsEnds`). A dry
run leaves the stores, and with them the forecast, as they are (`DryRunStep`,
`SameForecast`); so the real run starts on what the dry run ended with.

**The local driver.** `LocalInv` says what is under a temporary name at each step of
its writer (`TmpHolds`): nothing, a file of that writer while it copies, the whole
stream when it may be renamed, or a remainder that is recorded as left. From this an
object is always one whole write (`Kept`). `Checked` says that a writer without
`Overwrite` that meets its target after the check was overtaken; `Announced` that the
size a download has announced is the object's unless it was replaced. The refinement
goes through the actions: `Rename` is the abstract write, `RemoveTarget` the abstract
loss, a deletion of a key the abstract deletion, and every other step a stutter, or a
call's end, in the abstract store.

**Walks over pages.** A page is a prefix of the sorted rest, and `Sorted` gives each
name the place that the number of names before it says. `SortedIsRight` shows that
every place is taken (`PlacesAreTaken`, by induction: the last name of a finite set
has the last place) and that places grow with the names. With it `Ordered` (what was
listed is in order and up to the token) and `Faithful` (what is steady was listed, or
is behind the token and still to be visited, or found) survive a page that is cut
anywhere, and a directory that changes at each step of the walk.

**The vault.** `Locked` says what a goroutine between `Lock` and the end of `Unlock`
may believe of its mutex, and from it follows that a writer is alone in its process
(`Alone`). `Locals` relates the temporary file to the store that was loaded and the
call. `Fresh` is the heart: a writer that nobody has overtaken has loaded what is
stored, also while the vault is removed and only its memory has it. A writer whose
removal has failed (`retry`) is not exposed: its second rename is the effect of the call
or, if it fails, a failure that changes nothing. The refinement
has a lemma for each step that the abstract store sees (`LoadRefines`,
`RenameRefines`, `RemoveRefines`, `AgainRefines`, `CrashRefines`, `InvokeRefines`);
the others stutter (`CalmRefines`). `OneProcessIsAtomic` is the corollary a reader of
`vault.go` wants: if all goroutines share one mutex, nobody is ever overtaken, and
the exception in `RemoteStoreSpec` is empty.

**The daemon's remotes.** A step of one request leaves the others where they are
(`OwnStep`), and what they know survives it (`RestKeeps`, `OwnKeeps`) because
`changed` records each change of the vault against every request under way
(`ChangeIsNoted`), a lost vault included.
`Registering` says that a driver about to be cached is of the profile in the vault
unless that changed meanwhile, and `Listing` that a remote that held still is still to
be read or listed as it is. That the loop over the names comes to each needs that
there is a next one as long as one is left (`NextNameIsLeft`).

**Uploads.** The invariant follows the stream through its parts: `Divides` says that
the parts of an upload are the units read so far, cut somewhere, and `Holds` that the
bucket has exactly those, whatever was sent twice. `FlattenParts` (by induction over
the number of parts) makes of this that a completed upload is the stream.
`Splitting` and `Putting` keep the three ways of sending apart, so that the object is
never a part of a stream that failed. For the refinement `StepIs` sorts the steps of a
writer into those that leave the object (`QuietStep`) and those that make it all that
the writer sends (`ShowStep`), with what each may return; a completion that finds its
upload gone is quiet, and `UploadStands` says that the object has been there. That
nobody returns twice is an invariant of its own (`ResultInv`).

**Start, stop, status.** `LifeInv` says what holds while commands have been orderly:
there is one daemon and one command at most (`Alone`), the file names the daemon from
its `WritePid` on, or nobody if the daemon is nameless (`Named`), a command has read that
name (`Knows`), a PID in the file without a process was not removed or was outrun
(`LeftBehind`), and without a failure no daemon removes its file (`Flawless`). That the
file never names another daemon than the one that serves is what a launcher's failing
write, or a failing kill, does not break. There is one lemma for each action or pair of actions; in
each, what a disorderly step does need not be considered, as `orderly` is false from
then on. The two action properties follow with `WhoReturns`, which says
by which steps a command ends, and `NobodyUnnamed` and `ListenerIsSeen`, which say whom
the answers miss.

**The token.** `TokenInv`: one process at a time generates a token, and only while
the file is empty, unless two did so at once or one could not read it (`raced`); from
then on the file does not change.

**Files and their names.** Most of `FileOps_proofs` is about paths of any length: a path
is a sequence in which no two slashes follow each other (`IsPath`), and *proper* when it
has none at its ends. `JoinOrder` says that paths under one root are related as their
names are, `Regions` that two directories which share a file contain one another.
`ResolveIs` then says that an endpoint stands for what its target names, `ListedKey` and
`ListingFinds` where listed files lie and that none is missed, `RelativeOf` and `BelowOf`
where the loops take them.

`FileInv` says which endpoints are resolved at which step, and that every entry still to
be come to is a good key of them; so no write puts a file of a tree into a file
(`StoreKept`). `RemovalsAre` finds the step behind a removal, which is one of `rm` or the
failing write of a `cp`, and `ListedKey` its name.
`RmInv`: while nobody else writes, each file still under the target has an entry
(`ListingFinds`, and for a bucket that the listing fits in a page, `OnePageIs`).

`CpInv` has two halves. While entries are left, nothing in the source is changed by the
command itself (`CpReads`), because the copies go where the source does not reach
(`WriteGoes`); therefore streams are whole. And each file that was there at the start is
still to come, being copied, or copied where it belongs: `CopyTo` says that no two files
belong in one place, so that no copy replaces another. Both need the assumption that source
and destination do not overlap, and that the source has no siblings; without it TLC has
counterexamples. An undisturbed file still has the size that was listed, which is why no
copy of it is cut off by a stale size (`CutsWritten`); what a broken stream cuts off is in
`broken`.

`PlanInv` says that what a sync has listed are keys that have been there, each once. The
number of targets is then that of the tasks, by a bijection: the relative path can be told
from the key it leads to (`BelowOrder`), and the entry from the relative path
(`SourceKey`). That sources are spared is `Regions` and the guard (`Loops`), which fails only where
`Dotted` says.

The inductive invariants were also given to TLC, on the instances of the runs above:
`VaultInv` (469,538 distinct states), `RemotesInv` (3,211,411), `UploadInv` with
`ResultInv` (751,740), `LifeInv` with `TokenInv` (3,359,946), `WalkInv` (1,545,275),
`AgainInv` with `ForecastInv` and `EndInv` (1,071,268), and `FileInv`, `RmInv`, `CpInv`
and `PlanInv` (573,399). They are not properties of the runs, as they imply the ones that
are.

**Induction.** The library's induction rules are stated over an operator, which the
provers cannot instantiate. `NatSets_proofs` states the rule over a *set* of numbers,
from well-foundedness of the order, and the set may be given by any predicate. This
carries the two inductions above, over the places of a sorted set and over the parts
of an upload; a least element also finds the last slash of a path (`LastSlashIs`).

Every safety property of the passing runs is a theorem. Model-checked only is liveness
(`RunReturns`, `CallsReturn`, `WriteReturns`), which is out of the prover's reach.

## 5. Findings

Four statements of the repository do not hold of the code; each is a run that TLC
ends with a short trace.

1. `sync_resync`: a second run in the default mode does not skip an unchanged
   file: the copy has the time of copying (`sync_test.go:44`).
2. `sync_list_fails`: any error of listing the destination is taken for an empty
   destination (`sync.go:128`, `README.md:64`).
3. `daemon_stop`: a start that cannot listen removes the PID file of the daemon
   that does, and stop then reports that none is running (`main.go:154`).
4. `rm_siblings`: `rm -r` of a directory removes the files of others whose names
   begin like it (`main.go:239`).

Four more are not runs of their own; they are exceptions that a passing property
names, or what a model does in the step named here:

- backups of one path in one second overwrite each other (`threat-model.md:82`):
  `BackupConflict` names a backup by path and second in `SyncEngine`;
- the vault's fallback after a failed rename removes the vault first
  (`vault.go:243`): `exposed` in `RemoteStore`, `VaultIsLost` in `DaemonRemotes`;
- POST on a cached remote does not reach the cache (`server.go:101`): `suspect` in
  `CacheAgrees`;
- a multipart upload of a stream that breaks off is completed and acknowledged, and
  its announced size is never compared (`threat-model.md:82`): `AckedIsStored`
  speaks of the stream, not of the announced size, and `cutOff` and `broken` are the
  copies and backups that `SettledAgree`, `ListedIsBackedUp` and `CpCopies` exempt.

## 6. Plan

What is left: the upper halves of the compositions. Both drivers are proved to implement
`ObjectStore`, and the vault `RemoteStore`; their users, `SyncEngine`, `FileOps` and
`DaemonRemotes`, take a call of these as one step of their own, where the abstract
modules have an invocation, an effect and a return. To state a user as an instance of
the abstract module needs the steps in between as well. Bounds worth widening are
those of `file_ops`: a second bucket, and a vault whose profiles root a local remote
below the disk's tree. A run of `sync_run` from a bucket into a directory would add
pages without multipart uploads.

## 7. Not modelled

Path sanitising (but for names with two dots, in `FileOps`), request authentication, encryption, flag parsing, output and
entitlements are either pure functions of their input or have no state that
outlives a call. The in-memory driver (`mock.go`) is a test double.

`ls` only prints; non-recursive listings, which nothing else asks for, are left
out with it. Of the file commands the model leaves out empty directories, Windows
drives, the vault lookup of a remote's profile (a step of `DaemonRemotes` and
`VaultFile`), S3 profiles without a bucket, and dry runs of `sync` (in
`SyncEngine`). `FileOps` filters the default conflict directory and the one given,
not those of earlier runs.

Absolute conflict directories take another branch of `BackupConflict`, with a
direct file copy instead of `Write`; only the relative one, the default, is
modelled. The S3 driver pads a single-part body whose stream is empty with zeros
instead of failing: `S3Upload` has this, while in `SyncEngine` and `FileOps`, where no
object is empty, a small S3 write of too short a stream fails. `SyncEngine` and `FileOps`
take a write as one step, so that nobody reads between the removal and the second
rename of a failing local write that then succeeds; `LocalDriver` has the steps in
between. A multipart upload of several parts is one step there too.
`DaemonLifecycle` takes a successful `os.WriteFile` as one step, so that nobody reads the
empty file in between, and a PID file is never read with some of its digits; in orderly
use nobody reads while a start writes. The reads and deletions of S3 are single requests, which
their callers' models take as steps; the overwrite check of an S3 write
may pass although the object is there, and nothing is promised about it.
