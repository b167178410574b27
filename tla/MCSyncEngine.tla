---------------------------- MODULE MCSyncEngine ----------------------------
(* Instances of SyncEngine for TLC: the pairs of drivers and the options the   *)
(* runs start Sync with.                                                    *)
EXTENDS SyncEngine

Pair(s, d) == [src |-> s, dst |-> d]

\* Two directories, or two buckets; from a directory into a bucket.
LocalOnly  == {Pair("local", "local")}
Alike      == {Pair("local", "local"), Pair("s3", "s3")}
IntoBucket == {Pair("local", "s3"), Pair("s3", "s3")}

\* Size and time or checksum; with or without --delete; backups off once.  Dry
\* runs with --delete: without it they do less of the same.
MixedOptions ==
    {o \in SyncOptions : /\ o.dryRun => o.delete
                         /\ o.noBackup => o.checksum /\ ~o.delete}

\* For the single run with two workers: of the checksum mode what it shares
\* with neither --delete nor a dry run.
RunOptions == {o \in MixedOptions : o.checksum => ~o.delete}

\* For two runs in a row: backups stay on.
AgainOptions == {o \in MixedOptions : ~o.noBackup}

\* A bare "unistorage sync <src> <dest>".
PlainOptions == {[checksum |-> FALSE, delete |-> FALSE,
                  dryRun |-> FALSE, noBackup |-> FALSE]}
=============================================================================
