----------------------------- MODULE MCFileOps -----------------------------
(* Stores and command lines for FileOps: a disk d, a local remote r, and a   *)
(* bucket s.                                                                 *)
EXTENDS FileOps

\* The pieces a, b and x make names that begin alike; c is for the default conflict
\* directory.  A bucket may have an object a, and a marker a/, beside a/x.
a    == <<"a">>              adir == <<"a", "/">>         ab == <<"a", "b">>
ax   == <<"a", "/", "x">>    abx  == <<"a", "b", "/", "x">>
a_b  == <<"a", "/", "b">>    a_bx == <<"a", "/", "b", "/", "x">>
a_dx == <<"a", "/", "..", "b", "/", "x">>              a_d  == <<"a", "/", "..", "b">>
x    == <<"x">>              cx   == <<"c", "/", "x">>    root == << >>

MCSetups == {[d |-> {ax, a_bx, a_dx}, r |-> {ax, abx, cx}, s |-> {ax, adir, ab}],
             [d |-> {a, abx},   r |-> {ax, a_bx},    s |-> {a, ax, a_bx}]}

d(path) == Target("d", path)
r(path) == Target("r", path)
s(path) == Target("s", path)

RmLine(t, flags)       == CommandLine("rm", t, t, flags, <<"c">>)
CpLine(from, to, flags) == CommandLine("cp", from, to, flags, <<"c">>)
SyncLine(from, to, flags, conflicts) == CommandLine("sync", from, to, flags, conflicts)

\* Of files, directories and prefixes; with the bucket's name in front; the tests of
\* each flag.
RmLines == {RmLine(d(a), {"recursive"}), RmLine(d(a), {}),
            RmLine(r(adir), {"recursive"}), RmLine(r(adir), {"dry-run"}),
            RmLine(r(ax), {"force"}), RmLine(r(a), {}),
            RmLine(s(adir), {"recursive", "force"}), RmLine(s(adir), {}),
            RmLine(s(<<"s", "/">> \o ax), {}), RmLine(s(<<"s">>), {"recursive"})}

\* Between all stores, and from the bucket to itself, of trees and of single files, to what is there and what is not;
\* into the source itself, and to a sibling that a string prefix takes in.
CpLines == {CpLine(d(a), r(root), {"recursive"}), CpLine(d(ax), r(adir), {}),
            CpLine(r(adir), d(x), {}), CpLine(r(a), s(x), {"recursive"}),
            CpLine(r(ax), s(abx), {}), CpLine(s(adir), r(x), {}), CpLine(s(ax), d(a), {}),
            CpLine(s(adir), s(x), {}), CpLine(s(ax), s(abx), {}), CpLine(d(ax), r(a_d), {}),
            CpLine(r(a), r(a_b), {"recursive"}), CpLine(r(a), r(ab), {"recursive"})}

\* Inside, around and beside the source; where the guard takes a name for the
\* directory above; another conflict directory.
SyncLines == {SyncLine(d(a), d(a_b), {"delete"}, <<"c">>),
              SyncLine(d(a), d(a_d), {"delete"}, <<"c">>),
              SyncLine(d(a_b), d(a), {"delete"}, <<"c">>),
              SyncLine(r(a), r(ab), {"delete"}, <<"c">>),
              SyncLine(r(a_b), r(x), {}, <<"c">>),
              SyncLine(r(root), s(root), {"delete"}, <<"c">>),
              SyncLine(s(adir), d(a), {"delete"}, <<"x">>),
              SyncLine(d(ax), d(abx), {"delete"}, <<"c">>)}

MCCommands == RmLines \cup CpLines \cup SyncLines

\* A recursive rm of the directory a of the local remote, which has ab too.
RmOfOne == {RmLine(r(adir), {"recursive"})}
=============================================================================
