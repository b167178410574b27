-------------------------- MODULE DaemonLifecycle --------------------------
(***************************************************************************)
(* "unistorage daemon start", "status" and "stop" (cmd/unistorage/         *)
(* daemon_cmd.go) around the daemon they manage: the PID file, the token   *)
(* file of initToken, and the addresses daemons bind.                      *)
(*                                                                         *)
(* In the background, start spawns a process that does what start does in  *)
(* the foreground, and both write the PID file.  Commands may overlap; a   *)
(* daemon may die at any time, and its PID be given to another process.    *)
(* Files may fail to be read, written and removed: os.WriteFile empties    *)
(* the file first, and most errors of the commands are dropped.            *)
(***************************************************************************)
EXTENDS Naturals, FiniteSets

CONSTANTS
    Daemons,     \* the processes that starts make are 1..Daemons
    Stop,        \* invocations of stop
    Status,      \* invocations of status
    Addr,        \* addresses to listen on
    Default,     \* ... the one status falls back to
    None,        \* no file, no process, no token
    Empty,       \* a PID file with no PID in it
    MaxFailures  \* bound: calls of the system that fail, daemons that die

ASSUME LifecycleAssumption ==
    /\ Daemons \in Nat
    /\ Default \in Addr
    /\ None \notin 1..Daemons /\ Empty \notin 1..Daemons \cup {None}
    /\ Stop \cap Status = {}
    /\ MaxFailures \in Nat

\* Processes, named by their PIDs, in the order of their starts.
Daemon  == 1..Daemons
Command == Stop \cup Status

VARIABLES
    home,        \* ConfigDir exists
    pidFile,     \* the PID in daemon.pid
    tokenFile,   \* the token in daemon.token, named by who generated it; a file
                 \* without one is as good as none
    bound,       \* who listens on an address
    pc,          \* the next step of each daemon
    addr,        \* its listenAddr
    token,       \* its s.token
    launcher,    \* the start that spawned it, "none" in the foreground
    cpc,         \* the next step of each command
    asked,       \* the DaemonAddr of a status
    seen,        \* the PID a command has read
    said,        \* what it reported
    budget       \* what is left of the bound

\* Auxiliary variables: read by the properties alone.
VARIABLES
    orderly,     \* no start or command began beside another, no start beside a daemon
    raced,       \* a process generated a token while another did, or beside one in
                 \* the file that it could not read
    outrun,      \* daemons that ended before their launcher wrote their PID, or
                 \* between a stop's reading it and using it
    uncleared,   \* daemons whose PID stayed in the file when they ended or a stop
                 \* did: by an abrupt end or a failing removal
    nameless,    \* daemons whose PID was lost by a launcher that failed to write it,
                 \* or which a stop failed to kill
    killed,      \* daemons that a stop has killed
    strangers,   \* PIDs of ended daemons under which a stop killed another process
    hindered     \* commands that could not read or remove the file, kill, or probe

daemon   == <<pc, addr, token, launcher>>
commands == <<cpc, asked, seen, said>>
files    == <<home, pidFile, tokenFile>>
pids     == <<outrun, uncleared, nameless, killed, strangers>>
aux      == <<orderly, raced, pids, hindered>>
vars     == <<files, bound, daemon, commands, budget, aux>>

Init ==
    /\ home \in BOOLEAN
    /\ pidFile = None /\ tokenFile = None
    /\ bound = [a \in Addr |-> None]
    /\ pc = [d \in Daemon |-> "none"]
    /\ addr = [d \in Daemon |-> Default]
    /\ token = [d \in Daemon |-> None]
    /\ launcher = [d \in Daemon |-> "none"]
    /\ cpc = [c \in Command |-> "none"]
    /\ asked = [c \in Command |-> Default]
    /\ seen = [c \in Command |-> None]
    /\ said = [c \in Command |-> "nothing"]
    /\ budget = MaxFailures
    /\ orderly = TRUE /\ raced = FALSE
    /\ outrun = {} /\ uncleared = {} /\ nameless = {} /\ killed = {} /\ strangers = {}
    /\ hindered = {}

Failure == budget > 0 /\ budget' = budget - 1

Starting == {d \in Daemon : \/ pc[d] \in {"pid", "readToken", "writeToken", "bind", "remove"}
                            \/ launcher[d] = "pid"}
Serving  == {d \in Daemon : pc[d] = "serve"}
Busy     == \E c \in Command : cpc[c] \notin {"none", "done"}

-----------------------------------------------------------------------------
(* start.                                                                  *)

SpawnFails_Foreground(background) == ~home

\* cmd.Dir is ConfigDir, which start makes only after it has spawned: without it
\* the process cannot be spawned.  In the foreground it is made first.
SpawnFails(background) == background /\ ~home

Start(d, a, background) ==
    /\ pc[d] = "none" /\ \A e \in 1..(d - 1) : pc[e] # "none"
    /\ addr' = [addr EXCEPT ![d] = a]
    /\ IF SpawnFails(background)
         THEN /\ pc' = [pc EXCEPT ![d] = "ended"]
              /\ launcher' = [launcher EXCEPT ![d] = IF background THEN "failed" ELSE "none"]
              /\ UNCHANGED home
         ELSE /\ pc' = [pc EXCEPT ![d] = "pid"]
              /\ launcher' = [launcher EXCEPT ![d] = IF background THEN "pid" ELSE "none"]
              /\ home' = TRUE
    /\ orderly' = (orderly /\ Starting \cup Serving = {} /\ ~Busy)
    /\ UNCHANGED <<pidFile, tokenFile, bound, token, commands, budget, raced, pids, hindered>>

\* os.WriteFile empties the file before it fails or is interrupted, or fails to open it.
HalfWritten == pidFile' \in {pidFile, Empty}

\* The parent writes the PID of its child, whatever has become of that.
LauncherWritesPid(d) ==
    /\ launcher[d] = "pid"
    /\ launcher' = [launcher EXCEPT ![d] = "done"]
    /\ \/ pidFile' = d /\ UNCHANGED <<budget, nameless>>
       \/ HalfWritten /\ Failure /\ nameless' = nameless \cup ({d} \ {pidFile'})
    /\ outrun' = outrun \cup ({d} \cap {e \in Daemon : pc[e] = "ended"})
    /\ UNCHANGED <<home, tokenFile, bound, pc, addr, token, commands,
                   orderly, raced, uncleared, killed, strangers, hindered>>

Moves(d, from, to) == pc[d] = from /\ pc' = [pc EXCEPT ![d] = to]

OwnPid_LeftToParent(d) == pidFile
\* What the daemon itself writes.
OwnPid(d) == d

\* The deferred removal of the PID file is set up only after it was written.
WritePid(d) ==
    /\ \/ /\ Moves(d, "pid", "readToken") /\ pidFile' = OwnPid(d)
          /\ nameless' = nameless \ {d}
          /\ UNCHANGED <<budget, uncleared>>
       \/ /\ Moves(d, "pid", "ended") /\ HalfWritten /\ Failure
          /\ uncleared' = uncleared \cup {d}
          /\ UNCHANGED nameless
    /\ UNCHANGED <<home, tokenFile, bound, addr, token, launcher, commands,
                   orderly, raced, outrun, killed, strangers, hindered>>

HasToken_Never == FALSE
HasToken == tokenFile # None

ReadToken(d) ==
    /\ \/ /\ HasToken /\ Moves(d, "readToken", "bind")
          /\ token' = [token EXCEPT ![d] = tokenFile]
          /\ UNCHANGED <<budget, raced>>
       \/ /\ IF HasToken THEN Failure ELSE UNCHANGED budget
          /\ Moves(d, "readToken", "writeToken")
          /\ token' = [token EXCEPT ![d] = d]
          /\ raced' = (raced \/ HasToken \/ \E e \in Daemon : pc[e] = "writeToken")
    /\ UNCHANGED <<files, bound, addr, launcher, commands, orderly, pids, hindered>>

WriteToken(d) ==
    /\ \/ Moves(d, "writeToken", "bind") /\ tokenFile' = d /\ UNCHANGED budget
       \/ Moves(d, "writeToken", "remove") /\ tokenFile' \in {tokenFile, None} /\ Failure
    /\ UNCHANGED <<home, pidFile, bound, addr, token, launcher, commands, aux>>

AfterListen_Removed == "remove"
AfterListen == "serve"

Taken_Never(d) == FALSE
\* net.Listen fails when the address is in use.
Taken(d) == bound[addr[d]] # None

Bind(d) ==
    /\ ~Taken(d)
    /\ \/ /\ Moves(d, "bind", AfterListen)
          /\ bound' = [bound EXCEPT ![addr[d]] = d]
          /\ UNCHANGED budget
       \/ Moves(d, "bind", "remove") /\ Failure /\ UNCHANGED bound
    /\ UNCHANGED <<files, addr, token, launcher, commands, aux>>

BindFails(d) ==
    /\ Taken(d)
    /\ Moves(d, "bind", "remove")
    /\ UNCHANGED <<files, bound, addr, token, launcher, commands, budget, aux>>

Released(d) == [a \in Addr |-> IF bound[a] = d THEN None ELSE bound[a]]

ServeFails(d) ==
    /\ Moves(d, "serve", "remove") /\ Failure
    /\ bound' = Released(d)
    /\ UNCHANGED <<files, addr, token, launcher, commands, aux>>

Removed_Kept == pidFile
\* The deferred function removes the PID file, whoever's it is by now.
Removed == None

RemovePid(d) ==
    /\ Moves(d, "remove", "ended")
    /\ \/ pidFile' = Removed /\ UNCHANGED <<budget, uncleared>>
       \/ Failure /\ uncleared' = uncleared \cup {d} /\ UNCHANGED pidFile
    /\ outrun' = outrun \cup ({d} \cap {seen[c] : c \in {s \in Stop : cpc[s] = "kill"}})
    /\ UNCHANGED <<home, tokenFile, bound, addr, token, launcher, commands,
                   orderly, raced, nameless, killed, strangers, hindered>>

Run(d) == \/ WritePid(d) \/ ReadToken(d) \/ WriteToken(d) \/ Bind(d) \/ BindFails(d)
          \/ RemovePid(d)

\* Signals end the process without its deferred functions, and in mid-write.
Crash(d) ==
    /\ pc[d] \notin {"none", "ended"}
    /\ Failure
    /\ pc' = [pc EXCEPT ![d] = "ended"]
    /\ bound' = Released(d)
    /\ IF pc[d] = "pid" THEN HalfWritten ELSE UNCHANGED pidFile
    /\ IF pc[d] = "writeToken" THEN tokenFile' \in {tokenFile, None} ELSE UNCHANGED tokenFile
    /\ uncleared' = uncleared \cup {d}
    /\ UNCHANGED <<home, addr, token, launcher, commands, orderly, raced,
                   outrun, nameless, killed, strangers, hindered>>

-----------------------------------------------------------------------------
(* stop and status.                                                        *)

Reports(c, what) == /\ cpc' = [cpc EXCEPT ![c] = "done"]
                    /\ said' = [said EXCEPT ![c] = what]
Goes(c, next) == cpc' = [cpc EXCEPT ![c] = next] /\ UNCHANGED said

\* A call fails, and the command goes on without its effect.
Hinders(c) == Failure /\ hindered' = hindered \cup {c}
Succeeds == UNCHANGED <<budget, hindered>>

\* Both begin by reading the PID file, and find p there; an error is taken for no file.
ReadPid(c, p) ==
    /\ cpc[c] = "none"
    /\ \/ p = pidFile /\ Succeeds
       \/ p = None /\ Hinders(c)
    /\ seen' = [seen EXCEPT ![c] = p]
    /\ orderly' = (orderly /\ Starting = {} /\ ~Busy)
    /\ UNCHANGED <<home, tokenFile, bound, daemon, raced, pids>>

StopReads(c) ==
    /\ \/ ReadPid(c, None) /\ Reports(c, "not running")
       \/ \E d \in Daemon : ReadPid(c, d) /\ Goes(c, "kill")
    /\ UNCHANGED <<pidFile, asked>>

\* A file without a PID is removed, and nobody killed.
StopDiscards(c) ==
    /\ cpc[c] = "none" /\ pidFile = Empty
    /\ \/ pidFile' = None /\ Succeeds
       \/ UNCHANGED pidFile /\ Hinders(c)
    /\ seen' = [seen EXCEPT ![c] = Empty]
    /\ Reports(c, "stopped")
    /\ orderly' = (orderly /\ Starting = {} /\ ~Busy)
    /\ UNCHANGED <<home, tokenFile, bound, daemon, asked, raced, pids>>

Kills_Nobody(d) == {}
\* Kill is SIGKILL to whoever has the PID now.
Kills(d) == {d} \cap {e \in Daemon : pc[e] \notin {"none", "ended"}}

\* The PID of a daemon that has ended may be another process's.
StopKills(c) ==
    /\ cpc[c] = "kill" /\ Goes(c, "wait")
    /\ LET hit == Kills(seen[c])
       IN /\ pc' = [d \in Daemon |-> IF d \in hit THEN "ended" ELSE pc[d]]
          /\ bound' = [a \in Addr |-> IF bound[a] \in hit THEN None ELSE bound[a]]
          /\ killed' = killed \cup hit
          /\ strangers' \in {strangers, strangers \cup ({seen[c]} \ hit)}
    /\ UNCHANGED <<files, addr, token, launcher, asked, seen, budget,
                   orderly, raced, outrun, uncleared, nameless, hindered>>

\* An error of Kill is only logged.
KillFails(c) ==
    /\ cpc[c] = "kill" /\ Goes(c, "wait")
    /\ Hinders(c)
    /\ nameless' = nameless \cup {seen[c]}
    /\ UNCHANGED <<files, bound, daemon, asked, seen, orderly, raced,
                   outrun, uncleared, killed, strangers>>

\* After three seconds the file is removed, or not.
StopEnds(c) ==
    /\ cpc[c] = "wait" /\ Reports(c, "stopped")
    /\ \/ pidFile' = None /\ Succeeds /\ UNCHANGED uncleared
       \/ /\ UNCHANGED pidFile /\ Hinders(c)
          /\ uncleared' = uncleared \cup ({pidFile} \cap Daemon)
    /\ UNCHANGED <<home, tokenFile, bound, daemon, asked, seen,
                   orderly, raced, outrun, nameless, killed, strangers>>

\* Without a PID in the file, status says "offline" and does not probe.
StatusReads(c, a) ==
    /\ \/ \E p \in {None, Empty} : ReadPid(c, p) /\ Reports(c, "offline")
       \/ \E d \in Daemon : ReadPid(c, d) /\ Goes(c, "probe")
    /\ asked' = [asked EXCEPT ![c] = a]
    /\ UNCHANGED pidFile

Healthy_Always(a) == TRUE
Healthy(a) == bound[a] # None

Probe(c) ==
    /\ cpc[c] = "probe"
    /\ IF Healthy(asked[c]) THEN Reports(c, "running") ELSE Goes(c, "fallback")
    /\ UNCHANGED <<files, bound, daemon, asked, seen, budget, aux>>

\* The second probe goes to 127.0.0.1:8080, whatever address was asked for.
ProbeDefault(c) ==
    /\ cpc[c] = "fallback"
    /\ Reports(c, IF Healthy(Default) THEN "running" ELSE "offline")
    /\ UNCHANGED <<files, bound, daemon, asked, seen, budget, aux>>

\* A probe fails although somebody listens; one that times out leaves no time for
\* the second, which shares its three seconds.
ProbeFails(c) ==
    /\ \/ cpc[c] = "probe" /\ Goes(c, "fallback")
       \/ cpc[c] \in {"probe", "fallback"} /\ Reports(c, "offline")
    /\ Hinders(c)
    /\ UNCHANGED <<files, bound, daemon, asked, seen, orderly, raced, pids>>

StopGoesOn(c)   == StopKills(c) \/ KillFails(c) \/ StopEnds(c)
StatusGoesOn(c) == Probe(c) \/ ProbeDefault(c) \/ ProbeFails(c)

-----------------------------------------------------------------------------

\* A daemon serves, or there is none, and nobody calls for anything.
Idle == Starting = {} /\ ~Busy /\ UNCHANGED vars

Next == \/ \E d \in Daemon : \/ \E a \in Addr, b \in BOOLEAN : Start(d, a, b)
                             \/ LauncherWritesPid(d) \/ Run(d) \/ ServeFails(d)
                             \/ Crash(d)
        \/ \E c \in Stop : StopReads(c) \/ StopDiscards(c) \/ StopGoesOn(c)
        \/ \E c \in Status : (\E a \in Addr : StatusReads(c, a)) \/ StatusGoesOn(c)
        \/ Idle

Spec == Init /\ [][Next]_vars

-----------------------------------------------------------------------------
(* Properties.                                                             *)

PC == {"none", "pid", "readToken", "writeToken", "bind", "serve", "remove", "ended"}

\* Every variable holds a value of its kind, and who listens is serving.
TypeOK ==
    /\ home \in BOOLEAN /\ tokenFile \in Daemon \cup {None}
    /\ pidFile \in Daemon \cup {None, Empty}
    /\ bound \in [Addr -> Daemon \cup {None}]
    /\ pc \in [Daemon -> PC] /\ addr \in [Daemon -> Addr]
    /\ token \in [Daemon -> Daemon \cup {None}]
    /\ launcher \in [Daemon -> {"none", "pid", "done", "failed"}]
    /\ cpc \in [Command -> {"none", "kill", "wait", "probe", "fallback", "done"}]
    /\ asked \in [Command -> Addr] /\ seen \in [Command -> Daemon \cup {None, Empty}]
    /\ said \in [Command -> {"nothing", "stopped", "not running", "running", "offline"}]
    /\ strangers \subseteq {d \in Daemon : pc[d] = "ended"}
    /\ budget \in 0..MaxFailures
    /\ orderly \in BOOLEAN /\ raced \in BOOLEAN
    /\ outrun \subseteq Daemon /\ uncleared \subseteq Daemon /\ nameless \subseteq Daemon
    /\ killed \subseteq Daemon /\ hindered \subseteq Command
    /\ \A d \in Daemon : pc[d] = "serve" <=> \E a \in Addr : bound[a] = d

\* When commands do not overlap, a daemon whose start is over is the one that the
\* PID file names, unless its launcher failed to write the file or a stop to kill.
OrderlyIsNamed ==
    orderly => \A d \in Serving \ Starting : d \in nameless \/ pidFile = d

Returns(c, what) == cpc[c] # "done" /\ cpc'[c] = "done" /\ said'[c] \in what

\* When commands do not overlap, a stop that has returned leaves no PID file behind
\* and no daemon but a nameless one, unless a call of its own has failed.
OrderlyStopStops ==
    [][\A c \in Command : orderly' /\ Returns(c, {"stopped", "not running"}) =>
          c \in hindered' \/ (Serving' \subseteq nameless' /\ pidFile' = None)]_vars

\* When commands do not overlap, a status says "running" of the daemon that is
\* serving, and "offline" only if none but a nameless one is at the address asked
\* for, or if a call of its own has failed.
OrderlyStatus ==
    [][\A c \in Command :
          /\ orderly' /\ Returns(c, {"running"}) => seen'[c] \in Serving
          /\ orderly' /\ Returns(c, {"offline"}) =>
                c \in hindered' \/ bound[asked'[c]] \in {None} \cup nameless]_vars

\* When commands do not overlap, a stop kills another process only under a PID that
\* an abrupt end or a failing removal has left in the file, or that was written or
\* read about the time its daemon ended.
StrangersAreSpared ==
    orderly => strangers \subseteq uncleared \cup outrun

\* A daemon serves with the token that clients read from the file, unless two
\* first starts generated one each, or one could not read the token there was.
TokenIsShared ==
    ~raced => \A d \in Serving : token[d] = tokenFile

\* When commands do not overlap and nothing fails, dies or is stopped, a start
\* ends in a daemon, except in the background without a configuration directory.
OrderlyStartServes ==
    orderly /\ budget = MaxFailures =>
        \A d \in Daemon : pc[d] = "ended" /\ d \notin killed => launcher[d] = "failed"

(* What the documentation says and the code does not do.                   *)

\* cmd/unistorage/main.go:154 has stop "Stop running background daemon": when it
\* finds that there is nothing to stop, and no start is in progress, there is not.
NothingToStop ==
    [][\A c \in Stop : Returns(c, {"not running"}) /\ Starting = {} => Serving = {}]_vars
=============================================================================
