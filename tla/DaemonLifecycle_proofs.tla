----------------------- MODULE DaemonLifecycle_proofs -----------------------
(***************************************************************************)
(* Proofs about DaemonLifecycle, for every number of starts, commands,     *)
(* addresses and failures.                                                 *)
(***************************************************************************)
EXTENDS DaemonLifecycle, TLAPS

USE LifecycleAssumption

\* The types of what initToken works with.
TokenTypes ==
    /\ tokenFile \in Daemon \cup {None}
    /\ pc \in [Daemon -> PC]
    /\ token \in [Daemon -> Daemon \cup {None}]

\* While one process generates a token there is none in the file, and once it is
\* there it stays; two would overwrite each other.
TokenIsKept(d) ==
    /\ pc[d] = "writeToken" =>
          /\ tokenFile = None /\ token[d] = d
          /\ \A e \in Daemon : pc[e] = "writeToken" => d = e
    /\ pc[d] \in {"bind", "serve"} => tokenFile # None /\ token[d] = tokenFile

TokenInv == TokenTypes /\ (raced \/ \A d \in Daemon : TokenIsKept(d))

\* No process has a token at first.
LEMMA InvInit == Init => TokenInv
  BY DEF Init, TokenInv, TokenTypes, TokenIsKept, PC

\* A step that brings no process to where it has a token.
LEMMA KeepsTokens ==
  ASSUME TokenInv, UNCHANGED <<token, raced>>, pc' \in [Daemon -> PC],
         \/ tokenFile' = tokenFile
         \/ tokenFile' = None /\ \E d \in Daemon : pc[d] = "writeToken",
         \A d \in Daemon : pc'[d] # pc[d] =>
             \/ pc'[d] \notin {"writeToken", "bind", "serve"}
             \/ pc[d] = "bind" /\ pc'[d] = "serve"
  PROVE  TokenInv'
<1>1. TokenTypes'
  BY DEF TokenInv, TokenTypes
<1>2. ASSUME \A d \in Daemon : TokenIsKept(d), NEW d \in Daemon
      PROVE  TokenIsKept(d)'
  <2>1. tokenFile' = tokenFile
    BY <1>2 DEF TokenIsKept
  <2> QED
    BY <1>2, <2>1 DEF TokenIsKept
<1> QED
  BY <1>1, <1>2 DEF TokenInv

\* The steps of initToken.
LEMMA ReadTokenInv ==
  ASSUME TokenInv, NEW d \in Daemon, ReadToken(d)
  PROVE  TokenInv'
<1> USE DEF TokenInv, TokenTypes, PC, files, Daemon
<1>1. TokenTypes'
  BY DEF ReadToken, HasToken, Moves
<1>2. ASSUME ~raced'
      PROVE  /\ \A e \in Daemon : TokenIsKept(e)
             /\ HasToken \/ \A e \in Daemon : pc[e] # "writeToken"
  BY <1>2 DEF ReadToken
<1>3. ASSUME ~raced', NEW e \in Daemon
      PROVE  TokenIsKept(e)'
  <2>1. CASE HasToken
    BY <1>2, <1>3, <2>1 DEF ReadToken, HasToken, Moves, TokenIsKept
  <2>2. CASE ~HasToken
    BY <1>2, <1>3, <2>2 DEF ReadToken, HasToken, Moves, TokenIsKept
  <2> QED
    BY <2>1, <2>2
<1> QED
  BY <1>1, <1>3

LEMMA WriteTokenInv ==
  ASSUME TokenInv, NEW d \in Daemon, WriteToken(d)
  PROVE  TokenInv'
<1> USE DEF TokenInv, TokenTypes, PC, files, Daemon
<1>1. TokenTypes' /\ raced' = raced
  BY DEF WriteToken, Moves, aux, pids
<1>2. ASSUME \A e \in Daemon : TokenIsKept(e), NEW e \in Daemon
      PROVE  TokenIsKept(e)'
  BY <1>2 DEF WriteToken, Moves, TokenIsKept
<1> QED
  BY <1>1, <1>2

\* Every step keeps the invariant.
LEMMA InvStep == TokenInv /\ [Next]_vars => TokenInv'
<1> SUFFICES ASSUME TokenInv, [Next]_vars PROVE TokenInv'
  OBVIOUS
<1> USE DEF TokenInv, TokenTypes, PC, Moves, files, aux, pids, daemon
<1>1. ASSUME NEW d \in Daemon, NEW a \in Addr, NEW b \in BOOLEAN, Start(d, a, b)
      PROVE  TokenInv'
  BY <1>1, KeepsTokens DEF Start
<1>2. ASSUME NEW d \in Daemon, LauncherWritesPid(d) PROVE TokenInv'
  BY <1>2, KeepsTokens DEF LauncherWritesPid
<1>3. ASSUME NEW d \in Daemon, Run(d) PROVE TokenInv'
  <2>1. CASE WritePid(d)   BY <2>1, KeepsTokens DEF WritePid
  <2>2. CASE Bind(d)       BY <2>2, KeepsTokens DEF Bind, AfterListen
  <2>3. CASE BindFails(d)  BY <2>3, KeepsTokens DEF BindFails
  <2>4. CASE RemovePid(d)  BY <2>4, KeepsTokens DEF RemovePid
  <2> QED
    BY <1>3, <2>1, <2>2, <2>3, <2>4, ReadTokenInv, WriteTokenInv DEF Run
<1>4. ASSUME NEW d \in Daemon, ServeFails(d) \/ Crash(d) PROVE TokenInv'
  <2>1. CASE ServeFails(d)  BY <2>1, KeepsTokens DEF ServeFails
  <2>2. CASE Crash(d)       BY <2>2, KeepsTokens DEF Crash
  <2> QED
    BY <1>4, <2>1, <2>2
<1>5. ASSUME NEW c \in Stop, StopReads(c) \/ StopDiscards(c) \/ StopGoesOn(c)
      PROVE  TokenInv'
  <2>1. CASE StopKills(c)
    BY <2>1, KeepsTokens DEF StopKills
  <2>2. CASE ~StopKills(c)
    BY <1>5, <2>2, KeepsTokens
       DEF StopReads, StopDiscards, ReadPid, StopGoesOn, KillFails, StopEnds
  <2> QED
    BY <2>1, <2>2
<1>6. ASSUME NEW c \in Status, (\E a \in Addr : StatusReads(c, a)) \/ StatusGoesOn(c)
      PROVE  TokenInv'
  BY <1>6, KeepsTokens
     DEF StatusReads, ReadPid, StatusGoesOn, Probe, ProbeDefault, ProbeFails
<1>7. CASE UNCHANGED vars
  BY <1>7, KeepsTokens DEF vars
<1> QED
  BY <1>1, <1>2, <1>3, <1>4, <1>5, <1>6, <1>7 DEF Next, Idle

\* However starts, stops and deaths follow each other, a daemon serves with the
\* token in the file, unless two first starts generated one each, or one could not
\* read the token there was.
THEOREM TokensAreShared == Spec => []TokenIsShared
<1>1. TokenInv => TokenIsShared
  BY DEF TokenInv, TokenIsKept, TokenIsShared, Serving
<1> QED
  BY <1>1, InvInit, InvStep, PTL DEF Spec

-----------------------------------------------------------------------------
(* What orderly commands rest on.                                          *)

\* What names a process names one that was started.
PidsAreDaemons ==
    /\ \A d \in Daemon : launcher[d] = "pid" => pc[d] # "none"
    /\ pidFile \in Daemon => pc[pidFile] # "none"
    /\ \A c \in Command : seen[c] \in Daemon => pc[seen[c]] # "none"
    /\ \A c \in Command : cpc[c] = "kill" => c \in Stop /\ seen[c] \in Daemon

\* What stands for no PID is no PID.
LEMMA NoPids == None \notin Daemon /\ Empty \notin Daemon /\ Empty # None
BY DEF Daemon

BusyWith(c)  == cpc[c] \notin {"none", "done"}
Active(d)    == pc[d] \notin {"none", "ended"} \/ launcher[d] = "pid"
Launching(d) == pc[d] \in {"pid", "readToken", "writeToken", "bind"} \/ launcher[d] = "pid"
Dead(d)      == pc[d] = "ended"

\* There is one daemon at most, and one command, and none while a daemon is made.
Alone ==
    /\ \A d, e \in Daemon : Active(d) /\ Active(e) => d = e
    /\ \A c, b \in Command : BusyWith(c) /\ BusyWith(b) => c = b
    /\ \A d \in Daemon, c \in Command : ~(Launching(d) /\ BusyWith(c))

\* From its WritePid on the file names the daemon, or nobody if it is nameless.
Named == \A d \in Daemon :
    pc[d] \in {"readToken", "writeToken", "bind", "serve"} =>
        pidFile = d \/ (d \in nameless /\ pidFile \notin Daemon)

\* A command knows the daemon there is; after the kill there is none but a nameless one.
Knows == \A c \in Command :
    /\ cpc[c] \in {"kill", "probe", "fallback"} =>
          \A d \in Daemon : pc[d] = "serve" => seen[c] = d
    /\ cpc[c] = "wait" => \A d \in Daemon : pc[d] = "serve" => d \in nameless
    /\ cpc[c] = "fallback" => c \in hindered \/ bound[asked[c]] = None

\* A PID that outlives its daemon was not removed, or was outrun; or a stop has just
\* killed the daemon.
LeftBehind ==
    /\ pidFile \in Daemon => \/ ~Dead(pidFile) \/ pidFile \in uncleared \cup outrun
                             \/ \E c \in Command : cpc[c] = "wait"
    /\ \A c \in Command : cpc[c] = "kill" /\ Dead(seen[c]) => seen[c] \in uncleared \cup outrun

\* Without a failure no daemon removes its PID file, and each end has its reason.
Flawless == budget = MaxFailures => \A d \in Daemon :
    pc[d] # "remove" /\ (Dead(d) /\ d \notin killed => launcher[d] = "failed")

OrderlyInv == /\ Alone /\ Named /\ Knows /\ LeftBehind /\ Flawless
              /\ strangers \subseteq uncleared \cup outrun

LifeInv == TypeOK /\ PidsAreDaemons /\ (orderly => OrderlyInv)

Kinds ==
    /\ home \in BOOLEAN /\ tokenFile \in Daemon \cup {None}
    /\ pidFile \in Daemon \cup {None, Empty}
    /\ bound \in [Addr -> Daemon \cup {None}]
    /\ pc \in [Daemon -> PC] /\ addr \in [Daemon -> Addr]
    /\ token \in [Daemon -> Daemon \cup {None}]
    /\ launcher \in [Daemon -> {"none", "pid", "done", "failed"}]
    /\ cpc \in [Command -> {"none", "kill", "wait", "probe", "fallback", "done"}]
    /\ asked \in [Command -> Addr] /\ seen \in [Command -> Daemon \cup {None, Empty}]
    /\ said \in [Command -> {"nothing", "stopped", "not running", "running", "offline"}]
    /\ budget \in 0..MaxFailures
    /\ orderly \in BOOLEAN /\ raced \in BOOLEAN
    /\ outrun \subseteq Daemon /\ uncleared \subseteq Daemon /\ nameless \subseteq Daemon
    /\ killed \subseteq Daemon /\ hindered \subseteq Command

\* Who listens is serving.
ListenersServe == \A d \in Daemon : pc[d] = "serve" <=> \E a \in Addr : bound[a] = d
StrangersEnded == strangers \subseteq {d \in Daemon : pc[d] = "ended"}

\* The type invariant in parts, for the provers.
LEMMA TypeParts == TypeOK <=> Kinds /\ ListenersServe /\ StrangersEnded
BY DEF TypeOK, Kinds, ListenersServe, StrangersEnded

LEMMA TypePartsNext == TypeOK' <=> Kinds' /\ ListenersServe' /\ StrangersEnded'
BY DEF TypeOK, Kinds, ListenersServe, StrangersEnded

\* A failure uses up what allows it.
LEMMA FailureSpends ==
  ASSUME budget \in 0..MaxFailures, Failure
  PROVE  budget' \in 0..MaxFailures /\ budget' # MaxFailures
BY DEF Failure

\* Steps that start no process and name no other keep the PIDs.
LEMMA PidsKept ==
  ASSUME Kinds, PidsAreDaemons,
         \A e \in Daemon : pc[e] # "none" => pc'[e] # "none",
         \A e \in Daemon : launcher'[e] = "pid" => launcher[e] = "pid" \/ pc'[e] # "none",
         \/ pidFile' \in {pidFile, None, Empty}
         \/ pidFile' \in Daemon /\ pc[pidFile'] # "none",
         \A c \in Command : seen'[c] \in {seen[c], pidFile, None, Empty},
         \A c \in Command : cpc'[c] = "kill" => c \in Stop /\ seen'[c] \in Daemon
  PROVE  PidsAreDaemons'
<1>1. pidFile' \in Daemon => pc'[pidFile'] # "none"
  <2>1. pidFile' \in Daemon => pc[pidFile'] # "none"
    BY NoPids DEF PidsAreDaemons
  <2> QED
    BY <2>1
<1>2. ASSUME NEW c \in Command
      PROVE  seen'[c] \in Daemon => pc'[seen'[c]] # "none"
  <2>1. seen'[c] \in Daemon => pc[seen'[c]] # "none"
    BY NoPids DEF PidsAreDaemons
  <2> QED
    BY <2>1
<1> QED
  BY <1>1, <1>2 DEF PidsAreDaemons

\* A daemon that stops listening stops serving.
LEMMA ListenersReleased ==
  ASSUME Kinds, ListenersServe, NEW d \in Daemon, pc'[d] # "serve",
         \A e \in Daemon \ {d} : pc'[e] = pc[e],
         \A a \in Addr : bound'[a] = IF bound[a] = d THEN None ELSE bound[a]
  PROVE  ListenersServe'
<1> SUFFICES ASSUME NEW e \in Daemon
             PROVE  pc'[e] = "serve" <=> \E a \in Addr : bound'[a] = e
  BY DEF ListenersServe
<1>1. e # None
  BY DEF Daemon
<1>2. CASE e = d
  BY <1>1, <1>2
<1>3. CASE e # d
  <2>1. \A a \in Addr : bound'[a] = e <=> bound[a] = e
    BY <1>1, <1>3
  <2> QED
    BY <1>3, <2>1 DEF ListenersServe
<1> QED
  BY <1>2, <1>3

\* What the commands know stays true while no daemon begins to serve.
LEMMA KnowsKept ==
  ASSUME Knows,
         \A e \in Daemon : pc'[e] = "serve" => pc[e] = "serve",
         \A e \in Daemon : pc'[e] = "serve" /\ e \in nameless => e \in nameless',
         hindered \subseteq hindered',
         \A c \in Command : cpc'[c] # cpc[c] => cpc'[c] = "done",
         \A c \in Command : seen'[c] = seen[c] /\ asked'[c] = asked[c],
         \A c \in Command : bound[asked[c]] = None => bound'[asked[c]] = None
  PROVE  Knows'
BY DEF Knows

LEMMA ListenersKept ==
  ASSUME ListenersServe, bound' = bound,
         \A e \in Daemon : pc'[e] = "serve" <=> pc[e] = "serve"
  PROVE  ListenersServe'
BY DEF ListenersServe

\* A PID that is left goes on being accounted for.
LEMMA LeftKept ==
  ASSUME Kinds, PidsAreDaemons, LeftBehind, pidFile' \in {pidFile, None, Empty},
         cpc' = cpc, seen' = seen, uncleared \subseteq uncleared', outrun \subseteq outrun',
         NEW d \in Daemon, \A e \in Daemon \ {d} : pc'[e] = pc[e],
         pc'[d] = "ended" =>
             /\ pidFile' = d => d \in uncleared' \cup outrun'
             /\ \A c \in Command : cpc[c] = "kill" /\ seen[c] = d => d \in uncleared' \cup outrun'
  PROVE  LeftBehind'
<1>1. ASSUME pidFile' \in Daemon
      PROVE  \/ ~Dead(pidFile)' \/ pidFile' \in uncleared' \cup outrun'
             \/ \E c \in Command : cpc'[c] = "wait"
  <2>1. pidFile' = pidFile /\ pidFile \in Daemon
    BY <1>1, NoPids
  <2>2. CASE pidFile = d
    BY <2>1, <2>2 DEF Dead
  <2>3. CASE pidFile # d
    BY <1>1, <2>1, <2>3 DEF LeftBehind, Dead
  <2> QED
    BY <2>2, <2>3
<1>2. ASSUME NEW c \in Command, cpc'[c] = "kill", Dead(seen[c])'
      PROVE  seen'[c] \in uncleared' \cup outrun'
  <2>1. cpc[c] = "kill" /\ seen'[c] = seen[c] /\ seen[c] \in Daemon
    BY <1>2 DEF PidsAreDaemons
  <2>2. CASE seen[c] = d
    BY <1>2, <2>1, <2>2 DEF Dead
  <2>3. CASE seen[c] # d
    BY <1>2, <2>1, <2>3 DEF LeftBehind, Dead
  <2> QED
    BY <2>2, <2>3
<1> QED
  BY <1>1, <1>2 DEF LeftBehind

\* No daemon and no command wakes up.
LEMMA AloneKept ==
  ASSUME Alone,
         \A e \in Daemon : /\ Active(e)' => Active(e)
                           /\ Launching(e)' => Launching(e),
         \A c \in Command : BusyWith(c)' => BusyWith(c)
  PROVE  Alone'
BY DEF Alone

\* A daemon that is in the middle of its work is named if the file is its own, or
\* keeps the name it had, or none.
LEMMA NamedKept ==
  ASSUME Named,
         \A e \in Daemon : pc'[e] \in {"readToken", "writeToken", "bind", "serve"} =>
             \/ pidFile' = e
             \/ /\ pc[e] \in {"readToken", "writeToken", "bind", "serve"}
                /\ e \in nameless => e \in nameless'
                /\ \/ pidFile' = pidFile
                   \/ pidFile' \notin Daemon /\ e \in nameless'
  PROVE  Named'
BY DEF Named

\* No daemon ends without a reason, and none begins to remove its file.
LEMMA FlawlessKept ==
  ASSUME Flawless,
         budget' = MaxFailures =>
             /\ budget = MaxFailures
             /\ killed \subseteq killed'
             /\ \A e \in Daemon :
                   /\ pc'[e] = "remove" => pc[e] = "remove"
                   /\ pc'[e] = "ended" =>
                        pc[e] = "ended" \/ e \in killed' \/ launcher'[e] = "failed"
                   /\ launcher[e] = "failed" => launcher'[e] = "failed"
  PROVE  Flawless'
BY DEF Flawless, Dead

\* A process that ended stays ended.
LEMMA StrangersKept ==
  ASSUME StrangersEnded, strangers' = strangers,
         \A e \in Daemon : pc[e] = "ended" => pc'[e] = "ended"
  PROVE  StrangersEnded'
BY DEF StrangersEnded

\* A start: with nobody else there, the new daemon is alone.
LEMMA StartStep ==
  ASSUME LifeInv, NEW d \in Daemon, NEW a \in Addr, NEW bg \in BOOLEAN, Start(d, a, bg)
  PROVE  LifeInv'
<1>0. Kinds /\ ListenersServe /\ StrangersEnded /\ PidsAreDaemons
  BY TypeParts DEF LifeInv
<1>1. Kinds'
  BY <1>0 DEF Kinds, PC, Start, SpawnFails, files, daemon, commands, aux, pids, Command
<1>2. /\ pc[d] = "none" /\ pc'[d] \in {"ended", "pid"}
      /\ \A e \in Daemon \ {d} : pc'[e] = pc[e]
      /\ launcher'[d] \in {"failed", "none", "pid"}
      /\ pc'[d] = "ended" => launcher'[d] = "failed"
      /\ \A e \in Daemon \ {d} : launcher'[e] = launcher[e]
      /\ UNCHANGED <<pidFile, bound, cpc, asked, seen, said, budget, raced, outrun,
                     uncleared, nameless, hindered, killed, strangers>>
  BY <1>0 DEF Kinds, Start, SpawnFails, files, daemon, commands, aux, pids
<1>3. ListenersServe'
  BY <1>0, <1>2, ListenersKept
<1>4. StrangersEnded'
  BY <1>0, <1>2 DEF Kinds, PidsAreDaemons, StrangersEnded, PC
<1>5. PidsAreDaemons'
  <2>1. \A e \in Daemon : pc[e] # "none" => pc'[e] # "none"
    BY <1>0, <1>2
  <2>2. \A e \in Daemon : launcher'[e] = "pid" => launcher[e] = "pid" \/ pc'[e] # "none"
    BY <1>0, <1>2
  <2>3. \/ pidFile' \in {pidFile, None, Empty}
        \/ pidFile' \in Daemon /\ pc[pidFile'] # "none"
    BY <1>0, <1>2 DEF PidsAreDaemons
  <2>4. \A b \in Command : /\ seen'[b] \in {seen[b], pidFile, None, Empty}
                           /\ cpc'[b] = "kill" => b \in Stop /\ seen'[b] \in Daemon
    BY <1>0, <1>2 DEF PidsAreDaemons
  <2> QED
    BY <1>0, <2>1, <2>2, <2>3, <2>4, PidsKept
<1>6. ASSUME orderly'
      PROVE  OrderlyInv'
  <2>1. /\ \A e \in Daemon : ~Active(e)
        /\ \A e \in Command : ~BusyWith(e)
        /\ orderly /\ OrderlyInv
    <3>1. orderly /\ Starting \cup Serving = {} /\ ~Busy
      BY <1>6 DEF Start
    <3>2. \A e \in Daemon : e \notin Starting /\ e \notin Serving
      BY <3>1
    <3>3. \A e \in Daemon : ~Active(e)
      BY <1>0, <3>2 DEF Active, Starting, Serving, Kinds, PC
    <3>4. \A e \in Command : ~BusyWith(e)
      BY <3>1 DEF Busy, BusyWith
    <3> QED
      BY <3>1, <3>3, <3>4 DEF LifeInv
  <2>2. /\ Alone /\ Named /\ Knows /\ LeftBehind /\ Flawless
        /\ strangers \subseteq uncleared \cup outrun
    BY <2>1 DEF OrderlyInv
  <2>3. Alone'
    <3>1. \A e \in Daemon \ {d} : ~Active(e)' /\ ~Launching(e)'
      BY <1>2, <2>1 DEF Active, Launching
    <3>2. \A e \in Command : ~BusyWith(e)'
      BY <1>2, <2>1 DEF BusyWith
    <3> QED
      BY <3>1, <3>2 DEF Alone
  <2>4. Named'
    BY <1>0, <1>2, <2>1, <2>2 DEF Kinds, Alone, Named, Knows, Active, Launching, BusyWith
  <2>5. Knows'
    BY <1>0, <1>2, <2>1, <2>2
       DEF Kinds, ListenersServe, Alone, Named, Knows, Active, Launching, BusyWith
  <2>6. LeftBehind'
    BY <1>0, <1>2, <2>1, <2>2
       DEF Kinds, PidsAreDaemons, Alone, LeftBehind, Active, Launching, BusyWith, Dead
  <2>7. Flawless'
    <3> SUFFICES ASSUME budget' = MaxFailures, NEW e \in Daemon
                 PROVE  /\ pc'[e] # "remove"
                        /\ Dead(e)' /\ e \notin killed' => launcher'[e] = "failed"
      BY DEF Flawless
    <3>1. budget = MaxFailures /\ killed' = killed
      BY <1>2
    <3>2. pc[e] # "remove" /\ (Dead(e) /\ e \notin killed => launcher[e] = "failed")
      BY <2>2, <3>1 DEF Flawless
    <3>3. CASE e = d
      BY <1>2, <3>1, <3>2, <3>3 DEF Dead
    <3>4. CASE e # d
      BY <1>2, <3>1, <3>2, <3>4 DEF Dead
    <3> QED
      BY <3>3, <3>4
  <2>8. (strangers \subseteq uncleared \cup outrun)'
    BY <1>0, <1>2, <2>1, <2>2 DEF Kinds, PidsAreDaemons, LeftBehind, Dead, PC
  <2> QED
    BY <2>3, <2>4, <2>5, <2>6, <2>7, <2>8 DEF OrderlyInv
<1> QED
  BY <1>1, <1>3, <1>4, <1>5, <1>6, TypePartsNext DEF LifeInv

\* The launcher's writing of the PID.
LEMMA LauncherStep ==
  ASSUME LifeInv, NEW d \in Daemon, LauncherWritesPid(d)
  PROVE  LifeInv'
<1>0. Kinds /\ ListenersServe /\ StrangersEnded /\ PidsAreDaemons
  BY TypeParts DEF LifeInv
<1>1. Kinds'
  BY <1>0, FailureSpends
     DEF Kinds, PC, LauncherWritesPid, HalfWritten, files, daemon, commands, aux, pids, Command
<1>2. /\ launcher[d] = "pid" /\ launcher'[d] = "done"
      /\ \A e \in Daemon \ {d} : launcher'[e] = launcher[e]
      /\ pidFile' = d \/ (pidFile' \in {pidFile, Empty} /\ d \in nameless' \cup {pidFile'})
      /\ nameless \subseteq nameless'
      /\ budget' = MaxFailures => budget = MaxFailures
      /\ outrun \subseteq outrun' /\ (pc[d] = "ended" => d \in outrun')
      /\ UNCHANGED <<bound, pc, cpc, asked, seen, said, orderly, uncleared, hindered,
                     killed, strangers>>
  BY <1>0, FailureSpends
     DEF Kinds, LauncherWritesPid, HalfWritten, files, daemon, commands, aux, pids
<1>3. ListenersServe'
  <2>1. bound' = bound /\ \A e \in Daemon : pc'[e] = "serve" <=> pc[e] = "serve"
    BY <1>2
  <2> QED
    BY <1>0, <2>1, ListenersKept
<1>4. StrangersEnded'
  BY <1>0, <1>2, StrangersKept
<1>5. PidsAreDaemons'
  BY <1>0, <1>2, NoPids DEF Kinds, PidsAreDaemons, Command
<1>6. ASSUME orderly'
      PROVE  OrderlyInv'
  <2>1. /\ orderly /\ OrderlyInv
    BY <1>0, <1>2, <1>6 DEF LifeInv, Kinds
  <2>2. /\ Alone /\ Named /\ Knows /\ LeftBehind /\ Flawless
        /\ strangers \subseteq uncleared \cup outrun
    BY <2>1 DEF OrderlyInv
  <2>3. Alone'
    <3>1. \A e \in Daemon : /\ Active(e)' => Active(e)
                            /\ Launching(e)' => Launching(e)
      BY <1>2 DEF Active, Launching
    <3>2. \A b \in Command : BusyWith(b)' => BusyWith(b)
      BY <1>2 DEF BusyWith
    <3> QED
      BY <2>2, <3>1, <3>2, AloneKept
  <2>4. Named'
    <3>1. \A e \in Daemon \ {d} : ~Active(e)
      BY <1>2, <2>2 DEF Alone, Active
    <3>2. \A e \in Daemon \ {d} : pc'[e] \in {"none", "ended"}
      BY <1>2, <3>1 DEF Active
    <3> QED
      BY <1>2, <2>2, <3>2, NoPids DEF Named
  <2>5. Knows'
    <3>1. \A e \in Daemon : pc'[e] = "serve" => pc[e] = "serve"
      BY <1>2
    <3>2. \A b \in Command : bound[asked[b]] = None => bound'[asked[b]] = None
      BY <1>2
    <3>3. \A b \in Command : /\ cpc'[b] # cpc[b] => cpc'[b] = "done"
                             /\ seen'[b] = seen[b] /\ asked'[b] = asked[b]
      BY <1>2
    <3> QED
      BY <1>2, <2>2, <3>1, <3>2, <3>3, KnowsKept
  <2>6. LeftBehind'
    <3>1. \A b \in Command : cpc'[b] # "kill"
      BY <1>2, <2>2 DEF Alone, Launching, BusyWith
    <3> QED
      BY <1>2, <2>2, <3>1, NoPids DEF LeftBehind, Dead
  <2>7. Flawless'
    <3> SUFFICES ASSUME budget' = MaxFailures, NEW e \in Daemon
                 PROVE  /\ pc'[e] # "remove"
                        /\ Dead(e)' /\ e \notin killed' => launcher'[e] = "failed"
      BY DEF Flawless
    <3>1. budget = MaxFailures /\ killed' = killed
      BY <1>2
    <3>2. pc[e] # "remove" /\ (Dead(e) /\ e \notin killed => launcher[e] = "failed")
      BY <2>2, <3>1 DEF Flawless
    <3>3. CASE e = d
      BY <1>2, <3>1, <3>2, <3>3 DEF Dead
    <3>4. CASE e # d
      BY <1>2, <3>1, <3>2, <3>4 DEF Dead
    <3> QED
      BY <3>3, <3>4
  <2>8. (strangers \subseteq uncleared \cup outrun)'
    BY <1>2, <2>2
  <2> QED
    BY <2>3, <2>4, <2>5, <2>6, <2>7, <2>8 DEF OrderlyInv
<1> QED
  BY <1>1, <1>3, <1>4, <1>5, <1>6, TypePartsNext DEF LifeInv

\* From the daemon's own writing on the file names it.
LEMMA WritePidStep ==
  ASSUME LifeInv, NEW d \in Daemon, WritePid(d)
  PROVE  LifeInv'
<1>0. Kinds /\ ListenersServe /\ StrangersEnded /\ PidsAreDaemons
  BY TypeParts DEF LifeInv
<1>1. Kinds'
  BY <1>0, FailureSpends
     DEF Kinds, PC, WritePid, HalfWritten, OwnPid, Moves, files, daemon, commands, aux, pids, Command
<1>2. /\ pc[d] = "pid" /\ pc'[d] \in {"readToken", "ended"}
      /\ \A e \in Daemon \ {d} : pc'[e] = pc[e]
      /\ budget' \in 0..MaxFailures /\ uncleared \subseteq uncleared'
      /\ pc'[d] = "readToken" => pidFile' = d /\ budget' = budget
      /\ pc'[d] = "ended" => /\ pidFile' \in {pidFile, Empty}
                             /\ budget' # MaxFailures /\ d \in uncleared'
      /\ \A e \in Daemon \ {d} : e \in nameless => e \in nameless'
      /\ UNCHANGED <<bound, launcher, cpc, asked, seen, said, orderly, outrun, hindered,
                     killed, strangers>>
  BY <1>0, FailureSpends
     DEF Kinds, WritePid, HalfWritten, OwnPid, Moves, files, daemon, commands, aux, pids
<1>3. ListenersServe'
  <2>1. bound' = bound /\ \A e \in Daemon : pc'[e] = "serve" <=> pc[e] = "serve"
    BY <1>2
  <2> QED
    BY <1>0, <2>1, ListenersKept
<1>4. StrangersEnded'
  BY <1>0, <1>2, StrangersKept
<1>5. PidsAreDaemons'
  <2>1. \A e \in Daemon : pc[e] # "none" => pc'[e] # "none"
    BY <1>0, <1>2
  <2>2. \A e \in Daemon : launcher'[e] = "pid" => launcher[e] = "pid" \/ pc'[e] # "none"
    BY <1>0, <1>2
  <2>3. \/ pidFile' \in {pidFile, None, Empty}
        \/ pidFile' \in Daemon /\ pc[pidFile'] # "none"
    BY <1>0, <1>2 DEF PidsAreDaemons
  <2>4. \A b \in Command : /\ seen'[b] \in {seen[b], pidFile, None, Empty}
                           /\ cpc'[b] = "kill" => b \in Stop /\ seen'[b] \in Daemon
    BY <1>0, <1>2 DEF PidsAreDaemons
  <2> QED
    BY <1>0, <2>1, <2>2, <2>3, <2>4, PidsKept
<1>6. ASSUME orderly'
      PROVE  OrderlyInv'
  <2>1. /\ orderly /\ OrderlyInv
    BY <1>0, <1>2, <1>6 DEF LifeInv, Kinds
  <2>2. /\ Alone /\ Named /\ Knows /\ LeftBehind /\ Flawless
        /\ strangers \subseteq uncleared \cup outrun
    BY <2>1 DEF OrderlyInv
  <2>3. Alone'
    <3>1. \A e \in Daemon : /\ Active(e)' => Active(e)
                            /\ Launching(e)' => Launching(e)
      BY <1>2 DEF Active, Launching
    <3>2. \A b \in Command : BusyWith(b)' => BusyWith(b)
      BY <1>2 DEF BusyWith
    <3> QED
      BY <2>2, <3>1, <3>2, AloneKept
  <2>4. Named'
    <3>1. \A e \in Daemon \ {d} : ~Active(e)
      BY <1>2, <2>2 DEF Alone, Active
    <3>2. \A e \in Daemon \ {d} : pc'[e] \in {"none", "ended"}
      BY <1>2, <3>1 DEF Active
    <3> QED
      BY <1>2, <2>2, <3>2 DEF Named
  <2>5. Knows'
    <3>1. \A e \in Daemon : pc'[e] = "serve" => pc[e] = "serve"
      BY <1>2
    <3>2. \A b \in Command : bound[asked[b]] = None => bound'[asked[b]] = None
      BY <1>2
    <3>3. \A b \in Command : /\ cpc'[b] # cpc[b] => cpc'[b] = "done"
                             /\ seen'[b] = seen[b] /\ asked'[b] = asked[b]
      BY <1>2
    <3> QED
      BY <1>2, <2>2, <3>1, <3>2, <3>3, KnowsKept
  <2>6. LeftBehind'
    <3>1. \A b \in Command : cpc'[b] # "kill"
      BY <1>2, <2>2 DEF Alone, Launching, BusyWith
    <3>2. CASE pc'[d] = "readToken"
      BY <1>2, <3>1, <3>2 DEF LeftBehind, Dead
    <3>3. CASE pc'[d] = "ended"
      BY <1>0, <1>2, <2>2, <3>1, <3>3, LeftKept
    <3> QED
      BY <1>2, <3>2, <3>3
  <2>7. Flawless'
    BY <1>2, <2>2, FlawlessKept
  <2>8. (strangers \subseteq uncleared \cup outrun)'
    BY <1>2, <2>2
  <2> QED
    BY <2>3, <2>4, <2>5, <2>6, <2>7, <2>8 DEF OrderlyInv
<1> QED
  BY <1>1, <1>3, <1>4, <1>5, <1>6, TypePartsNext DEF LifeInv

\* Reading the token.
LEMMA ReadTokenStep ==
  ASSUME LifeInv, NEW d \in Daemon, ReadToken(d)
  PROVE  LifeInv'
<1>0. Kinds /\ ListenersServe /\ StrangersEnded /\ PidsAreDaemons
  BY TypeParts DEF LifeInv
<1>1. Kinds'
  <2>1. pc' \in [Daemon -> PC] /\ token' \in [Daemon -> Daemon \cup {None}]
    <3>1. PICK q \in {"bind", "writeToken"} : pc' = [pc EXCEPT ![d] = q]
      BY DEF ReadToken, Moves
    <3>2. PICK s \in {tokenFile, d} : token' = [token EXCEPT ![d] = s]
      BY DEF ReadToken
    <3>3. pc' \in [Daemon -> PC]
      BY <1>0, <3>1 DEF Kinds, PC
    <3>4. token' \in [Daemon -> Daemon \cup {None}]
      BY <1>0, <3>2 DEF Kinds
    <3> QED
      BY <3>3, <3>4
  <2>2. budget' \in 0..MaxFailures
    BY <1>0, FailureSpends DEF Kinds, ReadToken
  <2>3. raced' \in BOOLEAN
    BY <1>0 DEF Kinds, ReadToken, HasToken
  <2>4. UNCHANGED <<files, bound, addr, launcher, commands, orderly, pids, hindered>>
    BY DEF ReadToken
  <2> QED
    BY <1>0, <2>1, <2>2, <2>3, <2>4 DEF Kinds, files, commands, pids
<1>2. /\ pc[d] = "readToken" /\ pc'[d] \in {"bind", "writeToken"}
      /\ \A e \in Daemon \ {d} : pc'[e] = pc[e]
      /\ budget' = MaxFailures => budget = MaxFailures
      /\ UNCHANGED <<pidFile, bound, launcher, cpc, asked, seen, said, orderly,
                     outrun, uncleared, nameless, hindered, killed, strangers>>
  BY <1>0, FailureSpends DEF Kinds, ReadToken, Moves, files, daemon, commands, aux, pids
<1>3. ListenersServe'
  <2>1. bound' = bound /\ \A e \in Daemon : pc'[e] = "serve" <=> pc[e] = "serve"
    BY <1>2
  <2> QED
    BY <1>0, <2>1, ListenersKept
<1>4. StrangersEnded'
  BY <1>0, <1>2, StrangersKept
<1>5. PidsAreDaemons'
  <2>1. \A e \in Daemon : pc[e] # "none" => pc'[e] # "none"
    BY <1>0, <1>2
  <2>2. \A e \in Daemon : launcher'[e] = "pid" => launcher[e] = "pid" \/ pc'[e] # "none"
    BY <1>0, <1>2
  <2>3. \/ pidFile' \in {pidFile, None, Empty}
        \/ pidFile' \in Daemon /\ pc[pidFile'] # "none"
    BY <1>0, <1>2 DEF PidsAreDaemons
  <2>4. \A b \in Command : /\ seen'[b] \in {seen[b], pidFile, None, Empty}
                           /\ cpc'[b] = "kill" => b \in Stop /\ seen'[b] \in Daemon
    BY <1>0, <1>2 DEF PidsAreDaemons
  <2> QED
    BY <1>0, <2>1, <2>2, <2>3, <2>4, PidsKept
<1>6. ASSUME orderly'
      PROVE  OrderlyInv'
  <2>1. /\ orderly /\ OrderlyInv
    BY <1>0, <1>2, <1>6 DEF LifeInv, Kinds
  <2>2. /\ Alone /\ Named /\ Knows /\ LeftBehind /\ Flawless
        /\ strangers \subseteq uncleared \cup outrun
    BY <2>1 DEF OrderlyInv
  <2>3. Alone'
    <3>1. \A e \in Daemon : /\ Active(e)' => Active(e)
                            /\ Launching(e)' => Launching(e)
      BY <1>2 DEF Active, Launching
    <3>2. \A b \in Command : BusyWith(b)' => BusyWith(b)
      BY <1>2 DEF BusyWith
    <3> QED
      BY <2>2, <3>1, <3>2, AloneKept
  <2>4. Named'
    BY <1>2, <2>2, NamedKept
  <2>5. Knows'
    <3>1. \A e \in Daemon : pc'[e] = "serve" => pc[e] = "serve"
      BY <1>2
    <3>2. \A b \in Command : bound[asked[b]] = None => bound'[asked[b]] = None
      BY <1>2
    <3>3. \A b \in Command : /\ cpc'[b] # cpc[b] => cpc'[b] = "done"
                             /\ seen'[b] = seen[b] /\ asked'[b] = asked[b]
      BY <1>2
    <3> QED
      BY <1>2, <2>2, <3>1, <3>2, <3>3, KnowsKept
  <2>6. LeftBehind'
    BY <1>0, <1>2, <2>2, LeftKept
  <2>7. Flawless'
    BY <1>2, <2>2, FlawlessKept
  <2>8. (strangers \subseteq uncleared \cup outrun)'
    BY <1>2, <2>2
  <2> QED
    BY <2>3, <2>4, <2>5, <2>6, <2>7, <2>8 DEF OrderlyInv
<1> QED
  BY <1>1, <1>3, <1>4, <1>5, <1>6, TypePartsNext DEF LifeInv

\* Writing the token.
LEMMA WriteTokenStep ==
  ASSUME LifeInv, NEW d \in Daemon, WriteToken(d)
  PROVE  LifeInv'
<1>0. Kinds /\ ListenersServe /\ StrangersEnded /\ PidsAreDaemons
  BY TypeParts DEF LifeInv
<1>1. Kinds'
  BY <1>0, FailureSpends
     DEF Kinds, PC, WriteToken, Moves, files, daemon, commands, aux, pids, Command
<1>2. /\ pc[d] = "writeToken" /\ pc'[d] \in {"bind", "remove"}
      /\ \A e \in Daemon \ {d} : pc'[e] = pc[e]
      /\ budget' \in 0..MaxFailures
      /\ pc'[d] = "bind" => budget' = budget
      /\ pc'[d] = "remove" => budget' # MaxFailures
      /\ UNCHANGED <<pidFile, bound, launcher, cpc, asked, seen, said, orderly, raced,
                     outrun, uncleared, nameless, hindered, killed, strangers>>
  BY <1>0, FailureSpends DEF Kinds, WriteToken, Moves, files, daemon, commands, aux, pids
<1>3. ListenersServe'
  <2>1. bound' = bound /\ \A e \in Daemon : pc'[e] = "serve" <=> pc[e] = "serve"
    BY <1>2
  <2> QED
    BY <1>0, <2>1, ListenersKept
<1>4. StrangersEnded'
  BY <1>0, <1>2, StrangersKept
<1>5. PidsAreDaemons'
  <2>1. \A e \in Daemon : pc[e] # "none" => pc'[e] # "none"
    BY <1>0, <1>2
  <2>2. \A e \in Daemon : launcher'[e] = "pid" => launcher[e] = "pid" \/ pc'[e] # "none"
    BY <1>0, <1>2
  <2>3. \/ pidFile' \in {pidFile, None, Empty}
        \/ pidFile' \in Daemon /\ pc[pidFile'] # "none"
    BY <1>0, <1>2 DEF PidsAreDaemons
  <2>4. \A b \in Command : /\ seen'[b] \in {seen[b], pidFile, None, Empty}
                           /\ cpc'[b] = "kill" => b \in Stop /\ seen'[b] \in Daemon
    BY <1>0, <1>2 DEF PidsAreDaemons
  <2> QED
    BY <1>0, <2>1, <2>2, <2>3, <2>4, PidsKept
<1>6. ASSUME orderly'
      PROVE  OrderlyInv'
  <2>1. /\ orderly /\ OrderlyInv
    BY <1>0, <1>2, <1>6 DEF LifeInv, Kinds
  <2>2. /\ Alone /\ Named /\ Knows /\ LeftBehind /\ Flawless
        /\ strangers \subseteq uncleared \cup outrun
    BY <2>1 DEF OrderlyInv
  <2>3. Alone'
    <3>1. \A e \in Daemon : /\ Active(e)' => Active(e)
                            /\ Launching(e)' => Launching(e)
      BY <1>2 DEF Active, Launching
    <3>2. \A b \in Command : BusyWith(b)' => BusyWith(b)
      BY <1>2 DEF BusyWith
    <3> QED
      BY <2>2, <3>1, <3>2, AloneKept
  <2>4. Named'
    BY <1>2, <2>2, NamedKept
  <2>5. Knows'
    <3>1. \A e \in Daemon : pc'[e] = "serve" => pc[e] = "serve"
      BY <1>2
    <3>2. \A b \in Command : bound[asked[b]] = None => bound'[asked[b]] = None
      BY <1>2
    <3>3. \A b \in Command : /\ cpc'[b] # cpc[b] => cpc'[b] = "done"
                             /\ seen'[b] = seen[b] /\ asked'[b] = asked[b]
      BY <1>2
    <3> QED
      BY <1>2, <2>2, <3>1, <3>2, <3>3, KnowsKept
  <2>6. LeftBehind'
    BY <1>0, <1>2, <2>2, LeftKept
  <2>7. Flawless'
    BY <1>2, <2>2, FlawlessKept
  <2>8. (strangers \subseteq uncleared \cup outrun)'
    BY <1>2, <2>2
  <2> QED
    BY <2>3, <2>4, <2>5, <2>6, <2>7, <2>8 DEF OrderlyInv
<1> QED
  BY <1>1, <1>3, <1>4, <1>5, <1>6, TypePartsNext DEF LifeInv

\* Listening: alone, a daemon finds its address free.
LEMMA BindStep ==
  ASSUME LifeInv, NEW d \in Daemon, Bind(d) \/ BindFails(d)
  PROVE  LifeInv'
<1>0. Kinds /\ ListenersServe /\ StrangersEnded /\ PidsAreDaemons
  BY TypeParts DEF LifeInv
<1>1. Kinds'
  <2>1. CASE Bind(d)
    <3>1. pc' \in [Daemon -> PC]
      <4>1. \E q \in {"serve", "remove"} : pc' = [pc EXCEPT ![d] = q]
        BY <2>1 DEF Bind, AfterListen, Moves
      <4>2. pc \in [Daemon -> PC]
        BY <1>0 DEF Kinds
      <4> QED
        BY <4>1, <4>2 DEF PC
    <3>2. bound' \in [Addr -> Daemon \cup {None}] /\ budget' \in 0..MaxFailures
      <4>1. bound' = [bound EXCEPT ![addr[d]] = d] \/ bound' = bound
        BY <2>1 DEF Bind
      <4>2. bound \in [Addr -> Daemon \cup {None}] /\ budget \in 0..MaxFailures
        BY <1>0 DEF Kinds
      <4>3. budget' = budget \/ Failure
        BY <2>1 DEF Bind
      <4> QED
        BY <4>1, <4>2, <4>3, FailureSpends
    <3>3. UNCHANGED <<files, addr, token, launcher, commands, aux>>
      BY <2>1 DEF Bind
    <3> QED
      BY <1>0, <3>1, <3>2, <3>3 DEF Kinds, files, commands, aux, pids
  <2>2. CASE BindFails(d)
    BY <1>0, <2>2, FailureSpends
       DEF Kinds, PC, BindFails, Taken, Moves, files, daemon, commands, aux, pids, Command
  <2> QED
    BY <2>1, <2>2
<1>2. /\ pc[d] = "bind" /\ pc'[d] \in {"serve", "remove"}
      /\ \A e \in Daemon \ {d} : pc'[e] = pc[e]
      /\ budget' \in 0..MaxFailures
      /\ pc'[d] = "serve" => /\ bound[addr[d]] = None /\ bound' = [bound EXCEPT ![addr[d]] = d]
                            /\ budget' = budget
      /\ pc'[d] = "remove" => /\ bound' = bound
                              /\ budget' # MaxFailures \/ bound[addr[d]] # None
      /\ budget' = MaxFailures => budget = MaxFailures
      /\ UNCHANGED <<pidFile, addr, launcher, cpc, asked, seen, said, orderly, raced,
                     outrun, uncleared, nameless, hindered, killed, strangers>>
  BY <1>0, FailureSpends
     DEF Kinds, Bind, BindFails, Taken, AfterListen, Moves, files, daemon, commands, aux, pids
<1>3. ListenersServe'
  <2>1. CASE pc'[d] = "serve"
    <3>1. addr[d] \in Addr /\ bound[addr[d]] = None /\ bound' = [bound EXCEPT ![addr[d]] = d]
      BY <1>0, <1>2, <2>1 DEF Kinds
    <3>2. bound'[addr[d]] = d /\ \A a \in Addr \ {addr[d]} : bound'[a] = bound[a]
      BY <1>0, <3>1 DEF Kinds
    <3>3. \A e \in Daemon : e # None
      BY DEF Daemon
    <3>4. ASSUME NEW e \in Daemon
          PROVE  pc'[e] = "serve" <=> \E a \in Addr : bound'[a] = e
      <4>1. CASE e = d
        BY <2>1, <3>1, <3>2, <4>1
      <4>2. CASE e # d
        <5>1. \A a \in Addr : bound'[a] = e <=> bound[a] = e
          BY <3>1, <3>2, <3>3, <4>2
        <5> QED
          BY <1>0, <1>2, <4>2, <5>1 DEF ListenersServe
      <4> QED
        BY <4>1, <4>2
    <3> QED
      BY <3>4 DEF ListenersServe
  <2>2. CASE pc'[d] = "remove"
    <3>1. \A e \in Daemon : pc'[e] = "serve" <=> pc[e] = "serve"
      BY <1>0, <1>2, <2>2
    <3>2. bound' = bound
      BY <1>2, <2>2
    <3> QED
      BY <1>0, <3>1, <3>2, ListenersKept
  <2> QED
    BY <1>2, <2>1, <2>2
<1>4. StrangersEnded'
  BY <1>0, <1>2, StrangersKept
<1>5. PidsAreDaemons'
  <2>1. \A e \in Daemon : pc[e] # "none" => pc'[e] # "none"
    BY <1>0, <1>2
  <2>2. \A e \in Daemon : launcher'[e] = "pid" => launcher[e] = "pid" \/ pc'[e] # "none"
    BY <1>0, <1>2
  <2>3. \/ pidFile' \in {pidFile, None, Empty}
        \/ pidFile' \in Daemon /\ pc[pidFile'] # "none"
    BY <1>0, <1>2 DEF PidsAreDaemons
  <2>4. \A b \in Command : /\ seen'[b] \in {seen[b], pidFile, None, Empty}
                           /\ cpc'[b] = "kill" => b \in Stop /\ seen'[b] \in Daemon
    BY <1>0, <1>2 DEF PidsAreDaemons
  <2> QED
    BY <1>0, <2>1, <2>2, <2>3, <2>4, PidsKept
<1>6. ASSUME orderly'
      PROVE  OrderlyInv'
  <2>1. /\ orderly /\ OrderlyInv
    BY <1>0, <1>2, <1>6 DEF LifeInv, Kinds
  <2>2. /\ Alone /\ Named /\ Knows /\ LeftBehind /\ Flawless
        /\ strangers \subseteq uncleared \cup outrun
    BY <2>1 DEF OrderlyInv
  <2>3. Alone'
    <3>1. \A e \in Daemon : /\ Active(e)' => Active(e)
                            /\ Launching(e)' => Launching(e)
      BY <1>2 DEF Active, Launching
    <3>2. \A b \in Command : BusyWith(b)' => BusyWith(b)
      BY <1>2 DEF BusyWith
    <3> QED
      BY <2>2, <3>1, <3>2, AloneKept
  <2>4. Named'
    BY <1>2, <2>2, NamedKept
  <2>5. Knows'
    <3>1. \A c \in Command : cpc'[c] \in {"none", "done"}
      BY <1>2, <2>2 DEF Alone, Launching, BusyWith
    <3> QED
      BY <3>1 DEF Knows
  <2>6. LeftBehind'
    BY <1>0, <1>2, <2>2, LeftKept
  <2>7. Flawless'
    <3> SUFFICES ASSUME budget' = MaxFailures, NEW e \in Daemon
                 PROVE  /\ pc'[e] # "remove"
                        /\ Dead(e)' /\ e \notin killed' => launcher'[e] = "failed"
      BY DEF Flawless
    <3>1. budget = MaxFailures /\ killed' = killed /\ launcher' = launcher
      BY <1>2
    <3>2. pc[e] # "remove" /\ (Dead(e) /\ e \notin killed => launcher[e] = "failed")
      BY <2>2, <3>1 DEF Flawless
    <3>3. CASE e = d
      <4>1. bound[addr[d]] = None
        <5> SUFFICES ASSUME bound[addr[d]] # None
                     PROVE  FALSE
          OBVIOUS
        <5>0. addr[d] \in Addr /\ bound[addr[d]] \in Daemon \cup {None}
          BY <1>0 DEF Kinds
        <5>1. addr[d] \in Addr /\ bound[addr[d]] \in Daemon
          BY <5>0
        <5>2. pc[bound[addr[d]]] = "serve"
          BY <1>0, <5>1 DEF ListenersServe
        <5>3. bound[addr[d]] = d
          BY <1>2, <2>2, <5>1, <5>2 DEF Alone, Active
        <5> QED
          BY <1>2, <5>2, <5>3
      <4>2. pc'[d] = "serve"
        BY <1>2, <4>1
      <4> QED
        BY <3>3, <4>2 DEF Dead
    <3>4. CASE e # d
      BY <1>2, <3>1, <3>2, <3>4 DEF Dead
    <3> QED
      BY <3>3, <3>4
  <2>8. (strangers \subseteq uncleared \cup outrun)'
    BY <1>2, <2>2
  <2> QED
    BY <2>3, <2>4, <2>5, <2>6, <2>7, <2>8 DEF OrderlyInv
<1> QED
  BY <1>1, <1>3, <1>4, <1>5, <1>6, TypePartsNext DEF LifeInv

\* The removal of the PID file at the end.
LEMMA RemovePidStep ==
  ASSUME LifeInv, NEW d \in Daemon, RemovePid(d)
  PROVE  LifeInv'
<1>0. Kinds /\ ListenersServe /\ StrangersEnded /\ PidsAreDaemons
  BY TypeParts DEF LifeInv
<1>1. Kinds'
  BY <1>0, FailureSpends
     DEF Kinds, PC, RemovePid, Removed, Moves, files, daemon, commands, aux, pids, Command
<1>2. /\ pc[d] = "remove" /\ pc'[d] = "ended"
      /\ \A e \in Daemon \ {d} : pc'[e] = pc[e]
      /\ pidFile' = None \/ (pidFile' = pidFile /\ d \in uncleared')
      /\ uncleared \subseteq uncleared'
      /\ budget' = MaxFailures => budget = MaxFailures
      /\ outrun' = outrun \cup ({d} \cap {seen[c] : c \in {s \in Stop : cpc[s] = "kill"}})
      /\ UNCHANGED <<bound, launcher, cpc, asked, seen, said, orderly, nameless,
                     hindered, killed, strangers>>
  BY <1>0, FailureSpends
     DEF Kinds, RemovePid, Removed, Moves, files, daemon, commands, aux, pids
<1>3. ListenersServe'
  BY <1>0, <1>2, ListenersKept
<1>4. StrangersEnded'
  BY <1>0, <1>2, StrangersKept
<1>5. PidsAreDaemons'
  <2>1. \A e \in Daemon : pc[e] # "none" => pc'[e] # "none"
    BY <1>0, <1>2
  <2>2. \A e \in Daemon : launcher'[e] = "pid" => launcher[e] = "pid" \/ pc'[e] # "none"
    BY <1>0, <1>2
  <2>3. \/ pidFile' \in {pidFile, None, Empty}
        \/ pidFile' \in Daemon /\ pc[pidFile'] # "none"
    BY <1>0, <1>2 DEF PidsAreDaemons
  <2>4. \A b \in Command : /\ seen'[b] \in {seen[b], pidFile, None, Empty}
                           /\ cpc'[b] = "kill" => b \in Stop /\ seen'[b] \in Daemon
    BY <1>0, <1>2 DEF PidsAreDaemons
  <2> QED
    BY <1>0, <2>1, <2>2, <2>3, <2>4, PidsKept
<1>6. ASSUME orderly'
      PROVE  OrderlyInv'
  <2>1. /\ orderly /\ OrderlyInv
    BY <1>0, <1>2, <1>6 DEF LifeInv, Kinds
  <2>2. /\ Alone /\ Named /\ Knows /\ LeftBehind /\ Flawless
        /\ strangers \subseteq uncleared \cup outrun
    BY <2>1 DEF OrderlyInv
  <2>3. Alone'
    <3>1. \A e \in Daemon : /\ Active(e)' => Active(e)
                            /\ Launching(e)' => Launching(e)
      BY <1>2 DEF Active, Launching
    <3>2. \A b \in Command : BusyWith(b)' => BusyWith(b)
      BY <1>2 DEF BusyWith
    <3> QED
      BY <2>2, <3>1, <3>2, AloneKept
  <2>4. Named'
    <3>1. \A e \in Daemon \ {d} : ~Active(e)
      BY <1>2, <2>2 DEF Alone, Active
    <3>2. \A e \in Daemon \ {d} : pc'[e] \in {"none", "ended"}
      BY <1>2, <3>1 DEF Active
    <3> QED
      BY <1>2, <2>2, <3>2 DEF Named
  <2>5. Knows'
    <3>1. \A e \in Daemon : pc'[e] = "serve" => pc[e] = "serve"
      BY <1>2
    <3>2. \A b \in Command : bound[asked[b]] = None => bound'[asked[b]] = None
      BY <1>2
    <3>3. \A b \in Command : /\ cpc'[b] # cpc[b] => cpc'[b] = "done"
                             /\ seen'[b] = seen[b] /\ asked'[b] = asked[b]
      BY <1>2
    <3> QED
      BY <1>2, <2>2, <3>1, <3>2, <3>3, KnowsKept
  <2>6. LeftBehind'
    <3>1. \A c \in Command : cpc[c] = "kill" /\ seen[c] = d => d \in outrun'
      BY <1>0, <1>2 DEF PidsAreDaemons
    <3>2. outrun \subseteq outrun' /\ (pidFile' = d => d \in uncleared')
      BY <1>2, NoPids
    <3> QED
      BY <1>0, <1>2, <2>2, <3>1, <3>2, LeftKept
  <2>7. Flawless'
    BY <1>2, <2>2 DEF Flawless
  <2>8. (strangers \subseteq uncleared \cup outrun)'
    BY <1>2, <2>2
  <2> QED
    BY <2>3, <2>4, <2>5, <2>6, <2>7, <2>8 DEF OrderlyInv
<1> QED
  BY <1>1, <1>3, <1>4, <1>5, <1>6, TypePartsNext DEF LifeInv

\* A daemon whose server fails goes on to remove its PID.
LEMMA ServeFailsStep ==
  ASSUME LifeInv, NEW d \in Daemon, ServeFails(d)
  PROVE  LifeInv'
<1>0. Kinds /\ ListenersServe /\ StrangersEnded /\ PidsAreDaemons
  BY TypeParts DEF LifeInv
<1>1. Kinds'
  BY <1>0, FailureSpends
     DEF Kinds, PC, ServeFails, Released, Moves, files, daemon, commands, aux, pids, Command
<1>2. /\ pc[d] = "serve" /\ pc'[d] = "remove"
      /\ \A e \in Daemon \ {d} : pc'[e] = pc[e]
      /\ \A a \in Addr : bound'[a] = IF bound[a] = d THEN None ELSE bound[a]
      /\ budget' \in 0..MaxFailures /\ budget' # MaxFailures
      /\ UNCHANGED <<pidFile, launcher, cpc, asked, seen, said, orderly, raced, outrun,
                     uncleared, nameless, hindered, killed, strangers>>
  BY <1>0, FailureSpends
     DEF Kinds, ServeFails, Released, Moves, files, daemon, commands, aux, pids
<1>3. ListenersServe'
  BY <1>0, <1>2, ListenersReleased
<1>4. StrangersEnded'
  BY <1>0, <1>2, StrangersKept
<1>5. PidsAreDaemons'
  <2>1. \A e \in Daemon : pc[e] # "none" => pc'[e] # "none"
    BY <1>0, <1>2
  <2>2. \A e \in Daemon : launcher'[e] = "pid" => launcher[e] = "pid" \/ pc'[e] # "none"
    BY <1>0, <1>2
  <2>3. \/ pidFile' \in {pidFile, None, Empty}
        \/ pidFile' \in Daemon /\ pc[pidFile'] # "none"
    BY <1>0, <1>2 DEF PidsAreDaemons
  <2>4. \A b \in Command : /\ seen'[b] \in {seen[b], pidFile, None, Empty}
                           /\ cpc'[b] = "kill" => b \in Stop /\ seen'[b] \in Daemon
    BY <1>0, <1>2 DEF PidsAreDaemons
  <2> QED
    BY <1>0, <2>1, <2>2, <2>3, <2>4, PidsKept
<1>6. ASSUME orderly'
      PROVE  OrderlyInv'
  <2>1. /\ orderly /\ OrderlyInv
    BY <1>0, <1>2, <1>6 DEF LifeInv, Kinds
  <2>2. /\ Alone /\ Named /\ Knows /\ LeftBehind /\ Flawless
        /\ strangers \subseteq uncleared \cup outrun
    BY <2>1 DEF OrderlyInv
  <2>3. Alone'
    <3>1. \A e \in Daemon : /\ Active(e)' => Active(e)
                            /\ Launching(e)' => Launching(e)
      BY <1>2 DEF Active, Launching
    <3>2. \A b \in Command : BusyWith(b)' => BusyWith(b)
      BY <1>2 DEF BusyWith
    <3> QED
      BY <2>2, <3>1, <3>2, AloneKept
  <2>4. Named'
    BY <1>2, <2>2, NamedKept
  <2>5. Knows'
    <3>1. \A e \in Daemon : pc'[e] = "serve" => pc[e] = "serve"
      BY <1>0, <1>2 DEF Kinds
    <3>2. \A b \in Command : bound[asked[b]] = None => bound'[asked[b]] = None
      BY <1>0, <1>2 DEF Kinds
    <3>3. \A b \in Command : /\ cpc'[b] # cpc[b] => cpc'[b] = "done"
                             /\ seen'[b] = seen[b] /\ asked'[b] = asked[b]
      BY <1>2
    <3> QED
      BY <1>2, <2>2, <3>1, <3>2, <3>3, KnowsKept
  <2>6. LeftBehind'
    BY <1>0, <1>2, <2>2, LeftKept
  <2>7. Flawless'
    BY <1>2, <2>2, FlawlessKept
  <2>8. (strangers \subseteq uncleared \cup outrun)'
    BY <1>2, <2>2
  <2> QED
    BY <2>3, <2>4, <2>5, <2>6, <2>7, <2>8 DEF OrderlyInv
<1> QED
  BY <1>1, <1>3, <1>4, <1>5, <1>6, TypePartsNext DEF LifeInv

\* An abrupt end leaves the PID behind.
LEMMA CrashStep ==
  ASSUME LifeInv, NEW d \in Daemon, Crash(d)
  PROVE  LifeInv'
<1>0. Kinds /\ ListenersServe /\ StrangersEnded /\ PidsAreDaemons
  BY TypeParts DEF LifeInv
<1>1. Kinds'
  BY <1>0, FailureSpends
     DEF Kinds, PC, Crash, HalfWritten, Released, files, daemon, commands, aux, pids, Command
<1>2. /\ pc[d] \notin {"none", "ended"} /\ pc'[d] = "ended"
      /\ \A e \in Daemon \ {d} : pc'[e] = pc[e]
      /\ \A a \in Addr : bound'[a] = IF bound[a] = d THEN None ELSE bound[a]
      /\ budget' \in 0..MaxFailures /\ budget' # MaxFailures
      /\ uncleared' = uncleared \cup {d} /\ pidFile' \in {pidFile, Empty}
      /\ UNCHANGED <<launcher, cpc, asked, seen, said, orderly, outrun, nameless,
                     hindered, killed, strangers>>
  BY <1>0, FailureSpends
     DEF Kinds, Crash, HalfWritten, Released, files, daemon, commands, aux, pids
<1>3. ListenersServe'
  BY <1>0, <1>2, ListenersReleased
<1>4. StrangersEnded'
  BY <1>0, <1>2, StrangersKept
<1>5. PidsAreDaemons'
  <2>1. \A e \in Daemon : pc[e] # "none" => pc'[e] # "none"
    BY <1>0, <1>2
  <2>2. \A e \in Daemon : launcher'[e] = "pid" => launcher[e] = "pid" \/ pc'[e] # "none"
    BY <1>0, <1>2
  <2>3. \/ pidFile' \in {pidFile, None, Empty}
        \/ pidFile' \in Daemon /\ pc[pidFile'] # "none"
    BY <1>0, <1>2 DEF PidsAreDaemons
  <2>4. \A b \in Command : /\ seen'[b] \in {seen[b], pidFile, None, Empty}
                           /\ cpc'[b] = "kill" => b \in Stop /\ seen'[b] \in Daemon
    BY <1>0, <1>2 DEF PidsAreDaemons
  <2> QED
    BY <1>0, <2>1, <2>2, <2>3, <2>4, PidsKept
<1>6. ASSUME orderly'
      PROVE  OrderlyInv'
  <2>1. /\ orderly /\ OrderlyInv
    BY <1>0, <1>2, <1>6 DEF LifeInv, Kinds
  <2>2. /\ Alone /\ Named /\ Knows /\ LeftBehind /\ Flawless
        /\ strangers \subseteq uncleared \cup outrun
    BY <2>1 DEF OrderlyInv
  <2>3. Alone'
    <3>1. \A e \in Daemon : /\ Active(e)' => Active(e)
                            /\ Launching(e)' => Launching(e)
      BY <1>2 DEF Active, Launching
    <3>2. \A b \in Command : BusyWith(b)' => BusyWith(b)
      BY <1>2 DEF BusyWith
    <3> QED
      BY <2>2, <3>1, <3>2, AloneKept
  <2>4. Named'
    <3>1. \A e \in Daemon \ {d} : ~Active(e)
      BY <1>2, <2>2 DEF Alone, Active
    <3>2. \A e \in Daemon \ {d} : pc'[e] \in {"none", "ended"}
      BY <1>2, <3>1 DEF Active
    <3> QED
      BY <1>2, <2>2, <3>2 DEF Named
  <2>5. Knows'
    <3>1. \A e \in Daemon : pc'[e] = "serve" => pc[e] = "serve"
      BY <1>0, <1>2 DEF Kinds
    <3>2. \A b \in Command : bound[asked[b]] = None => bound'[asked[b]] = None
      BY <1>0, <1>2 DEF Kinds
    <3>3. \A b \in Command : /\ cpc'[b] # cpc[b] => cpc'[b] = "done"
                             /\ seen'[b] = seen[b] /\ asked'[b] = asked[b]
      BY <1>2
    <3> QED
      BY <1>2, <2>2, <3>1, <3>2, <3>3, KnowsKept
  <2>6. LeftBehind'
    BY <1>0, <1>2, <2>2, LeftKept
  <2>7. Flawless'
    BY <1>2, <2>2, FlawlessKept
  <2>8. (strangers \subseteq uncleared \cup outrun)'
    BY <1>2, <2>2
  <2> QED
    BY <2>3, <2>4, <2>5, <2>6, <2>7, <2>8 DEF OrderlyInv
<1> QED
  BY <1>1, <1>3, <1>4, <1>5, <1>6, TypePartsNext DEF LifeInv

\* A command reads the file: if there is a PID in it, it is that of the daemon there is.
LEMMA ReadStep ==
  ASSUME LifeInv, Kinds', NEW c \in Command, cpc[c] = "none",
         cpc'[c] \in {"done", "kill", "probe"}, seen'[c] \in {pidFile, None, Empty},
         cpc'[c] # "done" => pidFile \in Daemon /\ seen'[c] = pidFile,
         cpc'[c] = "kill" => c \in Stop,
         \A b \in Command \ {c} : cpc'[b] = cpc[b] /\ seen'[b] = seen[b] /\ asked'[b] = asked[b],
         pidFile' = pidFile \/ (pidFile = Empty /\ pidFile' = None),
         budget' = MaxFailures => budget = MaxFailures,
         orderly' => orderly /\ Starting = {} /\ ~Busy,
         UNCHANGED <<bound, pc, launcher, outrun, uncleared, nameless, killed, strangers>>
  PROVE  LifeInv'
<1>0. Kinds /\ ListenersServe /\ StrangersEnded /\ PidsAreDaemons
  BY TypeParts DEF LifeInv
<1>1. ListenersServe'
  <2>1. bound' = bound /\ \A e \in Daemon : pc'[e] = "serve" <=> pc[e] = "serve"
    OBVIOUS
  <2> QED
    BY <1>0, <2>1, ListenersKept
<1>2. StrangersEnded'
  BY <1>0, StrangersKept
<1>3. PidsAreDaemons'
  <2>1. \A b \in Command : /\ seen'[b] \in {seen[b], pidFile, None, Empty}
                           /\ cpc'[b] = "kill" => b \in Stop /\ seen'[b] \in Daemon
    BY <1>0 DEF PidsAreDaemons
  <2> QED
    BY <1>0, <2>1, PidsKept
<1>4. ASSUME orderly'
      PROVE  OrderlyInv'
  <2>1. /\ \A e \in Daemon : ~Launching(e) /\ pc[e] # "remove"
        /\ \A e \in Command : ~BusyWith(e)
        /\ orderly /\ OrderlyInv
    <3>1. orderly /\ Starting = {} /\ ~Busy
      BY <1>4
    <3>2. \A e \in Daemon : e \notin Starting
      BY <3>1
    <3> QED
      BY <3>1, <3>2 DEF LifeInv, Launching, Starting, Busy, BusyWith
  <2>2. /\ Alone /\ Named /\ Knows /\ LeftBehind /\ Flawless
        /\ strangers \subseteq uncleared \cup outrun
    BY <2>1 DEF OrderlyInv
  <2>3. Alone'
    <3>1. \A e \in Daemon : ~Launching(e)' /\ (Active(e)' => Active(e))
      BY <2>1 DEF Active, Launching
    <3>2. \A b \in Command : BusyWith(b)' => b = c
      BY <2>1 DEF BusyWith
    <3> QED
      BY <2>2, <3>1, <3>2 DEF Alone
  <2>4. Named'
    BY <2>2, NoPids DEF Named
  <2>5. Knows'
    <3>1. \A b \in Command \ {c} : cpc'[b] \in {"none", "done"}
      BY <2>1 DEF BusyWith
    <3>2. cpc'[c] # "done" => \A e \in Daemon : pc'[e] = "serve" => seen'[c] = e
      BY <2>2 DEF Named
    <3> QED
      BY <3>1, <3>2 DEF Knows
  <2>6. LeftBehind'
    <3>1. pidFile \in Daemon => ~Dead(pidFile) \/ pidFile \in uncleared \cup outrun
      BY <2>1, <2>2 DEF LeftBehind, BusyWith
    <3>2. \A b \in Command : cpc'[b] = "kill" => b = c
      BY <2>1 DEF BusyWith
    <3>3. \A p \in Daemon : Dead(p)' <=> Dead(p)
      BY DEF Dead
    <3> QED
      BY <3>1, <3>2, <3>3, NoPids DEF LeftBehind
  <2>7. Flawless'
    BY <2>2, FlawlessKept
  <2>8. (strangers \subseteq uncleared \cup outrun)'
    BY <2>2
  <2> QED
    BY <2>3, <2>4, <2>5, <2>6, <2>7, <2>8 DEF OrderlyInv
<1> QED
  BY <1>1, <1>2, <1>3, <1>4, TypePartsNext DEF LifeInv

\* What a command reads is of its kind.
LEMMA ReadKinds ==
  ASSUME Kinds, NEW c \in Command, NEW p \in Daemon \cup {None, Empty}, ReadPid(c, p),
         NEW next \in {"done", "kill", "probe"}, cpc' = [cpc EXCEPT ![c] = next],
         NEW what \in {"not running", "offline"},
         said' \in {said, [said EXCEPT ![c] = what]},
         NEW a \in Addr, asked' \in {asked, [asked EXCEPT ![c] = a]}, pidFile' = pidFile
  PROVE  Kinds'
<1>1. cpc' \in [Command -> {"none", "kill", "wait", "probe", "fallback", "done"}]
  BY DEF Kinds
<1>2. said' \in [Command -> {"nothing", "stopped", "not running", "running", "offline"}]
  BY DEF Kinds
<1>3. asked' \in [Command -> Addr] /\ seen' \in [Command -> Daemon \cup {None, Empty}]
  <2>1. asked' \in [Command -> Addr]
    BY DEF Kinds
  <2>2. seen' = [seen EXCEPT ![c] = p]
    BY DEF ReadPid
  <2>3. seen' \in [Command -> Daemon \cup {None, Empty}]
    BY <2>2 DEF Kinds
  <2> QED
    BY <2>1, <2>3
<1>4. budget' \in 0..MaxFailures /\ hindered' \subseteq Command /\ orderly' \in BOOLEAN
  <2>1. CASE Succeeds
    BY <2>1 DEF Kinds, ReadPid, Succeeds
  <2>2. CASE Hinders(c)
    BY <2>2, FailureSpends DEF Kinds, ReadPid, Hinders
  <2> QED
    BY <2>1, <2>2 DEF ReadPid
<1>5. UNCHANGED <<home, tokenFile, bound, daemon, raced, pids>>
  BY DEF ReadPid
<1> QED
  BY <1>1, <1>2, <1>3, <1>4, <1>5 DEF Kinds, daemon, pids

\* How a stop and a status begin.
LEMMA StopReadsStep ==
  ASSUME LifeInv, NEW c \in Stop, StopReads(c) \/ StopDiscards(c)
  PROVE  LifeInv'
<1>0. Kinds
  BY TypeParts DEF LifeInv
<1>1. Kinds'
  <2>1. CASE StopReads(c)
    <3>1. PICK p \in Daemon \cup {None} : ReadPid(c, p)
      BY <2>1 DEF StopReads
    <3>2. \E next \in {"done", "kill"} : cpc' = [cpc EXCEPT ![c] = next]
      BY <2>1 DEF StopReads, Reports, Goes
    <3>3. said' \in {said, [said EXCEPT ![c] = "not running"]}
      BY <2>1 DEF StopReads, Reports, Goes
    <3>4. UNCHANGED <<pidFile, asked>>
      BY <2>1 DEF StopReads
    <3> QED
      BY <1>0, <3>1, <3>2, <3>3, <3>4, ReadKinds DEF Command
  <2>2. CASE StopDiscards(c)
    BY <1>0, <2>2, FailureSpends
       DEF Kinds, PC, StopDiscards, Succeeds, Hinders, Reports, Command, daemon, pids
  <2> QED
    BY <2>1, <2>2
<1>2. /\ c \in Command /\ cpc[c] = "none" /\ cpc'[c] \in {"done", "kill"}
      /\ seen'[c] \in {pidFile, None, Empty}
      /\ cpc'[c] # "done" => pidFile \in Daemon /\ seen'[c] = pidFile
      /\ \A b \in Command \ {c} : cpc'[b] = cpc[b] /\ seen'[b] = seen[b] /\ asked'[b] = asked[b]
      /\ pidFile' = pidFile \/ (pidFile = Empty /\ pidFile' = None)
      /\ budget' = MaxFailures => budget = MaxFailures
      /\ orderly' => orderly /\ Starting = {} /\ ~Busy
      /\ UNCHANGED <<bound, pc, launcher, outrun, uncleared, nameless, killed, strangers>>
  <2>1. CASE StopReads(c)
    BY <1>0, <2>1, FailureSpends, NoPids
       DEF Kinds, StopReads, ReadPid, Succeeds, Hinders, Reports, Goes, Command, daemon,
           pids
  <2>2. CASE StopDiscards(c)
    BY <1>0, <2>2, FailureSpends
       DEF Kinds, StopDiscards, Succeeds, Hinders, Reports, Command, daemon, pids
  <2> QED
    BY <2>1, <2>2
<1> QED
  BY <1>1, <1>2, ReadStep

LEMMA StatusReadsStep ==
  ASSUME LifeInv, NEW c \in Status, NEW a \in Addr, StatusReads(c, a)
  PROVE  LifeInv'
<1>0. Kinds
  BY TypeParts DEF LifeInv
<1>1. Kinds'
  <2>1. PICK p \in Daemon \cup {None, Empty} : ReadPid(c, p)
    BY DEF StatusReads
  <2>2. \E next \in {"done", "probe"} : cpc' = [cpc EXCEPT ![c] = next]
    BY DEF StatusReads, Reports, Goes
  <2>3. said' \in {said, [said EXCEPT ![c] = "offline"]}
    BY DEF StatusReads, Reports, Goes
  <2>4. pidFile' = pidFile /\ asked' = [asked EXCEPT ![c] = a]
    BY DEF StatusReads
  <2> QED
    BY <1>0, <2>1, <2>2, <2>3, <2>4, ReadKinds DEF Command
<1>2. /\ c \in Command /\ cpc[c] = "none" /\ cpc'[c] \in {"done", "probe"}
      /\ seen'[c] \in {pidFile, None, Empty}
      /\ cpc'[c] # "done" => pidFile \in Daemon /\ seen'[c] = pidFile
      /\ \A b \in Command \ {c} : cpc'[b] = cpc[b] /\ seen'[b] = seen[b] /\ asked'[b] = asked[b]
      /\ pidFile' = pidFile
      /\ budget' = MaxFailures => budget = MaxFailures
      /\ orderly' => orderly /\ Starting = {} /\ ~Busy
      /\ UNCHANGED <<bound, pc, launcher, outrun, uncleared, nameless, killed, strangers>>
  BY <1>0, FailureSpends, NoPids
     DEF Kinds, StatusReads, ReadPid, Succeeds, Hinders, Reports, Goes, Command, daemon,
         pids
<1> QED
  BY <1>1, <1>2, ReadStep

\* The kill ends the daemon, or hits a PID that was left behind.
LEMMA StopKillsStep ==
  ASSUME LifeInv, NEW c \in Stop, StopKills(c)
  PROVE  LifeInv'
<1>0. Kinds /\ ListenersServe /\ StrangersEnded /\ PidsAreDaemons
  BY TypeParts DEF LifeInv
<1>1. Kinds'
  BY <1>0 DEF Kinds, PC, StopKills, Kills, Goes, Command, files, daemon, commands, aux, pids
<1>2. /\ cpc[c] = "kill" /\ cpc'[c] = "wait"
      /\ \A b \in Command \ {c} : cpc'[b] = cpc[b]
      /\ \A d \in Daemon : pc'[d] = IF d = seen[c] /\ pc[d] # "none" THEN "ended" ELSE pc[d]
      /\ \A a \in Addr :
           bound'[a] = IF /\ bound[a] = seen[c] /\ bound[a] \in Daemon
                          /\ pc[bound[a]] \notin {"none", "ended"}
                         THEN None ELSE bound[a]
      /\ killed \subseteq killed' /\ strangers' \subseteq strangers \cup {seen[c]}
      /\ seen[c] \in Daemon /\ pc[seen[c]] \notin {"none", "ended"} =>
           seen[c] \in killed' /\ strangers' = strangers
      /\ UNCHANGED <<pidFile, launcher, asked, seen, budget, orderly, outrun, uncleared,
                     nameless, hindered>>
  <2>1. /\ cpc[c] = "kill" /\ cpc'[c] = "wait"
        /\ \A b \in Command \ {c} : cpc'[b] = cpc[b]
    BY <1>0 DEF Kinds, StopKills, Goes, Command
  <2>2. \A d \in Daemon : pc'[d] = IF d = seen[c] /\ pc[d] # "none" THEN "ended" ELSE pc[d]
    BY <1>0 DEF Kinds, StopKills, Kills
  <2>3. \A a \in Addr :
          bound'[a] = IF /\ bound[a] = seen[c] /\ bound[a] \in Daemon
                         /\ pc[bound[a]] \notin {"none", "ended"}
                        THEN None ELSE bound[a]
    BY DEF StopKills, Kills
  <2>4. /\ killed \subseteq killed' /\ strangers' \subseteq strangers \cup {seen[c]}
        /\ seen[c] \in Daemon /\ pc[seen[c]] \notin {"none", "ended"} =>
             seen[c] \in killed' /\ strangers' = strangers
    BY DEF StopKills, Kills
  <2>5. UNCHANGED <<pidFile, launcher, asked, seen, budget, orderly, outrun, uncleared,
                    nameless, hindered>>
    BY DEF StopKills, files
  <2> QED
    BY <2>1, <2>2, <2>3, <2>4, <2>5
<1>3. ListenersServe'
  <2>0. c \in Command
    BY DEF Command
  <2>1. c \in Command /\ seen[c] \in Daemon /\ pc[seen[c]] # "none"
    BY <1>0, <1>2, <2>0 DEF PidsAreDaemons
  <2>2. \A a \in Addr : bound[a] = seen[c] => pc[seen[c]] = "serve"
    BY <1>0, <2>1 DEF ListenersServe
  <2>3. \A a \in Addr : bound'[a] = IF bound[a] = seen[c] THEN None ELSE bound[a]
    BY <1>2, <2>1, <2>2
  <2>4. pc'[seen[c]] # "serve" /\ \A e \in Daemon \ {seen[c]} : pc'[e] = pc[e]
    BY <1>2, <2>1
  <2> QED
    BY <1>0, <2>1, <2>3, <2>4, ListenersReleased
<1>4. StrangersEnded'
  <2>0. c \in Command
    BY DEF Command
  <2>1. c \in Command /\ seen[c] \in Daemon /\ pc[seen[c]] # "none"
    BY <1>0, <1>2, <2>0 DEF PidsAreDaemons
  <2>2. pc'[seen[c]] = "ended" /\ \A e \in Daemon : pc[e] = "ended" => pc'[e] = "ended"
    BY <1>2, <2>1
  <2>3. strangers' \subseteq strangers \cup {seen[c]}
    BY <1>2
  <2> QED
    BY <1>0, <2>1, <2>2, <2>3 DEF StrangersEnded
<1>5. PidsAreDaemons'
  <2>1. \A e \in Daemon : pc[e] # "none" => pc'[e] # "none"
    BY <1>0, <1>2
  <2>2. \A e \in Daemon : launcher'[e] = "pid" => launcher[e] = "pid" \/ pc'[e] # "none"
    BY <1>0, <1>2
  <2>3. \/ pidFile' \in {pidFile, None, Empty}
        \/ pidFile' \in Daemon /\ pc[pidFile'] # "none"
    BY <1>0, <1>2 DEF PidsAreDaemons
  <2>4. \A b \in Command : /\ seen'[b] \in {seen[b], pidFile, None, Empty}
                           /\ cpc'[b] = "kill" => b \in Stop /\ seen'[b] \in Daemon
    BY <1>0, <1>2 DEF PidsAreDaemons
  <2> QED
    BY <1>0, <2>1, <2>2, <2>3, <2>4, PidsKept
<1>6. ASSUME orderly'
      PROVE  OrderlyInv'
  <2>1. /\ orderly /\ OrderlyInv
    BY <1>0, <1>2, <1>6 DEF LifeInv, Kinds
  <2>2. /\ Alone /\ Named /\ Knows /\ LeftBehind /\ Flawless
        /\ strangers \subseteq uncleared \cup outrun
    BY <2>1 DEF OrderlyInv
  <2>3. Alone'
    <3>1. \A e \in Daemon : /\ Active(e)' => Active(e)
                            /\ Launching(e)' => Launching(e)
      BY <1>2 DEF Active, Launching
    <3>2. \A b \in Command : BusyWith(b)' => BusyWith(b)
      BY <1>2 DEF BusyWith
    <3> QED
      BY <2>2, <3>1, <3>2, AloneKept
  <2>4. Named'
    BY <1>2, <2>2, NamedKept
  <2>5. Knows'
    <3>1. c \in Command /\ \A b \in Command \ {c} : cpc'[b] \in {"none", "done"}
      BY <1>2, <2>2 DEF Alone, BusyWith, Command
    <3>2. \A e \in Daemon : pc'[e] # "serve"
      BY <1>2, <2>2, <3>1 DEF Knows
    <3> QED
      BY <1>2, <3>1, <3>2 DEF Knows
  <2>6. LeftBehind'
    <3>1. c \in Command /\ \A b \in Command \ {c} : cpc'[b] \in {"none", "done"}
      BY <1>2, <2>2 DEF Alone, BusyWith, Command
    <3> QED
      BY <1>2, <3>1 DEF LeftBehind
  <2>7. Flawless'
    <3> SUFFICES ASSUME budget' = MaxFailures, NEW e \in Daemon
                 PROVE  /\ pc'[e] # "remove"
                        /\ Dead(e)' /\ e \notin killed' => launcher'[e] = "failed"
      BY DEF Flawless
    <3>1. /\ pc[e] # "remove" /\ (Dead(e) /\ e \notin killed => launcher[e] = "failed")
          /\ launcher' = launcher /\ killed \subseteq killed'
      BY <1>2, <2>2 DEF Flawless
    <3>2. pc'[e] # pc[e] => e \in killed'
      BY <1>2
    <3>3. pc'[e] # "remove"
      BY <1>2, <3>1
    <3> QED
      BY <3>1, <3>2, <3>3 DEF Dead
  <2>8. (strangers \subseteq uncleared \cup outrun)'
    <3>0. c \in Command
      BY DEF Command
    <3>1. c \in Command /\ seen[c] \in Daemon /\ pc[seen[c]] # "none"
      BY <1>0, <1>2, <3>0 DEF PidsAreDaemons
    <3>2. CASE Dead(seen[c])
      BY <1>2, <2>2, <3>1, <3>2 DEF LeftBehind
    <3>3. CASE ~Dead(seen[c])
      BY <1>2, <2>2, <3>1, <3>3 DEF Dead
    <3> QED
      BY <3>2, <3>3
  <2> QED
    BY <2>3, <2>4, <2>5, <2>6, <2>7, <2>8 DEF OrderlyInv
<1> QED
  BY <1>1, <1>3, <1>4, <1>5, <1>6, TypePartsNext DEF LifeInv

\* If the kill fails, the daemon goes on without a name.
LEMMA KillFailsStep ==
  ASSUME LifeInv, NEW c \in Stop, KillFails(c)
  PROVE  LifeInv'
<1>0. Kinds /\ ListenersServe /\ StrangersEnded /\ PidsAreDaemons
  BY TypeParts DEF LifeInv
<1>1. c \in Command /\ seen[c] \in Daemon
  BY <1>0 DEF KillFails, Command, PidsAreDaemons
<1>2. Kinds'
  BY <1>0, <1>1, FailureSpends
     DEF Kinds, PC, KillFails, Hinders, Goes, Command, files, daemon
<1>3. /\ cpc[c] = "kill" /\ cpc'[c] = "wait"
      /\ \A b \in Command \ {c} : cpc'[b] = cpc[b]
      /\ nameless' = nameless \cup {seen[c]} /\ hindered \subseteq hindered'
      /\ budget' # MaxFailures
      /\ UNCHANGED <<pidFile, bound, pc, launcher, asked, seen, orderly, outrun, uncleared,
                     killed, strangers>>
  BY <1>0, <1>1, FailureSpends DEF Kinds, KillFails, Hinders, Goes, files, daemon
<1>4. ListenersServe'
  <2>1. bound' = bound /\ \A e \in Daemon : pc'[e] = "serve" <=> pc[e] = "serve"
    BY <1>3
  <2> QED
    BY <1>0, <2>1, ListenersKept
<1>5. StrangersEnded'
  BY <1>0, <1>3, StrangersKept
<1>6. PidsAreDaemons'
  BY <1>0, <1>3 DEF Kinds, PidsAreDaemons, Command
<1>7. ASSUME orderly'
      PROVE  OrderlyInv'
  <2>1. orderly /\ OrderlyInv
    BY <1>3, <1>7 DEF LifeInv
  <2>2. /\ Alone /\ Named /\ Knows /\ LeftBehind /\ Flawless
        /\ strangers \subseteq uncleared \cup outrun
    BY <2>1 DEF OrderlyInv
  <2>3. Alone'
    <3>1. \A e \in Daemon : /\ Active(e)' => Active(e)
                            /\ Launching(e)' => Launching(e)
      BY <1>3 DEF Active, Launching
    <3>2. \A b \in Command : BusyWith(b)' => BusyWith(b)
      BY <1>3 DEF BusyWith
    <3> QED
      BY <2>2, <3>1, <3>2, AloneKept
  <2>4. Named'
    BY <1>3, <2>2, NamedKept
  <2>5. \A b \in Command \ {c} : cpc'[b] \in {"none", "done"}
    BY <1>1, <1>3, <2>2 DEF Alone, BusyWith
  <2>6. Knows'
    <3>1. \A e \in Daemon : pc'[e] = "serve" => e \in nameless'
      BY <1>1, <1>3, <2>2 DEF Knows
    <3> QED
      BY <1>3, <2>5, <3>1 DEF Knows
  <2>7. LeftBehind'
    BY <1>1, <1>3, <2>5 DEF LeftBehind
  <2>8. Flawless'
    BY <1>3, <2>2, FlawlessKept
  <2>9. (strangers \subseteq uncleared \cup outrun)'
    BY <1>3, <2>2
  <2> QED
    BY <2>3, <2>4, <2>6, <2>7, <2>8, <2>9 DEF OrderlyInv
<1> QED
  BY <1>2, <1>4, <1>5, <1>6, <1>7, TypePartsNext DEF LifeInv

\* The stop removes the file of the daemon it has ended.
LEMMA StopEndsStep ==
  ASSUME LifeInv, NEW c \in Stop, StopEnds(c)
  PROVE  LifeInv'
<1>0. Kinds /\ ListenersServe /\ StrangersEnded /\ PidsAreDaemons
  BY TypeParts DEF LifeInv
<1>1. Kinds'
  BY <1>0, FailureSpends
     DEF Kinds, PC, StopEnds, Succeeds, Hinders, Reports, Command, daemon
<1>2. /\ cpc[c] = "wait" /\ cpc'[c] = "done"
      /\ pidFile' = None \/ (pidFile' = pidFile /\ {pidFile} \cap Daemon \subseteq uncleared')
      /\ \A b \in Command \ {c} : cpc'[b] = cpc[b]
      /\ uncleared \subseteq uncleared' /\ hindered \subseteq hindered'
      /\ budget' = MaxFailures => budget = MaxFailures
      /\ UNCHANGED <<bound, pc, launcher, asked, seen, orderly, raced, outrun, nameless,
                     killed, strangers>>
  BY <1>0, FailureSpends DEF Kinds, StopEnds, Succeeds, Hinders, Reports, Command, daemon
<1>3. ListenersServe'
  <2>1. bound' = bound /\ \A e \in Daemon : pc'[e] = "serve" <=> pc[e] = "serve"
    BY <1>2
  <2> QED
    BY <1>0, <2>1, ListenersKept
<1>4. StrangersEnded'
  BY <1>0, <1>2, StrangersKept
<1>5. PidsAreDaemons'
  BY <1>0, <1>2, NoPids DEF Kinds, PidsAreDaemons, Command
<1>6. ASSUME orderly'
      PROVE  OrderlyInv'
  <2>1. /\ orderly /\ OrderlyInv
    BY <1>0, <1>2, <1>6 DEF LifeInv, Kinds
  <2>2. /\ Alone /\ Named /\ Knows /\ LeftBehind /\ Flawless
        /\ strangers \subseteq uncleared \cup outrun
    BY <2>1 DEF OrderlyInv
  <2>3. Alone'
    <3>1. \A e \in Daemon : /\ Active(e)' => Active(e)
                            /\ Launching(e)' => Launching(e)
      BY <1>2 DEF Active, Launching
    <3>2. \A b \in Command : BusyWith(b)' => BusyWith(b)
      BY <1>2 DEF BusyWith
    <3> QED
      BY <2>2, <3>1, <3>2, AloneKept
  <2>4. Named'
    <3>1. c \in Command
      BY DEF Command
    <3>2. \A e \in Daemon : ~Launching(e) /\ (pc[e] = "serve" => e \in nameless)
      BY <1>2, <2>2, <3>1 DEF Alone, BusyWith, Knows
    <3> QED
      BY <1>2, <2>2, <3>2, NoPids DEF Named, Launching
  <2>5. Knows'
    <3>1. \A e \in Daemon : pc'[e] = "serve" => pc[e] = "serve"
      BY <1>2
    <3>2. \A b \in Command : bound[asked[b]] = None => bound'[asked[b]] = None
      BY <1>2
    <3>3. \A b \in Command : /\ cpc'[b] # cpc[b] => cpc'[b] = "done"
                             /\ seen'[b] = seen[b] /\ asked'[b] = asked[b]
      BY <1>2
    <3> QED
      BY <1>2, <2>2, <3>1, <3>2, <3>3, KnowsKept
  <2>6. LeftBehind'
    <3>1. \A b \in Command : cpc'[b] \in {"none", "done"}
      BY <1>2, <2>2 DEF Alone, BusyWith, Command
    <3> QED
      BY <1>2, <3>1, NoPids DEF LeftBehind
  <2>7. Flawless'
    BY <1>2, <2>2, FlawlessKept
  <2>8. (strangers \subseteq uncleared \cup outrun)'
    BY <1>2, <2>2
  <2> QED
    BY <2>3, <2>4, <2>5, <2>6, <2>7, <2>8 DEF OrderlyInv
<1> QED
  BY <1>1, <1>3, <1>4, <1>5, <1>6, TypePartsNext DEF LifeInv

\* The probes of a status.
LEMMA ProbeStep ==
  ASSUME LifeInv, NEW c \in Status, Probe(c) \/ ProbeDefault(c) \/ ProbeFails(c)
  PROVE  LifeInv'
<1>0. Kinds /\ ListenersServe /\ StrangersEnded /\ PidsAreDaemons
  BY TypeParts DEF LifeInv
<1>1. c \in Command
  BY DEF Command
<1>2. /\ cpc[c] \in {"probe", "fallback"}
      /\ \E next \in {"fallback", "done"} : cpc' = [cpc EXCEPT ![c] = next]
      /\ said' = said \/ \E what \in {"running", "offline"} : said' = [said EXCEPT ![c] = what]
      /\ cpc'[c] = "fallback" => c \in hindered' \/ bound[asked[c]] = None
      /\ hindered \subseteq hindered' /\ hindered' \subseteq hindered \cup {c}
      /\ budget' = budget \/ Failure
      /\ UNCHANGED <<files, bound, daemon, asked, seen, orderly, raced, pids>>
  <2>1. CASE Probe(c)
    BY <1>0, <1>1, <2>1 DEF Kinds, Probe, Healthy, Reports, Goes, aux
  <2>2. CASE ProbeDefault(c)
    BY <1>0, <1>1, <2>2 DEF Kinds, ProbeDefault, Reports, aux
  <2>3. CASE ProbeFails(c)
    BY <1>0, <1>1, <2>3 DEF Kinds, ProbeFails, Hinders, Reports, Goes
  <2> QED
    BY <2>1, <2>2, <2>3
<1>3. Kinds'
  <2>1. cpc' \in [Command -> {"none", "kill", "wait", "probe", "fallback", "done"}]
    <3>1. PICK next \in {"fallback", "done"} : cpc' = [cpc EXCEPT ![c] = next]
      BY <1>2
    <3> QED
      BY <1>0, <3>1 DEF Kinds
  <2>2. said' \in [Command -> {"nothing", "stopped", "not running", "running", "offline"}]
    <3>1. CASE said' = said
      BY <1>0, <3>1 DEF Kinds
    <3>2. ASSUME NEW what \in {"running", "offline"}, said' = [said EXCEPT ![c] = what]
          PROVE  said' \in [Command -> {"nothing", "stopped", "not running", "running", "offline"}]
      BY <1>0, <3>2 DEF Kinds
    <3> QED
      BY <1>2, <3>1, <3>2
  <2>3. budget' \in 0..MaxFailures /\ hindered' \subseteq Command
    BY <1>0, <1>1, <1>2, FailureSpends DEF Kinds
  <2> QED
    BY <1>0, <1>2, <2>1, <2>2, <2>3 DEF Kinds, files, daemon, pids
<1>4. /\ cpc[c] \in {"probe", "fallback"} /\ cpc'[c] \in {"fallback", "done"}
      /\ cpc'[c] = "fallback" => c \in hindered' \/ bound[asked[c]] = None
      /\ \A b \in Command \ {c} : cpc'[b] = cpc[b]
      /\ hindered \subseteq hindered'
      /\ budget' = MaxFailures => budget = MaxFailures
      /\ UNCHANGED <<pidFile, bound, pc, launcher, asked, seen, orderly, raced,
                     outrun, uncleared, nameless, killed, strangers>>
  BY <1>0, <1>1, <1>2, FailureSpends DEF Kinds, files, daemon, pids
<1>5. ListenersServe'
  <2>1. bound' = bound /\ \A e \in Daemon : pc'[e] = "serve" <=> pc[e] = "serve"
    BY <1>4
  <2> QED
    BY <1>0, <2>1, ListenersKept
<1>6. StrangersEnded'
  BY <1>0, <1>4, StrangersKept
<1>7. PidsAreDaemons'
  BY <1>0, <1>4 DEF Kinds, PidsAreDaemons, Command
<1>8. ASSUME orderly'
      PROVE  OrderlyInv'
  <2>1. orderly /\ OrderlyInv
    BY <1>4, <1>8 DEF LifeInv
  <2>2. /\ Alone /\ Named /\ Knows /\ LeftBehind /\ Flawless
        /\ strangers \subseteq uncleared \cup outrun
    BY <2>1 DEF OrderlyInv
  <2>3. Alone'
    <3>1. \A e \in Daemon : /\ Active(e)' => Active(e)
                            /\ Launching(e)' => Launching(e)
      BY <1>4 DEF Active, Launching
    <3>2. \A b \in Command : BusyWith(b)' => BusyWith(b)
      BY <1>4 DEF BusyWith
    <3> QED
      BY <2>2, <3>1, <3>2, AloneKept
  <2>4. Named'
    BY <1>4, <2>2, NamedKept
  <2>5. Knows'
    <3> SUFFICES ASSUME NEW b \in Command
                 PROVE  /\ cpc'[b] \in {"kill", "probe", "fallback"} =>
                              \A e \in Daemon : pc'[e] = "serve" => seen'[b] = e
                        /\ cpc'[b] = "wait" =>
                              \A e \in Daemon : pc'[e] = "serve" => e \in nameless'
                        /\ cpc'[b] = "fallback" =>
                              b \in hindered' \/ bound'[asked'[b]] = None
      BY DEF Knows
    <3>1. CASE b = c
      BY <1>4, <2>2, <3>1 DEF Knows
    <3>2. CASE b # c
      BY <1>4, <2>2, <3>2 DEF Knows
    <3> QED
      BY <3>1, <3>2
  <2>6. LeftBehind'
    <3>1. \A b \in Command : /\ cpc'[b] = "kill" => cpc[b] = "kill"
                             /\ cpc[b] = "wait" => cpc'[b] = "wait"
      BY <1>4
    <3> QED
      BY <1>4, <2>2, <3>1 DEF LeftBehind, Dead
  <2>7. Flawless'
    BY <1>4, <2>2, FlawlessKept
  <2>8. (strangers \subseteq uncleared \cup outrun)'
    BY <1>4, <2>2
  <2> QED
    BY <2>3, <2>4, <2>5, <2>6, <2>7, <2>8 DEF OrderlyInv
<1> QED
  BY <1>3, <1>5, <1>6, <1>7, <1>8, TypePartsNext DEF LifeInv

\* At first there is nothing.
LEMMA InitLife == Init => LifeInv
<1> SUFFICES ASSUME Init PROVE LifeInv
  OBVIOUS
<1>0. \A d \in Daemon : d # None
  BY DEF Daemon
<1>1. TypeOK
  <2>1. Kinds
    <3>1. /\ home \in BOOLEAN /\ tokenFile \in Daemon \cup {None}
          /\ pidFile \in Daemon \cup {None, Empty}
          /\ bound \in [Addr -> Daemon \cup {None}]
      BY DEF Init
    <3>2. /\ pc \in [Daemon -> PC] /\ addr \in [Daemon -> Addr]
          /\ token \in [Daemon -> Daemon \cup {None}]
          /\ launcher \in [Daemon -> {"none", "pid", "done", "failed"}]
      BY DEF Init, PC
    <3>3. /\ cpc \in [Command -> {"none", "kill", "wait", "probe", "fallback", "done"}]
          /\ asked \in [Command -> Addr] /\ seen \in [Command -> Daemon \cup {None, Empty}]
          /\ said \in [Command -> {"nothing", "stopped", "not running", "running", "offline"}]
      BY DEF Init
    <3>4. budget \in 0..MaxFailures
      BY DEF Init
    <3>5. /\ orderly \in BOOLEAN /\ raced \in BOOLEAN
          /\ outrun \subseteq Daemon /\ uncleared \subseteq Daemon
          /\ nameless \subseteq Daemon /\ killed \subseteq Daemon /\ hindered \subseteq Command
      BY DEF Init
    <3> QED
      BY <3>1, <3>2, <3>3, <3>4, <3>5 DEF Kinds
  <2>2. ListenersServe /\ StrangersEnded
    BY <1>0 DEF Init, ListenersServe, StrangersEnded
  <2> QED
    BY <2>1, <2>2, TypeParts
<1>2. PidsAreDaemons
  BY NoPids DEF Init, PidsAreDaemons
<1>3. Alone /\ Named /\ Knows
  BY DEF Init, Alone, Named, Knows, Active, Launching, BusyWith
<1>4. LeftBehind /\ Flawless /\ strangers \subseteq uncleared \cup outrun
  BY NoPids DEF Init, LeftBehind, Flawless, Dead
<1> QED
  BY <1>1, <1>2, <1>3, <1>4 DEF LifeInv, OrderlyInv

\* Nothing changes.
LEMMA IdleLife ==
  ASSUME LifeInv, UNCHANGED vars
  PROVE  LifeInv'
<1> USE DEF vars, files, daemon, commands, aux, pids
<1>1. TypeOK'
  BY DEF LifeInv, TypeOK
<1>2. PidsAreDaemons'
  BY DEF LifeInv, PidsAreDaemons
<1>3. orderly' => OrderlyInv'
  BY DEF LifeInv, OrderlyInv, Alone, Named, Knows, LeftBehind, Flawless, Active, Launching,
         BusyWith, Dead
<1> QED
  BY <1>1, <1>2, <1>3 DEF LifeInv

\* Action by action.
LEMMA NextLife == LifeInv /\ [Next]_vars => LifeInv'
<1> SUFFICES ASSUME LifeInv, [Next]_vars PROVE LifeInv'
  OBVIOUS
<1>1. ASSUME NEW d \in Daemon, NEW a \in Addr, NEW b \in BOOLEAN, Start(d, a, b)
      PROVE  LifeInv'
  BY <1>1, StartStep
<1>2. ASSUME NEW d \in Daemon, LauncherWritesPid(d)
      PROVE  LifeInv'
  BY <1>2, LauncherStep
<1>3. ASSUME NEW d \in Daemon, Run(d)
      PROVE  LifeInv'
  BY <1>3, WritePidStep, ReadTokenStep, WriteTokenStep, BindStep, RemovePidStep DEF Run
<1>4. ASSUME NEW d \in Daemon, ServeFails(d) \/ Crash(d)
      PROVE  LifeInv'
  BY <1>4, ServeFailsStep, CrashStep
<1>5. ASSUME NEW c \in Stop, StopReads(c) \/ StopDiscards(c) \/ StopGoesOn(c)
      PROVE  LifeInv'
  BY <1>5, StopReadsStep, StopKillsStep, KillFailsStep, StopEndsStep DEF StopGoesOn
<1>6. ASSUME NEW c \in Status, (\E a \in Addr : StatusReads(c, a)) \/ StatusGoesOn(c)
      PROVE  LifeInv'
  BY <1>6, StatusReadsStep, ProbeStep DEF StatusGoesOn
<1>7. CASE UNCHANGED vars
  BY <1>7, IdleLife
<1> QED
  BY <1>1, <1>2, <1>3, <1>4, <1>5, <1>6, <1>7 DEF Next, Idle

\* What the daemon's commands rest on holds always: while commands do not overlap
\* there is one daemon, the PID file names it, and a command knows it.
THEOREM LifeInvariant == Spec => []LifeInv
BY InitLife, NextLife, PTL DEF Spec

\* Every variable of start, stop and status holds a value of its kind, and the
\* processes that listen are those that serve.
THEOREM TypeCorrect == Spec => []TypeOK
<1>1. LifeInv => TypeOK
  BY DEF LifeInv
<1> QED
  BY <1>1, LifeInvariant, PTL

\* Without overlapping commands a daemon whose start is over is the one that the
\* PID file names, for any number of starts, crashes and stops, unless its launcher
\* has failed to write the file, or a stop to kill it.
THEOREM TheFileNamesTheDaemon == Spec => []OrderlyIsNamed
<1>1. LifeInv => OrderlyIsNamed
  BY DEF LifeInv, OrderlyInv, Named, OrderlyIsNamed, Serving
<1> QED
  BY <1>1, LifeInvariant, PTL

\* Without overlapping commands stop kills another process only under a PID that
\* was left behind by an abrupt end or a failing removal, or outrun.
THEOREM StrangersLive == Spec => []StrangersAreSpared
<1>1. LifeInv => StrangersAreSpared
  BY DEF LifeInv, OrderlyInv, StrangersAreSpared
<1> QED
  BY <1>1, LifeInvariant, PTL

\* Without overlapping commands and failures, a daemon that no stop has killed ends
\* only in the background start without a configuration directory.
THEOREM StartsServe == Spec => []OrderlyStartServes
<1>1. LifeInv => OrderlyStartServes
  BY DEF LifeInv, OrderlyInv, Flawless, Dead, OrderlyStartServes
<1> QED
  BY <1>1, LifeInvariant, PTL

\* How a command returns.
Answers(c) ==
    \/ c \in Stop /\ (StopReads(c) \/ StopDiscards(c) \/ StopEnds(c))
    \/ c \in Status /\ \/ \E a \in Addr : StatusReads(c, a)
                       \/ Probe(c) \/ ProbeDefault(c) \/ ProbeFails(c)

\* The steps by which a command returns are its own.
LEMMA WhoReturns ==
  ASSUME LifeInv, [Next]_vars, NEW c \in Command, cpc[c] # "done", cpc'[c] = "done"
  PROVE  Answers(c)
<1>1. cpc \in [Command -> {"none", "kill", "wait", "probe", "fallback", "done"}]
  BY DEF LifeInv, TypeOK
<1>2. ASSUME NEW d \in Daemon, NEW a \in Addr, NEW b \in BOOLEAN, Start(d, a, b)
      PROVE  FALSE
  BY <1>2 DEF Start, commands
<1>3. ASSUME NEW d \in Daemon, LauncherWritesPid(d) \/ Run(d) \/ ServeFails(d) \/ Crash(d)
      PROVE  FALSE
  BY <1>3
     DEF LauncherWritesPid, Run, WritePid, ReadToken, WriteToken, Bind, BindFails,
         RemovePid, ServeFails, Crash, commands
<1>4. ASSUME NEW b \in Stop, StopReads(b) \/ StopDiscards(b) \/ StopGoesOn(b)
      PROVE  Answers(c)
  <2>1. b = c
    BY <1>1, <1>4
       DEF StopReads, StopDiscards, ReadPid, StopGoesOn, StopKills, KillFails, StopEnds,
           Reports, Goes
  <2>2. ~StopKills(c) /\ ~KillFails(c)
    BY <1>1 DEF StopKills, KillFails, Goes
  <2> QED
    BY <1>4, <2>1, <2>2 DEF StopGoesOn, Answers
<1>5. ASSUME NEW b \in Status, (\E a \in Addr : StatusReads(b, a)) \/ StatusGoesOn(b)
      PROVE  Answers(c)
  <2>1. b = c
    BY <1>1, <1>5
       DEF StatusReads, ReadPid, StatusGoesOn, Probe, ProbeDefault, ProbeFails, Reports,
           Goes
  <2> QED
    BY <1>5, <2>1 DEF StatusGoesOn, Answers
<1>6. ASSUME UNCHANGED vars
      PROVE  FALSE
  BY <1>6 DEF vars, commands
<1> QED
  BY <1>2, <1>3, <1>4, <1>5, <1>6 DEF Next, Idle

\* Without overlapping commands only the nameless serve when no file names a daemon.
LEMMA NobodyUnnamed ==
  ASSUME LifeInv, orderly, pidFile \in {None, Empty}
  PROVE  /\ Serving \subseteq nameless
         /\ \A a \in Addr : bound[a] \in {None} \cup nameless
<1>1. \A d \in Daemon : pc[d] = "serve" => d \in nameless
  BY NoPids DEF LifeInv, OrderlyInv, Named
<1>2. Kinds /\ ListenersServe
  BY TypeParts DEF LifeInv
<1>3. ASSUME NEW a \in Addr, bound[a] # None
      PROVE  bound[a] \in nameless
  <2>1. bound[a] \in Daemon
    BY <1>2, <1>3 DEF Kinds
  <2> QED
    BY <1>1, <1>2, <2>1 DEF ListenersServe
<1> QED
  BY <1>1, <1>3 DEF Serving

\* What returns without an overlap has not had one before.
LEMMA OrderlyBefore ==
  ASSUME NEW c, Answers(c), orderly'
  PROVE  orderly
BY
   DEF Answers, StopReads, StopDiscards, StopEnds, StatusReads, ReadPid, Probe,
       ProbeDefault,
       ProbeFails, aux

\* What the answers are.
LEMMA AnswersAre ==
  ASSUME LifeInv, NEW c \in Command, Answers(c), cpc'[c] = "done"
  PROVE  /\ c \in Stop => said'[c] \in {"stopped", "not running"}
         /\ c \in Status => said'[c] \in {"running", "offline"}
<1>1. /\ cpc \in [Command -> {"none", "kill", "wait", "probe", "fallback", "done"}]
      /\ said \in [Command -> {"nothing", "stopped", "not running", "running", "offline"}]
  BY DEF LifeInv, TypeOK
<1>2. CASE c \in Stop
  <2>1. c \notin Status /\ (StopReads(c) \/ StopDiscards(c) \/ StopEnds(c))
    BY <1>2 DEF Answers
  <2> QED
    BY <1>1, <2>1 DEF StopReads, StopDiscards, StopEnds, ReadPid, Reports, Goes
<1>3. CASE c \in Status
  <2>1. c \notin Stop
    BY <1>3
  <2>2. (\E a \in Addr : StatusReads(c, a)) \/ Probe(c) \/ ProbeDefault(c) \/ ProbeFails(c)
    BY <2>1 DEF Answers
  <2> QED
    BY <1>1, <2>1, <2>2
       DEF StatusReads, ReadPid, Probe, ProbeDefault, ProbeFails, Reports, Goes
<1> QED
  BY <1>2, <1>3 DEF Command

\* How a stop returns.
LEMMA StopStopsStep ==
  ASSUME LifeInv, [Next]_vars, NEW c \in Command, orderly', Returns(c, {"stopped", "not running"})
  PROVE  c \in hindered' \/ (Serving' \subseteq nameless' /\ pidFile' = None)
<1>1. cpc \in [Command -> {"none", "kill", "wait", "probe", "fallback", "done"}]
  BY DEF LifeInv, TypeOK
<1>2. Answers(c)
  BY WhoReturns DEF Returns
<1>3. c \in Stop /\ (StopReads(c) \/ StopDiscards(c) \/ StopEnds(c))
  BY <1>2, AnswersAre DEF Returns, Answers
<1>4. orderly
  BY <1>2, OrderlyBefore
<1>5. CASE StopReads(c)
  <2>1. ReadPid(c, None)
    BY <1>1, <1>5 DEF StopReads, Goes, Returns
  <2>2. pidFile = None \/ c \in hindered'
    BY <2>1 DEF ReadPid, Hinders
  <2>3. pidFile' = pidFile /\ pc' = pc /\ nameless' = nameless
    BY <1>5, <2>1 DEF StopReads, ReadPid, daemon, pids
  <2> QED
    BY <1>4, <2>2, <2>3, NobodyUnnamed DEF Serving
<1>6. CASE StopDiscards(c)
  <2>1. pidFile = Empty /\ (pidFile' = None \/ c \in hindered')
    BY <1>6 DEF StopDiscards, Hinders
  <2>2. pc' = pc /\ nameless' = nameless
    BY <1>6 DEF StopDiscards, daemon, pids
  <2> QED
    BY <1>4, <2>1, <2>2, NobodyUnnamed DEF Serving
<1>7. CASE StopEnds(c)
  <2>1. \A d \in Daemon : pc[d] = "serve" => d \in nameless
    BY <1>4, <1>7 DEF LifeInv, OrderlyInv, Knows, StopEnds
  <2>2. pidFile' = None \/ c \in hindered'
    BY <1>7 DEF StopEnds, Hinders
  <2>3. pc' = pc /\ nameless' = nameless
    BY <1>7 DEF StopEnds, daemon
  <2> QED
    BY <2>1, <2>2, <2>3 DEF Serving
<1> QED
  BY <1>3, <1>5, <1>6, <1>7

\* Without overlapping commands a stop that returns leaves no PID file and no daemon
\* but a nameless one, unless a call of its own has failed.
THEOREM StopsStop == Spec => OrderlyStopStops
<1>1. LifeInv /\ [Next]_vars =>
        \A c \in Command : orderly' /\ Returns(c, {"stopped", "not running"}) =>
            c \in hindered' \/ (Serving' \subseteq nameless' /\ pidFile' = None)
  BY StopStopsStep
<1> QED
  BY <1>1, LifeInvariant, PTL DEF Spec, OrderlyStopStops

\* Who listens at any address is known to a status that probes.
LEMMA ListenerIsSeen ==
  ASSUME LifeInv, orderly, NEW c \in Command, cpc[c] \in {"probe", "fallback"},
         NEW a \in Addr, bound[a] # None
  PROVE  seen[c] \in Serving
<1>1. Kinds /\ ListenersServe /\ Knows
  BY TypeParts DEF LifeInv, OrderlyInv
<1>2. bound[a] \in Daemon
  BY <1>1 DEF Kinds
<1>3. pc[bound[a]] = "serve"
  BY <1>1, <1>2 DEF ListenersServe
<1> QED
  BY <1>1, <1>2, <1>3 DEF Knows, Serving

\* How a status returns.
LEMMA StatusStep ==
  ASSUME LifeInv, [Next]_vars, NEW c \in Command, orderly'
  PROVE  /\ Returns(c, {"running"}) => seen'[c] \in Serving
         /\ Returns(c, {"offline"}) =>
                c \in hindered' \/ bound[asked'[c]] \in {None} \cup nameless
<1> SUFFICES ASSUME Returns(c, {"running", "offline"})
             PROVE  /\ said'[c] = "running" => seen'[c] \in Serving
                    /\ said'[c] = "offline" =>
                          c \in hindered' \/ bound[asked'[c]] \in {None} \cup nameless
  BY DEF Returns
<1>1. /\ cpc \in [Command -> {"none", "kill", "wait", "probe", "fallback", "done"}]
      /\ said \in [Command -> {"nothing", "stopped", "not running", "running", "offline"}]
      /\ asked \in [Command -> Addr]
  BY DEF LifeInv, TypeOK
<1>2. Answers(c)
  BY WhoReturns DEF Returns
<1>3. (\E a \in Addr : StatusReads(c, a)) \/ Probe(c) \/ ProbeDefault(c) \/ ProbeFails(c)
  BY <1>2, AnswersAre DEF Returns, Answers
<1>4. orderly /\ Knows
  BY <1>2, OrderlyBefore DEF LifeInv, OrderlyInv
<1>5. ASSUME NEW a \in Addr, StatusReads(c, a)
      PROVE  /\ said'[c] = "offline" /\ asked'[c] = a
             /\ c \in hindered' \/ bound[a] \in {None} \cup nameless
  <2>1. PICK p \in {None, Empty} : ReadPid(c, p) /\ Reports(c, "offline")
    BY <1>1, <1>5 DEF StatusReads, Goes, Returns
  <2>2. pidFile \in {None, Empty} \/ c \in hindered'
    BY <2>1 DEF ReadPid, Hinders
  <2>3. said'[c] = "offline" /\ asked'[c] = a
    BY <1>1, <1>5, <2>1 DEF StatusReads, Reports
  <2> QED
    BY <1>4, <2>2, <2>3, NobodyUnnamed
<1>6. CASE Probe(c)
  <2>1. Healthy(asked[c]) /\ said'[c] = "running"
    BY <1>1, <1>6 DEF Probe, Reports, Goes, Returns
  <2> QED
    BY <1>1, <1>4, <1>6, <2>1, ListenerIsSeen DEF Probe, Healthy
<1>7. CASE ProbeDefault(c)
  <2>1. said'[c] = IF Healthy(Default) THEN "running" ELSE "offline"
    BY <1>1, <1>7 DEF ProbeDefault, Reports
  <2>2. c \in hindered \/ bound[asked[c]] = None
    BY <1>4, <1>7 DEF ProbeDefault, Knows
  <2>3. seen' = seen /\ asked' = asked /\ hindered' = hindered /\ cpc[c] = "fallback"
    BY <1>7 DEF ProbeDefault, aux
  <2>4. Healthy(Default) => seen[c] \in Serving
    BY <1>4, <2>3, ListenerIsSeen DEF Healthy
  <2> QED
    BY <2>1, <2>2, <2>3, <2>4
<1>8. CASE ProbeFails(c)
  <2>1. c \in hindered' /\ said'[c] = "offline"
    BY <1>1, <1>8 DEF ProbeFails, Hinders, Reports, Goes, Returns
  <2> QED
    BY <2>1
<1> QED
  BY <1>3, <1>5, <1>6, <1>7, <1>8

\* Without overlapping commands status calls a daemon running that does serve, and
\* says "offline" only if none but a nameless one is at the address asked for, or if
\* a call of its own has failed.
THEOREM StatusTellsTheTruth == Spec => OrderlyStatus
<1>1. LifeInv /\ [Next]_vars =>
        \A c \in Command :
          /\ orderly' /\ Returns(c, {"running"}) => seen'[c] \in Serving
          /\ orderly' /\ Returns(c, {"offline"}) =>
                c \in hindered' \/ bound[asked'[c]] \in {None} \cup nameless
  BY StatusStep
<1> QED
  BY <1>1, LifeInvariant, PTL DEF Spec, OrderlyStatus
=============================================================================
