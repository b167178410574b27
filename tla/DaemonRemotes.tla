--------------------------- MODULE DaemonRemotes ---------------------------
(***************************************************************************)
(* The remotes of the daemon (internal/daemon/server.go): its HTTP         *)
(* handlers, the cache of storage drivers behind GetDriver, and the vault  *)
(* they share with the command line.                                       *)
(*                                                                         *)
(* A call of the vault is one step here, which may lose every remote when  *)
(* it fails; VaultFile is shown to provide that among the goroutines of    *)
(* one process.  Between two calls of a handler every other request, and   *)
(* the command line in a process of its own, may run.                      *)
(***************************************************************************)
EXTENDS Naturals, FiniteSets

CONSTANTS
    Request,      \* request goroutines
    NumNames,     \* names of remotes, in the order ListRemotes sorts them
    Profile,      \* remote profiles
    Unusable,     \* ... of which no driver can be made
    Nothing,      \* no profile, no driver
    MaxRequests,  \* bound: requests
    MaxCli,       \* bound: changes of the vault by the command line
    MaxFaults,    \* bound: failing calls of the vault
    MaxRestarts   \* bound: restarts of the daemon

Name == 1..NumNames

ASSUME DaemonAssumption ==
    /\ NumNames \in Nat \ {0}
    /\ Unusable \subseteq Profile /\ Nothing \notin Profile
    /\ MaxRequests \in Nat /\ MaxCli \in Nat
    /\ MaxFaults \in Nat /\ MaxRestarts \in Nat

VARIABLES
    remotes,    \* the map in the vault
    drivers,    \* s.drivers: the profile each cached driver was made from
    pc, name,   \* each request's next step, and the remote it names
    prof,       \* ... the profile it saves, has loaded, or has a driver for
    names,      \* ... the rest of its loop over the names
    listed      \* ... the profiles it has collected

\* Auxiliary variables: read by properties, never by the code's steps.
VARIABLES
    changed,    \* names whose profile has changed since the request began
    suspect,    \* names whose cached driver the daemon had no chance to keep right
    budget      \* what is left of the bounds

request == <<pc, name, prof, names, listed>>
vars    == <<remotes, drivers, request, changed, suspect, budget>>

Idle(r) == pc[r] = "idle"

Init ==
    /\ remotes \in [Name -> Profile \cup {Nothing}]
    /\ drivers = [n \in Name |-> Nothing]
    /\ pc = [r \in Request |-> "idle"]
    /\ name = [r \in Request |-> 1]
    /\ prof = [r \in Request |-> Nothing]
    /\ names = [r \in Request |-> {}]
    /\ listed = [r \in Request |-> {}]
    /\ changed = [r \in Request |-> {}]
    /\ suspect = {}
    /\ budget = [requests |-> MaxRequests, cli |-> MaxCli,
                 faults |-> MaxFaults, restarts |-> MaxRestarts]

Spend(what) == /\ budget[what] > 0
               /\ budget' = [budget EXCEPT ![what] = @ - 1]

Goto(r, next) == pc' = [pc EXCEPT ![r] = next]

\* The variables of a request die with it.
Ends(r) ==
    /\ Goto(r, "idle")
    /\ name' = [name EXCEPT ![r] = 1]
    /\ prof' = [prof EXCEPT ![r] = Nothing]
    /\ names' = [names EXCEPT ![r] = {}]
    /\ listed' = [listed EXCEPT ![r] = {}]

\* The request is answered.
Reply(r) == Ends(r) /\ changed' = [changed EXCEPT ![r] = {}]

NoRemotes == [n \in Name |-> Nothing]

\* The vault holds this map from now on; the requests in `ended` are over.
Becomes(map, ended) ==
    /\ remotes' = map
    /\ changed' = [r \in Request |->
                     IF r \in ended THEN {}
                     ELSE changed[r] \cup {n \in Name : map[n] # remotes[n] /\ ~Idle(r)}]

Store(n, p, ended) == Becomes([remotes EXCEPT ![n] = p], ended)

-----------------------------------------------------------------------------
(* Requests.                                                               *)

\* A request arrives: GET, PUT, HEAD or DELETE on an object, POST, GET or
\* DELETE on a remote, or the list of the remotes.
Arrive(r, next, n, p) ==
    /\ Idle(r)
    /\ Spend("requests")
    /\ Goto(r, next)
    /\ name' = [name EXCEPT ![r] = n]
    /\ prof' = [prof EXCEPT ![r] = p]
    /\ UNCHANGED <<remotes, drivers, names, listed, changed, suspect>>

Arrives(r) == \/ \E n \in Name, p \in Profile : Arrive(r, "save", n, p)
              \/ \E n \in Name : \/ Arrive(r, "peek", n, Nothing)
                                 \/ Arrive(r, "delete", n, Nothing)
                                 \/ Arrive(r, "get", n, Nothing)
              \/ Arrive(r, "list", 1, Nothing)

\* GetDriver looks into the cache.
Peek(r) ==
    /\ pc[r] = "peek"
    /\ prof' = [prof EXCEPT ![r] = drivers[name[r]]]
    /\ Goto(r, IF drivers[name[r]] = Nothing THEN "load" ELSE "serve")
    /\ UNCHANGED <<remotes, drivers, name, names, listed, changed, suspect, budget>>

\* ... and else into the vault, and makes a driver of what it finds there.
LoadRemote(r) ==
    /\ pc[r] = "load"
    /\ remotes[name[r]] \in Profile \ Unusable
    /\ prof' = [prof EXCEPT ![r] = remotes[name[r]]]
    /\ Goto(r, "register")
    /\ UNCHANGED <<remotes, drivers, name, names, listed, changed, suspect, budget>>

\* No profile, an unusable one, or a vault that does not open: 404.
LoadRemoteFails(r) ==
    /\ pc[r] = "load"
    /\ \/ remotes[name[r]] \in Unusable \cup {Nothing} /\ UNCHANGED budget
       \/ Spend("faults")
    /\ Reply(r)
    /\ UNCHANGED <<remotes, drivers, suspect>>

\* RegisterDriver.
Register(r) ==
    /\ pc[r] = "register"
    /\ drivers' = [drivers EXCEPT ![name[r]] = prof[r]]
    /\ suspect' = IF name[r] \in changed[r] THEN suspect \cup {name[r]}
                                           ELSE suspect \ {name[r]}
    /\ Goto(r, "serve")
    /\ UNCHANGED <<remotes, name, prof, names, listed, changed, budget>>

\* The handler uses the driver it was given.
Serve(r) ==
    /\ pc[r] = "serve"
    /\ Reply(r)
    /\ UNCHANGED <<remotes, drivers, suspect, budget>>

\* handleCreateRemote saves the profile and leaves the cache alone.
CreateRemote(r) ==
    /\ pc[r] = "save"
    /\ Store(name[r], prof[r], {r})
    /\ suspect' = IF remotes[name[r]] # prof[r] THEN suspect \cup {name[r]} ELSE suspect
    /\ Ends(r)
    /\ UNCHANGED <<drivers, budget>>

AfterErase_Done == "idle"
AfterErase == "forget"

\* handleDeleteRemote: the vault first, then the cache.
EraseRemote(r) ==
    /\ pc[r] = "delete"
    /\ Store(name[r], Nothing, {})
    /\ Goto(r, AfterErase)
    /\ UNCHANGED <<drivers, name, prof, names, listed, suspect, budget>>

Forget(r) ==
    /\ pc[r] = "forget"
    /\ drivers' = [drivers EXCEPT ![name[r]] = Nothing]
    /\ suspect' = suspect \ {name[r]}
    /\ Reply(r)
    /\ UNCHANGED <<remotes, budget>>

\* handleGetRemote answers with the profile.
GetRemote(r) ==
    /\ pc[r] = "get"
    /\ Reply(r)
    /\ UNCHANGED <<remotes, drivers, suspect, budget>>

\* handleListRemotes: the names, then one GetRemote after the other.
ListNames(r) ==
    /\ pc[r] = "list"
    /\ names' = [names EXCEPT ![r] = {n \in Name : remotes[n] # Nothing}]
    /\ Goto(r, "each")
    /\ UNCHANGED <<remotes, drivers, name, prof, listed, changed, suspect, budget>>

NextName(r) == CHOOSE n \in names[r] : \A m \in names[r] : n <= m

Collected_Blindly(r) == {<<NextName(r), remotes[NextName(r)]>>}

Collected_UsableOnly(r) ==
    {<<NextName(r), p>> : p \in {remotes[NextName(r)]} \ (Unusable \cup {Nothing})}

\* A profile that is gone by now is left out.
Collected(r) == {<<NextName(r), p>> : p \in {remotes[NextName(r)]} \ {Nothing}}

ListOne(r) ==
    /\ pc[r] = "each" /\ names[r] # {}
    /\ listed' = [listed EXCEPT ![r] = @ \cup Collected(r)]
    /\ names' = [names EXCEPT ![r] = @ \ {NextName(r)}]
    /\ UNCHANGED <<remotes, drivers, pc, name, prof, changed, suspect, budget>>

\* ... and so is one that cannot be read.
ListOneFails(r) ==
    /\ pc[r] = "each" /\ names[r] # {}
    /\ Spend("faults")
    /\ names' = [names EXCEPT ![r] = @ \ {NextName(r)}]
    /\ UNCHANGED <<remotes, drivers, pc, name, prof, listed, changed, suspect>>

ListReply(r) ==
    /\ pc[r] = "each" /\ names[r] = {}
    /\ Reply(r)
    /\ UNCHANGED <<remotes, drivers, suspect, budget>>

\* The vault does not open, or cannot be written: 500, and nothing else.
VaultFails(r) ==
    /\ pc[r] \in {"save", "delete", "get", "list"}
    /\ Spend("faults")
    /\ Reply(r)
    /\ UNCHANGED <<remotes, drivers, suspect>>

\* A request in the middle of saveStore; deleting what is not there saves nothing.
Saving(r) == \/ pc[r] = "save"
             \/ pc[r] = "delete" /\ remotes[name[r]] # Nothing

\* ... and it fails when the old file is gone: 500, and every remote is lost, but
\* not the drivers.
VaultIsLost(r) ==
    /\ Saving(r)
    /\ Spend("faults")
    /\ Becomes(NoRemotes, {r})
    /\ suspect' = suspect \cup {n \in Name : remotes[n] # Nothing}
    /\ Ends(r)
    /\ UNCHANGED drivers

Handle(r) == \/ Peek(r) \/ LoadRemote(r) \/ LoadRemoteFails(r) \/ Register(r)
             \/ Serve(r) \/ CreateRemote(r) \/ EraseRemote(r) \/ Forget(r)
             \/ GetRemote(r) \/ ListNames(r) \/ ListOne(r) \/ ListOneFails(r)
             \/ ListReply(r) \/ VaultFails(r) \/ VaultIsLost(r)

-----------------------------------------------------------------------------
(* Everybody else.                                                         *)

\* "unistorage remote add" and "remote remove" open the vault themselves: they
\* change one name, undo changes of the daemon that they have not seen, or lose
\* everything when they fail.
CommandLine(map) ==
    /\ remotes # map
    /\ Spend("cli")
    /\ Becomes(map, {})
    /\ suspect' = suspect \cup {n \in Name : remotes[n] # map[n]}
    /\ UNCHANGED <<drivers, request>>

\* The daemon is killed and started again: the cache is empty, and so may be the
\* vault if it was being saved.
Restart ==
    /\ Spend("restarts")
    /\ \/ UNCHANGED remotes
       \/ (\E r \in Request : Saving(r)) /\ remotes' = NoRemotes
    /\ drivers' = [n \in Name |-> Nothing]
    /\ pc' = [r \in Request |-> "idle"]
    /\ name' = [r \in Request |-> 1]
    /\ prof' = [r \in Request |-> Nothing]
    /\ names' = [r \in Request |-> {}]
    /\ listed' = [r \in Request |-> {}]
    /\ changed' = [r \in Request |-> {}]
    /\ suspect' = {}

\* No request is left: the model may stop here.
Finished == budget.requests = 0 /\ (\A r \in Request : Idle(r)) /\ UNCHANGED vars

Next == \/ \E r \in Request : Arrives(r) \/ Handle(r)
        \/ \E map \in [Name -> Profile \cup {Nothing}] : CommandLine(map)
        \/ Restart
        \/ Finished

Spec == Init /\ [][Next]_vars

-----------------------------------------------------------------------------
(* Properties.                                                             *)

PC == {"idle", "peek", "load", "register", "serve", "save",
       "delete", "forget", "get", "list", "each"}

\* Every variable holds a value of its kind: only a profile is ever listed, and
\* no driver is made of an unusable one.
TypeOK ==
    /\ remotes \in [Name -> Profile \cup {Nothing}]
    /\ drivers \in [Name -> (Profile \ Unusable) \cup {Nothing}]
    /\ pc \in [Request -> PC] /\ name \in [Request -> Name]
    /\ prof \in [Request -> Profile \cup {Nothing}]
    /\ names \in [Request -> SUBSET Name]
    /\ listed \in [Request -> SUBSET (Name \X Profile)]
    /\ changed \in [Request -> SUBSET Name] /\ suspect \subseteq Name
    /\ budget \in [requests : Nat, cli : Nat, faults : Nat, restarts : Nat]

\* A cached driver belongs to the profile in the vault, except while a DELETE
\* is between its two steps, and after one of four things: POST replaced the
\* profile, the command line changed it, a save or deletion of any remote failed
\* and took the whole vault with it, or a request registered the driver although
\* the profile changed while it ran.  Each of them lasts until the remote's driver
\* is forgotten by a deletion, registered anew, or lost with the daemon.
CacheAgrees ==
    \A n \in Name \ suspect :
        \/ drivers[n] \in {Nothing, remotes[n]}
        \/ \E r \in Request : pc[r] = "forget" /\ name[r] = n

\* The list of remotes is right about every remote that did not change while it
\* was put together, unless the vault failed.
ListIsFaithful ==
    \A r \in Request, n \in Name :
        pc[r] = "each" /\ names[r] = {} /\ n \notin changed[r] /\ budget.faults = MaxFaults
            => {p \in Profile : <<n, p>> \in listed[r]} = {remotes[n]} \ {Nothing}
=============================================================================
