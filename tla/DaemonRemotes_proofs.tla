------------------------ MODULE DaemonRemotes_proofs ------------------------
(***************************************************************************)
(* Proofs about DaemonRemotes, for any number of requests and names, any   *)
(* profiles and every bound: the cache of drivers agrees with the vault    *)
(* but for the named causes, and a list of the remotes is right about      *)
(* every remote that held still.                                           *)
(***************************************************************************)
EXTENDS DaemonRemotes, NatSets_proofs

USE DaemonAssumption

-----------------------------------------------------------------------------
(* The inductive invariant.                                                *)

\* A driver about to be registered is of a profile the vault held, and still
\* holds unless it changed meanwhile.
Registering(r) == pc[r] = "register" =>
    /\ prof[r] \in Profile \ Unusable
    /\ name[r] \notin changed[r] => prof[r] = remotes[name[r]]

ProfilesListed(r, n) == {p \in Profile : <<n, p>> \in listed[r]}

\* Nothing is listed before the loop.  While it runs and the vault has not
\* failed, a remote that held still is either there and to be read, or listed as
\* it is.
Listing(r) ==
    /\ pc[r] # "each" => listed[r] = {}
    /\ pc[r] = "each" /\ budget.faults = MaxFaults =>
          \A n \in Name \ changed[r] :
              IF n \in names[r]
                THEN remotes[n] # Nothing /\ ProfilesListed(r, n) = {}
                ELSE ProfilesListed(r, n) = {remotes[n]} \ {Nothing}

\* The faults are spent, never earned.
Faults == budget.faults <= MaxFaults

RemotesInv ==
    /\ TypeOK
    /\ Faults
    /\ CacheAgrees
    /\ \A r \in Request : Registering(r) /\ Listing(r)

-----------------------------------------------------------------------------
(* What a step leaves alone.                                               *)

\* Request q takes no step, and
Rests(q) == /\ pc'[q] = pc[q] /\ name'[q] = name[q] /\ prof'[q] = prof[q]
            /\ names'[q] = names[q] /\ listed'[q] = listed[q]

\* ... what it is not told of has not changed.
HeldStill(q) == \A n \in Name : n \notin changed'[q] =>
                    n \notin changed[q] /\ remotes'[n] = remotes[n]

\* A change of the vault is noted for every request that runs on.
LEMMA ChangeIsNoted ==
  ASSUME TypeOK, NEW map \in [Name -> Profile \cup {Nothing}],
         NEW ended \in SUBSET Request, Becomes(map, ended)
  PROVE  /\ remotes' = map
         /\ remotes' \in [Name -> Profile \cup {Nothing}]
         /\ changed' \in [Request -> SUBSET Name]
         /\ \A q \in Request \ ended : ~Idle(q) => HeldStill(q)
BY DEF TypeOK, Becomes, HeldStill

LEMMA StoreIsNoted ==
  ASSUME TypeOK, NEW n \in Name, NEW p \in Profile \cup {Nothing},
         NEW ended \in SUBSET Request, Store(n, p, ended)
  PROVE  /\ remotes' \in [Name -> Profile \cup {Nothing}]
         /\ changed' \in [Request -> SUBSET Name]
         /\ \A q \in Request \ ended : ~Idle(q) => HeldStill(q)
<1>1. [remotes EXCEPT ![n] = p] \in [Name -> Profile \cup {Nothing}]
  BY DEF TypeOK
<1> QED
  BY <1>1, ChangeIsNoted DEF Store

LEMMA NoRemotesType == NoRemotes \in [Name -> Profile \cup {Nothing}]
BY DEF NoRemotes

\* The least of the names left is one of them.
LEMMA NextNameIsLeft ==
  ASSUME TypeOK, NEW r \in Request, names[r] # {}
  PROVE  NextName(r) \in names[r]
<1>1. names[r] \subseteq Nat
  BY DEF TypeOK, Name
<1>2. \E n \in names[r] : \A m \in names[r] : n <= m
  BY <1>1, LeastElement
<1> QED
  BY <1>2 DEF NextName

\* What is left of a bound goes down by one, the others stay.
LEMMA SpendIsBounded ==
  ASSUME TypeOK, NEW what \in {"requests", "cli", "faults", "restarts"}, Spend(what)
  PROVE  /\ budget' \in [requests : Nat, cli : Nat, faults : Nat, restarts : Nat]
         /\ budget'.faults <= budget.faults
         /\ what = "faults" => budget'.faults < budget.faults
         /\ what # "faults" => budget'.faults = budget.faults
BY DEF TypeOK, Spend

\* The locals of the requests are of their types.
LocalsOK ==
    /\ pc \in [Request -> PC] /\ name \in [Request -> Name]
    /\ prof \in [Request -> Profile \cup {Nothing}]
    /\ names \in [Request -> SUBSET Name]
    /\ listed \in [Request -> SUBSET (Name \X Profile)]

\* A request that ends leaves nothing, and disturbs no other.
LEMMA EndsIsLocal ==
  ASSUME TypeOK, NEW r \in Request, Ends(r)
  PROVE  /\ LocalsOK'
         /\ pc'[r] = "idle" /\ listed'[r] = {}
         /\ \A q \in Request \ {r} : Rests(q)
BY DEF TypeOK, LocalsOK, Ends, Goto, PC, Name, Rests

LEMMA ReplyIsLocal ==
  ASSUME TypeOK, NEW r \in Request, Reply(r)
  PROVE  /\ LocalsOK' /\ changed' \in [Request -> SUBSET Name]
         /\ pc'[r] = "idle" /\ listed'[r] = {}
         /\ \A q \in Request \ {r} : Rests(q) /\ changed'[q] = changed[q]
<1>1. Ends(r) /\ changed' = [changed EXCEPT ![r] = {}]
  BY DEF Reply
<1>2. /\ LocalsOK'
      /\ pc'[r] = "idle" /\ listed'[r] = {}
      /\ \A q \in Request \ {r} : Rests(q)
  BY <1>1, EndsIsLocal
<1> QED
  BY <1>1, <1>2 DEF TypeOK

\* What a request's own step does to types and to the other requests.
LEMMA OwnStep ==
  ASSUME TypeOK, NEW r \in Request, Registering(r), Arrives(r) \/ Handle(r)
  PROVE  /\ TypeOK'
         /\ budget'.faults <= budget.faults
         /\ \A q \in Request \ {r} : Rests(q) /\ (Idle(q) \/ HeldStill(q))
<1> DEFINE Goal == /\ TypeOK'
                   /\ budget'.faults <= budget.faults
                   /\ \A q \in Request \ {r} : Rests(q) /\ (Idle(q) \/ HeldStill(q))
<1>a. TypeOK <=> LocalsOK /\ remotes \in [Name -> Profile \cup {Nothing}]
                          /\ drivers \in [Name -> (Profile \ Unusable) \cup {Nothing}]
                          /\ changed \in [Request -> SUBSET Name] /\ suspect \subseteq Name
                          /\ budget \in [requests : Nat, cli : Nat, faults : Nat, restarts : Nat]
  BY DEF TypeOK, LocalsOK
<1>b. (TypeOK <=> LocalsOK /\ remotes \in [Name -> Profile \cup {Nothing}]
                          /\ drivers \in [Name -> (Profile \ Unusable) \cup {Nothing}]
                          /\ changed \in [Request -> SUBSET Name] /\ suspect \subseteq Name
                          /\ budget \in [requests : Nat, cli : Nat, faults : Nat, restarts : Nat])'
  BY DEF TypeOK, LocalsOK
<1>c. /\ LocalsOK /\ remotes \in [Name -> Profile \cup {Nothing}]
      /\ drivers \in [Name -> (Profile \ Unusable) \cup {Nothing}]
      /\ changed \in [Request -> SUBSET Name] /\ suspect \subseteq Name
      /\ budget \in [requests : Nat, cli : Nat, faults : Nat, restarts : Nat]
  BY <1>a
<1>1. ASSUME NEW next \in PC, NEW n \in Name, NEW p \in Profile \cup {Nothing},
             Arrive(r, next, n, p)
      PROVE  Goal
  <2>1. LocalsOK' /\ \A q \in Request \ {r} : Rests(q) /\ HeldStill(q)
    BY <1>1, <1>c DEF Arrive, Goto, LocalsOK, Rests, HeldStill
  <2>2. Spend("requests") /\ UNCHANGED <<remotes, drivers, changed, suspect>>
    BY <1>1 DEF Arrive
  <2> QED
    BY <1>b, <1>c, <2>1, <2>2, SpendIsBounded
<1>2. CASE Arrives(r)
  <2>1. {"save", "peek", "delete", "get", "list"} \subseteq PC /\ 1 \in Name
    BY DEF PC, Name
  <2> QED
    BY <1>1, <1>2, <2>1 DEF Arrives
<1>3. CASE Peek(r)
  BY <1>3, <1>b, <1>c DEF Peek, Goto, LocalsOK, Rests, HeldStill, PC
<1>4. CASE LoadRemote(r)
  BY <1>4, <1>b, <1>c DEF LoadRemote, Goto, LocalsOK, Rests, HeldStill, PC
<1>5. ASSUME Reply(r), UNCHANGED <<remotes, drivers, suspect>>,
             UNCHANGED budget \/ Spend("faults")
      PROVE  Goal
  <2>1. /\ LocalsOK' /\ changed' \in [Request -> SUBSET Name]
        /\ \A q \in Request \ {r} : Rests(q) /\ changed'[q] = changed[q]
    BY <1>5, ReplyIsLocal
  <2>2. \A q \in Request \ {r} : HeldStill(q)
    BY <1>5, <2>1 DEF HeldStill
  <2> QED
    BY <1>b, <1>c, <1>5, <2>1, <2>2, SpendIsBounded
<1>6. CASE LoadRemoteFails(r) \/ Serve(r) \/ GetRemote(r) \/ ListReply(r) \/ VaultFails(r)
  BY <1>5, <1>6 DEF LoadRemoteFails, Serve, GetRemote, ListReply, VaultFails
<1>7. CASE Register(r)
  <2>1. name[r] \in Name /\ prof[r] \in Profile \ Unusable
    BY <1>7, <1>c DEF Register, Registering, LocalsOK
  <2>2. LocalsOK' /\ \A q \in Request \ {r} : Rests(q) /\ HeldStill(q)
    BY <1>7, <1>c DEF Register, Goto, LocalsOK, Rests, HeldStill, PC
  <2> QED
    BY <1>7, <1>b, <1>c, <2>1, <2>2 DEF Register
<1>8. CASE CreateRemote(r)
  <2>1. name[r] \in Name /\ prof[r] \in Profile \cup {Nothing}
    BY <1>c DEF LocalsOK
  <2>2. /\ Store(name[r], prof[r], {r}) /\ Ends(r) /\ UNCHANGED <<drivers, budget>>
        /\ suspect' \subseteq suspect \cup {name[r]}
    BY <1>8 DEF CreateRemote
  <2>3. LocalsOK' /\ \A q \in Request \ {r} : Rests(q)
    BY <2>2, EndsIsLocal
  <2>4. /\ remotes' \in [Name -> Profile \cup {Nothing}]
        /\ changed' \in [Request -> SUBSET Name]
        /\ \A q \in Request \ {r} : Idle(q) \/ HeldStill(q)
    BY <2>1, <2>2, StoreIsNoted
  <2> QED
    BY <1>b, <1>c, <2>1, <2>2, <2>3, <2>4
<1>9. CASE EraseRemote(r)
  <2>1. name[r] \in Name
    BY <1>c DEF LocalsOK
  <2>2. Store(name[r], Nothing, {}) /\ UNCHANGED <<drivers, suspect, budget>>
    BY <1>9 DEF EraseRemote
  <2>3. LocalsOK' /\ \A q \in Request \ {r} : Rests(q)
    BY <1>9, <1>c DEF EraseRemote, Goto, AfterErase, LocalsOK, Rests, PC
  <2>4. /\ remotes' \in [Name -> Profile \cup {Nothing}]
        /\ changed' \in [Request -> SUBSET Name]
        /\ \A q \in Request \ {r} : Idle(q) \/ HeldStill(q)
    BY <2>1, <2>2, StoreIsNoted
  <2> QED
    BY <1>b, <1>c, <2>2, <2>3, <2>4
<1>10. CASE Forget(r)
  <2>1. Reply(r) /\ UNCHANGED <<remotes, budget>> /\ suspect' \subseteq suspect
    BY <1>10 DEF Forget
  <2>2. /\ LocalsOK' /\ changed' \in [Request -> SUBSET Name]
        /\ \A q \in Request \ {r} : Rests(q) /\ changed'[q] = changed[q]
    BY <2>1, ReplyIsLocal
  <2>3. drivers' \in [Name -> (Profile \ Unusable) \cup {Nothing}]
    BY <1>10, <1>c DEF Forget
  <2>4. \A q \in Request \ {r} : HeldStill(q)
    BY <2>1, <2>2 DEF HeldStill
  <2> QED
    BY <1>b, <1>c, <2>1, <2>2, <2>3, <2>4
<1>11. CASE ListNames(r)
  BY <1>11, <1>b, <1>c DEF ListNames, Goto, LocalsOK, Rests, HeldStill, PC
<1>12. CASE ListOne(r)
  <2>1. NextName(r) \in Name
    BY <1>12, NextNameIsLeft DEF ListOne, TypeOK
  <2>2. Collected(r) \subseteq Name \X Profile
    BY <2>1, <1>c DEF Collected
  <2>3. LocalsOK' /\ \A q \in Request \ {r} : Rests(q) /\ HeldStill(q)
    BY <1>12, <1>c, <2>2 DEF ListOne, LocalsOK, Rests, HeldStill
  <2> QED
    BY <1>12, <1>b, <1>c, <2>3 DEF ListOne
<1>13. CASE ListOneFails(r)
  <2>1. LocalsOK' /\ \A q \in Request \ {r} : Rests(q) /\ HeldStill(q)
    BY <1>13, <1>c DEF ListOneFails, LocalsOK, Rests, HeldStill
  <2> QED
    BY <1>13, <1>b, <1>c, <2>1, SpendIsBounded DEF ListOneFails
<1>14. CASE VaultIsLost(r)
  <2>1. /\ Becomes(NoRemotes, {r}) /\ Ends(r) /\ Spend("faults") /\ UNCHANGED drivers
        /\ suspect' = suspect \cup {n \in Name : remotes[n] # Nothing}
    BY <1>14 DEF VaultIsLost
  <2>2. LocalsOK' /\ \A q \in Request \ {r} : Rests(q)
    BY <2>1, EndsIsLocal
  <2>3. /\ remotes' \in [Name -> Profile \cup {Nothing}]
        /\ changed' \in [Request -> SUBSET Name]
        /\ \A q \in Request \ {r} : Idle(q) \/ HeldStill(q)
    BY <2>1, NoRemotesType, ChangeIsNoted
  <2>4. suspect' \subseteq Name
    BY <2>1, <1>c
  <2> QED
    BY <1>b, <1>c, <2>1, <2>2, <2>3, <2>4, SpendIsBounded
<1> QED
  BY <1>2, <1>3, <1>4, <1>6, <1>7, <1>8, <1>9, <1>10, <1>11, <1>12, <1>13, <1>14 DEF Handle

-----------------------------------------------------------------------------
(* The requests.                                                           *)

\* What holds of a request that rests goes on holding.
LEMMA RestKeeps ==
  ASSUME TypeOK, TypeOK', Faults, NEW q \in Request, Registering(q), Listing(q),
         Rests(q), Idle(q) \/ HeldStill(q), budget'.faults <= budget.faults
  PROVE  Registering(q)' /\ Listing(q)'
<1>1. pc[q] \in {"register", "each"} => HeldStill(q)
  BY DEF Idle
<1>2. Registering(q)'
  <2> SUFFICES ASSUME pc'[q] = "register"
               PROVE  /\ prof'[q] \in Profile \ Unusable
                      /\ name'[q] \notin changed'[q] => prof'[q] = remotes'[name'[q]]
    BY DEF Registering
  <2>1. name[q] \in Name
    BY DEF TypeOK
  <2> QED
    BY <1>1, <2>1 DEF Rests, HeldStill, Registering
<1>3. (pc[q] # "each" => listed[q] = {})'
  BY DEF Rests, Listing
<1>4. ASSUME pc'[q] = "each", budget'.faults = MaxFaults, NEW n \in Name \ changed'[q]
      PROVE  (IF n \in names[q]
                THEN remotes[n] # Nothing /\ ProfilesListed(q, n) = {}
                ELSE ProfilesListed(q, n) = {remotes[n]} \ {Nothing})'
  <2>1. pc[q] = "each" /\ n \notin changed[q] /\ remotes'[n] = remotes[n]
    BY <1>1, <1>4 DEF Rests, HeldStill
  <2>2. budget.faults = MaxFaults
    <3>1. budget.faults \in Nat /\ budget'.faults = MaxFaults
      BY <1>4 DEF TypeOK
    <3> QED
      BY <3>1 DEF Faults
  <2>3. names'[q] = names[q] /\ ProfilesListed(q, n)' = ProfilesListed(q, n)
    BY DEF Rests, ProfilesListed
  <2> QED
    BY <2>1, <2>2, <2>3 DEF Listing
<1> QED
  BY <1>2, <1>3, <1>4 DEF Listing

\* A request's own step keeps what is said of it.
LEMMA OwnKeeps ==
  ASSUME TypeOK, TypeOK', Faults, NEW r \in Request, Registering(r), Listing(r),
         Arrives(r) \/ Handle(r)
  PROVE  Registering(r)' /\ Listing(r)'
<1>1. CASE pc'[r] \notin {"register", "each"} /\ listed'[r] = {}
  BY <1>1 DEF Registering, Listing
<1>2. CASE Arrives(r)
  <2>1. pc'[r] \notin {"register", "each"} /\ listed'[r] = {}
    BY <1>2 DEF Arrives, Arrive, Goto, Listing, Idle, TypeOK
  <2> QED
    BY <1>1, <2>1
<1>3. CASE Reply(r) \/ Ends(r)
  BY <1>1, <1>3, EndsIsLocal DEF Reply
<1>4. CASE \/ LoadRemoteFails(r) \/ Serve(r) \/ CreateRemote(r) \/ Forget(r)
           \/ GetRemote(r) \/ ListReply(r) \/ VaultFails(r) \/ VaultIsLost(r)
  BY <1>3, <1>4 DEF LoadRemoteFails, Serve, CreateRemote, Forget, GetRemote, ListReply,
                    VaultFails, VaultIsLost
<1>5. CASE Peek(r) \/ Register(r) \/ EraseRemote(r)
  <2>1. pc[r] # "each" /\ listed'[r] = listed[r] /\ pc'[r] \in {"load", "serve", "forget"}
    BY <1>5 DEF Peek, Register, EraseRemote, Goto, AfterErase, TypeOK
  <2> QED
    BY <1>1, <2>1 DEF Listing
<1>6. CASE LoadRemote(r)
  BY <1>6 DEF LoadRemote, Goto, TypeOK, Registering, Listing
<1>7. CASE ListNames(r)
  <2>1. pc'[r] = "each" /\ listed'[r] = {} /\ names'[r] = {n \in Name : remotes[n] # Nothing}
    BY <1>7 DEF ListNames, Goto, TypeOK, Listing
  <2>2. ASSUME NEW n \in Name
        PROVE  IF n \in names'[r]
                 THEN remotes'[n] # Nothing /\ ProfilesListed(r, n)' = {}
                 ELSE ProfilesListed(r, n)' = {remotes'[n]} \ {Nothing}
    BY <1>7, <2>1 DEF ListNames, ProfilesListed
  <2> QED
    BY <2>1, <2>2 DEF Registering, Listing
<1>8. CASE ListOne(r)
  <2> DEFINE next == NextName(r)
  <2>1. next \in names[r] /\ next \in Name
    BY <1>8, NextNameIsLeft DEF ListOne, TypeOK
  <2>2. /\ pc[r] = "each" /\ pc'[r] = "each"
        /\ names'[r] = names[r] \ {next}
        /\ listed'[r] = listed[r] \cup Collected(r)
        /\ UNCHANGED <<remotes, changed, budget>>
    BY <1>8 DEF ListOne, TypeOK
  <2> HIDE DEF next
  <2>3. ASSUME NEW n \in Name \ changed[r], budget.faults = MaxFaults
        PROVE  IF n \in names'[r]
                 THEN remotes'[n] # Nothing /\ ProfilesListed(r, n)' = {}
                 ELSE ProfilesListed(r, n)' = {remotes'[n]} \ {Nothing}
    <3>1. IF n \in names[r]
            THEN remotes[n] # Nothing /\ ProfilesListed(r, n) = {}
            ELSE ProfilesListed(r, n) = {remotes[n]} \ {Nothing}
      BY <2>2, <2>3 DEF Listing
    <3>2. CASE n # next
      <4>1. \A p : <<n, p>> \notin Collected(r)
        BY <3>2 DEF Collected, next
      <4>2. ProfilesListed(r, n)' = ProfilesListed(r, n)
        BY <2>2, <4>1 DEF ProfilesListed
      <4> QED
        BY <2>2, <3>1, <3>2, <4>2
    <3>3. CASE n = next
      <4>1. remotes[n] \in Profile /\ ProfilesListed(r, n) = {}
        BY <2>1, <3>1, <3>3 DEF TypeOK
      <4>2. \A p : <<n, p>> \in Collected(r) <=> p = remotes[n]
        BY <3>3, <4>1 DEF Collected, next
      <4>3. ProfilesListed(r, n)' = {remotes[n]}
        BY <2>2, <4>1, <4>2 DEF ProfilesListed
      <4> QED
        BY <2>2, <3>3, <4>1, <4>3
    <3> QED
      BY <3>2, <3>3
  <2> QED
    BY <2>2, <2>3 DEF Registering, Listing
<1>9. CASE ListOneFails(r)
  <2>1. pc'[r] = "each" /\ budget'.faults < budget.faults
    BY <1>9, SpendIsBounded DEF ListOneFails
  <2>2. budget'.faults # MaxFaults
    BY <2>1 DEF Faults, TypeOK
  <2> QED
    BY <2>1, <2>2 DEF Registering, Listing
<1> QED
  BY <1>2, <1>4, <1>5, <1>6, <1>7, <1>8, <1>9 DEF Handle

-----------------------------------------------------------------------------
(* The cache.                                                              *)

AgreesOn(n) == \/ drivers[n] \in {Nothing, remotes[n]}
               \/ \E r \in Request : pc[r] = "forget" /\ name[r] = n

\* A name that a step does not touch goes on agreeing.
LEMMA UntouchedAgrees ==
  ASSUME CacheAgrees, NEW n \in Name \ suspect,
         drivers'[n] = drivers[n], remotes'[n] = remotes[n],
         \A r \in Request : pc[r] = "forget" /\ name[r] = n =>
                                pc'[r] = "forget" /\ name'[r] = n
  PROVE  AgreesOn(n)'
BY DEF CacheAgrees, AgreesOn

\* The steps of a request keep the cache right.
LEMMA OwnStepAgrees ==
  ASSUME TypeOK, TypeOK', CacheAgrees, NEW r \in Request, Registering(r),
         Arrives(r) \/ Handle(r)
  PROVE  CacheAgrees'
<1> SUFFICES ASSUME NEW n \in Name, n \notin suspect'
             PROVE  AgreesOn(n)'
  BY DEF CacheAgrees, AgreesOn
<1>1. \A q \in Request \ {r} : Rests(q)
  BY OwnStep
<1>2. ASSUME n \notin suspect, drivers'[n] = drivers[n], remotes'[n] = remotes[n],
             pc[r] # "forget" \/ name[r] # n
      PROVE  AgreesOn(n)'
  BY <1>1, <1>2, UntouchedAgrees DEF Rests
<1>3. CASE \/ Arrives(r) \/ Peek(r) \/ LoadRemote(r) \/ LoadRemoteFails(r) \/ Serve(r)
           \/ GetRemote(r) \/ ListNames(r) \/ ListOne(r) \/ ListOneFails(r)
           \/ ListReply(r) \/ VaultFails(r)
  <2>1. pc[r] # "forget" /\ UNCHANGED <<remotes, drivers, suspect>>
    BY <1>3 DEF Arrives, Arrive, Idle, Peek, LoadRemote, LoadRemoteFails, Serve, GetRemote,
                ListNames, ListOne, ListOneFails, ListReply, VaultFails
  <2> QED
    BY <1>2, <2>1
<1>4. CASE Register(r)
  <2>1. /\ pc[r] = "register" /\ UNCHANGED remotes
        /\ drivers' = [drivers EXCEPT ![name[r]] = prof[r]]
        /\ suspect' = IF name[r] \in changed[r] THEN suspect \cup {name[r]}
                                               ELSE suspect \ {name[r]}
    BY <1>4 DEF Register
  <2>2. CASE n = name[r]
    <3>1. prof[r] = remotes[n] /\ drivers'[n] = prof[r]
      BY <2>1, <2>2 DEF Registering, TypeOK
    <3> QED
      BY <2>1, <3>1 DEF AgreesOn
  <2>3. CASE n # name[r]
    BY <1>2, <2>1, <2>3 DEF TypeOK
  <2> QED
    BY <2>2, <2>3
<1>5. CASE CreateRemote(r)
  <2>1. /\ pc[r] = "save" /\ UNCHANGED drivers
        /\ suspect' = IF remotes[name[r]] # prof[r] THEN suspect \cup {name[r]} ELSE suspect
        /\ remotes' = [remotes EXCEPT ![name[r]] = prof[r]]
    BY <1>5 DEF CreateRemote, Store, Becomes
  <2>2. n \notin suspect /\ remotes'[n] = remotes[n]
    BY <2>1 DEF TypeOK
  <2> QED
    BY <1>2, <2>1, <2>2
<1>6. CASE EraseRemote(r)
  <2>1. /\ pc[r] = "delete" /\ pc'[r] = "forget" /\ name'[r] = name[r]
        /\ remotes' = [remotes EXCEPT ![name[r]] = Nothing]
        /\ UNCHANGED <<drivers, suspect>>
    BY <1>6 DEF EraseRemote, Store, Becomes, Goto, AfterErase, TypeOK
  <2>2. CASE n = name[r]
    BY <2>1, <2>2 DEF AgreesOn
  <2>3. CASE n # name[r]
    BY <1>2, <2>1, <2>3 DEF TypeOK
  <2> QED
    BY <2>2, <2>3
<1>7. CASE Forget(r)
  <2>1. /\ drivers' = [drivers EXCEPT ![name[r]] = Nothing] /\ UNCHANGED remotes
        /\ suspect' = suspect \ {name[r]}
    BY <1>7 DEF Forget
  <2>2. CASE n = name[r]
    BY <2>1, <2>2 DEF AgreesOn, TypeOK
  <2>3. CASE n # name[r]
    BY <1>2, <2>1, <2>3 DEF TypeOK
  <2> QED
    BY <2>2, <2>3
<1>8. CASE VaultIsLost(r)
  <2>1. /\ pc[r] # "forget" /\ UNCHANGED drivers /\ remotes' = NoRemotes
        /\ suspect' = suspect \cup {m \in Name : remotes[m] # Nothing}
    BY <1>8 DEF VaultIsLost, Saving, Becomes
  <2>2. n \notin suspect /\ remotes'[n] = remotes[n]
    BY <2>1 DEF NoRemotes
  <2> QED
    BY <1>2, <2>1, <2>2
<1> QED
  BY <1>3, <1>4, <1>5, <1>6, <1>7, <1>8 DEF Handle

-----------------------------------------------------------------------------
(* The theorems.                                                           *)

LEMMA InitInv == Init => RemotesInv
<1> SUFFICES ASSUME Init
             PROVE  RemotesInv
  OBVIOUS
<1>1. TypeOK
  BY DEF Init, TypeOK, Name, PC
<1>2. Faults /\ CacheAgrees
  BY DEF Init, Faults, CacheAgrees
<1>3. \A r \in Request : Registering(r) /\ Listing(r)
  BY DEF Init, Registering, Listing
<1> QED
  BY <1>1, <1>2, <1>3 DEF RemotesInv

LEMMA NextInv == RemotesInv /\ [Next]_vars => RemotesInv'
<1> SUFFICES ASSUME RemotesInv, [Next]_vars
             PROVE  RemotesInv'
  OBVIOUS
<1> USE DEF RemotesInv
<1>1. ASSUME NEW r \in Request, Arrives(r) \/ Handle(r)
      PROVE  RemotesInv'
  <2>1. TypeOK' /\ budget'.faults <= budget.faults
    BY <1>1, OwnStep
  <2>2. Faults'
    BY <2>1 DEF Faults, TypeOK
  <2>3. CacheAgrees'
    BY <1>1, <2>1, OwnStepAgrees
  <2>4. Registering(r)' /\ Listing(r)'
    BY <1>1, <2>1, OwnKeeps
  <2>5. \A q \in Request \ {r} : Registering(q)' /\ Listing(q)'
    <3>1. \A q \in Request \ {r} : Rests(q) /\ (Idle(q) \/ HeldStill(q))
      BY <1>1, OwnStep
    <3> QED
      BY <2>1, <3>1, RestKeeps
  <2> QED
    BY <2>1, <2>2, <2>3, <2>4, <2>5
<1>2. ASSUME NEW map \in [Name -> Profile \cup {Nothing}], CommandLine(map)
      PROVE  RemotesInv'
  <2>1. /\ Spend("cli") /\ Becomes(map, {})
        /\ suspect' = suspect \cup {n \in Name : remotes[n] # map[n]}
        /\ UNCHANGED <<drivers, pc, name, prof, names, listed>>
    BY <1>2 DEF CommandLine, request
  <2>2. /\ remotes' = map
        /\ remotes' \in [Name -> Profile \cup {Nothing}]
        /\ changed' \in [Request -> SUBSET Name]
        /\ \A q \in Request : Idle(q) \/ HeldStill(q)
    BY <2>1, ChangeIsNoted
  <2>3. /\ budget' \in [requests : Nat, cli : Nat, faults : Nat, restarts : Nat]
        /\ budget'.faults <= budget.faults
    BY <2>1, SpendIsBounded
  <2>4. TypeOK'
    BY <2>1, <2>2, <2>3 DEF TypeOK
  <2>5. Faults'
    BY <2>3 DEF Faults, TypeOK
  <2>6. CacheAgrees'
    <3> SUFFICES ASSUME NEW m \in Name, m \notin suspect'
                 PROVE  AgreesOn(m)'
      BY DEF CacheAgrees, AgreesOn
    <3>1. m \notin suspect /\ remotes'[m] = remotes[m]
      BY <2>1, <2>2
    <3> QED
      BY <2>1, <3>1, UntouchedAgrees
  <2>7. \A q \in Request : Rests(q)
    BY <2>1 DEF Rests
  <2>8. \A q \in Request : Registering(q)' /\ Listing(q)'
    BY <2>2, <2>3, <2>4, <2>7, RestKeeps
  <2> QED
    BY <2>4, <2>5, <2>6, <2>8
<1>3. CASE Restart
  <2>1. /\ budget' \in [requests : Nat, cli : Nat, faults : Nat, restarts : Nat]
        /\ budget'.faults <= budget.faults
    BY <1>3, SpendIsBounded DEF Restart
  <2>2. TypeOK'
    BY <1>3, <2>1, NoRemotesType DEF Restart, TypeOK, Name, PC
  <2>3. Faults'
    BY <2>1 DEF Faults, TypeOK
  <2>4. CacheAgrees'
    BY <1>3 DEF Restart, CacheAgrees
  <2>5. \A q \in Request : Registering(q)' /\ Listing(q)'
    BY <1>3 DEF Restart, Registering, Listing
  <2> QED
    BY <2>2, <2>3, <2>4, <2>5
<1>4. CASE UNCHANGED vars
  <2>1. TypeOK' /\ Faults' /\ CacheAgrees'
    BY <1>4 DEF vars, request, TypeOK, Faults, CacheAgrees
  <2>2. \A q \in Request : Registering(q)' /\ Listing(q)'
    BY <1>4 DEF vars, request, Registering, Listing, ProfilesListed
  <2> QED
    BY <2>1, <2>2
<1> QED
  BY <1>1, <1>2, <1>3, <1>4 DEF Next, Finished

\* The inductive invariant of the daemon's remotes.
THEOREM RemotesInvariant == Spec => []RemotesInv
<1> QED
  BY InitInv, NextInv, PTL DEF Spec

\* Every variable keeps its type: only profiles are listed, and no driver is
\* registered that could not be made (GetDriver, handleListRemotes).
THEOREM TypeCorrect == Spec => []TypeOK
<1>1. RemotesInv => TypeOK
  BY DEF RemotesInv
<1> QED
  BY <1>1, RemotesInvariant, PTL

\* A cached driver is of the profile in the vault, except between the two steps
\* of handleDeleteRemote, after a POST, a change by the command line or a failure
\* that took the vault, and where a request registers what it loaded before a change
\* (GetDriver, RegisterDriver, handleCreateRemote, saveStore).
THEOREM CacheIsRight == Spec => []CacheAgrees
<1>1. RemotesInv => CacheAgrees
  BY DEF RemotesInv
<1> QED
  BY <1>1, RemotesInvariant, PTL

\* The list of the remotes is right about every remote that did not change while
\* handleListRemotes put it together, unless the vault failed.
THEOREM ListsAreFaithful == Spec => []ListIsFaithful
<1>1. RemotesInv => ListIsFaithful
  BY DEF RemotesInv, Listing, ProfilesListed, ListIsFaithful
<1> QED
  BY <1>1, RemotesInvariant, PTL
=============================================================================
