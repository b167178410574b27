---------------------------- MODULE RemoteStore ----------------------------
(***************************************************************************)
(* What the Vault interface (pkg/vault) promises its callers: a map from   *)
(* names to remote profiles on which every call takes effect at one        *)
(* instant between its invocation and its return, or fails and leaves the  *)
(* map alone.  A caller that dies leaves its call unanswered.              *)
(*                                                                         *)
(* There is one way to lose the map: a call is exposed when it has taken   *)
(* the old map out of the store to put the new one in its place, and one   *)
(* that then fails or dies takes every remote with it.                     *)
(***************************************************************************)
CONSTANTS Thread,   \* callers
          Name,     \* names of remotes
          Profile,  \* what is stored under a name
          Nothing   \* no profile

Remotes == [Name -> Profile \cup {Nothing}]
Call == [kind : {"save"}, name : Name, profile : Profile]
          \cup [kind : {"delete", "get"}, name : Name] \cup [kind : {"list"}]
\* GetRemote answers with one pair or none, ListRemotes with names alone.
Answer == SUBSET (Name \X (Profile \cup {Nothing}))

VARIABLES remotes, status, call, answer

NoRemotes == [n \in Name |-> Nothing]
NoCall == [kind |-> "list"]

Init == /\ remotes = NoRemotes
        /\ status = [t \in Thread |-> "idle"]
        /\ call = [t \in Thread |-> NoCall]
        /\ answer = [t \in Thread |-> {}]

After(r, c) ==
    CASE c.kind = "save"   -> [r EXCEPT ![c.name] = c.profile]
      [] c.kind = "delete" -> [r EXCEPT ![c.name] = Nothing]
      [] OTHER             -> r

Seen(r, c) ==
    CASE c.kind = "get"  -> {<<n, r[n]>> : n \in {m \in {c.name} : r[m] # Nothing}}
      [] c.kind = "list" -> {<<n, Nothing>> : n \in {m \in Name : r[m] # Nothing}}
      [] OTHER           -> {}

Invoke(t, c) ==
    /\ status[t] = "idle"
    /\ status' = [status EXCEPT ![t] = "pending"]
    /\ call' = [call EXCEPT ![t] = c]
    /\ UNCHANGED <<remotes, answer>>

Expose(t) ==
    /\ status[t] = "pending"
    /\ status' = [status EXCEPT ![t] = "exposed"]
    /\ UNCHANGED <<remotes, call, answer>>

TakeEffect(t) ==
    /\ status[t] \in {"pending", "exposed"}
    /\ status' = [status EXCEPT ![t] = "done"]
    /\ remotes' = After(remotes, call[t])
    /\ answer' = [answer EXCEPT ![t] = Seen(remotes, call[t])]
    /\ UNCHANGED call

Fail(t) ==
    /\ status[t] = "pending"
    /\ status' = [status EXCEPT ![t] = "failed"]
    /\ UNCHANGED <<remotes, call, answer>>

Lose(t) ==
    /\ status[t] = "exposed"
    /\ status' = [status EXCEPT ![t] = "failed"]
    /\ remotes' = NoRemotes
    /\ UNCHANGED <<call, answer>>

Return(t) ==
    /\ status[t] \in {"done", "failed"}
    /\ status' = [status EXCEPT ![t] = "idle"]
    /\ answer' = [answer EXCEPT ![t] = {}]
    /\ call' = [call EXCEPT ![t] = NoCall]
    /\ UNCHANGED remotes

Die(S) ==
    /\ \/ remotes' = remotes
       \/ remotes' = NoRemotes /\ \E t \in S : status[t] = "exposed"
    /\ status' = [t \in Thread |-> IF t \in S THEN "idle" ELSE status[t]]
    /\ answer' = [t \in Thread |-> IF t \in S THEN {} ELSE answer[t]]
    /\ call' = [t \in Thread |-> IF t \in S THEN NoCall ELSE call[t]]

Next == \/ \E t \in Thread : \/ \E c \in Call : Invoke(t, c)
                             \/ Expose(t) \/ TakeEffect(t)
                             \/ Fail(t) \/ Lose(t) \/ Return(t)
        \/ \E S \in SUBSET Thread : Die(S)

vars == <<remotes, status, call, answer>>
Spec == Init /\ [][Next]_vars
=============================================================================
