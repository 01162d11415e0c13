-------------------------- MODULE ResourceRegister --------------------------
(***************************************************************************)
(* What the resource service promises its callers: every resource behaves  *)
(* like one register.  A save stores the whole configuration that was sent *)
(* at one instant between request and answer, or nothing; a get returns    *)
(* one configuration that was saved, whole; a delete says whether there    *)
(* was something to delete.                                                *)
(***************************************************************************)
CONSTANTS
  Clients, Resources, Configs,
  Absent,      \* no such resource
  NoRequest    \* the client waits for no answer

VARIABLES
  store,       \* the configuration of each resource
  request,     \* the save a client waits for
  answer       \* the last answer of a client

vars == <<store, request, answer>>

Errors == {"invalid_argument", "internal"}
Init == /\ store \in [Resources -> Configs \cup {Absent}]
        /\ request = [c \in Clients |-> NoRequest]
        /\ answer = [c \in Clients |-> "none"]

Ask(c, x, v) ==
  /\ request[c] = NoRequest
  /\ request' = [request EXCEPT ![c] = [of |-> x, config |-> v]]
  /\ answer' = [answer EXCEPT ![c] = "none"]
  /\ UNCHANGED store

Save(c) ==
  /\ request[c] # NoRequest
  /\ store' = [store EXCEPT ![request[c].of] = request[c].config]
  /\ request' = [request EXCEPT ![c] = NoRequest]
  /\ answer' = [answer EXCEPT ![c] = "ok"]

\* A request is refused or fails; nothing was stored.
Refuse(c) ==
  /\ request' = [request EXCEPT ![c] = NoRequest]
  /\ \E e \in Errors : answer' = [answer EXCEPT ![c] = e]
  /\ UNCHANGED store

Get(c, x) ==
  /\ request[c] = NoRequest
  /\ answer' = [answer EXCEPT ![c] = store[x]]
  /\ UNCHANGED <<store, request>>

Delete(c, x) ==
  /\ request[c] = NoRequest
  /\ store' = [store EXCEPT ![x] = Absent]
  /\ answer' = [answer EXCEPT ![c] = IF store[x] = Absent THEN "not_found" ELSE "deleted"]
  /\ UNCHANGED request

\* The server ends: requests get no answer.
Lose ==
  /\ request' = [c \in Clients |-> NoRequest]
  /\ UNCHANGED <<store, answer>>

Next ==
  \/ Lose
  \/ \E c \in Clients :
       \/ Save(c) \/ Refuse(c)
       \/ \E x \in Resources : \/ Get(c, x) \/ Delete(c, x)
                               \/ \E v \in Configs : Ask(c, x, v)

Spec == Init /\ [][Next]_vars
=============================================================================
