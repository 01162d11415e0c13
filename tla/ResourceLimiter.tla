--------------------------- MODULE ResourceLimiter --------------------------
(***************************************************************************)
(* The limiter of LLM calls per resource (infra/llm/limiter.go) as the     *)
(* workers of running jobs use it.  A job builds one client when it starts *)
(* executing; the client keeps the max_concurrency the resource had then.  *)
(* Every call of a worker looks the entry of the resource up, replacing it *)
(* when its limit is not the client's, waits for a slot of that entry, and *)
(* gives the slot back to the entry it was taken from.                     *)
(*                                                                         *)
(* An entry that nothing refers to any more is garbage; its identity is    *)
(* used again for a later entry.                                           *)
(***************************************************************************)
EXTENDS Integers, FiniteSets

CONSTANTS
  Resources,   \* LLM resources
  Clients,     \* clients, one per running job
  Workers,     \* goroutines that call the LLM
  Entries,     \* identities of limiterEntry objects
  ResourceOf,  \* [Clients -> Resources]
  ClientOf,    \* [Workers -> Clients]
  Timed,       \* workers whose context has a deadline (enrichextract)
  Requests,    \* values of max_concurrency that are asked for
  Unlimited,   \* max_concurrency is not set
  None         \* no entry

ASSUME ClientsAssumption == /\ ResourceOf \in [Clients -> Resources]
                            /\ ClientOf \in [Workers -> Clients]
                            /\ Timed \subseteq Workers
                            /\ IsFiniteSet(Workers)
ASSUME LimitsAssumption == /\ Requests \subseteq Int
                           /\ Unlimited \notin Int
                           /\ None \notin Entries

VARIABLES
  configured,  \* max_concurrency in the store, per resource
  snapshot,    \* maxConcurrency of the clients
  current,     \* resourceLimiterManager.entries
  limit,       \* limiterEntry.limit
  slots,       \* len(limiterEntry.slots)
  pc,          \* where the workers are
  entry        \* the entry a worker's call refers to

vars == <<configured, snapshot, current, limit, slots, pc, entry>>

Resource(w) == ResourceOf[ClientOf[w]]

\* The limits that validateModelResource accepts.  (A definition named AlsoZero,
\* AnyReused and so on is a mutation used to show that a property can fail.)
AlsoZero == {l \in Requests : l >= 0}
Limits == {l \in Requests : l > 0}

\* Entries that something refers to.
InUse == {current[r] : r \in Resources} \cup {entry[w] : w \in Workers}

Calling(w) == pc[w] = "call"

---------------------------------------------------------------------------
\* SaveLLM: an operator changes max_concurrency.
SaveLLM(r) ==
  /\ configured' \in {[configured EXCEPT ![r] = l] : l \in Limits \cup {Unlimited}}
  /\ UNCHANGED <<snapshot, current, limit, slots, pc, entry>>

\* The executor of a new job reads the resource and builds the client.
NewResourceClient(c) ==
  /\ \A w \in Workers : ClientOf[w] = c => pc[w] = "idle"
  /\ snapshot' = [snapshot EXCEPT ![c] = configured[ResourceOf[c]]]
  /\ UNCHANGED <<configured, current, limit, slots, pc, entry>>

\* Whether getOrCreate returns the entry it finds.
AnyReused(r, l) == current[r] # None
NoneReused(r, l) == FALSE
Reused(r, l) == current[r] # None /\ limit[current[r]] = l

\* Acquire up to the select: getOrCreate runs under the mutex, so it is one step.
\* Without a limit there is nothing to acquire.
GetOrCreate(w) ==
  LET r == Resource(w)
      l == snapshot[ClientOf[w]]
  IN /\ pc[w] = "idle"
     /\ \/ /\ l = Unlimited
           /\ pc' = [pc EXCEPT ![w] = "call"]
           /\ UNCHANGED <<current, limit, slots, entry>>
        \/ /\ l # Unlimited /\ Reused(r, l)
           /\ pc' = [pc EXCEPT ![w] = "wait"]
           /\ entry' = [entry EXCEPT ![w] = current[r]]
           /\ UNCHANGED <<current, limit, slots>>
        \/ /\ l # Unlimited /\ ~Reused(r, l)
           /\ \E e \in Entries \ InUse :
                /\ limit' = [limit EXCEPT ![e] = l]
                /\ slots' = [slots EXCEPT ![e] = 0]
                /\ current' = [current EXCEPT ![r] = e]
                /\ entry' = [entry EXCEPT ![w] = e]
           /\ pc' = [pc EXCEPT ![w] = "wait"]
     /\ UNCHANGED <<configured, snapshot>>

\* entry.slots <- struct{}{}
TakeSlot(w) ==
  /\ pc[w] = "wait"
  /\ slots[entry[w]] < limit[entry[w]]
  /\ slots' = [slots EXCEPT ![entry[w]] = @ + 1]
  /\ pc' = [pc EXCEPT ![w] = "call"]
  /\ UNCHANGED <<configured, snapshot, current, limit, entry>>

\* <-ctx.Done(): only the calls of enrichextract carry a deadline.
GiveUp(w) ==
  /\ w \in Timed
  /\ pc[w] = "wait"
  /\ pc' = [pc EXCEPT ![w] = "idle"]
  /\ entry' = [entry EXCEPT ![w] = None]
  /\ UNCHANGED <<configured, snapshot, current, limit, slots>>

\* The call returns, is cut off by its deadline or panics: the deferred release
\* takes a token out of the entry it was put in.
FromCurrent(w) == current[Resource(w)]
ReleasedEntry(w) == entry[w]

Release(w) ==
  /\ pc[w] = "call"
  /\ IF entry[w] = None
       THEN UNCHANGED slots
       ELSE /\ slots[ReleasedEntry(w)] > 0
            /\ slots' = [slots EXCEPT ![ReleasedEntry(w)] = @ - 1]
  /\ pc' = [pc EXCEPT ![w] = "idle"]
  /\ entry' = [entry EXCEPT ![w] = None]
  /\ UNCHANGED <<configured, snapshot, current, limit>>

Init ==
  /\ configured \in [Resources -> Limits \cup {Unlimited}]
  /\ snapshot = [c \in Clients |-> configured[ResourceOf[c]]]
  /\ current = [r \in Resources |-> None]
  /\ limit = [e \in Entries |-> 0]
  /\ slots = [e \in Entries |-> 0]
  /\ pc = [w \in Workers |-> "idle"]
  /\ entry = [w \in Workers |-> None]

Next ==
  \/ \E r \in Resources : SaveLLM(r)
  \/ \E c \in Clients : NewResourceClient(c)
  \/ \E w \in Workers : GetOrCreate(w) \/ TakeSlot(w) \/ GiveUp(w) \/ Release(w)

Spec == Init /\ [][Next]_vars

\* Deadlines pass: a call with one gives up the wait, or returns.  A call without
\* one need not ever return.  Blocked senders of a Go channel are served in the
\* order they came, so a waiter that finds a free slot again and again gets one:
\* strong fairness of TakeSlot.
FairSpec ==
  /\ Spec
  /\ \A w \in Workers : SF_vars(TakeSlot(w))
  /\ \A w \in Timed : WF_vars(GiveUp(w)) /\ WF_vars(Release(w))

---------------------------------------------------------------------------
(***************************************************************************)
(* Properties.                                                             *)
(***************************************************************************)

\* The types of the manager's and the workers' state.
TypeOK ==
  /\ configured \in [Resources -> (Nat \ {0}) \cup {Unlimited}]
  /\ snapshot \in [Clients -> (Nat \ {0}) \cup {Unlimited}]
  /\ current \in [Resources -> Entries \cup {None}]
  /\ limit \in [Entries -> Nat]
  /\ slots \in [Entries -> Nat]
  /\ pc \in [Workers -> {"idle", "wait", "call"}]
  /\ entry \in [Workers -> Entries \cup {None}]

Holders(e) == {w \in Workers : Calling(w) /\ entry[w] = e}

\* The tokens in an entry are those of the calls that took one from it: no slot
\* leaks through a timeout and none is given back twice or to another entry,
\* although entries are replaced while calls are under way.
SlotsAreHolders == \A e \in Entries : slots[e] = Cardinality(Holders(e))

\* A call waits for, and holds, a slot of an entry with the limit its job was
\* started with, whichever limits other jobs bring in meanwhile.
WaitsForOwnLimit ==
  \A w \in Workers : entry[w] # None => limit[entry[w]] = snapshot[ClientOf[w]]

Limited(w) == Calling(w) /\ snapshot[ClientOf[w]] # Unlimited
CallsOn(r) == {w \in Workers : Limited(w) /\ Resource(w) = r}

\* max_concurrency is never changed to another value.
OneLimit == \A l, m \in Limits : l = m

\* As long as all clients of a resource have the same limit, the calls on the
\* resource, over all jobs, stay within it.
ResourceBound ==
  OneLimit =>
    \A r \in Resources : \A l \in Limits : Cardinality(CallsOn(r)) <= l

\* Nobody waits for a slot that nobody would give back: the deferred release finds
\* the token it takes, and whoever finds no free slot waits for a call under way
\* on the same entry, though that entry may have been replaced long ago.
WaitsForACall ==
  \A w \in Workers :
    /\ Calling(w) /\ entry[w] # None => slots[entry[w]] > 0
    /\ pc[w] = "wait" => \/ slots[entry[w]] < limit[entry[w]]
                         \/ \E v \in Workers : Calling(v) /\ entry[v] = entry[w]

\* Only a call that never returns keeps another waiting for ever, and only one
\* without a deadline: no slot is lost, to timeouts or to an entry that was
\* replaced, and a call with a deadline ends or gives up in any case.
WaitEnds ==
  \A w \in Workers :
    /\ w \in Timed => []<>(pc[w] = "idle")
    /\ <>[](pc[w] = "wait") =>
         \E v \in Workers \ Timed : <>[](Calling(v) /\ entry[v] = entry[w])

---------------------------------------------------------------------------
(***************************************************************************)
(* The inductive invariant.                                                *)
(***************************************************************************)

\* Only accepted limits reach the store and the clients.
LimitsAccepted ==
  /\ \A r \in Resources : configured[r] \in Limits \cup {Unlimited}
  /\ \A c \in Clients : snapshot[c] \in Limits \cup {Unlimited}

\* Which workers refer to an entry.
EntryKept ==
  \A w \in Workers : /\ pc[w] = "idle" => entry[w] = None
                     /\ pc[w] = "wait" => entry[w] # None
                     /\ Limited(w) => entry[w] # None

EntryBound == \A e \in Entries : slots[e] <= limit[e]

CurrentHasLimit ==
  \A r \in Resources : current[r] # None => limit[current[r]] \in Limits

\* With one limit an entry is never replaced.
NeverReplaced ==
  OneLimit =>
    \A w \in Workers : entry[w] # None => entry[w] = current[Resource(w)]

\* The inductive invariant behind the safety properties.
LimiterInv ==
  /\ TypeOK
  /\ LimitsAccepted
  /\ EntryKept
  /\ SlotsAreHolders
  /\ EntryBound
  /\ WaitsForOwnLimit
  /\ CurrentHasLimit
  /\ NeverReplaced

---------------------------------------------------------------------------
(***************************************************************************)
(* What the design document says and the code does not do.                 *)
(***************************************************************************)

\* "Real concurrency <= min(job.concurrency, llm_resource.max_concurrency)": the
\* calls of one job stay within the max_concurrency its client was built with.
JobBound ==
  \A c \in Clients :
    snapshot[c] # Unlimited =>
      Cardinality({w \in Workers : Calling(w) /\ ClientOf[w] = c}) <= snapshot[c]
=============================================================================
