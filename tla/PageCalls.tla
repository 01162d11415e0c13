------------------------------ MODULE PageCalls -----------------------------
(***************************************************************************)
(* A page of an enrichextract job (PageWorkers) whose attempts call the    *)
(* LLM through the limiter (ResourceLimiter), which calls of another job   *)
(* use at the same time.  An attempt of a worker is a call in the limiter: *)
(* it waits for a slot, gives up when its timeout passes, and gives the    *)
(* slot back when the call returns or panics.                              *)
(***************************************************************************)
EXTENDS PageWorkers

CONSTANTS
  OtherCaller, \* goroutines of the other job
  SharedResource, PageClient, OtherClient, Entries, Requests, Unlimited, None

ASSUME CallsAssumption == /\ Workers \cap OtherCaller = {}
                          /\ IsFiniteSet(OtherCaller)
                          /\ PageClient # OtherClient
                          /\ Requests \subseteq Int
                          /\ Unlimited \notin Int
                          /\ None \notin Entries

Callers == Workers \cup OtherCaller
Clients == {PageClient, OtherClient}

VARIABLES configured, snapshot, current, limit, slots, pc, entry

Limiter == INSTANCE ResourceLimiter WITH
  Resources  <- {SharedResource},
  Workers    <- Callers,
  ResourceOf <- [c \in Clients |-> SharedResource],
  ClientOf   <- [w \in Callers |-> IF w \in Workers THEN PageClient ELSE OtherClient],
  Timed      <- Workers

limiterVars == <<configured, snapshot, current, limit, slots, pc, entry>>
callVars == <<vars, limiterVars>>

---------------------------------------------------------------------------
\* getOrCreateChatModel fails, before the limiter is asked.
NoModel(w) == pc[w] = "idle" /\ AttemptFails(w)

\* What a worker does outside of calls.
OwnWork(w) ==
  /\ \/ Exit(w) \/ ParseSource(w) \/ Deliver(w) \/ NoModel(w)
     \/ pc[w] = "idle" /\ Panic(w)
  /\ UNCHANGED limiterVars

\* GenerateStructuredMessages, up to the answer.
StartCall(w) ==
  /\ stage[w] = "try"
  /\ Limiter!GetOrCreate(w) \/ Limiter!TakeSlot(w)
  /\ UNCHANGED vars

\* The timeout of the attempt passes before it gets a slot.  (NoTimeout and
\* KeepsSlot are mutations used to show that a property can fail.)
NoTimeout(w) == FALSE
TimeOut(w) == Limiter!GiveUp(w) /\ AttemptFails(w)

\* A call that panics gives its slot back all the same.
KeepsSlot(w) ==
  /\ pc[w] = "call"
  /\ pc' = [pc EXCEPT ![w] = "idle"]
  /\ UNCHANGED <<configured, snapshot, current, limit, slots, entry>>
GivesBack(w) == Limiter!Release(w)

\* The call returns, or its timeout passes, with an answer or without.
EndCall(w) ==
  /\ Limiter!Release(w)
  /\ AttemptFails(w) \/ AttemptSucceeds(w)

\* The call panics: release is deferred.
PanicInCall(w) == GivesBack(w) /\ Panic(w)

\* The other job: it may start with another limit, and calls again and again.
Others ==
  /\ \/ Limiter!SaveLLM(SharedResource)
     \/ Limiter!NewResourceClient(OtherClient)
     \/ \E w \in OtherCaller : \/ Limiter!GetOrCreate(w)
                               \/ Limiter!TakeSlot(w)
                               \/ Limiter!Release(w)
  /\ UNCHANGED vars

MainGoesOn == Main /\ UNCHANGED limiterVars

\* Everything a worker does but the wait for a slot.
WorkerGoesOn(w) ==
  \/ OwnWork(w)
  \/ StartCall(w) /\ pc[w] = "idle"
  \/ TimeOut(w) \/ EndCall(w) \/ PanicInCall(w)

CallInit == Init /\ Limiter!Init

CallNext ==
  \/ MainGoesOn
  \/ Others
  \/ \E w \in Workers : WorkerGoesOn(w) \/ StartCall(w)

CallSpec == CallInit /\ [][CallNext]_callVars

\* Fairness of PageWorkers: the goroutines go on, and timeouts pass.
FairCallSpec ==
  /\ CallSpec
  /\ WF_callVars(MainGoesOn)
  /\ \A w \in Workers : WF_callVars(WorkerGoesOn(w))

---------------------------------------------------------------------------
(***************************************************************************)
(* Properties.  Those of PageWorkers hold of the page in this composition, *)
(* too: PageEnds although another job may hold the slots for ever.         *)
(***************************************************************************)

\* "The wait before a retry takes up a worker of the job but no slot of the
\* resource": a worker refers to a slot only during a call, so that none is held
\* while it waits, delivers its result or has left, panics included.
SlotOnlyDuringCall ==
  \A w \in Workers :
    /\ entry[w] # None => stage[w] = "try" /\ pc[w] # "idle"
    /\ pc[w] # "idle" => stage[w] = "try"

\* How far a goroutine of the page is from its end; a worker with a row, from
\* handing it in.
MainLeft == [send |-> 2, collect |-> 1, done |-> 0]
StagesLeft == [parse |-> 4, try |-> 3, deliver |-> 2, receive |-> 1, exit |-> 0]
WaitsLeft == [idle |-> 2, wait |-> 1, call |-> 0]

WorkerCloser(w) ==
  \/ StagesLeft[stage'[w]] < StagesLeft[stage[w]]
  \/ /\ stage[w] = "try" /\ stage'[w] = "try"
     /\ \/ attempt[w] < attempt'[w] /\ attempt'[w] <= MaxRetries
        \/ attempt'[w] = attempt[w] /\ WaitsLeft[pc'[w]] < WaitsLeft[pc[w]]

Closer ==
  \/ MainLeft[main'] < MainLeft[main]
  \/ main' = main /\ sent < sent' /\ sent' <= NumRows
  \/ main' = main /\ sent' = sent /\ taken < taken' /\ taken' <= NumRows
  \/ /\ UNCHANGED <<main, sent, taken>>
     /\ \E w \in Workers :
          /\ WorkerCloser(w)
          /\ \A v \in Workers \ {w} : UNCHANGED <<stage[v], attempt[v], pc[v]>>

\* The goroutines of a page do not go round in circles: no answer, timeout, retry or
\* panic, and nothing the other job does, takes a row back to where it was, and each
\* step gets the page closer to its end in an order in which only finitely many can
\* follow.
PageRunsOut ==
  [][~UNCHANGED vars \/ (\E w \in Workers : pc'[w] # pc[w]) => Closer]_callVars

\* As long as max_concurrency is not changed to another value, the calls of the
\* page and of the other job together stay within it.
ResourceBound == Limiter!ResourceBound
=============================================================================
