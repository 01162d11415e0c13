----------------------- MODULE ResourceLimiterProofs ------------------------
(***************************************************************************)
(* Proofs about ResourceLimiter, for any number of resources, jobs,        *)
(* workers and entries.                                                    *)
(***************************************************************************)
EXTENDS ResourceLimiter, FiniteSetTheorems, TLAPS

LEMMA HoldersFinite ==
  \A e \in Entries : IsFiniteSet(Holders(e)) /\ Cardinality(Holders(e)) \in Nat
<1>1. \A e \in Entries : Holders(e) \subseteq Workers
  BY DEF Holders
<1>2. \A e \in Entries : IsFiniteSet(Holders(e))
  BY <1>1, ClientsAssumption, FS_Subset
<1> QED BY <1>2, FS_CardinalityType

\* A call that starts, or ends, on entry e changes the number of its holders by
\* one.
LEMMA OneMore ==
  ASSUME NEW e \in Entries, NEW w \in Workers, w \notin Holders(e),
         Holders(e)' = Holders(e) \cup {w}
  PROVE  Cardinality(Holders(e)') = Cardinality(Holders(e)) + 1
BY HoldersFinite, FS_AddElement

LEMMA OneLess ==
  ASSUME NEW e \in Entries, NEW w \in Workers, w \in Holders(e),
         Holders(e)' = Holders(e) \ {w}
  PROVE  Cardinality(Holders(e)') = Cardinality(Holders(e)) - 1
BY HoldersFinite, FS_RemoveElement

LEMMA LimitsArePositive == Limits \subseteq Nat \ {0} /\ Unlimited \notin Limits
<1>1. \A l \in Limits : l \in Requests /\ l \in Int /\ l > 0
  BY LimitsAssumption DEF Limits
<1>2. \A l \in Limits : l \in Nat \ {0}
  BY <1>1
<1> QED BY <1>1, <1>2, LimitsAssumption

LEMMA InitLimiter == Init => LimiterInv
<1> SUFFICES ASSUME Init PROVE LimiterInv
  OBVIOUS
<1>1. TypeOK /\ LimitsAccepted
  BY ClientsAssumption, LimitsArePositive DEF Init, TypeOK, LimitsAccepted
<1>2. EntryKept /\ WaitsForOwnLimit /\ NeverReplaced
  BY DEF Init, EntryKept, WaitsForOwnLimit, NeverReplaced, Limited, Calling
<1>3. EntryBound /\ CurrentHasLimit
  BY DEF Init, EntryBound, CurrentHasLimit
<1>4. SlotsAreHolders
  <2>1. \A e \in Entries : Holders(e) = {}
    BY DEF Init, Holders, Calling
  <2> QED BY <2>1, FS_EmptySet DEF Init, SlotsAreHolders
<1> QED BY <1>1, <1>2, <1>3, <1>4 DEF LimiterInv

LEMMA SaveKeeps ==
  ASSUME LimiterInv, NEW r \in Resources, SaveLLM(r)
  PROVE  LimiterInv'
<1>1. /\ UNCHANGED <<snapshot, current, limit, slots, pc, entry>>
      /\ TypeOK' /\ LimitsAccepted'
  BY LimitsArePositive DEF LimiterInv, SaveLLM, TypeOK, LimitsAccepted
<1>2. \A e \in Entries : Holders(e)' = Holders(e)
  BY <1>1 DEF Holders, Calling
<1> QED BY <1>1, <1>2 DEF LimiterInv, EntryKept, SlotsAreHolders, EntryBound,
           WaitsForOwnLimit, CurrentHasLimit, NeverReplaced, Limited, Calling

LEMMA NewClientKeeps ==
  ASSUME LimiterInv, NEW c \in Clients, NewResourceClient(c)
  PROVE  LimiterInv'
<1>1. UNCHANGED <<configured, current, limit, slots, pc, entry>>
  BY DEF NewResourceClient
<1>2. TypeOK' /\ LimitsAccepted'
  BY <1>1, ClientsAssumption, LimitsArePositive
     DEF LimiterInv, NewResourceClient, TypeOK, LimitsAccepted
<1>3. \A w \in Workers : pc[w] # "idle" => snapshot'[ClientOf[w]] = snapshot[ClientOf[w]]
  BY ClientsAssumption DEF LimiterInv, NewResourceClient, TypeOK
<1>4. EntryKept'
  BY <1>1, <1>3 DEF LimiterInv, EntryKept, Limited, Calling
<1>5. WaitsForOwnLimit'
  BY <1>1, <1>3 DEF LimiterInv, EntryKept, WaitsForOwnLimit
<1>6. \A e \in Entries : Holders(e)' = Holders(e)
  BY <1>1 DEF Holders, Calling
<1> QED BY <1>1, <1>2, <1>4, <1>5, <1>6 DEF LimiterInv, SlotsAreHolders, EntryBound,
           CurrentHasLimit, NeverReplaced

LEMMA GetOrCreateKeeps ==
  ASSUME LimiterInv, NEW w \in Workers, GetOrCreate(w)
  PROVE  LimiterInv'
<1> DEFINE r == Resource(w)
           l == snapshot[ClientOf[w]]
<1>1. r \in Resources /\ pc[w] = "idle" /\ entry[w] = None
  BY ClientsAssumption DEF LimiterInv, GetOrCreate, EntryKept, Resource
<1>2. UNCHANGED <<configured, snapshot>> /\ LimitsAccepted'
  BY DEF GetOrCreate, LimiterInv, LimitsAccepted
<1>3. CASE l = Unlimited
  <2>1. /\ pc' = [pc EXCEPT ![w] = "call"]
        /\ UNCHANGED <<current, limit, slots, entry>>
    BY <1>3 DEF GetOrCreate
  <2>2. TypeOK'
    BY <1>2, <2>1 DEF LimiterInv, TypeOK
  <2>3. EntryKept'
    BY <1>1, <1>2, <1>3, <2>1 DEF LimiterInv, TypeOK, EntryKept, Limited, Calling
  <2>4. \A e \in Entries : Holders(e)' = Holders(e)
    BY <1>1, <2>1, LimitsAssumption DEF LimiterInv, TypeOK, Holders, Calling
  <2> QED BY <1>2, <2>1, <2>2, <2>3, <2>4 DEF LimiterInv, SlotsAreHolders, EntryBound,
             WaitsForOwnLimit, CurrentHasLimit, NeverReplaced
<1>4. CASE l # Unlimited /\ Reused(r, l)
  <2>1. /\ pc' = [pc EXCEPT ![w] = "wait"]
        /\ entry' = [entry EXCEPT ![w] = current[r]]
        /\ UNCHANGED <<current, limit, slots>>
    BY <1>4 DEF GetOrCreate
  <2>2. current[r] \in Entries /\ limit[current[r]] = l
    BY <1>1, <1>4 DEF LimiterInv, TypeOK, Reused
  <2>3. TypeOK'
    BY <1>2, <2>1, <2>2 DEF LimiterInv, TypeOK
  <2>4. EntryKept'
    BY <1>2, <2>1, <2>2, LimitsAssumption DEF LimiterInv, TypeOK, EntryKept, Limited, Calling
  <2>5. \A e \in Entries : Holders(e)' = Holders(e)
    BY <1>1, <2>1 DEF LimiterInv, TypeOK, Holders, Calling
  <2>6. WaitsForOwnLimit'
    BY <1>2, <2>1, <2>2 DEF LimiterInv, TypeOK, WaitsForOwnLimit
  <2>7. NeverReplaced'
    BY <2>1 DEF LimiterInv, TypeOK, NeverReplaced, Resource
  <2> QED BY <1>2, <2>1, <2>3, <2>4, <2>5, <2>6, <2>7 DEF LimiterInv, SlotsAreHolders,
             EntryBound, CurrentHasLimit
<1>5. CASE l # Unlimited /\ ~Reused(r, l)
  <2>1. PICK e \in Entries \ InUse : /\ limit' = [limit EXCEPT ![e] = l]
                                     /\ slots' = [slots EXCEPT ![e] = 0]
                                     /\ current' = [current EXCEPT ![r] = e]
                                     /\ entry' = [entry EXCEPT ![w] = e]
    BY <1>5 DEF GetOrCreate
  <2>2. pc' = [pc EXCEPT ![w] = "wait"]
    BY <1>5 DEF GetOrCreate
  <2>3. /\ e # None
        /\ \A v \in Workers : entry[v] # e
        /\ \A q \in Resources : current[q] # e
    BY LimitsAssumption DEF InUse
  <2>4. l \in Limits /\ l \in Nat
    BY <1>5, ClientsAssumption, LimitsArePositive DEF LimiterInv, LimitsAccepted
  <2>5. TypeOK'
    BY <1>2, <2>1, <2>2, <2>4 DEF LimiterInv, TypeOK
  <2>6. EntryKept'
    BY <1>2, <2>1, <2>2, <2>3 DEF LimiterInv, TypeOK, EntryKept, Limited, Calling
  <2>7. \A f \in Entries : Holders(f)' = Holders(f)
    BY <1>1, <2>1, <2>2 DEF LimiterInv, TypeOK, Holders, Calling
  <2>8. Holders(e) = {}
    BY <2>3 DEF Holders
  <2>9. SlotsAreHolders'
    BY <2>1, <2>7, <2>8, FS_EmptySet DEF LimiterInv, TypeOK, SlotsAreHolders
  <2>10. EntryBound'
    BY <2>1, <2>4 DEF LimiterInv, TypeOK, EntryBound
  <2>11. WaitsForOwnLimit'
    BY <1>2, <2>1, <2>3 DEF LimiterInv, TypeOK, WaitsForOwnLimit
  <2>12. CurrentHasLimit'
    BY <2>1, <2>3, <2>4 DEF LimiterInv, TypeOK, CurrentHasLimit
  <2>13. NeverReplaced'
    <3> SUFFICES ASSUME OneLimit, NEW v \in Workers, entry'[v] # None
                 PROVE  entry'[v] = current'[Resource(v)]
      BY <1>2, <2>1 DEF NeverReplaced, OneLimit, Resource
    <3>1. current[r] = None
      BY <1>1, <1>5, <2>4 DEF LimiterInv, CurrentHasLimit, Reused, OneLimit
    <3>2. CASE v = w
      BY <1>1, <2>1, <3>2 DEF LimiterInv, TypeOK
    <3>3. CASE v # w
      <4>1. entry'[v] = entry[v] /\ entry[v] = current[Resource(v)]
        BY <2>1, <3>3 DEF LimiterInv, TypeOK, NeverReplaced
      <4>2. Resource(v) # r
        BY <3>1, <4>1
      <4>3. Resource(v) \in Resources
        BY ClientsAssumption DEF Resource
      <4> QED BY <1>1, <2>1, <4>1, <4>2, <4>3 DEF LimiterInv, TypeOK
    <3> QED BY <3>2, <3>3
  <2> QED BY <1>2, <2>5, <2>6, <2>9, <2>10, <2>11, <2>12, <2>13 DEF LimiterInv
<1> QED BY <1>3, <1>4, <1>5

LEMMA TakeKeeps ==
  ASSUME LimiterInv, NEW w \in Workers, TakeSlot(w)
  PROVE  LimiterInv'
<1> DEFINE e == entry[w]
<1>1. e \in Entries /\ e # None /\ pc[w] = "wait"
  BY DEF LimiterInv, TypeOK, EntryKept, TakeSlot
<1>2. /\ slots' = [slots EXCEPT ![e] = slots[e] + 1]
      /\ slots[e] < limit[e]
      /\ pc' = [pc EXCEPT ![w] = "call"]
      /\ UNCHANGED <<configured, snapshot, current, limit, entry>>
  BY DEF TakeSlot
<1>3. TypeOK'
  BY <1>1, <1>2 DEF LimiterInv, TypeOK
<1>4. EntryKept'
  BY <1>1, <1>2 DEF LimiterInv, TypeOK, EntryKept, Limited, Calling
<1>5. ASSUME NEW f \in Entries PROVE slots'[f] = Cardinality(Holders(f)')
  <2>1. CASE f = e
    <3>1. w \notin Holders(f) /\ Holders(f)' = Holders(f) \cup {w}
      BY <1>1, <1>2, <2>1 DEF LimiterInv, TypeOK, Holders, Calling
    <3>2. slots'[f] = slots[f] + 1
      BY <1>2, <2>1 DEF LimiterInv, TypeOK
    <3> QED BY <3>1, <3>2, OneMore DEF LimiterInv, SlotsAreHolders
  <2>2. CASE f # e
    <3>1. Holders(f)' = Holders(f)
      BY <1>1, <1>2, <2>2 DEF LimiterInv, TypeOK, Holders, Calling
    <3>2. slots'[f] = slots[f]
      BY <1>2, <2>2 DEF LimiterInv, TypeOK
    <3> QED BY <3>1, <3>2 DEF LimiterInv, SlotsAreHolders
  <2> QED BY <2>1, <2>2
<1>6. EntryBound'
  BY <1>1, <1>2 DEF LimiterInv, TypeOK, EntryBound
<1> QED BY <1>2, <1>3, <1>4, <1>5, <1>6 DEF LimiterInv, LimitsAccepted, SlotsAreHolders,
           WaitsForOwnLimit, CurrentHasLimit, NeverReplaced

LEMMA GiveUpKeeps ==
  ASSUME LimiterInv, NEW w \in Workers, GiveUp(w)
  PROVE  LimiterInv'
<1>1. /\ pc[w] = "wait"
      /\ pc' = [pc EXCEPT ![w] = "idle"]
      /\ entry' = [entry EXCEPT ![w] = None]
      /\ UNCHANGED <<configured, snapshot, current, limit, slots>>
  BY DEF GiveUp
<1>2. TypeOK'
  BY <1>1 DEF LimiterInv, TypeOK
<1>3. EntryKept'
  BY <1>1 DEF LimiterInv, TypeOK, EntryKept, Limited, Calling
<1>4. \A e \in Entries : Holders(e)' = Holders(e)
  BY <1>1, LimitsAssumption DEF LimiterInv, TypeOK, Holders, Calling
<1>5. WaitsForOwnLimit' /\ NeverReplaced'
  BY <1>1 DEF LimiterInv, TypeOK, WaitsForOwnLimit, NeverReplaced, Resource, OneLimit
<1> QED BY <1>1, <1>2, <1>3, <1>4, <1>5 DEF LimiterInv, LimitsAccepted, SlotsAreHolders,
           EntryBound, CurrentHasLimit

LEMMA ReleaseKeeps ==
  ASSUME LimiterInv, NEW w \in Workers, Release(w)
  PROVE  LimiterInv'
<1> DEFINE e == entry[w]
<1>1. /\ pc[w] = "call"
      /\ pc' = [pc EXCEPT ![w] = "idle"]
      /\ entry' = [entry EXCEPT ![w] = None]
      /\ UNCHANGED <<configured, snapshot, current, limit>>
      /\ slots' = IF e = None THEN slots ELSE [slots EXCEPT ![e] = slots[e] - 1]
  BY DEF Release, ReleasedEntry
<1>2. e # None => e \in Entries /\ slots[e] > 0
  BY DEF LimiterInv, TypeOK, Release, ReleasedEntry
<1>3. TypeOK'
  BY <1>1, <1>2 DEF LimiterInv, TypeOK
<1>4. EntryKept'
  BY <1>1 DEF LimiterInv, TypeOK, EntryKept, Limited, Calling
<1>5. ASSUME NEW f \in Entries PROVE slots'[f] = Cardinality(Holders(f)')
  <2>1. CASE f = e
    <3>1. w \in Holders(f) /\ Holders(f)' = Holders(f) \ {w}
      BY <1>1, <2>1, LimitsAssumption DEF LimiterInv, TypeOK, Holders, Calling
    <3>2. slots'[f] = slots[f] - 1
      BY <1>1, <2>1, LimitsAssumption DEF LimiterInv, TypeOK
    <3> QED BY <3>1, <3>2, OneLess DEF LimiterInv, SlotsAreHolders
  <2>2. CASE f # e
    <3>1. Holders(f)' = Holders(f)
      BY <1>1, <2>2, LimitsAssumption DEF LimiterInv, TypeOK, Holders, Calling
    <3>2. slots'[f] = slots[f]
      BY <1>1, <2>2 DEF LimiterInv, TypeOK
    <3> QED BY <3>1, <3>2 DEF LimiterInv, SlotsAreHolders
  <2> QED BY <2>1, <2>2
<1>6. EntryBound'
  BY <1>1, <1>2 DEF LimiterInv, TypeOK, EntryBound
<1>7. WaitsForOwnLimit' /\ NeverReplaced'
  BY <1>1 DEF LimiterInv, TypeOK, WaitsForOwnLimit, NeverReplaced, Resource, OneLimit
<1> QED BY <1>1, <1>3, <1>4, <1>5, <1>6, <1>7 DEF LimiterInv, LimitsAccepted,
           SlotsAreHolders, CurrentHasLimit

LEMMA StepLimiter == LimiterInv /\ [Next]_vars => LimiterInv'
<1> SUFFICES ASSUME LimiterInv, [Next]_vars PROVE LimiterInv'
  OBVIOUS
<1>1. CASE UNCHANGED vars
  <2>1. \A e \in Entries : Holders(e)' = Holders(e)
    BY <1>1 DEF vars, Holders, Calling
  <2> QED BY <1>1, <2>1 DEF vars, LimiterInv, TypeOK, LimitsAccepted, EntryKept,
             SlotsAreHolders, EntryBound, WaitsForOwnLimit, CurrentHasLimit, NeverReplaced, Limited, Calling
<1>2. CASE Next
  BY <1>2, SaveKeeps, NewClientKeeps, GetOrCreateKeeps, TakeKeeps, GiveUpKeeps,
     ReleaseKeeps DEF Next
<1> QED BY <1>1, <1>2

\* The inductive invariant of the limiter holds in every reachable state.
THEOREM LimiterInvariance == Spec => []LimiterInv
<1> QED BY InitLimiter, StepLimiter, PTL DEF Spec

\* No slot of the limiter leaks or is given back twice, whatever entries are
\* replaced while calls are under way and whichever calls time out.
THEOREM SlotsAreHoldersHolds == Spec => []SlotsAreHolders
<1>1. LimiterInv => SlotsAreHolders
  BY DEF LimiterInv
<1> QED BY <1>1, LimiterInvariance, PTL

\* Every call waits for an entry with the limit of its own job's client.
THEOREM WaitsForOwnLimitHolds == Spec => []WaitsForOwnLimit
<1>1. LimiterInv => WaitsForOwnLimit
  BY DEF LimiterInv
<1> QED BY <1>1, LimiterInvariance, PTL

LEMMA CallsBounded == LimiterInv => ResourceBound
<1> SUFFICES ASSUME LimiterInv, OneLimit, NEW r \in Resources, NEW l \in Limits
             PROVE  Cardinality(CallsOn(r)) <= l
  BY DEF ResourceBound
<1> USE DEF LimiterInv
<1>1. CASE CallsOn(r) = {}
  BY <1>1, FS_EmptySet, LimitsArePositive
<1>2. CASE CallsOn(r) # {}
  <2> DEFINE e == current[r]
  <2>1. \A w \in CallsOn(r) : entry[w] = e /\ e # None
    BY DEF CallsOn, Limited, EntryKept, NeverReplaced
  <2>2. e \in Entries /\ CallsOn(r) \subseteq Holders(e)
    BY <1>2, <2>1 DEF CallsOn, Limited, Holders, TypeOK
  <2>3. limit[e] = l
    BY <1>2, <2>1 DEF CurrentHasLimit, OneLimit
  <2>4. Cardinality(CallsOn(r)) <= Cardinality(Holders(e))
    BY <2>2, HoldersFinite, FS_Subset
  <2>5. Cardinality(Holders(e)) <= l
    BY <2>2, <2>3 DEF SlotsAreHolders, EntryBound
  <2>6. Cardinality(CallsOn(r)) \in Nat /\ Cardinality(Holders(e)) \in Nat /\ l \in Nat
    BY <2>2, HoldersFinite, FS_Subset, FS_CardinalityType, LimitsArePositive
  <2> QED BY <2>4, <2>5, <2>6
<1> QED BY <1>1, <1>2

\* With a limit that never changes, the calls on a resource stay within it,
\* over any number of jobs and workers.
THEOREM ResourceBoundHolds == Spec => []ResourceBound
<1> QED BY CallsBounded, LimiterInvariance, PTL

\* Whoever finds an entry full waits for one of the calls that hold its tokens.
LEMMA FullEntryHasCalls == LimiterInv => WaitsForACall
<1> SUFFICES ASSUME LimiterInv, NEW w \in Workers
             PROVE  /\ Calling(w) /\ entry[w] # None => slots[entry[w]] > 0
                    /\ pc[w] = "wait" =>
                         \/ slots[entry[w]] < limit[entry[w]]
                         \/ \E v \in Workers : Calling(v) /\ entry[v] = entry[w]
  BY DEF WaitsForACall
<1>1. \A e \in Entries : slots[e] \in Nat /\ limit[e] \in Nat /\ slots[e] = Cardinality(Holders(e))
  BY DEF LimiterInv, TypeOK, SlotsAreHolders
<1>2. entry[w] # None => entry[w] \in Entries
  BY DEF LimiterInv, TypeOK
<1>3. ASSUME Calling(w), entry[w] # None PROVE slots[entry[w]] > 0
  <2>1. Holders(entry[w]) # {} /\ IsFiniteSet(Holders(entry[w]))
    BY <1>2, <1>3, HoldersFinite DEF Holders
  <2>2. Cardinality(Holders(entry[w])) # 0
    BY <2>1, FS_EmptySet
  <2> QED BY <1>1, <1>2, <1>3, <2>2
<1>4. ASSUME pc[w] = "wait", ~(slots[entry[w]] < limit[entry[w]])
      PROVE  \E v \in Workers : Calling(v) /\ entry[v] = entry[w]
  <2>1. entry[w] # None /\ entry[w] \in Entries
    BY <1>2, <1>4 DEF LimiterInv, EntryKept
  <2>2. limit[entry[w]] > 0
    <3>1. limit[entry[w]] = snapshot[ClientOf[w]]
      BY <2>1 DEF LimiterInv, WaitsForOwnLimit
    <3>2. snapshot[ClientOf[w]] \in Limits \cup {Unlimited}
      BY ClientsAssumption DEF LimiterInv, LimitsAccepted
    <3>3. limit[entry[w]] \in Limits
      BY <1>1, <2>1, <3>1, <3>2, LimitsAssumption
    <3>4. limit[entry[w]] \in Nat \ {0}
      BY <3>3, LimitsArePositive
    <3> QED BY <3>4
  <2>3. Holders(entry[w]) # {}
    BY <1>1, <1>4, <2>1, <2>2, FS_EmptySet
  <2> QED BY <2>3 DEF Holders
<1> QED BY <1>3, <1>4

\* Nobody waits for a slot that nobody would give back.
THEOREM WaitsForACallHolds == Spec => []WaitsForACall
BY FullEntryHasCalls, LimiterInvariance, PTL
=============================================================================
