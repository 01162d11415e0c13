----------------------- MODULE EntityAlignmentProofs ------------------------
(***************************************************************************)
(* Proofs about EntityAlignment, for any number of jobs, rows, fields and  *)
(* labels, any page and batch sizes, failing stores and crashes.           *)
(***************************************************************************)
EXTENDS EntityAlignment, FiniteSetTheorems, TLAPS

\* What no step of the system undoes.
Grows ==
  /\ \A x \in Values : /\ candidate[x] # "none" => candidate'[x] # "none"
                       /\ mapping[x] # NoMapping => mapping'[x] # NoMapping
                       /\ mapping[x] \in Decided => mapping'[x] \in Decided
  /\ \A k \in Keys : /\ out[k] # Absent => out'[k] # Absent
                     /\ rec[k] # "none" => rec'[k] # "none"

SameJob(i) ==
  /\ pc'[i] = pc[i] /\ field'[i] = field[i] /\ missing'[i] = missing[i]
  /\ recalled'[i] = recalled[i] /\ pending'[i] = pending[i]
  /\ pages'[i] = pages[i] /\ records'[i] = records[i]

\* The parts of TypeOK, the bound of the batches aside.
Types ==
  /\ status \in [Jobs -> {"none", "pending", "running", "succeeded", "failed"}]
  /\ targets \in [Sets -> SUBSET Labels]
  /\ candidate \in [Values -> {"none", "pending", "resolved"}]
  /\ mapping \in [Values -> Labels \cup {Unknown, Needs, NoMapping}]
  /\ out \in [Keys -> OutputRows \cup {Absent}]
  /\ rec \in [Keys -> {"none", "succeeded", "waiting"}]
  /\ up \in BOOLEAN /\ crashes \in 0..MaxCrashes /\ lapsed \subseteq Values \X Labels
  /\ pc \in [Jobs -> Stages]
  /\ field \in [Jobs -> Fields]
  /\ missing \in [Jobs -> SUBSET Raws]
  /\ recalled \in [Jobs -> [raw : Raws \cup {Blank}, labels : SUBSET Labels]]
  /\ pending \in [Jobs -> SUBSET Generated]
  /\ pages \in [Jobs -> [first : Int, last : Int]]
  /\ records \in [Jobs -> Records]

LEMMA OwnTypes ==
  ASSUME Types, NEW j \in Jobs
  PROVE  /\ pending[j] \subseteq Generated /\ missing[j] \subseteq Raws
         /\ recalled[j].raw \in Raws \cup {Blank} /\ recalled[j].labels \subseteq Labels
         /\ pages[j].first \in Int /\ pages[j].last \in Int
         /\ DOMAIN records[j] \subseteq Keys
         /\ \A k \in DOMAIN records[j] : records[j][k] \in {"succeeded", "waiting"}
BY DEF Types, Records

LEMMA FieldInRange == SetOf \in [Fields -> Sets] /\ 1 \in Fields /\ NumFields \in Nat
BY SourceAssumption DEF Fields

LEMMA NextFieldTypes ==
  ASSUME Types, NEW j \in Jobs, NextField(j)
  PROVE  pc' \in [Jobs -> Stages] /\ field' \in [Jobs -> Fields]
<1>1. CASE field[j] < NumFields
  <2>1. field[j] + 1 \in Fields
    BY <1>1, FieldInRange DEF Types, Fields
  <2> QED BY <1>1, <2>1 DEF Types, NextField, Stages
<1>2. CASE ~(field[j] < NumFields)
  BY <1>2 DEF Types, NextField, Stages
<1> QED BY <1>1, <1>2

LEMMA AddPendingTypes ==
  ASSUME Types, NEW j \in Jobs, NEW v \in Raws, NEW r \in Labels \cup {Unknown, Needs},
         AddPending(j, v, r)
  PROVE  /\ pc' \in [Jobs -> Stages] /\ missing' \in [Jobs -> SUBSET Raws]
         /\ pending' \in [Jobs -> SUBSET Generated]
<1>1. [raw |-> v, result |-> r] \in Generated
  BY DEF Generated
<1> QED BY <1>1 DEF Types, AddPending, Goto, Stages

LEMMA AfterFlushTypes ==
  ASSUME Types, NEW j \in Jobs, AfterFlush(j)
  PROVE  /\ pc' \in [Jobs -> Stages] /\ field' \in [Jobs -> Fields]
         /\ pending' \in [Jobs -> SUBSET Generated]
<1>1. CASE pc[j] = "flush1"
  BY <1>1 DEF Types, AfterFlush, Goto, Stages
<1>2. CASE pc[j] # "flush1"
  BY <1>2, NextFieldTypes DEF Types, AfterFlush, NextRaw, Stages
<1> QED BY <1>1, <1>2

\* A batch maps the values without mapping that it holds, and no other.
LEMMA NewMappings ==
  ASSUME Types, NEW j \in Jobs, UpsertMappings(j), NEW x \in Values
  PROVE  /\ \/ mapping'[x] = mapping[x]
            \/ /\ mapping[x] = NoMapping /\ x[1] = TargetSet(j)
               /\ \E g \in pending[j] : g.raw = x[2] /\ mapping'[x] = g.result
         /\ (x[1] = TargetSet(j) /\ \E g \in pending[j] : g.raw = x[2]) =>
              mapping'[x] # NoMapping
<1>1. \A g \in pending[j] : g.result \in Labels \cup {Unknown, Needs}
  BY OwnTypes DEF Generated
<1>2. CASE x[1] = TargetSet(j) /\ \E g \in pending[j] : g.raw = x[2]
  <2> DEFINE h == CHOOSE g \in pending[j] : g.raw = x[2]
  <2>1. h \in pending[j] /\ h.raw = x[2]
    BY <1>2
  <2>2. mapping'[x] = MergedMapping(mapping[x], h.result)
    BY <1>2 DEF UpsertMappings
  <2>3. h.result # NoMapping
    BY <1>1, <2>1, MappingAssumption
  <2> HIDE DEF h
  <2> QED BY <1>2, <2>1, <2>2, <2>3 DEF MergedMapping
<1>3. CASE ~(x[1] = TargetSet(j) /\ \E g \in pending[j] : g.raw = x[2])
  BY <1>3 DEF UpsertMappings
<1> QED BY <1>2, <1>3

\* A review decides candidates and leaves the other values as they are.
LEMMA ReviewEffect ==
  ASSUME Types, NEW s \in Sets, ReviewTargetCandidates(s), NEW x \in Values
  PROVE  \/ mapping'[x] = mapping[x] /\ candidate'[x] = candidate[x]
         \/ mapping'[x] \in Decided /\ candidate'[x] = "resolved"
<1>1. PICK C \in (SUBSET Candidates(s)) \ {{}} :
        \E D \in [C -> Resolutions] :
          /\ mapping' = [y \in Values |-> IF y \in C THEN D[y][2] ELSE mapping[y]]
          /\ candidate' = [y \in Values |-> IF y \in C THEN "resolved" ELSE candidate[y]]
  BY Zenon DEF ReviewTargetCandidates
<1>2. PICK D \in [C -> Resolutions] :
        mapping' = [y \in Values |-> IF y \in C THEN D[y][2] ELSE mapping[y]]
  BY <1>1
<1>3. \A r \in Resolutions : r[2] \in Decided
  BY DEF Resolutions, Decided
<1> QED BY <1>1, <1>2, <1>3

LEMMA RowIsNotAbsent ==
  ASSUME Types, NEW k \in Keys
  PROVE  /\ [f \in Fields |-> Aligned(f, k)] \in OutputRows
         /\ [f \in Fields |-> Aligned(f, k)] # Absent
<1>1. \A f \in Fields : RawOf[f][k] # Blank => <<SetOf[f], RawOf[f][k]>> \in Values
  BY SourceAssumption DEF Values
<1>2. \A f \in Fields : Aligned(f, k) \in Labels \cup {Unknown, Needs, NoMapping, Blank}
  BY <1>1 DEF Aligned, MappingOf, Types
<1> QED BY <1>2, MappingAssumption DEF OutputRows

LEMMA TypesStep ==
  ASSUME Types, Next,
         \A j \in Jobs : pc[j] = "generate" => recalled[j].raw \in Raws
  PROVE  Types'
<1> USE FieldInRange
<1>1. ASSUME NEW j \in Jobs, Start(j) PROVE Types'
  BY <1>1 DEF Types, Start, Goto, Stages, postgres, server, locals
<1>2. ASSUME NEW j \in Jobs, MarkRunning(j) PROVE Types'
  BY <1>2 DEF Types, MarkRunning, Goto, Stages, postgres, server, locals
<1>3. ASSUME NEW j \in Jobs, LoadJob(j) PROVE Types'
  BY <1>3 DEF Types, LoadJob, Goto, Stages, sqlite, postgres, server, locals
<1>4. ASSUME NEW j \in Jobs, PrepareField(j) PROVE Types'
  <2>1. field' \in [Jobs -> Fields]
    BY <1>4 DEF Types, PrepareField, Fields
  <2>2. pc' \in [Jobs -> Stages]
    BY <1>4 DEF Types, PrepareField, Goto, Stages, AfterError
  <2> QED BY <1>4, <2>1, <2>2 DEF Types, PrepareField, sqlite, postgres, server
<1>5. ASSUME NEW j \in Jobs, SelectRawValues(j) PROVE Types'
  <2>1. \A k \in Wanted(j) : RawOf[field[j]][k] \in Raws \cup {Blank}
    BY SourceAssumption DEF Types, Wanted, InRange
  <2>2. missing' \in [Jobs -> SUBSET Raws]
    BY <1>5, <2>1 DEF Types, SelectRawValues
  <2>3. pc' \in [Jobs -> Stages] /\ field' \in [Jobs -> Fields]
    BY <1>5, NextFieldTypes DEF Types, SelectRawValues, Goto, Stages
  <2> QED BY <1>5, <2>2, <2>3 DEF Types, SelectRawValues, sqlite, postgres, server
<1>6. ASSUME NEW j \in Jobs, LoadExistingMappings(j) PROVE Types'
  <2>1. missing' \in [Jobs -> SUBSET Raws]
    BY <1>6 DEF Types, LoadExistingMappings
  <2>2. pc' \in [Jobs -> Stages] /\ field' \in [Jobs -> Fields]
    BY <1>6, NextFieldTypes DEF Types, LoadExistingMappings, NextRaw, Stages
  <2> QED BY <1>6, <2>1, <2>2 DEF Types, LoadExistingMappings, sqlite, postgres, server
<1>7. ASSUME NEW j \in Jobs, Recall(j) PROVE Types'
  <2>1. PICK v \in missing[j] :
          \/ AddPending(j, v, Needs) /\ UNCHANGED recalled
          \/ /\ \E L \in SUBSET targets[TargetSet(j)] :
                  recalled' = [recalled EXCEPT ![j] = [raw |-> v, labels |-> L]]
             /\ Goto(j, "generate") /\ UNCHANGED <<missing, pending>>
    BY <1>7 DEF Recall
  <2>2. v \in Raws /\ targets[TargetSet(j)] \subseteq Labels
    BY DEF Types, TargetSet
  <2>3. CASE AddPending(j, v, Needs) /\ UNCHANGED recalled
    BY <1>7, <2>2, <2>3, AddPendingTypes DEF Types, Recall, sqlite, postgres, server
  <2>4. CASE /\ \E L \in SUBSET targets[TargetSet(j)] :
                  recalled' = [recalled EXCEPT ![j] = [raw |-> v, labels |-> L]]
             /\ Goto(j, "generate") /\ UNCHANGED <<missing, pending>>
    BY <1>7, <2>2, <2>4 DEF Types, Recall, Goto, Stages, sqlite, postgres, server
  <2> QED BY <2>1, <2>3, <2>4
<1>8. ASSUME NEW j \in Jobs, Generate(j) PROVE Types'
  <2>0. recalled[j].raw \in Raws
    BY <1>8 DEF Generate, At
  <2>1. /\ pc' \in [Jobs -> Stages] /\ missing' \in [Jobs -> SUBSET Raws]
        /\ pending' \in [Jobs -> SUBSET Generated]
    BY <1>8, <2>0, OwnTypes, AddPendingTypes DEF Types, Generate, Goto, Stages, AfterError
  <2>2. Nothing \in [raw : Raws \cup {Blank}, labels : SUBSET Labels]
    BY DEF Nothing
  <2> QED BY <1>8, <2>1, <2>2 DEF Types, Generate, sqlite, postgres, server
<1>9. ASSUME NEW j \in Jobs, UpsertTargetCandidates(j) PROVE Types'
  <2>1. candidate' \in [Values -> {"none", "pending", "resolved"}]
    BY <1>9 DEF Types, UpsertTargetCandidates, MergedCandidate
  <2> QED BY <1>9, <2>1, AfterFlushTypes DEF Types, UpsertTargetCandidates, sqlite, server
<1>10. ASSUME NEW j \in Jobs, UpsertMappings(j) PROVE Types'
  <2>1. \A g \in pending[j] : g.result \in Labels \cup {Unknown, Needs, NoMapping}
    BY OwnTypes DEF Generated
  <2>2. \A x \in Values : mapping'[x] \in Labels \cup {Unknown, Needs, NoMapping}
    <3> TAKE x \in Values
    <3> QED BY <1>10, <2>1, NewMappings DEF Types
  <2>3. mapping' \in [Values -> Labels \cup {Unknown, Needs, NoMapping}]
    BY <1>10, <2>2 DEF UpsertMappings
  <2> QED BY <1>10, <2>3, AfterFlushTypes DEF Types, UpsertMappings, sqlite, server
<1>11. ASSUME NEW j \in Jobs, SelectKeyRange(j) PROVE Types'
  <2>1. Wanted(j) \subseteq Int
    BY SourceAssumption DEF Wanted, InRange
  <2>2. pages' = pages \/ \E p \in [first : Int, last : Int] :
                            pages' = [pages EXCEPT ![j] = p]
    BY <1>11, <2>1 DEF SelectKeyRange
  <2>3. pages' \in [Jobs -> [first : Int, last : Int]]
    BY <2>2 DEF Types
  <2>4. pc' \in [Jobs -> Stages]
    BY <1>11 DEF Types, SelectKeyRange, Goto, Stages
  <2> QED BY <1>11, <2>3, <2>4 DEF Types, SelectKeyRange, sqlite, postgres, server
<1>12. ASSUME NEW j \in Jobs, WriteOutputPage(j) PROVE Types'
  <2>1. \A k \in Keys : [f \in Fields |-> Aligned(f, k)] \in OutputRows
    BY RowIsNotAbsent
  <2>2. out' \in [Keys -> OutputRows \cup {Absent}]
    BY <1>12, <2>1 DEF Types, WriteOutputPage
  <2>3. pages' \in [Jobs -> [first : Int, last : Int]]
    <3>1. NextPage(PageEnd(pages[j].first, pages[j].last)) \in Int
      BY OwnTypes, JobsAssumption DEF PageEnd, NextPage
    <3>2. pages' = pages \/
            pages' = [pages EXCEPT ![j].first = NextPage(PageEnd(pages[j].first, pages[j].last))]
      BY <1>12 DEF WriteOutputPage
    <3> DEFINE n == NextPage(PageEnd(pages[j].first, pages[j].last))
    <3>3. [pages[j] EXCEPT !.first = n] \in [first : Int, last : Int]
      BY <3>1 DEF Types
    <3> HIDE DEF n
    <3> QED BY <3>2, <3>3 DEF Types, n
  <2> QED BY <1>12, <2>2, <2>3 DEF Types, WriteOutputPage, Goto, Stages, sqlite, server
<1>13. ASSUME NEW j \in Jobs, BuildRecords(j) PROVE Types'
  <2>1. [k \in Wanted(j) |-> RecordStatus(k)] \in Records
    <3>1. Wanted(j) \in SUBSET Keys
      BY DEF Wanted, InRange
    <3>2. [k \in Wanted(j) |-> RecordStatus(k)] \in [Wanted(j) -> {"succeeded", "waiting"}]
      BY DEF RecordStatus
    <3> QED BY <3>1, <3>2 DEF Records
  <2> QED BY <1>13, <2>1 DEF Types, BuildRecords, Goto, Stages, sqlite, postgres, server
<1>14. ASSUME NEW j \in Jobs, UpsertRecords(j) PROVE Types'
  <2>1. PICK batch \in SUBSET DOMAIN records[j] :
          /\ rec' = [k \in Keys |-> IF k \in batch THEN records[j][k] ELSE rec[k]]
          /\ records' = [records EXCEPT ![j] = [k \in DOMAIN records[j] \ batch |-> @[k]]]
          /\ Goto(j, IF batch = DOMAIN records[j] THEN "finish" ELSE "record")
    BY <1>14 DEF UpsertRecords
  <2>2. [k \in DOMAIN records[j] \ batch |-> records[j][k]] \in Records
    <3> DEFINE K == DOMAIN records[j] \ batch
    <3>1. K \in SUBSET Keys
      BY OwnTypes
    <3>2. [k \in K |-> records[j][k]] \in [K -> {"succeeded", "waiting"}]
      BY OwnTypes
    <3> QED BY <3>1, <3>2 DEF Records
  <2>3. records' \in [Jobs -> Records]
    BY <2>1, <2>2 DEF Types
  <2>4. rec' \in [Keys -> {"none", "succeeded", "waiting"}]
    BY <2>1, OwnTypes DEF Types
  <2> QED BY <1>14, <2>1, <2>3, <2>4 DEF Types, UpsertRecords, Goto, Stages, sqlite, server
<1>x. Nothing \in [raw : Raws \cup {Blank}, labels : SUBSET Labels] /\ {} \in SUBSET Raws
      /\ NoPages \in [first : Int, last : Int] /\ NoRecords \in Records
  <2>1. {} \in SUBSET Keys /\ NoRecords \in [{} -> {"succeeded", "waiting"}]
    BY DEF NoRecords
  <2>2. NoRecords \in Records
    BY <2>1 DEF Records
  <2> QED BY <2>2 DEF Nothing, NoPages
<1>15. ASSUME NEW j \in Jobs, MarkSucceeded(j) PROVE Types'
  BY <1>15, <1>x DEF Types, MarkSucceeded, Exit, Stages, postgres, server
<1>16. ASSUME NEW j \in Jobs, Fail(j) PROVE Types'
  BY <1>16 DEF Types, Fail, Goto, Stages, AfterError, sqlite, postgres, server, locals
<1>17. ASSUME NEW j \in Jobs, MarkFailed(j) PROVE Types'
  BY <1>17, <1>x DEF Types, MarkFailed, Exit, Stages, postgres, server
<1>18. ASSUME NEW s \in Sets, NEW L \in SUBSET Labels, UpsertTargets(s, L) PROVE Types'
  BY <1>18 DEF Types, UpsertTargets, StillLapsed, sqlite, locals
<1>19. ASSUME NEW s \in Sets, NEW l \in Labels, DeleteTarget(s, l) PROVE Types'
  <2>1. lapsed' \subseteq Values \X Labels
    BY <1>19 DEF Types, DeleteTarget, Candidates
  <2> QED BY <1>19, <2>1 DEF Types, DeleteTarget, sqlite, locals
<1>20. ASSUME NEW s \in Sets, ReviewTargetCandidates(s) PROVE Types'
  <2>1. /\ DOMAIN mapping' = Values /\ mapping' = [x \in Values |-> mapping'[x]]
        /\ candidate' = [x \in Values |-> candidate'[x]]
    BY <1>20 DEF ReviewTargetCandidates
  <2>2. \A x \in Values : /\ mapping'[x] \in Labels \cup {Unknown, Needs, NoMapping}
                          /\ candidate'[x] \in {"none", "pending", "resolved"}
    BY <1>20, ReviewEffect DEF Types, Decided
  <2>3. targets' \in [Sets -> SUBSET Labels]
    BY <1>20 DEF Types, ReviewTargetCandidates
  <2>4. /\ mapping' \in [Values -> Labels \cup {Unknown, Needs, NoMapping}]
        /\ candidate' \in [Values -> {"none", "pending", "resolved"}]
    BY <2>1, <2>2
  <2>5. lapsed' \subseteq Values \X Labels
    BY <1>20 DEF Types, ReviewTargetCandidates, StillLapsed
  <2> QED BY <1>20, <2>3, <2>4, <2>5 DEF Types, ReviewTargetCandidates, sqlite, locals
<1>21. ASSUME Crash PROVE Types'
  <2>1. crashes' \in 0..MaxCrashes /\ up' \in BOOLEAN
    <3>1. crashes \in 0..MaxCrashes /\ crashes < MaxCrashes /\ crashes' = crashes + 1
          /\ up' = FALSE
      BY <1>21 DEF Types, Crash
    <3>2. MaxCrashes \in Nat
      BY JobsAssumption
    <3>3. crashes' \in 0..MaxCrashes
      BY <3>1, <3>2
    <3>4. up' \in BOOLEAN
      BY <3>1
    <3> QED BY <3>3, <3>4
  <2>2. pc' \in [Jobs -> Stages]
    BY <1>21 DEF Types, Crash, Stages
  <2> QED BY <1>21, <1>x, <2>1, <2>2 DEF Types, Crash, sqlite, postgres
<1>22. ASSUME Restart PROVE Types'
  BY <1>22 DEF Types, Restart, sqlite, postgres, locals
<1> QED BY <1>1, <1>2, <1>3, <1>4, <1>5, <1>6, <1>7, <1>8, <1>9, <1>10, <1>11, <1>12,
           <1>13, <1>14, <1>15, <1>16, <1>17, <1>18, <1>19, <1>20, <1>21, <1>22
           DEF Next, Execute, Operate

---------------------------------------------------------------------------
(***************************************************************************)
(* What every step leaves alone.                                           *)
(***************************************************************************)

LEMMA TablesSame ==
  ASSUME UNCHANGED <<candidate, mapping, out, rec>>
  PROVE  Grows
BY DEF Grows

LEMMA GrowsStep ==
  ASSUME Types, Next
  PROVE  Grows
<1> USE TablesSame DEF postgres
<1>1. ASSUME NEW j \in Jobs, Start(j) PROVE Grows
  BY <1>1 DEF Start
<1>2. ASSUME NEW j \in Jobs, MarkRunning(j) \/ LoadJob(j) \/ PrepareField(j) PROVE Grows
  BY <1>2 DEF MarkRunning, LoadJob, PrepareField
<1>3. ASSUME NEW j \in Jobs, SelectRawValues(j) \/ LoadExistingMappings(j) PROVE Grows
  BY <1>3 DEF SelectRawValues, LoadExistingMappings
<1>4. ASSUME NEW j \in Jobs, Recall(j) \/ Generate(j) PROVE Grows
  BY <1>4 DEF Recall, Generate
<1>5. ASSUME NEW j \in Jobs, UpsertTargetCandidates(j) PROVE Grows
  BY <1>5 DEF Grows, UpsertTargetCandidates, MergedCandidate
<1>6. ASSUME NEW j \in Jobs, UpsertMappings(j) PROVE Grows
  <2>1. \A x \in Values : /\ mapping[x] # NoMapping => mapping'[x] # NoMapping
                          /\ mapping[x] \in Decided => mapping'[x] \in Decided
    <3> TAKE x \in Values
    <3>1. NoMapping \notin Decided
      BY MappingAssumption DEF Decided
    <3> QED BY <1>6, <3>1, NewMappings
  <2>2. UNCHANGED <<candidate, out, rec>>
    BY <1>6 DEF UpsertMappings
  <2> QED BY <2>1, <2>2 DEF Grows
<1>7. ASSUME NEW j \in Jobs, SelectKeyRange(j) \/ BuildRecords(j) PROVE Grows
  BY <1>7 DEF SelectKeyRange, BuildRecords
<1>8. ASSUME NEW j \in Jobs, WriteOutputPage(j) PROVE Grows
  <2>1. \A k \in Keys : out'[k] = out[k] \/ out'[k] = [f \in Fields |-> Aligned(f, k)]
    BY <1>8 DEF WriteOutputPage
  <2>2. UNCHANGED <<candidate, mapping, rec>>
    BY <1>8 DEF WriteOutputPage
  <2> QED BY <2>1, <2>2, RowIsNotAbsent DEF Grows
<1>9. ASSUME NEW j \in Jobs, UpsertRecords(j) PROVE Grows
  <2>1. \A k \in Keys : rec'[k] = rec[k] \/ (k \in DOMAIN records[j] /\ rec'[k] = records[j][k])
    BY <1>9 DEF UpsertRecords
  <2>2. UNCHANGED <<candidate, mapping, out>>
    BY <1>9 DEF UpsertRecords
  <2> QED BY <2>1, <2>2, OwnTypes DEF Grows
<1>10. ASSUME NEW j \in Jobs, MarkSucceeded(j) \/ Fail(j) \/ MarkFailed(j) PROVE Grows
  BY <1>10 DEF MarkSucceeded, Fail, MarkFailed
<1>11. ASSUME NEW s \in Sets, NEW L \in SUBSET Labels, UpsertTargets(s, L) PROVE Grows
  BY <1>11 DEF UpsertTargets
<1>12. ASSUME NEW s \in Sets, NEW l \in Labels, DeleteTarget(s, l) PROVE Grows
  BY <1>12 DEF DeleteTarget
<1>13. ASSUME NEW s \in Sets, ReviewTargetCandidates(s) PROVE Grows
  <2>1. UNCHANGED <<out, rec>>
    BY <1>13 DEF ReviewTargetCandidates
  <2>2. NoMapping \notin Decided
    BY MappingAssumption DEF Decided
  <2> QED BY <1>13, <2>1, <2>2, ReviewEffect DEF Grows
<1>14. ASSUME Crash \/ Restart PROVE Grows
  BY <1>14 DEF Crash, Restart
<1> QED BY <1>1, <1>2, <1>3, <1>4, <1>5, <1>6, <1>7, <1>8, <1>9, <1>10, <1>11, <1>12,
           <1>13, <1>14 DEF Next, Execute, Operate

\* The steps of a job leave the memory of the others alone.
LEMMA OthersSame ==
  ASSUME Types, NEW j \in Jobs, NEW i \in Jobs, i # j,
         Start(j) \/ Execute(j) \/ Generate(j)
  PROVE  SameJob(i)
<1> USE DEF Types, SameJob, locals, Goto
<1>1. CASE Start(j) \/ MarkRunning(j) \/ LoadJob(j) \/ PrepareField(j)
  BY <1>1 DEF Start, MarkRunning, LoadJob, PrepareField
<1>2. CASE SelectRawValues(j) \/ LoadExistingMappings(j)
  BY <1>2 DEF SelectRawValues, LoadExistingMappings, NextRaw, NextField
<1>3. CASE Recall(j)
  BY <1>3 DEF Recall, AddPending
<1>4. CASE Generate(j)
  BY <1>4 DEF Generate, AddPending
<1>5. CASE UpsertTargetCandidates(j)
  BY <1>5 DEF UpsertTargetCandidates, AfterFlush, NextRaw, NextField
<1>6. CASE UpsertMappings(j)
  BY <1>6 DEF UpsertMappings, AfterFlush, NextRaw, NextField
<1>7. CASE SelectKeyRange(j)
  BY <1>7 DEF SelectKeyRange
<1>8. CASE WriteOutputPage(j)
  BY <1>8 DEF WriteOutputPage
<1>9. CASE BuildRecords(j) \/ UpsertRecords(j)
  BY <1>9 DEF BuildRecords, UpsertRecords
<1>10. CASE MarkSucceeded(j) \/ Fail(j) \/ MarkFailed(j)
  BY <1>10 DEF MarkSucceeded, Fail, MarkFailed, Exit
<1> QED BY <1>1, <1>2, <1>3, <1>4, <1>5, <1>6, <1>7, <1>8, <1>9, <1>10 DEF Execute

---------------------------------------------------------------------------
(***************************************************************************)
(* The invariant of one job.                                               *)
(***************************************************************************)

Own(j) == JobInv(j) /\ Cardinality(pending[j]) <= BatchSize

LEMMA ValueOf ==
  ASSUME NEW f \in Fields, NEW k \in Keys, RawOf[f][k] # Blank
  PROVE  <<SetOf[f], RawOf[f][k]>> \in Values /\ RawOf[f][k] \in Raws
BY SourceAssumption DEF Values

LEMMA MappedStays ==
  ASSUME Grows, NEW f \in Fields, NEW k \in Keys
  PROVE  /\ Mapped(f, k) => Mapped(f, k)'
         /\ IsDecided(f, k) => IsDecided(f, k)'
BY ValueOf DEF Grows, Mapped, IsDecided, MappingOf

\* Nothing another process does disturbs a job.
LEMMA OtherJob ==
  ASSUME Types, Types', Grows, NEW i \in Jobs, SameJob(i), Own(i)
  PROVE  Own(i)'
<1>1. BatchOpen(i)' /\ Cardinality(pending'[i]) <= BatchSize
  BY DEF Own, JobInv, BatchOpen, SameJob
<1>2. BatchQueued(i)'
  <2>1. \A g \in pending[i] : <<TargetSet(i), g.raw>> \in Values
    BY OwnTypes, FieldInRange DEF Types, Generated, Values, TargetSet
  <2> QED BY <2>1 DEF Own, JobInv, BatchQueued, SameJob, Grows, TargetSet
<1>3. FieldsMapped(i)'
  <2>1. InRange(i) \subseteq Keys /\ field[i] \in Fields
    BY DEF InRange, Types
  <2> QED BY <2>1, MappedStays DEF Own, JobInv, FieldsMapped, SameJob, InRange
<1>4. RecordsHonest(i)'
  <2>1. DOMAIN records[i] \subseteq Keys
    BY OwnTypes
  <2> QED BY <2>1, MappedStays DEF Own, JobInv, RecordsHonest, SameJob
<1>5. WrittenSoFar(i)'
  BY DEF Own, JobInv, WrittenSoFar, SameJob, Grows, InRange
<1> QED BY <1>1, <1>2, <1>3, <1>4, <1>5 DEF Own, JobInv

\* A job that has not come to its fields, or has ended.
LEMMA IdleJob ==
  ASSUME Types, Grows, NEW j \in Jobs, RecordsHonest(j),
         pc'[j] \in {"none", "start", "load", "prepare", "gone"},
         pending'[j] = {}, records'[j] \in {records[j], NoRecords}
  PROVE  Own(j)'
<1>1. BatchOpen(j)' /\ Cardinality(pending'[j]) <= BatchSize
  BY FS_EmptySet, JobsAssumption DEF BatchOpen
<1>2. BatchQueued(j)' /\ FieldsMapped(j)' /\ WrittenSoFar(j)'
  BY DEF BatchQueued, FieldsMapped, WrittenSoFar, InField, InFields, InOutput
<1>3. RecordsHonest(j)'
  <2>1. DOMAIN records[j] \subseteq Keys /\ DOMAIN NoRecords = {}
    BY OwnTypes DEF NoRecords
  <2> QED BY <2>1, MappedStays DEF RecordsHonest
<1> QED BY <1>1, <1>2, <1>3 DEF Own, JobInv

\* A job that fails keeps its batch in memory until it ends.
LEMMA FailedJob ==
  ASSUME Types, Grows, NEW j \in Jobs, Own(j),
         pc'[j] = "fail", pending'[j] = pending[j], records'[j] = records[j]
  PROVE  Own(j)'
<1>1. BatchOpen(j)' /\ Cardinality(pending'[j]) <= BatchSize
  BY DEF Own, JobInv, BatchOpen
<1>2. BatchQueued(j)' /\ FieldsMapped(j)' /\ WrittenSoFar(j)'
  BY DEF BatchQueued, FieldsMapped, WrittenSoFar, InField, InFields, InOutput
<1>3. RecordsHonest(j)'
  <2>1. DOMAIN records[j] \subseteq Keys
    BY OwnTypes
  <2> QED BY <2>1, MappedStays DEF Own, JobInv, RecordsHonest
<1> QED BY <1>1, <1>2, <1>3 DEF Own, JobInv

\* The field at hand stays at hand.
LEMMA SameField ==
  ASSUME Types, Grows, NEW j \in Jobs, Own(j),
         pc[j] \in InFields, pc'[j] \in InField, field'[j] = field[j],
         records'[j] = records[j],
         BatchOpen(j)', Cardinality(pending'[j]) <= BatchSize, BatchQueued(j)',
         \A k \in InRange(j) : ~OnlyWaiting[j] =>
           \/ Mapped(field[j], k)'
           \/ RawOf[field[j]][k] \in missing'[j]
           \/ \E g \in pending'[j] : g.raw = RawOf[field[j]][k]
  PROVE  Own(j)'
<1>1. FieldsMapped(j)'
  <2>1. InRange(j) \subseteq Keys /\ field[j] \in Fields
    BY DEF InRange, Types
  <2>2. pc'[j] \notin InOutput
    BY DEF InField, InOutput
  <2>3. ASSUME ~OnlyWaiting[j], NEW k \in InRange(j), NEW f \in Fields, f < field[j]
        PROVE  Mapped(f, k)'
    BY <2>1, <2>3, MappedStays DEF Own, JobInv, FieldsMapped
  <2> QED BY <2>1, <2>2, <2>3 DEF FieldsMapped, InRange, Mapped
<1>2. RecordsHonest(j)'
  <2>1. DOMAIN records[j] \subseteq Keys
    BY OwnTypes
  <2> QED BY <2>1, MappedStays DEF Own, JobInv, RecordsHonest
<1>3. WrittenSoFar(j)'
  BY DEF WrittenSoFar, InField
<1> QED BY <1>1, <1>2, <1>3 DEF Own, JobInv

\* A job that is through with a field.
LEMMA FieldDone ==
  ASSUME Types, Types', Grows, NEW j \in Jobs, Own(j), NextField(j),
         pc[j] \in InFields, pending'[j] = {}, records'[j] = records[j],
         NEW h \in Fields, h = field[j],
         \A k \in InRange(j) : ~OnlyWaiting[j] => Mapped(h, k)'
  PROVE  Own(j)'
<1>0. InRange(j) \subseteq Keys /\ field[j] \in Fields /\ field[j] \in Int
  BY FieldInRange DEF InRange, Types, Fields
<1>1. \/ pc'[j] = "select" /\ field'[j] = field[j] + 1
      \/ pc'[j] = "range" /\ ~(field[j] < NumFields)
  BY DEF NextField, Types
<1>2. BatchOpen(j)' /\ Cardinality(pending'[j]) <= BatchSize
  BY <1>1, FS_EmptySet, JobsAssumption DEF BatchOpen
<1>3. BatchQueued(j)' /\ WrittenSoFar(j)'
  BY <1>1 DEF BatchQueued, WrittenSoFar
<1>4. RecordsHonest(j)'
  <2>1. DOMAIN records[j] \subseteq Keys
    BY OwnTypes
  <2> QED BY <2>1, MappedStays DEF Own, JobInv, RecordsHonest
<1>5. ASSUME ~OnlyWaiting[j], NEW k \in InRange(j), NEW f \in Fields, f <= field[j]
      PROVE  Mapped(f, k)'
  <2>1. CASE f = h
    BY <1>5, <2>1
  <2>2. CASE f < field[j]
    BY <1>0, <1>5, <2>2, MappedStays DEF Own, JobInv, FieldsMapped
  <2> QED BY <1>0, <1>5, <2>1, <2>2 DEF Fields
<1>6. FieldsMapped(j)'
  <2>1. CASE pc'[j] = "select" /\ field'[j] = field[j] + 1
    <3>1. \A f \in Fields : f < field'[j] => f <= field[j]
      BY <1>0, <2>1 DEF Fields
    <3> QED BY <1>5, <2>1, <3>1 DEF FieldsMapped, InField, InOutput, InRange
  <2>2. CASE pc'[j] = "range" /\ ~(field[j] < NumFields)
    <3>1. \A f \in Fields : f <= field[j]
      BY <1>0, <2>2, FieldInRange DEF Fields
    <3> QED BY <1>5, <2>2, <3>1 DEF FieldsMapped, InField, InFields, InRange
  <2> QED BY <1>1, <2>1, <2>2
<1> QED BY <1>2, <1>3, <1>4, <1>6 DEF Own, JobInv

---------------------------------------------------------------------------
(***************************************************************************)
(* Each step of a job preserves its own invariant.                         *)
(***************************************************************************)

LEMMA FrameOwn ==
  ASSUME Types, Types', Grows, NEW j \in Jobs, Own(j),
         \/ Start(j) \/ MarkRunning(j) \/ LoadJob(j) \/ PrepareField(j)
         \/ MarkSucceeded(j) \/ Fail(j) \/ MarkFailed(j)
  PROVE  Own(j)'
<1> USE DEF At, Goto, Types
<1>0. RecordsHonest(j)
  BY DEF Own, JobInv
<1>1. CASE Start(j) \/ MarkRunning(j) \/ LoadJob(j)
  <2>1. pc'[j] \in {"start", "load", "gone", "prepare"} /\ pending'[j] = pending[j]
        /\ records'[j] = records[j] /\ pc[j] \in {"none", "start", "load"}
    BY <1>1 DEF Start, MarkRunning, LoadJob, locals
  <2>2. pending[j] = {}
    BY <2>1 DEF Own, JobInv, BatchOpen
  <2> QED BY <1>0, <2>1, <2>2, IdleJob
<1>2. CASE PrepareField(j)
  <2>1. /\ pc[j] = "prepare" /\ pending' = pending /\ records' = records
        /\ \/ pc'[j] \in {"fail", "prepare"}
           \/ pc'[j] = "select" /\ field'[j] = 1
    BY <1>2 DEF PrepareField, AfterError
  <2>2. pending[j] = {}
    BY <2>1 DEF Own, JobInv, BatchOpen
  <2>3. CASE pc'[j] = "fail"
    BY <2>1, <2>3, FailedJob
  <2>4. CASE pc'[j] = "prepare"
    BY <1>0, <2>1, <2>2, <2>4, IdleJob
  <2>5. CASE pc'[j] = "select" /\ field'[j] = 1
    <3>1. BatchOpen(j)' /\ Cardinality(pending'[j]) <= BatchSize
      BY <2>1, <2>2, <2>5, FS_EmptySet, JobsAssumption DEF BatchOpen
    <3>2. BatchQueued(j)' /\ WrittenSoFar(j)'
      BY <2>5 DEF BatchQueued, WrittenSoFar
    <3>3. FieldsMapped(j)'
      BY <2>5 DEF FieldsMapped, InField, InOutput, Fields
    <3>4. RecordsHonest(j)'
      <4>1. DOMAIN records[j] \subseteq Keys
        BY OwnTypes
      <4> QED BY <1>0, <2>1, <4>1, MappedStays DEF RecordsHonest
    <3> QED BY <3>1, <3>2, <3>3, <3>4 DEF Own, JobInv
  <2> QED BY <2>1, <2>3, <2>4, <2>5
<1>3. CASE MarkSucceeded(j) \/ MarkFailed(j)
  BY <1>0, <1>3, IdleJob DEF MarkSucceeded, MarkFailed, Exit
<1>4. CASE Fail(j)
  BY <1>4, FailedJob DEF Fail, AfterError, locals
<1> QED BY <1>1, <1>2, <1>3, <1>4

LEMMA SelectOwn ==
  ASSUME Types, Types', Grows, NEW j \in Jobs, Own(j), SelectRawValues(j)
  PROVE  Own(j)'
<1> DEFINE h == field[j]
           raws == {RawOf[h][k] : k \in Wanted(j)} \ {Blank}
<1>1. /\ pc[j] = "select" /\ pending' = pending /\ records' = records /\ mapping' = mapping
      /\ missing'[j] = raws
      /\ IF raws = {} THEN NextField(j) ELSE pc'[j] = "existing" /\ field' = field
  BY DEF SelectRawValues, At, Goto, Types, postgres
<1>2. h \in Fields
  BY DEF Types
<1>3. pending[j] = {}
  BY <1>1 DEF Own, JobInv, BatchOpen
<1>4. \A k \in InRange(j) : ~OnlyWaiting[j] =>
        RawOf[h][k] = Blank \/ RawOf[h][k] \in missing'[j]
  BY <1>1 DEF Wanted
<1>5. CASE raws = {}
  <2>1. \A f \in Fields : f = h => \A k \in InRange(j) : ~OnlyWaiting[j] => Mapped(f, k)'
    BY <1>1, <1>4, <1>5 DEF Mapped
  <2> HIDE DEF raws
  <2> QED BY <1>1, <1>2, <1>3, <1>5, <2>1, FieldDone DEF InFields
<1>6. CASE raws # {}
  <2> HIDE DEF raws
  <2>1. BatchOpen(j)' /\ Cardinality(pending'[j]) <= BatchSize /\ BatchQueued(j)'
    BY <1>1, <1>3, <1>6, FS_EmptySet, JobsAssumption DEF BatchOpen, BatchQueued
  <2>2. \A k \in InRange(j) : ~OnlyWaiting[j] =>
           \/ Mapped(h, k)' \/ RawOf[h][k] \in missing'[j]
    BY <1>1, <1>4, <1>6 DEF Mapped
  <2> QED BY <1>1, <1>6, <2>1, <2>2, SameField DEF InField, InFields
<1> QED BY <1>5, <1>6

LEMMA ExistingOwn ==
  ASSUME Types, Types', Grows, NEW j \in Jobs, Own(j), LoadExistingMappings(j)
  PROVE  Own(j)'
<1> DEFINE h == field[j]
           left == {v \in missing[j] : mapping[<<SetOf[h], v>>] = NoMapping}
<1>1. /\ pc[j] = "existing" /\ pending' = pending /\ records' = records /\ mapping' = mapping
      /\ missing'[j] = left /\ NextRaw(j, left)
  BY DEF LoadExistingMappings, At, Types, postgres, TargetSet
<1>2. h \in Fields
  BY DEF Types
<1>3. pending[j] = {}
  BY <1>1 DEF Own, JobInv, BatchOpen
<1>4. \A k \in InRange(j) : ~OnlyWaiting[j] => Mapped(h, k) \/ RawOf[h][k] \in missing'[j]
  BY <1>1, <1>3 DEF Own, JobInv, FieldsMapped, InField, Mapped, MappingOf
<1>5. CASE left = {}
  <2>1. NextField(j)
    BY <1>1, <1>5 DEF NextRaw
  <2>2. \A f \in Fields : f = h => \A k \in InRange(j) : ~OnlyWaiting[j] => Mapped(f, k)'
    BY <1>1, <1>4, <1>5 DEF Mapped, MappingOf
  <2> QED BY <1>1, <1>2, <1>3, <2>1, <2>2, FieldDone DEF InField, InFields
<1>6. CASE left # {}
  <2>1. pc'[j] = "recall" /\ field' = field
    BY <1>1, <1>6 DEF NextRaw, Types
  <2> HIDE DEF left
  <2>2. BatchOpen(j)' /\ Cardinality(pending'[j]) <= BatchSize /\ BatchQueued(j)'
    BY <1>1, <1>3, <1>6, <2>1, FS_EmptySet, JobsAssumption DEF BatchOpen, BatchQueued
  <2>3. \A k \in InRange(j) : ~OnlyWaiting[j] =>
           \/ Mapped(h, k)' \/ RawOf[h][k] \in missing'[j]
    BY <1>1, <1>4, <2>1 DEF Mapped, MappingOf
  <2> QED BY <1>1, <2>1, <2>2, <2>3, SameField DEF InField, InFields
<1> QED BY <1>5, <1>6

LEMMA AddPendingOwn ==
  ASSUME Types, Types', Grows, NEW j \in Jobs, Own(j), pc[j] \in {"recall", "generate"},
         NEW v \in missing[j], NEW r, AddPending(j, v, r),
         UNCHANGED <<mapping, field, records>>
  PROVE  Own(j)'
<1> DEFINE new == pending[j] \cup {[raw |-> v, result |-> r]}
           left == missing[j] \ {v}
           h == field[j]
<1>1. /\ missing'[j] = left /\ pending'[j] = new
      /\ pc'[j] = IF BatchFull(Cardinality(new)) \/ left = {} THEN "flush1" ELSE "recall"
  BY DEF AddPending, Goto, Types
<1>2. IsFiniteSet(pending[j]) /\ Cardinality(pending[j]) < BatchSize
  BY DEF Own, JobInv, BatchOpen
<1>3. IsFiniteSet(new) /\ Cardinality(new) \in Nat /\ Cardinality(new) <= BatchSize
  <2>1. /\ IsFiniteSet(new)
        /\ Cardinality(new) \in {Cardinality(pending[j]), Cardinality(pending[j]) + 1}
    BY <1>2, FS_AddElement
  <2>2. Cardinality(pending[j]) \in Nat /\ BatchSize \in Nat
    BY <1>2, FS_CardinalityType, JobsAssumption
  <2> HIDE DEF new
  <2> QED BY <1>2, <2>1, <2>2
<1>4. BatchOpen(j)' /\ Cardinality(pending'[j]) <= BatchSize
  <2>1. pc'[j] \in {"recall", "flush1"} /\ pc'[j] = "recall" => Cardinality(new) < BatchSize
    BY <1>1, <1>3, JobsAssumption DEF BatchFull
  <2>2. pc'[j] = "recall" => missing'[j] # {}
    BY <1>1
  <2>3. pc'[j] \in {"recall", "flush1"}
    BY <1>1
  <2> HIDE DEF new, left
  <2> QED BY <1>1, <1>3, <2>1, <2>2, <2>3 DEF BatchOpen
<1>5. BatchQueued(j)'
  BY <1>1 DEF BatchQueued
<1>6. \A k \in InRange(j) : ~OnlyWaiting[j] =>
         \/ Mapped(h, k)' \/ RawOf[h][k] \in missing'[j]
         \/ \E g \in pending'[j] : g.raw = RawOf[h][k]
  <2> SUFFICES ASSUME NEW k \in InRange(j), ~OnlyWaiting[j], RawOf[h][k] = v \/ Mapped(h, k)
                        \/ RawOf[h][k] \in left \/ \E g \in pending[j] : g.raw = RawOf[h][k]
               PROVE  \/ Mapped(h, k)' \/ RawOf[h][k] \in missing'[j]
                      \/ \E g \in pending'[j] : g.raw = RawOf[h][k]
    BY DEF Own, JobInv, FieldsMapped, InField
  <2>1. [raw |-> v, result |-> r].raw = v
    OBVIOUS
  <2> QED BY <1>1, <2>1 DEF Mapped, MappingOf
<1>7. pc'[j] \in InField /\ pc[j] \in InFields
  BY <1>1 DEF InField, InFields
<1> QED BY <1>4, <1>5, <1>6, <1>7, SameField

LEMMA RecallOwn ==
  ASSUME Types, Types', Grows, NEW j \in Jobs, Own(j), Recall(j)
  PROVE  Own(j)'
<1> DEFINE h == field[j]
<1>1. /\ pc[j] = "recall" /\ field' = field /\ records' = records /\ mapping' = mapping
      /\ \E v \in missing[j] :
           \/ AddPending(j, v, Needs)
           \/ /\ recalled'[j].raw = v /\ pc'[j] = "generate"
              /\ UNCHANGED <<missing, pending>>
  <2>1. pc[j] = "recall" /\ field' = field /\ records' = records /\ mapping' = mapping
    BY DEF Recall, At, postgres
  <2>2. PICK v \in missing[j] :
          \/ AddPending(j, v, Needs)
          \/ /\ \E L : recalled' = [recalled EXCEPT ![j] = [raw |-> v, labels |-> L]]
             /\ Goto(j, "generate")
             /\ UNCHANGED <<missing, pending>>
    BY DEF Recall
  <2>3. CASE AddPending(j, v, Needs)
    BY <2>1, <2>3
  <2>4. CASE /\ \E L : recalled' = [recalled EXCEPT ![j] = [raw |-> v, labels |-> L]]
             /\ Goto(j, "generate")
             /\ UNCHANGED <<missing, pending>>
    <3>1. recalled'[j].raw = v /\ pc'[j] = "generate"
      BY <2>4 DEF Types, Goto
    <3> QED BY <2>1, <2>4, <3>1
  <2> QED BY <2>2, <2>3, <2>4
<1>2. PICK v \in missing[j] :
           \/ AddPending(j, v, Needs)
           \/ /\ recalled'[j].raw = v /\ pc'[j] = "generate"
              /\ UNCHANGED <<missing, pending>>
  BY <1>1
<1>3. CASE AddPending(j, v, Needs)
  BY <1>1, <1>3, AddPendingOwn
<1>4. CASE recalled'[j].raw = v /\ pc'[j] = "generate" /\ UNCHANGED <<missing, pending>>
  <2>1. BatchOpen(j)' /\ Cardinality(pending'[j]) <= BatchSize /\ BatchQueued(j)'
    BY <1>1, <1>4 DEF Own, JobInv, BatchOpen, BatchQueued
  <2>2. \A k \in InRange(j) : ~OnlyWaiting[j] =>
           \/ Mapped(h, k)' \/ RawOf[h][k] \in missing'[j]
           \/ \E g \in pending'[j] : g.raw = RawOf[h][k]
    BY <1>1, <1>4 DEF Own, JobInv, FieldsMapped, InField, Mapped, MappingOf
  <2> QED BY <1>1, <1>4, <2>1, <2>2, SameField DEF InField, InFields
<1> QED BY <1>2, <1>3, <1>4

LEMMA GenerateOwn ==
  ASSUME Types, Types', Grows, NEW j \in Jobs, Own(j), Generate(j)
  PROVE  Own(j)'
<1>1. pc[j] = "generate" /\ field' = field /\ records' = records /\ mapping' = mapping
  BY DEF Generate, At, postgres
<1>2. recalled[j].raw \in missing[j]
  BY <1>1 DEF Own, JobInv, BatchOpen
<1>3. CASE \E result : AddPending(j, recalled[j].raw, result)
  BY <1>1, <1>2, <1>3, AddPendingOwn
<1>4. CASE Goto(j, AfterError) /\ UNCHANGED <<missing, pending>>
  BY <1>1, <1>4, FailedJob DEF Goto, AfterError, Types
<1> QED BY <1>3, <1>4 DEF Generate

LEMMA CandidatesOwn ==
  ASSUME Types, Types', Grows, NEW j \in Jobs, Own(j), UpsertTargetCandidates(j)
  PROVE  Own(j)'
<1> DEFINE h == field[j]
<1>1. /\ pc[j] = "flush1" /\ pc'[j] = "flush2"
      /\ UNCHANGED <<field, pending, missing, records, mapping>>
  BY DEF UpsertTargetCandidates, At, CandidatesFirst, AfterFlush, Goto, Types
<1>2. BatchOpen(j)' /\ Cardinality(pending'[j]) <= BatchSize
  BY <1>1 DEF Own, JobInv, BatchOpen
<1>3. BatchQueued(j)'
  <2> SUFFICES ASSUME NEW g \in pending[j], g.result = Needs
               PROVE  candidate'[<<SetOf[h], g.raw>>] # "none"
    BY <1>1 DEF BatchQueued, TargetSet
  <2>1. g \in Generated /\ g = [raw |-> g.raw, result |-> Needs]
    BY OwnTypes DEF Generated
  <2>2. <<SetOf[h], g.raw>> \in Values
    BY <2>1, FieldInRange DEF Types, Generated, Values
  <2> QED BY <2>1, <2>2 DEF UpsertTargetCandidates, TargetSet, MergedCandidate, Types
<1>4. \A k \in InRange(j) : ~OnlyWaiting[j] =>
         \/ Mapped(h, k)' \/ RawOf[h][k] \in missing'[j]
         \/ \E g \in pending'[j] : g.raw = RawOf[h][k]
  BY <1>1 DEF Own, JobInv, FieldsMapped, InField, Mapped, MappingOf
<1> QED BY <1>1, <1>2, <1>3, <1>4, SameField DEF InField, InFields

LEMMA MappingsOwn ==
  ASSUME Types, Types', Grows, NEW j \in Jobs, Own(j), UpsertMappings(j)
  PROVE  Own(j)'
<1> DEFINE h == field[j]
<1>1. /\ pc[j] = "flush2" /\ missing' = missing /\ records' = records
      /\ NextRaw(j, missing[j]) /\ pending'[j] = {}
  BY DEF UpsertMappings, At, CandidatesFirst, AfterFlush, Types
<1>2. h \in Fields /\ InRange(j) \subseteq Keys
  BY DEF Types, InRange
<1>3. ASSUME NEW f \in Fields, f = h, NEW k \in InRange(j), ~OnlyWaiting[j]
      PROVE  Mapped(f, k)' \/ RawOf[f][k] \in missing[j]
  <2>1. CASE Mapped(f, k)
    BY <1>2, <2>1, MappedStays
  <2>2. CASE RawOf[f][k] # Blank /\ \E g \in pending[j] : g.raw = RawOf[f][k]
    <3>1. <<SetOf[f], RawOf[f][k]>> \in Values
      BY <1>2, <2>2, ValueOf
    <3> DEFINE x == <<SetOf[f], RawOf[f][k]>>
    <3>2. x[1] = TargetSet(j) /\ x[2] = RawOf[f][k]
      BY <1>3 DEF TargetSet
    <3>3. mapping'[x] # NoMapping
      <4> HIDE DEF x
      <4> QED BY <2>2, <3>1, <3>2, NewMappings DEF x
    <3> QED BY <3>3 DEF Mapped, MappingOf
  <2>3. CASE RawOf[f][k] = Blank
    BY <2>3 DEF Mapped
  <2> QED BY <1>1, <1>3, <2>1, <2>2, <2>3 DEF Own, JobInv, FieldsMapped, InField
<1>4. CASE missing[j] = {}
  <2>1. NextField(j)
    BY <1>1, <1>4 DEF NextRaw
  <2> QED BY <1>1, <1>2, <1>3, <1>4, <2>1, FieldDone DEF InField, InFields
<1>5. CASE missing[j] # {}
  <2>1. pc'[j] = "recall" /\ field' = field
    BY <1>1, <1>5 DEF NextRaw, Types
  <2>2. BatchOpen(j)' /\ Cardinality(pending'[j]) <= BatchSize /\ BatchQueued(j)'
    BY <1>1, <1>5, <2>1, FS_EmptySet, JobsAssumption DEF BatchOpen, BatchQueued
  <2>3. \A k \in InRange(j) : ~OnlyWaiting[j] =>
           \/ Mapped(h, k)' \/ RawOf[h][k] \in missing'[j]
    BY <1>1, <1>2, <1>3, <2>1 DEF Mapped
  <2> QED BY <1>1, <2>1, <2>2, <2>3, SameField DEF InField, InFields
<1> QED BY <1>4, <1>5

\* The output stages: no batch, all fields mapped while rows are written.
LEMMA OutputJob ==
  ASSUME Types, Grows, NEW j \in Jobs, Own(j),
         pc[j] \in {"range", "write", "build", "record"},
         pc'[j] \in {"write", "build", "record", "finish"},
         pc'[j] \in InOutput => pc[j] \in InOutput,
         pending' = pending, RecordsHonest(j)', WrittenSoFar(j)'
  PROVE  Own(j)'
<1>1. pending'[j] = {}
  BY DEF Own, JobInv, BatchOpen
<1>2. BatchOpen(j)' /\ Cardinality(pending'[j]) <= BatchSize /\ BatchQueued(j)'
  BY <1>1, FS_EmptySet, JobsAssumption DEF BatchOpen, BatchQueued
<1>3. FieldsMapped(j)'
  <2>1. InRange(j) \subseteq Keys
    BY DEF InRange
  <2> QED BY <2>1, MappedStays
          DEF Own, JobInv, FieldsMapped, InField, InFields, InOutput, InRange
<1> QED BY <1>2, <1>3 DEF Own, JobInv

LEMMA RecordsKept ==
  ASSUME Types, Grows, NEW j \in Jobs, RecordsHonest(j), records'[j] = records[j]
  PROVE  RecordsHonest(j)'
<1>1. DOMAIN records[j] \subseteq Keys
  BY OwnTypes
<1> QED BY <1>1, MappedStays DEF RecordsHonest

LEMMA KeyRangeOwn ==
  ASSUME Types, Types', Grows, NEW j \in Jobs, Own(j), SelectKeyRange(j)
  PROVE  Own(j)'
<1>1. /\ pc[j] = "range" /\ pending' = pending /\ records' = records
  BY DEF SelectKeyRange, At
<1>2. RecordsHonest(j)'
  BY <1>1, RecordsKept DEF Own, JobInv
<1>3. ~OnlyWaiting[j] => Wanted(j) = InRange(j)
  BY DEF Wanted
<1>4. CASE Wanted(j) = {}
  <2>1. pc'[j] = "build"
    BY <1>4 DEF SelectKeyRange, Goto, Types
  <2>2. WrittenSoFar(j)'
    BY <1>3, <1>4 DEF WrittenSoFar, InRange
  <2> QED BY <1>1, <1>2, <2>1, <2>2, OutputJob DEF InOutput
<1>5. CASE Wanted(j) # {}
  <2>1. PICK min \in Wanted(j), max \in Wanted(j) :
          /\ \A k \in Wanted(j) : min <= k /\ k <= max
          /\ pages' = [pages EXCEPT ![j] = [first |-> min, last |-> max]]
    BY <1>5 DEF SelectKeyRange
  <2>2. pc'[j] = "write"
    BY <1>5 DEF SelectKeyRange, Goto, Types
  <2>3. pages'[j].first = min /\ pages'[j].last = max
    BY <2>1 DEF Types
  <2>4. InRange(j) \subseteq Int /\ Wanted(j) \subseteq Int
    BY SourceAssumption DEF InRange, Wanted
  <2>5. \A k \in InRange(j) : ~OnlyWaiting[j] => k <= pages'[j].last /\ ~(k < pages'[j].first)
    BY <1>3, <2>1, <2>3, <2>4
  <2>6. WrittenSoFar(j)'
    BY <2>2, <2>5 DEF WrittenSoFar, InRange
  <2> QED BY <1>1, <1>2, <2>2, <2>6, OutputJob DEF InOutput
<1> QED BY <1>4, <1>5

LEMMA WriteOwn ==
  ASSUME Types, Types', Grows, NEW j \in Jobs, Own(j), WriteOutputPage(j)
  PROVE  Own(j)'
<1> DEFINE first == pages[j].first
           last  == pages[j].last
           end   == PageEnd(first, last)
<1>1. /\ pc[j] = "write" /\ pending' = pending /\ records' = records
      /\ \A k \in Keys : k \in Wanted(j) /\ first <= k /\ k <= end =>
           out'[k] = [f \in Fields |-> Aligned(f, k)]
      /\ IF end = last THEN pc'[j] = "build"
                       ELSE /\ pages' = [pages EXCEPT ![j].first = NextPage(end)]
                            /\ pc' = pc
  BY DEF WriteOutputPage, At, Goto, Types
<1>2. RecordsHonest(j)'
  BY <1>1, RecordsKept DEF Own, JobInv
<1>3. first \in Int /\ last \in Int /\ end \in Int
  BY OwnTypes, JobsAssumption DEF PageEnd
<1>4. InRange(j) \subseteq Int /\ InRange(j) \subseteq Keys
  BY SourceAssumption DEF InRange
<1>5. ASSUME ~OnlyWaiting[j], NEW k \in InRange(j)
      PROVE  k <= last /\ (k <= end => out'[k] # Absent)
  <2>1. k <= last /\ (k < first => out[k] # Absent)
    BY <1>1, <1>5 DEF Own, JobInv, WrittenSoFar
  <2>2. CASE k < first
    BY <1>4, <2>1, <2>2 DEF Grows
  <2>3. CASE first <= k /\ k <= end
    <3>1. k \in Wanted(j)
      BY <1>5 DEF Wanted
    <3> QED BY <1>1, <1>4, <2>1, <2>3, <3>1, RowIsNotAbsent
  <2> HIDE DEF first, last, end
  <2> QED BY <1>3, <1>4, <2>1, <2>2, <2>3
<1>6. CASE end = last
  <2>1. pc'[j] = "build"
    BY <1>1, <1>6
  <2>2. \A k \in InRange(j) : ~OnlyWaiting[j] => out'[k] # Absent
    BY <1>5, <1>6
  <2>3. WrittenSoFar(j)'
    BY <2>1, <2>2 DEF WrittenSoFar, InRange
  <2> QED BY <1>1, <1>2, <2>1, <2>3, OutputJob DEF InOutput
<1>7. CASE end # last
  <2>1. pc'[j] = "write" /\ pages'[j].first = end + 1 /\ pages'[j].last = last
    <3> HIDE DEF end
    <3> QED BY <1>1, <1>7 DEF Types, NextPage
  <2>2. \A k \in InRange(j) : ~OnlyWaiting[j] =>
           k <= last /\ (k < end + 1 => out'[k] # Absent)
    <3> HIDE DEF first, last, end
    <3> QED BY <1>3, <1>4, <1>5
  <2>3. WrittenSoFar(j)'
    <3> HIDE DEF end
    <3> QED BY <2>1, <2>2 DEF WrittenSoFar, InRange
  <2> QED BY <1>1, <1>2, <2>1, <2>3, OutputJob DEF InOutput
<1> QED BY <1>6, <1>7

LEMMA BuildOwn ==
  ASSUME Types, Types', Grows, NEW j \in Jobs, Own(j), BuildRecords(j), RecordedMapped
  PROVE  Own(j)'
<1>1. /\ pc[j] = "build" /\ pending' = pending
      /\ UNCHANGED <<mapping, out, rec>> /\ pc'[j] = "record"
      /\ records'[j] = [k \in Wanted(j) |-> RecordStatus(k)]
  BY DEF BuildRecords, At, Goto, Types, postgres
<1>2. Wanted(j) \subseteq InRange(j) /\ InRange(j) \subseteq Keys
  BY DEF Wanted, InRange
<1>3. ASSUME NEW k \in Wanted(j), NEW f \in Fields
      PROVE  Mapped(f, k)
  <2>1. CASE OnlyWaiting[j]
    <3>1. rec[k] # "none"
      BY <2>1 DEF Wanted
    <3> QED BY <1>2, <3>1 DEF RecordedMapped
  <2>2. CASE ~OnlyWaiting[j]
    BY <1>1, <1>2, <2>2 DEF Own, JobInv, FieldsMapped, InOutput
  <2> QED BY <2>1, <2>2
<1>4. ASSUME NEW k \in Wanted(j), NEW f \in Fields, RecordStatus(k) = "succeeded"
      PROVE  IsDecided(f, k)
  <2> SUFFICES ASSUME RawOf[f][k] # Blank PROVE MappingOf(f, k) \in Decided
    BY DEF IsDecided
  <2>1. Aligned(f, k) # Needs
    BY <1>4 DEF RecordStatus
  <2>2. MappingOf(f, k) # Needs /\ MappingOf(f, k) # NoMapping
    BY <1>3, <2>1 DEF Aligned, Mapped
  <2>3. MappingOf(f, k) \in Labels \cup {Unknown, Needs, NoMapping}
    BY <1>2, ValueOf DEF MappingOf, Types
  <2> QED BY <2>2, <2>3 DEF Decided
<1>5. RecordsHonest(j)'
  <2>1. DOMAIN records'[j] = Wanted(j) /\ \A k \in Wanted(j) : records'[j][k] = RecordStatus(k)
    BY <1>1
  <2>2. \A f \in Fields, k \in Keys : (Mapped(f, k)' <=> Mapped(f, k))
                                       /\ (IsDecided(f, k)' <=> IsDecided(f, k))
    BY <1>1 DEF Mapped, IsDecided, MappingOf
  <2> QED BY <1>2, <1>3, <1>4, <2>1, <2>2 DEF RecordsHonest
<1>6. WrittenSoFar(j)'
  <2>1. \A k \in InRange(j) : ~OnlyWaiting[j] => out[k] # Absent /\ k \in DOMAIN records'[j]
    BY <1>1 DEF Own, JobInv, WrittenSoFar, Wanted
  <2> QED BY <1>1, <2>1 DEF WrittenSoFar, InRange
<1> QED BY <1>1, <1>5, <1>6, OutputJob DEF InOutput

LEMMA RecordOwn ==
  ASSUME Types, Types', Grows, NEW j \in Jobs, Own(j), UpsertRecords(j)
  PROVE  Own(j)'
<1>1. PICK batch \in SUBSET DOMAIN records[j] :
        /\ rec' = [k \in Keys |-> IF k \in batch THEN records[j][k] ELSE rec[k]]
        /\ records' = [records EXCEPT ![j] = [k \in DOMAIN records[j] \ batch |-> @[k]]]
        /\ Goto(j, IF batch = DOMAIN records[j] THEN "finish" ELSE "record")
  BY DEF UpsertRecords
<1>2. pc[j] = "record" /\ UNCHANGED <<pending, mapping, out>>
  BY DEF UpsertRecords, At
<1>3. DOMAIN records[j] \subseteq Keys /\ InRange(j) \subseteq Keys
  BY OwnTypes DEF InRange
<1>4. records'[j] = [k \in DOMAIN records[j] \ batch |-> records[j][k]]
  BY <1>1 DEF Types
<1>5. pc'[j] = IF batch = DOMAIN records[j] THEN "finish" ELSE "record"
  BY <1>1 DEF Goto, Types
<1>6. RecordsHonest(j)'
  <2>1. \A k \in DOMAIN records'[j] : k \in DOMAIN records[j] /\ records'[j][k] = records[j][k]
    BY <1>4
  <2> QED BY <1>3, <2>1, MappedStays DEF Own, JobInv, RecordsHonest
<1>7. WrittenSoFar(j)'
  <2> SUFFICES ASSUME ~OnlyWaiting[j], NEW k \in InRange(j)
               PROVE  /\ out'[k] # Absent
                      /\ pc'[j] = "record" => rec'[k] # "none" \/ k \in DOMAIN records'[j]
                      /\ pc'[j] = "finish" => rec'[k] # "none"
    BY <1>5 DEF WrittenSoFar, InRange
  <2>1. out[k] # Absent /\ (rec[k] # "none" \/ k \in DOMAIN records[j])
    BY <1>2 DEF Own, JobInv, WrittenSoFar
  <2>2. k \in batch => rec'[k] # "none"
    BY <1>1, <1>3, OwnTypes
  <2>3. rec[k] # "none" => rec'[k] # "none"
    BY <1>3 DEF Grows
  <2> QED BY <1>2, <1>4, <1>5, <2>1, <2>2, <2>3
<1> QED BY <1>2, <1>5, <1>6, <1>7, OutputJob DEF InOutput

---------------------------------------------------------------------------
(***************************************************************************)
(* Every step preserves the inductive invariant.                           *)
(***************************************************************************)

LEMMA InvParts ==
  AlignInv <=> /\ Types /\ NeedsIsQueued /\ ResolvedIsDecided /\ RecordedMapped
               /\ RecordDecided /\ SucceededCovers /\ \A j \in Jobs : Own(j)
<1>1. TypeOK <=> Types /\ \A j \in Jobs : Cardinality(pending[j]) <= BatchSize
  BY DEF TypeOK, Types
<1>2. (\A j \in Jobs : Own(j)) <=>
        (\A j \in Jobs : JobInv(j)) /\ \A j \in Jobs : Cardinality(pending[j]) <= BatchSize
  BY Zenon DEF Own
<1> QED BY <1>1, <1>2 DEF AlignInv

LEMMA JobsStep ==
  ASSUME Types, Types', Grows, Next, RecordedMapped, NEW i \in Jobs, Own(i)
  PROVE  Own(i)'
<1>1. ASSUME NEW j \in Jobs, Start(j) \/ Execute(j) \/ Generate(j) PROVE Own(i)'
  <2>1. CASE i = j
    BY <1>1, <2>1, FrameOwn, SelectOwn, ExistingOwn, RecallOwn, GenerateOwn, CandidatesOwn,
       MappingsOwn, KeyRangeOwn, WriteOwn, BuildOwn, RecordOwn DEF Execute
  <2>2. CASE i # j
    BY <1>1, <2>2, OthersSame, OtherJob
  <2> QED BY <2>1, <2>2
<1>2. CASE Operate \/ Restart
  <2>1. SameJob(i)
    BY <1>2 DEF Operate, Restart, UpsertTargets, DeleteTarget, ReviewTargetCandidates, SameJob,
                locals
  <2> QED BY <2>1, OtherJob
<1>3. CASE Crash
  <2>1. pc'[i] \in {"none", "gone"} /\ pending'[i] = {} /\ records'[i] = NoRecords
    BY <1>3 DEF Crash
  <2> QED BY <2>1, IdleJob DEF Own, JobInv
<1> QED BY <1>1, <1>2, <1>3 DEF Next

LEMMA TableChanges ==
  ASSUME Next
  PROVE  /\ rec' = rec \/ \E j \in Jobs : UpsertRecords(j)
         /\ \/ mapping' = mapping /\ candidate' = candidate
            \/ \E j \in Jobs : UpsertTargetCandidates(j) \/ UpsertMappings(j)
            \/ pc' = pc /\ \E s \in Sets : ReviewTargetCandidates(s)
         /\ \/ status' = status
            \/ \E j \in Jobs : Start(j) \/ MarkRunning(j) \/ MarkSucceeded(j) \/ MarkFailed(j)
<1>1. ASSUME NEW j \in Jobs,
             \/ LoadJob(j) \/ PrepareField(j) \/ SelectRawValues(j) \/ LoadExistingMappings(j)
             \/ Recall(j) \/ Generate(j) \/ SelectKeyRange(j) \/ BuildRecords(j) \/ Fail(j)
      PROVE  rec' = rec /\ mapping' = mapping /\ candidate' = candidate /\ status' = status
  BY <1>1 DEF LoadJob, PrepareField, SelectRawValues, LoadExistingMappings, Recall, Generate,
              SelectKeyRange, BuildRecords, Fail, sqlite, postgres
<1>2. ASSUME NEW j \in Jobs, Start(j) \/ MarkRunning(j) \/ MarkSucceeded(j) \/ MarkFailed(j)
      PROVE  rec' = rec /\ mapping' = mapping /\ candidate' = candidate
  BY <1>2 DEF Start, MarkRunning, MarkSucceeded, MarkFailed, postgres
<1>3. ASSUME NEW j \in Jobs, UpsertTargetCandidates(j) \/ UpsertMappings(j)
      PROVE  rec' = rec /\ status' = status
  BY <1>3 DEF UpsertTargetCandidates, UpsertMappings, sqlite
<1>4. ASSUME NEW j \in Jobs, WriteOutputPage(j) \/ UpsertRecords(j)
      PROVE  /\ mapping' = mapping /\ candidate' = candidate /\ status' = status
             /\ rec' = rec \/ UpsertRecords(j)
  BY <1>4 DEF WriteOutputPage, UpsertRecords, sqlite
<1>5. ASSUME Operate
      PROVE  /\ rec' = rec /\ status' = status /\ pc' = pc
             /\ \/ mapping' = mapping /\ candidate' = candidate
                \/ \E s \in Sets : ReviewTargetCandidates(s)
  BY <1>5 DEF Operate, UpsertTargets, DeleteTarget, ReviewTargetCandidates, sqlite
<1>6. ASSUME Crash \/ Restart
      PROVE  rec' = rec /\ mapping' = mapping /\ candidate' = candidate /\ status' = status
  BY <1>6 DEF Crash, Restart, sqlite, postgres
<1> QED BY <1>1, <1>2, <1>3, <1>4, <1>5, <1>6, Zenon DEF Next, Execute

\* A mapping a batch writes that needs a candidate finds it in the queue.
LEMMA QueueStep ==
  ASSUME Types, Next, NeedsIsQueued, ResolvedIsDecided, \A j \in Jobs : Own(j)
  PROVE  NeedsIsQueued'
<1>1. Needs \notin Decided /\ NoMapping \notin Decided
  BY MappingAssumption DEF Decided
<1>2. CASE mapping' = mapping /\ candidate' = candidate
  BY <1>2 DEF NeedsIsQueued
<1>3. ASSUME NEW j \in Jobs, UpsertTargetCandidates(j) PROVE NeedsIsQueued'
  <2>1. mapping' = mapping
    BY <1>3 DEF UpsertTargetCandidates
  <2>2. \A x \in Values : candidate[x] = "pending" => candidate'[x] = "pending"
    BY <1>3 DEF UpsertTargetCandidates, MergedCandidate
  <2> QED BY <2>1, <2>2 DEF NeedsIsQueued
<1>4. ASSUME NEW j \in Jobs, UpsertMappings(j) PROVE NeedsIsQueued'
  <2>1. candidate' = candidate /\ pc[j] = "flush2"
    BY <1>4 DEF UpsertMappings, At, CandidatesFirst
  <2> SUFFICES ASSUME NEW x \in Values, mapping'[x] = Needs PROVE candidate[x] = "pending"
    BY <2>1 DEF NeedsIsQueued
  <2>2. CASE mapping'[x] = mapping[x]
    BY <2>2 DEF NeedsIsQueued
  <2>3. CASE /\ mapping[x] = NoMapping /\ x[1] = TargetSet(j)
             /\ \E g \in pending[j] : g.raw = x[2] /\ mapping'[x] = g.result
    <3>1. PICK g \in pending[j] : g.raw = x[2] /\ g.result = Needs
      BY <2>3
    <3>2. x = <<TargetSet(j), g.raw>>
      BY <2>3, <3>1 DEF Values
    <3>3. candidate[x] # "none"
      BY <2>1, <3>1, <3>2 DEF Own, JobInv, BatchQueued
    <3>4. candidate[x] # "resolved"
      BY <1>1, <2>3 DEF ResolvedIsDecided
    <3> QED BY <3>3, <3>4 DEF Types
  <2> QED BY <1>4, <2>2, <2>3, NewMappings
<1>5. ASSUME NEW s \in Sets, ReviewTargetCandidates(s) PROVE NeedsIsQueued'
  BY <1>1, <1>5, ReviewEffect DEF NeedsIsQueued
<1> QED BY <1>2, <1>3, <1>4, <1>5, TableChanges

LEMMA ResolvedStep ==
  ASSUME Types, Next, Grows, ResolvedIsDecided
  PROVE  ResolvedIsDecided'
<1> SUFFICES ASSUME NEW x \in Values, candidate'[x] = "resolved" PROVE mapping'[x] \in Decided
  BY DEF ResolvedIsDecided
<1>1. CASE candidate[x] = "resolved"
  BY <1>1 DEF ResolvedIsDecided, Grows
<1>2. ASSUME NEW j \in Jobs, UpsertTargetCandidates(j) PROVE candidate[x] = "resolved"
  BY <1>2 DEF UpsertTargetCandidates, MergedCandidate, Types
<1>3. ASSUME NEW j \in Jobs, UpsertMappings(j) PROVE candidate[x] = "resolved"
  BY <1>3 DEF UpsertMappings
<1>4. ASSUME NEW s \in Sets, ReviewTargetCandidates(s), candidate[x] # "resolved"
      PROVE  mapping'[x] \in Decided
  BY <1>4, ReviewEffect
<1> QED BY <1>1, <1>2, <1>3, <1>4, TableChanges

LEMMA RecordStep ==
  ASSUME Types, Next, Grows, RecordedMapped, RecordDecided, \A j \in Jobs : Own(j)
  PROVE  RecordedMapped' /\ RecordDecided'
<1>1. ASSUME NEW k \in Keys
      PROVE  \/ rec'[k] = rec[k]
             \/ \E j \in Jobs : k \in DOMAIN records[j] /\ rec'[k] = records[j][k]
  BY TableChanges DEF UpsertRecords
<1>2. ASSUME NEW k \in Keys, rec'[k] # "none" PROVE \A f \in Fields : Mapped(f, k)
  BY <1>1, <1>2 DEF RecordedMapped, Own, JobInv, RecordsHonest
<1>3. ASSUME NEW k \in Keys, rec'[k] = "succeeded" PROVE \A f \in Fields : IsDecided(f, k)
  BY <1>1, <1>3 DEF RecordDecided, Own, JobInv, RecordsHonest
<1>4. RecordedMapped'
  BY <1>2, MappedStays DEF RecordedMapped
<1>5. RecordDecided'
  BY <1>3, MappedStays DEF RecordDecided
<1> QED BY <1>4, <1>5

LEMMA SucceededStep ==
  ASSUME Types, Next, Grows, SucceededCovers, \A j \in Jobs : Own(j)
  PROVE  SucceededCovers'
<1>1. ASSUME NEW i \in Jobs, status'[i] = "succeeded"
      PROVE  status[i] = "succeeded" \/ pc[i] = "finish"
  <2>1. ASSUME NEW j \in Jobs, Start(j) \/ MarkRunning(j) \/ MarkSucceeded(j) \/ MarkFailed(j)
        PROVE  status[i] = "succeeded" \/ pc[i] = "finish"
    BY <1>1, <2>1 DEF Start, MarkRunning, MarkSucceeded, MarkFailed, At, Types
  <2> QED BY <1>1, <2>1, TableChanges
<1> SUFFICES ASSUME NEW i \in Jobs, status'[i] = "succeeded", ~OnlyWaiting[i], NEW k \in InRange(i)
             PROVE  out'[k] # Absent /\ rec'[k] # "none"
  BY DEF SucceededCovers, InRange
<1>2. out[k] # Absent /\ rec[k] # "none"
  BY <1>1 DEF SucceededCovers, Own, JobInv, WrittenSoFar
<1> QED BY <1>2 DEF Grows, InRange

LEMMA AlignInit == Init => AlignInv
<1> SUFFICES ASSUME Init PROVE AlignInv
  OBVIOUS
<1>1. Types
  <2>1. Nothing \in [raw : Raws \cup {Blank}, labels : SUBSET Labels]
        /\ NoPages \in [first : Int, last : Int]
    BY DEF Nothing, NoPages
  <2>2. NoRecords \in Records
    <3>1. {} \in SUBSET Keys /\ NoRecords \in [{} -> {"succeeded", "waiting"}]
      BY DEF NoRecords
    <3> QED BY <3>1 DEF Records
  <2>3. crashes \in 0..MaxCrashes
    BY JobsAssumption DEF Init
  <2> QED BY <2>1, <2>2, <2>3, FieldInRange DEF Init, Types, Stages
<1>2. NeedsIsQueued /\ ResolvedIsDecided
  BY MappingAssumption DEF Init, NeedsIsQueued, ResolvedIsDecided
<1>3. RecordedMapped /\ RecordDecided
  BY DEF Init, RecordedMapped, RecordDecided
<1>4. SucceededCovers
  BY DEF Init, SucceededCovers
<1>5. ASSUME NEW j \in Jobs PROVE Own(j)
  <2>1. pc[j] = "none" /\ pending[j] = {} /\ records[j] = NoRecords
    BY DEF Init
  <2>2. BatchOpen(j) /\ Cardinality(pending[j]) <= BatchSize
    BY <2>1, FS_EmptySet, JobsAssumption DEF BatchOpen
  <2>3. BatchQueued(j) /\ FieldsMapped(j) /\ WrittenSoFar(j)
    BY <2>1 DEF BatchQueued, FieldsMapped, WrittenSoFar, InField, InFields, InOutput
  <2>4. RecordsHonest(j)
    BY <2>1 DEF RecordsHonest, NoRecords
  <2> QED BY <2>2, <2>3, <2>4 DEF Own, JobInv
<1> QED BY <1>1, <1>2, <1>3, <1>4, <1>5, InvParts

LEMMA AlignNext == AlignInv /\ [Next]_vars => AlignInv'
<1>1. ASSUME AlignInv, Next PROVE AlignInv'
  <2>1. /\ Types /\ NeedsIsQueued /\ ResolvedIsDecided /\ RecordedMapped
        /\ RecordDecided /\ SucceededCovers /\ \A j \in Jobs : Own(j)
    BY <1>1, InvParts
  <2>2. \A j \in Jobs : pc[j] = "generate" => recalled[j].raw \in Raws
    BY <2>1, OwnTypes DEF Own, JobInv, BatchOpen
  <2>3. Types' /\ Grows
    BY <1>1, <2>1, <2>2, TypesStep, GrowsStep
  <2>4. \A j \in Jobs : Own(j)'
    BY <1>1, <2>1, <2>3, JobsStep
  <2>5. NeedsIsQueued' /\ ResolvedIsDecided'
    BY <1>1, <2>1, <2>3, QueueStep, ResolvedStep
  <2>6. RecordedMapped' /\ RecordDecided' /\ SucceededCovers'
    BY <1>1, <2>1, <2>3, RecordStep, SucceededStep
  <2>7. (AlignInv <=> /\ Types /\ NeedsIsQueued /\ ResolvedIsDecided /\ RecordedMapped
                      /\ RecordDecided /\ SucceededCovers /\ \A j \in Jobs : Own(j))'
    BY InvParts, PTL
  <2> QED BY <2>3, <2>4, <2>5, <2>6, <2>7
<1>2. ASSUME AlignInv, UNCHANGED vars PROVE AlignInv'
  <2> USE DEF vars, sqlite, postgres, server, locals
  <2>1. /\ Types /\ NeedsIsQueued /\ ResolvedIsDecided /\ RecordedMapped
        /\ RecordDecided /\ SucceededCovers /\ \A j \in Jobs : Own(j)
    BY <1>2, InvParts
  <2>2. Types' /\ Grows
    BY <1>2, <2>1, TablesSame DEF Types
  <2>3. \A j \in Jobs : Own(j)'
    BY <1>2, <2>1, <2>2, OtherJob DEF SameJob
  <2>4. NeedsIsQueued' /\ ResolvedIsDecided' /\ SucceededCovers'
    BY <1>2, <2>1 DEF NeedsIsQueued, ResolvedIsDecided, SucceededCovers, InRange
  <2>5. RecordedMapped' /\ RecordDecided'
    BY <1>2, <2>1, <2>2, MappedStays DEF RecordedMapped, RecordDecided
  <2>6. (AlignInv <=> /\ Types /\ NeedsIsQueued /\ ResolvedIsDecided /\ RecordedMapped
                      /\ RecordDecided /\ SucceededCovers /\ \A j \in Jobs : Own(j))'
    BY InvParts, PTL
  <2> QED BY <2>2, <2>3, <2>4, <2>5, <2>6
<1> QED BY <1>1, <1>2

---------------------------------------------------------------------------
(***************************************************************************)
(* The theorems.                                                           *)
(***************************************************************************)

\* The inductive invariant holds of every behaviour: jobs, operators, failing
\* statements and crashes in any order.
THEOREM AlignInvariance == Spec => []AlignInv
<1> QED BY AlignInit, AlignNext, PTL DEF Spec

\* The tables and the memory of the goroutines keep their types, and no batch of
\* generated mappings grows beyond its size.
THEOREM TypeCorrect == Spec => []TypeOK
<1>1. AlignInv => TypeOK
  BY DEF AlignInv
<1> QED BY <1>1, AlignInvariance, PTL

\* What needs a candidate is in the review queue, although the two are written by
\* two statements and any statement may be the last before a crash.
THEOREM NeedsQueued == Spec => []NeedsIsQueued
<1>1. AlignInv => NeedsIsQueued
  BY DEF AlignInv
<1> QED BY <1>1, AlignInvariance, PTL

\* A candidate an operator resolved has a decided mapping.
THEOREM ResolvedDecided == Spec => []ResolvedIsDecided
<1>1. AlignInv => ResolvedIsDecided
  BY DEF AlignInv
<1> QED BY <1>1, AlignInvariance, PTL

\* A row recorded succeeded has a decided mapping for each of its values, in full
\* jobs and in those that only revisit rows waiting for a review.
THEOREM RecordedDecided == Spec => []RecordDecided
<1>1. AlignInv => RecordDecided
  BY DEF AlignInv
<1> QED BY <1>1, AlignInvariance, PTL

\* A full job that ended succeeded wrote and recorded every row of its range,
\* whatever the gaps between the keys and the sizes of pages and batches.
THEOREM SucceededComplete == Spec => []SucceededCovers
<1>1. AlignInv => SucceededCovers
  BY DEF AlignInv
<1> QED BY <1>1, AlignInvariance, PTL

\* No step of a job changes a mapping that exists, and no resolved candidate is
\* opened again.
THEOREM DecisionsKept == Spec => DecisionsStay
<1> DEFINE Stay == \A x \in Values :
                     /\ pc' # pc /\ mapping[x] # NoMapping => mapping'[x] = mapping[x]
                     /\ candidate[x] = "resolved" => candidate'[x] = "resolved"
<1>1. ASSUME AlignInv, Next PROVE Stay
  <2>1. Types
    BY <1>1, InvParts
  <2>2. CASE mapping' = mapping /\ candidate' = candidate
    BY <2>2
  <2>3. ASSUME NEW j \in Jobs, UpsertTargetCandidates(j) PROVE Stay
    BY <2>3 DEF UpsertTargetCandidates, MergedCandidate
  <2>4. ASSUME NEW j \in Jobs, UpsertMappings(j) PROVE Stay
    <3>1. candidate' = candidate
      BY <2>4 DEF UpsertMappings
    <3> QED BY <2>1, <2>4, <3>1, NewMappings
  <2>5. ASSUME pc' = pc, NEW s \in Sets, ReviewTargetCandidates(s) PROVE Stay
    BY <2>1, <2>5, ReviewEffect
  <2> QED BY <1>1, <2>2, <2>3, <2>4, <2>5, TableChanges
<1>2. AlignInv /\ [Next]_vars => [Stay]_vars
  BY <1>1
<1> QED BY <1>2, AlignInvariance, PTL DEF Spec, DecisionsStay

---------------------------------------------------------------------------
(***************************************************************************)
(* What a page of output shows: the mappings as they are when it is        *)
(* written, so that only a review can make table and mappings disagree.    *)
(***************************************************************************)

LEMMA OutputChanges ==
  ASSUME Next
  PROVE  out' = out \/ \E j \in Jobs : WriteOutputPage(j)
<1>1. ASSUME NEW j \in Jobs, Start(j) \/ Execute(j) \/ Generate(j), ~WriteOutputPage(j)
      PROVE  out' = out
  BY <1>1 DEF Execute, Start, MarkRunning, LoadJob, PrepareField, SelectRawValues,
     LoadExistingMappings, Recall, Generate, UpsertTargetCandidates, UpsertMappings,
     SelectKeyRange, BuildRecords, UpsertRecords, MarkSucceeded, Fail, MarkFailed, postgres
<1>2. ASSUME Operate \/ Crash \/ Restart PROVE out' = out
  BY <1>2 DEF Operate, UpsertTargets, DeleteTarget, ReviewTargetCandidates, Crash, Restart, postgres
<1> QED BY <1>1, <1>2 DEF Next

\* A row that is wanted when the output is written has mappings for its values.
LEMMA WantedMapped ==
  ASSUME NEW j \in Jobs, Own(j), RecordedMapped, pc[j] \in InOutput,
         NEW k \in Wanted(j), NEW f \in Fields
  PROVE  Mapped(f, k)
<1>1. k \in InRange(j) /\ k \in Keys
  BY DEF Wanted, InRange
<1>2. CASE OnlyWaiting[j]
  BY <1>1, <1>2 DEF Wanted, RecordedMapped
<1>3. CASE ~OnlyWaiting[j]
  BY <1>1, <1>3 DEF Own, JobInv, FieldsMapped
<1> QED BY <1>2, <1>3

\* A page of output shows the mappings as they are.
LEMMA PageTraced ==
  ASSUME Types, NEW j \in Jobs, Own(j), RecordedMapped, WriteOutputPage(j),
         NEW k \in Keys, NEW f \in Fields, RawOf[f][k] # Blank
  PROVE  \/ out'[k] = out[k]
         \/ out'[k][f] # NoMapping /\ out'[k][f] = MappingOf(f, k)'
<1>1. pc[j] \in InOutput /\ mapping' = mapping
  BY DEF WriteOutputPage, At, InOutput
<1>2. \/ out'[k] = out[k]
      \/ k \in Wanted(j) /\ out'[k] = [g \in Fields |-> Aligned(g, k)]
  BY DEF WriteOutputPage
<1>3. CASE k \in Wanted(j) /\ out'[k] = [g \in Fields |-> Aligned(g, k)]
  <2>1. out'[k][f] = MappingOf(f, k)
    BY <1>3 DEF Aligned
  <2>2. MappingOf(f, k)' = MappingOf(f, k) /\ MappingOf(f, k) # NoMapping
    BY <1>1, <1>3, WantedMapped DEF Mapped, MappingOf
  <2> QED BY <2>1, <2>2
<1> QED BY <1>2, <1>3

\* The output table shows the mappings, but for values resolved since.
THEOREM OutputTracedHolds == Spec => []OutputTraced
<1> DEFINE Traced(x, v) == v # NoMapping /\ (v = mapping[x] \/ candidate[x] = "resolved")
           TracedNext(x, v) == v # NoMapping /\ (v = mapping'[x] \/ candidate'[x] = "resolved")
<1>1. Init => OutputTraced
  BY DEF Init, OutputTraced
<1>2. ASSUME Types, Next, NEW x \in Values
      PROVE  \A v : Traced(x, v) => TracedNext(x, v)
  <2>1. CASE mapping' = mapping /\ candidate' = candidate
    BY <2>1
  <2>2. ASSUME NEW j \in Jobs, UpsertTargetCandidates(j) PROVE \A v : Traced(x, v) => TracedNext(x, v)
    BY <2>2 DEF UpsertTargetCandidates, MergedCandidate
  <2>3. ASSUME NEW j \in Jobs, UpsertMappings(j) PROVE \A v : Traced(x, v) => TracedNext(x, v)
    <3>1. candidate' = candidate /\ (mapping'[x] = mapping[x] \/ mapping[x] = NoMapping)
      BY <1>2, <2>3, NewMappings DEF UpsertMappings
    <3> QED BY <3>1
  <2>4. ASSUME NEW s \in Sets, ReviewTargetCandidates(s) PROVE \A v : Traced(x, v) => TracedNext(x, v)
    BY <1>2, <2>4, ReviewEffect
  <2> QED BY <1>2, <2>1, <2>2, <2>3, <2>4, TableChanges
<1>3. ASSUME AlignInv, OutputTraced, [Next]_vars PROVE OutputTraced'
  <2>1. CASE UNCHANGED vars
    BY <1>3, <2>1 DEF vars, postgres, OutputTraced, MappingOf
  <2>2. CASE Next
    <3>1. Types /\ RecordedMapped /\ \A j \in Jobs : Own(j)
      BY <1>3, InvParts
    <3> SUFFICES ASSUME NEW k \in Keys, NEW f \in Fields, out'[k] # Absent, RawOf[f][k] # Blank
                 PROVE  /\ out'[k][f] # NoMapping
                        /\ \/ out'[k][f] = MappingOf(f, k)'
                           \/ candidate'[<<SetOf[f], RawOf[f][k]>>] = "resolved"
      BY DEF OutputTraced
    <3> DEFINE x == <<SetOf[f], RawOf[f][k]>>
    <3>2. x \in Values
      BY ValueOf
    <3>3. CASE out'[k] = out[k]
      <4>1. Traced(x, out[k][f])
        BY <1>3, <3>3 DEF OutputTraced, MappingOf
      <4>2. TracedNext(x, out[k][f])
        BY <1>2, <2>2, <3>1, <3>2, <4>1
      <4> QED BY <3>3, <4>2 DEF MappingOf
    <3>4. CASE out'[k] # out[k]
      <4>1. PICK j \in Jobs : WriteOutputPage(j)
        BY <2>2, <3>4, OutputChanges
      <4> QED BY <3>1, <3>4, <4>1, PageTraced
    <3> QED BY <3>3, <3>4
  <2> QED BY <1>3, <2>1, <2>2
<1> QED BY <1>1, <1>3, AlignInvariance, PTL DEF Spec

---------------------------------------------------------------------------
(***************************************************************************)
(* RequestInv: the refinement of AlignmentPromise needs to know that what  *)
(* is in a goroutine's hands belongs to the rows the job was asked for,    *)
(* and that rows are written before they are recorded.                     *)
(***************************************************************************)

\* The raw values a goroutine still has to see to in its field.
InHand(j) == missing[j] \cup {g.raw : g \in pending[j]}

LEMMA AddPendingHand ==
  ASSUME Types, NEW j \in Jobs, NEW v \in missing[j], NEW r, AddPending(j, v, r)
  PROVE  InHand(j)' \subseteq InHand(j) /\ pc'[j] \in {"flush1", "recall"}
<1>1. /\ missing'[j] = missing[j] \ {v}
      /\ pending'[j] = pending[j] \cup {[raw |-> v, result |-> r]}
      /\ pc'[j] \in {"flush1", "recall"}
  BY DEF AddPending, Goto, Types
<1>2. \A g \in pending'[j] : g \in pending[j] \/ g.raw = v
  BY <1>1
<1> QED BY <1>1, <1>2 DEF InHand

\* A step within a field brings no raw value into it.
LEMMA HandStep ==
  ASSUME Types, NEW j \in Jobs, Own(j), Execute(j) \/ Generate(j), pc'[j] \in InField
  PROVE  /\ field'[j] = field[j]
         /\ \/ pc[j] \in InField /\ InHand(j)' \subseteq InHand(j)
            \/ \A v \in InHand(j)' : \E k \in InRange(j) : RawOf[field[j]][k] = v
<1> USE DEF At, Goto
<1>1. CASE SelectRawValues(j)
  <2> DEFINE raws == {RawOf[field[j]][k] : k \in Wanted(j)} \ {Blank}
  <2>1. /\ pc[j] = "select" /\ pending' = pending /\ missing'[j] = raws
        /\ IF raws = {} THEN NextField(j) ELSE field' = field
    BY <1>1 DEF SelectRawValues, Types
  <2>2. pending[j] = {}
    BY <2>1 DEF Own, JobInv, BatchOpen
  <2>3. raws # {}
    BY <2>1 DEF NextField, InField, Types
  <2>4. \A v \in raws : \E k \in InRange(j) : RawOf[field[j]][k] = v
    BY DEF Wanted
  <2>5. InHand(j)' = missing'[j]
    BY <2>1, <2>2 DEF InHand
  <2> QED BY <2>1, <2>3, <2>4, <2>5
<1>2. CASE LoadExistingMappings(j)
  <2>1. PICK left \in SUBSET missing[j] :
          pc[j] = "existing" /\ pending' = pending /\ missing'[j] = left /\ NextRaw(j, left)
    <3> DEFINE left == {v \in missing[j] : mapping[<<TargetSet(j), v>>] = NoMapping}
    <3>1. pc[j] = "existing" /\ pending' = pending /\ missing'[j] = left /\ NextRaw(j, left)
      BY <1>2 DEF LoadExistingMappings, Types
    <3> QED BY <3>1
  <2>2. left # {}
    BY <2>1 DEF NextRaw, NextField, InField, Types
  <2>3. field' = field
    BY <2>1, <2>2 DEF NextRaw
  <2>4. InHand(j)' \subseteq InHand(j)
    BY <2>1 DEF InHand
  <2> QED BY <2>1, <2>3, <2>4 DEF InField
<1>3. CASE Recall(j)
  <2>1. pc[j] = "recall" /\ field' = field
    BY <1>3 DEF Recall
  <2>2. PICK v \in missing[j] : AddPending(j, v, Needs) \/ UNCHANGED <<missing, pending>>
    BY <1>3 DEF Recall
  <2>3. InHand(j)' \subseteq InHand(j)
    BY <2>2, AddPendingHand DEF InHand
  <2> QED BY <2>1, <2>3 DEF InField
<1>4. CASE Generate(j)
  <2>1. pc[j] = "generate" /\ field' = field
    BY <1>4 DEF Generate
  <2>2. recalled[j].raw \in missing[j]
    BY <2>1 DEF Own, JobInv, BatchOpen
  <2>3. InHand(j)' \subseteq InHand(j)
    <3>1. (\E r : AddPending(j, recalled[j].raw, r)) \/ UNCHANGED <<missing, pending>>
      BY <1>4 DEF Generate
    <3> QED BY <2>2, <3>1, AddPendingHand DEF InHand
  <2> QED BY <2>1, <2>3 DEF InField
<1>5. CASE UpsertTargetCandidates(j)
  <2>1. pc[j] = "flush1" /\ UNCHANGED <<field, pending, missing>>
    BY <1>5 DEF UpsertTargetCandidates, CandidatesFirst, AfterFlush
  <2> QED BY <2>1 DEF InHand, InField
<1>6. CASE UpsertMappings(j)
  <2>1. pc[j] = "flush2" /\ missing' = missing /\ pending'[j] = {} /\ NextRaw(j, missing[j])
    BY <1>6 DEF UpsertMappings, CandidatesFirst, AfterFlush, Types
  <2>2. field' = field
    BY <2>1 DEF NextRaw, NextField, InField, Types
  <2> QED BY <2>1, <2>2 DEF InHand, InField
<1>7. ASSUME \/ MarkRunning(j) \/ LoadJob(j) \/ PrepareField(j) \/ SelectKeyRange(j)
             \/ WriteOutputPage(j) \/ BuildRecords(j) \/ UpsertRecords(j)
             \/ MarkSucceeded(j) \/ Fail(j) \/ MarkFailed(j)
      PROVE  FALSE
  BY <1>7 DEF MarkRunning, LoadJob, PrepareField, SelectKeyRange, WriteOutputPage,
     BuildRecords, UpsertRecords, MarkSucceeded, Fail, MarkFailed, Exit, AfterError,
     InField, Types
<1> QED BY <1>1, <1>2, <1>3, <1>4, <1>5, <1>6, <1>7 DEF Execute

\* Records are built of the rows that were written.
LEMMA RecordsStep ==
  ASSUME Types, NEW j \in Jobs, Own(j), Start(j) \/ Execute(j) \/ Generate(j),
         RecordedWritten, NEW k \in DOMAIN records'[j]
  PROVE  \/ k \in DOMAIN records[j]
         \/ k \in InRange(j) /\ out[k] # Absent
<1>1. CASE BuildRecords(j)
  <2>1. k \in Wanted(j) /\ pc[j] = "build"
    BY <1>1 DEF BuildRecords, At, Types
  <2>2. k \in InRange(j) /\ k \in Keys
    BY <2>1 DEF Wanted, InRange
  <2>3. CASE OnlyWaiting[j]
    BY <2>1, <2>2, <2>3 DEF Wanted, RecordedWritten
  <2>4. CASE ~OnlyWaiting[j]
    BY <2>1, <2>2, <2>4 DEF Own, JobInv, WrittenSoFar
  <2> QED BY <2>2, <2>3, <2>4
<1>2. CASE UpsertRecords(j)
  BY <1>2 DEF UpsertRecords, Types
<1>3. CASE MarkSucceeded(j) \/ MarkFailed(j)
  BY <1>3 DEF MarkSucceeded, MarkFailed, Exit, NoRecords, Types
<1>4. ASSUME ~BuildRecords(j), ~UpsertRecords(j), ~MarkSucceeded(j), ~MarkFailed(j)
      PROVE  records' = records
  BY <1>4 DEF Execute, Start, MarkRunning, LoadJob, PrepareField, SelectRawValues,
     LoadExistingMappings, Recall, Generate, UpsertTargetCandidates, UpsertMappings,
     SelectKeyRange, WriteOutputPage, Fail, locals
<1> QED BY <1>1, <1>2, <1>3, <1>4

LEMMA WithinStep ==
  ASSUME Types, Types', Grows, Next, RecordedWritten, NEW i \in Jobs, Own(i), WithinRequest(i)
  PROVE  WithinRequest(i)'
<1>0. InRange(i) \subseteq Keys
  BY DEF InRange
<1>1. CASE SameJob(i)
  BY <1>0, <1>1 DEF SameJob, WithinRequest, Grows, InRange
<1>2. ASSUME Start(i) \/ Execute(i) \/ Generate(i) PROVE WithinRequest(i)'
  <2>1. ASSUME pc'[i] \in InField, NEW v \in InHand(i)'
        PROVE  \E k \in InRange(i) : RawOf[field'[i]][k] = v
    <3>1. CASE Start(i)
      BY <2>1, <3>1 DEF Start, Goto, Types, InField
    <3>2. CASE Execute(i) \/ Generate(i)
      BY <2>1, <3>2, HandStep DEF WithinRequest, InHand
    <3> QED BY <1>2, <3>1, <3>2
  <2>2. ASSUME NEW k \in DOMAIN records'[i] PROVE k \in InRange(i) /\ out'[k] # Absent
    <3>1. k \in InRange(i) /\ out[k] # Absent
      BY <1>2, RecordsStep DEF WithinRequest
    <3> QED BY <1>0, <3>1 DEF Grows
  <2> QED BY <2>1, <2>2 DEF WithinRequest, InHand, InRange
<1>3. CASE Crash
  BY <1>3 DEF Crash, WithinRequest, InField, NoRecords
<1>4. CASE Operate \/ Restart
  <2>1. SameJob(i)
    BY <1>4 DEF Operate, Restart, UpsertTargets, DeleteTarget, ReviewTargetCandidates, SameJob,
                locals
  <2> QED BY <1>1, <2>1
<1>5. ASSUME NEW j \in Jobs, j # i, Start(j) \/ Execute(j) \/ Generate(j) PROVE SameJob(i)
  BY <1>5, OthersSame
<1> QED BY <1>1, <1>2, <1>3, <1>4, <1>5 DEF Next

\* The status of a job changes with its goroutine only.
LEMMA OwnedStep ==
  ASSUME Types, Next, NEW i \in Jobs, Owned(i)
  PROVE  Owned(i)'
<1> USE DEF At, Goto
<1>1. CASE Start(i) \/ MarkRunning(i) \/ MarkSucceeded(i) \/ MarkFailed(i)
  BY <1>1 DEF Start, MarkRunning, MarkSucceeded, MarkFailed, Exit, Owned, Types
<1>2. ASSUME NEW j \in Jobs, Start(j) \/ MarkRunning(j) \/ MarkSucceeded(j) \/ MarkFailed(j), j # i
      PROVE  status'[i] = status[i] /\ pc'[i] = pc[i]
  BY <1>2 DEF Start, MarkRunning, MarkSucceeded, MarkFailed, Exit, Types
<1>3. CASE status' = status
  <2>1. pc'[i] \in {"none", "gone"} \/ pc[i] \notin {"none", "gone"}
    <3>1. ASSUME SameJob(i) PROVE pc'[i] \in {"none", "gone"} \/ pc[i] \notin {"none", "gone"}
      BY <3>1 DEF SameJob
    <3>2. ASSUME NEW j \in Jobs, j # i, Start(j) \/ Execute(j) \/ Generate(j) PROVE SameJob(i)
      BY <3>2, OthersSame
    <3>3. ASSUME Operate \/ Restart PROVE SameJob(i)
      BY <3>3 DEF Operate, Restart, UpsertTargets, DeleteTarget, ReviewTargetCandidates, SameJob,
                  locals
    <3>4. CASE Crash
      BY <3>4 DEF Crash
    <3>5. ASSUME Start(i) PROVE FALSE
      BY <1>3, <3>5 DEF Start, Types
    <3>6. ASSUME Execute(i) \/ Generate(i) PROVE pc[i] \notin {"none", "gone"}
      BY <3>6 DEF Execute, MarkRunning, LoadJob, PrepareField, SelectRawValues,
         LoadExistingMappings, Recall, Generate, UpsertTargetCandidates, UpsertMappings,
         SelectKeyRange, WriteOutputPage, BuildRecords, UpsertRecords, MarkSucceeded, Fail,
         MarkFailed, Executing, CandidatesFirst
    <3> QED BY <3>1, <3>2, <3>3, <3>4, <3>5, <3>6 DEF Next
  <2> QED BY <1>3, <2>1 DEF Owned
<1> QED BY <1>1, <1>2, <1>3, TableChanges DEF Owned

\* Jobs see to what they were asked for, and rows are recorded after they are written.
THEOREM RequestInvariance == Spec => []RequestInv
<1>1. Init => RequestInv
  BY DEF Init, RequestInv, RecordedWritten, Owned, WithinRequest, InField, NoRecords
<1>2. ASSUME AlignInv, RequestInv, [Next]_vars PROVE RequestInv'
  <2>1. CASE UNCHANGED vars
    BY <1>2, <2>1 DEF vars, sqlite, postgres, locals, RequestInv, RecordedWritten, Owned,
       WithinRequest, InRange
  <2>2. CASE Next
    <3>1. Types /\ \A j \in Jobs : Own(j)
      BY <1>2, InvParts
    <3>2. Types' /\ Grows
      <4>1. \A j \in Jobs : pc[j] = "generate" => recalled[j].raw \in Raws
        BY <3>1, OwnTypes DEF Own, JobInv, BatchOpen
      <4> QED BY <2>2, <3>1, <4>1, TypesStep, GrowsStep
    <3>3. ASSUME NEW j \in Jobs PROVE Owned(j)' /\ WithinRequest(j)'
      BY <1>2, <2>2, <3>1, <3>2, <3>3, OwnedStep, WithinStep DEF RequestInv
    <3>4. RecordedWritten'
      <4> SUFFICES ASSUME NEW k \in Keys, rec'[k] # "none" PROVE out'[k] # Absent
        BY DEF RecordedWritten
      <4>1. \/ rec'[k] = rec[k]
            \/ \E j \in Jobs : k \in DOMAIN records[j]
        BY <2>2, TableChanges DEF UpsertRecords
      <4>2. out[k] # Absent
        BY <1>2, <4>1 DEF RequestInv, RecordedWritten, WithinRequest
      <4> QED BY <3>2, <4>2 DEF Grows
    <3> QED BY <3>3, <3>4 DEF RequestInv
  <2> QED BY <1>2, <2>1, <2>2
<1> QED BY <1>1, <1>2, AlignInvariance, PTL DEF Spec

---------------------------------------------------------------------------
(***************************************************************************)
(* Every step is one step of AlignmentPromise, or none.                    *)
(***************************************************************************)

\* What AlignmentPromise sees of the jobs and of the output table.
PhaseOf == [j \in Jobs |-> IF status[j] \in {"pending", "running"} THEN "active" ELSE status[j]]
WrittenRows == {k \in Keys : out[k] # Absent}
AskedValues(j) == UNION {ValuesIn(k) : k \in InRange(j)}

\* AlignmentPromise in the terms of this module.
LEMMA PromiseTerms ==
  /\ Promise!promiseVars = <<PhaseOf, candidate, mapping, WrittenRows, rec>>
  /\ \A j \in Jobs : Promise!Submit(j) <=>
       /\ PhaseOf[j] = "none" /\ PhaseOf' = [PhaseOf EXCEPT ![j] = "active"]
       /\ UNCHANGED <<candidate, mapping, WrittenRows, rec>>
  /\ \A j \in Jobs, v \in {"succeeded", "failed"} : Promise!End(j, v) <=>
       /\ PhaseOf[j] = "active"
       /\ v = "succeeded" /\ ~OnlyWaiting[j] =>
            \A k \in InRange(j) : k \in WrittenRows /\ rec[k] # "none"
       /\ PhaseOf' = [PhaseOf EXCEPT ![j] = v]
       /\ UNCHANGED <<candidate, mapping, WrittenRows, rec>>
<1>1. \A j \in Jobs : [i \in Jobs |-> InRange(i)][j] = InRange(j)
  OBVIOUS
<1> QED BY <1>1 DEF Promise!promiseVars, Promise!Submit, Promise!End, PhaseOf, WrittenRows

LEMMA PromiseWork ==
  ASSUME NEW j \in Jobs
  PROVE  /\ Promise!Work(j) <=>
              /\ PhaseOf[j] = "active"
              /\ \/ \E V \in SUBSET AskedValues(j) : Promise!Enqueue(V) \/ Promise!Generate(V)
                 \/ \E K \in SUBSET InRange(j) : Promise!Write(K) \/ Promise!Record(K)
<1>1. [i \in Jobs |-> InRange(i)][j] = InRange(j) /\ InRange(j) \subseteq Keys
  BY DEF InRange
<1>2. UNION {[row \in Keys |-> ValuesIn(row)][k] : k \in [i \in Jobs |-> InRange(i)][j]} = AskedValues(j)
  BY <1>1 DEF AskedValues
<1> QED BY <1>1, <1>2 DEF Promise!Work, PhaseOf

LEMMA BatchAsked ==
  ASSUME Types, NEW j \in Jobs, pc[j] \in InField, WithinRequest(j), NEW g \in pending[j]
  PROVE  <<TargetSet(j), g.raw>> \in AskedValues(j)
<1>1. PICK k \in InRange(j) : RawOf[field[j]][k] = g.raw
  BY DEF WithinRequest
<1>2. g.raw # Blank /\ field[j] \in Fields
  BY OwnTypes, SourceAssumption DEF Generated, Types
<1>3. <<TargetSet(j), g.raw>> \in ValuesIn(k)
  BY <1>1, <1>2 DEF ValuesIn, TargetSet
<1> QED BY <1>3 DEF AskedValues

LEMMA SameTerms ==
  /\ status' = status => PhaseOf' = PhaseOf
  /\ out' = out => WrittenRows' = WrittenRows
BY DEF PhaseOf, WrittenRows

LEMMA ActivePhase ==
  ASSUME NEW j \in Jobs, Owned(j), pc[j] \notin {"none", "gone"}
  PROVE  PhaseOf[j] = "active" /\ status[j] \in {"pending", "running"}
BY DEF Owned, PhaseOf

LEMMA CandidatesPromise ==
  ASSUME Types, NEW j \in Jobs, Owned(j), WithinRequest(j), UpsertTargetCandidates(j)
  PROVE  Promise!Work(j)
<1> DEFINE V == {x \in Values : /\ x[1] = TargetSet(j)
                                /\ [raw |-> x[2], result |-> Needs] \in pending[j]
                                /\ candidate[x] = "none"}
<1>1. /\ pc[j] = "flush1"
      /\ UNCHANGED <<status, mapping, out, rec>>
  BY DEF UpsertTargetCandidates, At, CandidatesFirst, sqlite
<1>2. V \subseteq AskedValues(j)
  <2> SUFFICES ASSUME NEW x \in V PROVE x \in AskedValues(j)
    OBVIOUS
  <2>1. x = <<TargetSet(j), x[2]>>
    BY DEF Values
  <2>2. [raw |-> x[2], result |-> Needs] \in pending[j]
    OBVIOUS
  <2>3. <<TargetSet(j), x[2]>> \in AskedValues(j)
    BY <1>1, <2>2, BatchAsked DEF InField
  <2> QED BY <2>1, <2>3
<1>3. candidate' = [x \in Values |-> IF x \in V THEN "pending" ELSE candidate[x]]
  BY DEF UpsertTargetCandidates, MergedCandidate
<1>4. Promise!Enqueue(V)
  BY <1>1, <1>3, SameTerms DEF Promise!Enqueue, PhaseOf, WrittenRows
<1>5. PhaseOf[j] = "active"
  BY <1>1, ActivePhase
<1> HIDE DEF V
<1> QED BY <1>2, <1>4, <1>5, PromiseWork

LEMMA MappingsPromise ==
  ASSUME Types, NEW j \in Jobs, Own(j), ResolvedIsDecided, Owned(j), WithinRequest(j),
         UpsertMappings(j)
  PROVE  Promise!Work(j)
<1> DEFINE V == {x \in Values : /\ x[1] = TargetSet(j) /\ \E g \in pending[j] : g.raw = x[2]
                                /\ mapping[x] = NoMapping}
<1>1. /\ pc[j] = "flush2"
      /\ UNCHANGED <<status, candidate, out, rec>>
  BY DEF UpsertMappings, At, CandidatesFirst, sqlite
<1>2. V \subseteq AskedValues(j)
  <2> SUFFICES ASSUME NEW x \in V PROVE x \in AskedValues(j)
    OBVIOUS
  <2>1. x = <<TargetSet(j), x[2]>>
    BY DEF Values
  <2>2. PICK g \in pending[j] : g.raw = x[2]
    OBVIOUS
  <2>3. <<TargetSet(j), g.raw>> \in AskedValues(j)
    BY <1>1, BatchAsked DEF InField
  <2> QED BY <2>1, <2>2, <2>3
<1>3. \A x \in Values \ V : mapping'[x] = mapping[x]
  BY NewMappings
<1>4. mapping' = [x \in Values |-> mapping'[x]] /\ DOMAIN mapping = Values
  BY DEF UpsertMappings, Types
<1>5. mapping' = [x \in Values |-> IF x \in V THEN mapping'[x] ELSE mapping[x]]
  BY <1>3, <1>4
<1>6. ASSUME NEW x \in V
      PROVE  /\ mapping[x] = NoMapping
             /\ mapping'[x] \in Decided \/ (mapping'[x] = Needs /\ candidate[x] = "pending")
  <2>1. x \in Values /\ mapping[x] = NoMapping /\ mapping'[x] # NoMapping
    BY NewMappings
  <2>2. PICK g \in pending[j] : g.raw = x[2] /\ mapping'[x] = g.result
    BY <2>1, NewMappings
  <2>3. g.result \in Labels \cup {Unknown, Needs}
    BY OwnTypes DEF Generated
  <2>4. CASE g.result = Needs
    <3>1. x = <<TargetSet(j), g.raw>>
      BY <2>2 DEF Values
    <3>2. candidate[x] # "none"
      BY <1>1, <2>4, <3>1 DEF Own, JobInv, BatchQueued
    <3>3. candidate[x] # "resolved"
      BY <2>1, MappingAssumption DEF ResolvedIsDecided, Decided
    <3> QED BY <2>1, <2>2, <2>4, <3>2, <3>3 DEF Types
  <2> QED BY <2>1, <2>2, <2>3, <2>4 DEF Decided
<1> HIDE DEF V
<1>7. Promise!Generate(V)
  BY <1>1, <1>5, <1>6, SameTerms DEF Promise!Generate, PhaseOf, WrittenRows
<1>8. PhaseOf[j] = "active"
  BY <1>1, ActivePhase
<1> QED BY <1>2, <1>7, <1>8, PromiseWork

LEMMA CompleteRow ==
  ASSUME NEW k \in Keys
  PROVE  /\ (\A f \in Fields : Mapped(f, k)) => Promise!Complete(k)
         /\ (\A f \in Fields : IsDecided(f, k)) => Promise!Finished(k)
<1>1. [i \in Keys |-> ValuesIn(i)][k] = ValuesIn(k)
  OBVIOUS
<1> QED BY <1>1 DEF Promise!Complete, Promise!Finished, ValuesIn, Mapped, IsDecided, MappingOf

LEMMA WritePromise ==
  ASSUME Types, NEW j \in Jobs, Own(j), RecordedMapped, Owned(j), WriteOutputPage(j)
  PROVE  Promise!Work(j)
<1>1. PICK K \in SUBSET Wanted(j) :
        out' = [k \in Keys |-> IF k \in K THEN [f \in Fields |-> Aligned(f, k)] ELSE out[k]]
  <2> DEFINE K == {k \in Wanted(j) : /\ pages[j].first <= k
                                     /\ k <= PageEnd(pages[j].first, pages[j].last)}
  <2>1. out' = [k \in Keys |-> IF k \in K THEN [f \in Fields |-> Aligned(f, k)] ELSE out[k]]
    BY DEF WriteOutputPage
  <2> QED BY <2>1
<1>2. /\ pc[j] = "write"
      /\ UNCHANGED <<status, candidate, mapping, rec>>
  BY DEF WriteOutputPage, At, sqlite
<1>3. K \subseteq Keys /\ K \subseteq InRange(j)
  BY DEF Wanted, InRange
<1>4. WrittenRows' = WrittenRows \cup K
  BY <1>1, <1>3, RowIsNotAbsent DEF WrittenRows
<1>5. \A k \in K : Promise!Complete(k)
  BY <1>2, <1>3, WantedMapped, CompleteRow DEF InOutput
<1>6. Promise!Write(K)
  BY <1>2, <1>4, <1>5, SameTerms DEF Promise!Write, PhaseOf, WrittenRows
<1>7. PhaseOf[j] = "active"
  BY <1>2, ActivePhase
<1> QED BY <1>3, <1>6, <1>7, PromiseWork

LEMMA RecordPromise ==
  ASSUME Types, NEW j \in Jobs, Own(j), Owned(j), WithinRequest(j), UpsertRecords(j)
  PROVE  Promise!Work(j)
<1>1. PICK K \in SUBSET DOMAIN records[j] :
        rec' = [k \in Keys |-> IF k \in K THEN records[j][k] ELSE rec[k]]
  BY DEF UpsertRecords
<1>2. /\ pc[j] = "record"
      /\ UNCHANGED <<status, candidate, mapping, out>>
  BY DEF UpsertRecords, At, sqlite
<1>3. K \subseteq Keys /\ K \subseteq InRange(j) /\ K \subseteq WrittenRows
  BY OwnTypes DEF WithinRequest, WrittenRows
<1>4. ASSUME NEW k \in K
      PROVE  /\ k \in WrittenRows /\ Promise!Complete(k)
             /\ rec'[k] = "waiting" \/ (rec'[k] = "succeeded" /\ Promise!Finished(k))
  <2>1. k \in Keys /\ rec'[k] = records[j][k] /\ records[j][k] \in {"succeeded", "waiting"}
    BY <1>1, <1>3, OwnTypes
  <2>2. \A f \in Fields : Mapped(f, k) /\ (records[j][k] = "succeeded" => IsDecided(f, k))
    BY DEF Own, JobInv, RecordsHonest
  <2> QED BY <1>3, <2>1, <2>2, CompleteRow
<1>5. rec' = [k \in Keys |-> IF k \in K THEN rec'[k] ELSE rec[k]]
  BY <1>1
<1>6. Promise!Record(K)
  BY <1>2, <1>4, <1>5, SameTerms DEF Promise!Record, PhaseOf, WrittenRows
<1>7. PhaseOf[j] = "active"
  BY <1>2, ActivePhase
<1> QED BY <1>3, <1>6, <1>7, PromiseWork

LEMMA StatusPromise ==
  ASSUME Types, NEW j \in Jobs, Own(j), Owned(j),
         Start(j) \/ MarkRunning(j) \/ MarkSucceeded(j) \/ MarkFailed(j)
  PROVE  \/ UNCHANGED <<PhaseOf, candidate, mapping, WrittenRows, rec>>
         \/ Promise!Submit(j) \/ Promise!End(j, "succeeded") \/ Promise!End(j, "failed")
<1> USE DEF At, postgres
<1>1. UNCHANGED <<candidate, mapping, WrittenRows, rec>>
  BY SameTerms DEF Start, MarkRunning, MarkSucceeded, MarkFailed
<1>2. CASE status' = status
  BY <1>1, <1>2, SameTerms
<1>3. CASE Start(j)
  <2>1. PhaseOf[j] = "none" /\ PhaseOf' = [PhaseOf EXCEPT ![j] = "active"]
    BY <1>3 DEF Start, PhaseOf, Types
  <2> QED BY <1>1, <2>1, PromiseTerms
<1>4. CASE MarkRunning(j) /\ status' # status
  <2>1. status[j] \in {"pending", "running"}
    BY <1>4, ActivePhase DEF MarkRunning
  <2>2. PhaseOf' = PhaseOf
    BY <1>4, <2>1 DEF MarkRunning, PhaseOf, Types
  <2> QED BY <1>1, <2>2
<1>5. CASE MarkSucceeded(j)
  <2>1. pc[j] = "finish" /\ PhaseOf[j] = "active"
    BY <1>5, ActivePhase DEF MarkSucceeded
  <2>2. PhaseOf' = [PhaseOf EXCEPT ![j] = "succeeded"]
    BY <1>5 DEF MarkSucceeded, PhaseOf, Types
  <2>3. ~OnlyWaiting[j] => \A k \in InRange(j) : k \in WrittenRows /\ rec[k] # "none"
    BY <2>1 DEF Own, JobInv, WrittenSoFar, WrittenRows, InRange
  <2> QED BY <1>1, <2>1, <2>2, <2>3, PromiseTerms
<1>6. CASE MarkFailed(j) /\ status' # status
  <2>1. PhaseOf[j] = "active"
    BY <1>6, ActivePhase DEF MarkFailed
  <2>2. PhaseOf' = [PhaseOf EXCEPT ![j] = "failed"]
    BY <1>6 DEF MarkFailed, PhaseOf, Types
  <2> QED BY <1>1, <2>1, <2>2, PromiseTerms
<1> QED BY <1>2, <1>3, <1>4, <1>5, <1>6

LEMMA ReviewPromise ==
  ASSUME Types, NEW s \in Sets, ReviewTargetCandidates(s)
  PROVE  \E V \in SUBSET Values : Promise!Review(V)
<1>1. PICK V \in (SUBSET Candidates(s)) \ {{}} :
        \E D \in [V -> Resolutions] :
          /\ mapping' = [y \in Values |-> IF y \in V THEN D[y][2] ELSE mapping[y]]
          /\ candidate' = [y \in Values |-> IF y \in V THEN "resolved" ELSE candidate[y]]
  BY Zenon DEF ReviewTargetCandidates
<1>2. PICK D \in [V -> Resolutions] :
        mapping' = [y \in Values |-> IF y \in V THEN D[y][2] ELSE mapping[y]]
  BY <1>1
<1>3. \A r \in Resolutions : r[2] \in Decided
  BY DEF Resolutions, Decided
<1>4. V \subseteq Values /\ \A x \in V : candidate[x] # "none" /\ mapping'[x] \in Decided
  BY <1>1, <1>2, <1>3 DEF Candidates
<1>5. mapping' = [x \in Values |-> IF x \in V THEN mapping'[x] ELSE mapping[x]]
  BY <1>2
<1>6. UNCHANGED <<PhaseOf, WrittenRows, rec>>
  BY SameTerms DEF ReviewTargetCandidates, sqlite
<1>7. Promise!Review(V)
  BY <1>1, <1>4, <1>5, <1>6 DEF Promise!Review, PhaseOf, WrittenRows
<1> QED BY <1>4, <1>7

LEMMA PromiseStep ==
  ASSUME AlignInv, RequestInv, [Next]_vars
  PROVE  [Promise!PromiseNext]_(Promise!promiseVars)
<1>1. /\ Types /\ ResolvedIsDecided /\ RecordedMapped
      /\ \A j \in Jobs : Own(j) /\ Owned(j) /\ WithinRequest(j)
  BY InvParts DEF RequestInv
<1>2. UNCHANGED <<PhaseOf, candidate, mapping, WrittenRows, rec>>
        => UNCHANGED (Promise!promiseVars)
  BY DEF Promise!promiseVars, PhaseOf, WrittenRows
<1>3. UNCHANGED <<status, candidate, mapping, out, rec>>
        => UNCHANGED <<PhaseOf, candidate, mapping, WrittenRows, rec>>
  BY SameTerms
<1>4. ASSUME NEW j \in Jobs, Start(j) \/ Execute(j) \/ Generate(j)
      PROVE  \/ UNCHANGED <<PhaseOf, candidate, mapping, WrittenRows, rec>>
             \/ Promise!Submit(j) \/ Promise!Work(j)
             \/ Promise!End(j, "succeeded") \/ Promise!End(j, "failed")
  <2>1. CASE Start(j) \/ MarkRunning(j) \/ MarkSucceeded(j) \/ MarkFailed(j)
    BY <1>1, <2>1, StatusPromise
  <2>2. CASE UpsertTargetCandidates(j)
    BY <1>1, <2>2, CandidatesPromise
  <2>3. CASE UpsertMappings(j)
    BY <1>1, <2>3, MappingsPromise
  <2>4. CASE WriteOutputPage(j)
    BY <1>1, <2>4, WritePromise
  <2>5. CASE UpsertRecords(j)
    BY <1>1, <2>5, RecordPromise
  <2>6. CASE \/ LoadJob(j) \/ PrepareField(j) \/ SelectRawValues(j) \/ LoadExistingMappings(j)
             \/ Recall(j) \/ Generate(j) \/ SelectKeyRange(j) \/ BuildRecords(j) \/ Fail(j)
    <3>1. UNCHANGED <<status, candidate, mapping, out, rec>>
      BY <2>6 DEF LoadJob, PrepareField, SelectRawValues, LoadExistingMappings, Recall,
         Generate, SelectKeyRange, BuildRecords, Fail, sqlite, postgres
    <3> QED BY <1>3, <3>1
  <2> QED BY <1>4, <2>1, <2>2, <2>3, <2>4, <2>5, <2>6 DEF Execute
<1>5. ASSUME Operate
      PROVE  \/ UNCHANGED <<PhaseOf, candidate, mapping, WrittenRows, rec>>
             \/ \E V \in SUBSET Values : Promise!Review(V)
  <2>1. ASSUME ~ \E s \in Sets : ReviewTargetCandidates(s)
        PROVE  UNCHANGED <<status, candidate, mapping, out, rec>>
    BY <1>5, <2>1 DEF Operate, UpsertTargets, DeleteTarget, sqlite
  <2> QED BY <1>1, <1>3, <2>1, ReviewPromise
<1>6. Crash \/ Restart \/ UNCHANGED vars => UNCHANGED <<status, candidate, mapping, out, rec>>
  BY DEF Crash, Restart, vars, sqlite, postgres
<1>7. CASE Next
  BY <1>2, <1>3, <1>4, <1>5, <1>6, <1>7 DEF Next, Promise!PromiseNext
<1> QED BY <1>2, <1>3, <1>6, <1>7

\* The jobs and the reviews keep the promise of AlignmentPromise.
THEOREM PromiseKeptHolds == Spec => PromiseKept
<1>1. Init => Promise!PromiseInit
  <2> SUFFICES ASSUME Init PROVE Promise!PromiseInit
    OBVIOUS
  <2>1. PhaseOf = [j \in Jobs |-> "none"] /\ WrittenRows = {}
    BY DEF Init, PhaseOf, WrittenRows
  <2> QED BY <2>1 DEF Promise!PromiseInit, PhaseOf, WrittenRows, Init
<1>2. AlignInv /\ RequestInv /\ [Next]_vars => [Promise!PromiseNext]_(Promise!promiseVars)
  BY PromiseStep
<1> QED BY <1>1, <1>2, AlignInvariance, RequestInvariance, PTL
        DEF Spec, PromiseKept, Promise!PromiseSpec

---------------------------------------------------------------------------
(***************************************************************************)
(* The steps of a goroutine run out.                                       *)
(***************************************************************************)

LEMMA PartsOrder ==
  /\ PartsLeft["none"] = 0 /\ PartsLeft["gone"] = 0 /\ PartsLeft["fail"] = 1
  /\ PartsLeft["finish"] = 2 /\ PartsLeft["record"] = 3 /\ PartsLeft["build"] = 4
  /\ PartsLeft["write"] = 5 /\ PartsLeft["range"] = 6 /\ PartsLeft["flush2"] = 7
  /\ PartsLeft["flush1"] = 7 /\ PartsLeft["generate"] = 7 /\ PartsLeft["recall"] = 7
  /\ PartsLeft["existing"] = 7 /\ PartsLeft["select"] = 7 /\ PartsLeft["prepare"] = 8
  /\ PartsLeft["load"] = 9 /\ PartsLeft["start"] = 10
BY DEF PartsLeft

LEMMA FieldOrder ==
  /\ StagesLeft["select"] = 2 /\ StagesLeft["existing"] = 1
  /\ \A s \in {"recall", "generate", "flush1", "flush2"} : StagesLeft[s] = 0
  /\ CallsLeft["recall"] = 3 /\ CallsLeft["generate"] = 2 /\ CallsLeft["flush1"] = 1
  /\ CallsLeft["flush2"] = 0
BY DEF StagesLeft, CallsLeft, Stages

LEMMA NextFieldCloser ==
  ASSUME Types, NEW j \in Jobs, NextField(j), pc[j] \in InFields
  PROVE  Closer(j)
<1>1. PartsLeft[pc[j]] = 7
  BY PartsOrder DEF InFields, InField
<1>2. CASE field[j] < NumFields
  <2>1. field[j] \in Int /\ field'[j] = field[j] + 1 /\ pc'[j] = "select"
    BY <1>2 DEF NextField, Types, Fields
  <2>2. field[j] < field'[j] /\ field'[j] <= NumFields
    BY <1>2, <2>1, FieldInRange
  <2> QED BY <1>1, <2>1, <2>2, PartsOrder DEF Closer
<1>3. CASE ~(field[j] < NumFields)
  <2>1. pc'[j] = "range"
    BY <1>3 DEF NextField, Types
  <2> QED BY <1>1, <2>1, PartsOrder DEF Closer
<1> QED BY <1>2, <1>3

\* Within a field the parts and the field stay.
LEMMA InFieldCloser ==
  ASSUME NEW j \in Jobs, pc[j] \in InFields, pc'[j] \in InFields, field'[j] = field[j],
         CloserInField(j)
  PROVE  Closer(j)
BY PartsOrder DEF Closer, InFields, InField

LEMMA AddPendingCloser ==
  ASSUME Types, NEW j \in Jobs, pc[j] \in {"recall", "generate"}, field'[j] = field[j],
         NEW v \in missing[j], NEW r, AddPending(j, v, r)
  PROVE  Closer(j)
<1>1. missing'[j] = missing[j] \ {v} /\ pc'[j] \in {"flush1", "recall"}
  BY DEF AddPending, Goto, Types
<1>2. Fewer(missing'[j], missing[j])
  BY <1>1 DEF Fewer
<1>3. StagesLeft[pc'[j]] = StagesLeft[pc[j]]
  BY <1>1, FieldOrder
<1> QED BY <1>1, <1>2, <1>3, InFieldCloser DEF CloserInField, InFields, InField

\* A flush has something to send, and a job that is not under way has no memory.
Flushing(j) == pc[j] \in {"flush1", "flush2"} => pending[j] # {}
Fresh(j) ==
  pc[j] \in {"none", "start", "gone"} =>
    /\ field[j] = 1 /\ missing[j] = {} /\ recalled[j] = Nothing /\ pending[j] = {}
    /\ pages[j] = NoPages /\ records[j] = NoRecords

LEMMA ValuesCloser ==
  ASSUME Types, NEW j \in Jobs, Own(j), Flushing(j),
         \/ SelectRawValues(j) \/ LoadExistingMappings(j) \/ Recall(j) \/ Generate(j)
         \/ UpsertTargetCandidates(j) \/ UpsertMappings(j)
  PROVE  Closer(j)
<1> USE DEF At, Goto
<1>1. CASE SelectRawValues(j)
  <2>1. pc[j] = "select" /\ (NextField(j) \/ (pc'[j] = "existing" /\ field' = field))
    BY <1>1 DEF SelectRawValues, Types
  <2>2. CASE NextField(j)
    BY <2>1, <2>2, NextFieldCloser DEF InFields
  <2>3. CASE pc'[j] = "existing" /\ field' = field
    <3>1. CloserInField(j)
      BY <2>1, <2>3, FieldOrder DEF CloserInField
    <3> QED BY <2>1, <2>3, <3>1, InFieldCloser DEF InFields, InField
  <2> QED BY <2>1, <2>2, <2>3
<1>2. CASE LoadExistingMappings(j)
  <2>1. pc[j] = "existing" /\ (NextField(j) \/ (pc'[j] = "recall" /\ field' = field))
    BY <1>2 DEF LoadExistingMappings, NextRaw, Types
  <2>2. CASE NextField(j)
    BY <2>1, <2>2, NextFieldCloser DEF InFields, InField
  <2>3. CASE pc'[j] = "recall" /\ field' = field
    <3>1. CloserInField(j)
      BY <2>1, <2>3, FieldOrder DEF CloserInField
    <3> QED BY <2>1, <2>3, <3>1, InFieldCloser DEF InFields, InField
  <2> QED BY <2>1, <2>2, <2>3
<1>3. CASE Recall(j)
  <2>1. pc[j] = "recall" /\ field' = field
    BY <1>3 DEF Recall
  <2>2. PICK v \in missing[j] :
          AddPending(j, v, Needs) \/ (pc'[j] = "generate" /\ UNCHANGED <<missing, pending>>)
    BY <1>3 DEF Recall, Types
  <2>3. CASE AddPending(j, v, Needs)
    BY <2>1, <2>3, AddPendingCloser
  <2>4. CASE pc'[j] = "generate" /\ UNCHANGED <<missing, pending>>
    <3>1. CloserInField(j)
      BY <2>1, <2>4, FieldOrder DEF CloserInField
    <3> QED BY <2>1, <2>4, <3>1, InFieldCloser DEF InFields, InField
  <2> QED BY <2>2, <2>3, <2>4
<1>4. CASE Generate(j)
  <2>1. pc[j] = "generate" /\ field' = field
    BY <1>4 DEF Generate
  <2>2. recalled[j].raw \in missing[j]
    BY <2>1 DEF Own, JobInv, BatchOpen
  <2>3. CASE \E r : AddPending(j, recalled[j].raw, r)
    BY <2>1, <2>2, <2>3, AddPendingCloser
  <2>4. CASE Goto(j, AfterError)
    <3>1. pc'[j] = "fail"
      BY <2>4 DEF AfterError, Types
    <3> QED BY <2>1, <3>1, PartsOrder DEF Closer
  <2> QED BY <1>4, <2>3, <2>4 DEF Generate
<1>5. CASE UpsertTargetCandidates(j)
  <2>1. /\ pc[j] = "flush1" /\ pc'[j] = "flush2"
        /\ UNCHANGED <<field, pending, missing>>
    BY <1>5 DEF UpsertTargetCandidates, CandidatesFirst, AfterFlush, Types
  <2>2. CloserInField(j)
    BY <2>1, FieldOrder DEF CloserInField
  <2> QED BY <2>1, <2>2, InFieldCloser DEF InFields, InField
<1>6. CASE UpsertMappings(j)
  <2>1. /\ pc[j] = "flush2" /\ missing' = missing /\ pending'[j] = {}
        /\ NextField(j) \/ (pc'[j] = "recall" /\ field' = field)
    BY <1>6 DEF UpsertMappings, CandidatesFirst, AfterFlush, NextRaw, Types
  <2>2. CASE NextField(j)
    BY <2>1, <2>2, NextFieldCloser DEF InFields, InField
  <2>3. CASE pc'[j] = "recall" /\ field' = field
    <3>1. Fewer(pending'[j], pending[j])
      BY <2>1 DEF Fewer, Flushing
    <3>2. CloserInField(j)
      BY <2>1, <2>3, <3>1, FieldOrder DEF CloserInField
    <3> QED BY <2>1, <2>3, <3>2, InFieldCloser DEF InFields, InField
  <2> QED BY <2>1, <2>2, <2>3
<1> QED BY <1>1, <1>2, <1>3, <1>4, <1>5, <1>6

\* The next page starts behind this one, and no later than the last key.
LEMMA PageCloser ==
  ASSUME Types, NEW j \in Jobs, WriteOutputPage(j)
  PROVE  Closer(j)
<1> DEFINE first == pages[j].first
           last  == pages[j].last
           end   == PageEnd(first, last)
<1>1. /\ pc[j] = "write" /\ field' = field
      /\ IF end = last THEN pc'[j] = "build"
                       ELSE /\ pages' = [pages EXCEPT ![j].first = NextPage(end)]
                            /\ pc' = pc
  BY DEF WriteOutputPage, At, Goto, Types
<1>2. CASE end = last
  BY <1>1, <1>2, PartsOrder DEF Closer
<1>3. CASE end # last
  <2>1. first \in Int /\ last \in Int /\ PageSize \in Nat \ {0}
    BY OwnTypes, JobsAssumption
  <2>2. first < end + 1 /\ end + 1 <= last
    <3> HIDE DEF first, last
    <3> QED BY <1>3, <2>1 DEF PageEnd
  <2>3. pages'[j].first = end + 1 /\ pages'[j].last = last
    <3> HIDE DEF end
    <3> QED BY <1>1, <1>3 DEF Types, NextPage
  <2> QED BY <1>1, <1>3, <2>2, <2>3 DEF Closer
<1> QED BY <1>2, <1>3

LEMMA OutputCloser ==
  ASSUME Types, NEW j \in Jobs,
         SelectKeyRange(j) \/ WriteOutputPage(j) \/ BuildRecords(j) \/ UpsertRecords(j)
  PROVE  Closer(j)
<1> USE DEF At, Goto
<1>1. CASE SelectKeyRange(j)
  <2>1. pc[j] = "range" /\ pc'[j] \in {"build", "write"}
    BY <1>1 DEF SelectKeyRange, Types
  <2> QED BY <2>1, PartsOrder DEF Closer
<1>2. CASE WriteOutputPage(j)
  BY <1>2, PageCloser
<1>3. CASE BuildRecords(j)
  <2>1. pc[j] = "build" /\ pc'[j] = "record"
    BY <1>3 DEF BuildRecords, Types
  <2> QED BY <2>1, PartsOrder DEF Closer
<1>4. CASE UpsertRecords(j)
  <2> DEFINE K == DOMAIN records[j]
  <2>1. PICK batch \in SUBSET K :
          /\ Cardinality(batch) = WriteBatchSize \/ batch = K
          /\ records' = [records EXCEPT ![j] = [k \in K \ batch |-> @[k]]]
          /\ Goto(j, IF batch = K THEN "finish" ELSE "record")
    BY <1>4 DEF UpsertRecords
  <2>2. pc[j] = "record" /\ field' = field
    BY <1>4 DEF UpsertRecords
  <2>3. CASE batch = K
    <3>1. pc'[j] = "finish"
      BY <2>1, <2>3 DEF Types
    <3> QED BY <2>2, <3>1, PartsOrder DEF Closer
  <2>4. CASE batch # K
    <3>1. pc'[j] = "record"
      BY <2>1, <2>4 DEF Types
    <3>2. DOMAIN records'[j] = K \ batch
      BY <2>1 DEF Types
    <3>3. batch # {}
      BY <2>1, <2>4, FS_EmptySet, JobsAssumption
    <3>4. Fewer(DOMAIN records'[j], K)
      BY <3>2, <3>3 DEF Fewer
    <3> HIDE DEF K
    <3> QED BY <2>2, <3>1, <3>4 DEF Closer, K
  <2> QED BY <2>3, <2>4
<1> QED BY <1>1, <1>2, <1>3, <1>4

LEMMA FrameCloser ==
  ASSUME Types, NEW j \in Jobs,
         MarkRunning(j) \/ LoadJob(j) \/ PrepareField(j) \/ MarkSucceeded(j) \/ Fail(j) \/ MarkFailed(j)
  PROVE  Closer(j)
<1> USE DEF At, Goto
<1>1. CASE MarkRunning(j) \/ LoadJob(j)
  <2>1. \/ pc[j] = "start" /\ pc'[j] \in {"load", "gone"}
        \/ pc[j] = "load" /\ pc'[j] = "prepare"
    BY <1>1 DEF MarkRunning, LoadJob, Types
  <2> QED BY <2>1, PartsOrder DEF Closer
<1>2. CASE PrepareField(j)
  <2>1. /\ pc[j] = "prepare"
        /\ \/ pc'[j] \in {"fail", "select"}
           \/ pc' = pc /\ field[j] < NumFields /\ field'[j] = field[j] + 1
    BY <1>2 DEF PrepareField, AfterError, Types
  <2>2. field[j] \in Int /\ NumFields \in Int
    BY FieldInRange DEF Types, Fields
  <2>3. CASE pc'[j] \in {"fail", "select"}
    BY <2>1, <2>3, PartsOrder DEF Closer
  <2>4. CASE pc' = pc /\ field[j] < NumFields /\ field'[j] = field[j] + 1
    <3>1. field[j] < field'[j] /\ field'[j] <= NumFields
      BY <2>2, <2>4
    <3> QED BY <2>4, <3>1 DEF Closer
  <2> QED BY <2>1, <2>3, <2>4
<1>3. CASE MarkSucceeded(j) \/ MarkFailed(j)
  <2>1. pc[j] \in {"finish", "fail"} /\ pc'[j] = "gone"
    BY <1>3 DEF MarkSucceeded, MarkFailed, Exit, Types
  <2> QED BY <2>1, PartsOrder DEF Closer
<1>4. CASE Fail(j)
  <2>1. pc[j] \in Executing /\ pc'[j] = "fail"
    BY <1>4 DEF Fail, AfterError, Types
  <2>2. 1 < PartsLeft[pc[j]]
    BY <2>1, PartsOrder DEF Executing, Stages
  <2> QED BY <2>1, <2>2, PartsOrder DEF Closer
<1> QED BY <1>1, <1>2, <1>3, <1>4

LEMMA MemoryStep ==
  ASSUME Types, Next, NEW i \in Jobs, Flushing(i), Fresh(i)
  PROVE  Flushing(i)' /\ Fresh(i)'
<1> USE DEF At, Goto
<1>1. CASE SameJob(i)
  BY <1>1 DEF SameJob, Flushing, Fresh
<1>2. ASSUME NEW j \in Jobs, j # i, Start(j) \/ Execute(j) \/ Generate(j) PROVE SameJob(i)
  BY <1>2, OthersSame
<1>3. ASSUME Operate \/ Restart PROVE SameJob(i)
  BY <1>3 DEF Operate, Restart, UpsertTargets, DeleteTarget, ReviewTargetCandidates, SameJob,
              locals
<1>4. CASE Crash
  BY <1>4 DEF Crash, Flushing, Fresh
<1>5. CASE Start(i) \/ MarkRunning(i)
  BY <1>5 DEF Start, MarkRunning, locals, Types, Flushing, Fresh
<1>6. CASE MarkSucceeded(i) \/ MarkFailed(i)
  BY <1>6 DEF MarkSucceeded, MarkFailed, Exit, Types, Flushing, Fresh
<1>7. CASE Recall(i) \/ Generate(i)
  <2>1. CASE \E v, r : AddPending(i, v, r)
    <3>1. PICK v, r : AddPending(i, v, r)
      BY <2>1
    <3>2. pending'[i] = pending[i] \cup {[raw |-> v, result |-> r]}
      BY <3>1 DEF AddPending, Types
    <3>3. pending'[i] # {}
      BY <3>2
    <3>4. pc'[i] \in {"flush1", "recall"}
      BY <3>1 DEF AddPending, Types
    <3> QED BY <3>3, <3>4 DEF Flushing, Fresh
  <2>2. CASE pc'[i] \in {"generate", "fail"}
    BY <2>2 DEF Flushing, Fresh
  <2>3. (\E v, r : AddPending(i, v, r)) \/ pc'[i] \in {"generate", "fail"}
    BY <1>7 DEF Recall, Generate, AfterError, Types
  <2> QED BY <2>1, <2>2, <2>3
<1>8. CASE UpsertTargetCandidates(i)
  <2>1. pc[i] = "flush1" /\ pc'[i] = "flush2" /\ pending' = pending
    BY <1>8 DEF UpsertTargetCandidates, CandidatesFirst, AfterFlush, Types
  <2> QED BY <2>1 DEF Flushing, Fresh
<1>9. CASE \/ LoadJob(i) \/ PrepareField(i) \/ SelectRawValues(i) \/ LoadExistingMappings(i)
           \/ UpsertMappings(i) \/ SelectKeyRange(i) \/ WriteOutputPage(i) \/ BuildRecords(i)
           \/ UpsertRecords(i) \/ Fail(i)
  <2>1. pc'[i] \in {"prepare", "fail", "select", "range", "existing", "recall", "build",
                    "write", "record", "finish"}
    BY <1>9 DEF LoadJob, PrepareField, SelectRawValues, LoadExistingMappings, UpsertMappings,
       SelectKeyRange, WriteOutputPage, BuildRecords, UpsertRecords, Fail, AfterError,
       AfterFlush, NextRaw, NextField, CandidatesFirst, Types
  <2> QED BY <2>1 DEF Flushing, Fresh
<1> QED BY <1>1, <1>2, <1>3, <1>4, <1>5, <1>6, <1>7, <1>8, <1>9 DEF Next, Execute

\* No goroutine goes round in circles: fields, raw values, batches, pages and records
\* run out.
THEOREM StepsRunOutHolds == Spec => StepsRunOut
<1> DEFINE Inv == \A j \in Jobs : Flushing(j) /\ Fresh(j)
           Changes(j) == ~UNCHANGED <<pc[j], field[j], missing[j], recalled[j],
                                      pending[j], pages[j], records[j]>>
<1>1. Init => Inv
  BY DEF Init, Flushing, Fresh
<1>2. ASSUME AlignInv, Inv, [Next]_vars PROVE Inv'
  <2>1. CASE UNCHANGED vars
    BY <1>2, <2>1 DEF vars, locals, Flushing, Fresh
  <2>2. CASE Next
    BY <1>2, <2>2, InvParts, MemoryStep
  <2> QED BY <1>2, <2>1, <2>2
<1>3. ASSUME AlignInv, Inv, Next, NEW i \in Jobs,
             Execute(i) \/ Generate(i) \/ (pc[i] # "none" /\ Changes(i))
      PROVE  Closer(i)
  <2>1. Types /\ Own(i)
    BY <1>3, InvParts
  <2>3. CASE Execute(i) \/ Generate(i)
    BY <1>3, <2>1, <2>3, ValuesCloser, OutputCloser, FrameCloser DEF Execute
  <2> SUFFICES ASSUME pc[i] # "none", Changes(i) PROVE Closer(i)
    BY <1>3, <2>3
  <2>2. ASSUME SameJob(i) PROVE FALSE
    BY <2>2 DEF SameJob
  <2>4. CASE Start(i)
    BY <2>4 DEF Start, At
  <2>5. ASSUME NEW j \in Jobs, j # i, Start(j) \/ Execute(j) \/ Generate(j) PROVE SameJob(i)
    BY <2>1, <2>5, OthersSame
  <2>6. ASSUME Operate \/ Restart PROVE SameJob(i)
    BY <2>6 DEF Operate, Restart, UpsertTargets, DeleteTarget, ReviewTargetCandidates, SameJob,
                locals
  <2>7. CASE Crash
    <3>1. CASE pc[i] = "gone"
      <4>1. SameJob(i)
        BY <1>3, <2>7, <3>1 DEF Crash, Fresh, SameJob
      <4> QED BY <2>2, <4>1
    <3>2. CASE pc[i] # "gone"
      <4>1. pc'[i] = "gone" /\ pc[i] \in Stages \ {"none", "gone"}
        BY <1>3, <2>1, <2>7, <3>2 DEF Crash, Types
      <4>2. 0 < PartsLeft[pc[i]]
        BY <4>1, PartsOrder DEF Stages
      <4> QED BY <4>1, <4>2, PartsOrder DEF Closer
    <3> QED BY <3>1, <3>2
  <2> QED BY <1>3, <2>2, <2>3, <2>4, <2>5, <2>6, <2>7 DEF Next
<1>4. ASSUME AlignInv, Inv, [Next]_vars
      PROVE  [\A j \in Jobs :
                pc[j] # "none" /\
                  \/ ~UNCHANGED <<pc[j], field[j], missing[j], recalled[j], pending[j],
                                  pages[j], records[j]>>
                  \/ Execute(j) \/ Generate(j)
                => Closer(j)]_vars
  BY <1>3, <1>4
<1> QED BY <1>1, <1>2, <1>4, AlignInvariance, PTL DEF Spec, StepsRunOut
=============================================================================
