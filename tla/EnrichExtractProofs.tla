------------------------ MODULE EnrichExtractProofs ------------------------
(***************************************************************************)
(* Proofs about EnrichExtract, for every set of jobs, every finite set of  *)
(* keys, every page and batch size and any number of crashes.              *)
(***************************************************************************)
EXTENDS EnrichExtract, FiniteSetTheorems, TLAPS

USE DEF NoKey

---------------------------------------------------------------------------
(***************************************************************************)
(* Pages.                                                                  *)
(***************************************************************************)

\* A page holds candidate rows and leaves no gap: a candidate below a row of the
\* page is in the page (ORDER BY key LIMIT page_size).
LEMMA FirstRowsPrefix ==
  ASSUME NEW C \in SUBSET Keys, NEW q \in FirstRows(C), NEW k \in C, k < q
  PROVE  k \in FirstRows(C)
<1> DEFINE Below(y) == {x \in C : x < y}
<1>1. q \in C /\ q \in Nat /\ k \in Nat
  BY KeysAssumption DEF FirstRows
<1>2. IsFiniteSet(Below(q))
  BY KeysAssumption, FS_Subset, Below(q) \subseteq Keys
<1>3. Below(k) \subseteq Below(q)
  <2>1. \A x \in C : x \in Nat
    BY KeysAssumption
  <2>2. ASSUME NEW x \in C, x < k PROVE x < q
    BY <1>1, <2>1, <2>2
  <2> QED BY <2>2
<1>4. Cardinality(Below(k)) <= Cardinality(Below(q))
  BY <1>2, <1>3, FS_Subset
<1>5. /\ Cardinality(Below(k)) \in Nat
      /\ Cardinality(Below(q)) \in Nat
  BY <1>2, <1>3, FS_Subset, FS_CardinalityType
<1>6. Cardinality(Below(q)) < PageSize
  BY DEF FirstRows
<1>7. Cardinality(Below(k)) < PageSize
  BY <1>4, <1>5, <1>6, SizeAssumption
<1> QED BY <1>7 DEF FirstRows

LEMMA RequestedFinite ==
  ASSUME NEW j \in Jobs
  PROVE  Requested(j) \subseteq Keys /\ IsFiniteSet(Requested(j))
BY KeysAssumption, FS_Subset, Requested(j) \subseteq Keys DEF Requested

\* Every set of keys is finite and has a natural number of elements.
LEMMA KeySetFinite ==
  ASSUME NEW S \in SUBSET Keys
  PROVE  IsFiniteSet(S) /\ Cardinality(S) \in Nat
BY KeysAssumption, FS_Subset, FS_CardinalityType

LEMMA DisjointCardinality ==
  ASSUME NEW S \in SUBSET Keys, NEW T \in SUBSET Keys, S \cap T = {}
  PROVE  Cardinality(S \cup T) = Cardinality(S) + Cardinality(T)
<1>1. /\ IsFiniteSet(S) /\ Cardinality(S) \in Nat
      /\ IsFiniteSet(T) /\ Cardinality(T) \in Nat
  BY KeySetFinite
<1>2. Cardinality(S \cup T) = Cardinality(S) + Cardinality(T) - Cardinality(S \cap T)
  BY <1>1, FS_Union
<1>3. Cardinality(S \cap T) = 0
  BY FS_EmptySet
<1> QED BY <1>1, <1>2, <1>3

---------------------------------------------------------------------------
(***************************************************************************)
(* Type correctness.                                                       *)
(***************************************************************************)

\* Updating a function at one point keeps its type.
LEMMA ExceptType ==
  ASSUME NEW D, NEW R, NEW f \in [D -> R], NEW d \in D, NEW v \in R
  PROVE  [f EXCEPT ![d] = v] \in [D -> R]
OBVIOUS

LEMMA InitType == Init => TypeOK
<1> SUFFICES ASSUME Init PROVE TypeOK
  OBVIOUS
<1>1. /\ status \in [Jobs -> Statuses]
      /\ pc \in [Jobs -> Stages]
      /\ message \in [Jobs -> {"", "row errors", "all rows failed", "error"}]
      /\ rec \in [Keys -> {"none", "succeeded", "failed"}]
  BY DEF Init, Statuses, Stages
<1>2. out \in [Keys -> Jobs \cup {NoRow, OldRow}]
  BY DEF Init
<1>3. errs \in [Jobs -> [Keys -> Nat]]
  BY DEF Init
<1> QED BY <1>1, <1>2, <1>3 DEF Init, TypeOK

LEMMA InsertType ==
  ASSUME TypeOK, NEW j \in Jobs, NEW S \in SUBSET Keys, InsertRows(j, S)
  PROVE  /\ out' \in [Keys -> Jobs \cup {NoRow, OldRow}]
         /\ \A k \in Keys : out[k] # NoRow => out'[k] # NoRow
         /\ \A k \in Keys : out[k] \in Jobs => out'[k] \in Jobs
         /\ \A k \in S : RowDone(j, k)'
         /\ \A k \in Keys : out'[k] # out[k] =>
               k \in S /\ out'[k] = j /\ (out[k] = NoRow \/ Overwrite[j])
BY JobsAssumption DEF TypeOK, InsertRows, Inserted, RowDone

LEMMA ForgetType ==
  ASSUME TypeOK, NEW j \in Jobs, Forget(j)
  PROVE  /\ cursor' \in [Jobs -> Keys \cup {NoKey}]
         /\ page' \in [Jobs -> SUBSET Keys]
         /\ todo' \in [Jobs -> SUBSET Keys]
         /\ good' \in [Jobs -> SUBSET Keys]
         /\ bad' \in [Jobs -> SUBSET Keys]
BY DEF TypeOK, Forget

LEMMA ContinueType ==
  ASSUME TypeOK, NEW j \in Jobs, NEW rest \in SUBSET Keys, NEW next \in Stages,
         Continue(j, rest, next)
  PROVE  pc' \in [Jobs -> Stages] /\ todo' \in [Jobs -> SUBSET Keys]
<1>1. CASE rest = {}
  <2>1. page[j] \in SUBSET Keys
    BY DEF TypeOK
  <2>2. pc' = [pc EXCEPT ![j] = next] /\ todo' = [todo EXCEPT ![j] = page[j]]
    BY <1>1 DEF Continue, Goto
  <2> QED BY <2>1, <2>2 DEF TypeOK
<1>2. CASE rest # {}
  BY <1>2 DEF TypeOK, Continue, Goto
<1> QED BY <1>1, <1>2

LEMMA AbortType ==
  ASSUME TypeOK, NEW j \in Jobs, Abort(j) \/ Exit(j)
  PROVE  /\ pc' \in [Jobs -> Stages]
         /\ cursor' \in [Jobs -> Keys \cup {NoKey}]
         /\ page' \in [Jobs -> SUBSET Keys]
         /\ todo' \in [Jobs -> SUBSET Keys]
         /\ good' \in [Jobs -> SUBSET Keys]
         /\ bad' \in [Jobs -> SUBSET Keys]
<1>1. Forget(j)
  BY DEF Abort, Exit
<1>2. pc' \in [Jobs -> Stages]
  BY DEF Abort, Exit, Goto, TypeOK, Stages
<1> QED BY <1>1, <1>2, ForgetType

LEMMA TypeStep ==
  ASSUME TypeOK, [Next]_vars
  PROVE  TypeOK'
<1> USE DEF sqlite, jobRow, tables, memory, server
<1>1. CASE UNCHANGED vars
  BY <1>1 DEF vars, TypeOK
<1>2. ASSUME NEW j \in Jobs, Start(j) PROVE TypeOK'
  BY <1>2 DEF Start, TypeOK, Goto, Statuses, Stages
<1>3. ASSUME NEW j \in Jobs, MarkRunning(j) PROVE TypeOK'
  <2>1. CASE Exit(j)
    BY <1>3, <2>1, AbortType DEF MarkRunning, TypeOK, Statuses, Goto, Stages
  <2>2. CASE ~Exit(j)
    BY <1>3, <2>2 DEF MarkRunning, TypeOK, Statuses, Goto, Stages
  <2> QED BY <2>1, <2>2
<1>4. ASSUME NEW j \in Jobs, LoadJob(j) PROVE TypeOK'
  <2>1. CASE Abort(j)
    BY <1>4, <2>1, AbortType DEF LoadJob, TypeOK
  <2>2. CASE ~Abort(j)
    <3>1. cursor' \in [Jobs -> Keys \cup {NoKey}]
      BY <1>4, <2>2, ExceptType DEF LoadJob, TypeOK
    <3> QED BY <1>4, <2>2, <3>1 DEF LoadJob, TypeOK, Goto, Stages
  <2> QED BY <2>1, <2>2
<1>5. ASSUME NEW j \in Jobs, EnsureExecutionReady(j) PROVE TypeOK'
  <2>1. CASE Abort(j)
    BY <1>5, <2>1, AbortType DEF EnsureExecutionReady, TypeOK
  <2>2. CASE ~Abort(j)
    BY <1>5, <2>2 DEF EnsureExecutionReady, TypeOK, Goto, Stages
  <2> QED BY <2>1, <2>2
<1>6. ASSUME NEW j \in Jobs, SelectSourcePage(j) PROVE TypeOK'
  <2>1. CASE Abort(j)
    BY <1>6, <2>1, AbortType DEF SelectSourcePage, TypeOK
  <2>2. CASE ~Abort(j)
    <3>1. FirstRows(Candidates(j)) \in SUBSET Keys
      BY DEF FirstRows, Candidates
    <3> DEFINE rows == FirstRows(Candidates(j))
    <3>2. page' \in {page, [page EXCEPT ![j] = rows]}
      BY <1>6, <2>2 DEF SelectSourcePage, memory
    <3> HIDE DEF rows
    <3>3. page' \in [Jobs -> SUBSET Keys]
      BY <3>1, <3>2 DEF TypeOK, rows
    <3>4. pc' \in [Jobs -> Stages]
      <4>1. Goto(j, "finish") \/ Goto(j, "process")
        BY <1>6, <2>2 DEF SelectSourcePage
      <4> QED BY <4>1 DEF TypeOK, Goto, Stages
    <3>5. UNCHANGED <<sqlite, tables, server, cursor, todo, good, bad>>
      BY <1>6, <2>2 DEF SelectSourcePage, memory
    <3> QED BY <3>3, <3>4, <3>5 DEF TypeOK, sqlite, jobRow, tables, server
  <2> QED BY <2>1, <2>2
<1>7. ASSUME NEW j \in Jobs, ProcessPage(j) PROVE TypeOK'
  <2>1. page[j] \in SUBSET Keys
    BY DEF TypeOK
  <2>2. PICK ok \in SUBSET page[j] :
          /\ bad' = [bad EXCEPT ![j] = page[j] \ ok]
          /\ good' = [good EXCEPT ![j] = {}]
          /\ Goto(j, IF ok = {} THEN "record" ELSE "write")
          /\ todo' = [todo EXCEPT ![j] = IF ok = {} THEN page[j] ELSE ok]
    BY <1>7 DEF ProcessPage
  <2>3. /\ page[j] \ ok \in SUBSET Keys
        /\ (IF ok = {} THEN page[j] ELSE ok) \in SUBSET Keys
        /\ (IF ok = {} THEN "record" ELSE "write") \in Stages
    BY <2>1 DEF Stages
  <2>4. pc' \in [Jobs -> Stages]
    BY <2>2, <2>3, ExceptType DEF Goto, TypeOK
  <2>5. /\ bad' \in [Jobs -> SUBSET Keys]
        /\ todo' \in [Jobs -> SUBSET Keys]
    BY <2>2, <2>3, ExceptType DEF TypeOK
  <2>6. good' \in [Jobs -> SUBSET Keys]
    BY <2>2 DEF TypeOK
  <2> QED BY <1>7, <2>4, <2>5, <2>6 DEF ProcessPage, TypeOK
<1>8. ASSUME NEW j \in Jobs, WriteBatch(j) PROVE TypeOK'
  <2>1. PICK S \in SUBSET todo[j] :
          \/ /\ InsertRows(j, S)
             /\ good' = [good EXCEPT ![j] = @ \cup S]
             /\ Continue(j, todo[j] \ S, "record")
          \/ /\ InsertRows(j, S) \/ UNCHANGED out
             /\ todo' = [todo EXCEPT ![j] = AllSuccesses(j)]
             /\ good' = [good EXCEPT ![j] = {}]
             /\ Goto(j, "rowwise")
    BY <1>8 DEF WriteBatch
  <2>2. /\ S \in SUBSET Keys /\ todo[j] \ S \in SUBSET Keys
        /\ AllSuccesses(j) \in SUBSET Keys
    BY DEF TypeOK, AllSuccesses
  <2>3. out' \in [Keys -> Jobs \cup {NoRow, OldRow}]
    BY <2>1, <2>2, InsertType DEF TypeOK
  <2>4. good' \in [Jobs -> SUBSET Keys]
    <3>1. good[j] \cup S \in SUBSET Keys /\ {} \in SUBSET Keys
      BY <2>2 DEF TypeOK
    <3> QED BY <2>1, <3>1, ExceptType DEF TypeOK
  <2>5. pc' \in [Jobs -> Stages] /\ todo' \in [Jobs -> SUBSET Keys]
    <3>1. CASE Continue(j, todo[j] \ S, "record")
      BY <3>1, <2>2, ContinueType DEF Stages
    <3>2. CASE ~Continue(j, todo[j] \ S, "record")
      <4>1. /\ todo' = [todo EXCEPT ![j] = AllSuccesses(j)]
            /\ pc' = [pc EXCEPT ![j] = "rowwise"]
        BY <3>2, <2>1 DEF Goto
      <4>2. todo' \in [Jobs -> SUBSET Keys]
        BY <4>1, <2>2, ExceptType DEF TypeOK
      <4> QED BY <4>1, <4>2 DEF TypeOK, Stages
    <3> QED BY <3>1, <3>2
  <2> QED BY <1>8, <2>3, <2>4, <2>5 DEF WriteBatch, TypeOK
<1>9. ASSUME NEW j \in Jobs, WriteOutputRow(j) PROVE TypeOK'
  <2>1. PICK k \in todo[j] :
          /\ \/ /\ InsertRows(j, {k})
                /\ good' = [good EXCEPT ![j] = @ \cup {k}]
                /\ UNCHANGED bad
             \/ /\ InsertRows(j, {k}) \/ UNCHANGED out
                /\ bad' = [bad EXCEPT ![j] = @ \cup {k}]
                /\ UNCHANGED good
          /\ Continue(j, todo[j] \ {k}, "record")
    BY <1>9 DEF WriteOutputRow
  <2>2. {k} \in SUBSET Keys /\ todo[j] \ {k} \in SUBSET Keys
    BY DEF TypeOK
  <2>3. out' \in [Keys -> Jobs \cup {NoRow, OldRow}]
    BY <2>1, <2>2, InsertType DEF TypeOK
  <2>4. good' \in [Jobs -> SUBSET Keys] /\ bad' \in [Jobs -> SUBSET Keys]
    <3>1. good[j] \cup {k} \in SUBSET Keys /\ bad[j] \cup {k} \in SUBSET Keys
      BY <2>2 DEF TypeOK
    <3>2. /\ [good EXCEPT ![j] = good[j] \cup {k}] \in [Jobs -> SUBSET Keys]
          /\ [bad EXCEPT ![j] = bad[j] \cup {k}] \in [Jobs -> SUBSET Keys]
      BY <3>1, ExceptType DEF TypeOK
    <3> QED BY <2>1, <3>2 DEF TypeOK
  <2>5. pc' \in [Jobs -> Stages] /\ todo' \in [Jobs -> SUBSET Keys]
    BY <2>1, <2>2, ContinueType DEF Stages
  <2> QED BY <1>9, <2>3, <2>4, <2>5 DEF WriteOutputRow, TypeOK
<1>10. ASSUME NEW j \in Jobs, UpsertRecords(j) PROVE TypeOK'
  <2>1. PICK S \in SUBSET todo[j] :
          \/ /\ RecordRows(j, S)
             /\ Continue(j, todo[j] \ S, "errors")
             /\ UNCHANGED <<cursor, page, good, bad>>
          \/ /\ RecordRows(j, S) \/ UNCHANGED rec
             /\ Abort(j)
    BY <1>10 DEF UpsertRecords
  <2>2. todo[j] \ S \in SUBSET Keys
    BY DEF TypeOK
  <2>3. rec' \in [Keys -> {"none", "succeeded", "failed"}]
    BY <2>1 DEF TypeOK, RecordRows, RecordStatus
  <2>4. CASE Abort(j)
    BY <1>10, <2>3, <2>4, AbortType DEF UpsertRecords, TypeOK
  <2>5. CASE ~Abort(j)
    <3>1. pc' \in [Jobs -> Stages] /\ todo' \in [Jobs -> SUBSET Keys]
      BY <2>1, <2>2, <2>5, ContinueType DEF Stages
    <3> QED BY <1>10, <2>1, <2>3, <2>5, <3>1 DEF UpsertRecords, TypeOK
  <2> QED BY <2>4, <2>5
<1>11. ASSUME NEW j \in Jobs, AddErrors(j) PROVE TypeOK'
  <2>1. CASE Abort(j) /\ UNCHANGED errs
    BY <1>11, <2>1, AbortType DEF AddErrors, TypeOK
  <2>2. CASE ~(Abort(j) /\ UNCHANGED errs)
    <3>1. errs' \in [Jobs -> [Keys -> Nat]]
      <4>1. [k \in Keys |-> IF k \in bad[j] THEN errs[j][k] + 1 ELSE errs[j][k]]
              \in [Keys -> Nat]
        <5>1. \A k \in Keys : errs[j][k] \in Nat
          BY DEF TypeOK
        <5> QED BY <5>1
      <4>2. errs' = [errs EXCEPT ![j] =
              [k \in Keys |-> IF k \in bad[j] THEN errs[j][k] + 1 ELSE errs[j][k]]]
        BY <1>11, <2>2 DEF AddErrors, TypeOK
      <4> QED BY <4>1, <4>2, ExceptType DEF TypeOK
    <3> QED BY <1>11, <2>2, <3>1 DEF AddErrors, TypeOK, Goto, Stages
  <2> QED BY <2>1, <2>2
<1>12. ASSUME NEW j \in Jobs, UpdateProgress(j) PROVE TypeOK'
  <2>1. CASE Abort(j) /\ UNCHANGED <<lastKey, processed, succeeded, failed>>
    BY <1>12, <2>1, AbortType DEF UpdateProgress, TypeOK
  <2>2. CASE ~(Abort(j) /\ UNCHANGED <<lastKey, processed, succeeded, failed>>)
    <3>1. /\ page[j] \in SUBSET Keys
          /\ Cardinality(page[j]) \in Nat
          /\ Cardinality(good[j]) \in Nat
          /\ Cardinality(bad[j]) \in Nat
      BY KeySetFinite DEF TypeOK
    <3>2. /\ lastKey' \in [Jobs -> Keys \cup {NoKey}]
          /\ cursor' \in [Jobs -> Keys \cup {NoKey}]
      <4>1. PICK maxKey \in page[j] :
              /\ lastKey' = [lastKey EXCEPT ![j] = maxKey]
              /\ cursor' = [cursor EXCEPT ![j] = maxKey]
        BY <1>12, <2>2 DEF UpdateProgress, ProgressKey
      <4>2. maxKey \in Keys \cup {NoKey}
        BY <3>1
      <4> QED BY <4>1, <4>2, ExceptType DEF TypeOK
    <3>3. /\ processed' \in [Jobs -> Nat]
          /\ succeeded' \in [Jobs -> Nat]
          /\ failed' \in [Jobs -> Nat]
      <4>1. /\ processed' = [processed EXCEPT ![j] = processed[j] + Cardinality(page[j])]
            /\ succeeded' = [succeeded EXCEPT ![j] = succeeded[j] + Cardinality(good[j])]
            /\ failed' = [failed EXCEPT ![j] = failed[j] + Cardinality(bad[j])]
        BY <1>12, <2>2 DEF UpdateProgress
      <4>2. /\ processed[j] + Cardinality(page[j]) \in Nat
            /\ succeeded[j] + Cardinality(good[j]) \in Nat
            /\ failed[j] + Cardinality(bad[j]) \in Nat
        <5>1. processed[j] \in Nat /\ succeeded[j] \in Nat /\ failed[j] \in Nat
          BY DEF TypeOK
        <5> QED BY <3>1, <5>1
      <4> QED BY <4>1, <4>2, ExceptType DEF TypeOK
    <3> QED BY <1>12, <2>2, <3>2, <3>3 DEF UpdateProgress, TypeOK, Goto, Stages
  <2> QED BY <2>1, <2>2
<1>13. ASSUME NEW j \in Jobs, Finish(j) PROVE TypeOK'
  <2>1. Abort(j) \/ Exit(j)
    BY <1>13 DEF Finish
  <2>2. status' \in [Jobs -> Statuses]
    BY <1>13 DEF Finish, TypeOK, Verdict, Statuses
  <2>3. message' \in [Jobs -> {"", "row errors", "all rows failed", "error"}]
    BY <1>13 DEF Finish, TypeOK, Verdict, VerdictMessage
  <2> QED BY <1>13, <2>1, <2>2, <2>3, AbortType DEF Finish, TypeOK
<1>14. ASSUME NEW j \in Jobs, MarkFailed(j) PROVE TypeOK'
  <2>1. Exit(j)
    BY <1>14 DEF MarkFailed
  <2> QED BY <1>14, <2>1, AbortType DEF MarkFailed, TypeOK, Statuses
<1>15. ASSUME NEW j \in Jobs, Panic(j) PROVE TypeOK'
  <2>1. Abort(j)
    BY <1>15 DEF Panic
  <2> QED BY <1>15, <2>1, AbortType DEF Panic, TypeOK
<1>16. CASE Crash
  <2>1. /\ pc' \in [Jobs -> Stages]
        /\ cursor' \in [Jobs -> Keys \cup {NoKey}]
        /\ page' \in [Jobs -> SUBSET Keys]
        /\ todo' \in [Jobs -> SUBSET Keys]
        /\ good' \in [Jobs -> SUBSET Keys]
        /\ bad' \in [Jobs -> SUBSET Keys]
    BY <1>16 DEF Crash, Stages
  <2>2. up' \in BOOLEAN /\ crashes' \in Nat
    <3>1. up' = FALSE /\ crashes' = crashes + 1
      BY <1>16 DEF Crash
    <3>2. crashes \in Nat
      BY DEF TypeOK
    <3>3. crashes' \in Nat
      BY <3>1, <3>2
    <3>4. up' \in BOOLEAN
      BY <3>1
    <3> QED BY <3>3, <3>4
  <2>3. UNCHANGED <<status, lastKey, processed, succeeded, failed, message, errs,
                    out, rec>>
    BY <1>16 DEF Crash
  <2> QED BY <2>1, <2>2, <2>3 DEF TypeOK
<1>17. CASE Restart
  BY <1>17 DEF Restart, TypeOK, Stages
<1> QED BY <1>1, <1>2, <1>3, <1>4, <1>5, <1>6, <1>7, <1>8, <1>9, <1>10, <1>11,
           <1>12, <1>13, <1>14, <1>15, <1>16, <1>17 DEF Next, RunJob

\* The durable rows and the goroutines' memory keep their types.
THEOREM TypeCorrect == Spec => []TypeOK
BY InitType, TypeStep, PTL DEF Spec

---------------------------------------------------------------------------
(***************************************************************************)
(* What is settled stays settled, for every job and under every step.      *)
(***************************************************************************)

\* No step removes an output row, and a row written by a job stays one.
LEMMA OutputStays ==
  ASSUME TypeOK, [Next]_vars, NEW k \in Keys
  PROVE  /\ out[k] # NoRow => out'[k] # NoRow
         /\ out[k] \in Jobs => out'[k] \in Jobs
<1> USE DEF sqlite, jobRow, tables, memory, server
<1>1. ASSUME NEW j \in Jobs, WriteBatch(j)
      PROVE  \/ out' = out
             \/ \E S \in SUBSET Keys : InsertRows(j, S)
  <2>1. todo[j] \in SUBSET Keys
    BY DEF TypeOK
  <2> QED BY <1>1, <2>1 DEF WriteBatch
<1>2. ASSUME NEW j \in Jobs, WriteOutputRow(j)
      PROVE  \/ out' = out
             \/ \E S \in SUBSET Keys : InsertRows(j, S)
  <2>1. todo[j] \in SUBSET Keys
    BY DEF TypeOK
  <2>2. PICK x \in todo[j] : InsertRows(j, {x}) \/ UNCHANGED out
    BY <1>2 DEF WriteOutputRow
  <2>3. {x} \in SUBSET Keys
    BY <2>1
  <2> QED BY <2>2, <2>3
<1>3. CASE out' = out
  BY <1>3
<1>4. CASE \E j \in Jobs : \E S \in SUBSET Keys : InsertRows(j, S)
  BY <1>4, InsertType
<1>5. CASE UNCHANGED vars
  BY <1>3, <1>5 DEF vars
<1>6. ASSUME NEW j \in Jobs,
             Start(j) \/ (RunJob(j) /\ ~WriteBatch(j) /\ ~WriteOutputRow(j))
      PROVE  out' = out
  BY <1>6 DEF Start, RunJob, MarkRunning, LoadJob, EnsureExecutionReady,
     SelectSourcePage, ProcessPage, UpsertRecords, AddErrors, UpdateProgress,
     Finish, MarkFailed, Panic
<1>7. CASE Crash \/ Restart
  BY <1>3, <1>7 DEF Crash, Restart
<1> QED BY <1>1, <1>2, <1>3, <1>4, <1>5, <1>6, <1>7 DEF Next, RunJob

\* Row errors are only added.
LEMMA ErrorsStay ==
  ASSUME TypeOK, [Next]_vars, NEW i \in Jobs, NEW k \in Keys, errs[i][k] > 0
  PROVE  errs'[i][k] > 0
<1> USE DEF sqlite, jobRow, tables, memory, server
<1>1. ASSUME NEW j \in Jobs, AddErrors(j) PROVE errs'[i][k] > 0
  <2>1. CASE UNCHANGED errs
    BY <2>1
  <2>2. CASE ~UNCHANGED errs
    <3>1. errs' = [errs EXCEPT ![j] =
            [x \in Keys |-> IF x \in bad[j] THEN errs[j][x] + 1 ELSE errs[j][x]]]
      BY <1>1, <2>2 DEF AddErrors
    <3>2. errs[i][k] \in Nat /\ errs[j][k] \in Nat
      BY DEF TypeOK
    <3>3. CASE i = j
      <4>1. errs'[i][k] = IF k \in bad[j] THEN errs[j][k] + 1 ELSE errs[j][k]
        BY <3>1, <3>3 DEF TypeOK
      <4> QED BY <4>1, <3>2, <3>3
    <3>4. CASE i # j
      BY <3>1, <3>4 DEF TypeOK
    <3> QED BY <3>3, <3>4
  <2> QED BY <2>1, <2>2
<1>2. CASE UNCHANGED vars
  BY <1>2 DEF vars
<1>3. ASSUME NEW j \in Jobs, Start(j) \/ (RunJob(j) /\ ~AddErrors(j))
      PROVE  errs' = errs
  BY <1>3 DEF Start, RunJob, MarkRunning, LoadJob, EnsureExecutionReady,
     SelectSourcePage, ProcessPage, WriteBatch, WriteOutputRow, UpsertRecords,
     UpdateProgress, Finish, MarkFailed, Panic
<1>4. CASE Crash \/ Restart
  BY <1>4 DEF Crash, Restart
<1> QED BY <1>1, <1>2, <1>3, <1>4 DEF Next, RunJob

LEMMA SettledStays ==
  ASSUME TypeOK, [Next]_vars, NEW i \in Jobs, NEW k \in Keys
  PROVE  /\ RowDone(i, k) => RowDone(i, k)'
         /\ Settled(i, k) => Settled(i, k)'
<1>1. RowDone(i, k) => RowDone(i, k)'
  BY OutputStays DEF RowDone
<1>2. errs[i][k] > 0 => errs'[i][k] > 0
  BY ErrorsStay
<1> QED BY <1>1, <1>2 DEF Settled

---------------------------------------------------------------------------
(***************************************************************************)
(* The inductive invariant.                                                *)
(***************************************************************************)

LEMMA InitInv == Init => IInv
<1> SUFFICES ASSUME Init PROVE IInv
  OBVIOUS
<1>1. TypeOK
  BY InitType
<1>2. ASSUME NEW j \in Jobs PROVE JobInv(j)
  <2>1. /\ pc[j] = "idle" /\ status[j] = "none" /\ lastKey[j] = NoKey
        /\ page[j] = {} /\ good[j] = {}
        /\ processed[j] = 0 /\ succeeded[j] = 0 /\ failed[j] = 0
    BY DEF Init
  <2>2. Owned(j) /\ CursorAtProgress(j) /\ ProgressRequested(j) /\ AllSettled(j)
    BY <2>1 DEF Owned, CursorAtProgress, InLoop, ProgressRequested, AllSettled
  <2>3. PageAhead(j) /\ NoGap(j) /\ Split(j) /\ GoodWritten(j) /\ BadKept(j)
    BY <2>1 DEF PageAhead, NoGap, Split, Writing, Written, GoodWritten, BadKept
  <2>4. PassedSettled(j)
    <3>1. \A k \in Keys : ~(k <= 0)
      BY KeysAssumption
    <3>2. lastKey[j] = 0
      BY <2>1 DEF NoKey
    <3>3. Passed(j) = {}
      BY <3>1, <3>2 DEF Passed, Requested
    <3> QED BY <3>3 DEF PassedSettled
  <2>5. Counted(j) /\ VerdictMatches(j)
    BY <2>1 DEF Counted, VerdictMatches
  <2> QED BY <2>2, <2>3, <2>4, <2>5 DEF JobInv
<1> QED BY <1>1, <1>2 DEF IInv

\* A job of which a step changes neither the row, nor the errors, nor the memory
\* keeps its invariant: what other jobs do to the output table only settles rows.
LEMMA UntouchedJob ==
  ASSUME TypeOK, [Next]_vars, NEW i \in Jobs, JobInv(i),
         pc'[i] # "idle" => up',
         status'[i] = status[i], lastKey'[i] = lastKey[i],
         processed'[i] = processed[i], succeeded'[i] = succeeded[i],
         failed'[i] = failed[i], errs'[i] = errs[i], pc'[i] = pc[i],
         cursor'[i] = cursor[i], page'[i] = page[i], todo'[i] = todo[i],
         good'[i] = good[i], bad'[i] = bad[i]
  PROVE  JobInv(i)'
<1>1. \A k \in Keys : /\ RowDone(i, k) => RowDone(i, k)'
                      /\ Settled(i, k) => Settled(i, k)'
  BY SettledStays
<1>2. Requested(i) \subseteq Keys /\ Passed(i) \subseteq Keys /\ good[i] \subseteq Keys
  BY DEF Requested, Passed, TypeOK
<1>3. Requested(i)' = Requested(i) /\ Passed(i)' = Passed(i)
  BY DEF Requested, Passed
<1>4. Owned(i)' /\ CursorAtProgress(i)' /\ ProgressRequested(i)'
  BY <1>3 DEF JobInv, Owned, CursorAtProgress, ProgressRequested
<1>5. PageAhead(i)' /\ NoGap(i)'
  BY <1>1, <1>2, <1>3 DEF JobInv, PageAhead, NoGap
<1>6. Split(i)' /\ BadKept(i)'
  BY DEF JobInv, Split, BadKept
<1>7. GoodWritten(i)'
  BY <1>1, <1>2 DEF JobInv, GoodWritten
<1>8. PassedSettled(i)' /\ AllSettled(i)'
  BY <1>1, <1>2, <1>3 DEF JobInv, PassedSettled, AllSettled
<1>9. Counted(i)' /\ VerdictMatches(i)'
  BY DEF JobInv, Counted, VerdictMatches
<1> QED BY <1>4, <1>5, <1>6, <1>7, <1>8, <1>9 DEF JobInv

\* A goroutine that gives up, or returns, without touching the job row.
LEMMA Leaves ==
  ASSUME TypeOK, [Next]_vars, NEW j \in Jobs, JobInv(j),
         Abort(j) \/ Exit(j), pc[j] # "idle", up' = up,
         status'[j] = status[j], lastKey'[j] = lastKey[j],
         processed'[j] = processed[j], succeeded'[j] = succeeded[j],
         failed'[j] = failed[j]
  PROVE  JobInv(j)'
<1>1. \A k \in Keys : Settled(j, k) => Settled(j, k)'
  BY SettledStays
<1>2. Requested(j) \subseteq Keys /\ Passed(j) \subseteq Keys
  BY DEF Requested, Passed
<1>3. Requested(j)' = Requested(j) /\ Passed(j)' = Passed(j)
  BY DEF Requested, Passed
<1>4. pc'[j] \in {"abort", "idle"} /\ page'[j] = {} /\ good'[j] = {}
  <2>1. Forget(j)
    BY DEF Abort, Exit
  <2>2. page'[j] = {} /\ good'[j] = {}
    BY <2>1 DEF Forget, TypeOK
  <2>3. Goto(j, "abort") \/ Goto(j, "idle")
    BY DEF Abort, Exit
  <2>4. pc'[j] \in {"abort", "idle"}
    BY <2>3 DEF Goto, TypeOK
  <2> QED BY <2>2, <2>4
<1>5. Owned(j)' /\ CursorAtProgress(j)' /\ ProgressRequested(j)'
  BY <1>3, <1>4, SMTT(30) DEF JobInv, Owned, CursorAtProgress, ProgressRequested, InLoop
<1>6. PageAhead(j)' /\ NoGap(j)' /\ Split(j)' /\ GoodWritten(j)' /\ BadKept(j)'
  BY <1>4 DEF PageAhead, NoGap, Split, GoodWritten, BadKept, Writing, Written
<1>7. PassedSettled(j)' /\ AllSettled(j)'
  BY <1>1, <1>2, <1>3, <1>4 DEF JobInv, PassedSettled, AllSettled
<1>8. Counted(j)' /\ VerdictMatches(j)'
  BY DEF JobInv, Counted, VerdictMatches
<1> QED BY <1>5, <1>6, <1>7, <1>8 DEF JobInv

---------------------------------------------------------------------------
(***************************************************************************)
(* Each step of a job's goroutine keeps the invariant of the job.          *)
(***************************************************************************)

\* Steps that change nothing but the stage and perhaps the status.
LEMMA MarkRunningKeeps ==
  ASSUME TypeOK, [Next]_vars, NEW j \in Jobs, JobInv(j),
         Start(j) \/ MarkRunning(j) \/ LoadJob(j) \/ EnsureExecutionReady(j)
  PROVE  JobInv(j)'
<1> USE DEF sqlite, jobRow, tables, memory, server
<1>1. CASE (Abort(j) \/ Exit(j)) /\ status' = status /\ ~Start(j)
  BY <1>1, Leaves DEF MarkRunning, LoadJob, EnsureExecutionReady
<1>2. CASE ~((Abort(j) \/ Exit(j)) /\ status' = status /\ ~Start(j))
  <2>1. \A k \in Keys : /\ RowDone(j, k) => RowDone(j, k)'
                        /\ Settled(j, k) => Settled(j, k)'
    BY SettledStays
  <2>2. /\ up' = up /\ lastKey' = lastKey /\ processed' = processed
        /\ succeeded' = succeeded /\ failed' = failed /\ page' = page
        /\ good' = good /\ errs' = errs
    BY <1>2 DEF Start, MarkRunning, LoadJob, EnsureExecutionReady
  <2>3. /\ pc'[j] \in {"start", "load", "ready", "select"}
        /\ status'[j] \in {"pending", "running"}
        /\ up
        /\ pc'[j] \in {"ready", "select"} => cursor'[j] = lastKey[j]
    BY <1>2 DEF Start, MarkRunning, LoadJob, EnsureExecutionReady, Goto, TypeOK,
       JobInv, Owned, CursorAtProgress, InLoop
  <2>4. /\ Requested(j) \subseteq Keys /\ Requested(j)' = Requested(j)
        /\ Passed(j) \subseteq Keys /\ Passed(j)' = Passed(j)
        /\ good[j] \subseteq Keys
    BY <2>2 DEF Requested, Passed, TypeOK
  <2>5. Owned(j)' /\ CursorAtProgress(j)' /\ ProgressRequested(j)'
    BY <2>2, <2>3, <2>4 DEF JobInv, Owned, CursorAtProgress, ProgressRequested, InLoop
  <2>6. PageAhead(j)' /\ NoGap(j)'
    BY <2>1, <2>2, <2>4 DEF JobInv, PageAhead, NoGap
  <2>7. Split(j)' /\ BadKept(j)'
    BY <2>3 DEF Split, BadKept, Writing, Written
  <2>8. GoodWritten(j)'
    BY <2>1, <2>2, <2>4 DEF JobInv, GoodWritten
  <2>9. PassedSettled(j)' /\ AllSettled(j)'
    BY <2>1, <2>2, <2>3, <2>4 DEF JobInv, PassedSettled, AllSettled
  <2>10. Counted(j)' /\ VerdictMatches(j)'
    BY <2>2, <2>3 DEF JobInv, Counted, VerdictMatches
  <2> QED BY <2>5, <2>6, <2>7, <2>8, <2>9, <2>10 DEF JobInv
<1> QED BY <1>1, <1>2

\* An empty page means that nothing requested is left; another page starts after
\* last_key and leaves no gap.
LEMMA SelectKeeps ==
  ASSUME TypeOK, [Next]_vars, NEW j \in Jobs, JobInv(j), SelectSourcePage(j)
  PROVE  JobInv(j)'
<1> USE DEF sqlite, jobRow, tables, memory, server
<1>1. CASE Abort(j)
  BY <1>1, Leaves DEF SelectSourcePage
<1>2. CASE ~Abort(j)
  <2>1. /\ UNCHANGED <<status, lastKey, processed, succeeded, failed, errs, out, up,
                       cursor, good, bad, todo>>
        /\ pc[j] = "select"
    BY <1>2 DEF SelectSourcePage
  <2>2. /\ lastKey[j] \in Nat /\ cursor[j] = lastKey[j]
        /\ Requested(j) \subseteq Keys /\ Keys \subseteq Nat \ {0}
        /\ Passed(j) \subseteq Requested(j)
        /\ StartID[j] \in Int /\ EndID[j] \in Int
    <3>1. Keys \subseteq Nat \ {0}
      BY KeysAssumption
    <3>2. lastKey[j] \in Keys \cup {NoKey}
      BY DEF TypeOK
    <3>3. lastKey[j] \in Nat
      <4>1. CASE lastKey[j] = NoKey
        BY <4>1
      <4>2. CASE lastKey[j] \in Keys
        BY <3>1, <4>2
      <4> QED BY <3>2, <4>1, <4>2
    <3>4. cursor[j] = lastKey[j]
      BY <2>1 DEF JobInv, CursorAtProgress, InLoop
    <3>5. StartID[j] \in Int /\ EndID[j] \in Int
      BY JobsAssumption
    <3>6. Requested(j) \subseteq Keys /\ Passed(j) \subseteq Requested(j)
      BY DEF Requested, Passed
    <3> QED BY <3>1, <3>3, <3>4, <3>5, <3>6
  <2>3. ASSUME NEW k \in Keys
        PROVE  k \in Candidates(j) => k \in Requested(j) /\ k > lastKey[j]
    <3>1. k \in Nat /\ k > 0
      BY KeysAssumption
    <3>2. CASE lastKey[j] = NoKey
      BY <2>2, <3>1, <3>2 DEF Candidates, AfterCursor, Requested
    <3>3. CASE lastKey[j] # NoKey
      <4>1. lastKey[j] \in Requested(j)
        BY <3>3 DEF JobInv, ProgressRequested
      <4>2. StartID[j] <= lastKey[j]
        BY <4>1 DEF Requested
      <4> QED BY <2>2, <3>1, <3>3, <4>2 DEF Candidates, AfterCursor, Requested
    <3> QED BY <3>2, <3>3
  <2>4. ASSUME NEW k \in Requested(j), k \notin Candidates(j)
        PROVE  Settled(j, k)
    <3>1. k \in Keys /\ k \in Nat
      BY <2>2
    <3>2. CASE k <= lastKey[j]
      BY <3>1, <3>2 DEF JobInv, PassedSettled, Passed
    <3>3. CASE k > lastKey[j]
      <4>1. AfterCursor(j, k) /\ k <= EndID[j]
        BY <2>2, <3>1, <3>3 DEF AfterCursor, Requested
      <4>2. ~NotYetWritten(j, k)
        BY <2>4, <3>1, <4>1 DEF Candidates
      <4> QED BY <4>2 DEF NotYetWritten, Settled, RowDone
    <3> QED BY <2>2, <3>1, <3>2, <3>3
  <2>5. \A k \in Keys : /\ RowDone(j, k)' = RowDone(j, k)
                        /\ Settled(j, k)' = Settled(j, k)
    BY <2>1 DEF RowDone, Settled
  <2>6. Requested(j)' = Requested(j) /\ Passed(j)' = Passed(j)
    BY <2>1 DEF Requested, Passed
  <2>7. CASE Candidates(j) = {} /\ pc'[j] = "finish" /\ page' = page
    <3>1. Owned(j)' /\ CursorAtProgress(j)' /\ ProgressRequested(j)'
      BY <2>1, <2>6, <2>7 DEF JobInv, Owned, CursorAtProgress, ProgressRequested, InLoop
    <3>2. PageAhead(j)' /\ NoGap(j)'
      BY <2>1, <2>2, <2>5, <2>6, <2>7 DEF JobInv, PageAhead, NoGap
    <3>3. Split(j)' /\ BadKept(j)'
      BY <2>7 DEF Split, BadKept, Writing, Written
    <3>4. GoodWritten(j)'
      BY <2>1, <2>5 DEF JobInv, GoodWritten, TypeOK
    <3>5. PassedSettled(j)' /\ AllSettled(j)'
      BY <2>2, <2>4, <2>5, <2>6, <2>7 DEF PassedSettled, AllSettled
    <3>6. Counted(j)' /\ VerdictMatches(j)'
      BY <2>1 DEF JobInv, Counted, VerdictMatches
    <3> QED BY <3>1, <3>2, <3>3, <3>4, <3>5, <3>6 DEF JobInv
  <2>8. CASE page'[j] = FirstRows(Candidates(j)) /\ pc'[j] = "process"
    <3>1. Owned(j)' /\ CursorAtProgress(j)' /\ ProgressRequested(j)'
      BY <2>1, <2>2, <2>6, <2>8
         DEF JobInv, Owned, CursorAtProgress, ProgressRequested, InLoop
    <3>2. PageAhead(j)'
      BY <2>1, <2>3, <2>6, <2>8 DEF PageAhead, FirstRows, Candidates
    <3>3. NoGap(j)'
      <4>1. Candidates(j) \in SUBSET Keys
        BY DEF Candidates
      <4>2. ASSUME NEW q \in FirstRows(Candidates(j)), NEW k \in Requested(j), k < q
            PROVE  k \in FirstRows(Candidates(j)) \/ Settled(j, k)
        BY <2>4, <4>1, <4>2, FirstRowsPrefix
      <4> QED BY <2>1, <2>2, <2>5, <2>6, <2>8, <4>2 DEF NoGap
    <3>4. Split(j)' /\ BadKept(j)'
      BY <2>8 DEF Split, BadKept, Writing, Written
    <3>5. GoodWritten(j)'
      BY <2>1, <2>5 DEF JobInv, GoodWritten, TypeOK
    <3>6. PassedSettled(j)' /\ AllSettled(j)'
      BY <2>1, <2>2, <2>5, <2>6, <2>8 DEF JobInv, PassedSettled, AllSettled
    <3>7. Counted(j)' /\ VerdictMatches(j)'
      BY <2>1 DEF JobInv, Counted, VerdictMatches
    <3> QED BY <3>1, <3>2, <3>3, <3>4, <3>5, <3>6, <3>7 DEF JobInv
  <2> QED BY <1>2, <2>7, <2>8 DEF SelectSourcePage, Goto, TypeOK
<1> QED BY <1>1, <1>2

\* The rows of the page are split anew; none is lost or in two parts.
LEMMA ProcessKeeps ==
  ASSUME TypeOK, [Next]_vars, NEW j \in Jobs, JobInv(j), ProcessPage(j)
  PROVE  JobInv(j)'
<1> USE DEF sqlite, jobRow, tables, memory, server
<1>1. PICK ok \in SUBSET page[j] :
        /\ bad' = [bad EXCEPT ![j] = page[j] \ ok]
        /\ good' = [good EXCEPT ![j] = {}]
        /\ Goto(j, IF ok = {} THEN "record" ELSE "write")
        /\ todo' = [todo EXCEPT ![j] = IF ok = {} THEN page[j] ELSE ok]
  BY DEF ProcessPage
<1>2. /\ bad'[j] = page[j] \ ok /\ good'[j] = {}
      /\ pc'[j] = (IF ok = {} THEN "record" ELSE "write")
      /\ todo'[j] = (IF ok = {} THEN page[j] ELSE ok)
  BY <1>1 DEF Goto, TypeOK
<1>3. /\ UNCHANGED <<status, lastKey, processed, succeeded, failed, errs, out, up,
                     cursor, page>>
      /\ pc[j] = "process"
  BY DEF ProcessPage
<1>4. \A k \in Keys : /\ RowDone(j, k)' = RowDone(j, k)
                      /\ Settled(j, k)' = Settled(j, k)
  BY <1>3 DEF RowDone, Settled
<1>5. /\ Requested(j) \subseteq Keys /\ Requested(j)' = Requested(j)
      /\ Passed(j) \subseteq Keys /\ Passed(j)' = Passed(j)
  BY <1>3 DEF Requested, Passed
<1>6. Owned(j)' /\ CursorAtProgress(j)' /\ ProgressRequested(j)'
  BY <1>2, <1>3, <1>5 DEF JobInv, Owned, CursorAtProgress, ProgressRequested, InLoop
<1>7. PageAhead(j)' /\ NoGap(j)'
  BY <1>3, <1>4, <1>5 DEF JobInv, PageAhead, NoGap
<1>8. Split(j)'
  <2>1. CASE ok = {}
    BY <1>2, <1>3, <2>1 DEF Split, Writing, Written
  <2>2. CASE ok # {}
    BY <1>2, <1>3, <2>2 DEF Split, Writing, Written
  <2> QED BY <2>1, <2>2
<1>9. GoodWritten(j)' /\ BadKept(j)'
  BY <1>2 DEF GoodWritten, BadKept
<1>10. PassedSettled(j)' /\ AllSettled(j)'
  BY <1>2, <1>3, <1>4, <1>5 DEF JobInv, PassedSettled, AllSettled
<1>11. Counted(j)' /\ VerdictMatches(j)'
  BY <1>3 DEF JobInv, Counted, VerdictMatches
<1> QED BY <1>6, <1>7, <1>8, <1>9, <1>10, <1>11 DEF JobInv

\* The parts that a step inside the page, from the first write to the errors,
\* cannot disturb.
LEMMA InPageKeeps ==
  ASSUME TypeOK, [Next]_vars, NEW j \in Jobs, JobInv(j),
         pc[j] \in Writing \cup Written, pc'[j] \in Writing \cup Written,
         UNCHANGED <<status, lastKey, processed, succeeded, failed, up, cursor, page>>
  PROVE  /\ Owned(j)' /\ CursorAtProgress(j)' /\ ProgressRequested(j)'
         /\ PageAhead(j)' /\ NoGap(j)'
         /\ PassedSettled(j)' /\ AllSettled(j)'
         /\ Counted(j)' /\ VerdictMatches(j)'
<1>1. \A k \in Keys : Settled(j, k) => Settled(j, k)'
  BY SettledStays
<1>2. /\ Requested(j) \subseteq Keys /\ Requested(j)' = Requested(j)
      /\ Passed(j) \subseteq Keys /\ Passed(j)' = Passed(j)
  BY DEF Requested, Passed
<1>3. Owned(j)' /\ CursorAtProgress(j)' /\ ProgressRequested(j)'
  BY <1>2 DEF JobInv, Owned, CursorAtProgress, ProgressRequested, InLoop,
              Writing, Written
<1>4. PageAhead(j)' /\ NoGap(j)'
  BY <1>1, <1>2 DEF JobInv, PageAhead, NoGap
<1>5. PassedSettled(j)' /\ AllSettled(j)'
  BY <1>1, <1>2 DEF JobInv, PassedSettled, AllSettled, Writing, Written
<1>6. Counted(j)' /\ VerdictMatches(j)'
  BY DEF JobInv, Counted, VerdictMatches
<1> QED BY <1>3, <1>4, <1>5, <1>6

\* Rows move from those to write to the written ones; after a failed statement all
\* of them are to be written again.
LEMMA WriteBatchKeeps ==
  ASSUME TypeOK, [Next]_vars, NEW j \in Jobs, JobInv(j), WriteBatch(j)
  PROVE  JobInv(j)'
<1> USE DEF sqlite, jobRow, tables, memory, server
<1>1. PICK S \in SUBSET todo[j] :
        \/ /\ InsertRows(j, S)
           /\ good' = [good EXCEPT ![j] = @ \cup S]
           /\ Continue(j, todo[j] \ S, "record")
        \/ /\ InsertRows(j, S) \/ UNCHANGED out
           /\ todo' = [todo EXCEPT ![j] = AllSuccesses(j)]
           /\ good' = [good EXCEPT ![j] = {}]
           /\ Goto(j, "rowwise")
  BY DEF WriteBatch
<1>2. /\ UNCHANGED <<status, lastKey, processed, succeeded, failed, errs, up,
                     cursor, page, bad>>
      /\ pc[j] = "write"
  BY DEF WriteBatch
<1>3. S \in SUBSET Keys /\ good[j] \subseteq Keys
  BY DEF TypeOK
<1>4. \A k \in Keys : RowDone(j, k) => RowDone(j, k)'
  BY SettledStays
<1>5. /\ page[j] = todo[j] \cup good[j] \cup bad[j]
      /\ todo[j] \cap good[j] = {} /\ todo[j] \cap bad[j] = {}
      /\ good[j] \cap bad[j] = {}
      /\ \A k \in good[j] : RowDone(j, k)
  BY <1>2 DEF JobInv, Split, GoodWritten, Writing
<1>6. CASE /\ InsertRows(j, S)
           /\ good' = [good EXCEPT ![j] = @ \cup S]
           /\ Continue(j, todo[j] \ S, "record")
  <2>1. good'[j] = good[j] \cup S
    BY <1>6 DEF TypeOK
  <2>2. \/ pc'[j] = "record" /\ todo[j] \ S = {}
        \/ pc'[j] = "write" /\ todo'[j] = todo[j] \ S
    BY <1>2, <1>6 DEF Continue, Goto, TypeOK
  <2>3. Split(j)'
    BY <1>2, <1>5, <2>1, <2>2 DEF Split, Writing, Written
  <2>4. \A k \in S : RowDone(j, k)'
    BY <1>3, <1>6, InsertType
  <2>5. GoodWritten(j)' /\ BadKept(j)'
    BY <1>3, <1>4, <1>5, <2>1, <2>2, <2>4 DEF GoodWritten, BadKept
  <2>6. pc'[j] \in Writing \cup Written /\ pc[j] \in Writing \cup Written
    BY <1>2, <2>2 DEF Writing, Written
  <2> QED BY <1>2, <2>3, <2>5, <2>6, InPageKeeps DEF JobInv
<1>7. CASE /\ todo' = [todo EXCEPT ![j] = AllSuccesses(j)]
           /\ good' = [good EXCEPT ![j] = {}]
           /\ Goto(j, "rowwise")
  <2>1. good'[j] = {} /\ todo'[j] = todo[j] \cup good[j] /\ pc'[j] = "rowwise"
    BY <1>7 DEF TypeOK, Goto, AllSuccesses
  <2>2. Split(j)'
    BY <1>2, <1>5, <2>1 DEF Split, Writing, Written
  <2>3. GoodWritten(j)' /\ BadKept(j)'
    BY <2>1 DEF GoodWritten, BadKept
  <2>4. pc'[j] \in Writing \cup Written /\ pc[j] \in Writing \cup Written
    BY <1>2, <2>1 DEF Writing, Written
  <2> QED BY <1>2, <2>2, <2>3, <2>4, InPageKeeps DEF JobInv
<1> QED BY <1>1, <1>6, <1>7

LEMMA WriteOutputRowKeeps ==
  ASSUME TypeOK, [Next]_vars, NEW j \in Jobs, JobInv(j), WriteOutputRow(j)
  PROVE  JobInv(j)'
<1> USE DEF sqlite, jobRow, tables, memory, server
<1>1. PICK k \in todo[j] :
        /\ \/ /\ InsertRows(j, {k})
              /\ good' = [good EXCEPT ![j] = @ \cup {k}]
              /\ UNCHANGED bad
           \/ /\ InsertRows(j, {k}) \/ UNCHANGED out
              /\ bad' = [bad EXCEPT ![j] = @ \cup {k}]
              /\ UNCHANGED good
        /\ Continue(j, todo[j] \ {k}, "record")
  BY DEF WriteOutputRow
<1>2. /\ UNCHANGED <<status, lastKey, processed, succeeded, failed, errs, up,
                     cursor, page>>
      /\ pc[j] = "rowwise"
  BY DEF WriteOutputRow
<1>3. {k} \in SUBSET Keys /\ k \in Keys /\ good[j] \subseteq Keys
  BY DEF TypeOK
<1>4. \A x \in Keys : RowDone(j, x) => RowDone(j, x)'
  BY SettledStays
<1>5. /\ page[j] = todo[j] \cup good[j] \cup bad[j]
      /\ todo[j] \cap good[j] = {} /\ todo[j] \cap bad[j] = {}
      /\ good[j] \cap bad[j] = {}
      /\ \A x \in good[j] : RowDone(j, x)
  BY <1>2 DEF JobInv, Split, GoodWritten, Writing
<1>6. \/ pc'[j] = "record" /\ todo[j] \ {k} = {}
      \/ pc'[j] = "rowwise" /\ todo'[j] = todo[j] \ {k}
  BY <1>1, <1>2 DEF Continue, Goto, TypeOK
<1>7. \/ /\ good'[j] = good[j] \cup {k} /\ bad'[j] = bad[j]
         /\ RowDone(j, k)'
      \/ good'[j] = good[j] /\ bad'[j] = bad[j] \cup {k}
  <2>1. CASE InsertRows(j, {k}) /\ good' = [good EXCEPT ![j] = @ \cup {k}] /\ UNCHANGED bad
    <3>1. RowDone(j, k)'
      BY <1>3, <2>1, InsertType
    <3> QED BY <2>1, <3>1 DEF TypeOK
  <2>2. CASE bad' = [bad EXCEPT ![j] = @ \cup {k}] /\ UNCHANGED good
    BY <2>2 DEF TypeOK
  <2> QED BY <1>1, <2>1, <2>2
<1>8. Split(j)'
  BY <1>2, <1>5, <1>6, <1>7 DEF Split, Writing, Written
<1>9. GoodWritten(j)' /\ BadKept(j)'
  BY <1>3, <1>4, <1>5, <1>6, <1>7 DEF GoodWritten, BadKept
<1>10. pc'[j] \in Writing \cup Written /\ pc[j] \in Writing \cup Written
  BY <1>2, <1>6 DEF Writing, Written
<1> QED BY <1>2, <1>8, <1>9, <1>10, InPageKeeps DEF JobInv

LEMMA UpsertRecordsKeeps ==
  ASSUME TypeOK, [Next]_vars, NEW j \in Jobs, JobInv(j), UpsertRecords(j)
  PROVE  JobInv(j)'
<1> USE DEF sqlite, jobRow, tables, memory, server
<1>1. UNCHANGED <<status, lastKey, processed, succeeded, failed, errs, up, out>>
      /\ pc[j] = "record"
  BY DEF UpsertRecords
<1>2. CASE Abort(j)
  BY <1>1, <1>2, Leaves
<1>3. CASE ~Abort(j)
  <2>1. UNCHANGED <<cursor, page, good, bad>>
    BY <1>3 DEF UpsertRecords
  <2>2. pc'[j] \in {"record", "errors"}
    BY <1>1, <1>3 DEF UpsertRecords, Continue, Goto, TypeOK
  <2>3. Split(j)'
    BY <1>1, <2>1, <2>2 DEF JobInv, Split, Writing, Written
  <2>4. GoodWritten(j)' /\ BadKept(j)'
    BY <1>1, <2>1, <2>2 DEF JobInv, GoodWritten, RowDone, BadKept
  <2>5. pc'[j] \in Writing \cup Written /\ pc[j] \in Writing \cup Written
    BY <1>1, <2>2 DEF Writing, Written
  <2> QED BY <1>1, <2>1, <2>3, <2>4, <2>5, InPageKeeps DEF JobInv
<1> QED BY <1>2, <1>3

\* After AddErrors every failed row of the page has an error record.
LEMMA AddErrorsKeeps ==
  ASSUME TypeOK, [Next]_vars, NEW j \in Jobs, JobInv(j), AddErrors(j)
  PROVE  JobInv(j)'
<1> USE DEF sqlite, jobRow, tables, memory, server
<1>1. UNCHANGED <<status, lastKey, processed, succeeded, failed, up, out>>
      /\ pc[j] = "errors"
  BY DEF AddErrors
<1>2. CASE Abort(j)
  BY <1>1, <1>2, Leaves
<1>3. CASE ~Abort(j)
  <2>1. /\ UNCHANGED <<cursor, page, good, bad>>
        /\ errs' = [errs EXCEPT ![j] =
             [x \in Keys |-> IF x \in bad[j] THEN errs[j][x] + 1 ELSE errs[j][x]]]
        /\ Goto(j, "progress")
    BY <1>3 DEF AddErrors
  <2>2. pc'[j] = "progress"
    BY <2>1 DEF Goto, TypeOK
  <2>3. Split(j)'
    BY <1>1, <2>1, <2>2 DEF JobInv, Split, Writing, Written
  <2>4. GoodWritten(j)'
    BY <1>1, <2>1 DEF JobInv, GoodWritten, RowDone
  <2>5. BadKept(j)'
    <3>1. ASSUME NEW k \in bad[j] PROVE errs'[j][k] > 0
      <4>1. k \in Keys
        BY DEF TypeOK
      <4>2. errs[j][k] \in Nat
        BY <4>1 DEF TypeOK
      <4>3. errs'[j][k] = errs[j][k] + 1
        BY <2>1, <3>1, <4>1 DEF TypeOK
      <4> QED BY <4>2, <4>3
    <3> QED BY <2>1, <3>1 DEF BadKept
  <2>6. pc'[j] \in Writing \cup Written /\ pc[j] \in Writing \cup Written
    BY <1>1, <2>2 DEF Writing, Written
  <2> QED BY <1>1, <2>1, <2>3, <2>4, <2>5, <2>6, InPageKeeps DEF JobInv
<1> QED BY <1>2, <1>3

\* last_key moves to the last row of a page whose rows are all settled, and below
\* which nothing was left out.
LEMMA UpdateProgressKeeps ==
  ASSUME TypeOK, [Next]_vars, NEW j \in Jobs, JobInv(j), UpdateProgress(j)
  PROVE  JobInv(j)'
<1> USE DEF sqlite, jobRow, tables, memory, server
<1>1. UNCHANGED <<status, errs, up, out>> /\ pc[j] = "progress"
  BY DEF UpdateProgress
<1>2. CASE Abort(j) /\ UNCHANGED <<lastKey, processed, succeeded, failed>>
  BY <1>1, <1>2, Leaves
<1>3. CASE ~(Abort(j) /\ UNCHANGED <<lastKey, processed, succeeded, failed>>)
  <2>1. PICK maxKey \in page[j] :
          /\ \A k \in page[j] : k <= maxKey
          /\ lastKey' = [lastKey EXCEPT ![j] = maxKey]
          /\ processed' = [processed EXCEPT ![j] = processed[j] + Cardinality(page[j])]
          /\ succeeded' = [succeeded EXCEPT ![j] = succeeded[j] + Cardinality(good[j])]
          /\ failed' = [failed EXCEPT ![j] = failed[j] + Cardinality(bad[j])]
          /\ cursor' = [cursor EXCEPT ![j] = maxKey]
          /\ page' = [page EXCEPT ![j] = {}]
          /\ good' = [good EXCEPT ![j] = {}]
          /\ Goto(j, "select")
    BY <1>3 DEF UpdateProgress, ProgressKey
  <2>2. /\ lastKey'[j] = maxKey /\ cursor'[j] = maxKey /\ pc'[j] = "select"
        /\ page'[j] = {} /\ good'[j] = {}
        /\ processed'[j] = processed[j] + Cardinality(page[j])
        /\ succeeded'[j] = succeeded[j] + Cardinality(good[j])
        /\ failed'[j] = failed[j] + Cardinality(bad[j])
    BY <2>1 DEF TypeOK, Goto
  <2>3. /\ page[j] = good[j] \cup bad[j] /\ good[j] \cap bad[j] = {}
        /\ \A k \in page[j] : Settled(j, k)
    BY <1>1 DEF JobInv, Split, GoodWritten, BadKept, Settled, Writing, Written
  <2>4. maxKey \in Requested(j) /\ maxKey > lastKey[j]
    BY <2>1 DEF JobInv, PageAhead
  <2>5. Requested(j)' = Requested(j)
    BY DEF Requested
  <2>6. \A k \in Keys : Settled(j, k)' = Settled(j, k)
    BY <1>1 DEF Settled, RowDone
  <2>7. Requested(j) \subseteq Keys /\ Keys \subseteq Nat \ {0}
    BY KeysAssumption DEF Requested
  <2>8. Owned(j)' /\ CursorAtProgress(j)' /\ ProgressRequested(j)'
    BY <1>1, <2>2, <2>4, <2>5
       DEF JobInv, Owned, CursorAtProgress, ProgressRequested, InLoop
  <2>9. PageAhead(j)' /\ NoGap(j)' /\ Split(j)' /\ GoodWritten(j)' /\ BadKept(j)'
    BY <2>2 DEF PageAhead, NoGap, Split, GoodWritten, BadKept, Writing, Written
  <2>10. PassedSettled(j)'
    <3>1. ASSUME NEW k \in Requested(j), k <= maxKey PROVE Settled(j, k)
      <4>1. k \in Nat /\ maxKey \in Nat /\ lastKey[j] \in Keys \cup {NoKey}
        BY <2>4, <2>7 DEF TypeOK
      <4>2. lastKey[j] \in Nat
        <5>1. CASE lastKey[j] = NoKey
          BY <5>1
        <5>2. CASE lastKey[j] \in Keys
          BY <2>7, <5>2
        <5> QED BY <4>1, <5>1, <5>2
      <4>3. CASE k <= lastKey[j]
        BY <4>3 DEF JobInv, PassedSettled, Passed
      <4>4. CASE lastKey[j] < k /\ k < maxKey
        BY <2>1, <2>3, <4>4 DEF JobInv, NoGap
      <4>5. CASE k = maxKey
        BY <2>1, <2>3, <4>5
      <4> QED BY <3>1, <4>1, <4>2, <4>3, <4>4, <4>5
    <3> QED BY <2>2, <2>5, <2>6, <2>7, <3>1 DEF PassedSettled, Passed
  <2>11. AllSettled(j)'
    BY <1>1, <2>2, <2>5, <2>6, <2>7 DEF JobInv, AllSettled
  <2>12. Counted(j)'
    <3>1. good[j] \in SUBSET Keys /\ bad[j] \in SUBSET Keys
      BY DEF TypeOK
    <3>2. Cardinality(page[j]) = Cardinality(good[j]) + Cardinality(bad[j])
      BY <2>3, <3>1, DisjointCardinality
    <3>3. Cardinality(good[j]) \in Nat /\ Cardinality(bad[j]) \in Nat
      BY <3>1, KeySetFinite
    <3>4. processed[j] \in Nat /\ succeeded[j] \in Nat /\ failed[j] \in Nat
      BY DEF TypeOK
    <3> QED BY <2>2, <3>2, <3>3, <3>4 DEF JobInv, Counted
  <2>13. VerdictMatches(j)'
    BY <1>1 DEF JobInv, Owned, VerdictMatches
  <2> QED BY <2>8, <2>9, <2>10, <2>11, <2>12, <2>13 DEF JobInv
<1> QED BY <1>2, <1>3

LEMMA FinishKeeps ==
  ASSUME TypeOK, [Next]_vars, NEW j \in Jobs, JobInv(j), Finish(j)
  PROVE  JobInv(j)'
<1> USE DEF sqlite, jobRow, tables, memory, server
<1>1. /\ UNCHANGED <<lastKey, processed, succeeded, failed, errs, out, up>>
      /\ pc[j] = "finish"
      /\ Abort(j) \/ Exit(j)
  BY DEF Finish
<1>2. CASE status' = status
  BY <1>1, <1>2, Leaves
<1>3. CASE status' # status
  <2>1. status'[j] = Verdict(j) /\ pc'[j] = "idle" /\ page'[j] = {} /\ good'[j] = {}
    <3>1. status' = [status EXCEPT ![j] = Verdict(j)] /\ Exit(j)
      BY <1>3 DEF Finish
    <3>2. Goto(j, "idle") /\ Forget(j)
      BY <3>1 DEF Exit
    <3>3. status'[j] = Verdict(j)
      BY <3>1 DEF TypeOK
    <3>4. pc'[j] = "idle"
      BY <3>2 DEF Goto, TypeOK
    <3>5. page'[j] = {} /\ good'[j] = {}
      BY <3>2 DEF Forget, TypeOK
    <3> QED BY <3>3, <3>4, <3>5
  <2>2. \A k \in Keys : Settled(j, k)' = Settled(j, k)
    BY <1>1 DEF Settled, RowDone
  <2>3. /\ Requested(j) \subseteq Keys /\ Requested(j)' = Requested(j)
        /\ Passed(j) \subseteq Keys /\ Passed(j)' = Passed(j)
    BY <1>1 DEF Requested, Passed
  <2>4. Owned(j)' /\ CursorAtProgress(j)' /\ ProgressRequested(j)'
    BY <1>1, <2>1, <2>3 DEF JobInv, Owned, CursorAtProgress, ProgressRequested, InLoop
  <2>5. PageAhead(j)' /\ NoGap(j)' /\ Split(j)' /\ GoodWritten(j)' /\ BadKept(j)'
    BY <2>1 DEF PageAhead, NoGap, Split, GoodWritten, BadKept, Writing, Written
  <2>6. PassedSettled(j)' /\ AllSettled(j)'
    BY <1>1, <2>2, <2>3 DEF JobInv, PassedSettled, AllSettled
  <2>7. Counted(j)'
    BY <1>1 DEF JobInv, Counted
  <2>8. VerdictMatches(j)'
    <3>1. failed[j] \in Nat /\ succeeded[j] \in Nat
      BY DEF TypeOK
    <3> QED BY <1>1, <2>1, <3>1 DEF VerdictMatches, Verdict
  <2> QED BY <2>4, <2>5, <2>6, <2>7, <2>8 DEF JobInv
<1> QED BY <1>2, <1>3

LEMMA MarkFailedKeeps ==
  ASSUME TypeOK, [Next]_vars, NEW j \in Jobs, JobInv(j), MarkFailed(j)
  PROVE  JobInv(j)'
<1> USE DEF sqlite, jobRow, tables, memory, server
<1>1. /\ UNCHANGED <<lastKey, processed, succeeded, failed, errs, out, up>>
      /\ pc[j] = "abort"
      /\ Exit(j)
  BY DEF MarkFailed
<1>2. CASE status' = status
  BY <1>1, <1>2, Leaves
<1>3. CASE status' # status
  <2>1. status'[j] = "failed" /\ pc'[j] = "idle" /\ page'[j] = {} /\ good'[j] = {}
    BY <1>3 DEF MarkFailed, Exit, Goto, Forget, TypeOK
  <2>2. \A k \in Keys : Settled(j, k)' = Settled(j, k)
    BY <1>1 DEF Settled, RowDone
  <2>3. /\ Requested(j) \subseteq Keys /\ Requested(j)' = Requested(j)
        /\ Passed(j) \subseteq Keys /\ Passed(j)' = Passed(j)
    BY <1>1 DEF Requested, Passed
  <2>4. Owned(j)' /\ CursorAtProgress(j)' /\ ProgressRequested(j)'
    BY <1>1, <2>1, <2>3 DEF JobInv, Owned, CursorAtProgress, ProgressRequested, InLoop
  <2>5. PageAhead(j)' /\ NoGap(j)' /\ Split(j)' /\ GoodWritten(j)' /\ BadKept(j)'
    BY <2>1 DEF PageAhead, NoGap, Split, GoodWritten, BadKept, Writing, Written
  <2>6. PassedSettled(j)' /\ AllSettled(j)'
    BY <1>1, <2>1, <2>2, <2>3 DEF JobInv, PassedSettled, AllSettled
  <2>7. Counted(j)' /\ VerdictMatches(j)'
    BY <1>1, <2>1 DEF JobInv, Counted, VerdictMatches
  <2> QED BY <2>4, <2>5, <2>6, <2>7 DEF JobInv
<1> QED BY <1>2, <1>3

\* A crash loses the goroutines' memory; a restart gives new goroutines to active
\* jobs only.
LEMMA CrashRestartKeeps ==
  ASSUME TypeOK, [Next]_vars, NEW j \in Jobs, JobInv(j), Crash \/ Restart
  PROVE  JobInv(j)'
<1> USE DEF sqlite, jobRow, tables, memory, server
<1>1. UNCHANGED <<status, lastKey, processed, succeeded, failed, errs, out>>
  BY DEF Crash, Restart
<1>2. \A k \in Keys : /\ RowDone(j, k)' = RowDone(j, k)
                      /\ Settled(j, k)' = Settled(j, k)
  BY <1>1 DEF Settled, RowDone
<1>3. /\ Requested(j) \subseteq Keys /\ Requested(j)' = Requested(j)
      /\ Passed(j) \subseteq Keys /\ Passed(j)' = Passed(j)
      /\ good[j] \subseteq Keys
  BY <1>1 DEF Requested, Passed, TypeOK
<1>4. /\ pc'[j] # "idle" => /\ up' = TRUE
                            /\ status[j] \in {"pending", "running"}
                            /\ pc'[j] = "start"
  <2>1. CASE Crash
    BY <2>1 DEF Crash
  <2>2. CASE Restart
    BY <2>2 DEF Restart, ActiveStatuses, JobInv, Owned, TypeOK
  <2> QED BY <2>1, <2>2
<1>5. Owned(j)' /\ CursorAtProgress(j)' /\ ProgressRequested(j)'
  BY <1>1, <1>3, <1>4 DEF JobInv, Owned, CursorAtProgress, ProgressRequested, InLoop
<1>6. page'[j] \in {page[j], {}} /\ good'[j] \in {good[j], {}}
  BY DEF Crash, Restart
<1>7. PageAhead(j)' /\ NoGap(j)'
  BY <1>1, <1>2, <1>3, <1>6 DEF JobInv, PageAhead, NoGap
<1>8. Split(j)' /\ BadKept(j)'
  BY <1>4 DEF Split, BadKept, Writing, Written
<1>9. GoodWritten(j)'
  BY <1>2, <1>3, <1>6 DEF JobInv, GoodWritten
<1>10. PassedSettled(j)' /\ AllSettled(j)'
  BY <1>1, <1>2, <1>3, <1>4 DEF JobInv, PassedSettled, AllSettled
<1>11. Counted(j)' /\ VerdictMatches(j)'
  BY <1>1 DEF JobInv, Counted, VerdictMatches
<1> QED BY <1>5, <1>7, <1>8, <1>9, <1>10, <1>11 DEF JobInv

\* A step of one job leaves the rows and the memory of the others alone.
LEMMA OthersUntouched ==
  ASSUME TypeOK, NEW i \in Jobs, NEW j \in Jobs, i # j, Start(j) \/ RunJob(j)
  PROVE  /\ status'[i] = status[i] /\ lastKey'[i] = lastKey[i]
         /\ processed'[i] = processed[i] /\ succeeded'[i] = succeeded[i]
         /\ failed'[i] = failed[i] /\ errs'[i] = errs[i] /\ pc'[i] = pc[i]
         /\ cursor'[i] = cursor[i] /\ page'[i] = page[i] /\ todo'[i] = todo[i]
         /\ good'[i] = good[i] /\ bad'[i] = bad[i]
         /\ up' = up
<1> USE DEF sqlite, jobRow, tables, memory, server, TypeOK, Goto, Forget, Abort, Exit
<1>1. CASE Start(j)
  BY <1>1, ZenonT(40) DEF Start
<1>2. CASE MarkRunning(j)
  BY <1>2, ZenonT(40) DEF MarkRunning
<1>3. CASE LoadJob(j)
  BY <1>3, ZenonT(40) DEF LoadJob
<1>4. CASE EnsureExecutionReady(j)
  BY <1>4, ZenonT(40) DEF EnsureExecutionReady
<1>5. CASE SelectSourcePage(j)
  BY <1>5, ZenonT(40) DEF SelectSourcePage
<1>6. CASE ProcessPage(j)
  BY <1>6, ZenonT(40) DEF ProcessPage
<1>7. CASE WriteBatch(j)
  BY <1>7, ZenonT(40) DEF WriteBatch, Continue
<1>8. CASE WriteOutputRow(j)
  BY <1>8, ZenonT(40) DEF WriteOutputRow, Continue
<1>9. CASE UpsertRecords(j)
  BY <1>9, ZenonT(40) DEF UpsertRecords, Continue
<1>10. CASE AddErrors(j)
  BY <1>10, ZenonT(40) DEF AddErrors
<1>11. CASE UpdateProgress(j)
  BY <1>11, ZenonT(40) DEF UpdateProgress
<1>12. CASE Finish(j)
  BY <1>12, ZenonT(40) DEF Finish
<1>13. CASE MarkFailed(j)
  BY <1>13, ZenonT(40) DEF MarkFailed
<1>14. CASE Panic(j)
  BY <1>14, ZenonT(40) DEF Panic
<1> QED BY <1>1, <1>2, <1>3, <1>4, <1>5, <1>6, <1>7, <1>8, <1>9, <1>10, <1>11,
           <1>12, <1>13, <1>14 DEF RunJob

LEMMA OwnStepKeeps ==
  ASSUME TypeOK, [Next]_vars, NEW j \in Jobs, JobInv(j), Start(j) \/ RunJob(j)
  PROVE  JobInv(j)'
<1>1. CASE Panic(j)
  <2>1. /\ Abort(j) /\ pc[j] # "idle"
        /\ UNCHANGED <<status, lastKey, processed, succeeded, failed, up>>
    BY <1>1 DEF Panic, sqlite, jobRow, server
  <2> QED BY <2>1, Leaves
<1> QED BY <1>1, MarkRunningKeeps, SelectKeeps, ProcessKeeps, WriteBatchKeeps,
           WriteOutputRowKeeps, UpsertRecordsKeeps, AddErrorsKeeps,
           UpdateProgressKeeps, FinishKeeps, MarkFailedKeeps DEF RunJob

LEMMA StepInv ==
  ASSUME IInv, [Next]_vars
  PROVE  IInv'
<1>1. TypeOK /\ TypeOK'
  BY TypeStep DEF IInv
<1>2. ASSUME NEW i \in Jobs PROVE JobInv(i)'
  <2>1. JobInv(i)
    BY DEF IInv
  <2>2. ASSUME NEW j \in Jobs, Start(j) \/ RunJob(j) PROVE JobInv(i)'
    <3>1. CASE i = j
      BY <1>1, <2>1, <2>2, <3>1, OwnStepKeeps
    <3>2. CASE i # j
      <4>1. /\ status'[i] = status[i] /\ lastKey'[i] = lastKey[i]
            /\ processed'[i] = processed[i] /\ succeeded'[i] = succeeded[i]
            /\ failed'[i] = failed[i] /\ errs'[i] = errs[i] /\ pc'[i] = pc[i]
            /\ cursor'[i] = cursor[i] /\ page'[i] = page[i] /\ todo'[i] = todo[i]
            /\ good'[i] = good[i] /\ bad'[i] = bad[i]
            /\ up' = up
        BY <1>1, <2>2, <3>2, OthersUntouched
      <4>2. pc'[i] # "idle" => up'
        BY <2>1, <4>1 DEF JobInv, Owned
      <4> QED BY <1>1, <2>1, <4>1, <4>2, UntouchedJob
    <3> QED BY <3>1, <3>2
  <2>3. CASE Crash \/ Restart
    BY <1>1, <2>1, <2>3, CrashRestartKeeps
  <2>4. CASE UNCHANGED vars
    <3>1. pc'[i] # "idle" => up'
      BY <2>1, <2>4 DEF JobInv, Owned, vars, server
    <3>2. /\ status' = status /\ lastKey' = lastKey /\ processed' = processed
          /\ succeeded' = succeeded /\ failed' = failed /\ errs' = errs /\ pc' = pc
          /\ cursor' = cursor /\ page' = page /\ todo' = todo /\ good' = good
          /\ bad' = bad
      BY <2>4 DEF vars, sqlite, jobRow, memory
    <3> QED BY <1>1, <2>1, <3>1, <3>2, UntouchedJob
  <2> QED BY <2>2, <2>3, <2>4 DEF Next
<1> QED BY <1>1, <1>2 DEF IInv

\* The inductive invariant holds in every reachable state.
THEOREM Invariance == Spec => []IInv
BY InitInv, StepInv, PTL DEF Spec

---------------------------------------------------------------------------
(***************************************************************************)
(* The properties.                                                         *)
(***************************************************************************)

\* last_key never runs ahead of the work, so a recovery that starts after it
\* skips no requested row.
THEOREM NoRowSkippedHolds == Spec => []NoRowSkipped
<1>1. IInv => NoRowSkipped
  BY DEF IInv, JobInv, PassedSettled, NoRowSkipped
<1> QED BY <1>1, Invariance, PTL

\* A job reported succeeded or partial left no requested row unsettled, and its
\* status agrees with its counters.
THEOREM VerdictHonestHolds == Spec => []VerdictHonest
<1>1. IInv => VerdictHonest
  BY DEF IInv, JobInv, AllSettled, VerdictMatches, VerdictHonest
<1> QED BY <1>1, Invariance, PTL

\* The counters of a job row agree.
THEOREM CountersAddUpHolds == Spec => []CountersAddUp
<1>1. IInv => CountersAddUp
  BY DEF IInv, JobInv, Counted, CountersAddUp
<1> QED BY <1>1, Invariance, PTL

\* A page in progress lies ahead of the durable progress.
THEOREM PageAheadOfProgressHolds == Spec => []PageAheadOfProgress
<1>1. IInv => PageAheadOfProgress
  BY DEF IInv, JobInv, PageAhead, PageAheadOfProgress
<1> QED BY <1>1, Invariance, PTL

\* A goroutine works only for an active job.
THEOREM RunnerOwnsActiveJobHolds == Spec => []RunnerOwnsActiveJob
<1>1. IInv => RunnerOwnsActiveJob
  BY DEF IInv, JobInv, Owned, RunnerOwnsActiveJob
<1> QED BY <1>1, Invariance, PTL

\* A final status never changes: no UPDATE checks it, but only the goroutine of an
\* active job sends one.
THEOREM TerminalStaysHolds == Spec => TerminalStays
<1>1. ASSUME IInv, [Next]_vars
      PROVE  [\A j \in Jobs : status[j] \in Terminal => status'[j] = status[j]]_vars
  <2>1. SUFFICES ASSUME NEW i \in Jobs, status[i] \in Terminal
                 PROVE  status'[i] = status[i]
    OBVIOUS
  <2>2. TypeOK /\ Owned(i)
    BY <1>1 DEF IInv, JobInv
  <2>3. pc[i] = "idle" /\ status[i] # "none"
    BY <2>1, <2>2 DEF Owned, Terminal
  <2>4. ASSUME NEW j \in Jobs, Start(j) \/ RunJob(j) PROVE status'[i] = status[i]
    <3>1. i # j
      BY <2>3, <2>4 DEF Start, RunJob, MarkRunning, LoadJob, EnsureExecutionReady,
         SelectSourcePage, ProcessPage, WriteBatch, WriteOutputRow, UpsertRecords,
         AddErrors, UpdateProgress, Finish, MarkFailed, Panic
    <3> QED BY <2>2, <2>4, <3>1, OthersUntouched
  <2>5. CASE Crash \/ Restart \/ UNCHANGED vars
    BY <2>5 DEF Crash, Restart, vars, sqlite, jobRow
  <2> QED BY <1>1, <2>4, <2>5 DEF Next
<1> QED BY <1>1, Invariance, PTL DEF Spec, TerminalStays

\* The output table changes only where a statement of a job's page inserts.
LEMMA OutputSteps ==
  ASSUME IInv, [Next]_vars
  PROVE  \/ out' = out
         \/ \E j \in Jobs : \E S \in SUBSET page[j] :
              /\ InsertRows(j, S)
              /\ pc[j] \in Writing
              /\ status[j] \in {"pending", "running"}
<1> USE DEF sqlite, jobRow, tables, memory, server
<1>1. ASSUME NEW j \in Jobs, WriteBatch(j) \/ WriteOutputRow(j)
      PROVE  \/ out' = out
             \/ \E S \in SUBSET page[j] : /\ InsertRows(j, S)
                                          /\ pc[j] \in Writing
                                          /\ status[j] \in {"pending", "running"}
  <2>1. pc[j] \in Writing
    BY <1>1 DEF WriteBatch, WriteOutputRow, Writing
  <2>2. status[j] \in {"pending", "running"} /\ todo[j] \subseteq page[j]
    BY <2>1 DEF IInv, JobInv, Owned, Split, Writing
  <2>3. CASE WriteBatch(j)
    BY <2>1, <2>2, <2>3 DEF WriteBatch
  <2>4. CASE WriteOutputRow(j)
    <3>1. PICK k \in todo[j] : InsertRows(j, {k}) \/ UNCHANGED out
      BY <2>4 DEF WriteOutputRow
    <3>2. {k} \in SUBSET page[j]
      BY <2>2
    <3> QED BY <2>1, <2>2, <3>1, <3>2
  <2> QED BY <1>1, <2>3, <2>4
<1>2. ASSUME NEW j \in Jobs,
             Start(j) \/ (RunJob(j) /\ ~WriteBatch(j) /\ ~WriteOutputRow(j))
      PROVE  out' = out
  BY <1>2 DEF Start, RunJob, MarkRunning, LoadJob, EnsureExecutionReady,
     SelectSourcePage, ProcessPage, UpsertRecords, AddErrors, UpdateProgress,
     Finish, MarkFailed, Panic
<1>3. CASE Crash \/ Restart \/ UNCHANGED vars
  BY <1>3 DEF Crash, Restart, vars
<1> QED BY <1>1, <1>2, <1>3 DEF Next, RunJob

\* An existing output row is replaced only by a job that overwrites and has the
\* row in its page.
THEOREM ExistingRowsKeptHolds == Spec => ExistingRowsKept
<1>1. ASSUME IInv, [Next]_vars
      PROVE  [\A k \in Keys : out[k] # NoRow /\ out'[k] # out[k] =>
                \E j \in Jobs : Overwrite[j] /\ out'[k] = j /\ k \in page[j]]_vars
  <2>1. SUFFICES ASSUME NEW k \in Keys, out[k] # NoRow, out'[k] # out[k]
                 PROVE  \E j \in Jobs : Overwrite[j] /\ out'[k] = j /\ k \in page[j]
    OBVIOUS
  <2>2. PICK j \in Jobs : \E S \in SUBSET page[j] : InsertRows(j, S)
    BY <1>1, <2>1, OutputSteps
  <2>3. PICK S \in SUBSET page[j] : InsertRows(j, S)
    BY <2>2
  <2>4. TypeOK /\ S \in SUBSET Keys
    BY <1>1 DEF IInv, TypeOK
  <2>5. k \in S /\ out'[k] = j /\ Overwrite[j]
    BY <2>1, <2>3, <2>4, InsertType
  <2> QED BY <2>5
<1> QED BY <1>1, Invariance, PTL DEF Spec, ExistingRowsKept

\* A process record that says succeeded stands beside an output row.
THEOREM SucceededRecordHasRowHolds == Spec => []SucceededRecordHasRow
<1> USE DEF sqlite, jobRow, tables, memory, server
<1>1. Init => SucceededRecordHasRow
  BY DEF Init, SucceededRecordHasRow
<1>2. ASSUME IInv, SucceededRecordHasRow, [Next]_vars
      PROVE  SucceededRecordHasRow'
  <2>1. SUFFICES ASSUME NEW k \in Keys, rec'[k] = "succeeded" PROVE out'[k] # NoRow
    BY DEF SucceededRecordHasRow
  <2>2. TypeOK
    BY <1>2 DEF IInv
  <2>3. CASE rec[k] = "succeeded"
    BY <1>2, <2>2, <2>3, OutputStays DEF SucceededRecordHasRow
  <2>4. ASSUME NEW j \in Jobs, UpsertRecords(j), rec'[k] # rec[k]
        PROVE  out'[k] # NoRow
    <3>1. k \in good[j] /\ out' = out
      BY <2>1, <2>4 DEF UpsertRecords, RecordRows, RecordStatus
    <3>2. RowDone(j, k)
      BY <1>2, <3>1 DEF IInv, JobInv, GoodWritten
    <3> QED BY <3>1, <3>2, JobsAssumption DEF RowDone
  <2>5. ASSUME NEW j \in Jobs, Start(j) \/ (RunJob(j) /\ ~UpsertRecords(j))
        PROVE  rec' = rec
    BY <2>5 DEF Start, RunJob, MarkRunning, LoadJob, EnsureExecutionReady,
       SelectSourcePage, ProcessPage, WriteBatch, WriteOutputRow, AddErrors,
       UpdateProgress, Finish, MarkFailed, Panic
  <2>6. CASE Crash \/ Restart \/ UNCHANGED vars
    BY <2>1, <2>3, <2>6 DEF Crash, Restart, vars
  <2> QED BY <1>2, <2>1, <2>3, <2>4, <2>5, <2>6 DEF Next, RunJob
<1> QED BY <1>1, <1>2, Invariance, PTL DEF Spec

\* A step of a job leaves a goroutine behind it or, when SQLite works, a final
\* status.
LEMMA RunnerStays ==
  ASSUME TypeOK, ~StoreFaults, NEW j \in Jobs, Start(j) \/ RunJob(j)
  PROVE  pc'[j] # "idle" \/ status'[j] \in Terminal
<1> USE DEF TypeOK, Goto, Forget, Abort, Exit, Terminal
<1>1. CASE Start(j) \/ MarkRunning(j) \/ LoadJob(j) \/ EnsureExecutionReady(j)
  BY <1>1 DEF Start, MarkRunning, LoadJob, EnsureExecutionReady
<1>2. CASE SelectSourcePage(j) \/ AddErrors(j) \/ UpdateProgress(j) \/ Panic(j)
  BY <1>2 DEF SelectSourcePage, AddErrors, UpdateProgress, Panic
<1>3. CASE ProcessPage(j)
  <2>1. pc'[j] \in {"record", "write"}
    BY <1>3 DEF ProcessPage
  <2> QED BY <2>1
<1>4. CASE WriteBatch(j) \/ WriteOutputRow(j)
  <2>1. pc[j] # "idle" /\ (pc' = pc \/ pc' = [pc EXCEPT ![j] = "record"]
                                    \/ pc' = [pc EXCEPT ![j] = "rowwise"])
    BY <1>4 DEF WriteBatch, WriteOutputRow, Continue
  <2> QED BY <2>1
<1>5. CASE UpsertRecords(j)
  <2>1. pc[j] # "idle" /\ (pc' = pc \/ pc' = [pc EXCEPT ![j] = "errors"]
                                    \/ pc' = [pc EXCEPT ![j] = "abort"])
    BY <1>5 DEF UpsertRecords, Continue
  <2> QED BY <2>1
<1>6. CASE Finish(j)
  BY <1>6 DEF Finish, Verdict
<1>7. CASE MarkFailed(j)
  BY <1>7 DEF MarkFailed
<1> QED BY <1>1, <1>2, <1>3, <1>4, <1>5, <1>6, <1>7 DEF RunJob

\* As long as SQLite works, an active job has a goroutine while the server is up.
THEOREM ActiveJobHasRunnerHolds == Spec => []ActiveJobHasRunner
<1>1. Init => ActiveJobHasRunner
  BY DEF Init, ActiveJobHasRunner
<1>2. ASSUME TypeOK, ActiveJobHasRunner, [Next]_vars
      PROVE  ActiveJobHasRunner'
  <2> SUFFICES ASSUME ~StoreFaults, NEW i \in Jobs, up',
                      status'[i] \in {"pending", "running"}
               PROVE  pc'[i] # "idle"
    BY DEF ActiveJobHasRunner
  <2>1. ASSUME NEW j \in Jobs, Start(j) \/ RunJob(j) PROVE pc'[i] # "idle"
    <3>1. CASE i = j
      BY <1>2, <2>1, <3>1, RunnerStays DEF Terminal
    <3>2. CASE i # j
      <4>1. status'[i] = status[i] /\ pc'[i] = pc[i] /\ up' = up
        BY <1>2, <2>1, <3>2, OthersUntouched
      <4> QED BY <1>2, <4>1 DEF ActiveJobHasRunner
    <3> QED BY <3>1, <3>2
  <2>2. CASE Crash
    BY <2>2 DEF Crash
  <2>3. CASE Restart
    BY <2>3 DEF Restart, ActiveStatuses, sqlite, jobRow
  <2>4. CASE UNCHANGED vars
    BY <1>2, <2>4 DEF ActiveJobHasRunner, vars, sqlite, jobRow, server
  <2> QED BY <1>2, <2>1, <2>2, <2>3, <2>4 DEF Next
<1> QED BY <1>1, <1>2, TypeCorrect, PTL DEF Spec

\* The rows gone past that back the counters of successes and failures.
PassedWritten(j) == {k \in Passed(j) : out[k] # NoRow}
PassedFailed(j) == {k \in Passed(j) : errs[j][k] > 0}

Backed(j) ==
  /\ processed[j] <= Cardinality(Passed(j))
  /\ succeeded[j] <= Cardinality(PassedWritten(j))
  /\ failed[j] <= Cardinality(PassedFailed(j))

\* A counter that grows by the rows of a set that is added stays backed.
LEMMA BackedGrows ==
  ASSUME NEW S \in SUBSET Keys, NEW T \in SUBSET Keys, NEW U \in SUBSET Keys,
         S \subseteq U, T \subseteq U, S \cap T = {},
         NEW n \in Nat, n <= Cardinality(S)
  PROVE  n + Cardinality(T) <= Cardinality(U)
<1>1. Cardinality(S \cup T) = Cardinality(S) + Cardinality(T)
  BY DisjointCardinality
<1>2. Cardinality(S \cup T) <= Cardinality(U)
  BY KeySetFinite, FS_Subset
<1>3. /\ Cardinality(S) \in Nat /\ Cardinality(T) \in Nat
      /\ Cardinality(U) \in Nat /\ Cardinality(S \cup T) \in Nat
  BY KeySetFinite
<1> QED BY <1>1, <1>2, <1>3

\* When neither counters nor last_key of a job change, more rows may be backed.
LEMMA BackedStays ==
  ASSUME TypeOK, [Next]_vars, NEW j \in Jobs, Backed(j),
         lastKey'[j] = lastKey[j], processed'[j] = processed[j],
         succeeded'[j] = succeeded[j], failed'[j] = failed[j]
  PROVE  Backed(j)'
<1>1. Passed(j)' = Passed(j) /\ Passed(j) \subseteq Keys
  BY DEF Passed, Requested
<1>2. PassedWritten(j) \subseteq PassedWritten(j)' /\ PassedWritten(j)' \subseteq Keys
  BY <1>1, OutputStays DEF PassedWritten
<1>3. PassedFailed(j) \subseteq PassedFailed(j)' /\ PassedFailed(j)' \subseteq Keys
  BY <1>1, ErrorsStay DEF PassedFailed
<1>4. \A S, U \in SUBSET Keys : S \subseteq U =>
         /\ Cardinality(S) \in Nat /\ Cardinality(U) \in Nat
         /\ Cardinality(S) <= Cardinality(U)
  BY KeySetFinite, FS_Subset
<1>5. /\ Cardinality(PassedWritten(j)) <= Cardinality(PassedWritten(j)')
      /\ Cardinality(PassedFailed(j)) <= Cardinality(PassedFailed(j)')
      /\ Cardinality(PassedWritten(j)) \in Nat /\ Cardinality(PassedWritten(j)') \in Nat
      /\ Cardinality(PassedFailed(j)) \in Nat /\ Cardinality(PassedFailed(j)') \in Nat
  BY <1>2, <1>3, <1>4
<1>6. succeeded[j] \in Nat /\ failed[j] \in Nat
  BY DEF TypeOK
<1> QED BY <1>1, <1>5, <1>6 DEF Backed


\* The rows of the page are new to the counters: they lie behind the new last_key
\* and ahead of the old one.
LEMMA ProgressBacked ==
  ASSUME TypeOK, NEW j \in Jobs, JobInv(j), Backed(j), UpdateProgress(j),
         ~UNCHANGED <<lastKey, processed, succeeded, failed>>
  PROVE  Backed(j)'
<1> USE DEF sqlite, jobRow, tables, memory, server
<1>1. PICK maxKey \in page[j] :
        /\ \A k \in page[j] : k <= maxKey
        /\ lastKey' = [lastKey EXCEPT ![j] = maxKey]
        /\ processed' = [processed EXCEPT ![j] = processed[j] + Cardinality(page[j])]
        /\ succeeded' = [succeeded EXCEPT ![j] = succeeded[j] + Cardinality(good[j])]
        /\ failed' = [failed EXCEPT ![j] = failed[j] + Cardinality(bad[j])]
  BY DEF UpdateProgress, ProgressKey
<1>2. /\ pc[j] = "progress" /\ errs' = errs /\ out' = out
      /\ lastKey'[j] = maxKey
      /\ processed'[j] = processed[j] + Cardinality(page[j])
      /\ succeeded'[j] = succeeded[j] + Cardinality(good[j])
      /\ failed'[j] = failed[j] + Cardinality(bad[j])
  BY <1>1 DEF UpdateProgress, TypeOK
<1>3. /\ page[j] \in SUBSET Keys /\ good[j] \in SUBSET page[j] /\ bad[j] \in SUBSET page[j]
      /\ \A k \in good[j] : out[k] # NoRow
      /\ \A k \in bad[j] : errs[j][k] > 0
  <2>1. page[j] \in SUBSET Keys /\ page[j] = good[j] \cup bad[j]
    BY <1>2 DEF JobInv, Split, Written, TypeOK
  <2>2. \A k \in good[j] : out[k] # NoRow
    BY JobsAssumption DEF JobInv, GoodWritten, RowDone
  <2>3. \A k \in bad[j] : errs[j][k] > 0
    BY <1>2 DEF JobInv, BadKept
  <2> QED BY <2>1, <2>2, <2>3
<1>4. /\ \A k \in page[j] : k \in Requested(j) /\ k > lastKey[j] /\ k <= maxKey
      /\ Requested(j) \subseteq Keys /\ Keys \subseteq Nat
  BY <1>1, KeysAssumption DEF JobInv, PageAhead, Requested
<1>5. lastKey[j] \in Nat /\ maxKey \in Nat /\ lastKey[j] < maxKey
  <2>1. lastKey[j] \in Keys \cup {NoKey}
    BY DEF TypeOK
  <2>2. lastKey[j] \in Nat
    <3>1. CASE lastKey[j] = NoKey
      BY <3>1
    <3>2. CASE lastKey[j] \in Keys
      BY <1>4, <3>2
    <3> QED BY <2>1, <3>1, <3>2
  <2> QED BY <1>1, <1>3, <1>4, <2>2
<1>6. /\ Passed(j) \subseteq Passed(j)' /\ page[j] \subseteq Passed(j)'
      /\ Passed(j) \cap page[j] = {}
      /\ Passed(j) \subseteq Keys /\ Passed(j)' \subseteq Keys
  <2>1. Passed(j)' = {k \in Requested(j) : k <= maxKey}
    BY <1>2 DEF Passed, Requested
  <2>2. \A k \in Requested(j) : k \in Nat
    BY <1>4
  <2>3. \A k \in Requested(j) : k <= lastKey[j] => k <= maxKey /\ ~(k > lastKey[j])
    BY <1>5, <2>2
  <2> QED BY <1>4, <2>1, <2>3 DEF Passed
<1>7. /\ processed[j] \in Nat /\ processed[j] <= Cardinality(Passed(j))
      /\ succeeded[j] \in Nat /\ succeeded[j] <= Cardinality(PassedWritten(j))
      /\ failed[j] \in Nat /\ failed[j] <= Cardinality(PassedFailed(j))
  BY DEF Backed, TypeOK
<1>8. processed'[j] <= Cardinality(Passed(j)')
  BY <1>7, <1>2, <1>3, <1>6, BackedGrows
<1>9. /\ PassedWritten(j) \subseteq PassedWritten(j)' /\ good[j] \subseteq PassedWritten(j)'
      /\ PassedWritten(j) \cap good[j] = {}
      /\ PassedWritten(j) \subseteq Keys /\ PassedWritten(j)' \subseteq Keys
  BY <1>2, <1>3, <1>6 DEF PassedWritten
<1>10. succeeded'[j] <= Cardinality(PassedWritten(j)')
  BY <1>7, <1>2, <1>3, <1>9, BackedGrows
<1>11. /\ PassedFailed(j) \subseteq PassedFailed(j)' /\ bad[j] \subseteq PassedFailed(j)'
       /\ PassedFailed(j) \cap bad[j] = {}
       /\ PassedFailed(j) \subseteq Keys /\ PassedFailed(j)' \subseteq Keys
  BY <1>2, <1>3, <1>6 DEF PassedFailed
<1>12. failed'[j] <= Cardinality(PassedFailed(j)')
  BY <1>7, <1>2, <1>3, <1>11, BackedGrows
<1> QED BY <1>8, <1>10, <1>12 DEF Backed

\* No row is counted twice: the counters never exceed the rows gone past that are
\* written or have their error kept.
THEOREM CountersBackedHolds == Spec => []CountersBacked
<1> USE DEF sqlite, jobRow, tables, memory, server
<1>1. CountersBacked <=> \A j \in Jobs : Backed(j)
  BY DEF CountersBacked, Backed, PassedWritten, PassedFailed
<1>2. Init => \A j \in Jobs : Backed(j)
  <2> SUFFICES ASSUME Init, NEW j \in Jobs PROVE Backed(j)
    OBVIOUS
  <2>1. /\ Passed(j) \in SUBSET Keys /\ PassedWritten(j) \in SUBSET Keys
        /\ PassedFailed(j) \in SUBSET Keys
    BY DEF Passed, PassedWritten, PassedFailed, Requested
  <2>2. \A S \in SUBSET Keys : Cardinality(S) \in Nat
    BY KeySetFinite
  <2>3. processed[j] = 0 /\ succeeded[j] = 0 /\ failed[j] = 0
    BY DEF Init
  <2> QED BY <2>1, <2>2, <2>3 DEF Backed
<1>3. ASSUME IInv, \A j \in Jobs : Backed(j), [Next]_vars, NEW i \in Jobs
      PROVE  Backed(i)'
  <2>1. TypeOK /\ JobInv(i) /\ Backed(i)
    BY <1>3 DEF IInv
  <2>2. ASSUME NEW j \in Jobs, j # i, Start(j) \/ RunJob(j) PROVE Backed(i)'
    <3>1. /\ lastKey'[i] = lastKey[i] /\ processed'[i] = processed[i]
          /\ succeeded'[i] = succeeded[i] /\ failed'[i] = failed[i]
      BY <2>1, <2>2, OthersUntouched
    <3> QED BY <1>3, <2>1, <3>1, BackedStays
  <2>3. CASE UpdateProgress(i) /\ ~UNCHANGED <<lastKey, processed, succeeded, failed>>
    BY <2>1, <2>3, ProgressBacked
  <2>4. CASE UNCHANGED <<lastKey, processed, succeeded, failed>>
    BY <1>3, <2>1, <2>4, BackedStays
  <2>5. Start(i) \/ (RunJob(i) /\ ~UpdateProgress(i)) =>
          UNCHANGED <<lastKey, processed, succeeded, failed>>
    BY DEF Start, RunJob, MarkRunning, LoadJob, EnsureExecutionReady, SelectSourcePage,
       ProcessPage, WriteBatch, WriteOutputRow, UpsertRecords, AddErrors, Finish,
       MarkFailed, Panic
  <2>6. Crash \/ Restart \/ UNCHANGED vars =>
          UNCHANGED <<lastKey, processed, succeeded, failed>>
    BY DEF Crash, Restart, vars
  <2> QED BY <1>3, <2>2, <2>3, <2>4, <2>5, <2>6 DEF Next, RunJob
<1>4. IInv /\ (\A j \in Jobs : Backed(j)) /\ [Next]_vars => (\A j \in Jobs : Backed(j))'
  BY <1>3
<1> QED BY <1>1, <1>2, <1>4, Invariance, PTL DEF Spec

---------------------------------------------------------------------------
(***************************************************************************)
(* The refinement: each step is one, or none, of EnrichPromise.            *)
(***************************************************************************)

Active == {"pending", "running"}

\* Rows become settled in the page of an active job.
LEMMA SettleSteps ==
  ASSUME IInv, [Next]_vars
  PROVE  \/ out' = out /\ errs' = errs
         \/ \E j \in Jobs :
              /\ status' = status /\ status[j] \in Active
              /\ \A k \in Keys : out'[k] # out[k] => k \in page[j]
              /\ \A i \in Jobs, k \in Keys : errs'[i][k] # errs[i][k] => k \in page[j]
<1> USE DEF sqlite, jobRow, tables, memory, server
<1>1. ASSUME NEW j \in Jobs, AddErrors(j), errs' # errs
      PROVE  /\ status' = status /\ out' = out /\ status[j] \in Active
             /\ \A i \in Jobs, k \in Keys : errs'[i][k] # errs[i][k] => k \in page[j]
  <2>1. /\ pc[j] = "errors" /\ status' = status /\ out' = out
        /\ errs' = [errs EXCEPT ![j] =
             [x \in Keys |-> IF x \in bad[j] THEN errs[j][x] + 1 ELSE errs[j][x]]]
    BY <1>1 DEF AddErrors
  <2>2. status[j] \in Active /\ bad[j] \subseteq page[j]
    BY <2>1 DEF IInv, JobInv, Owned, Split, Written, Writing, Active
  <2>3. \A i \in Jobs, k \in Keys : errs'[i][k] # errs[i][k] => k \in bad[j]
    BY <2>1 DEF IInv, TypeOK
  <2> QED BY <2>1, <2>2, <2>3
<1>2. ASSUME NEW j \in Jobs, WriteBatch(j) \/ WriteOutputRow(j)
      PROVE  /\ status' = status /\ errs' = errs
  BY <1>2 DEF WriteBatch, WriteOutputRow
<1>3. ASSUME NEW j \in Jobs,
             Start(j) \/ (RunJob(j) /\ ~WriteBatch(j) /\ ~WriteOutputRow(j))
      PROVE  out' = out /\ (errs' = errs \/ AddErrors(j))
  BY <1>3 DEF Start, RunJob, MarkRunning, LoadJob, EnsureExecutionReady,
     SelectSourcePage, ProcessPage, UpsertRecords, AddErrors, UpdateProgress,
     Finish, MarkFailed, Panic
<1>4. Crash \/ Restart \/ UNCHANGED vars => out' = out /\ errs' = errs
  BY DEF Crash, Restart, vars
<1>5. CASE out' # out
  <2>1. status' = status /\ errs' = errs
    BY <1>2, <1>3, <1>4, <1>5 DEF Next, RunJob
  <2>2. PICK j \in Jobs : \E S \in SUBSET page[j] :
               InsertRows(j, S) /\ status[j] \in {"pending", "running"}
    BY <1>5, OutputSteps
  <2>3. \A k \in Keys : out'[k] # out[k] => k \in page[j]
    BY <2>2 DEF InsertRows
  <2> QED BY <2>1, <2>2, <2>3 DEF Active
<1>6. CASE out' = out /\ errs' # errs
  BY <1>1, <1>2, <1>3, <1>4, <1>6 DEF Next, RunJob
<1> QED BY <1>5, <1>6

\* How the status of a job changes.
LEMMA StatusSteps ==
  ASSUME IInv, [Next]_vars
  PROVE  \/ status' = status
         \/ \E j \in Jobs :
              /\ out' = out /\ errs' = errs
              /\ \/ status[j] = "none" /\ status' = [status EXCEPT ![j] = "pending"]
                 \/ status[j] \in Active /\ status' = [status EXCEPT ![j] = "running"]
                 \/ \E result \in Terminal :
                      /\ status[j] \in Active
                      /\ result # "failed" => \A k \in Requested(j) : Settled(j, k)
                      /\ status' = [status EXCEPT ![j] = result]
<1> USE DEF sqlite, jobRow, tables, memory, server
<1>1. ASSUME NEW j \in Jobs, pc[j] # "idle" PROVE status[j] \in Active
  BY <1>1 DEF IInv, JobInv, Owned, Active
<1>2. ASSUME NEW j \in Jobs, Start(j)
      PROVE  /\ out' = out /\ errs' = errs
             /\ status[j] = "none" /\ status' = [status EXCEPT ![j] = "pending"]
  BY <1>2 DEF Start
<1>3. ASSUME NEW j \in Jobs, MarkRunning(j)
      PROVE  /\ out' = out /\ errs' = errs
             /\ \/ status' = status
                \/ status[j] \in Active /\ status' = [status EXCEPT ![j] = "running"]
  BY <1>1, <1>3 DEF MarkRunning
<1>4. ASSUME NEW j \in Jobs, Finish(j), status' # status
      PROVE  /\ out' = out /\ errs' = errs /\ status[j] \in Active
             /\ \A k \in Requested(j) : Settled(j, k)
             /\ \E result \in Terminal : status' = [status EXCEPT ![j] = result]
  <2>1. /\ out' = out /\ errs' = errs /\ pc[j] = "finish"
        /\ status' = [status EXCEPT ![j] = Verdict(j)]
    BY <1>4 DEF Finish
  <2>2. Verdict(j) \in Terminal
    BY DEF Verdict, Terminal
  <2> QED BY <1>1, <2>1, <2>2 DEF IInv, JobInv, AllSettled
<1>5. ASSUME NEW j \in Jobs, MarkFailed(j), status' # status
      PROVE  /\ out' = out /\ errs' = errs /\ status[j] \in Active
             /\ status' = [status EXCEPT ![j] = "failed"]
  BY <1>1, <1>5 DEF MarkFailed
<1>6. ASSUME NEW j \in Jobs,
             RunJob(j) /\ ~MarkRunning(j) /\ ~Finish(j) /\ ~MarkFailed(j)
      PROVE  status' = status
  BY <1>6 DEF RunJob, LoadJob, EnsureExecutionReady, SelectSourcePage, ProcessPage,
     WriteBatch, WriteOutputRow, UpsertRecords, AddErrors, UpdateProgress, Panic
<1>7. Crash \/ Restart \/ UNCHANGED vars => status' = status
  BY DEF Crash, Restart, vars
<1>8. "failed" \in Terminal
  BY DEF Terminal
<1>9. ASSUME NEW j \in Jobs, Start(j) \/ RunJob(j), status' # status
      PROVE  /\ out' = out /\ errs' = errs
             /\ \/ status[j] = "none" /\ status' = [status EXCEPT ![j] = "pending"]
                \/ status[j] \in Active /\ status' = [status EXCEPT ![j] = "running"]
                \/ \E result \in Terminal :
                     /\ status[j] \in Active
                     /\ result # "failed" => \A k \in Requested(j) : Settled(j, k)
                     /\ status' = [status EXCEPT ![j] = result]
  BY <1>2, <1>3, <1>4, <1>5, <1>6, <1>8, <1>9
<1> QED BY <1>7, <1>9 DEF Next

\* What EnrichPromise sees of the jobs.
Phase == [j \in Jobs |-> IF status[j] \in Active THEN "active" ELSE status[j]]
SettledRows == [j \in Jobs |-> {k \in Requested(j) : Settled(j, k)}]

LEMMA PromiseStep ==
  ASSUME IInv, [Next]_vars
  PROVE  [Promise!PromiseNext]_(Promise!promiseVars)
<1>1. /\ Promise!promiseVars = <<Phase, SettledRows>>
      /\ Promise!promiseVars' = <<Phase', SettledRows'>>
  BY DEF Promise!promiseVars, Phase, SettledRows, Active
<1>2. (out' = out /\ errs' = errs) => SettledRows' = SettledRows
  BY DEF SettledRows, Settled, RowDone, Requested
<1>3. status' = status => Phase' = Phase
  BY DEF Phase
<1>4. ASSUME NEW j \in Jobs, status' = status, status[j] \in Active,
             \A k \in Keys : out'[k] # out[k] => k \in page[j],
             \A i \in Jobs, k \in Keys : errs'[i][k] # errs[i][k] => k \in page[j],
             SettledRows' # SettledRows
      PROVE  Promise!Settle(j)
  <2>1. page[j] \subseteq Requested(j)
    BY DEF IInv, JobInv, PageAhead
  <2>2. ASSUME NEW i \in Jobs
        PROVE  /\ SettledRows[i] \subseteq SettledRows'[i]
               /\ SettledRows'[i] \ SettledRows[i] \subseteq Requested(i) \cap Requested(j)
    <3>1. Requested(i) \subseteq Keys
      BY DEF Requested
    <3>2. /\ SettledRows[i] = {k \in Requested(i) : Settled(i, k)}
          /\ SettledRows'[i] = {k \in Requested(i) : Settled(i, k)'}
      BY DEF SettledRows, Requested
    <3>3. \A k \in Requested(i) : Settled(i, k) => Settled(i, k)'
      BY <3>1, SettledStays DEF IInv
    <3>4. \A k \in Requested(i) : Settled(i, k)' /\ ~Settled(i, k) => k \in page[j]
      BY <1>4, <3>1 DEF Settled, RowDone
    <3> QED BY <2>1, <3>2, <3>3, <3>4
  <2>3. Phase[j] = "active" /\ Phase' = Phase /\ DOMAIN SettledRows' = Jobs
    BY <1>4 DEF Phase, SettledRows
  <2> QED BY <1>4, <2>2, <2>3 DEF Promise!Settle, Phase, SettledRows, Active
<1>5. ASSUME NEW j \in Jobs, status[j] = "none",
             status' = [status EXCEPT ![j] = "pending"], SettledRows' = SettledRows
      PROVE  Promise!Submit(j)
  <2>1. Phase[j] = "none" /\ Phase' = [Phase EXCEPT ![j] = "active"]
    BY <1>5 DEF Phase, Active, IInv, TypeOK
  <2> QED BY <1>5, <2>1 DEF Promise!Submit, Phase, SettledRows, Active
<1>6. ASSUME NEW j \in Jobs, status[j] \in Active,
             status' = [status EXCEPT ![j] = "running"]
      PROVE  Phase' = Phase
  BY <1>6 DEF Phase, Active, IInv, TypeOK
<1>7. ASSUME NEW j \in Jobs, NEW result \in Terminal, status[j] \in Active,
             result # "failed" => \A k \in Requested(j) : Settled(j, k),
             status' = [status EXCEPT ![j] = result], SettledRows' = SettledRows
      PROVE  Promise!End(j, result)
  <2>1. Phase[j] = "active" /\ Phase' = [Phase EXCEPT ![j] = result]
    BY <1>7 DEF Phase, Active, Terminal, IInv, TypeOK
  <2>2. result # "failed" => SettledRows[j] = Requested(j)
    BY <1>7 DEF SettledRows
  <2> QED BY <1>7, <2>1, <2>2 DEF Promise!End, Phase, SettledRows, Active
<1>8. Terminal = Promise!Ended
  BY DEF Terminal, Promise!Ended
<1>9. CASE status' = status
  BY <1>1, <1>2, <1>3, <1>4, <1>9, SettleSteps DEF Promise!PromiseNext
<1>10. CASE status' # status
  BY <1>1, <1>2, <1>5, <1>6, <1>7, <1>8, <1>10, StatusSteps DEF Promise!PromiseNext
<1> QED BY <1>9, <1>10

\* The jobs keep the promise of EnrichPromise: rows become settled only in an active
\* job that asked for them, a job that reports success has all of its rows settled,
\* and an ended job stays as it is.
THEOREM PromiseKeptHolds == Spec => PromiseKept
<1>1. Init => Promise!PromiseInit
  <2> SUFFICES ASSUME Init PROVE Promise!PromiseInit
    OBVIOUS
  <2>1. Phase = [j \in Jobs |-> "none"]
    BY DEF Init, Phase, Active
  <2>2. \A j \in Jobs : SettledRows[j] \subseteq Requested(j)
    BY DEF SettledRows
  <2>3. SettledRows \in [Jobs -> SUBSET UNION {Requested(j) : j \in Jobs}]
    BY <2>2 DEF SettledRows
  <2>4. \A j \in Jobs : [i \in Jobs |-> Requested(i)][j] = Requested(j)
    OBVIOUS
  <2> QED BY <2>1, <2>2, <2>3, <2>4 DEF Promise!PromiseInit, Phase, SettledRows, Active
<1>2. IInv /\ [Next]_vars => [Promise!PromiseNext]_(Promise!promiseVars)
  BY PromiseStep
<1> QED BY <1>1, <1>2, Invariance, PTL DEF Spec, PromiseKept, Promise!PromiseSpec

---------------------------------------------------------------------------
(***************************************************************************)
(* No goroutine goes round in circles.                                     *)
(***************************************************************************)

LEMMA StagesOrder ==
  /\ StagesLeft["idle"] = 0 /\ StagesLeft["abort"] = 1 /\ StagesLeft["finish"] = 2
  /\ StagesLeft["progress"] = 3 /\ StagesLeft["errors"] = 4 /\ StagesLeft["record"] = 5
  /\ StagesLeft["rowwise"] = 6 /\ StagesLeft["write"] = 7 /\ StagesLeft["process"] = 8
  /\ StagesLeft["select"] = 9 /\ StagesLeft["ready"] = 10 /\ StagesLeft["load"] = 11
  /\ StagesLeft["start"] = 12
BY DEF StagesLeft

\* A step that leaves last_key alone and goes to a later stage.
LEMMA LaterStage ==
  ASSUME NEW j \in Jobs, lastKey'[j] = lastKey[j], StagesLeft[pc'[j]] < StagesLeft[pc[j]]
  PROVE  Closer(j)
BY DEF Closer, Ahead

\* To the goroutine's end from anywhere.
LEMMA ToTheEnd ==
  ASSUME TypeOK, NEW j \in Jobs, pc[j] \notin {"idle", "abort"}, lastKey' = lastKey,
         Abort(j) \/ Exit(j)
  PROVE  Closer(j)
<1>1. pc'[j] \in {"idle", "abort"}
  BY DEF Abort, Exit, Goto, TypeOK
<1>2. pc[j] \in Stages \ {"idle", "abort"}
  BY DEF TypeOK
<1>3. \A s \in Stages \ {"idle", "abort"} : StagesLeft[s] > 1
  BY StagesOrder DEF Stages
<1>4. StagesLeft[pc'[j]] \in {0, 1} /\ StagesLeft[pc[j]] \in Int
  BY <1>1, <1>2, StagesOrder DEF Stages
<1> QED BY <1>2, <1>3, <1>4, LaterStage

\* A batch sent leaves fewer rows to send, or leads to a later stage.
LEMMA BatchSent ==
  ASSUME TypeOK, NEW j \in Jobs, NEW next \in Stages, NEW S \in SUBSET todo[j], S # {},
         lastKey' = lastKey, StagesLeft[next] < StagesLeft[pc[j]],
         Continue(j, todo[j] \ S, next)
  PROVE  Closer(j)
<1>1. CASE todo[j] \ S = {}
  <2>1. pc'[j] = next
    BY <1>1 DEF Continue, Goto, TypeOK
  <2> QED BY <2>1, LaterStage
<1>2. CASE todo[j] \ S # {}
  <2>1. pc' = pc /\ todo'[j] = todo[j] \ S
    BY <1>2 DEF Continue, TypeOK
  <2>2. Fewer(todo'[j], todo[j])
    BY <2>1 DEF Fewer
  <2>3. Ahead(j)' = Ahead(j)
    BY DEF Ahead
  <2> QED BY <2>1, <2>2, <2>3 DEF Closer
<1> QED BY <1>1, <1>2

LEMMA WritesEnd ==
  ASSUME TypeOK, NEW j \in Jobs, WriteBatch(j) \/ WriteOutputRow(j) \/ UpsertRecords(j)
  PROVE  Closer(j)
<1> USE DEF sqlite, jobRow
<1>1. CASE WriteBatch(j)
  <2>1. lastKey' = lastKey /\ pc[j] = "write"
    BY <1>1 DEF WriteBatch
  <2>2. PICK S \in SUBSET todo[j] :
          IsBatch(S, todo[j]) /\ (Continue(j, todo[j] \ S, "record") \/ Goto(j, "rowwise"))
    BY <1>1 DEF WriteBatch
  <2>3. CASE Continue(j, todo[j] \ S, "record")
    BY <2>1, <2>2, <2>3, BatchSent, StagesOrder DEF IsBatch, Stages
  <2>4. CASE Goto(j, "rowwise")
    <3>1. pc'[j] = "rowwise"
      BY <2>4 DEF Goto, TypeOK
    <3>2. StagesLeft[pc'[j]] < StagesLeft[pc[j]]
      BY <2>1, <3>1, StagesOrder
    <3> QED BY <2>1, <3>2, LaterStage
  <2> QED BY <2>2, <2>3, <2>4
<1>2. CASE WriteOutputRow(j)
  <2>1. lastKey' = lastKey /\ pc[j] = "rowwise"
    BY <1>2 DEF WriteOutputRow
  <2>2. PICK k \in todo[j] : Continue(j, todo[j] \ {k}, "record")
    BY <1>2 DEF WriteOutputRow
  <2>3. {k} \in SUBSET todo[j] /\ {k} # {} /\ "record" \in Stages
    BY DEF Stages
  <2>4. StagesLeft["record"] < StagesLeft[pc[j]]
    BY <2>1, StagesOrder
  <2> QED BY <2>1, <2>2, <2>3, <2>4, BatchSent
<1>3. CASE UpsertRecords(j)
  <2>1. lastKey' = lastKey /\ pc[j] = "record"
    BY <1>3 DEF UpsertRecords
  <2>2. PICK S \in SUBSET todo[j] :
          IsBatch(S, todo[j]) /\ (Continue(j, todo[j] \ S, "errors") \/ Abort(j))
    BY <1>3 DEF UpsertRecords
  <2>3. CASE Continue(j, todo[j] \ S, "errors")
    BY <2>1, <2>2, <2>3, BatchSent, StagesOrder DEF IsBatch, Stages
  <2>4. CASE Abort(j)
    BY <2>1, <2>4, ToTheEnd
  <2> QED BY <2>2, <2>3, <2>4
<1> QED BY <1>1, <1>2, <1>3

\* The last row of the page is behind the goroutine now.
LEMMA ProgressCloser ==
  ASSUME IInv, NEW j \in Jobs, UpdateProgress(j)
  PROVE  Closer(j) /\ Ahead(j)' \subseteq Ahead(j)
<1>1. TypeOK /\ pc[j] = "progress"
  BY DEF IInv, UpdateProgress
<1>2. CASE Abort(j) /\ UNCHANGED lastKey
  BY <1>1, <1>2, ToTheEnd DEF Ahead
<1>3. CASE \E k \in page[j] : lastKey' = [lastKey EXCEPT ![j] = ProgressKey(k)]
  <2>1. PICK k \in page[j] : lastKey' = [lastKey EXCEPT ![j] = k]
    BY <1>3 DEF ProgressKey
  <2>2. k \in Requested(j) /\ k > lastKey[j] /\ lastKey'[j] = k
    BY <1>1, <2>1 DEF IInv, JobInv, PageAhead, TypeOK
  <2>3. k \in Nat /\ lastKey[j] \in Nat /\ Requested(j) \subseteq Nat
    <3>1. Keys \subseteq Nat /\ lastKey[j] \in Keys \cup {0} /\ Requested(j) \subseteq Keys
      BY <1>1, KeysAssumption DEF TypeOK, Requested
    <3>2. k \in Requested(j)
      BY <2>2
    <3>3. k \in Nat
      BY <3>1, <3>2
    <3>4. lastKey[j] \in Nat
      <4>1. CASE lastKey[j] \in Keys
        BY <3>1, <4>1
      <4>2. CASE lastKey[j] = 0
        BY <4>2
      <4> QED BY <3>1, <4>1, <4>2
    <3>5. Requested(j) \subseteq Nat
      BY <3>1
    <3> QED BY <3>3, <3>4, <3>5
  <2>4. Ahead(j)' = {q \in Requested(j) : q > k}
    BY <2>2 DEF Ahead, Requested
  <2>5. k \in Ahead(j) /\ k \notin Ahead(j)'
    BY <2>2, <2>3, <2>4 DEF Ahead
  <2>6. Ahead(j)' \subseteq Ahead(j)
    BY <2>2, <2>3, <2>4 DEF Ahead
  <2> QED BY <2>5, <2>6 DEF Closer, Fewer
<1> QED BY <1>2, <1>3 DEF UpdateProgress

LEMMA RunJobCloser ==
  ASSUME IInv, NEW j \in Jobs, RunJob(j)
  PROVE  Closer(j) /\ Ahead(j)' \subseteq Ahead(j)
<1>1. TypeOK
  BY DEF IInv
<1> USE DEF sqlite, jobRow
<1>2. ASSUME lastKey' = lastKey PROVE Ahead(j)' = Ahead(j)
  BY <1>2 DEF Ahead
<1>3. CASE MarkRunning(j)
  <2>1. lastKey' = lastKey /\ pc[j] = "start" /\ pc'[j] \in {"load", "idle"}
    BY <1>1, <1>3 DEF MarkRunning, Exit, Goto, TypeOK
  <2> QED BY <1>2, <2>1, LaterStage, StagesOrder
<1>4. CASE LoadJob(j) \/ EnsureExecutionReady(j) \/ SelectSourcePage(j)
  <2>1. /\ lastKey' = lastKey
        /\ \/ pc[j] = "load" /\ pc'[j] \in {"ready", "abort"}
           \/ pc[j] = "ready" /\ pc'[j] \in {"select", "abort"}
           \/ pc[j] = "select" /\ pc'[j] \in {"process", "finish", "abort"}
    BY <1>1, <1>4 DEF LoadJob, EnsureExecutionReady, SelectSourcePage, Abort, Goto, TypeOK
  <2> QED BY <1>2, <2>1, LaterStage, StagesOrder
<1>5. CASE ProcessPage(j)
  <2>1. lastKey' = lastKey /\ pc[j] = "process" /\ pc'[j] \in {"record", "write"}
    BY <1>1, <1>5 DEF ProcessPage, Goto, TypeOK
  <2> QED BY <1>2, <2>1, LaterStage, StagesOrder
<1>6. CASE WriteBatch(j) \/ WriteOutputRow(j) \/ UpsertRecords(j)
  <2>1. lastKey' = lastKey
    BY <1>6 DEF WriteBatch, WriteOutputRow, UpsertRecords
  <2> QED BY <1>1, <1>2, <1>6, <2>1, WritesEnd
<1>7. CASE AddErrors(j)
  <2>1. lastKey' = lastKey /\ pc[j] = "errors" /\ pc'[j] \in {"progress", "abort"}
    BY <1>1, <1>7 DEF AddErrors, Abort, Goto, TypeOK
  <2> QED BY <1>2, <2>1, LaterStage, StagesOrder
<1>8. CASE UpdateProgress(j)
  BY <1>8, ProgressCloser
<1>9. CASE Finish(j)
  <2>1. lastKey' = lastKey /\ pc[j] = "finish" /\ pc'[j] \in {"idle", "abort"}
    BY <1>1, <1>9 DEF Finish, Exit, Abort, Goto, TypeOK
  <2> QED BY <1>2, <2>1, LaterStage, StagesOrder
<1>10. CASE MarkFailed(j)
  <2>1. lastKey' = lastKey /\ pc[j] = "abort" /\ pc'[j] = "idle"
    BY <1>1, <1>10 DEF MarkFailed, Exit, Goto, TypeOK
  <2> QED BY <1>2, <2>1, LaterStage, StagesOrder
<1>11. CASE Panic(j)
  BY <1>1, <1>2, <1>11, ToTheEnd DEF Panic
<1> QED BY <1>3, <1>4, <1>5, <1>6, <1>7, <1>8, <1>9, <1>10, <1>11 DEF RunJob

\* Rows are left behind only, restarts included, and each step of a goroutine gets
\* it closer to its end.
THEOREM StepsRunOutHolds == Spec => StepsRunOut
<1> DEFINE Good(i) == /\ Ahead(i)' \subseteq Ahead(i)
                      /\ \/ RunJob(i)
                         \/ /\ pc[i] # "idle" /\ up'
                            /\ ~UNCHANGED <<pc[i], cursor[i], page[i], todo[i]>>
                         => Closer(i)
<1>1. ASSUME IInv, Next, NEW i \in Jobs PROVE Good(i)
  <2>1. TypeOK
    BY <1>1 DEF IInv
  <2>4. CASE RunJob(i)
    BY <1>1, <2>4, RunJobCloser
  <2> SUFFICES ASSUME ~RunJob(i) PROVE Good(i)
    BY <2>4
  <2>2. ASSUME NEW j \in Jobs, Start(j) \/ RunJob(j), i # j PROVE Good(i)
    <3>1. UNCHANGED <<lastKey[i], pc[i], cursor[i], page[i], todo[i]>>
      BY <2>1, <2>2, OthersUntouched
    <3>2. Ahead(i)' = Ahead(i)
      BY <3>1 DEF Ahead
    <3> QED BY <3>1, <3>2
  <2>3. CASE Start(i)
    <3>1. pc[i] = "idle"
      BY <1>1, <2>3 DEF IInv, JobInv, Owned, Start
    <3>2. Ahead(i)' = Ahead(i)
      BY <2>3 DEF Start, Ahead
    <3> QED BY <3>1, <3>2
  <2>5. CASE Crash \/ Restart
    <3>1. /\ lastKey' = lastKey
          /\ up' => pc[i] = "idle"
      BY <1>1, <2>5 DEF IInv, JobInv, Owned, Crash, Restart, sqlite, jobRow
    <3>2. Ahead(i)' = Ahead(i)
      BY <3>1 DEF Ahead
    <3> QED BY <3>1, <3>2
  <2> QED BY <1>1, <2>2, <2>3, <2>5 DEF Next
<1>2. ASSUME IInv, [Next]_vars
      PROVE  [\A j \in Jobs :
                /\ Ahead(j)' \subseteq Ahead(j)
                /\ \/ RunJob(j)
                   \/ pc[j] # "idle" /\ up' /\ ~UNCHANGED <<pc[j], cursor[j], page[j], todo[j]>>
                   => Closer(j)]_vars
  BY <1>1, <1>2
<1> QED BY <1>2, Invariance, PTL DEF Spec, StepsRunOut

---------------------------------------------------------------------------
(***************************************************************************)
(* "All rows failed".                                                      *)
(***************************************************************************)

\* The first run of a job, without another job.
Alone(j) == crashes = 0 /\ \A i \in Jobs \ {j} : status[i] = "none"

SuccessRecorded == \E k \in Keys : rec[k] = "succeeded"

\* A success that is recorded is counted, or will be unless the job aborts.
SuccessCounted(j) ==
  \/ succeeded[j] > 0
  \/ pc[j] \in Written /\ good[j] # {}
  \/ pc[j] = "abort"
  \/ pc[j] = "idle" /\ status[j] # "none" /\ message[j] # "all rows failed"

FailedInv(j) ==
  /\ message[j] = "all rows failed" => status[j] = "failed" /\ succeeded[j] = 0
  /\ Alone(j) /\ SuccessRecorded => SuccessCounted(j)

LEMMA PositiveOrZero == \A n \in Nat : (n > 0) <=> (n # 0)
OBVIOUS

\* A job that fails all rows counted no success.
LEMMA MessageStep ==
  ASSUME IInv, NEW j \in Jobs, RunJob(j), message'[j] = "all rows failed",
         message[j] = "all rows failed" => status[j] = "failed"
  PROVE  status'[j] = "failed" /\ succeeded'[j] = 0
<1>1. TypeOK /\ Owned(j)
  BY DEF IInv, JobInv
<1> USE DEF sqlite, jobRow, Goto
<1>2. pc[j] # "idle"
  BY DEF RunJob, MarkRunning, LoadJob, EnsureExecutionReady, SelectSourcePage,
     ProcessPage, WriteBatch, WriteOutputRow, UpsertRecords, AddErrors, UpdateProgress,
     Finish, MarkFailed, Panic
<1>3. message'[j] # message[j]
  BY <1>1, <1>2 DEF Owned
<1>4. CASE Finish(j)
  <2>1. /\ message'[j] = VerdictMessage(Verdict(j)) /\ status'[j] = Verdict(j)
        /\ succeeded' = succeeded
    BY <1>1, <1>3, <1>4 DEF Finish, TypeOK
  <2>2. Verdict(j) = "failed"
    BY <2>1 DEF Verdict, VerdictMessage
  <2>3. ~(succeeded[j] > 0)
    BY <2>2 DEF Verdict
  <2>4. succeeded[j] \in Nat
    BY <1>1 DEF TypeOK
  <2>5. succeeded[j] = 0
    BY <2>3, <2>4, PositiveOrZero
  <2> QED BY <2>1, <2>2, <2>5
<1>5. CASE MarkFailed(j)
  BY <1>1, <1>3, <1>5 DEF MarkFailed, TypeOK
<1>6. CASE MarkRunning(j)
  BY <1>1, <1>3, <1>6 DEF MarkRunning, TypeOK
<1>7. ASSUME ~Finish(j), ~MarkFailed(j), ~MarkRunning(j) PROVE message' = message
  BY <1>7 DEF RunJob, LoadJob, EnsureExecutionReady, SelectSourcePage, ProcessPage,
     WriteBatch, WriteOutputRow, UpsertRecords, AddErrors, UpdateProgress, Panic
<1> QED BY <1>3, <1>4, <1>5, <1>6, <1>7

\* A record that says succeeded is of a row the goroutine has written.
LEMMA RecordCounts ==
  ASSUME IInv, NEW j \in Jobs, UpsertRecords(j), SuccessRecorded',
         SuccessRecorded => SuccessCounted(j)
  PROVE  SuccessCounted(j)'
<1>1. TypeOK /\ pc[j] = "record" /\ succeeded' = succeeded
  BY DEF IInv, UpsertRecords, sqlite, jobRow
<1>2. PICK S \in SUBSET todo[j] :
        \/ RecordRows(j, S) /\ Continue(j, todo[j] \ S, "errors") /\ good' = good
        \/ (RecordRows(j, S) \/ UNCHANGED rec) /\ Abort(j)
  BY DEF UpsertRecords
<1>3. CASE Abort(j)
  BY <1>1, <1>3 DEF Abort, Goto, TypeOK, SuccessCounted
<1>4. CASE RecordRows(j, S) /\ Continue(j, todo[j] \ S, "errors") /\ good' = good
  <2>1. pc'[j] \in Written
    BY <1>1, <1>4 DEF Continue, Goto, TypeOK, Written
  <2>2. CASE good[j] # {}
    BY <1>4, <2>1, <2>2 DEF SuccessCounted
  <2>3. CASE good[j] = {}
    <3>1. SuccessRecorded
      BY <1>4, <2>3 DEF SuccessRecorded, RecordRows, RecordStatus
    <3>2. succeeded[j] > 0
      BY <1>1, <2>3, <3>1 DEF SuccessCounted
    <3> QED BY <1>1, <3>2 DEF SuccessCounted
  <2> QED BY <2>2, <2>3
<1> QED BY <1>2, <1>3, <1>4

\* The rows written are added to the counter.
LEMMA ProgressCounts ==
  ASSUME IInv, NEW j \in Jobs, UpdateProgress(j), SuccessCounted(j)
  PROVE  SuccessCounted(j)'
<1>1. TypeOK /\ pc[j] = "progress" /\ succeeded[j] \in Nat
  BY DEF IInv, UpdateProgress, TypeOK
<1>2. CASE Abort(j)
  BY <1>1, <1>2 DEF Abort, Goto, TypeOK, SuccessCounted
<1>3. CASE succeeded' = [succeeded EXCEPT ![j] = @ + Cardinality(good[j])]
  <2>1. succeeded'[j] = succeeded[j] + Cardinality(good[j])
    BY <1>1, <1>3 DEF TypeOK
  <2>2. good[j] \in SUBSET Keys
    BY <1>1 DEF TypeOK
  <2>3. IsFiniteSet(good[j]) /\ Cardinality(good[j]) \in Nat
    BY <2>2, KeySetFinite
  <2>4. good[j] # {} => Cardinality(good[j]) # 0
    BY <2>3, FS_EmptySet
  <2>5. succeeded[j] > 0 \/ good[j] # {}
    BY <1>1 DEF SuccessCounted
  <2>6. succeeded'[j] > 0
    BY <1>1, <2>1, <2>3, <2>4, <2>5
  <2> QED BY <2>6 DEF SuccessCounted
<1> QED BY <1>2, <1>3 DEF UpdateProgress

\* What the goroutine of a job that runs alone recorded is counted.
LEMMA SuccessStays ==
  ASSUME IInv, NEW j \in Jobs, RunJob(j), SuccessRecorded',
         SuccessRecorded => SuccessCounted(j),
         message[j] = "all rows failed" => status[j] = "failed"
  PROVE  SuccessCounted(j)'
<1>1. TypeOK /\ Owned(j)
  BY DEF IInv, JobInv
<1> USE DEF sqlite, jobRow, tables, Goto, SuccessCounted
<1>2. CASE UpsertRecords(j)
  BY <1>2, RecordCounts
<1>3. ASSUME ~UpsertRecords(j) PROVE rec' = rec /\ pc[j] # "idle"
  BY <1>3 DEF RunJob, MarkRunning, LoadJob, EnsureExecutionReady, SelectSourcePage,
     ProcessPage, WriteBatch, WriteOutputRow, AddErrors, UpdateProgress,
     Finish, MarkFailed, Panic
<1>4. ASSUME ~UpsertRecords(j) PROVE SuccessCounted(j)
  BY <1>3, <1>4 DEF SuccessRecorded
<1>5. CASE UpdateProgress(j)
  BY <1>4, <1>5, ProgressCounts DEF UpdateProgress, UpsertRecords
<1>6. CASE AddErrors(j)
  <2>1. pc'[j] = "abort" \/ (pc'[j] = "progress" /\ good' = good)
    BY <1>1, <1>6 DEF AddErrors, Abort, memory, TypeOK
  <2>2. succeeded' = succeeded /\ pc[j] = "errors" /\ SuccessCounted(j)
    BY <1>4, <1>6 DEF AddErrors, UpsertRecords
  <2> QED BY <2>1, <2>2 DEF Written
<1>7. CASE MarkFailed(j)
  <2>1. /\ \/ status'[j] = "failed" /\ message'[j] = "error"
           \/ status' = status /\ message' = message
        /\ pc[j] = "abort" /\ pc'[j] = "idle"
    BY <1>1, <1>7 DEF MarkFailed, Exit, TypeOK
  <2>2. status[j] # "none" /\ message[j] # "all rows failed"
    BY <1>1, <2>1 DEF Owned
  <2> QED BY <2>1, <2>2
<1>8. CASE Panic(j)
  BY <1>1, <1>8 DEF Panic, Abort, TypeOK
<1>9. CASE MarkRunning(j) \/ LoadJob(j) \/ EnsureExecutionReady(j) \/ SelectSourcePage(j)
           \/ ProcessPage(j) \/ WriteBatch(j) \/ WriteOutputRow(j) \/ Finish(j)
  <2>1. pc[j] \notin Written \cup {"idle", "abort"} /\ succeeded' = succeeded
    BY <1>9 DEF MarkRunning, LoadJob, EnsureExecutionReady, SelectSourcePage,
       ProcessPage, WriteBatch, WriteOutputRow, Finish, Written
  <2>2. SuccessCounted(j)
    BY <1>4, <2>1 DEF UpsertRecords, Written
  <2> QED BY <2>1, <2>2
<1> QED BY <1>2, <1>5, <1>6, <1>7, <1>8, <1>9 DEF RunJob

\* Another job does not leave the state "none" behind; a crash counts.
LEMMA AloneStays ==
  ASSUME IInv, Next, NEW j \in Jobs, up \/ crashes > 0, Alone(j)'
  PROVE  /\ Alone(j)
         /\ Start(j) \/ RunJob(j)
<1>1. TypeOK /\ \A i \in Jobs : Owned(i)
  BY DEF IInv, JobInv
<1>2. ASSUME NEW i \in Jobs, Start(i) \/ RunJob(i) PROVE crashes' = crashes /\ status'[i] # "none"
  <2>1. CASE Start(i)
    BY <1>1, <2>1 DEF Start, TypeOK, server
  <2>2. CASE RunJob(i)
    <3>1. pc[i] # "idle" /\ crashes' = crashes
      BY <2>2 DEF RunJob, MarkRunning, LoadJob, EnsureExecutionReady, SelectSourcePage,
         ProcessPage, WriteBatch, WriteOutputRow, UpsertRecords, AddErrors, UpdateProgress,
         Finish, MarkFailed, Panic, server
    <3>2. status[i] # "none"
      BY <1>1, <3>1 DEF Owned
    <3>3. status' = status \/ \E v \in {"running", "failed", "succeeded", "partial"} : 
                                 status' = [status EXCEPT ![i] = v]
      BY <2>2 DEF RunJob, MarkRunning, LoadJob, EnsureExecutionReady, SelectSourcePage,
         ProcessPage, WriteBatch, WriteOutputRow, UpsertRecords, AddErrors, UpdateProgress,
         Finish, MarkFailed, Panic, sqlite, jobRow, Verdict
    <3> QED BY <1>1, <3>1, <3>2, <3>3 DEF TypeOK
  <2> QED BY <1>2, <2>1, <2>2
<1>3. ~Crash /\ ~Restart
  <2>1. crashes \in Nat
    BY <1>1 DEF TypeOK
  <2>2. crashes' = 0
    BY DEF Alone
  <2>3. ASSUME Crash PROVE FALSE
    BY <2>1, <2>2, <2>3 DEF Crash
  <2>4. ASSUME Restart PROVE FALSE
    BY <2>1, <2>2, <2>4 DEF Restart
  <2> QED BY <2>3, <2>4
<1>4. PICK i \in Jobs : Start(i) \/ RunJob(i)
  BY <1>3 DEF Next
<1>5. i = j
  BY <1>2, <1>4 DEF Alone
<1>6. ASSUME NEW k \in Jobs, k # j PROVE status[k] = "none"
  <2>1. status'[k] = status[k]
    BY <1>1, <1>4, <1>5, <1>6, OthersUntouched
  <2> QED BY <1>6, <2>1 DEF Alone
<1>7. crashes = 0
  BY <1>2, <1>4 DEF Alone
<1> QED BY <1>4, <1>5, <1>6, <1>7 DEF Alone

LEMMA FailedStep ==
  ASSUME IInv, Next, up \/ crashes > 0, NEW j \in Jobs, FailedInv(j)
  PROVE  FailedInv(j)'
<1>1. TypeOK /\ Owned(j)
  BY DEF IInv, JobInv
<1> USE DEF sqlite, jobRow, tables
<1>2. message'[j] = "all rows failed" => status'[j] = "failed" /\ succeeded'[j] = 0
  <2>1. ASSUME NEW i \in Jobs, i # j, Start(i) \/ RunJob(i)
        PROVE  message'[j] = message[j] /\ status'[j] = status[j] /\ succeeded'[j] = succeeded[j]
    <3>1. message' = message \/ \E m : message' = [message EXCEPT ![i] = m]
      BY <2>1 DEF Start, RunJob, MarkRunning, LoadJob, EnsureExecutionReady, SelectSourcePage,
         ProcessPage, WriteBatch, WriteOutputRow, UpsertRecords, AddErrors, UpdateProgress,
         Finish, MarkFailed, Panic
    <3> QED BY <1>1, <2>1, <3>1, OthersUntouched DEF TypeOK
  <2>2. CASE Start(j)
    BY <1>1, <2>2 DEF Start, FailedInv
  <2>3. CASE RunJob(j)
    BY <2>3, MessageStep DEF FailedInv
  <2>4. CASE Crash \/ Restart
    BY <2>4 DEF Crash, Restart, FailedInv
  <2> QED BY <2>1, <2>2, <2>3, <2>4 DEF Next, FailedInv
<1>3. ASSUME Alone(j)', SuccessRecorded' PROVE SuccessCounted(j)'
  <2>1. Alone(j) /\ (Start(j) \/ RunJob(j))
    BY <1>3, AloneStays
  <2>2. SuccessRecorded => SuccessCounted(j)
    BY <2>1 DEF FailedInv
  <2>3. CASE Start(j)
    <3>1. rec' = rec /\ succeeded' = succeeded /\ status[j] = "none"
      BY <2>3 DEF Start
    <3>2. SuccessCounted(j)
      BY <1>3, <2>2, <3>1 DEF SuccessRecorded
    <3>3. succeeded[j] > 0
      BY <1>1, <3>1, <3>2 DEF SuccessCounted, Owned, Written
    <3> QED BY <3>1, <3>3 DEF SuccessCounted
  <2>4. CASE RunJob(j)
    BY <1>3, <2>2, <2>4, SuccessStays DEF FailedInv
  <2> QED BY <2>1, <2>3, <2>4
<1> QED BY <1>2, <1>3 DEF FailedInv

\* "All rows failed" is the truth for a job that runs alone and in one go.
THEOREM AllFailedIsTrueHolds == Spec => []AllFailedIsTrue
<1> DEFINE Inv == (up \/ crashes > 0) /\ \A j \in Jobs : FailedInv(j)
<1>1. Init => Inv
  BY DEF Init, FailedInv, SuccessRecorded
<1>2. ASSUME IInv, Inv, [Next]_vars PROVE Inv'
  <2>1. CASE Next
    <3>1. ASSUME NEW j \in Jobs PROVE FailedInv(j)'
      BY <1>2, <2>1, <3>1, FailedStep
    <3>2. up' \/ crashes' > 0
      <4>1. crashes \in Nat
        BY <1>2 DEF IInv, TypeOK
      <4>2. CASE Crash
        BY <4>1, <4>2 DEF Crash
      <4>3. CASE Restart
        BY <4>3 DEF Restart
      <4>4. ASSUME NEW j \in Jobs, Start(j) \/ RunJob(j) PROVE up' = up /\ crashes' = crashes
        BY <4>4 DEF Start, RunJob, MarkRunning, LoadJob, EnsureExecutionReady,
           SelectSourcePage, ProcessPage, WriteBatch, WriteOutputRow, UpsertRecords,
           AddErrors, UpdateProgress, Finish, MarkFailed, Panic, server
      <4> QED BY <1>2, <2>1, <4>2, <4>3, <4>4 DEF Next
    <3> QED BY <3>1, <3>2
  <2>2. CASE UNCHANGED vars
    BY <1>2, <2>2 DEF vars, sqlite, jobRow, tables, server, memory, FailedInv, Alone,
       SuccessRecorded, SuccessCounted
  <2> QED BY <1>2, <2>1, <2>2
<1>3. IInv /\ Inv => AllFailedIsTrue
  <2>1. ASSUME IInv, Inv, NEW j \in Jobs, message[j] = "all rows failed", Alone(j), SuccessRecorded
        PROVE  FALSE
    <3>1. status[j] = "failed" /\ succeeded[j] = 0 /\ SuccessCounted(j)
      BY <2>1 DEF FailedInv
    <3>2. pc[j] = "idle"
      BY <2>1, <3>1 DEF IInv, JobInv, Owned
    <3>3. ~(succeeded[j] > 0)
      BY <3>1, PositiveOrZero
    <3> QED BY <2>1, <3>1, <3>2, <3>3 DEF SuccessCounted, Written
  <2> QED BY <2>1 DEF AllFailedIsTrue, Alone, SuccessRecorded
<1> QED BY <1>1, <1>2, <1>3, Invariance, PTL DEF Spec
============================================================================
