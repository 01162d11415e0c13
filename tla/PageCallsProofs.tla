--------------------------- MODULE PageCallsProofs --------------------------
(***************************************************************************)
(* Proofs about a page of rows and its calls of the LLM, for any number of *)
(* workers, rows, retries and calls of the other job.                      *)
(***************************************************************************)
EXTENDS PageCalls, FiniteSetTheorems, FunctionTheorems, TLAPS

(***************************************************************************)
(* The inductive invariant of the page.  EachRowOnce counts; the invariant *)
(* says the same by identity: a row is in one place, and in which.         *)
(***************************************************************************)

\* The main goroutine collects only when all rows are handed over.
MainInOrder ==
  /\ main = "send" => taken = 0
  /\ main # "send" => sent = NumRows
  /\ main = "collect" => taken < NumRows

\* A worker that has a row has one that was handed over; no other worker has it.
RowOfOne ==
  /\ \A w \in Workers : Busy(w) => row[w] \in 1..sent
  /\ \A v, w \in Workers : Busy(v) /\ Busy(w) /\ row[v] = row[w] => v = w

\* The results in the channel are of different rows, which no worker has.
ResultOfOne ==
  /\ \A i \in 1..Len(results) : results[i].row \in 1..sent
  /\ \A i, j \in 1..Len(results) : results[i].row = results[j].row => i = j
  /\ \A i \in 1..Len(results), w \in Workers : Busy(w) => row[w] # results[i].row

\* A row is listed once, when no worker has it and its result was received.
Listed(r) == successes[r] + errors[r]
ListedOnce ==
  /\ \A r \in Rows : Listed(r) <= 1 /\ (Listed(r) = 1 => r \in 1..sent)
  /\ \A w \in Workers : Busy(w) => Listed(row[w]) = 0
  /\ \A i \in 1..Len(results) : Listed(results[i].row) = 0

\* A row that was handed over is somewhere.
Somewhere ==
  \A r \in 1..sent :
    \/ \E w \in Workers : Busy(w) /\ row[w] = r
    \/ \E i \in 1..Len(results) : results[i].row = r
    \/ Listed(r) = 1

\* What the number of attempts at a row is when its result is of kind k.
Attempted(k, n) ==
  CASE k = "ok" -> n > 0
    [] k = "validate_source" -> n = 0
    [] k = "parse_json" -> n = MaxRetries + 1
    [] OTHER -> TRUE

\* The attempts at a row are those of the worker that has it.
Attempts ==
  /\ \A r \in Rows : /\ calls[r] <= MaxRetries + 1
                     /\ r > sent => calls[r] = 0
  /\ \A w \in Workers :
       /\ stage[w] \in {"receive", "parse", "exit"} => attempt[w] = 0
       /\ stage[w] = "parse" => calls[row[w]] = 0
       /\ stage[w] = "try" => calls[row[w]] = attempt[w] /\ attempt[w] <= MaxRetries
       /\ stage[w] = "deliver" => Attempted(kind[w], calls[row[w]])
  /\ \A i \in 1..Len(results) : Attempted(results[i].kind, calls[results[i].row])

PageInv ==
  /\ TypeOK
  /\ MainInOrder
  /\ RowOfOne
  /\ ResultOfOne
  /\ ListedOnce
  /\ Somewhere
  /\ Attempts

---------------------------------------------------------------------------
LEMMA InitPage == Init => PageInv
<1> SUFFICES ASSUME Init PROVE PageInv
  OBVIOUS
<1> USE PageAssumption DEF Init, Rows
<1>1. TypeOK
  BY DEF TypeOK, Stages, Kinds
<1>2. MainInOrder /\ RowOfOne /\ ResultOfOne /\ ListedOnce /\ Somewhere
  BY DEF MainInOrder, RowOfOne, ResultOfOne, ListedOnce, Somewhere, Busy, Listed
<1>3. Attempts
  BY DEF Attempts
<1> QED BY <1>1, <1>2, <1>3 DEF PageInv

LEMMA HandOverKeeps ==
  ASSUME PageInv, NEW w \in Workers, HandOver(w)
  PROVE  PageInv'
<1> USE PageAssumption DEF PageInv, Rows
<1>1. /\ main = "send" /\ sent < NumRows /\ stage[w] = "receive"
      /\ sent' = sent + 1
      /\ stage' = [stage EXCEPT ![w] = "parse"]
      /\ row' = [row EXCEPT ![w] = sent + 1]
      /\ UNCHANGED <<main, attempt, kind, results, taken, successes, errors, calls>>
  BY DEF HandOver
<1>2. TypeOK'
  <2>1. sent + 1 \in 0..NumRows /\ sent + 1 \in 1..NumRows
    BY <1>1 DEF TypeOK
  <2>2. /\ sent' \in 0..NumRows
        /\ row' \in [Workers -> Rows \cup {NoRow}]
        /\ stage' \in [Workers -> Stages]
    BY <1>1, <2>1 DEF TypeOK, Stages
  <2> QED BY <1>1, <2>2 DEF TypeOK
<1>3. MainInOrder'
  BY <1>1 DEF MainInOrder
<1>4. /\ Busy(w)' /\ row'[w] = sent + 1
      /\ \A v \in Workers : v # w => (Busy(v)' <=> Busy(v)) /\ row'[v] = row[v]
      /\ sent \in Nat /\ Len(results) \in Nat
  BY <1>1 DEF TypeOK, Busy
<1>5. RowOfOne'
  BY <1>1, <1>4 DEF RowOfOne
<1>6. ResultOfOne'
  BY <1>1, <1>4 DEF ResultOfOne
<1>7. ListedOnce'
  <2>1. Listed(sent + 1) = 0
    BY <1>1, <1>4 DEF ListedOnce, Listed, TypeOK
  <2> QED BY <1>1, <1>4, <2>1 DEF ListedOnce, Listed, TypeOK
<1>8. Somewhere'
  <2> SUFFICES ASSUME NEW r \in 1..(sent + 1)
               PROVE  \/ \E v \in Workers : Busy(v)' /\ row'[v] = r
                      \/ \E i \in 1..Len(results) : results[i].row = r
                      \/ Listed(r) = 1
    BY <1>1 DEF Somewhere, Listed
  <2>1. CASE r = sent + 1
    BY <1>4, <2>1
  <2>2. CASE r # sent + 1
    <3>1. r \in 1..sent
      BY <1>4, <2>2
    <3>2. CASE \E v \in Workers : Busy(v) /\ row[v] = r
      <4>1. PICK v \in Workers : Busy(v) /\ row[v] = r
        BY <3>2
      <4>2. v # w
        BY <1>1, <4>1 DEF Busy
      <4> QED BY <1>4, <4>1, <4>2
    <3> QED BY <3>1, <3>2 DEF Somewhere
  <2> QED BY <2>1, <2>2
<1>9. Attempts'
  BY <1>1, <1>4 DEF Attempts, Attempted, TypeOK, Stages
<1> QED BY <1>2, <1>3, <1>5, <1>6, <1>7, <1>8, <1>9

\* What a worker has, and what a result is of, is a row that was handed over.
LEMMA PlacesAreRows ==
  ASSUME PageInv
  PROVE  /\ sent \in Nat /\ 1..sent \subseteq Rows /\ Len(results) \in Nat
         /\ \A w \in Workers : Busy(w) => row[w] \in 1..sent /\ row[w] \in Rows
         /\ \A i \in 1..Len(results) : /\ results[i] \in Results
                                       /\ results[i].row \in 1..sent
                                     /\ results[i].row \in Rows
<1>1. sent \in 0..NumRows /\ NumRows \in Nat /\ results \in Seq(Results)
  BY PageAssumption DEF PageInv, TypeOK
<1>2. sent \in Nat /\ 1..sent \subseteq Rows
  BY <1>1 DEF Rows
<1>3. Len(results) \in Nat /\ \A i \in 1..Len(results) : results[i] \in Results
  BY <1>1
<1> QED BY <1>2, <1>3 DEF PageInv, RowOfOne, ResultOfOne

\* A step of a worker that only goes from one place with a row to another, or
\* from no row to no row, leaves the places of the rows alone.
LEMMA SamePlaces ==
  ASSUME PageInv, \A w \in Workers : Busy(w)' <=> Busy(w),
         UNCHANGED <<sent, row, results, successes, errors>>
  PROVE  RowOfOne' /\ ResultOfOne' /\ ListedOnce' /\ Somewhere'
BY DEF PageInv, RowOfOne, ResultOfOne, ListedOnce, Somewhere, Listed

LEMMA CloseExitKeep ==
  ASSUME PageInv, Close \/ \E w \in Workers : Exit(w)
  PROVE  PageInv'
<1> USE PageAssumption DEF PageInv
<1>1. CASE Close
  <2>1. TypeOK' /\ MainInOrder'
    <3>1. /\ main = "send" /\ sent = NumRows /\ main' = "collect"
          /\ UNCHANGED <<sent, stage, row, attempt, kind, results, taken,
                         successes, errors, calls>>
      BY <1>1 DEF Close
    <3>2. TypeOK'
      BY <3>1 DEF TypeOK
    <3>3. taken = 0 /\ 0 < NumRows
      BY <3>1, PageAssumption DEF MainInOrder
    <3> QED BY <3>1, <3>2, <3>3 DEF MainInOrder
  <2>2. RowOfOne' /\ ResultOfOne' /\ ListedOnce' /\ Somewhere'
    BY <1>1, SamePlaces DEF Close, Busy
  <2>3. Attempts'
    BY <1>1 DEF Close, Attempts
  <2> QED BY <2>1, <2>2, <2>3
<1>2. CASE \E w \in Workers : Exit(w)
  <2>1. PICK w \in Workers : Exit(w)
    BY <1>2
  <2>2. TypeOK' /\ MainInOrder'
    BY <2>1 DEF Exit, mainVars, TypeOK, MainInOrder, Stages
  <2>3. RowOfOne' /\ ResultOfOne' /\ ListedOnce' /\ Somewhere'
    <3>1. \A v \in Workers : Busy(v)' <=> Busy(v)
      BY <2>1 DEF Exit, Busy, TypeOK
    <3> QED BY <2>1, <3>1, SamePlaces DEF Exit, mainVars
  <2>4. Attempts'
    BY <2>1 DEF Exit, mainVars, Attempts, TypeOK
  <2> QED BY <2>2, <2>3, <2>4
<1> QED BY <1>1, <1>2

\* Parsing the source and panicking.
LEMMA ParsePanicKeep ==
  ASSUME PageInv, NEW w \in Workers, ParseSource(w) \/ Panic(w)
  PROVE  PageInv'
<1> USE PageAssumption DEF PageInv
<1>1. /\ Busy(w)
      /\ \/ stage' = [stage EXCEPT ![w] = "try"]
         \/ stage' = [stage EXCEPT ![w] = "deliver"]
      /\ UNCHANGED <<mainVars, row, attempt, results, calls>>
      /\ kind' = kind \/ \E k \in Kinds : kind' = [kind EXCEPT ![w] = k]
  BY DEF ParseSource, Panic, Recover, HasResult, Busy, Kinds
<1>2. TypeOK' /\ MainInOrder'
  <2>1. stage' \in [Workers -> Stages]
    BY <1>1 DEF TypeOK, Stages
  <2>2. kind' \in [Workers -> Kinds]
    BY <1>1 DEF TypeOK
  <2> QED BY <1>1, <2>1, <2>2 DEF TypeOK, MainInOrder, mainVars
<1>3. RowOfOne' /\ ResultOfOne' /\ ListedOnce' /\ Somewhere'
  <2>1. \A v \in Workers : Busy(v)' <=> Busy(v)
    BY <1>1 DEF Busy, TypeOK
  <2> QED BY <1>1, <2>1, SamePlaces DEF mainVars
<1>4. Attempts'
  <2>1. \A v \in Workers : v # w => stage'[v] = stage[v] /\ kind'[v] = kind[v]
    BY <1>1 DEF TypeOK
  <2>2. CASE ParseSource(w) /\ stage'[w] = "try"
    BY <1>1, <2>1, <2>2 DEF ParseSource, Attempts, mainVars, TypeOK
  <2>3. CASE ParseSource(w) /\ stage'[w] # "try"
    <3>1. stage[w] = "parse" /\ stage'[w] = "deliver" /\ kind'[w] = "validate_source"
      BY <2>3 DEF ParseSource, HasResult, TypeOK
    <3> QED BY <1>1, <2>1, <3>1 DEF Attempts, Attempted, mainVars
  <2>4. CASE Panic(w)
    <3>1. stage'[w] = "deliver" /\ kind'[w] = "panic"
      BY <2>4 DEF Panic, Recover, HasResult, TypeOK
    <3> QED BY <1>1, <2>1, <3>1 DEF Attempts, Attempted, mainVars
  <2> QED BY <2>2, <2>3, <2>4
<1> QED BY <1>2, <1>3, <1>4

\* An attempt at the row of a worker ends.
LEMMA AttemptKeeps ==
  ASSUME PageInv, NEW w \in Workers, AttemptFails(w) \/ AttemptSucceeds(w)
  PROVE  PageInv'
<1> USE PageAssumption DEF PageInv
<1> DEFINE r == row[w]
<1>1. /\ stage[w] = "try" /\ Busy(w) /\ r \in 1..sent /\ r \in Rows
      /\ calls' = [calls EXCEPT ![r] = @ + 1]
      /\ calls[r] = attempt[w] /\ attempt[w] \in 0..MaxRetries
      /\ UNCHANGED <<mainVars, row, results>>
  <2>1. stage[w] = "try" /\ Busy(w)
    BY DEF AttemptFails, AttemptSucceeds, Busy
  <2>2. calls[r] = attempt[w] /\ attempt[w] \in 0..MaxRetries
    BY <2>1 DEF Attempts, TypeOK
  <2> QED BY <2>1, <2>2, PlacesAreRows DEF AttemptFails, AttemptSucceeds
<1>2. \/ /\ AttemptFails(w) /\ attempt[w] # MaxRetries
         /\ attempt' = [attempt EXCEPT ![w] = @ + 1]
         /\ UNCHANGED <<stage, kind>>
      \/ /\ AttemptFails(w) /\ attempt[w] = MaxRetries
         /\ attempt' = [attempt EXCEPT ![w] = @ + 1]
         /\ stage' = [stage EXCEPT ![w] = "deliver"]
         /\ kind' = [kind EXCEPT ![w] = "parse_json"]
      \/ /\ AttemptSucceeds(w)
         /\ UNCHANGED attempt
         /\ stage' = [stage EXCEPT ![w] = "deliver"]
         /\ kind' = [kind EXCEPT ![w] = "ok"]
  BY DEF AttemptFails, AttemptSucceeds, NoTryLeft, HasResult
<1>3. /\ stage' \in [Workers -> Stages] /\ stage'[w] \in {"try", "deliver"}
      /\ kind' \in [Workers -> Kinds]
      /\ attempt' \in [Workers -> 0..(MaxRetries + 1)]
      /\ calls' \in [Rows -> Nat]
      /\ \A v \in Workers : v # w => /\ stage'[v] = stage[v]
                                     /\ kind'[v] = kind[v]
                                    /\ attempt'[v] = attempt[v]
  <2>1. attempt[w] + 1 \in 0..(MaxRetries + 1) /\ calls[r] + 1 \in Nat
    BY <1>1 DEF TypeOK
  <2>2. calls' \in [Rows -> Nat]
    BY <1>1, <2>1 DEF TypeOK
  <2>3. attempt' \in [Workers -> 0..(MaxRetries + 1)]
    BY <1>2, <2>1 DEF TypeOK
  <2>4. stage' \in [Workers -> Stages] /\ stage'[w] \in {"try", "deliver"}
    BY <1>1, <1>2 DEF TypeOK, Stages
  <2>5. kind' \in [Workers -> Kinds]
    BY <1>2 DEF TypeOK, Kinds
  <2>6. \A v \in Workers : v # w => /\ stage'[v] = stage[v]
                                 /\ kind'[v] = kind[v]
                                 /\ attempt'[v] = attempt[v]
    BY <1>2 DEF TypeOK
  <2> QED BY <2>2, <2>3, <2>4, <2>5, <2>6
<1>4. TypeOK' /\ MainInOrder'
  BY <1>1, <1>3 DEF TypeOK, MainInOrder, mainVars
<1>5. RowOfOne' /\ ResultOfOne' /\ ListedOnce' /\ Somewhere'
  <2>1. \A v \in Workers : Busy(v)' <=> Busy(v)
    BY <1>1, <1>3 DEF Busy
  <2> QED BY <1>1, <2>1, SamePlaces DEF mainVars
<1>6. /\ calls'[r] = attempt[w] + 1
      /\ \A s \in Rows : s # r => calls'[s] = calls[s]
  BY <1>1 DEF TypeOK
<1>7. Attempts'
  <2>1. ASSUME NEW s \in Rows
        PROVE  calls'[s] <= MaxRetries + 1 /\ (s > sent' => calls'[s] = 0)
    <3>1. CASE s = r
      BY <1>1, <1>6, <3>1 DEF TypeOK, mainVars
    <3> QED BY <1>1, <1>6, <3>1 DEF Attempts, mainVars
  <2>2. \A v \in Workers : v # w /\ Busy(v) => row[v] # r /\ row[v] \in Rows
    BY <1>1, PlacesAreRows DEF RowOfOne
  <2>3. \A i \in 1..Len(results) : results[i].row # r /\ results[i].row \in Rows
    BY <1>1, PlacesAreRows DEF ResultOfOne
  <2>4. ASSUME NEW v \in Workers, v # w
        PROVE  /\ stage'[v] \in {"receive", "parse", "exit"} => attempt'[v] = 0
               /\ stage'[v] = "parse" => calls'[row'[v]] = 0
               /\ stage'[v] = "try" =>
                    calls'[row'[v]] = attempt'[v] /\ attempt'[v] <= MaxRetries
               /\ stage'[v] = "deliver" => Attempted(kind'[v], calls'[row'[v]])
    <3>1. stage'[v] = stage[v] /\ kind'[v] = kind[v] /\ attempt'[v] = attempt[v]
          /\ row'[v] = row[v]
      BY <1>1, <1>3, <2>4
    <3>2. CASE Busy(v)
      <4>1. calls'[row[v]] = calls[row[v]]
        BY <1>6, <2>2, <2>4, <3>2
      <4> QED BY <3>1, <4>1 DEF Attempts
    <3>3. CASE ~Busy(v)
      BY <3>1, <3>3 DEF Attempts, Busy
    <3> QED BY <3>2, <3>3
  <2>5. /\ stage'[w] = "try" =>
             calls'[row'[w]] = attempt'[w] /\ attempt'[w] <= MaxRetries
        /\ stage'[w] = "deliver" => Attempted(kind'[w], calls'[row'[w]])
    <3>1. row'[w] = r /\ attempt[w] \in Nat
      BY <1>1
    <3>2. CASE AttemptFails(w) /\ attempt[w] # MaxRetries
      <4>1. stage'[w] = "try" /\ attempt'[w] = attempt[w] + 1
        BY <1>1, <1>2, <3>2 DEF TypeOK, AttemptFails, AttemptSucceeds, NoTryLeft
      <4> QED BY <1>1, <1>6, <3>1, <3>2, <4>1
    <3>3. CASE AttemptFails(w) /\ attempt[w] = MaxRetries
      <4>1. stage'[w] = "deliver" /\ kind'[w] = "parse_json"
        BY <3>3 DEF TypeOK, AttemptFails, NoTryLeft, HasResult
      <4> QED BY <1>6, <3>1, <3>3, <4>1 DEF Attempted
    <3>4. CASE AttemptSucceeds(w)
      <4>1. stage'[w] = "deliver" /\ kind'[w] = "ok"
        BY <3>4 DEF TypeOK, AttemptSucceeds, HasResult
      <4> QED BY <1>6, <3>1, <4>1 DEF Attempted
    <3> QED BY <3>2, <3>3, <3>4
  <2>6. \A i \in 1..Len(results) : Attempted(results[i].kind, calls'[results[i].row])
    BY <1>6, <2>3 DEF Attempts
  <2> QED BY <1>1, <1>3, <2>1, <2>4, <2>5, <2>6 DEF Attempts
<1> QED BY <1>4, <1>5, <1>7

\* A worker puts its result in the channel.
LEMMA DeliverKeeps ==
  ASSUME PageInv, NEW w \in Workers, Deliver(w)
  PROVE  PageInv'
<1> DEFINE r == row[w]
           n == Len(results)
           res == [row |-> r, kind |-> kind[w]]
<1>1. /\ stage[w] = "deliver" /\ Busy(w)
      /\ stage' = [stage EXCEPT ![w] = "receive"]
      /\ row' = [row EXCEPT ![w] = NoRow]
      /\ attempt' = [attempt EXCEPT ![w] = 0]
      /\ kind' = [kind EXCEPT ![w] = "ok"]
      /\ UNCHANGED <<main, sent, taken, successes, errors, calls>>
      /\ results' = Append(results, res)
  BY DEF Deliver, Busy, mainVars
<1>2. /\ r \in 1..sent /\ r \in Rows /\ kind[w] \in Kinds /\ res \in Results
      /\ n \in Nat /\ results \in Seq(Results)
  BY <1>1, PlacesAreRows DEF PageInv, TypeOK, Results
<1>3. /\ results' \in Seq(Results) /\ Len(results') = n + 1
      /\ \A i \in 1..n : results'[i] = results[i]
      /\ results'[n + 1].row = r /\ results'[n + 1].kind = kind[w]
  BY <1>1, <1>2
<1>4. /\ stage'[w] = "receive" /\ ~Busy(w)'
      /\ \A v \in Workers : v # w => /\ stage'[v] = stage[v] /\ row'[v] = row[v]
                                     /\ attempt'[v] = attempt[v] /\ kind'[v] = kind[v]
                                    /\ Busy(v)' <=> Busy(v)
      /\ attempt'[w] = 0
      /\ \A v \in Workers : Busy(v)' => v # w /\ Busy(v) /\ row'[v] = row[v]
  <2>1. /\ stage'[w] = "receive" /\ attempt'[w] = 0
        /\ \A v \in Workers : v # w => /\ stage'[v] = stage[v] /\ row'[v] = row[v]
                                       /\ attempt'[v] = attempt[v] /\ kind'[v] = kind[v]
    BY <1>1 DEF PageInv, TypeOK
  <2> QED BY <2>1 DEF Busy
<1>5. TypeOK' /\ MainInOrder'
  <2>1. stage' \in [Workers -> Stages] /\ row' \in [Workers -> Rows \cup {NoRow}]
    BY <1>1 DEF PageInv, TypeOK, Stages
  <2>2. attempt' \in [Workers -> 0..(MaxRetries + 1)] /\ kind' \in [Workers -> Kinds]
    BY <1>1, PageAssumption DEF PageInv, TypeOK, Kinds
  <2> QED BY <1>1, <1>3, <2>1, <2>2 DEF PageInv, TypeOK, MainInOrder
<1>6. RowOfOne'
  BY <1>1, <1>4 DEF PageInv, RowOfOne
<1>7. ResultOfOne'
  <2>1. \A i \in 1..(n + 1) : i = n + 1 \/ i \in 1..n
    BY <1>2
  <2>2. \A i \in 1..n : results[i].row # r /\ results[i].row \in 1..sent
    BY <1>1 DEF PageInv, ResultOfOne
  <2>3. \A i \in 1..(n + 1) : results'[i].row \in 1..sent
    BY <1>2, <1>3, <2>1, <2>2
  <2>4. \A i, j \in 1..(n + 1) : results'[i].row = results'[j].row => i = j
    BY <1>3, <2>1, <2>2 DEF PageInv, ResultOfOne
  <2>5. ASSUME NEW i \in 1..(n + 1), NEW v \in Workers, Busy(v)'
        PROVE  row'[v] # results'[i].row
    <3>1. v # w /\ Busy(v) /\ row'[v] = row[v]
      BY <1>4, <2>5
    <3>2. row[v] # r
      BY <1>1, <3>1 DEF PageInv, RowOfOne
    <3> QED BY <1>3, <2>1, <3>1, <3>2 DEF PageInv, ResultOfOne
  <2> QED BY <1>1, <1>3, <2>3, <2>4, <2>5 DEF ResultOfOne
<1>8. ListedOnce'
  <2>1. \A s : Listed(s)' = Listed(s)
    BY <1>1 DEF Listed
  <2>2. \A i \in 1..(n + 1) : Listed(results'[i].row) = 0
    <3>1. Listed(r) = 0
      BY <1>1 DEF PageInv, ListedOnce
    <3> QED BY <1>2, <1>3, <3>1 DEF PageInv, ListedOnce
  <2>3. ASSUME NEW v \in Workers, Busy(v)'
        PROVE  Listed(row'[v]) = 0
    <3>1. v # w /\ Busy(v) /\ row'[v] = row[v]
      BY <1>4, <2>3
    <3> QED BY <3>1 DEF PageInv, ListedOnce
  <2> QED BY <1>1, <1>3, <2>1, <2>2, <2>3 DEF PageInv, ListedOnce, Listed
<1>9. Somewhere'
  <2> SUFFICES ASSUME NEW s \in 1..sent
               PROVE  \/ \E v \in Workers : Busy(v)' /\ row'[v] = s
                      \/ \E i \in 1..(n + 1) : results'[i].row = s
                      \/ Listed(s) = 1
    BY <1>1, <1>3 DEF Somewhere, Listed
  <2>1. CASE s = r
    BY <1>2, <1>3, <2>1
  <2>2. CASE \E v \in Workers : Busy(v) /\ row[v] = s /\ s # r
    BY <1>4, <2>2
  <2>3. CASE \E i \in 1..n : results[i].row = s
    <3>1. PICK i \in 1..n : results[i].row = s
      BY <2>3
    <3>2. i \in 1..(n + 1) /\ results'[i].row = s
      BY <1>2, <1>3, <3>1
    <3> QED BY <3>2
  <2> QED BY <2>1, <2>2, <2>3 DEF PageInv, Somewhere
<1>10. Attempts'
  <2>1. \A i \in 1..(n + 1) : Attempted(results'[i].kind, calls[results'[i].row])
    <3>1. Attempted(kind[w], calls[r])
      BY <1>1 DEF PageInv, Attempts
    <3>2. \A i \in 1..n : Attempted(results'[i].kind, calls[results'[i].row])
      BY <1>3 DEF PageInv, Attempts
    <3>3. \A i \in 1..(n + 1) : i = n + 1 \/ i \in 1..n
      BY <1>2
    <3> QED BY <1>3, <3>1, <3>2, <3>3
  <2> QED BY <1>1, <1>3, <1>4, <2>1 DEF PageInv, Attempts
<1> QED BY <1>5, <1>6, <1>7, <1>8, <1>9, <1>10 DEF PageInv

\* The main goroutine takes a result out of the channel.
LEMMA CollectKeeps ==
  ASSUME PageInv, CollectResult
  PROVE  PageInv'
<1> DEFINE r == Head(results).row
           n == Len(results)
<1>1. /\ main = "collect" /\ results # <<>> /\ results' = Tail(results)
      /\ taken' = taken + 1
      /\ main' = (IF taken + 1 = NumRows THEN "done" ELSE "collect")
      /\ \/ /\ successes' = [successes EXCEPT ![r] = @ + 1]
            /\ UNCHANGED errors
         \/ /\ errors' = [errors EXCEPT ![r] = @ + 1]
            /\ UNCHANGED successes
      /\ UNCHANGED <<sent, stage, row, attempt, kind, calls>>
  BY DEF CollectResult
<1>2. /\ n \in Nat /\ n > 0 /\ Head(results) = results[1] /\ 1 \in 1..n
      /\ r = results[1].row /\ r \in 1..sent /\ r \in Rows
  <2>1. results \in Seq(Results)
    BY DEF PageInv, TypeOK
  <2>2. n \in Nat /\ n > 0 /\ Head(results) = results[1] /\ 1 \in 1..n
    BY <1>1, <2>1
  <2> QED BY <2>2, PlacesAreRows
<1>3. /\ results' \in Seq(Results) /\ Len(results') = n - 1
      /\ \A i \in 1..(n - 1) : results'[i] = results[i + 1] /\ i + 1 \in 1..n
  <2>1. results \in Seq(Results)
    BY DEF PageInv, TypeOK
  <2> QED BY <1>1, <1>2, <2>1
<1>4. /\ Listed(r) = 0 /\ successes'[r] + errors'[r] = 1
      /\ \A s \in Rows : s # r => successes'[s] + errors'[s] = Listed(s)
      /\ successes' \in [Rows -> Nat] /\ errors' \in [Rows -> Nat]
  <2>1. successes \in [Rows -> Nat] /\ errors \in [Rows -> Nat]
    BY DEF PageInv, TypeOK
  <2>2. Listed(r) = 0
    BY <1>2 DEF PageInv, ListedOnce
  <2>3. /\ successes[r] \in Nat /\ errors[r] \in Nat
        /\ successes[r] = 0 /\ errors[r] = 0
    BY <1>2, <2>1, <2>2 DEF Listed
  <2>4. CASE successes' = [successes EXCEPT ![r] = @ + 1] /\ UNCHANGED errors
    BY <1>2, <2>1, <2>2, <2>3, <2>4 DEF Listed
  <2>5. CASE errors' = [errors EXCEPT ![r] = @ + 1] /\ UNCHANGED successes
    BY <1>2, <2>1, <2>2, <2>3, <2>5 DEF Listed
  <2> QED BY <1>1, <2>4, <2>5
<1>5. TypeOK' /\ MainInOrder'
  <2>1. taken < NumRows /\ sent = NumRows
    BY <1>1 DEF PageInv, MainInOrder
  <2>2. taken + 1 \in 0..NumRows /\ (taken + 1 # NumRows => taken + 1 < NumRows)
    BY <2>1, PageAssumption DEF PageInv, TypeOK
  <2> QED BY <1>1, <1>3, <1>4, <2>1, <2>2 DEF PageInv, TypeOK, MainInOrder
<1>6. RowOfOne' /\ \A w \in Workers : Busy(w)' <=> Busy(w)
  BY <1>1 DEF PageInv, RowOfOne, Busy
<1>7. ResultOfOne'
  <2>1. \A i \in 1..(n - 1) : results'[i].row \in 1..sent
    BY <1>3, PlacesAreRows
  <2>2. ASSUME NEW i \in 1..(n - 1), NEW j \in 1..(n - 1),
               results'[i].row = results'[j].row
        PROVE  i = j
    <3>1. i + 1 = j + 1
      BY <1>3, <2>2 DEF PageInv, ResultOfOne
    <3> QED BY <3>1
  <2>3. \A i \in 1..(n - 1), w \in Workers : Busy(w) => row[w] # results'[i].row
    BY <1>3 DEF PageInv, ResultOfOne
  <2> QED BY <1>1, <1>3, <1>6, <2>1, <2>2, <2>3 DEF ResultOfOne
<1>8. ListedOnce'
  <2>1. \A s \in Rows : /\ successes'[s] + errors'[s] <= 1
                        /\ successes'[s] + errors'[s] = 1 => s \in 1..sent
    BY <1>2, <1>4 DEF PageInv, ListedOnce
  <2>2. ASSUME NEW w \in Workers, Busy(w)
        PROVE  successes'[row[w]] + errors'[row[w]] = 0
    <3>1. row[w] # r /\ row[w] \in Rows
      BY <1>2, <2>2, PlacesAreRows DEF PageInv, ResultOfOne
    <3> QED BY <1>4, <2>2, <3>1 DEF PageInv, ListedOnce
  <2>3. ASSUME NEW i \in 1..(n - 1)
        PROVE  successes'[results'[i].row] + errors'[results'[i].row] = 0
    <3>1. results'[i] = results[i + 1] /\ i + 1 \in 1..n /\ i + 1 # 1
      BY <1>3
    <3>2. results[i + 1].row # r /\ results[i + 1].row \in Rows
      BY <1>2, <3>1, PlacesAreRows DEF PageInv, ResultOfOne
    <3> QED BY <1>4, <3>1, <3>2 DEF PageInv, ListedOnce
  <2>4. row' = row /\ sent' = sent /\ Len(results') = n - 1
    BY <1>1, <1>3
  <2>5. \A w \in Workers : Busy(w)' => successes'[row'[w]] + errors'[row'[w]] = 0
    BY <1>6, <2>2, <2>4
  <2> QED BY <2>1, <2>3, <2>4, <2>5 DEF ListedOnce, Listed
<1>9. Somewhere'
  <2> SUFFICES ASSUME NEW s \in 1..sent
               PROVE  \/ \E v \in Workers : Busy(v) /\ row[v] = s
                      \/ \E i \in 1..(n - 1) : results'[i].row = s
                      \/ successes'[s] + errors'[s] = 1
    BY <1>1, <1>3, <1>6 DEF Somewhere, Listed
  <2>1. CASE s = r
    BY <1>4, <2>1
  <2>2. CASE s # r /\ \E i \in 1..n : results[i].row = s
    <3>1. PICK i \in 1..n : results[i].row = s
      BY <2>2
    <3>2. i # 1
      BY <1>2, <2>2, <3>1
    <3>3. i - 1 \in 1..(n - 1) /\ (i - 1) + 1 = i
      BY <1>2, <3>2
    <3>4. results'[i - 1].row = s
      BY <1>3, <3>1, <3>3
    <3> QED BY <3>3, <3>4
  <2>3. CASE s # r /\ Listed(s) = 1
    BY <1>4, <2>3, PlacesAreRows
  <2> QED BY <2>1, <2>2, <2>3 DEF PageInv, Somewhere
<1>10. Attempts'
  <2>1. \A i \in 1..(n - 1) : Attempted(results'[i].kind, calls[results'[i].row])
    BY <1>3 DEF PageInv, Attempts
  <2> QED BY <1>1, <1>3, <2>1 DEF PageInv, Attempts
<1> QED BY <1>5, <1>6, <1>7, <1>8, <1>9, <1>10 DEF PageInv

LEMMA StepPage == PageInv /\ [Next]_vars => PageInv'
<1> SUFFICES ASSUME PageInv, [Next]_vars PROVE PageInv'
  OBVIOUS
<1>1. CASE UNCHANGED vars
  BY <1>1 DEF vars, PageInv, TypeOK, MainInOrder, RowOfOne, ResultOfOne,
              ListedOnce, Listed, Somewhere, Attempts, Busy
<1>2. CASE Next
  <2>1. CASE Main
    BY <2>1, HandOverKeeps, CloseExitKeep, CollectKeeps DEF Main
  <2>2. ASSUME NEW w \in Workers, Work(w) PROVE PageInv'
    BY <2>2, CloseExitKeep, ParsePanicKeep, AttemptKeeps, DeliverKeeps DEF Work
  <2> QED BY <1>2, <2>1, <2>2 DEF Next
<1> QED BY <1>1, <1>2

\* The invariant of the page holds.
THEOREM PageInvariance == Spec => []PageInv
<1> QED BY InitPage, StepPage, PTL DEF Spec

---------------------------------------------------------------------------
(***************************************************************************)
(* What the invariant says about the page.                                 *)
(***************************************************************************)

\* A set with at most one element, in which x is when it has one.
LEMMA AtMostOne ==
  ASSUME NEW S, NEW x, x \in S, \A y \in S : y = x
  PROVE  Cardinality(S) = 1
<1>1. S = {x}
  OBVIOUS
<1> QED BY <1>1, FS_Singleton

LEMMA RowInOnePlace == PageInv => EachRowOnce
<1> SUFFICES ASSUME PageInv, NEW r \in Rows PROVE Places(r) = 1
  BY DEF EachRowOnce
<1> DEFINE W == {w \in Workers : Busy(w) /\ row[w] = r}
           C == {i \in DOMAIN results : results[i].row = r}
<1>1. /\ DOMAIN results = 1..Len(results) /\ sent \in Nat /\ r \in Nat /\ r >= 1
      /\ successes[r] \in Nat /\ errors[r] \in Nat /\ results \in Seq(Results)
  <2>1. results \in Seq(Results)
    BY DEF PageInv, TypeOK
  <2> QED BY <2>1, PlacesAreRows, PageAssumption DEF PageInv, TypeOK, Rows
<1>2. Places(r) = (IF r > sent THEN 1 ELSE 0) + Cardinality(W) + Cardinality(C)
                  + successes[r] + errors[r]
  BY DEF Places
<1>3. /\ W = {} => Cardinality(W) = 0
      /\ C = {} => Cardinality(C) = 0
  BY FS_EmptySet
<1>4. CASE r > sent
  <2>1. r \notin 1..sent
    BY <1>1, <1>4
  <2>2. W = {} /\ C = {}
    BY <1>1, <2>1, PlacesAreRows
  <2>3. successes[r] + errors[r] = 0
    BY <1>1, <2>1 DEF PageInv, ListedOnce, Listed
  <2> QED BY <1>1, <1>2, <1>3, <1>4, <2>2, <2>3
<1>5. CASE ~(r > sent) /\ \E w \in Workers : Busy(w) /\ row[w] = r
  <2>1. PICK w \in Workers : Busy(w) /\ row[w] = r
    BY <1>5
  <2>2. w \in W /\ \A v \in W : v = w
    BY <2>1 DEF PageInv, RowOfOne
  <2>3. Cardinality(W) = 1
    BY <2>2, AtMostOne
  <2>4. C = {}
    BY <1>1, <2>1 DEF PageInv, ResultOfOne
  <2>5. successes[r] + errors[r] = 0
    BY <2>1 DEF PageInv, ListedOnce, Listed
  <2> QED BY <1>1, <1>2, <1>3, <1>5, <2>3, <2>4, <2>5
<1>6. CASE ~(r > sent) /\ \E i \in 1..Len(results) : results[i].row = r
  <2>1. PICK i \in 1..Len(results) : results[i].row = r
    BY <1>6
  <2>2. i \in C /\ \A j \in C : j = i
    BY <1>1, <2>1 DEF PageInv, ResultOfOne
  <2>3. Cardinality(C) = 1
    BY <2>2, AtMostOne
  <2>4. W = {}
    BY <2>1 DEF PageInv, ResultOfOne
  <2>5. successes[r] + errors[r] = 0
    BY <2>1 DEF PageInv, ListedOnce, Listed
  <2> QED BY <1>1, <1>2, <1>3, <1>6, <2>3, <2>4, <2>5
<1>7. CASE ~(r > sent) /\ Listed(r) = 1
  <2>1. W = {}
    <3>1. \A w \in Workers : Busy(w) => Listed(row[w]) = 0
      BY DEF PageInv, ListedOnce
    <3> QED BY <1>7, <3>1
  <2>2. C = {}
    <3>1. \A i \in 1..Len(results) : Listed(results[i].row) = 0
      BY DEF PageInv, ListedOnce
    <3> QED BY <1>1, <1>7, <3>1
  <2> QED BY <1>1, <1>2, <1>3, <1>7, <2>1, <2>2 DEF Listed
<1>8. ~(r > sent) => r \in 1..sent
  BY <1>1
<1> QED BY <1>4, <1>5, <1>6, <1>7, <1>8 DEF PageInv, Somewhere

\* The results in the channel are of other rows than that of the worker, so
\* there are fewer of them than rows.
LEMMA RoomForResult == PageInv => DeliverNeverBlocks
<1> SUFFICES ASSUME PageInv, NEW w \in Workers, stage[w] = "deliver"
             PROVE  Len(results) < BufferSize
  BY DEF DeliverNeverBlocks
<1> DEFINE n == Len(results)
           f == [i \in 1..n |-> results[i].row]
           T == Rows \ {row[w]}
<1>1. Busy(w) /\ row[w] \in Rows /\ n \in Nat /\ NumRows \in Nat
  BY PlacesAreRows, PageAssumption DEF Busy
<1>2. f \in Injection(1..n, T)
  <2>1. f \in [1..n -> T]
    BY <1>1, PlacesAreRows DEF PageInv, ResultOfOne
  <2>2. \A i, j \in 1..n : f[i] = f[j] => i = j
    BY DEF PageInv, ResultOfOne
  <2> QED BY <2>1, <2>2 DEF Injection, IsInjective
<1>3. IsFiniteSet(Rows) /\ Cardinality(Rows) = NumRows
  BY <1>1, FS_Interval, PageAssumption DEF Rows
<1>4. IsFiniteSet(T) /\ Cardinality(T) = NumRows - 1
  BY <1>1, <1>3, FS_RemoveElement
<1>5. Cardinality(1..n) <= Cardinality(T)
  BY <1>2, <1>4, FS_Injection
<1>6. Cardinality(1..n) = n
  <2>1. \A m \in Nat : Cardinality(1..m) = m
    BY FS_Interval
  <2> QED BY <1>1, <2>1
<1> QED BY <1>1, <1>4, <1>5, <1>6 DEF BufferSize

LEMMA AttemptsBounded == PageInv => RetriesBounded
<1> SUFFICES ASSUME PageInv PROVE RetriesBounded
  OBVIOUS
<1>1. DOMAIN results = 1..Len(results)
  BY DEF PageInv, TypeOK
<1> QED BY <1>1 DEF PageInv, Attempts, Attempted, RetriesBounded

---------------------------------------------------------------------------
(***************************************************************************)
(* The page implements the one step of the page loop.                      *)
(***************************************************************************)

ListedRows == {r \in Rows : Listed(r) = 1}

\* As many rows are listed as results were received, and the page returns with
\* all of them.
AllTaken ==
  /\ Cardinality(ListedRows) = taken
  /\ main = "done" => taken = NumRows

LEMMA ListedFinite == IsFiniteSet(Rows) /\ Cardinality(Rows) = NumRows
                      /\ IsFiniteSet(ListedRows)
<1>1. IsFiniteSet(Rows) /\ Cardinality(Rows) = NumRows
  BY FS_Interval, PageAssumption DEF Rows
<1> QED BY <1>1, FS_Subset DEF ListedRows

LEMMA InitTaken == Init => AllTaken
<1> SUFFICES ASSUME Init PROVE AllTaken
  OBVIOUS
<1>1. ListedRows = {}
  BY DEF Init, ListedRows, Listed
<1> QED BY <1>1, FS_EmptySet DEF Init, AllTaken

\* Only the collection lists rows; it returns only once.
LEMMA StepLists ==
  ASSUME PageInv, AllTaken, [Next]_vars, ~CollectResult
  PROVE  /\ UNCHANGED <<successes, errors, taken>>
         /\ main' = "done" <=> main = "done"
<1>1. CASE Main
  BY <1>1 DEF Main, Close, HandOver
<1>2. ASSUME NEW w \in Workers, Work(w)
      PROVE  UNCHANGED <<main, successes, errors, taken>>
  BY <1>2 DEF Work, Exit, ParseSource, AttemptFails, AttemptSucceeds, Panic,
              Deliver, mainVars
<1>3. CASE UNCHANGED vars
  BY <1>3 DEF vars
<1> QED BY <1>1, <1>2, <1>3 DEF Next

LEMMA StepTaken == PageInv /\ AllTaken /\ [Next]_vars => AllTaken'
<1> SUFFICES ASSUME PageInv, AllTaken, [Next]_vars PROVE AllTaken'
  OBVIOUS
<1>1. CASE ~CollectResult
  <2>1. ListedRows' = ListedRows
    BY <1>1, StepLists DEF ListedRows, Listed
  <2> QED BY <1>1, <2>1, StepLists DEF AllTaken
<1>2. CASE CollectResult
  <2> DEFINE r == Head(results).row
  <2>1. /\ main = "collect" /\ results # <<>>
        /\ taken' = taken + 1
        /\ main' = (IF taken + 1 = NumRows THEN "done" ELSE "collect")
        /\ \/ /\ successes' = [successes EXCEPT ![r] = @ + 1]
              /\ UNCHANGED errors
           \/ /\ errors' = [errors EXCEPT ![r] = @ + 1]
              /\ UNCHANGED successes
    BY <1>2 DEF CollectResult
  <2>2. r \in Rows /\ Listed(r) = 0
    <3>1. results \in Seq(Results)
      BY DEF PageInv, TypeOK
    <3>2. 1 \in 1..Len(results) /\ Head(results) = results[1]
      BY <2>1, <3>1
    <3> QED BY <3>2, PlacesAreRows DEF PageInv, ListedOnce
  <2>3. ListedRows' = ListedRows \cup {r} /\ r \notin ListedRows
    <3>1. successes \in [Rows -> Nat] /\ errors \in [Rows -> Nat]
      BY DEF PageInv, TypeOK
    <3>2. successes'[r] + errors'[r] = 1
      BY <2>1, <2>2, <3>1 DEF Listed
    <3>3. \A s \in Rows : s # r => successes'[s] + errors'[s] = Listed(s)
      BY <2>1, <3>1 DEF Listed
    <3>4. ListedRows' = {s \in Rows : successes'[s] + errors'[s] = 1}
      BY DEF ListedRows, Listed
    <3> QED BY <2>2, <3>2, <3>3, <3>4 DEF ListedRows
  <2>4. Cardinality(ListedRows') = Cardinality(ListedRows) + 1
    BY <2>3, ListedFinite, FS_AddElement
  <2> QED BY <2>1, <2>4 DEF AllTaken
<1> QED BY <1>1, <1>2

InOneList ==
  \A r \in Rows : \/ successes[r] = 1 /\ errors[r] = 0
                  \/ successes[r] = 0 /\ errors[r] = 1

LEMMA AllListed == PageInv /\ AllTaken /\ main = "done" => InOneList
<1> SUFFICES ASSUME PageInv, AllTaken, main = "done" PROVE InOneList
  OBVIOUS
<1>1. Cardinality(ListedRows) = Cardinality(Rows)
  BY ListedFinite DEF AllTaken
<1>2. ListedRows = Rows
  BY <1>1, ListedFinite, FS_Subset DEF ListedRows
<1>3. \A r \in Rows : successes[r] + errors[r] = 1
  BY <1>2 DEF ListedRows, Listed
<1> QED BY <1>3 DEF PageInv, TypeOK, InOneList

LEMMA StepReturns ==
  ASSUME PageInv, AllTaken, [Next]_vars, PageInv', AllTaken'
  PROVE  [Outcome!Return]_<<main = "done",
            IF main = "done" THEN {r \in Rows : successes[r] = 1} ELSE {},
            IF main = "done" THEN {r \in Rows : errors[r] = 1} ELSE {}>>
<1>1. CASE ~CollectResult
  BY <1>1, StepLists
<1>2. CASE CollectResult
  <2>1. main = "collect"
    BY <1>2 DEF CollectResult
  <2>2. CASE main' # "done"
    BY <2>1, <2>2
  <2>3. CASE main' = "done"
    <3> DEFINE S == {r \in Rows : successes'[r] = 1}
               E == {r \in Rows : errors'[r] = 1}
    <3>1. (PageInv /\ AllTaken /\ main = "done" => InOneList)'
      BY AllListed, PTL
    <3>2. S \in SUBSET Rows /\ E = Rows \ S
      BY <2>3, <3>1 DEF InOneList
    <3> QED BY <2>1, <2>3, <3>2 DEF Outcome!Return
  <2> QED BY <2>2, <2>3
<1> QED BY <1>1, <1>2

\* processPage takes the one step the page loop takes for a page: it returns
\* once, with every row in exactly one of its two lists, whichever workers
\* panic, fail or finish first.
THEOREM PageImplementsOutcome == Spec => Outcome!Spec
<1>1. Init => Outcome!Init
  BY DEF Init, Outcome!Init
<1>2. Init => PageInv /\ AllTaken
  BY InitPage, InitTaken
<1>3. PageInv /\ AllTaken /\ [Next]_vars => PageInv' /\ AllTaken'
  BY StepPage, StepTaken
<1> QED BY <1>1, <1>2, <1>3, StepReturns, PTL DEF Spec, Outcome!Spec

---------------------------------------------------------------------------
(***************************************************************************)
(* The composition: its steps are steps of the page and of the limiter, so *)
(* what is proved of each of them holds.                                   *)
(***************************************************************************)

CallLimiter == INSTANCE ResourceLimiterProofs WITH
  Resources  <- {SharedResource},
  Workers    <- Callers,
  ResourceOf <- [c \in Clients |-> SharedResource],
  ClientOf   <- [w \in Callers |-> IF w \in Workers THEN PageClient ELSE OtherClient],
  Timed      <- Workers

LEMMA StepOfPage == [CallNext]_callVars => [Next]_vars
<1> SUFFICES ASSUME [CallNext]_callVars PROVE [Next]_vars
  OBVIOUS
<1>1. CASE MainGoesOn
  BY <1>1 DEF MainGoesOn, Next
<1>2. CASE Others
  BY <1>2 DEF Others
<1>3. CASE UNCHANGED callVars
  BY <1>3 DEF callVars
<1>4. ASSUME NEW w \in Workers, WorkerGoesOn(w) \/ StartCall(w)
      PROVE  [Next]_vars
  BY <1>4 DEF WorkerGoesOn, StartCall, OwnWork, NoModel, TimeOut, EndCall, PanicInCall,
              Next, Work
<1> QED BY <1>1, <1>2, <1>3, <1>4 DEF CallNext

LEMMA StepOfLimiter == [CallNext]_callVars => [Limiter!Next]_limiterVars
<1> SUFFICES ASSUME [CallNext]_callVars PROVE [Limiter!Next]_limiterVars
  OBVIOUS
<1>1. CASE MainGoesOn
  BY <1>1 DEF MainGoesOn
<1>2. CASE Others
  BY <1>2 DEF Others, Limiter!Next, Callers, Clients
<1>3. CASE UNCHANGED callVars
  BY <1>3 DEF callVars
<1>4. ASSUME NEW w \in Workers, WorkerGoesOn(w) \/ StartCall(w)
      PROVE  [Limiter!Next]_limiterVars
  BY <1>4 DEF WorkerGoesOn, StartCall, OwnWork, NoModel, TimeOut, EndCall, PanicInCall,
              GivesBack, Limiter!Next, Callers
<1> QED BY <1>1, <1>2, <1>3, <1>4 DEF CallNext

\* Calling through the limiter only restricts what the page does.
THEOREM PageInCalls == CallSpec => Spec
<1>1. CallInit => Init
  BY DEF CallInit
<1> QED BY <1>1, StepOfPage, PTL DEF CallSpec, Spec

\* The instance of the limiter meets the assumptions of ResourceLimiter.
LEMMA LimiterAssumptions ==
  /\ [c \in Clients |-> SharedResource] \in [Clients -> {SharedResource}]
  /\ [w \in Callers |-> IF w \in Workers THEN PageClient ELSE OtherClient]
       \in [Callers -> Clients]
  /\ Workers \subseteq Callers
  /\ CallLimiter!IsFiniteSet(Callers)
  /\ Requests \subseteq Int /\ Unlimited \notin Int /\ None \notin Entries
<1>1. IsFiniteSet(Callers)
  BY PageAssumption, CallsAssumption, FS_Union DEF Callers
<1>2. CallLimiter!IsFiniteSet(Callers)
  BY <1>1 DEF IsFiniteSet, CallLimiter!IsFiniteSet
<1> QED BY <1>2, CallsAssumption DEF Callers, Clients

\* What is proved of the limiter holds of its instance in PageCalls: the two
\* instances say the same.
LEMMA LimiterInit == Limiter!Init => CallLimiter!LimiterInv
<1>1. Limiter!Init => CallLimiter!Init
  BY DEF Limiter!Init, CallLimiter!Init, Limiter!Limits, CallLimiter!Limits
<1>2. CallLimiter!Init => CallLimiter!LimiterInv
  BY LimiterAssumptions, CallLimiter!InitLimiter
<1> QED BY <1>1, <1>2

LEMMA LimiterStep ==
  CallLimiter!LimiterInv /\ [Limiter!Next]_limiterVars => CallLimiter!LimiterInv'
<1>1. CallLimiter!LimiterInv /\ [CallLimiter!Next]_(CallLimiter!vars) => CallLimiter!LimiterInv'
  BY LimiterAssumptions, CallLimiter!StepLimiter
<1>2. [Limiter!Next]_limiterVars => [CallLimiter!Next]_(CallLimiter!vars)
  BY DEF limiterVars, CallLimiter!vars, Limiter!Next, CallLimiter!Next,
     Limiter!SaveLLM, CallLimiter!SaveLLM, Limiter!NewResourceClient,
     CallLimiter!NewResourceClient, Limiter!GetOrCreate, CallLimiter!GetOrCreate,
     Limiter!TakeSlot, CallLimiter!TakeSlot, Limiter!GiveUp, CallLimiter!GiveUp,
     Limiter!Release, CallLimiter!Release, Limiter!Limits, CallLimiter!Limits,
     Limiter!Resource, CallLimiter!Resource, Limiter!Reused, CallLimiter!Reused,
     Limiter!InUse, CallLimiter!InUse, Limiter!ReleasedEntry, CallLimiter!ReleasedEntry
<1> QED BY <1>1, <1>2

LEMMA LimiterBound == CallLimiter!LimiterInv => ResourceBound
<1>1. CallLimiter!LimiterInv => CallLimiter!ResourceBound
  BY LimiterAssumptions, CallLimiter!CallsBounded
<1>2. CallLimiter!ResourceBound => ResourceBound
  BY DEF ResourceBound, Limiter!ResourceBound, CallLimiter!ResourceBound,
     Limiter!OneLimit, CallLimiter!OneLimit, Limiter!Limits, CallLimiter!Limits,
     Limiter!CallsOn, CallLimiter!CallsOn, Limiter!Limited, CallLimiter!Limited,
     Limiter!Calling, CallLimiter!Calling, Limiter!Resource, CallLimiter!Resource,
     Limiter!Cardinality, CallLimiter!Cardinality
<1> QED BY <1>1, <1>2

---------------------------------------------------------------------------
(***************************************************************************)
(* The inductive invariant of the composition.                             *)
(***************************************************************************)

\* A worker calls the LLM, or waits for a slot, only in an attempt.
CallsInAttempt == \A w \in Workers : pc[w] # "idle" => stage[w] = "try"

CallInv == PageInv /\ CallLimiter!LimiterInv /\ CallsInAttempt

LEMMA CallTypes ==
  CallInv => pc \in [Callers -> {"idle", "wait", "call"}] /\ stage \in [Workers -> Stages]
BY DEF CallInv, PageInv, TypeOK, CallLimiter!LimiterInv, CallLimiter!TypeOK

LEMMA InitCalls == CallInit => CallInv
BY InitPage, LimiterInit DEF CallInit, CallInv, CallsInAttempt, Limiter!Init, Callers

\* The calls of the other job are not those of the page.
LEMMA OthersKeepCalls ==
  ASSUME CallInv, Others
  PROVE  vars' = vars /\ \A w \in Workers : pc'[w] = pc[w]
<1>1. CASE UNCHANGED pc
  BY <1>1 DEF Others
<1>2. ASSUME NEW v \in OtherCaller,
             Limiter!GetOrCreate(v) \/ Limiter!TakeSlot(v) \/ Limiter!Release(v)
      PROVE  \A w \in Workers : pc'[w] = pc[w]
  <2>1. v \in Callers /\ v \notin Workers
    BY CallsAssumption DEF Callers
  <2> QED BY <1>2, <2>1, CallTypes
          DEF Limiter!GetOrCreate, Limiter!TakeSlot, Limiter!Release, Callers
<1> QED BY <1>1, <1>2 DEF Others, Limiter!SaveLLM, Limiter!NewResourceClient

LEMMA StepCalls == CallInv /\ [CallNext]_callVars => CallInv'
<1> SUFFICES ASSUME CallInv, [CallNext]_callVars PROVE CallInv'
  OBVIOUS
<1>1. PageInv' /\ CallLimiter!LimiterInv'
  BY StepOfPage, StepPage, StepOfLimiter, LimiterStep DEF CallInv
<1>2. CallsInAttempt'
  <2>1. CASE MainGoesOn
    <3>1. pc' = pc /\ Main
      BY <2>1 DEF MainGoesOn, limiterVars
    <3>2. CASE \E v \in Workers : HandOver(v)
      <4>1. PICK v \in Workers : HandOver(v)
        BY <3>2
      <4>2. pc[v] = "idle" /\ \A w \in Workers : w # v => stage'[w] = stage[w]
        BY <4>1, CallTypes DEF HandOver, CallInv, CallsInAttempt
      <4> QED BY <3>1, <4>2 DEF CallInv, CallsInAttempt
    <3>3. CASE Close \/ CollectResult
      BY <3>1, <3>3 DEF Close, CollectResult, CallInv, CallsInAttempt
    <3> QED BY <3>1, <3>2, <3>3 DEF Main
  <2>2. CASE Others
    <3>1. stage' = stage
      BY <2>2 DEF Others, vars
    <3>2. \A w \in Workers : pc'[w] = pc[w]
      BY <2>2, OthersKeepCalls
    <3> QED BY <3>1, <3>2 DEF CallInv, CallsInAttempt
  <2>3. ASSUME NEW w \in Workers, StartCall(w) PROVE CallsInAttempt'
    <3>1. stage[w] = "try" /\ stage' = stage
      BY <2>3 DEF StartCall, vars
    <3>2. \A v \in Workers : v # w => pc'[v] = pc[v]
      BY <2>3, CallTypes DEF StartCall, Limiter!GetOrCreate, Limiter!TakeSlot, Callers
    <3> QED BY <3>1, <3>2 DEF CallInv, CallsInAttempt
  <2>4. ASSUME NEW w \in Workers, OwnWork(w) PROVE CallsInAttempt'
    <3>1. pc' = pc /\ (pc[w] = "idle" \/ stage[w] # "try")
      BY <2>4 DEF OwnWork, NoModel, limiterVars, Exit, ParseSource, Deliver
    <3>2. \A v \in Workers : v # w => stage'[v] = stage[v]
      BY <2>4, CallTypes DEF OwnWork, NoModel, AttemptFails, Exit, ParseSource, Deliver, Panic,
         Recover, HasResult
    <3> QED BY <3>1, <3>2 DEF CallInv, CallsInAttempt
  <2>5. ASSUME NEW w \in Workers, TimeOut(w) \/ EndCall(w) \/ PanicInCall(w)
        PROVE  CallsInAttempt'
    <3>1. \A v \in Workers : v # w => stage'[v] = stage[v]
      BY <2>5, CallTypes DEF TimeOut, EndCall, PanicInCall, AttemptFails,
         AttemptSucceeds, Panic, Recover, HasResult
    <3>2. pc' = [pc EXCEPT ![w] = "idle"]
      BY <2>5 DEF TimeOut, EndCall, PanicInCall, GivesBack, Limiter!GiveUp, Limiter!Release
    <3>3. pc'[w] = "idle" /\ \A v \in Workers : v # w => pc'[v] = pc[v]
      BY <3>2, CallTypes DEF Callers
    <3> QED BY <3>1, <3>3 DEF CallInv, CallsInAttempt
  <2>6. CASE UNCHANGED callVars
    BY <2>6 DEF callVars, vars, limiterVars, CallInv, CallsInAttempt
  <2> QED BY <2>1, <2>2, <2>3, <2>4, <2>5, <2>6 DEF CallNext, WorkerGoesOn
<1> QED BY <1>1, <1>2 DEF CallInv

\* The invariant of the composition holds.
THEOREM CallInvariance == CallSpec => []CallInv
<1> QED BY InitCalls, StepCalls, PTL DEF CallSpec

---------------------------------------------------------------------------
(***************************************************************************)
(* What the invariant says about the page and its calls.                   *)
(***************************************************************************)

\* No row is lost and none is processed or reported twice, whichever workers
\* panic and whichever attempts fail or time out.
THEOREM EachRowOnceHolds == CallSpec => []EachRowOnce
<1>1. CallInv => EachRowOnce
  BY RowInOnePlace DEF CallInv
<1> QED BY <1>1, CallInvariance, PTL

\* A worker never waits for room in the channel of results.
THEOREM DeliverNeverBlocksHolds == CallSpec => []DeliverNeverBlocks
<1>1. CallInv => DeliverNeverBlocks
  BY RoomForResult DEF CallInv
<1> QED BY <1>1, CallInvariance, PTL

\* A row has at most MaxRetries + 1 attempts, and exactly as many when it is
\* given up.
THEOREM RetriesBoundedHolds == CallSpec => []RetriesBounded
<1>1. CallInv => RetriesBounded
  BY AttemptsBounded DEF CallInv
<1> QED BY <1>1, CallInvariance, PTL

\* A worker refers to a slot only during a call, timeouts and panics included.
THEOREM SlotOnlyDuringCallHolds == CallSpec => []SlotOnlyDuringCall
<1>1. CallInv => SlotOnlyDuringCall
  <2> SUFFICES ASSUME CallInv PROVE SlotOnlyDuringCall
    OBVIOUS
  <2>1. \A w \in Workers : pc[w] = "idle" => entry[w] = None
    BY DEF CallInv, CallLimiter!LimiterInv, CallLimiter!EntryKept, Callers
  <2> QED BY <2>1 DEF CallInv, CallsInAttempt, SlotOnlyDuringCall
<1> QED BY <1>1, CallInvariance, PTL

\* The calls of the page and of the other job together stay within the limit.
THEOREM CallsWithinLimit == CallSpec => []ResourceBound
<1>1. CallInv => ResourceBound
  BY LimiterBound DEF CallInv
<1> QED BY <1>1, CallInvariance, PTL

\* Also with its calls a page implements the one step of the page loop.
THEOREM CallsImplementOutcome == CallSpec => Outcome!Spec
<1> QED BY PageInCalls, PageImplementsOutcome, PTL

---------------------------------------------------------------------------
(***************************************************************************)
(* The page ends: its goroutines never all wait for one another, and none  *)
(* of them goes round in circles.                                          *)
(***************************************************************************)

\* No worker leaves before all rows are handed over.
LeaveAfterClose == main = "send" => \A w \in Workers : stage[w] # "exit"

LEMMA StepLeave ==
  ASSUME PageInv, LeaveAfterClose, [Next]_vars
  PROVE  LeaveAfterClose'
<1>1. stage \in [Workers -> Stages]
  BY DEF PageInv, TypeOK
<1>2. CASE Main
  <2>1. CASE Close \/ CollectResult
    BY <2>1 DEF Close, CollectResult, LeaveAfterClose
  <2>2. ASSUME NEW w \in Workers, HandOver(w) PROVE LeaveAfterClose'
    BY <1>1, <2>2 DEF HandOver, LeaveAfterClose
  <2> QED BY <1>2, <2>1, <2>2 DEF Main
<1>3. ASSUME NEW w \in Workers, Work(w) PROVE LeaveAfterClose'
  BY <1>1, <1>3 DEF Work, Exit, ParseSource, AttemptFails, AttemptSucceeds, Panic,
     Recover, Deliver, HasResult, mainVars, LeaveAfterClose
<1>4. CASE UNCHANGED vars
  BY <1>4 DEF vars, LeaveAfterClose
<1> QED BY <1>2, <1>3, <1>4 DEF Next

\* Fewer results taken than rows: some row is not in the lists.
LEMMA SomeRowOut ==
  ASSUME AllTaken, taken < NumRows, taken \in Nat
  PROVE  \E r \in Rows : Listed(r) # 1
<1>1. SUFFICES ASSUME \A r \in Rows : Listed(r) = 1 PROVE FALSE
  OBVIOUS
<1>2. ListedRows = Rows
  BY <1>1 DEF ListedRows
<1> QED BY <1>2, ListedFinite, PageAssumption DEF AllTaken

\* The goroutines of a page do not all wait for one another: when a worker has a row
\* it can go on, and when none has one, rows are still to be handed over or a result is
\* there.
LEMMA SomeoneGoesOn == PageInv /\ AllTaken /\ LeaveAfterClose => NeverStuck
<1> SUFFICES ASSUME PageInv, AllTaken, LeaveAfterClose PROVE NeverStuck
  OBVIOUS
<1>1. \A w \in Workers : Busy(w) => WorkerCanGoOn(w)
  BY RoomForResult DEF Busy, WorkerCanGoOn, DeliverNeverBlocks
<1>2. CASE main = "send"
  <2>1. PICK w \in Workers : TRUE
    BY PageAssumption
  <2>2. Busy(w) \/ stage[w] = "receive"
    BY <1>2 DEF PageInv, TypeOK, Stages, LeaveAfterClose, Busy
  <2>3. sent = NumRows \/ Busy(w) \/ MainCanGoOn
    BY <1>2, <2>2 DEF MainCanGoOn
  <2> QED BY <1>1, <1>2, <2>3 DEF NeverStuck, MainCanGoOn
<1>3. CASE main = "collect"
  <2>1. taken < NumRows /\ sent = NumRows /\ taken \in Nat
    BY <1>3 DEF PageInv, MainInOrder, TypeOK
  <2>2. PICK r \in Rows : Listed(r) # 1
    BY <2>1, SomeRowOut
  <2>3. \/ \E w \in Workers : Busy(w)
        \/ \E i \in 1..Len(results) : results[i].row = r
    BY <2>1, <2>2 DEF PageInv, Somewhere, Rows
  <2>4. CASE \E i \in 1..Len(results) : results[i].row = r
    <3>1. results # <<>>
      BY <2>4 DEF PageInv, TypeOK
    <3> QED BY <1>3, <3>1 DEF NeverStuck, MainCanGoOn
  <2> QED BY <1>1, <1>3, <2>3, <2>4 DEF NeverStuck
<1>4. CASE main = "done"
  <2>1. ListedRows = Rows
    <3>1. Cardinality(ListedRows) = Cardinality(Rows)
      BY <1>4, ListedFinite DEF AllTaken
    <3> QED BY <3>1, ListedFinite, FS_Subset DEF ListedRows
  <2>2. ASSUME NEW w \in Workers, Busy(w) PROVE FALSE
    <3>1. row[w] \in Rows /\ Listed(row[w]) = 0
      BY <2>2, PlacesAreRows DEF PageInv, ListedOnce
    <3> QED BY <2>1, <3>1 DEF ListedRows
  <2> QED BY <1>4, <2>2 DEF NeverStuck
<1> QED BY <1>2, <1>3, <1>4 DEF PageInv, TypeOK

\* Nor do they in the composition with the limiter.
THEOREM NeverStuckHolds == CallSpec => []NeverStuck
<1>1. Init => AllTaken /\ LeaveAfterClose
  BY InitTaken DEF Init, LeaveAfterClose
<1>2. PageInv /\ AllTaken /\ LeaveAfterClose /\ [Next]_vars => AllTaken' /\ LeaveAfterClose'
  BY StepTaken, StepLeave
<1>3. Spec => [](AllTaken /\ LeaveAfterClose)
  BY <1>1, <1>2, PageInvariance, PTL DEF Spec
<1> QED BY <1>3, PageInCalls, PageInvariance, SomeoneGoesOn, PTL

LEMMA LeftOrder ==
  /\ MainLeft["send"] = 2 /\ MainLeft["collect"] = 1 /\ MainLeft["done"] = 0
  /\ StagesLeft["parse"] = 4 /\ StagesLeft["try"] = 3 /\ StagesLeft["deliver"] = 2
  /\ StagesLeft["receive"] = 1 /\ StagesLeft["exit"] = 0
  /\ WaitsLeft["idle"] = 2 /\ WaitsLeft["wait"] = 1 /\ WaitsLeft["call"] = 0
BY DEF MainLeft, StagesLeft, WaitsLeft

LEMMA MainCloser == ASSUME CallInv, Main PROVE Closer
<1>1. sent \in 0..NumRows /\ taken \in 0..NumRows /\ NumRows \in Nat
  BY PageAssumption DEF CallInv, PageInv, TypeOK
<1>2. CASE Close
  <2>1. main = "send" /\ main' = "collect"
    BY <1>2 DEF Close
  <2> QED BY <2>1, LeftOrder DEF Closer
<1>3. ASSUME NEW w \in Workers, HandOver(w) PROVE Closer
  <2>1. main' = main /\ sent < NumRows /\ sent' = sent + 1
    BY <1>3 DEF HandOver
  <2> QED BY <1>1, <2>1 DEF Closer
<1>4. CASE CollectResult
  <2>1. /\ main = "collect" /\ sent' = sent /\ taken' = taken + 1
        /\ main' = IF taken' = NumRows THEN "done" ELSE "collect"
    BY <1>4 DEF CollectResult
  <2>2. taken < NumRows
    BY <2>1 DEF CallInv, PageInv, MainInOrder
  <2>3. CASE taken' = NumRows
    BY <2>1, <2>3, LeftOrder DEF Closer
  <2>4. CASE taken' # NumRows
    BY <1>1, <2>1, <2>2, <2>4 DEF Closer
  <2> QED BY <2>3, <2>4
<1> QED BY <1>2, <1>3, <1>4 DEF Main

LEMMA AttemptCloser ==
  ASSUME CallInv, NEW w \in Workers, AttemptFails(w) \/ AttemptSucceeds(w) \/ Panic(w)
  PROVE  /\ UNCHANGED <<main, sent, taken>> /\ WorkerCloser(w)
         /\ \A v \in Workers \ {w} : UNCHANGED <<stage[v], attempt[v]>>
<1>1. stage \in [Workers -> Stages] /\ attempt \in [Workers -> 0..(MaxRetries + 1)]
  BY DEF CallInv, PageInv, TypeOK
<1>2. /\ UNCHANGED <<main, sent, taken>>
      /\ \A v \in Workers \ {w} : UNCHANGED <<stage[v], attempt[v]>>
  BY <1>1 DEF AttemptFails, AttemptSucceeds, Panic, Recover, HasResult, mainVars
<1>3. CASE stage'[w] = "deliver"
  <2>1. stage[w] \in {"parse", "try"}
    BY DEF AttemptFails, AttemptSucceeds, Panic
  <2> QED BY <1>2, <1>3, <2>1, LeftOrder DEF WorkerCloser
<1>4. CASE stage'[w] # "deliver"
  <2>1. AttemptFails(w) /\ stage' = stage /\ attempt[w] # MaxRetries
    BY <1>1, <1>4 DEF AttemptFails, AttemptSucceeds, Panic, Recover, HasResult, NoTryLeft
  <2>2. stage[w] = "try" /\ attempt'[w] = attempt[w] + 1
    BY <1>1, <2>1 DEF AttemptFails
  <2>3. attempt[w] \in Nat /\ attempt[w] <= MaxRetries /\ MaxRetries \in Nat
    BY <1>1, <2>2, PageAssumption DEF CallInv, PageInv, Attempts
  <2>4. attempt[w] < attempt'[w] /\ attempt'[w] <= MaxRetries
    BY <2>1, <2>2, <2>3
  <2> QED BY <1>2, <2>1, <2>2, <2>4 DEF WorkerCloser
<1> QED BY <1>3, <1>4

LEMMA PageWorkerCloser ==
  ASSUME CallInv, NEW w \in Workers, WorkerGoesOn(w) \/ StartCall(w)
  PROVE  Closer
<1>1. stage \in [Workers -> Stages] /\ w \in Callers /\ pc \in [Callers -> {"idle", "wait", "call"}]
  BY CallTypes DEF Callers
<1>2. \A v \in Workers \ {w} : pc'[v] = pc[v]
  BY <1>1 DEF WorkerGoesOn, StartCall, OwnWork, TimeOut, EndCall, PanicInCall, GivesBack,
     limiterVars, Limiter!GetOrCreate, Limiter!TakeSlot, Limiter!GiveUp, Limiter!Release, Callers
<1>3. ASSUME UNCHANGED <<main, sent, taken>>, WorkerCloser(w),
             \A v \in Workers \ {w} : UNCHANGED <<stage[v], attempt[v]>>
      PROVE  Closer
  BY <1>2, <1>3 DEF Closer
<1>4. CASE AttemptFails(w) \/ AttemptSucceeds(w) \/ Panic(w)
  BY <1>3, <1>4, AttemptCloser
<1>5. CASE Exit(w) \/ ParseSource(w) \/ Deliver(w)
  <2>1. \/ stage[w] = "receive" /\ stage'[w] = "exit"
        \/ stage[w] = "parse" /\ stage'[w] \in {"try", "deliver"}
        \/ stage[w] = "deliver" /\ stage'[w] = "receive"
    BY <1>1, <1>5 DEF Exit, ParseSource, Deliver, HasResult
  <2>2. WorkerCloser(w)
    BY <2>1, LeftOrder DEF WorkerCloser
  <2>3. attempt \in [Workers -> 0..(MaxRetries + 1)]
    BY DEF CallInv, PageInv, TypeOK
  <2>4. /\ UNCHANGED <<main, sent, taken>>
        /\ \A v \in Workers \ {w} : UNCHANGED <<stage[v], attempt[v]>>
    BY <1>1, <1>5, <2>3 DEF Exit, ParseSource, Deliver, HasResult, mainVars
  <2> QED BY <1>3, <2>2, <2>4
<1>6. CASE StartCall(w)
  <2>1. stage[w] = "try" /\ UNCHANGED <<main, sent, taken, stage, attempt>>
    BY <1>6 DEF StartCall, vars
  <2>2. \/ pc[w] = "idle" /\ pc'[w] \in {"wait", "call"}
        \/ pc[w] = "wait" /\ pc'[w] = "call"
    BY <1>1, <1>6 DEF StartCall, Limiter!GetOrCreate, Limiter!TakeSlot
  <2>3. WorkerCloser(w)
    BY <2>1, <2>2, LeftOrder DEF WorkerCloser
  <2> QED BY <1>3, <2>1, <2>3
<1> QED BY <1>4, <1>5, <1>6 DEF WorkerGoesOn, OwnWork, NoModel, TimeOut, EndCall, PanicInCall

\* Neither retries nor panics nor timeouts, nor the other job, make a page go round in
\* circles.
THEOREM PageRunsOutHolds == CallSpec => PageRunsOut
<1> DEFINE Runs == ~UNCHANGED vars \/ (\E w \in Workers : pc'[w] # pc[w]) => Closer
<1>1. ASSUME CallInv, CallNext PROVE Runs
  <2>1. CASE MainGoesOn
    BY <1>1, <2>1, MainCloser DEF MainGoesOn
  <2>2. CASE Others
    BY <1>1, <2>2, OthersKeepCalls
  <2>3. ASSUME NEW w \in Workers, WorkerGoesOn(w) \/ StartCall(w) PROVE Runs
    BY <1>1, <2>3, PageWorkerCloser
  <2> QED BY <1>1, <2>1, <2>2, <2>3 DEF CallNext
<1>2. CallInv /\ [CallNext]_callVars => [Runs]_callVars
  BY <1>1
<1> QED BY <1>2, CallInvariance, PTL DEF CallSpec, PageRunsOut
=============================================================================
