----------------------------- MODULE PageWorkers ----------------------------
(***************************************************************************)
(* The goroutines that process one page of rows (processPage and           *)
(* processOneRow of enrichextract/execution_service.go).  The main         *)
(* goroutine hands the rows over an unbuffered channel, closes it and then *)
(* collects one result per row; each worker takes a row, tries the LLM up  *)
(* to MaxRetries more times and puts one result in a buffered channel.     *)
(*                                                                         *)
(* An attempt, with the wait before it, is one step: what the LLM answers  *)
(* and whether the answer passes the checks is a choice.  The context is   *)
(* never cancelled, so the check of it never ends the attempts.            *)
(***************************************************************************)
EXTENDS Integers, Sequences, FiniteSets

CONSTANTS
  Workers,     \* goroutines: min(concurrency, rows) of them
  NumRows,     \* rows of the page
  MaxRetries,  \* attempts after the first
  NoRow        \* a worker has no row

Rows == 1..NumRows

ASSUME PageAssumption == /\ NumRows \in Nat \ {0}
                         /\ MaxRetries \in Nat
                         /\ NoRow \notin Rows
                         /\ Workers # {} /\ IsFiniteSet(Workers)

VARIABLES
  main,       \* the main goroutine: sends, collects, has returned
  sent,       \* rows handed over; they are sent in order
  stage,      \* where the workers are
  row,        \* the row a worker has
  attempt,    \* the attempt it is at
  kind,       \* the result it has for the row
  results,    \* the channel of results
  taken,      \* results collected
  successes,  \* how often a row is in PageResult.Successes
  errors,     \* how often a row is in PageResult.Errors
  calls       \* how many attempts at a row ended (history)

mainVars == <<main, sent, taken, successes, errors>>
vars == <<main, sent, stage, row, attempt, kind, results, taken,
          successes, errors, calls>>

Stages == {"receive", "parse", "try", "deliver", "exit"}
Kinds == {"ok", "validate_source", "parse_json", "panic"}
Results == [row : Rows, kind : Kinds]

\* The capacity of results.  (OneShort and the like are mutations used to show
\* that a property can fail.)
OneShort == NumRows - 1
BufferSize == NumRows

---------------------------------------------------------------------------
\* jobs <- row meets a worker at range jobs.
HandOver(w) ==
  /\ main = "send" /\ sent < NumRows
  /\ stage[w] = "receive"
  /\ sent' = sent + 1
  /\ stage' = [stage EXCEPT ![w] = "parse"]
  /\ row' = [row EXCEPT ![w] = sent']
  /\ UNCHANGED <<main, attempt, kind, results, taken, successes, errors, calls>>

\* close(jobs)
Close ==
  /\ main = "send" /\ sent = NumRows
  /\ main' = "collect"
  /\ UNCHANGED <<sent, stage, row, attempt, kind, results, taken, successes, errors, calls>>

\* range jobs ends for a worker.
Exit(w) ==
  /\ main # "send"
  /\ stage[w] = "receive"
  /\ stage' = [stage EXCEPT ![w] = "exit"]
  /\ UNCHANGED <<mainVars, row, attempt, kind, results, calls>>

\* The worker has a result for its row.
HasResult(w, k) ==
  /\ stage' = [stage EXCEPT ![w] = "deliver"]
  /\ kind' = [kind EXCEPT ![w] = k]

\* ParseSourceJSON accepts the row or not.
ParseSource(w) ==
  /\ stage[w] = "parse"
  /\ \/ stage' = [stage EXCEPT ![w] = "try"] /\ UNCHANGED kind
     \/ HasResult(w, "validate_source")
  /\ UNCHANGED <<mainVars, row, attempt, results, calls>>

\* Whether the failed attempt was the last.
OneMoreTry(w) == attempt[w] > MaxRetries
NoTryLeft(w) == attempt[w] = MaxRetries

\* The LLM call, or a check of its answer, fails.
AttemptFails(w) ==
  /\ stage[w] = "try"
  /\ calls' = [calls EXCEPT ![row[w]] = @ + 1]
  /\ attempt' = [attempt EXCEPT ![w] = @ + 1]
  /\ IF NoTryLeft(w) THEN HasResult(w, "parse_json") ELSE UNCHANGED <<stage, kind>>
  /\ UNCHANGED <<mainVars, row, results>>

\* The answer passes all checks.
AttemptSucceeds(w) ==
  /\ stage[w] = "try"
  /\ calls' = [calls EXCEPT ![row[w]] = @ + 1]
  /\ HasResult(w, "ok")
  /\ UNCHANGED <<mainVars, row, attempt, results>>

\* The deferred recover of the worker has a result for the row, too.
Lost(w) == stage' = [stage EXCEPT ![w] = "receive"] /\ UNCHANGED kind
Recover(w) == HasResult(w, "panic")

\* Something panics while the worker has the row, in a call of the LLM or not.
Panic(w) ==
  /\ stage[w] \in {"parse", "try"}
  /\ Recover(w)
  /\ UNCHANGED <<mainVars, row, attempt, results, calls>>

\* results <- ...; the locals of the row are gone.
Deliver(w) ==
  /\ stage[w] = "deliver"
  /\ Len(results) < BufferSize
  /\ results' = Append(results, [row |-> row[w], kind |-> kind[w]])
  /\ stage' = [stage EXCEPT ![w] = "receive"]
  /\ row' = [row EXCEPT ![w] = NoRow]
  /\ attempt' = [attempt EXCEPT ![w] = 0]
  /\ kind' = [kind EXCEPT ![w] = "ok"]
  /\ UNCHANGED <<mainVars, calls>>

\* One result of for range rows; the last one ends the page.
CollectResult ==
  /\ main = "collect"
  /\ results # <<>>
  /\ results' = Tail(results)
  /\ LET res == Head(results)
     IN IF res.kind = "ok"
          THEN /\ successes' = [successes EXCEPT ![res.row] = @ + 1]
               /\ UNCHANGED errors
          ELSE /\ errors' = [errors EXCEPT ![res.row] = @ + 1]
               /\ UNCHANGED successes
  /\ taken' = taken + 1
  /\ main' = IF taken' = NumRows THEN "done" ELSE "collect"
  /\ UNCHANGED <<sent, stage, row, attempt, kind, calls>>

Init ==
  /\ main = "send" /\ sent = 0
  /\ stage = [w \in Workers |-> "receive"]
  /\ row = [w \in Workers |-> NoRow]
  /\ attempt = [w \in Workers |-> 0]
  /\ kind = [w \in Workers |-> "ok"]
  /\ results = <<>>
  /\ taken = 0
  /\ successes = [r \in Rows |-> 0]
  /\ errors = [r \in Rows |-> 0]
  /\ calls = [r \in Rows |-> 0]

Work(w) ==
  \/ Exit(w) \/ ParseSource(w) \/ AttemptFails(w) \/ AttemptSucceeds(w)
  \/ Panic(w) \/ Deliver(w)

Main == Close \/ CollectResult \/ \E w \in Workers : HandOver(w)

Next == Main \/ \E w \in Workers : Work(w)

Spec == Init /\ [][Next]_vars

\* Every goroutine that can go on does so: the scheduler runs it, and a call of
\* the LLM returns at the latest when its timeout passes.
FairSpec == Spec /\ WF_vars(Main) /\ \A w \in Workers : WF_vars(Work(w))

---------------------------------------------------------------------------
(***************************************************************************)
(* Properties.                                                             *)
(***************************************************************************)

\* The types of the goroutines' and the channels' state.
TypeOK ==
  /\ main \in {"send", "collect", "done"}
  /\ sent \in 0..NumRows
  /\ stage \in [Workers -> Stages]
  /\ row \in [Workers -> Rows \cup {NoRow}]
  /\ attempt \in [Workers -> 0..(MaxRetries + 1)]
  /\ kind \in [Workers -> Kinds]
  /\ results \in Seq(Results)
  /\ taken \in 0..NumRows
  /\ successes \in [Rows -> Nat]
  /\ errors \in [Rows -> Nat]
  /\ calls \in [Rows -> Nat]

Busy(w) == stage[w] \in {"parse", "try", "deliver"}

\* In how many places a row is.
Places(r) ==
  (IF r > sent THEN 1 ELSE 0)
  + Cardinality({w \in Workers : Busy(w) /\ row[w] = r})
  + Cardinality({i \in DOMAIN results : results[i].row = r})
  + successes[r] + errors[r]

\* No row is lost and none is processed or reported twice: it is not sent yet,
\* with one worker, in the channel, or in one of the page's lists.
EachRowOnce == \A r \in Rows : Places(r) = 1

\* A worker never waits for room in the channel of results, which nobody
\* receives from until all rows are handed over.
DeliverNeverBlocks ==
  \A w \in Workers : stage[w] = "deliver" => Len(results) < BufferSize

\* The attempts of a row are bounded, and a row is given up as parse_json after
\* exactly one attempt and MaxRetries more, which is what its error reports.
RetriesBounded ==
  /\ \A r \in Rows : calls[r] <= MaxRetries + 1
  /\ \A i \in DOMAIN results :
       LET n == calls[results[i].row]
       IN CASE results[i].kind = "ok" -> n > 0
            [] results[i].kind = "validate_source" -> n = 0
            [] results[i].kind = "parse_json" -> n = MaxRetries + 1
            [] OTHER -> TRUE

\* What a goroutine waits for is there.
MainCanGoOn ==
  \/ main = "send" /\ (sent = NumRows \/ \E w \in Workers : stage[w] = "receive")
  \/ main = "collect" /\ results # <<>>
WorkerCanGoOn(w) ==
  \/ stage[w] \in {"parse", "try"}
  \/ stage[w] = "deliver" /\ Len(results) < BufferSize

\* The goroutines of a page never all wait for one another: until it returns,
\* a row, a result or room in a channel is there for one of them; and when it
\* has returned no worker is left with a row nobody waits for.
NeverStuck ==
  IF main = "done" THEN \A w \in Workers : ~Busy(w)
                   ELSE MainCanGoOn \/ \E w \in Workers : WorkerCanGoOn(w)

\* The page returns, and no goroutine of it is left behind.
PageEnds ==
  /\ <>(main = "done")
  /\ \A w \in Workers : <>[](stage[w] = "exit")

Outcome == INSTANCE PageOutcome WITH
  returned <- main = "done",
  ok       <- IF main = "done" THEN {r \in Rows : successes[r] = 1} ELSE {},
  failed   <- IF main = "done" THEN {r \in Rows : errors[r] = 1} ELSE {}

\* processPage implements the single step of the page loop: it returns once,
\* with every row in exactly one list.
OutcomeKept == Outcome!FairSpec
=============================================================================
