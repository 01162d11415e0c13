--------------------------- MODULE AlignmentPromise --------------------------
(***************************************************************************)
(* What entity alignment promises to operators and to the readers of its   *)
(* tables, without batches, pages, stages, databases or crashes:           *)
(*   - a result a job generated stays until an operator decides otherwise; *)
(*   - a value is left undecided only while it waits in the review queue;  *)
(*   - a row is written once each of its values has a result, and recorded *)
(*     once it is written, as succeeded only when nothing is undecided;    *)
(*   - a job changes something only while it is active, and only about the *)
(*     rows it was asked for; one that is not restricted to rows waiting   *)
(*     for a review succeeds only when all of them are written and recorded. *)
(***************************************************************************)
CONSTANTS
  Jobs,
  Rows,
  Asked,       \* [Jobs -> SUBSET Rows], the rows a job was asked for
  Full,        \* the jobs that have to do all of them
  Values,      \* what is aligned: a raw value for a target set
  ValuesOf,    \* [Rows -> SUBSET Values]
  Decisions,   \* results that say what to write: a label, or NULL for good
  Undecided,   \* the result that asks for a review
  NoResult     \* nothing generated yet

VARIABLES
  phase,       \* where each job is
  queue,       \* the review queue: none, pending, resolved
  result,      \* what each value is mapped to
  written,     \* rows in the output table
  record       \* the process record of each row

promiseVars == <<phase, queue, result, written, record>>

Complete(k) == \A x \in ValuesOf[k] : result[x] # NoResult
Finished(k) == \A x \in ValuesOf[k] : result[x] \in Decisions

PromiseInit ==
  /\ phase = [j \in Jobs |-> "none"]
  /\ queue = [x \in Values |-> "none"]
  /\ result = [x \in Values |-> NoResult]
  /\ written = {}
  /\ record = [k \in Rows |-> "none"]

Submit(j) ==
  /\ phase[j] = "none"
  /\ phase' = [phase EXCEPT ![j] = "active"]
  /\ UNCHANGED <<queue, result, written, record>>

\* Values are put in the queue that were never there.
Enqueue(V) ==
  /\ \A x \in V : queue[x] = "none"
  /\ queue' = [x \in Values |-> IF x \in V THEN "pending" ELSE queue[x]]
  /\ UNCHANGED <<phase, result, written, record>>

\* Values get their first result; who is left undecided is waiting for a review.
Generate(V) ==
  /\ \A x \in V : /\ result[x] = NoResult
                  /\ \/ result'[x] \in Decisions
                     \/ result'[x] = Undecided /\ queue[x] = "pending"
  /\ result' = [x \in Values |-> IF x \in V THEN result'[x] ELSE result[x]]
  /\ UNCHANGED <<phase, queue, written, record>>

Write(K) ==
  /\ \A k \in K : Complete(k)
  /\ written' = written \cup K
  /\ UNCHANGED <<phase, queue, result, record>>

Record(K) ==
  /\ \A k \in K : /\ k \in written /\ Complete(k)
                  /\ \/ record'[k] = "waiting"
                     \/ record'[k] = "succeeded" /\ Finished(k)
  /\ record' = [k \in Rows |-> IF k \in K THEN record'[k] ELSE record[k]]
  /\ UNCHANGED <<phase, queue, result, written>>

End(j, verdict) ==
  /\ phase[j] = "active"
  /\ verdict = "succeeded" /\ j \in Full =>
       \A k \in Asked[j] : k \in written /\ record[k] # "none"
  /\ phase' = [phase EXCEPT ![j] = verdict]
  /\ UNCHANGED <<queue, result, written, record>>

\* An operator decides values of the queue, also ones decided before.
Review(V) ==
  /\ \A x \in V : queue[x] # "none" /\ result'[x] \in Decisions
  /\ queue' = [x \in Values |-> IF x \in V THEN "resolved" ELSE queue[x]]
  /\ result' = [x \in Values |-> IF x \in V THEN result'[x] ELSE result[x]]
  /\ UNCHANGED <<phase, written, record>>

Work(j) ==
  /\ phase[j] = "active"
  /\ \/ \E V \in SUBSET UNION {ValuesOf[k] : k \in Asked[j]} : Enqueue(V) \/ Generate(V)
     \/ \E K \in SUBSET Asked[j] : Write(K) \/ Record(K)

PromiseNext ==
  \/ \E V \in SUBSET Values : Review(V)
  \/ \E j \in Jobs : Submit(j) \/ Work(j) \/ End(j, "succeeded") \/ End(j, "failed")

PromiseSpec == PromiseInit /\ [][PromiseNext]_promiseVars
=============================================================================
