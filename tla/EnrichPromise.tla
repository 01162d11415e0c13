---------------------------- MODULE EnrichPromise ----------------------------
(***************************************************************************)
(* What an enrichextract job promises to whoever started it, without pages,*)
(* retries, databases or crashes: rows of the request become settled (their*)
(* output row exists, or an error is kept for them), only while a job that *)
(* asked for them is active; a job that ends succeeded or partial has every*)
(* row it asked for settled; and an ended job stays as it is.              *)
(***************************************************************************)
CONSTANTS
  Jobs,
  Wanted       \* [Jobs -> SUBSET Keys], the rows a job was started for

VARIABLES
  phase,       \* where each job is
  settled      \* the wanted rows that are settled

promiseVars == <<phase, settled>>

Ended == {"succeeded", "partial", "failed"}

PromiseInit ==
  /\ phase = [j \in Jobs |-> "none"]
  /\ settled \in [Jobs -> SUBSET UNION {Wanted[j] : j \in Jobs}]
  /\ \A j \in Jobs : settled[j] \subseteq Wanted[j]

Submit(j) ==
  /\ phase[j] = "none"
  /\ phase' = [phase EXCEPT ![j] = "active"]
  /\ UNCHANGED settled

\* Job j settles rows it wants; other jobs share the output table, so rows that
\* they want too may become settled for them.
Settle(j) ==
  /\ phase[j] = "active"
  /\ settled' # settled
  /\ DOMAIN settled' = Jobs
  /\ \A i \in Jobs : /\ settled[i] \subseteq settled'[i]
                     /\ settled'[i] \ settled[i] \subseteq Wanted[i] \cap Wanted[j]
  /\ UNCHANGED phase

End(j, result) ==
  /\ phase[j] = "active"
  /\ result # "failed" => settled[j] = Wanted[j]
  /\ phase' = [phase EXCEPT ![j] = result]
  /\ UNCHANGED settled

PromiseNext == \E j \in Jobs : \/ Submit(j)
                               \/ Settle(j)
                               \/ \E result \in Ended : End(j, result)

PromiseSpec == PromiseInit /\ [][PromiseNext]_promiseVars
=============================================================================
