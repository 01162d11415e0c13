--------------------------- MODULE EnrichExtract ---------------------------
(***************************************************************************)
(* The life of enrichextract jobs: Service.Start, the background goroutine *)
(* Service.runJob, the page loop DomainService.Execute, the SQLite job     *)
(* store, the Postgres tables it writes, and a crash of the server followed*)
(* by RecoverActiveJobs.                                                   *)
(*                                                                         *)
(* Durable state is what SQLite (the job rows and the row errors) and      *)
(* Postgres (output table, data_process_records) hold; the rest is the     *)
(* memory of the goroutines and is lost in a crash.  All jobs share one    *)
(* output table, the interleaving the code does nothing to prevent.  Each  *)
(* statement sent to a database is one step; a statement that reports an   *)
(* error may nevertheless have been committed when the database is remote. *)
(***************************************************************************)
EXTENDS Integers, FiniteSets

CONSTANTS
  Jobs,           \* job ids
  Keys,           \* values of key_field in the source table
  StartID, EndID, \* [Jobs -> Int], the requested key range, inclusive
  Overwrite,      \* [Jobs -> BOOLEAN]
  PageSize,       \* source rows read per page
  WriteBatchSize, \* rows per INSERT statement (100 in both repositories)
  Seeded,         \* keys the output table holds before the first job
  NoRow, OldRow,  \* output row: absent / present before the first job
  StoreFaults,    \* whether SQLite statements may fail
  MaxCrashes      \* bound on the number of crashes

ASSUME KeysAssumption == /\ Keys \subseteq Nat \ {0}
                         /\ IsFiniteSet(Keys)
                         /\ Seeded \subseteq Keys
ASSUME JobsAssumption == /\ NoRow \notin Jobs
                         /\ OldRow \notin Jobs
                         /\ NoRow # OldRow
                         /\ StartID \in [Jobs -> Int]
                         /\ EndID \in [Jobs -> Int]
                         /\ Overwrite \in [Jobs -> BOOLEAN]
ASSUME SizeAssumption == /\ PageSize \in Nat \ {0}
                         /\ WriteBatchSize \in Nat \ {0}
                         /\ StoreFaults \in BOOLEAN
                         /\ MaxCrashes \in Nat

VARIABLES
  \* SQLite, enrich_extract_jobs and enrich_extract_job_errors
  status, lastKey, processed, succeeded, failed, message, errs,
  \* Postgres, output_table and data_process_records
  out, rec,
  \* the server process and, per job, the memory of its goroutine
  up, crashes, pc, cursor, page, todo, good, bad

jobRow  == <<status, lastKey, processed, succeeded, failed, message>>
sqlite  == <<jobRow, errs>>
tables  == <<out, rec>>
memory  == <<cursor, page, todo, good, bad>>
server  == <<up, crashes>>
vars    == <<sqlite, tables, server, pc, memory>>

NoKey == 0   \* last_key IS NULL

Statuses == {"none", "pending", "running", "succeeded", "partial", "failed"}
Terminal == {"succeeded", "partial", "failed"}

\* Statuses the restart scan looks for.  ("Forgets..." and the like, here and
\* below, are mutations used to show that a property can fail.)
ActiveForgetsPending == {"running"}
ActiveTakesFailed    == {"pending", "running", "failed"}
ActiveStatuses       == {"pending", "running"}

Stages == {"idle", "start", "load", "ready", "select", "process", "write",
           "rowwise", "record", "errors", "progress", "finish", "abort"}

---------------------------------------------------------------------------
(***************************************************************************)
(* Helpers of the actions.                                                 *)
(***************************************************************************)

Requested(j) == {k \in Keys : StartID[j] <= k /\ k <= EndID[j]}

\* The WHERE clause of SelectSourcePage on the key.
FromCursor(j, k) == IF cursor[j] = NoKey THEN k > StartID[j] - 1
                                         ELSE k >= cursor[j]
AfterCursor(j, k) == IF cursor[j] = NoKey THEN k > StartID[j] - 1
                                          ELSE k > cursor[j]

\* The LEFT JOIN on the output table: which rows are left to be done.
NotYetWritten(j, k) == Overwrite[j] \/ out[k] = NoRow

Candidates(j) == {k \in Keys : /\ AfterCursor(j, k)
                               /\ k <= EndID[j]
                               /\ NotYetWritten(j, k)}

\* ORDER BY key LIMIT page_size.
FirstRows(C) == {k \in C : Cardinality({x \in C : x < k}) < PageSize}

\* A statement carries WriteBatchSize rows, or all that are left.  The worker
\* pool returns the rows of a page in any order, so the split is arbitrary.
IsBatch(S, rows) == /\ S \subseteq rows
                    /\ S # {}
                    /\ Cardinality(S) <= WriteBatchSize
                    /\ Cardinality(S) = WriteBatchSize \/ S = rows

\* INSERT ... ON CONFLICT DO NOTHING, or DO UPDATE when overwriting.
AlwaysReplaced(j, old) == j
Inserted(j, old) == IF old = NoRow \/ Overwrite[j] THEN j ELSE old

InsertRows(j, S) ==
  out' = [k \in Keys |-> IF k \in S THEN Inserted(j, out[k]) ELSE out[k]]

\* buildProcessRecords: from the rows really written and the row errors.
RecordedUnseen(j, k) == "succeeded"
RecordStatus(j, k) == IF k \in good[j] THEN "succeeded" ELSE "failed"

RecordRows(j, S) ==
  rec' = [k \in Keys |-> IF k \in S THEN RecordStatus(j, k) ELSE rec[k]]

\* The rows writeSuccessRows writes one by one after a failed batch.
OnlyUnsent(j) == todo[j]
AllSuccesses(j) == todo[j] \cup good[j]

\* The final status runJob derives from the counters of the job row.
IgnoresFailures(j) == "succeeded"
Verdict(j) == IF failed[j] = 0 THEN "succeeded"
              ELSE IF succeeded[j] > 0 THEN "partial" ELSE "failed"

VerdictMessage(v) == [succeeded |-> "", partial |-> "row errors",
                      failed |-> "all rows failed"][v]

Goto(j, stage) == pc' = [pc EXCEPT ![j] = stage]

Forget(j) == /\ cursor' = [cursor EXCEPT ![j] = NoKey]
             /\ page' = [page EXCEPT ![j] = {}]
             /\ todo' = [todo EXCEPT ![j] = {}]
             /\ good' = [good EXCEPT ![j] = {}]
             /\ bad' = [bad EXCEPT ![j] = {}]

\* Execute, or a call before it, returned an error: runJob goes on to MarkFailed.
Abort(j) == Goto(j, "abort") /\ Forget(j)

\* The goroutine returns.
Exit(j) == Goto(j, "idle") /\ Forget(j)

\* rest are the rows the stage still has to send; when none are left the
\* goroutine moves to the next stage, for which it needs the rows of the page.
Continue(j, rest, next) ==
  IF rest = {}
    THEN Goto(j, next) /\ todo' = [todo EXCEPT ![j] = page[j]]
    ELSE UNCHANGED pc /\ todo' = [todo EXCEPT ![j] = rest]

---------------------------------------------------------------------------
(***************************************************************************)
(* The actions.                                                            *)
(***************************************************************************)

\* Start: the job row is created and the goroutine started.  Rejected requests
\* change nothing.
Start(j) ==
  /\ up /\ status[j] = "none"
  /\ status' = [status EXCEPT ![j] = "pending"]
  /\ Goto(j, "start")
  /\ UNCHANGED <<lastKey, processed, succeeded, failed, message, errs,
                 tables, server, memory>>

\* runJob, first statement.  When it fails the goroutine just returns.
MarkRunning(j) ==
  /\ pc[j] = "start"
  /\ \/ /\ status' = [status EXCEPT ![j] = "running"]
        /\ message' = [message EXCEPT ![j] = ""]
        /\ Goto(j, "load")
        /\ UNCHANGED memory
     \/ /\ StoreFaults
        /\ Exit(j)
        /\ UNCHANGED <<status, message>>
  /\ UNCHANGED <<lastKey, processed, succeeded, failed, errs, tables, server>>

\* runJob reads the snapshot, last_key included; the executor passes it on.
LoadJob(j) ==
  /\ pc[j] = "load"
  /\ \/ /\ cursor' = [cursor EXCEPT ![j] = lastKey[j]]
        /\ Goto(j, "ready")
        /\ UNCHANGED <<page, todo, good, bad>>
     \/ StoreFaults /\ Abort(j)
  /\ UNCHANGED <<sqlite, tables, server>>

\* The executor gets both resources, the LLM client, the connection and the
\* process recorder, then EnsureExecutionReady checks the tables.  The output
\* table or data_process_records may be created on the way: a table without
\* rows, which is how a missing one appears here.
EnsureExecutionReady(j) ==
  /\ pc[j] = "ready"
  /\ \/ Goto(j, "select") /\ UNCHANGED memory
     \/ Abort(j)
  /\ UNCHANGED <<sqlite, tables, server>>

SelectSourcePage(j) ==
  /\ pc[j] = "select"
  /\ \/ /\ Candidates(j) = {}
        /\ Goto(j, "finish")
        /\ UNCHANGED memory
     \/ /\ Candidates(j) # {}
        /\ page' = [page EXCEPT ![j] = FirstRows(Candidates(j))]
        /\ Goto(j, "process")
        /\ UNCHANGED <<cursor, todo, good, bad>>
     \/ Abort(j)
  /\ UNCHANGED <<sqlite, tables, server>>

\* processPage: each row ends as an output row or as a row error.  The worker
\* pool inside is the subject of PageWorkers.
ProcessPage(j) ==
  /\ pc[j] = "process"
  /\ \E ok \in SUBSET page[j] :
       /\ bad' = [bad EXCEPT ![j] = page[j] \ ok]
       /\ good' = [good EXCEPT ![j] = {}]
       /\ Goto(j, IF ok = {} THEN "record" ELSE "write")
       /\ todo' = [todo EXCEPT ![j] = IF ok = {} THEN page[j] ELSE ok]
  /\ UNCHANGED <<sqlite, tables, server, cursor, page>>

\* One statement of BatchWriteOutputRows, sent again once when it fails.  After
\* two failures writeSuccessRows falls back to single rows; the statements that
\* succeeded before stay committed, and the failed one may be.
WriteBatch(j) ==
  /\ pc[j] = "write"
  /\ \E S \in SUBSET todo[j] :
       /\ IsBatch(S, todo[j])
       /\ \/ /\ InsertRows(j, S)
             /\ good' = [good EXCEPT ![j] = @ \cup S]
             /\ Continue(j, todo[j] \ S, "record")
          \/ /\ InsertRows(j, S) \/ UNCHANGED out
             /\ todo' = [todo EXCEPT ![j] = AllSuccesses(j)]
             /\ good' = [good EXCEPT ![j] = {}]
             /\ Goto(j, "rowwise")
  /\ UNCHANGED <<sqlite, rec, server, cursor, page, bad>>

WriteOutputRow(j) ==
  /\ pc[j] = "rowwise"
  /\ \E k \in todo[j] :
       /\ \/ /\ InsertRows(j, {k})
             /\ good' = [good EXCEPT ![j] = @ \cup {k}]
             /\ UNCHANGED bad
          \/ /\ InsertRows(j, {k}) \/ UNCHANGED out
             /\ bad' = [bad EXCEPT ![j] = @ \cup {k}]
             /\ UNCHANGED good
       /\ Continue(j, todo[j] \ {k}, "record")
  /\ UNCHANGED <<sqlite, rec, server, cursor, page>>

\* One statement of processRecorder.UpsertMany.
UpsertRecords(j) ==
  /\ pc[j] = "record"
  /\ \E S \in SUBSET todo[j] :
       /\ IsBatch(S, todo[j])
       /\ \/ /\ RecordRows(j, S)
             /\ Continue(j, todo[j] \ S, "errors")
             /\ UNCHANGED <<cursor, page, good, bad>>
          \/ /\ RecordRows(j, S) \/ UNCHANGED rec
             /\ Abort(j)
  /\ UNCHANGED <<sqlite, out, server>>

\* AddErrors is one transaction; without errors it does nothing.
AddErrors(j) ==
  /\ pc[j] = "errors"
  /\ \/ /\ errs' = [errs EXCEPT ![j] =
                      [k \in Keys |-> IF k \in bad[j] THEN @[k] + 1 ELSE @[k]]]
        /\ Goto(j, "progress")
        /\ UNCHANGED memory
     \/ /\ StoreFaults /\ bad[j] # {}
        /\ Abort(j)
        /\ UNCHANGED errs
  /\ UNCHANGED <<jobRow, tables, server>>

\* UpdateProgress and the step of the loop to the next page.  maxKey is the key
\* of the last row of the page, which is read in key order.
OnePast(k) == k + 1
ProgressKey(k) == k

UpdateProgress(j) ==
  /\ pc[j] = "progress"
  /\ \/ \E maxKey \in page[j] :
          /\ \A k \in page[j] : k <= maxKey
          /\ lastKey' = [lastKey EXCEPT ![j] = ProgressKey(maxKey)]
          /\ processed' = [processed EXCEPT ![j] = @ + Cardinality(page[j])]
          /\ succeeded' = [succeeded EXCEPT ![j] = @ + Cardinality(good[j])]
          /\ failed' = [failed EXCEPT ![j] = @ + Cardinality(bad[j])]
          /\ cursor' = [cursor EXCEPT ![j] = ProgressKey(maxKey)]
          /\ page' = [page EXCEPT ![j] = {}]
          /\ todo' = [todo EXCEPT ![j] = {}]
          /\ good' = [good EXCEPT ![j] = {}]
          /\ bad' = [bad EXCEPT ![j] = {}]
          /\ Goto(j, "select")
     \/ /\ StoreFaults
        /\ Abort(j)
        /\ UNCHANGED <<lastKey, processed, succeeded, failed>>
  /\ UNCHANGED <<status, message, errs, tables, server>>

\* The end of runJob after Execute returned nil.  Only this goroutine changes the
\* counters, so reading them and marking the job is one step.  A MarkSucceeded
\* that fails leads to MarkFailed; the error of the other two is dropped.
Finish(j) ==
  /\ pc[j] = "finish"
  /\ \/ /\ status' = [status EXCEPT ![j] = Verdict(j)]
        /\ message' = [message EXCEPT ![j] = VerdictMessage(Verdict(j))]
        /\ Exit(j)
     \/ /\ StoreFaults
        /\ Abort(j) \/ (Verdict(j) # "succeeded" /\ Exit(j))
        /\ UNCHANGED <<status, message>>
  /\ UNCHANGED <<lastKey, processed, succeeded, failed, errs, tables, server>>

\* The error of MarkFailed is dropped: the goroutine returns in any case.
MarkFailed(j) ==
  /\ pc[j] = "abort"
  /\ \/ /\ status' = [status EXCEPT ![j] = "failed"]
        /\ message' = [message EXCEPT ![j] = "error"]
     \/ StoreFaults /\ UNCHANGED <<status, message>>
  /\ Exit(j)
  /\ UNCHANGED <<lastKey, processed, succeeded, failed, errs, tables, server>>

\* The deferred recover of runJob.
Panic(j) ==
  /\ pc[j] \notin {"idle", "abort"}
  /\ Abort(j)
  /\ UNCHANGED <<sqlite, tables, server>>

Crash ==
  /\ up /\ crashes < MaxCrashes
  /\ up' = FALSE
  /\ crashes' = crashes + 1
  /\ pc' = [j \in Jobs |-> "idle"]
  /\ cursor' = [j \in Jobs |-> NoKey]
  /\ page' = [j \in Jobs |-> {}]
  /\ todo' = [j \in Jobs |-> {}]
  /\ good' = [j \in Jobs |-> {}]
  /\ bad' = [j \in Jobs |-> {}]
  /\ UNCHANGED <<sqlite, tables>>

\* RunServer calls RecoverActiveJobs before it listens, and goes on with a
\* warning when that fails.
Restart ==
  /\ ~up
  /\ up' = TRUE
  /\ \/ pc' = [j \in Jobs |-> IF status[j] \in ActiveStatuses
                                THEN "start" ELSE "idle"]
     \/ StoreFaults /\ UNCHANGED pc
  /\ UNCHANGED <<sqlite, tables, crashes, memory>>

Init ==
  /\ status = [j \in Jobs |-> "none"]
  /\ lastKey = [j \in Jobs |-> NoKey]
  /\ processed = [j \in Jobs |-> 0]
  /\ succeeded = [j \in Jobs |-> 0]
  /\ failed = [j \in Jobs |-> 0]
  /\ message = [j \in Jobs |-> ""]
  /\ errs = [j \in Jobs |-> [k \in Keys |-> 0]]
  /\ out = [k \in Keys |-> IF k \in Seeded THEN OldRow ELSE NoRow]
  /\ rec = [k \in Keys |-> "none"]
  /\ up = TRUE
  /\ crashes = 0
  /\ pc = [j \in Jobs |-> "idle"]
  /\ cursor = [j \in Jobs |-> NoKey]
  /\ page = [j \in Jobs |-> {}]
  /\ todo = [j \in Jobs |-> {}]
  /\ good = [j \in Jobs |-> {}]
  /\ bad = [j \in Jobs |-> {}]

\* The goroutine of job j.
RunJob(j) ==
  \/ MarkRunning(j)
  \/ LoadJob(j)
  \/ EnsureExecutionReady(j)
  \/ SelectSourcePage(j)
  \/ ProcessPage(j)
  \/ WriteBatch(j)
  \/ WriteOutputRow(j)
  \/ UpsertRecords(j)
  \/ AddErrors(j)
  \/ UpdateProgress(j)
  \/ Finish(j)
  \/ MarkFailed(j)
  \/ Panic(j)

Next == (\E j \in Jobs : Start(j) \/ RunJob(j)) \/ Crash \/ Restart

Spec == Init /\ [][Next]_vars

\* Every goroutine keeps running: the calls it makes return (each LLM call has a
\* timeout), and a server that went down is started again.
FairSpec == Spec /\ (\A j \in Jobs : WF_vars(RunJob(j))) /\ WF_vars(Restart)

---------------------------------------------------------------------------
(***************************************************************************)
(* Properties.                                                             *)
(***************************************************************************)

\* The types of the durable rows and of the goroutines' memory.
TypeOK ==
  /\ status \in [Jobs -> Statuses]
  /\ lastKey \in [Jobs -> Keys \cup {NoKey}]
  /\ processed \in [Jobs -> Nat]
  /\ succeeded \in [Jobs -> Nat]
  /\ failed \in [Jobs -> Nat]
  /\ message \in [Jobs -> {"", "row errors", "all rows failed", "error"}]
  /\ errs \in [Jobs -> [Keys -> Nat]]
  /\ out \in [Keys -> Jobs \cup {NoRow, OldRow}]
  /\ rec \in [Keys -> {"none", "succeeded", "failed"}]
  /\ up \in BOOLEAN
  /\ crashes \in Nat
  /\ pc \in [Jobs -> Stages]
  /\ cursor \in [Jobs -> Keys \cup {NoKey}]
  /\ page \in [Jobs -> SUBSET Keys]
  /\ todo \in [Jobs -> SUBSET Keys]
  /\ good \in [Jobs -> SUBSET Keys]
  /\ bad \in [Jobs -> SUBSET Keys]

\* A row is settled for a job when its output row is there (written since the
\* start, for a job that overwrites) or an error of the job is kept for it.
RowDone(j, k) == IF Overwrite[j] THEN out[k] \in Jobs ELSE out[k] # NoRow
Settled(j, k) == errs[j][k] > 0 \/ RowDone(j, k)

\* Rows a job has durably gone past.
Passed(j) == {k \in Requested(j) : k <= lastKey[j]}

\* last_key never runs ahead of the work: whatever crashes, failed statements
\* and other jobs do, every requested row up to last_key is settled, so a
\* recovery that starts after last_key skips nothing.
NoRowSkipped == \A j \in Jobs : \A k \in Passed(j) : Settled(j, k)

\* A job that reports success or partial success left no requested row
\* unsettled, and the status agrees with its counters.
VerdictHonest ==
  \A j \in Jobs :
    /\ status[j] \in {"succeeded", "partial"} =>
         \A k \in Requested(j) : Settled(j, k)
    /\ status[j] = "succeeded" => failed[j] = 0
    /\ status[j] = "partial" => failed[j] > 0 /\ succeeded[j] > 0

\* The three counters of the job row agree, through fallbacks to single-row
\* writes, redone pages and crashes.
CountersAddUp == \A j \in Jobs : processed[j] = succeeded[j] + failed[j]

\* No row is counted twice although pages are redone: the counters never exceed
\* the rows gone past, a counted success has its output row and a counted
\* failure its error record.
CountersBacked ==
  \A j \in Jobs :
    /\ processed[j] <= Cardinality(Passed(j))
    /\ succeeded[j] <= Cardinality({k \in Passed(j) : out[k] # NoRow})
    /\ failed[j] <= Cardinality({k \in Passed(j) : errs[j][k] > 0})

\* Rows up to last_key are never given to the LLM again: a page in progress lies
\* ahead of the durable progress, so a crash redoes at most the current page.
PageAheadOfProgress ==
  \A j \in Jobs : \A k \in page[j] : k \in Requested(j) /\ k > lastKey[j]

\* A process record says succeeded only when the output row exists.
SucceededRecordHasRow == \A k \in Keys : rec[k] = "succeeded" => out[k] # NoRow

\* The goroutine of a job works only while the job is active; so, although no
\* UPDATE checks the status, no goroutine overwrites a final one.
RunnerOwnsActiveJob ==
  \A j \in Jobs : pc[j] # "idle" => up /\ status[j] \in {"pending", "running"}

\* As long as SQLite works, an active job has a goroutine while the server is
\* up: a crash between any two steps orphans no job.
ActiveJobHasRunner ==
  ~StoreFaults => \A j \in Jobs : up /\ status[j] \in {"pending", "running"}
                                    => pc[j] # "idle"

\* "All rows failed" is the truth of a job that no crash cut off and that no other
\* job ran beside: then no row is recorded as succeeded.
AllFailedIsTrue ==
  \A j \in Jobs :
    message[j] = "all rows failed" /\ crashes = 0 /\ (\A i \in Jobs \ {j} : status[i] = "none")
      => \A k \in Keys : rec[k] # "succeeded"

\* A final status never changes, not even through a restart.
TerminalStays == [][\A j \in Jobs : status[j] \in Terminal => status'[j] = status[j]]_vars

\* An output row that exists is replaced only by a job that overwrites, even when
\* it appeared after that job's page was selected.
ExistingRowsKept ==
  [][\A k \in Keys : out[k] # NoRow /\ out'[k] # out[k] =>
       \E j \in Jobs : Overwrite[j] /\ out'[k] = j /\ k \in page[j]]_vars

\* How many stages a goroutine has before it, until it selects the next page.
StagesLeft == [idle |-> 0, abort |-> 1, finish |-> 2, progress |-> 3, errors |-> 4,
               record |-> 5, rowwise |-> 6, write |-> 7, process |-> 8, select |-> 9,
               ready |-> 10, load |-> 11, start |-> 12]

Ahead(j) == {k \in Requested(j) : k > lastKey[j]}

Fewer(S, T) == S \subseteq T /\ S # T

Closer(j) ==
  \/ Fewer(Ahead(j)', Ahead(j))
  \/ /\ Ahead(j)' = Ahead(j)
     /\ \/ StagesLeft[pc'[j]] < StagesLeft[pc[j]]
        \/ pc'[j] = pc[j] /\ Fewer(todo'[j], todo[j])

\* No goroutine goes round in circles, and no restart takes back what was reached:
\* rows are left behind only, and each step of a goroutine, failed statements and
\* fallbacks included, gets it closer to its end in an order in which only finitely
\* many steps can follow.
StepsRunOut ==
  [][\A j \in Jobs :
       /\ Ahead(j)' \subseteq Ahead(j)
       /\ \/ RunJob(j)
          \/ pc[j] # "idle" /\ up' /\ ~UNCHANGED <<pc[j], cursor[j], page[j], todo[j]>>
          => Closer(j)]_vars

\* Every job that was started ends, when SQLite works, crashes are finitely many
\* and the server is started again after each.
JobsEnd == \A j \in Jobs : status[j] = "pending" ~> status[j] \in Terminal

\* The jobs keep the promise of EnrichPromise.
Promise == INSTANCE EnrichPromise WITH
  Wanted <- [j \in Jobs |-> Requested(j)],
  phase <- [j \in Jobs |-> IF status[j] \in {"pending", "running"}
                             THEN "active" ELSE status[j]],
  settled <- [j \in Jobs |-> {k \in Requested(j) : Settled(j, k)}]

PromiseKept == Promise!PromiseSpec

---------------------------------------------------------------------------
(***************************************************************************)
(* The inductive invariant, one named part per fact, for one job.          *)
(***************************************************************************)

InLoop  == {"ready", "select", "process", "write", "rowwise",
            "record", "errors", "progress"}
Writing == {"write", "rowwise"}
Written == {"record", "errors", "progress"}

Owned(j) == pc[j] # "idle" => up /\ status[j] \in {"pending", "running"}

CursorAtProgress(j) == pc[j] \in InLoop => cursor[j] = lastKey[j]

ProgressRequested(j) == lastKey[j] # NoKey => lastKey[j] \in Requested(j)

PageAhead(j) == \A k \in page[j] : k \in Requested(j) /\ k > lastKey[j]

\* A requested row between last_key and a row of the page is in the page or done.
NoGap(j) == \A q \in page[j] : \A k \in Requested(j) :
              lastKey[j] < k /\ k < q => k \in page[j] \/ Settled(j, k)

\* The rows of the page are split in rows to write, written rows and row errors.
Split(j) ==
  /\ pc[j] \in Writing => /\ page[j] = todo[j] \cup good[j] \cup bad[j]
                          /\ todo[j] \cap good[j] = {}
                          /\ todo[j] \cap bad[j] = {}
  /\ pc[j] \in Written => page[j] = good[j] \cup bad[j]
  /\ pc[j] \in Writing \cup Written => good[j] \cap bad[j] = {}

GoodWritten(j) == \A k \in good[j] : RowDone(j, k)

BadKept(j) == pc[j] = "progress" => \A k \in bad[j] : errs[j][k] > 0

PassedSettled(j) == \A k \in Passed(j) : Settled(j, k)

AllSettled(j) == pc[j] = "finish" \/ status[j] \in {"succeeded", "partial"} =>
                   \A k \in Requested(j) : Settled(j, k)

Counted(j) == processed[j] = succeeded[j] + failed[j]

VerdictMatches(j) ==
  /\ status[j] = "succeeded" => failed[j] = 0
  /\ status[j] = "partial" => failed[j] > 0 /\ succeeded[j] > 0

JobInv(j) ==
  /\ Owned(j)
  /\ CursorAtProgress(j)
  /\ ProgressRequested(j)
  /\ PageAhead(j)
  /\ NoGap(j)
  /\ Split(j)
  /\ GoodWritten(j)
  /\ BadKept(j)
  /\ PassedSettled(j)
  /\ AllSettled(j)
  /\ Counted(j)
  /\ VerdictMatches(j)

\* The inductive invariant behind the safety properties, checked here by TLC on
\* small instances.
IInv == TypeOK /\ \A j \in Jobs : JobInv(j)

---------------------------------------------------------------------------
(***************************************************************************)
(* What the design document says and the code does not do.                 *)
(***************************************************************************)

\* "failed": all candidate rows failed.  A job that ends with "all rows failed"
\* has no row it wrote and recorded as succeeded.
AllFailedWroteNothing ==
  \A j \in Jobs : message[j] = "all rows failed" =>
    ~ \E k \in Keys : out[k] = j /\ rec[k] = "succeeded"
=============================================================================
