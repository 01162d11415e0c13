# A TLA+ model of kgbrain

kgbrain is a Go server. Clients submit long-running jobs over Connect RPC; each
job reads rows of a Postgres table, calls a large language model (LLM) on them
and writes results to Postgres. Job state is kept in a local SQLite file. This
directory holds the specifications, the TLC configurations that check them and
the TLAPS proofs about them.

## Inventory

| component | state | operations | interacts with |
|---|---|---|---|
| enrichextract job service (`enrichextract/service.go`, `executor.go`, `repository.go`) | job rows, row errors (SQLite); one goroutine per job | Start, GetJob, runJob, RecoverActiveJobs | page loop, resources, startup |
| enrichextract page loop (`execution_service.go`, `business_repository.go`) | output table (Postgres); cursor and page in memory | select page, process page, write batch / row, record, save errors, progress | LLM client, process records |
| page worker pool (`processPage`, `processOneRow`) | channels, workers, attempts | send, receive, try, back off, collect | LLM client |
| LLM client and limiter (`infra/llm`) | entries per resource with slots; chat-model cache | Acquire, release, generate | every worker of every job |
| entity alignment jobs (`alignment/service.go`, `execution_service.go`) | job rows (SQLite); mapping, candidate, output tables (Postgres) | Start, runJob, load, recall, generate, flush, write output | review, targets |
| candidate review and targets (`ReviewTargetCandidates`, `UpsertTargets`, `DeleteTarget`) | candidate, mapping and target tables | review (one transaction), add, delete | alignment jobs |
| process records (`processrecord`) | `data_process_records`, one row per source key | UpsertMany | both services |
| resources (`resource`) | three tables of LLM, embedding and database resources (SQLite) | set-up and migration; set, get, delete | handlers, both executors |
| set-up of the business database (`EnsureExecutionReady` of both services, `ReviewTargetCandidates`) | tables and indexes of Postgres, a migration of the mapping table | create, migrate, check, statement by statement | all jobs and reviews on one database |
| requests, prompts and answers (`validator.go`, `prompt.go`, `alignment/service.go`, start handlers) | none beyond the job row | normalise or refuse, ask, check and convert an answer | both services |
| key ranges (`SelectSourcePage`, `buildOutputPages`) | cursor, page bounds in int64 | select page, select range, write page | programs that write the source table |
| startup (`app/run.go`) | none | wiring, RecoverActiveJobs | both services |
| other RPC handlers, config, logging, id generation, generated code | none | pure | all |

What is hard here: a server crash between any two database statements; two
stores that share no transaction; several jobs on one output table; a worker
pool over channels; a limiter whose entries are replaced while in use; a human
review that runs beside a job; set-ups and migrations without locks or
transactions; names that are trimmed in one place and not in another; integer
keys up to the ends of int64. `PROJECT.json` lists each hazard with its line.

## Modules

* `EnrichExtract` is the core: the jobs of enrichextract from Start to a final
  status. `status, lastKey, processed, succeeded, failed, message` is the row of
  `enrich_extract_jobs`, `errs` counts the rows of `enrich_extract_job_errors`
  per key, `out` is the output table and `rec` is `data_process_records`. `pc,
  cursor, page, todo, good, bad` are the goroutine of a job: `cursor` is the
  local `lastKey` of `Execute`, `page` the rows read, `todo` the rows the present
  stage still has to send, `good` and `bad` the successes and row errors. One
  action is one statement sent to a database, so a crash, a failing statement or
  another job can come between any two of them.
* `EnrichPromise` is the abstract specification: rows become settled while a
  job that wants them is active, a job that ends well has all its rows settled,
  an ended job stays. `EnrichExtract!Promise` is the refinement mapping.
* `EnrichExtractProofs` holds the theorems about `EnrichExtract`.
* `PageWorkers` is the inside of one `ProcessPage` step: `main, sent, taken,
  successes, errors` are the locals of `processPage`, `stage, row, attempt, kind`
  those of its workers, `results` the buffered channel; the unbuffered channel
  of rows is the joint step `HandOver`. `PageOutcome` is what the page loop
  relies on - one return, each row in one list - and `PageWorkers!Outcome` the
  refinement mapping, so `EnrichExtract` may take a page in one step.
* `ResourceLimiter` is `infra/llm/limiter.go` with its callers: `current` is the
  map of the manager, `limit` and `slots` the entries and the tokens in their
  channels, `snapshot` the limit a client was built with, `configured` what is
  saved in the resource. An entry that was replaced lives on while somebody
  refers to it. `ResourceLimiterProofs` holds the theorems about it.
* `PageCalls` composes the two: an attempt of a worker is a call in the limiter,
  under the timeout of the attempt, beside calls of another job; an attempt whose chat
  model cannot be made (`NoModel`) fails before it.
  `PageCallsProofs` holds the theorems about the two and `PageWorkers`.
* `EntityAlignment` is the alignment service: `status` is in SQLite; `targets,
  candidate, mapping, out, rec` are tables in Postgres; `pc` and the locals are
  the goroutines. Each statement of `Execute` is an action, and operators add and
  delete targets and review candidates between any two of them. A review is one step,
  but its transaction does not lock the label it looks up: `lapsed` remembers the labels
  a review under way may have found before they were deleted.
  `EntityAlignmentProofs` holds the theorems about it.
* `AlignmentPromise` is the abstract specification of jobs and reviews together: a
  value gets one result, which only an operator changes; what is undecided is in the
  queue; a row is written, then recorded, once its values have results; a full job
  succeeds only with all its rows. `EntityAlignment!Promise` is the refinement mapping.
* `ResourceStore` is `internal/resource`: `schema` and `rows` are the three tables,
  `at, table, cursor` the set-up by `NewResourceRepo` and `ensureColumn` (`cursor`:
  its open rows hold the only connection of the pool), `pc, request, now,
  existing` the locals of the requests. A save is two statements, between which
  others run. `overlapped` is a history variable for `CreatedKept`. It implements
  `ResourceRegister`, where a save is one step (`ResourceStore!Register`).
* `BusinessSetup` is the set-up of a business database by alignment jobs, reviews
  and enrichextract jobs together: `columns, notNull, unset, mappingKey` are the
  mapping table, new or of a former version; then the tables of targets and
  candidates and the two output tables. `at` is the next statement of each process.
* `KeyScan` is the walk over keys in an int64 that wraps, both ways the code has:
  a cursor (`SelectSourcePage`) and pages over the span (`buildOutputPages`), while
  other programs insert and delete source rows. `taken` counts how often each key
  was taken, `kept` are the keys that were there all along. `Allocated` is what becomes
  of the slice of pages, which is as long as the span is wide: it is made, or it panics
  and the job fails, or it takes the server down and the job stays running (`lost`).
* `Requests` puts a start request before that walk and an answer of the LLM after
  it: `NormalizeOK`, `SchemaOK`, `ExampleOK`, `HintsOK` and `ValidateOK` are the
  validation; `job` is what is stored; `BuildMessages` is the prompt;
  `NormalizeOutputValues` is what is kept of an answer, after `Unmarshal` has made a
  float64 of each number in it, as of those of a source row. A name is a spelling, which
  may have white space around it. It extends `KeyScan`, and each of its steps is a
  step of the scan or leaves it alone.
* `ResourceStoreProofs`, `BusinessSetupProofs`, `KeyScanProofs` and `RequestsProofs`
  hold the theorems about these modules.
* `MC*` modules give the constants of the instances below; `PageCalls` is run as
  it is, `PageWorkers` inside it, and `KeyScan` inside `Requests`.

## Runs

| run | instance | question |
|---|---|---|
| `enrich_one` | one job, keys 1..6, range 2..6, key 3 already written, pages of 3, statements of 2 rows, failing statements, 2 crashes | is progress never ahead of the work, are verdict and counters honest, when is "all rows failed" true, do the steps of a goroutine run out |
| `enrich_two` | two jobs over keys 1..3, one keeps and one replaces rows, 1 crash, fairness | are existing rows respected, no job orphaned, the promise kept; does every job end |
| `enrich_all_failed` | one job, 1 crash, expected violation | the design document's meaning of `failed` |
| `limiter` | three workers of two jobs, one call with a deadline, one resource, limits 1, 2, none and the refused 0, fairness of the call with a deadline | do tokens go back where they came from while entries are replaced; does nobody wait but for a call under way; does every call with a deadline end, and nobody wait for ever but for a call that never returns |
| `limiter_job_bound` | two jobs with different limits, expected violation | the documented bound of a job's calls |
| `page_calls` | two page workers, two rows, one retry, panics, another job on the same limited resource, fairness only for the page | do results never block, are calls bounded; is a slot held only during a call; can somebody always go on, and do the steps run out; does the page end when the other job keeps the slots; does it implement `PageOutcome` |
| `align_two` | two full jobs over two rows, one field, one mapping per flush, pages of 2 keys, fairness | are decisions kept while both generate the same values; does the table show the mappings; does a job end or wait for the LLM |
| `align_fault` | a full job and one over waiting rows, two fields of one target set, batches of 2, failing stores, 1 crash | no value undecided out of sight, records honest, all rows covered; do the steps of a goroutine run out; does it implement `AlignmentPromise` |
| `align_row_aligned` | a full job and one over waiting rows, expected violation | the documented meaning of a `succeeded` record |
| `resource_store` | two clients, one id of each kind, two configurations of one, a clock of two values, any file of this or the former version, crashes, fairness of the set-up | is each resource a register, is a creation time kept, is every table migrated before it is used, does the set-up end |
| `business_setup` | two alignment jobs, a review, an enrichextract job, one failing statement or crash, fairness | does the migration lose nothing, does whoever is ready find what it needs, does nobody lose a race twice, does everybody get ready |
| `requests` | an int64 of four bits, floats that leave integers out beyond 4, two tables, slices of two pages fit in memory and of three in the address space, requests that differ in one unusual or wrong thing, eight answers, one edit by others, fairness | is every row taken once, does each page bring the scan further, do prompts and rows keep what was asked for and answered, do scans end whatever passed the validation, and which span takes the server down |

Bounds. Two pages are needed for progress to move, three rows per page and two
per statement for a batch to be partly committed, two crashes for a recovery to
be interrupted; more of each repeats the same cases. Two jobs are enough for any
interference on one output row. One row for each of two workers shows every order in
which results arrive, and a channel shorter than the page blocks; with two limits and none, entries are
replaced in every order. Two raw values and a batch of one let a review come
between any two flushes, and keys 1 and 3 with pages of two keys make a second
page. In `resource_store` two requests at a time are every interference on one row,
and two values of the clock tell an old creation time from a new one. In
`business_setup` two jobs race for the same statements while a third process runs
the migration in another order; one fault is enough to cut off each statement
once, and who failed starts again. In `requests` four bits hold a range with both
ends, spans that wrap to capacities below zero, 0 and 1, spans of pages that fit in memory,
in the address space only or in neither, and pages that end at the largest key. An answer
has a number that is no float64 in either type of column, the one
beyond the largest key, and one beyond all floats; integers above 4 stand for those above
2^53. The proofs have no such bounds.

Deadlock is not checked where the system rests: in `EnrichExtract` once its jobs
are done, in `BusinessSetup` once all are ready, in `Requests` once its one
request is refused or its job has ended. It is checked everywhere else.

## Fairness

In `EnrichExtract`, `FairSpec` assumes weak fairness of each goroutine and of the
restart. Go schedules every runnable goroutine, each LLM call of this service carries a
timeout (those of alignment carry none), database calls are assumed to return, and a
server that went down is assumed to be started again. Liveness is stated for a working SQLite only: a failing
`MarkRunning` leaves a job pending until the next restart.

`PageWorkers` assumes the same of the main goroutine and of each worker; an
attempt ends because its call carries a timeout. `ResourceLimiter` needs strong
fairness for taking a slot: the channel of an entry serves its blocked senders in
order of arrival, so a waiter cannot be passed over for ever. Of the return of a call it
assumes something only where the call has a deadline (`Timed`): alignment calls the LLM
without one, and such a call need not return. So `WaitEnds` says that a call with a
deadline always ends, and that who waits for ever waits on the entry of a call without a
deadline that never returns: no slot is lost otherwise. `PageCalls` assumes
nothing of the other job and no fairness for slots; the timeout ends the wait.
`EntityAlignment` assumes weak fairness of every statement of a goroutine but not
of the answer of the LLM, because these calls carry no deadline: `JobsEnd` says
that a job ends or waits in that call. `ResourceStore` assumes that a set-up which
has begun goes on, `BusinessSetup` that goroutines go on and that who failed is
started again, and `Requests` that the goroutine of the
job goes on, but not that an alignment job gets to its output (`RunAlign`), for the LLM is
called before; other programs owe nothing.

## What is proved

`EnrichExtractProofs` proves, for every number of jobs, keys, ranges, page and
batch size and crashes, the theorems `PROJECT.json` lists. They rest on the
inductive invariant `IInv`: the type invariant and, per job, that the goroutine
runs only for an active job (`Owned`), its cursor is the durable `last_key`
(`CursorAtProgress`), the page lies ahead of it without a gap that is not
settled (`PageAhead`, `NoGap`), the page is the disjoint union of rows to write,
written rows and errors (`Split`), written rows are in the table (`GoodWritten`)
and errors saved (`BadKept`), so that what lies behind `last_key` is settled
(`PassedSettled`), everything is settled at the end (`AllSettled`), and counters
and verdict agree (`Counted`, `VerdictMatches`). `NoRowSkipped` alone is not
inductive: it says nothing of a page that is in memory.

The proof has one lemma per part for the steps of the job itself and one for
steps of other jobs, which change only the shared tables, and there only grow
what is settled (`SettledStays`). Three results are inductive beside `IInv`:
`CountersBacked`, because a page lies ahead of the old `last_key` and behind the new
one, so that no row is counted twice (`ProgressBacked`); `ActiveJobHasRunner`, because
without failing statements a step of a job leaves a goroutine or a final status
(`RunnerStays`); and `PromiseKept`, that every step is one, or none, of
`EnrichPromise`: rows become settled in the page of an active job (`SettleSteps`) and
the status changes only as a promise does (`StatusSteps`). Two more follow from it.
`StepsRunOut` is the safety half of `JobsEnd`: each step of a goroutine leaves rows
behind, goes on to a later stage of the page or has fewer rows to send, and no crash
takes that back; by `PageAhead` of `IInv` the page lies ahead of `last_key`, so that
progress leaves rows behind. `AllFailedIsTrue` needs
`FailedInv`: a success that is recorded has been counted, or the page it is in is in
memory, or the job aborts.

`ResourceLimiterProofs` proves, for any number of resources, jobs, workers and
limits, that tokens are exactly the calls that hold them (`SlotsAreHolders`, a part of
the invariant),
that a call waits for an entry of its own job's limit (`WaitsForOwnLimit`), and,
when a resource has a single limit, that its calls stay within it
(`ResourceBound`). The inductive invariant `LimiterInv` adds that limits are
positive (`LimitsAccepted`), an entry that is referred to is kept (`EntryKept`),
an entry never holds more tokens than its limit (`EntryBound`), the current
entry has a limit (`CurrentHasLimit`), and, for a single limit, that no entry is
replaced while it is in use (`NeverReplaced`): without the last, calls on two
entries of one resource could add up. `WaitsForACall` is the safety half of `WaitEnds`:
the deferred release finds its token, and a full entry has as many calls under way as
tokens, so a waiter waits for a call and never for another waiter.

`PageCallsProofs` proves, for any number of workers, rows, retries and callers of
the other job, the safety properties of the page and its calls, and that a page with
its calls implements `PageOutcome` (the safety part of `OutcomeKept`). `EachRowOnce`
counts, which no step preserves by itself; the invariant `PageInv` says by identity
where a row is: with one worker (`RowOfOne`), in one result (`ResultOfOne`), in a list
once (`ListedOnce`), and after the hand-over somewhere (`Somewhere`). That the
channel has room follows: its results are of different rows, none of them the
worker's own. `Attempts` ties a row's attempts to its worker. The proofs about the
limiter are used through an instance of `ResourceLimiterProofs`, whose assumptions
`CallsAssumption` provides; `CallsInAttempt` adds that a worker is in a call only
during an attempt. `NeverStuck` and `PageRunsOut` are the safety half of `PageEnds`.
Until the page returns somebody can go on: workers leave only after the hand-over is
over (`LeaveAfterClose`), and while rows are missing in the lists one is in the channel
or with a worker, whose result has room. And each step of the page takes it closer to
its return in one order - main goroutine, rows handed over, rows collected, worker,
attempt, call - while the other job changes none of that.

`EntityAlignmentProofs` proves, for any jobs, rows, fields, labels, page and batch
sizes, failing stores and crashes, all safety properties of `EntityAlignment`.
Beside them the inductive invariant `AlignInv` says that every
recorded row has a mapping for each value (`RecordedMapped`) and, per job, that
a batch is collected only while its field is at hand and is not full before it is
flushed (`BatchOpen`), that between the two statements of a flush each value of
the batch that needs a candidate has one (`BatchQueued`), that a full job has a
mapping for each value of the fields behind it and of the field at hand those it
has not are still in `missing` or `pending` (`FieldsMapped`), that records
in memory name mapped rows and decided ones as succeeded (`RecordsHonest`), and
which rows are written and recorded so far (`WrittenSoFar`). `NeedsIsQueued`
alone is not inductive, for it says nothing of the batch in memory; it also needs
`ResolvedIsDecided`, because a candidate found in the table may be resolved.
What other processes do to a job is one lemma (`OtherJob`): tables only grow
(`GrowsStep`) - what has a mapping keeps one, what is decided stays decided,
what is written or recorded stays so.

Four results are proved beside `AlignInv`. `OutputTraced`: table and mappings
disagree only about values an operator resolved since. `RequestInv`: a goroutine
works only while its job is active, and everything it has in memory belongs to the
rows asked for, which are written when records are built. `PromiseKept` needs both
invariants, for `AlignmentPromise` lets a job act only on its own rows and record
only what is written: the proof takes each action to one step, or none, of the abstract
specification. `StepsRunOut`: fields, raw values, flushes, pages and records run
out, whatever fails and whatever others do; that a flush is of a batch with something in
it (`Flushing`) and that a job starts with an empty memory (`Fresh`) are invariants of
that proof.

`ResourceStoreProofs` proves for any clients, ids and configurations that no request
is served before all tables are complete, wherever set-ups were cut off
(`TablesPrepared`), that a save which nobody overlapped replaces the row it found
(`FoundIsThere`), hence `CreatedKept`, and that every step maps to one step, or none,
of `ResourceRegister` (`RegisterKeptHolds`).

`BusinessSetupProofs` proves for any number of jobs and reviews `MappingsKept` and
`ReadyFinds`. The invariant `SetupInv` says for each statement what its process
has behind it (`Backed`). The argument against the races is one fact: whoever
drops `field_name` made `target_set_id` NOT NULL first, and that statement fails
while a mapping without a set is there (`TablesInv`). `RacesRunOut` is the safety half
of `AllReady`: a statement fails without a fault only for a process whose earlier look
is out of date (`Overtaken`), which takes a change that is made once - `field_name` is
gone, the output table is there - and SET NOT NULL never fails at all, because whoever
gets there left no row without a set. So finitely many failures stand in the way of
everybody's getting ready.

`KeyScanProofs` proves `RangeTaken` for every width of int64, page size, table and
number of edits. Its invariant says that what was taken lies before the cursor
and what stays and was not taken lies after it, and that pages do not overlap
although their bounds wrap. `RequestsProofs` proves that each step of `Requests` is
a step of `KeyScan`, so that `RangeTaken` and `ScanAdvances` hold of the jobs of
accepted requests, and `PromptKeepsRequest` and `RowFitsSchema` for any requests,
sources and answers, whatever integers a float64 can be (`Floats`).
`ScanAdvances` is the safety half of `ScanEnds`: each page moves
the scan up within int64 or ends it, so that it ends within as many pages as there
are keys; the page that ends at the largest key, after which a bound would wrap, is the last.

Some theorems state a fact by name that the runs check as a part of another property.
`NoRowSkipped` is a part of `IInv`, `SlotsAreHolders` of `LimiterInv`;
`VerdictHonest` and `CountersAddUp` follow from `IInv` and `TerminalStays` from
`PromiseKept`; `WaitsForOwnLimit` is a part of `LimiterInv`; `EachRowOnce` says of every
state what `OutcomeKept` says of the return of a page, `RetriesBounded` bounds attempts as
`PageRunsOut` does and says what an error row reports; `NeedsIsQueued`,
`ResolvedIsDecided`, `RecordDecided` and `SucceededCovers` are parts of `AlignInv`, and
`RequestInv` is there for the proof of `PromiseKept`.

Model-checked only: liveness, which is outside the prover's reach - `JobsEnd` of both
services, `WaitEnds`, `PageEnds`, `SetupEnds`, `AllReady`, `ScanEnds`, and that of
`OutcomeKept`. For `JobsEnd`, `PageEnds`, `AllReady` and `ScanEnds` the theorems above
leave to TLC only that fair goroutines do take the finitely many steps they have.

## Assumptions

In `EnrichExtract` and `EntityAlignment` the source table does not change while jobs
run and its keys are positive; `KeyScan` drops both assumptions. One
server process works on a SQLite file, and SQLite statements are atomic. Nobody
else deletes rows of the output table. A Postgres statement that reports an
error may have been committed. Resources may change or fail at any time, which
shows as a failure of `EnsureExecutionReady`.

## Disagreements with the documents

* After a crash between the output write and `UpdateProgress`, the redone page
  leaves the written rows out, and `succeeded_rows` misses them: a job can end `failed`
  with "all rows failed" after it wrote rows and recorded them as succeeded.
  `AllFailedIsTrue` says how far this reaches: it takes a crash, or another job.
* The limiter replaces the entry of a resource whenever the limit of the caller
  differs, so two jobs started before and after a change of `max_concurrency`
  together, and even one of them alone, exceed the documented bound.
* A candidate reviewed after the output is written and before the process records
  are built leaves a row with NULL that is recorded `succeeded`; no later run over
  waiting rows selects it. `OutputTraced` says that nothing but a review does this.

Four more facts are no disagreement with a document, and the properties state
them as they are. A `start_id` of the smallest int64 wraps and selects no row
(`Wraps` in `RangeTaken`). The pages of the output of alignment are made for the whole span
of keys: two keys far apart, such as 1 and 10^16, need more memory than there is, which
ends the server, with all its jobs, and leaves the job running (`ScanEnds`). A number of an
answer is a float64: integers beyond 2^53 are rounded, in text columns too, and 2^63 passes
the check of its range for a bigint (`RowFitsSchema`); the numbers of a source row are
rounded in the prompt. An example whose
field name has white space around it passes the check and is null in the prompt
(`PromptKeepsRequest`).

## Plan

Done, in this order: `EnrichExtract` with `EnrichPromise`, `ResourceLimiter`,
`PageWorkers` with `PageOutcome`, their composition `PageCalls`, `EntityAlignment` with
`AlignmentPromise`, then `ResourceStore` with `ResourceRegister`, `BusinessSetup`, `KeyScan` and
`Requests`, each with its proofs.

Left, the most important first: jobs that align different fields, and both services
on one `data_process_records`.

## Not modelled

The handlers that only copy fields, the listings of targets and candidates, middleware,
configuration, logging, hashing and JSON extraction are pure or run once; generated
code follows the protocol files. The wording of prompts, the prompt of alignment and
what is read from its answer are a choice of the LLM in `EntityAlignment`. The
migrations of the two job tables follow the scheme of `ensureColumn` in
`ResourceStore`. In the migration of the mapping table, rows of a former version that
become equal make the unique index fail until they are removed; `BusinessSetup` starts
without such rows. Jobs that align different fields and both services on one table of
process records would need more states than a run can explore.
The embedding client has no caller. `PROJECT.json` gives the reason per component.
