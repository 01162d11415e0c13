--------------------------- MODULE EntityAlignment --------------------------
(***************************************************************************)
(* Entity alignment: jobs that map the raw values of a source table to     *)
(* labels of target sets (alignment/service.go, execution_service.go), and *)
(* the operators' review of values no label fits (ReviewTargetCandidates)  *)
(* that runs beside them.                                                  *)
(*                                                                         *)
(* Targets, candidates, mappings, the output table and                     *)
(* data_process_records are in Postgres and shared by all jobs; the status *)
(* of a job is in SQLite; the rest is the memory of its goroutine.  One    *)
(* statement is one step.  All jobs align the same fields.  Unlike         *)
(* enrichextract, nothing resumes a job after a crash.                     *)
(***************************************************************************)
EXTENDS Integers, FiniteSets

CONSTANTS
  Jobs,
  Keys,            \* values of key_field in the source table
  StartID, EndID,  \* [Jobs -> Int], the requested key range, inclusive
  OnlyWaiting,     \* [Jobs -> BOOLEAN], only_waiting_target_review
  NumFields,       \* fields are aligned in the order 1..NumFields
  Sets, SetOf,     \* target sets, [Fields -> Sets]
  Raws, RawOf,     \* raw values, [Fields -> [Keys -> Raws \cup {Blank}]]
  Blank,           \* NULL or white space in the source
  Labels,          \* labels a target set may have
  Unknown, Needs,  \* mappings without label: unknown_to_null, needs_candidate
  NoMapping,       \* no row in entity_alignment_mapping
  Absent,          \* no row in the output table
  TopK,            \* fuzzy_top_k
  BatchSize,       \* mappings per flush
  PageSize,        \* width of the key ranges output is written in (10000)
  WriteBatchSize,  \* process records per statement (writeBatchSize)
  Faults,          \* the stores whose statements may fail
  MaxCrashes       \* bound on the number of crashes

Fields == 1..NumFields

\* A row of the output table (see Aligned).
OutputRows == [Fields -> Labels \cup {Unknown, Needs, NoMapping, Blank}]

ASSUME SourceAssumption ==
  /\ Keys \subseteq Int /\ IsFiniteSet(Keys)
  /\ NumFields \in Nat \ {0}
  /\ SetOf \in [Fields -> Sets]
  /\ RawOf \in [Fields -> [Keys -> Raws \cup {Blank}]]
  /\ Blank \notin Raws
ASSUME JobsAssumption ==
  /\ StartID \in [Jobs -> Int] /\ EndID \in [Jobs -> Int]
  /\ OnlyWaiting \in [Jobs -> BOOLEAN]
  /\ {TopK, BatchSize, PageSize, WriteBatchSize} \subseteq Nat \ {0}
  /\ Faults \subseteq {"sqlite", "postgres"}
  /\ MaxCrashes \in Nat
ASSUME MappingAssumption ==
  /\ Labels \cap {Unknown, Needs, NoMapping, Blank} = {}
  /\ Unknown \notin {Needs, NoMapping, Blank} /\ Needs \notin {NoMapping, Blank}
  /\ NoMapping # Blank
  /\ Absent \notin OutputRows

VARIABLES
  status,      \* entity_alignment_jobs.status
  targets,     \* alignment_targets
  candidate,   \* target_candidates: status per target set and raw value
  mapping,     \* entity_alignment_mapping: label or reason for none
  out,         \* output table; a value is what the mapping said (see Aligned)
  rec,         \* data_process_records.status
  up, crashes, \* the server
  lapsed,      \* labels deleted since a review under way may have found them, with
               \* the value it is about
  pc,          \* the goroutine of a job, and its locals:
  field,       \*   the field at hand
  missing,     \*   raw values without mapping still to be generated
  recalled,    \*   the raw value at hand with the labels recalled for it
  pending,     \*   generated mappings not yet flushed
  pages,       \*   first and last key still to be written
  records      \*   process records that were built

sqlite   == <<status>>
postgres == <<targets, candidate, mapping, out, rec>>
locals   == <<field, missing, recalled, pending, pages, records>>
server   == <<up, crashes, lapsed>>
vars     == <<sqlite, postgres, server, pc, locals>>

Values == Sets \X Raws
Decided == Labels \cup {Unknown}
Generated == [raw : Raws, result : Labels \cup {Unknown, Needs}]
Records == UNION {[K -> {"succeeded", "waiting"}] : K \in SUBSET Keys}
Nothing == [raw |-> Blank, labels |-> {}]
NoRecords == [k \in {} |-> "succeeded"]
NoPages == [first |-> 0, last |-> 0]

Stages == {"none", "start", "load", "prepare", "select", "existing", "recall",
           "generate", "flush1", "flush2", "range", "write", "build", "record",
           "finish", "fail", "gone"}
InField  == {"existing", "recall", "generate", "flush1", "flush2"}
InFields == InField \cup {"select"}
InOutput == {"range", "write", "build"}
Executing == Stages \ {"none", "start", "fail", "gone"}

---------------------------------------------------------------------------
(***************************************************************************)
(* Helpers of the actions.                                                 *)
(***************************************************************************)

\* buildRangeClause and buildWaitingTargetReviewClause, evaluated by each
\* statement anew.
InRange(j) == {k \in Keys : StartID[j] <= k /\ k <= EndID[j]}
Wanted(j) == {k \in InRange(j) : OnlyWaiting[j] => rec[k] = "waiting"}

TargetSet(j) == SetOf[field[j]]

\* What the INSERT ... SELECT writes for a field: the label of a matched
\* mapping, otherwise NULL.  The model keeps the reason of the NULL.
MappingOf(f, k) == mapping[<<SetOf[f], RawOf[f][k]>>]
Aligned(f, k) == IF RawOf[f][k] = Blank THEN Blank ELSE MappingOf(f, k)

\* The loop over the fields goes on, or the output is written.
NextField(j) ==
  IF field[j] < NumFields
    THEN pc' = [pc EXCEPT ![j] = "select"] /\ field' = [field EXCEPT ![j] = @ + 1]
    ELSE pc' = [pc EXCEPT ![j] = "range"] /\ UNCHANGED field

\* The loop over the missing raw values goes on with those left, or ends.
NextRaw(j, left) ==
  IF left # {} THEN pc' = [pc EXCEPT ![j] = "recall"] /\ UNCHANGED field
               ELSE NextField(j)

\* The goroutine ends and its locals are gone.
Exit(j) ==
  /\ pc' = [pc EXCEPT ![j] = "gone"]
  /\ field' = [field EXCEPT ![j] = 1]
  /\ missing' = [missing EXCEPT ![j] = {}]
  /\ recalled' = [recalled EXCEPT ![j] = Nothing]
  /\ pending' = [pending EXCEPT ![j] = {}]
  /\ pages' = [pages EXCEPT ![j] = NoPages]
  /\ records' = [records EXCEPT ![j] = NoRecords]

\* Execute returned an error: the job is marked failed.  (The other definition,
\* and the like below, are mutations used to show that a property can fail.)
Leaves == "gone"
AfterError == "fail"

At(j, stage) == up /\ pc[j] = stage
Goto(j, stage) == pc' = [pc EXCEPT ![j] = stage]

---------------------------------------------------------------------------
(***************************************************************************)
(* The job: Service.Start and Service.runJob.                              *)
(***************************************************************************)

\* CreateJob and go runJob.
Start(j) ==
  /\ At(j, "none") /\ status[j] = "none"
  /\ status' = [status EXCEPT ![j] = "pending"]
  /\ Goto(j, "start")
  /\ UNCHANGED <<postgres, server, locals>>

\* MarkRunning; without it the goroutine just ends.
MarkRunning(j) ==
  /\ At(j, "start")
  /\ \/ status' = [status EXCEPT ![j] = "running"] /\ Goto(j, "load")
     \/ "sqlite" \in Faults /\ UNCHANGED status /\ Goto(j, "gone")
  /\ UNCHANGED <<postgres, server, locals>>

\* GetJob and the executor: resources, client, business database.
LoadJob(j) ==
  /\ At(j, "load")
  /\ Goto(j, "prepare")
  /\ UNCHANGED <<sqlite, postgres, server, locals>>

\* LoadTargetLabels and PrepareField of one field after the other;
\* EnsureExecutionReady after the last.
PrepareField(j) ==
  /\ At(j, "prepare")
  /\ \/ /\ targets[TargetSet(j)] = {}
        /\ Goto(j, AfterError) /\ UNCHANGED field
     \/ /\ targets[TargetSet(j)] # {} /\ field[j] < NumFields
        /\ field' = [field EXCEPT ![j] = @ + 1] /\ UNCHANGED pc
     \/ /\ targets[TargetSet(j)] # {} /\ field[j] = NumFields
        /\ field' = [field EXCEPT ![j] = 1] /\ Goto(j, "select")
  /\ UNCHANGED <<sqlite, postgres, server, missing, recalled, pending, pages, records>>

\* SelectDistinctRawValues.
SelectRawValues(j) ==
  /\ At(j, "select")
  /\ LET raws == {RawOf[field[j]][k] : k \in Wanted(j)} \ {Blank}
     IN /\ missing' = [missing EXCEPT ![j] = raws]
        /\ IF raws = {} THEN NextField(j) ELSE Goto(j, "existing") /\ UNCHANGED field
  /\ UNCHANGED <<sqlite, postgres, server, recalled, pending, pages, records>>

\* LoadExistingMappings, TouchMappings (counters only) and MissingRawValues.
LoadExistingMappings(j) ==
  /\ At(j, "existing")
  /\ LET left == {v \in missing[j] : mapping[<<TargetSet(j), v>>] = NoMapping}
     IN missing' = [missing EXCEPT ![j] = left] /\ NextRaw(j, left)
  /\ UNCHANGED <<sqlite, postgres, server, recalled, pending, pages, records>>

\* A generated mapping is flushed with the others when the batch is full, and
\* after the last raw value.
BatchFull(n) == n >= BatchSize

AddPending(j, v, result) ==
  LET left == missing[j] \ {v}
      new  == pending[j] \cup {[raw |-> v, result |-> result]}
  IN /\ missing' = [missing EXCEPT ![j] = left]
     /\ pending' = [pending EXCEPT ![j] = new]
     /\ Goto(j, IF BatchFull(Cardinality(new)) \/ left = {} THEN "flush1" ELSE "recall")

\* RecallTopKTargets: the similarity search falls back to all labels of the set,
\* so it returns TopK labels or all there are.  Without any, the raw value needs
\* a candidate and the LLM is not asked.
Recall(j) ==
  /\ At(j, "recall")
  /\ \E v \in missing[j] : LET T == targets[TargetSet(j)] IN
       \/ /\ T = {}
          /\ AddPending(j, v, Needs)
          /\ UNCHANGED recalled
       \/ /\ T # {}
          /\ \E L \in SUBSET T :
               /\ Cardinality(L) = TopK \/ (L = T /\ Cardinality(T) < TopK)
               /\ recalled' = [recalled EXCEPT ![j] = [raw |-> v, labels |-> L]]
          /\ Goto(j, "generate")
          /\ UNCHANGED <<missing, pending>>
  /\ UNCHANGED <<sqlite, postgres, server, field, pages, records>>

\* GenerateMapping: the answer passes ValidateGeneratedMapping, or the job fails.
\* The call has no deadline.
Generate(j) ==
  /\ At(j, "generate")
  /\ \/ \E result \in recalled[j].labels \cup {Unknown, Needs} :
          AddPending(j, recalled[j].raw, result)
     \/ Goto(j, AfterError) /\ UNCHANGED <<missing, pending>>
  /\ recalled' = [recalled EXCEPT ![j] = Nothing]
  /\ UNCHANGED <<sqlite, postgres, server, field, pages, records>>

\* flushGeneratedMappings sends two statements; which of them first.
MappingsFirst == FALSE
CandidatesFirst == TRUE

AfterFlush(j) ==
  IF pc[j] = "flush1"
    THEN Goto(j, "flush2") /\ UNCHANGED <<field, pending>>
    ELSE NextRaw(j, missing[j]) /\ pending' = [pending EXCEPT ![j] = {}]

\* On conflict a candidate keeps its status.
Reopened(old) == "pending"
MergedCandidate(old) == IF old = "none" THEN "pending" ELSE old

UpsertTargetCandidates(j) ==
  /\ At(j, IF CandidatesFirst THEN "flush1" ELSE "flush2")
  /\ candidate' = [x \in Values |->
       IF x[1] = TargetSet(j) /\ [raw |-> x[2], result |-> Needs] \in pending[j]
         THEN MergedCandidate(candidate[x]) ELSE candidate[x]]
  /\ AfterFlush(j)
  /\ UNCHANGED <<sqlite, targets, mapping, out, rec, server, missing, recalled,
                 pages, records>>

\* On conflict a mapping keeps its label and status.
Overwritten(old, new) == new
MergedMapping(old, new) == IF old = NoMapping THEN new ELSE old

UpsertMappings(j) ==
  /\ At(j, IF CandidatesFirst THEN "flush2" ELSE "flush1")
  /\ mapping' = [x \in Values |->
       IF x[1] = TargetSet(j) /\ \E g \in pending[j] : g.raw = x[2]
         THEN MergedMapping(mapping[x], (CHOOSE g \in pending[j] : g.raw = x[2]).result)
         ELSE mapping[x]]
  /\ AfterFlush(j)
  /\ UNCHANGED <<sqlite, targets, candidate, out, rec, server, missing, recalled,
                 pages, records>>

\* selectOutputKeyRange.
SelectKeyRange(j) ==
  /\ At(j, "range")
  /\ LET W == Wanted(j)
     IN IF W = {}
          THEN Goto(j, "build") /\ UNCHANGED pages
          ELSE /\ \E min, max \in W :
                    /\ \A k \in W : min <= k /\ k <= max
                    /\ pages' = [pages EXCEPT ![j] = [first |-> min, last |-> max]]
               /\ Goto(j, "write")
  /\ UNCHANGED <<sqlite, postgres, server, field, missing, recalled, pending, records>>

\* buildOutputPages: the last key of the page that starts with first, and the
\* first of the next page.
PageEnd(first, last) == IF last - first < PageSize THEN last ELSE first + PageSize - 1

SkipsOne(end) == end + 2
Overlaps(end) == end
NextPage(end) == end + 1

\* writeOutputRowsRange: one transaction per page.
WriteOutputPage(j) ==
  /\ At(j, "write")
  /\ LET first == pages[j].first
         last  == pages[j].last
         end   == PageEnd(first, last)
         rows  == {k \in Wanted(j) : first <= k /\ k <= end}
     IN /\ out' = [k \in Keys |->
             IF k \in rows THEN [f \in Fields |-> Aligned(f, k)] ELSE out[k]]
        /\ IF end = last
             THEN Goto(j, "build") /\ UNCHANGED pages
             ELSE pages' = [pages EXCEPT ![j].first = NextPage(end)] /\ UNCHANGED pc
  /\ UNCHANGED <<sqlite, targets, candidate, mapping, rec, server, field, missing,
                 recalled, pending, records>>

\* BuildSourceRangeProcessRecords reads the mappings again.
AlwaysSucceeded(k) == "succeeded"
RecordStatus(k) ==
  IF \E f \in Fields : Aligned(f, k) = Needs THEN "waiting" ELSE "succeeded"

BuildRecords(j) ==
  /\ At(j, "build")
  /\ records' = [records EXCEPT ![j] = [k \in Wanted(j) |-> RecordStatus(k)]]
  /\ Goto(j, "record")
  /\ UNCHANGED <<sqlite, postgres, server, field, missing, recalled, pending, pages>>

\* UpsertMany: one statement per batch; the records come in any order.
UpsertRecords(j) ==
  /\ At(j, "record")
  /\ LET K == DOMAIN records[j]
     IN \E batch \in SUBSET K :
          /\ Cardinality(batch) = WriteBatchSize
             \/ (batch = K /\ Cardinality(K) < WriteBatchSize)
          /\ rec' = [k \in Keys |-> IF k \in batch THEN records[j][k] ELSE rec[k]]
          /\ records' = [records EXCEPT ![j] = [k \in K \ batch |-> @[k]]]
          /\ Goto(j, IF batch = K THEN "finish" ELSE "record")
  /\ UNCHANGED <<sqlite, targets, candidate, mapping, out, server, field, missing,
                 recalled, pending, pages>>

MarkSucceeded(j) ==
  /\ At(j, "finish")
  /\ status' = [status EXCEPT ![j] = "succeeded"]
  /\ Exit(j)
  /\ UNCHANGED <<postgres, server>>

\* A statement fails or the goroutine panics.
Fail(j) ==
  /\ up /\ pc[j] \in Executing
  /\ \/ "postgres" \in Faults /\ pc[j] \notin {"generate", "finish"}
     \/ "sqlite" \in Faults /\ pc[j] \in {"load", "finish"}
  /\ Goto(j, AfterError)
  /\ UNCHANGED <<sqlite, postgres, server, locals>>

\* MarkFailed; its own error is ignored.
MarkFailed(j) ==
  /\ At(j, "fail")
  /\ \/ status' = [status EXCEPT ![j] = "failed"]
     \/ "sqlite" \in Faults /\ UNCHANGED status
  /\ Exit(j)
  /\ UNCHANGED <<postgres, server>>

---------------------------------------------------------------------------
(***************************************************************************)
(* Operators and the server.                                               *)
(***************************************************************************)

\* A label that is in its set again is found there.
StillLapsed == {p \in lapsed : p[2] \notin targets'[p[1][1]]}

UpsertTargets(s, L) ==
  /\ up
  /\ targets' = [targets EXCEPT ![s] = @ \cup L]
  /\ lapsed' = StillLapsed
  /\ UNCHANGED <<sqlite, candidate, mapping, out, rec, up, crashes, pc, locals>>

Candidates(s) == {x \in Values : x[1] = s /\ candidate[x] # "none"}

\* A review may have found the label before; its transaction does not lock it.
DeleteTarget(s, l) ==
  /\ up
  /\ targets' = [targets EXCEPT ![s] = @ \ {l}]
  /\ lapsed' = lapsed \cup {<<x, l>> : x \in {y \in Candidates(s) : l \in targets[s]}}
  /\ UNCHANGED <<sqlite, candidate, mapping, out, rec, up, crashes, pc, locals>>

Resolutions == ({"add_as_label", "map_to_existing"} \X Labels)
               \cup {<<"reject_as_null", Unknown>>}

\* ReviewTargetCandidates: a transaction resolves candidates of one set, pending
\* or not.  map_to_existing finds a label of the set, one that an action before it
\* added, or one that is deleted before the commit.
ReviewTargetCandidates(s) ==
  /\ up
  /\ \E C \in (SUBSET Candidates(s)) \ {{}} : \E D \in [C -> Resolutions] :
       LET added == {l \in Labels : \E x \in C : D[x] = <<"add_as_label", l>>}
       IN /\ \A x \in C : D[x][1] = "map_to_existing" =>
               D[x][2] \in targets[s] \cup added \/ <<x, D[x][2]>> \in lapsed
          /\ targets' = [targets EXCEPT ![s] = @ \cup added] /\ lapsed' = StillLapsed
          /\ mapping' = [x \in Values |-> IF x \in C THEN D[x][2] ELSE mapping[x]]
          /\ candidate' = [x \in Values |-> IF x \in C THEN "resolved" ELSE candidate[x]]
  /\ UNCHANGED <<sqlite, out, rec, up, crashes, pc, locals>>

Crash ==
  /\ up /\ crashes < MaxCrashes
  /\ up' = FALSE /\ crashes' = crashes + 1 /\ lapsed' = {}
  /\ pc' = [j \in Jobs |-> IF pc[j] = "none" THEN "none" ELSE "gone"]
  /\ field' = [j \in Jobs |-> 1]
  /\ missing' = [j \in Jobs |-> {}]
  /\ recalled' = [j \in Jobs |-> Nothing]
  /\ pending' = [j \in Jobs |-> {}]
  /\ pages' = [j \in Jobs |-> NoPages]
  /\ records' = [j \in Jobs |-> NoRecords]
  /\ UNCHANGED <<sqlite, postgres>>

\* The server starts again; the wiring looks for no alignment job.
Restart ==
  /\ ~up
  /\ up' = TRUE
  /\ UNCHANGED <<sqlite, postgres, crashes, lapsed, pc, locals>>

Init ==
  /\ status = [j \in Jobs |-> "none"]
  /\ targets \in [Sets -> SUBSET Labels]
  /\ candidate = [x \in Values |-> "none"]
  /\ mapping = [x \in Values |-> NoMapping]
  /\ out = [k \in Keys |-> Absent]
  /\ rec = [k \in Keys |-> "none"]
  /\ up = TRUE /\ crashes = 0 /\ lapsed = {}
  /\ pc = [j \in Jobs |-> "none"]
  /\ field = [j \in Jobs |-> 1]
  /\ missing = [j \in Jobs |-> {}]
  /\ recalled = [j \in Jobs |-> Nothing]
  /\ pending = [j \in Jobs |-> {}]
  /\ pages = [j \in Jobs |-> NoPages]
  /\ records = [j \in Jobs |-> NoRecords]

\* What the goroutine of a job does by itself; it waits for the LLM.
Execute(j) ==
  \/ MarkRunning(j) \/ LoadJob(j) \/ PrepareField(j)
  \/ SelectRawValues(j) \/ LoadExistingMappings(j) \/ Recall(j)
  \/ UpsertTargetCandidates(j) \/ UpsertMappings(j)
  \/ SelectKeyRange(j) \/ WriteOutputPage(j)
  \/ BuildRecords(j) \/ UpsertRecords(j)
  \/ MarkSucceeded(j) \/ Fail(j) \/ MarkFailed(j)

Operate ==
  \E s \in Sets :
    \/ \E L \in (SUBSET Labels) \ {{}} : UpsertTargets(s, L)
    \/ \E l \in Labels : DeleteTarget(s, l)
    \/ ReviewTargetCandidates(s)

Next ==
  \/ \E j \in Jobs : Start(j) \/ Execute(j) \/ Generate(j)
  \/ Operate
  \/ Crash \/ Restart

Spec == Init /\ [][Next]_vars

\* The goroutine of a job goes on, except that the LLM need not ever answer.
FairSpec == Spec /\ \A j \in Jobs : WF_vars(Execute(j))

---------------------------------------------------------------------------
(***************************************************************************)
(* Properties.                                                             *)
(***************************************************************************)

\* The types of the tables and of the goroutines' memory; no more mappings wait
\* to be flushed than a batch holds.
TypeOK ==
  /\ status \in [Jobs -> {"none", "pending", "running", "succeeded", "failed"}]
  /\ targets \in [Sets -> SUBSET Labels]
  /\ candidate \in [Values -> {"none", "pending", "resolved"}]
  /\ mapping \in [Values -> Labels \cup {Unknown, Needs, NoMapping}]
  /\ out \in [Keys -> OutputRows \cup {Absent}]
  /\ rec \in [Keys -> {"none", "succeeded", "waiting"}]
  /\ up \in BOOLEAN /\ crashes \in 0..MaxCrashes /\ lapsed \subseteq Values \X Labels
  /\ pc \in [Jobs -> Stages]
  /\ field \in [Jobs -> Fields]
  /\ missing \in [Jobs -> SUBSET Raws]
  /\ recalled \in [Jobs -> [raw : Raws \cup {Blank}, labels : SUBSET Labels]]
  /\ pending \in [Jobs -> SUBSET Generated]
  /\ \A j \in Jobs : Cardinality(pending[j]) <= BatchSize
  /\ pages \in [Jobs -> [first : Int, last : Int]]
  /\ records \in [Jobs -> Records]

\* A raw value mapped to needs_candidate is in the review queue, unresolved: no
\* crash and no other job can leave it mapped to nothing where no operator sees
\* it.
NeedsIsQueued ==
  \A x \in Values : mapping[x] = Needs => candidate[x] = "pending"

\* "After the review the mapping must be written back": a resolved candidate has
\* a decided mapping, whatever jobs generated meanwhile.
ResolvedIsDecided ==
  \A x \in Values : candidate[x] = "resolved" => mapping[x] \in Decided

IsDecided(f, k) == RawOf[f][k] # Blank => MappingOf(f, k) \in Decided

\* A row recorded succeeded has a decided mapping for each of its values.
RecordDecided ==
  \A k \in Keys : rec[k] = "succeeded" => \A f \in Fields : IsDecided(f, k)

\* A job over the whole range that ended succeeded has written and recorded every
\* row of it.
SucceededCovers ==
  \A j \in Jobs : status[j] = "succeeded" /\ ~OnlyWaiting[j] =>
    \A k \in InRange(j) : out[k] # Absent /\ rec[k] # "none"

\* No step of a job changes a mapping that exists, though it generated another
\* result meanwhile, and no candidate that was resolved is opened again: what an
\* operator decided stays until an operator decides otherwise.
DecisionsStay ==
  [][\A x \in Values :
       /\ pc' # pc /\ mapping[x] # NoMapping => mapping'[x] = mapping[x]
       /\ candidate[x] = "resolved" => candidate'[x] = "resolved"]_vars

\* An output row shows what the mappings say, unless an operator resolved the
\* candidate of the value since: the jobs alone, however many and however they
\* fail, never let the table and the mappings disagree, and no row is written
\* before its values have mappings.
OutputTraced ==
  \A k \in Keys, f \in Fields : out[k] # Absent /\ RawOf[f][k] # Blank =>
    /\ out[k][f] # NoMapping
    /\ \/ out[k][f] = MappingOf(f, k)
       \/ candidate[<<SetOf[f], RawOf[f][k]>>] = "resolved"

ValuesIn(k) == {<<SetOf[f], RawOf[f][k]>> : f \in {g \in Fields : RawOf[g][k] # Blank}}

\* The jobs and the reviews keep the promise of AlignmentPromise.
Promise == INSTANCE AlignmentPromise WITH
  Rows <- Keys,
  Asked <- [j \in Jobs |-> InRange(j)],
  Full <- {j \in Jobs : ~OnlyWaiting[j]},
  ValuesOf <- [k \in Keys |-> ValuesIn(k)],
  Decisions <- Decided,
  Undecided <- Needs,
  NoResult <- NoMapping,
  phase <- [j \in Jobs |-> IF status[j] \in {"pending", "running"}
                             THEN "active" ELSE status[j]],
  queue <- candidate,
  result <- mapping,
  written <- {k \in Keys : out[k] # Absent},
  record <- rec

PromiseKept == Promise!PromiseSpec

Ended(j) == status[j] \in {"succeeded", "failed"}

\* How far a goroutine is from its end: the part of Execute, the part of a field,
\* the part of one raw value and of a flush.
PartsLeft == [none |-> 0, gone |-> 0, fail |-> 1, finish |-> 2, record |-> 3, build |-> 4,
              write |-> 5, range |-> 6, flush2 |-> 7, flush1 |-> 7, generate |-> 7,
              recall |-> 7, existing |-> 7, select |-> 7, prepare |-> 8, load |-> 9,
              start |-> 10]
StagesLeft == [s \in Stages |-> CASE s = "select" -> 2 [] s = "existing" -> 1 [] OTHER -> 0]
CallsLeft == [s \in Stages |-> CASE s = "recall" -> 3 [] s = "generate" -> 2
                                 [] s = "flush1" -> 1 [] OTHER -> 0]

Fewer(S, T) == S \subseteq T /\ S # T

\* Inside a field: fewer raw values to generate, or the batch is flushed, or the
\* next call for the same ones.
CloserInField(j) ==
  \/ StagesLeft[pc'[j]] < StagesLeft[pc[j]]
  \/ /\ StagesLeft[pc'[j]] = StagesLeft[pc[j]]
     /\ \/ Fewer(missing'[j], missing[j])
        \/ missing'[j] = missing[j] /\ Fewer(pending'[j], pending[j])
        \/ /\ missing'[j] = missing[j] /\ pending'[j] = pending[j]
           /\ CallsLeft[pc'[j]] < CallsLeft[pc[j]]

Closer(j) ==
  \/ PartsLeft[pc'[j]] < PartsLeft[pc[j]]
  \/ /\ PartsLeft[pc'[j]] = PartsLeft[pc[j]]
     /\ \/ field[j] < field'[j] /\ field'[j] <= NumFields
        \/ field'[j] = field[j] /\ pc[j] \in InFields /\ CloserInField(j)
        \/ /\ pc[j] = "write" /\ pages'[j].last = pages[j].last
           /\ pages[j].first < pages'[j].first /\ pages'[j].first <= pages[j].last
        \/ pc[j] = "record" /\ Fewer(DOMAIN records'[j], DOMAIN records[j])

\* No goroutine goes round in circles: whatever fails and whatever others do to the
\* tables meanwhile, each of its steps gets it closer to its end in an order in
\* which only finitely many steps can follow.
StepsRunOut ==
  [][\A j \in Jobs :
       pc[j] # "none" /\
         \/ ~UNCHANGED <<pc[j], field[j], missing[j], recalled[j], pending[j], pages[j], records[j]>>
         \/ Execute(j) \/ Generate(j)
       => Closer(j)]_vars

\* Without a crash a job that was started ends, or waits for an answer of the LLM
\* for ever: its calls carry no deadline.
JobsEnd ==
  \A j \in Jobs : status[j] = "pending" ~> (Ended(j) \/ []<>(pc[j] = "generate"))

---------------------------------------------------------------------------
(***************************************************************************)
(* The inductive invariant.                                                *)
(***************************************************************************)

Mapped(f, k) == RawOf[f][k] # Blank => MappingOf(f, k) # NoMapping

\* A batch is collected while its field is at hand, and is never full then.
BatchOpen(j) ==
  /\ pending[j] # {} => pc[j] \in {"recall", "generate", "flush1", "flush2", "fail"}
  /\ IsFiniteSet(pending[j])
  /\ pc[j] \in {"recall", "generate"} => Cardinality(pending[j]) < BatchSize
  /\ pc[j] = "generate" => recalled[j].raw \in missing[j]
  /\ pc[j] = "recall" => missing[j] # {}

\* Between the two statements of a flush every value of the batch that needs a
\* candidate has one.
BatchQueued(j) ==
  pc[j] = "flush2" =>
    \A g \in pending[j] :
      g.result = Needs => candidate[<<TargetSet(j), g.raw>>] # "none"

\* A full job has a mapping for every value of the fields it is through with, and
\* of the field at hand those it has not are still to be generated or flushed.
FieldsMapped(j) ==
  ~OnlyWaiting[j] =>
    \A k \in InRange(j) :
      /\ pc[j] \in InOutput => \A f \in Fields : Mapped(f, k)
      /\ pc[j] \in InFields => \A f \in Fields : f < field[j] => Mapped(f, k)
      /\ pc[j] \in InField =>
           \/ Mapped(field[j], k)
           \/ RawOf[field[j]][k] \in missing[j]
           \/ \E g \in pending[j] : g.raw = RawOf[field[j]][k]

\* Records that are to be written name rows with mappings, and succeeded rows
\* whose values are decided.
RecordsHonest(j) ==
  \A k \in DOMAIN records[j] : \A f \in Fields :
    /\ Mapped(f, k)
    /\ records[j][k] = "succeeded" => IsDecided(f, k)

RecordedMapped == \A k \in Keys : rec[k] # "none" => \A f \in Fields : Mapped(f, k)

\* A full job has written its rows up to the present page, then all of them, and
\* then recorded those it has no record of in hand.
WrittenSoFar(j) ==
  ~OnlyWaiting[j] =>
    \A k \in InRange(j) :
      /\ pc[j] = "write" => k <= pages[j].last
                            /\ (k < pages[j].first => out[k] # Absent)
      /\ pc[j] \in {"build", "record", "finish"} => out[k] # Absent
      /\ pc[j] = "record" => rec[k] # "none" \/ k \in DOMAIN records[j]
      /\ pc[j] = "finish" => rec[k] # "none"

\* What is to be shown of one job.
JobInv(j) ==
  /\ BatchOpen(j)
  /\ BatchQueued(j)
  /\ FieldsMapped(j)
  /\ RecordsHonest(j)
  /\ WrittenSoFar(j)

\* The inductive invariant behind the safety properties.
AlignInv ==
  /\ TypeOK
  /\ NeedsIsQueued
  /\ ResolvedIsDecided
  /\ RecordedMapped
  /\ RecordDecided
  /\ SucceededCovers
  /\ \A j \in Jobs : JobInv(j)

(***************************************************************************)
(* What the refinement of AlignmentPromise needs beside it.                *)
(***************************************************************************)

\* The goroutine of a job works only while the job is active.
Owned(j) == pc[j] \notin {"none", "gone"} => status[j] \in {"pending", "running"}

\* The values at hand, and the rows to be recorded, are of the requested rows, and
\* these rows are written.
WithinRequest(j) ==
  /\ pc[j] \in InField =>
       \A v \in missing[j] \cup {g.raw : g \in pending[j]} :
         \E k \in InRange(j) : RawOf[field[j]][k] = v
  /\ \A k \in DOMAIN records[j] : k \in InRange(j) /\ out[k] # Absent

RecordedWritten == \A k \in Keys : rec[k] # "none" => out[k] # Absent

RequestInv == RecordedWritten /\ \A j \in Jobs : Owned(j) /\ WithinRequest(j)

---------------------------------------------------------------------------
(***************************************************************************)
(* What the design document says and the code does not do.                 *)
(***************************************************************************)

\* "succeeded: all fields of the row have been aligned, and there is no
\* needs_candidate": a row recorded succeeded was not written with NULL for lack
\* of a decision when the decision is a label.
SucceededRowAligned ==
  \A k \in Keys : rec[k] = "succeeded" /\ out[k] # Absent =>
    \A f \in Fields : out[k][f] = Needs => MappingOf(f, k) \notin Labels
=============================================================================
