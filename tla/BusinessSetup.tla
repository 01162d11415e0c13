---------------------------- MODULE BusinessSetup ---------------------------
(***************************************************************************)
(* The set-up of the business Postgres database by EnsureExecutionReady of *)
(* alignment jobs and of enrichextract jobs, and by reviews of candidates: *)
(* missing tables and indexes are created, and the mapping table of a      *)
(* former version is migrated.  There is no transaction and no lock around *)
(* it: each statement is a step, those of several jobs and reviews         *)
(* interleave, and any of them may fail or be the last before a crash.     *)
(* Who failed, or was cut off, is started again from the beginning.        *)
(* The requests about targets, and a job before its set-up, run            *)
(* ensureTargetsTable alone: they add nothing to the races below.          *)
(***************************************************************************)
EXTENDS Naturals

CONSTANTS
  Jobs,        \* alignment jobs, which write one output table
  Reviews,     \* reviews of candidates
  Extracts,    \* enrichextract jobs, which write another
  MaxFaults    \* bound on failing statements and crashes

Processes == Jobs \cup Reviews \cup Extracts

ASSUME SetupAssumption ==
  /\ MaxFaults \in Nat
  /\ Jobs \cap Reviews = {} /\ Jobs \cap Extracts = {} /\ Reviews \cap Extracts = {}

VARIABLES
  columns,     \* of the mapping table, {} without the table
  notNull,     \* its target_set_id is NOT NULL
  unset,       \* it has rows without target_set_id
  mappingKey,  \* its unique index on target_set_id and raw_value
  targets,     \* the table of targets: missing, with a description, complete
  recallIndex, \* its trigram index
  candidates,  \* the table of candidates exists
  output,      \* the alignment's output table: missing, plain, or with unique key
  extracted,   \* the same for enrichextract
  at,          \* the next statement of each process
  faults

mappingTable == <<columns, notNull, unset, mappingKey>>
targetTable == <<targets, recallIndex>>
tables == <<mappingTable, targetTable, candidates, output, extracted>>
vars == <<tables, at, faults>>

\* The jobs' order is mapping, targets, candidates, output; that of a review is
\* targets, candidates, mapping.
First(p) == CASE p \in Jobs -> "create_mapping"
              [] p \in Reviews -> "create_targets"
              [] p \in Extracts -> "load_extracted"
AfterMapping(p) == IF p \in Jobs THEN "create_targets" ELSE "ready"
AfterTargets(p) == IF p \in Jobs THEN "recall_index" ELSE "create_candidates"
AfterCandidates(p) == IF p \in Jobs THEN "load_output" ELSE "create_mapping"

Go(p, stage) == at' = [at EXCEPT ![p] = stage]
At(p, stage) == at[p] = stage /\ UNCHANGED faults

---------------------------------------------------------------------------
(***************************************************************************)
(* ensureMappingTable, with ensureMappingTargetSetColumn.                  *)
(***************************************************************************)
CreateMapping(p) ==
  /\ At(p, "create_mapping")
  /\ IF columns = {} THEN columns' = {"target_set_id"} /\ notNull' = TRUE
                     ELSE UNCHANGED <<columns, notNull>>
  /\ Go(p, "add_target_set")
  /\ UNCHANGED <<unset, mappingKey, targetTable, candidates, output, extracted>>

AddTargetSet(p) ==
  /\ At(p, "add_target_set")
  /\ columns' = columns \cup {"target_set_id"}
  /\ Go(p, "check_field")
  /\ UNCHANGED <<notNull, unset, mappingKey, targetTable, candidates, output, extracted>>

\* columnExists for field_name; the answer may be out of date when it is used.
\* (AlwaysBackfills, and the like below, are mutations used to show that a
\* property can fail.)
AlwaysBackfills == TRUE
FieldNameExists == "field_name" \in columns

DropsFirst(exists) == "drop_field"
AfterCheck(exists) == IF exists THEN "backfill" ELSE "set_not_null"

CheckField(p) ==
  /\ At(p, "check_field")
  /\ Go(p, AfterCheck(FieldNameExists))
  /\ UNCHANGED tables

\* UPDATE ... SET target_set_id = field_name: an error without such a column.
Backfill(p) ==
  /\ At(p, "backfill")
  /\ IF "field_name" \in columns THEN unset' = FALSE /\ Go(p, "set_not_null")
                                 ELSE UNCHANGED unset /\ Go(p, "failed")
  /\ UNCHANGED <<columns, notNull, mappingKey, targetTable, candidates, output, extracted>>

\* An error while there are rows without target set.
SetNotNull(p) ==
  /\ At(p, "set_not_null")
  /\ IF unset THEN UNCHANGED notNull /\ Go(p, "failed")
              ELSE notNull' = TRUE /\ Go(p, "drop_field")
  /\ UNCHANGED <<columns, unset, mappingKey, targetTable, candidates, output, extracted>>

\* The other two columns that are dropped are read by nobody.
DropField(p) ==
  /\ At(p, "drop_field")
  /\ columns' = columns \ {"field_name"}
  /\ Go(p, "mapping_index")
  /\ UNCHANGED <<notNull, unset, mappingKey, targetTable, candidates, output, extracted>>

CreateMappingIndex(p) ==
  /\ At(p, "mapping_index")
  /\ mappingKey' = TRUE
  /\ Go(p, AfterMapping(p))
  /\ UNCHANGED <<columns, notNull, unset, targetTable, candidates, output, extracted>>

EnsureMapping(p) ==
  \/ CreateMapping(p) \/ AddTargetSet(p) \/ CheckField(p) \/ Backfill(p)
  \/ SetNotNull(p) \/ DropField(p) \/ CreateMappingIndex(p)

---------------------------------------------------------------------------
(***************************************************************************)
(* ensureTargetsTable, ensureTargetRecallIndex, ensureCandidatesTable.     *)
(***************************************************************************)
CreateTargets(p) ==
  /\ At(p, "create_targets")
  /\ targets' = IF targets = "none" THEN "complete" ELSE targets
  /\ Go(p, "drop_description")
  /\ UNCHANGED <<mappingTable, recallIndex, candidates, output, extracted>>

DropDescription(p) ==
  /\ At(p, "drop_description")
  /\ targets' = "complete"
  /\ Go(p, AfterTargets(p))
  /\ UNCHANGED <<mappingTable, recallIndex, candidates, output, extracted>>

CreateRecallIndex(p) ==
  /\ At(p, "recall_index")
  /\ recallIndex' = TRUE
  /\ Go(p, "create_candidates")
  /\ UNCHANGED <<mappingTable, targets, candidates, output, extracted>>

CreateCandidates(p) ==
  /\ At(p, "create_candidates")
  /\ candidates' = TRUE
  /\ Go(p, AfterCandidates(p))
  /\ UNCHANGED <<mappingTable, targetTable, output, extracted>>

EnsureQueue(p) ==
  CreateTargets(p) \/ DropDescription(p) \/ CreateRecallIndex(p) \/ CreateCandidates(p)

---------------------------------------------------------------------------
(***************************************************************************)
(* ensureOutputTable, ensureOutputUniqueKey, ensureSourceKeyNotNull.       *)
(***************************************************************************)

\* A table that exists may lack its key: a crash came between its statements.
KeyWithTableOnly(table) == IF table = "none" THEN "create_output" ELSE "check_nulls"
AfterLoad(table) == IF table = "none" THEN "create_output" ELSE "load_indexes"

LoadOutput(p) ==
  /\ At(p, "load_output")
  /\ Go(p, AfterLoad(output))
  /\ UNCHANGED tables

\* CREATE TABLE without IF NOT EXISTS.
CreateOutput(p) ==
  /\ At(p, "create_output")
  /\ IF output = "none" THEN output' = "plain" /\ Go(p, "load_indexes")
                        ELSE UNCHANGED output /\ Go(p, "failed")
  /\ UNCHANGED <<mappingTable, targetTable, candidates, extracted>>

LoadIndexes(p) ==
  /\ At(p, "load_indexes")
  /\ Go(p, IF output = "unique" THEN "check_nulls" ELSE "output_index")
  /\ UNCHANGED tables

CreateOutputIndex(p) ==
  /\ At(p, "output_index")
  /\ output' = "unique"
  /\ Go(p, "check_nulls")
  /\ UNCHANGED <<mappingTable, targetTable, candidates, extracted>>

\* Rows without a key are a reason to refuse the job (see Fails).
CheckNulls(p) ==
  /\ At(p, "check_nulls")
  /\ Go(p, "ready")
  /\ UNCHANGED tables

EnsureOutput(p) ==
  \/ LoadOutput(p) \/ CreateOutput(p) \/ LoadIndexes(p) \/ CreateOutputIndex(p)
  \/ CheckNulls(p)

---------------------------------------------------------------------------
(***************************************************************************)
(* enrichextract: the table is created with its key, or must have one.     *)
(***************************************************************************)
LoadExtracted(p) ==
  /\ At(p, "load_extracted")
  /\ Go(p, IF extracted = "none" THEN "create_extracted" ELSE "check_unique")
  /\ UNCHANGED tables

CreateExtracted(p) ==
  /\ At(p, "create_extracted")
  /\ extracted' = IF extracted = "none" THEN "unique" ELSE extracted
  /\ Go(p, "check_unique")
  /\ UNCHANGED <<mappingTable, targetTable, candidates, output>>

CheckUnique(p) ==
  /\ At(p, "check_unique")
  /\ Go(p, IF extracted = "unique" THEN "ready" ELSE "failed")
  /\ UNCHANGED tables

EnsureExtracted(p) == LoadExtracted(p) \/ CreateExtracted(p) \/ CheckUnique(p)

---------------------------------------------------------------------------
Again(p) ==
  /\ at[p] = "failed"
  /\ Go(p, First(p))
  /\ UNCHANGED <<tables, faults>>

Step(p) == EnsureMapping(p) \/ EnsureQueue(p) \/ EnsureOutput(p) \/ EnsureExtracted(p)

\* A statement fails, or what it finds is refused.
Fails(p) ==
  /\ at[p] \notin {"failed", "ready"}
  /\ faults < MaxFaults
  /\ faults' = faults + 1
  /\ Go(p, "failed")
  /\ UNCHANGED tables

Crash ==
  /\ faults < MaxFaults
  /\ faults' = faults + 1
  /\ at' = [p \in Processes |-> "failed"]
  /\ UNCHANGED tables

\* A new database, one that a former version used, or one that is set up; output
\* tables may exist before, here without their keys; those with keys are the
\* ones an earlier job left.
Init ==
  /\ \/ /\ columns = {} /\ targets = "none"
        /\ notNull = FALSE /\ unset = FALSE /\ mappingKey = FALSE
        /\ recallIndex = FALSE /\ candidates = FALSE
     \/ /\ columns = {"field_name"} /\ targets = "described"
        /\ notNull = FALSE /\ unset \in BOOLEAN /\ mappingKey = FALSE
        /\ recallIndex = FALSE /\ candidates = FALSE
     \/ /\ columns = {"target_set_id"} /\ targets = "complete"
        /\ notNull = TRUE /\ unset = FALSE /\ mappingKey = TRUE
        /\ recallIndex = TRUE /\ candidates = TRUE
  /\ output \in {"none", "plain"}
  /\ extracted \in {"none", "plain"}
  /\ at = [p \in Processes |-> First(p)]
  /\ faults = 0

Next == Crash \/ \E p \in Processes : Again(p) \/ Step(p) \/ Fails(p)

Spec == Init /\ [][Next]_vars

\* Goroutines and requests go on, and failed jobs are started again.
FairSpec == Spec /\ \A p \in Processes : WF_vars(Again(p) \/ Step(p))

---------------------------------------------------------------------------
(***************************************************************************)
(* Properties.                                                             *)
(***************************************************************************)

\* No mapping of a former version is lost: while a row has no target set, the
\* column it is to be taken from is there, although others may be dropping it.
MappingsKept == unset => "field_name" \in columns

\* What the statements after the set-up count on: the columns they name, and
\* the unique keys their ON CONFLICT clauses need.
MappingReady == columns = {"target_set_id"} /\ notNull /\ mappingKey
QueueReady == targets = "complete" /\ candidates

ReadyFinds ==
  \A p \in Processes : at[p] = "ready" =>
    /\ p \in Jobs \cup Reviews => MappingReady /\ QueueReady
    /\ p \in Jobs => recallIndex /\ output = "unique"
    /\ p \in Extracts => extracted = "unique"

MappingStages == {"create_mapping", "add_target_set", "check_field", "backfill",
                  "set_not_null", "drop_field", "mapping_index"}
QueueStages == {"create_targets", "drop_description", "recall_index", "create_candidates"}
OutputStages == {"load_output", "create_output", "load_indexes", "output_index", "check_nulls"}

ExtractStages == {"load_extracted", "create_extracted", "check_unique"}
Ends == {"failed", "ready"}
Stages == MappingStages \cup QueueStages \cup OutputStages \cup ExtractStages \cup Ends

StagesOf(p) ==
  Ends \cup IF p \in Extracts THEN ExtractStages
            ELSE MappingStages \cup QueueStages \cup IF p \in Jobs THEN OutputStages ELSE {}

\* Whoever drops field_name has made target_set_id NOT NULL, which a row without
\* one prevents.
TablesInv ==
  /\ columns \subseteq {"target_set_id", "field_name"}
  /\ extracted \in {"none", "plain", "unique"}
  /\ MappingsKept
  /\ notNull => ~unset /\ "target_set_id" \in columns
  /\ mappingKey => notNull /\ columns = {"target_set_id"}

\* What a process has behind it at each of its statements.
Backed(p, stage) ==
  /\ stage \in {"check_field", "backfill", "set_not_null"} => "target_set_id" \in columns
  /\ stage = "set_not_null" => ~unset
  /\ stage = "drop_field" => notNull
  /\ stage = "mapping_index" => notNull /\ columns = {"target_set_id"}
  /\ p \in Jobs =>
       /\ stage \in QueueStages \cup OutputStages \cup {"ready"} => MappingReady
       /\ stage \in {"recall_index", "create_candidates", "ready"} \cup OutputStages =>
            targets = "complete"
       /\ stage \in {"create_candidates", "ready"} \cup OutputStages => recallIndex
       /\ stage \in {"ready"} \cup OutputStages => candidates
       /\ stage \in {"check_nulls", "ready"} => output = "unique"
  /\ p \in Reviews =>
       /\ stage \in {"recall_index", "create_candidates", "ready"} \cup MappingStages =>
            targets = "complete"
       /\ stage \in {"ready"} \cup MappingStages => candidates
       /\ stage = "ready" => MappingReady
  /\ p \in Extracts =>
       /\ stage = "check_unique" => extracted # "none"
       /\ stage = "ready" => extracted = "unique"

\* The inductive invariant behind the theorems.
SetupInv ==
  /\ TablesInv
  /\ at \in [Processes -> Stages]
  /\ \A p \in Processes, s \in Stages : at[p] = s => s \in StagesOf(p) /\ Backed(p, s)

\* Who is about to fail although no fault occurs: what its statement needs was
\* there when it looked, and another process changed it since.
Overtaken ==
  {p \in Processes : \/ at[p] = "backfill" /\ "field_name" \notin columns
                     \/ at[p] = "create_output" /\ output # "none"}

\* How far a process is with its statements.
Order ==
  [failed |-> 0, create_mapping |-> 1, add_target_set |-> 2, check_field |-> 3,
   backfill |-> 4, set_not_null |-> 5, drop_field |-> 6, mapping_index |-> 7,
   create_targets |-> 8, drop_description |-> 9, recall_index |-> 10,
   create_candidates |-> 11, load_output |-> 12, create_output |-> 13,
   load_indexes |-> 14, output_index |-> 15, check_nulls |-> 16,
   load_extracted |-> 1, create_extracted |-> 2, check_unique |-> 3, ready |-> 40]
Position(p) ==
  Order[at[p]] + IF p \in Reviews /\ at[p] \in MappingStages THEN 20 ELSE 0

\* A statement makes a change that is made once - the former column goes, the
\* output table comes -, ends the attempt of a process that was overtaken while
\* nobody else gets overtaken, or brings its process on.
RaceStep ==
  /\ "field_name" \in columns' => "field_name" \in columns
  /\ output # "none" => output' # "none"
  /\ \/ "field_name" \in columns \ columns'
     \/ output = "none" /\ output' # "none"
     \/ Overtaken' \subseteq Overtaken /\ Overtaken' # Overtaken
     \/ /\ Overtaken' = Overtaken
        /\ \E p \in Processes :
             /\ \/ Position(p) < Position(p)'
                \/ p \in Extracts /\ at'[p] = "failed" /\ extracted = "plain"
             /\ \A q \in Processes \ {p} : at'[q] = at[q]

\* The races end: without another fault, a process loses one only to a change that
\* no other follows, and, started again, does not meet the same failure.
RacesRunOut == [][faults' = faults => RaceStep]_vars

\* The races of several set-ups, failing statements and crashes delay, and never
\* prevent: whoever is started again gets ready, unless a table that somebody
\* else created for enrichextract has no key.
AllReady ==
  /\ \A p \in Jobs \cup Reviews : <>(at[p] = "ready")
  /\ \A p \in Extracts : <>(at[p] = "ready" \/ extracted = "plain")
=============================================================================
