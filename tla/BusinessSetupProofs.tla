------------------------ MODULE BusinessSetupProofs -------------------------
(***************************************************************************)
(* Proofs about BusinessSetup, for any number of jobs and reviews.         *)
(***************************************************************************)
EXTENDS BusinessSetup, TLAPS

\* No statement takes back what another set-up counts on.
Grows ==
  /\ "target_set_id" \in columns => "target_set_id" \in columns'
  /\ columns = {"target_set_id"} => columns' = {"target_set_id"}
  /\ notNull => notNull'
  /\ ~unset => ~unset'
  /\ mappingKey => mappingKey'
  /\ targets = "complete" => targets' = "complete"
  /\ recallIndex => recallIndex'
  /\ candidates => candidates'
  /\ output = "unique" => output' = "unique"
  /\ extracted = "unique" => extracted' = "unique"
  /\ extracted # "none" => extracted' # "none"

LEMMA BackedStays ==
  ASSUME Grows, NEW p, NEW stage, Backed(p, stage)
  PROVE  Backed(p, stage)'
BY DEF Grows, Backed, MappingReady

LEMMA KindsDisjoint ==
  /\ \A p \in Jobs : p \in Processes /\ p \notin Reviews /\ p \notin Extracts
  /\ \A p \in Reviews : p \in Processes /\ p \notin Jobs /\ p \notin Extracts
  /\ \A p \in Extracts : p \in Processes /\ p \notin Jobs /\ p \notin Reviews
  /\ \A p \in Processes : p \in Jobs \/ p \in Reviews \/ p \in Extracts
BY SetupAssumption DEF Processes

LEMMA StagesAreStages == \A p \in Processes : StagesOf(p) \subseteq Stages
BY DEF StagesOf, Stages

\* A process goes on to a statement it is backed for.
LEMMA GoKeeps ==
  ASSUME SetupInv, NEW p \in Processes, NEW stage \in StagesOf(p), Go(p, stage),
         Grows, TablesInv', Backed(p, stage)'
  PROVE  SetupInv'
<1>1. at' \in [Processes -> Stages]
  BY StagesAreStages DEF SetupInv, Go
<1>2. ASSUME NEW q \in Processes, NEW s \in Stages, at'[q] = s
      PROVE  s \in StagesOf(q) /\ Backed(q, s)'
  <2>1. CASE q = p
    <3>1. s = stage
      BY <1>2, <2>1 DEF SetupInv, Go
    <3> QED BY <2>1, <3>1
  <2>2. CASE q # p
    <3>1. at[q] = s
      BY <1>2, <2>2 DEF SetupInv, Go
    <3>2. s \in StagesOf(q) /\ Backed(q, s)
      BY <3>1 DEF SetupInv
    <3> QED BY <3>2, BackedStays
  <2> QED BY <2>1, <2>2
<1> QED BY <1>1, <1>2 DEF SetupInv

\* What a process at a stage may count on.
LEMMA AtStage ==
  ASSUME SetupInv, NEW p \in Processes, NEW s \in Stages, at[p] = s
  PROVE  s \in StagesOf(p) /\ Backed(p, s) /\ TablesInv
BY DEF SetupInv

\* A step that touches no table.
LEMMA NothingChanged ==
  ASSUME UNCHANGED tables
  PROVE  Grows /\ (TablesInv => TablesInv')
BY DEF tables, mappingTable, targetTable, Grows, TablesInv, MappingsKept

LEMMA CreateMappingKeeps ==
  ASSUME SetupInv, NEW p \in Processes, CreateMapping(p) PROVE SetupInv'
<1>1. "create_mapping" \in StagesOf(p) /\ Backed(p, "create_mapping") /\ TablesInv
  BY AtStage DEF CreateMapping, At, Stages, MappingStages
<1>2. Grows /\ TablesInv'
  BY <1>1 DEF CreateMapping, targetTable, Grows, TablesInv, MappingsKept
<1>3. "add_target_set" \in StagesOf(p) /\ Backed(p, "add_target_set")'
  BY <1>1, <1>2, BackedStays, KindsDisjoint DEF StagesOf, Ends, ExtractStages, MappingStages, QueueStages,
     OutputStages,
     Backed, CreateMapping
<1> QED BY <1>2, <1>3, GoKeeps DEF CreateMapping

LEMMA AddTargetSetKeeps ==
  ASSUME SetupInv, NEW p \in Processes, AddTargetSet(p) PROVE SetupInv'
<1>1. "add_target_set" \in StagesOf(p) /\ Backed(p, "add_target_set") /\ TablesInv
  BY AtStage DEF AddTargetSet, At, Stages, MappingStages
<1>2. Grows /\ TablesInv'
  BY <1>1 DEF AddTargetSet, targetTable, Grows, TablesInv, MappingsKept
<1>3. "check_field" \in StagesOf(p) /\ Backed(p, "check_field")'
  BY <1>1, <1>2, BackedStays, KindsDisjoint DEF StagesOf, Ends, ExtractStages, MappingStages, QueueStages,
     OutputStages,
     Backed, AddTargetSet
<1> QED BY <1>2, <1>3, GoKeeps DEF AddTargetSet

LEMMA CheckFieldKeeps ==
  ASSUME SetupInv, NEW p \in Processes, CheckField(p) PROVE SetupInv'
<1>1. "check_field" \in StagesOf(p) /\ Backed(p, "check_field") /\ TablesInv
  BY AtStage DEF CheckField, At, Stages, MappingStages
<1>2. Grows /\ TablesInv'
  BY <1>1, NothingChanged DEF CheckField
<1>3. CASE FieldNameExists
  <2>1. "backfill" \in StagesOf(p) /\ Backed(p, "backfill")'
    BY <1>1, <1>2, <1>3, BackedStays, KindsDisjoint DEF StagesOf, Ends, ExtractStages, MappingStages, QueueStages,
     OutputStages,
       Backed, MappingReady
  <2>2. Go(p, "backfill")
    BY <1>3 DEF CheckField, AfterCheck
  <2> QED BY <1>2, <2>1, <2>2, GoKeeps
<1>4. CASE ~FieldNameExists
  <2>1. "set_not_null" \in StagesOf(p) /\ Backed(p, "set_not_null")'
    BY <1>1, <1>2, <1>4, BackedStays, KindsDisjoint DEF CheckField, FieldNameExists, tables, mappingTable,
     TablesInv, MappingsKept, StagesOf, Ends, ExtractStages, MappingStages, QueueStages,
     OutputStages,
       Backed, MappingReady
  <2>2. Go(p, "set_not_null")
    BY <1>4 DEF CheckField, AfterCheck
  <2> QED BY <1>2, <2>1, <2>2, GoKeeps
<1> QED BY <1>1, <1>2, <1>3, <1>4, KindsDisjoint DEF StagesOf, Ends, ExtractStages, MappingStages, QueueStages,
     OutputStages

LEMMA BackfillKeeps ==
  ASSUME SetupInv, NEW p \in Processes, Backfill(p) PROVE SetupInv'
<1>1. "backfill" \in StagesOf(p) /\ Backed(p, "backfill") /\ TablesInv
  BY AtStage DEF Backfill, At, Stages, MappingStages
<1>2. Grows /\ TablesInv'
  BY <1>1 DEF Backfill, targetTable, Grows, TablesInv, MappingsKept
<1>3. CASE "field_name" \in columns
  <2>1. "set_not_null" \in StagesOf(p) /\ Backed(p, "set_not_null")'
    BY <1>1, <1>2, <1>3, BackedStays, KindsDisjoint DEF StagesOf, Ends, ExtractStages, MappingStages, QueueStages,
     OutputStages,
       Backed, MappingReady, Backfill
  <2>2. Go(p, "set_not_null")
    BY <1>3 DEF Backfill
  <2> QED BY <1>2, <2>1, <2>2, GoKeeps
<1>4. CASE "field_name" \notin columns
  <2>1. "failed" \in StagesOf(p) /\ Backed(p, "failed")'
    BY <1>1, <1>2, <1>4, BackedStays, KindsDisjoint DEF StagesOf, Ends, ExtractStages, MappingStages, QueueStages,
     OutputStages,
       Backed, MappingReady, Backfill
  <2>2. Go(p, "failed")
    BY <1>4 DEF Backfill
  <2> QED BY <1>2, <2>1, <2>2, GoKeeps
<1> QED BY <1>1, <1>2, <1>3, <1>4, KindsDisjoint DEF StagesOf, Ends, ExtractStages, MappingStages, QueueStages,
     OutputStages

LEMMA SetNotNullKeeps ==
  ASSUME SetupInv, NEW p \in Processes, SetNotNull(p) PROVE SetupInv'
<1>1. "set_not_null" \in StagesOf(p) /\ Backed(p, "set_not_null") /\ TablesInv
  BY AtStage DEF SetNotNull, At, Stages, MappingStages
<1>2. Grows /\ TablesInv'
  BY <1>1 DEF SetNotNull, targetTable, Grows, TablesInv, MappingsKept, Backed
<1>3. CASE unset
  <2>1. "failed" \in StagesOf(p) /\ Backed(p, "failed")'
    BY <1>1, <1>2, <1>3, BackedStays, KindsDisjoint DEF StagesOf, Ends, ExtractStages, MappingStages, QueueStages,
     OutputStages,
       Backed, MappingReady, SetNotNull
  <2>2. Go(p, "failed")
    BY <1>3 DEF SetNotNull
  <2> QED BY <1>2, <2>1, <2>2, GoKeeps
<1>4. CASE ~unset
  <2>1. "drop_field" \in StagesOf(p) /\ Backed(p, "drop_field")'
    BY <1>1, <1>2, <1>4, BackedStays, KindsDisjoint DEF StagesOf, Ends, ExtractStages, MappingStages, QueueStages,
     OutputStages,
       Backed, MappingReady, SetNotNull
  <2>2. Go(p, "drop_field")
    BY <1>4 DEF SetNotNull
  <2> QED BY <1>2, <2>1, <2>2, GoKeeps
<1> QED BY <1>1, <1>2, <1>3, <1>4, KindsDisjoint DEF StagesOf, Ends, ExtractStages, MappingStages, QueueStages,
     OutputStages

LEMMA DropFieldKeeps ==
  ASSUME SetupInv, NEW p \in Processes, DropField(p) PROVE SetupInv'
<1>1. "drop_field" \in StagesOf(p) /\ Backed(p, "drop_field") /\ TablesInv
  BY AtStage DEF DropField, At, Stages, MappingStages
<1>2. Grows /\ TablesInv'
  BY <1>1 DEF DropField, targetTable, Grows, TablesInv, MappingsKept, Backed
<1>3. "mapping_index" \in StagesOf(p)
  BY <1>1 DEF StagesOf, Ends, ExtractStages, MappingStages, QueueStages, OutputStages
<1>4. Backed(p, "mapping_index")'
  BY <1>1, <1>2, BackedStays, KindsDisjoint DEF MappingStages, QueueStages,
     OutputStages, Backed, DropField, TablesInv
<1> QED BY <1>2, <1>3, <1>4, GoKeeps DEF DropField

LEMMA CreateMappingIndexKeeps ==
  ASSUME SetupInv, NEW p \in Processes, CreateMappingIndex(p) PROVE SetupInv'
<1>1. "mapping_index" \in StagesOf(p) /\ Backed(p, "mapping_index") /\ TablesInv
  BY AtStage DEF CreateMappingIndex, At, Stages, MappingStages
<1>2. Grows /\ TablesInv'
  BY <1>1 DEF CreateMappingIndex, targetTable, Grows, TablesInv, MappingsKept, Backed
<1>3. CASE p \in Jobs
  <2>1. "create_targets" \in StagesOf(p) /\ Backed(p, "create_targets")'
    BY <1>1, <1>2, <1>3, BackedStays, KindsDisjoint DEF StagesOf, Ends, ExtractStages, MappingStages, QueueStages,
     OutputStages,
       Backed, MappingReady, CreateMappingIndex
  <2>2. Go(p, "create_targets")
    BY <1>3 DEF CreateMappingIndex, AfterMapping
  <2> QED BY <1>2, <2>1, <2>2, GoKeeps
<1>4. CASE p \notin Jobs
  <2>1. "ready" \in StagesOf(p) /\ Backed(p, "ready")'
    BY <1>1, <1>2, <1>4, BackedStays, KindsDisjoint DEF StagesOf, Ends, ExtractStages, MappingStages, QueueStages,
     OutputStages,
       Backed, MappingReady, CreateMappingIndex
  <2>2. Go(p, "ready")
    BY <1>4 DEF CreateMappingIndex, AfterMapping
  <2> QED BY <1>2, <2>1, <2>2, GoKeeps
<1> QED BY <1>1, <1>2, <1>3, <1>4, KindsDisjoint DEF StagesOf, Ends, ExtractStages, MappingStages, QueueStages,
     OutputStages

LEMMA CreateTargetsKeeps ==
  ASSUME SetupInv, NEW p \in Processes, CreateTargets(p) PROVE SetupInv'
<1>1. "create_targets" \in StagesOf(p) /\ Backed(p, "create_targets") /\ TablesInv
  BY AtStage DEF CreateTargets, At, Stages, QueueStages
<1>2. Grows /\ TablesInv'
  BY <1>1 DEF CreateTargets, mappingTable, Grows, TablesInv, MappingsKept
<1>3. "drop_description" \in StagesOf(p) /\ Backed(p, "drop_description")'
  BY <1>1, <1>2, BackedStays, KindsDisjoint DEF StagesOf, Ends, ExtractStages, MappingStages, QueueStages,
     OutputStages,
     Backed, CreateTargets
<1> QED BY <1>2, <1>3, GoKeeps DEF CreateTargets

LEMMA DropDescriptionKeeps ==
  ASSUME SetupInv, NEW p \in Processes, DropDescription(p) PROVE SetupInv'
<1>1. "drop_description" \in StagesOf(p) /\ Backed(p, "drop_description") /\ TablesInv
  BY AtStage DEF DropDescription, At, Stages, QueueStages
<1>2. Grows /\ TablesInv'
  BY <1>1 DEF DropDescription, mappingTable, Grows, TablesInv, MappingsKept
<1>3. CASE p \in Jobs
  <2>1. "recall_index" \in StagesOf(p) /\ Backed(p, "recall_index")'
    BY <1>1, <1>2, <1>3, BackedStays, KindsDisjoint DEF StagesOf, Ends, ExtractStages, MappingStages, QueueStages,
     OutputStages,
       Backed, MappingReady, DropDescription
  <2>2. Go(p, "recall_index")
    BY <1>3 DEF DropDescription, AfterTargets
  <2> QED BY <1>2, <2>1, <2>2, GoKeeps
<1>4. CASE p \notin Jobs
  <2>1. "create_candidates" \in StagesOf(p) /\ Backed(p, "create_candidates")'
    BY <1>1, <1>2, <1>4, BackedStays, KindsDisjoint DEF StagesOf, Ends, ExtractStages, MappingStages, QueueStages,
     OutputStages,
       Backed, MappingReady, DropDescription
  <2>2. Go(p, "create_candidates")
    BY <1>4 DEF DropDescription, AfterTargets
  <2> QED BY <1>2, <2>1, <2>2, GoKeeps
<1> QED BY <1>1, <1>2, <1>3, <1>4, KindsDisjoint DEF StagesOf, Ends, ExtractStages, MappingStages, QueueStages,
     OutputStages

LEMMA CreateRecallIndexKeeps ==
  ASSUME SetupInv, NEW p \in Processes, CreateRecallIndex(p) PROVE SetupInv'
<1>1. "recall_index" \in StagesOf(p) /\ Backed(p, "recall_index") /\ TablesInv
  BY AtStage DEF CreateRecallIndex, At, Stages, QueueStages
<1>2. Grows /\ TablesInv'
  BY <1>1 DEF CreateRecallIndex, mappingTable, Grows, TablesInv, MappingsKept
<1>3. "create_candidates" \in StagesOf(p) /\ Backed(p, "create_candidates")'
  BY <1>1, <1>2, BackedStays, KindsDisjoint DEF StagesOf, Ends, ExtractStages, MappingStages, QueueStages,
     OutputStages,
     Backed, CreateRecallIndex
<1> QED BY <1>2, <1>3, GoKeeps DEF CreateRecallIndex

LEMMA CreateCandidatesKeeps ==
  ASSUME SetupInv, NEW p \in Processes, CreateCandidates(p) PROVE SetupInv'
<1>1. "create_candidates" \in StagesOf(p) /\ Backed(p, "create_candidates") /\ TablesInv
  BY AtStage DEF CreateCandidates, At, Stages, QueueStages
<1>2. Grows /\ TablesInv'
  BY <1>1 DEF CreateCandidates, mappingTable, targetTable, Grows, TablesInv, MappingsKept
<1>3. CASE p \in Jobs
  <2>1. "load_output" \in StagesOf(p) /\ Backed(p, "load_output")'
    BY <1>1, <1>2, <1>3, BackedStays, KindsDisjoint DEF StagesOf, Ends, ExtractStages, MappingStages, QueueStages,
     OutputStages,
       Backed, MappingReady, CreateCandidates
  <2>2. Go(p, "load_output")
    BY <1>3 DEF CreateCandidates, AfterCandidates
  <2> QED BY <1>2, <2>1, <2>2, GoKeeps
<1>4. CASE p \notin Jobs
  <2>1. "create_mapping" \in StagesOf(p) /\ Backed(p, "create_mapping")'
    BY <1>1, <1>2, <1>4, BackedStays, KindsDisjoint DEF StagesOf, Ends, ExtractStages, MappingStages, QueueStages,
     OutputStages,
       Backed, MappingReady, CreateCandidates
  <2>2. Go(p, "create_mapping")
    BY <1>4 DEF CreateCandidates, AfterCandidates
  <2> QED BY <1>2, <2>1, <2>2, GoKeeps
<1> QED BY <1>1, <1>2, <1>3, <1>4, KindsDisjoint DEF StagesOf, Ends, ExtractStages, MappingStages, QueueStages,
     OutputStages

LEMMA LoadOutputKeeps ==
  ASSUME SetupInv, NEW p \in Processes, LoadOutput(p) PROVE SetupInv'
<1>1. "load_output" \in StagesOf(p) /\ Backed(p, "load_output") /\ TablesInv
  BY AtStage DEF LoadOutput, At, Stages, OutputStages
<1>2. Grows /\ TablesInv'
  BY <1>1, NothingChanged DEF LoadOutput
<1>3. CASE output = "none"
  <2>1. "create_output" \in StagesOf(p) /\ Backed(p, "create_output")'
    BY <1>1, <1>2, <1>3, BackedStays, KindsDisjoint DEF StagesOf, Ends, ExtractStages, MappingStages, QueueStages,
     OutputStages,
       Backed, MappingReady
  <2>2. Go(p, "create_output")
    BY <1>3 DEF LoadOutput, AfterLoad
  <2> QED BY <1>2, <2>1, <2>2, GoKeeps
<1>4. CASE output # "none"
  <2>1. "load_indexes" \in StagesOf(p) /\ Backed(p, "load_indexes")'
    BY <1>1, <1>2, <1>4, BackedStays, KindsDisjoint DEF StagesOf, Ends, ExtractStages, MappingStages, QueueStages,
     OutputStages,
       Backed, MappingReady
  <2>2. Go(p, "load_indexes")
    BY <1>4 DEF LoadOutput, AfterLoad
  <2> QED BY <1>2, <2>1, <2>2, GoKeeps
<1> QED BY <1>1, <1>2, <1>3, <1>4, KindsDisjoint DEF StagesOf, Ends, ExtractStages, MappingStages, QueueStages,
     OutputStages

LEMMA CreateOutputKeeps ==
  ASSUME SetupInv, NEW p \in Processes, CreateOutput(p) PROVE SetupInv'
<1>1. "create_output" \in StagesOf(p) /\ Backed(p, "create_output") /\ TablesInv
  BY AtStage DEF CreateOutput, At, Stages, OutputStages
<1>2. Grows /\ TablesInv'
  BY <1>1 DEF CreateOutput, mappingTable, targetTable, Grows, TablesInv, MappingsKept
<1>3. CASE output = "none"
  <2>1. "load_indexes" \in StagesOf(p) /\ Backed(p, "load_indexes")'
    BY <1>1, <1>2, <1>3, BackedStays, KindsDisjoint DEF StagesOf, Ends, ExtractStages, MappingStages, QueueStages,
     OutputStages,
       Backed, MappingReady, CreateOutput
  <2>2. Go(p, "load_indexes")
    BY <1>3 DEF CreateOutput
  <2> QED BY <1>2, <2>1, <2>2, GoKeeps
<1>4. CASE output # "none"
  <2>1. "failed" \in StagesOf(p) /\ Backed(p, "failed")'
    BY <1>1, <1>2, <1>4, BackedStays, KindsDisjoint DEF StagesOf, Ends, ExtractStages, MappingStages, QueueStages,
     OutputStages,
       Backed, MappingReady, CreateOutput
  <2>2. Go(p, "failed")
    BY <1>4 DEF CreateOutput
  <2> QED BY <1>2, <2>1, <2>2, GoKeeps
<1> QED BY <1>1, <1>2, <1>3, <1>4, KindsDisjoint DEF StagesOf, Ends, ExtractStages, MappingStages, QueueStages,
     OutputStages

LEMMA LoadIndexesKeeps ==
  ASSUME SetupInv, NEW p \in Processes, LoadIndexes(p) PROVE SetupInv'
<1>1. "load_indexes" \in StagesOf(p) /\ Backed(p, "load_indexes") /\ TablesInv
  BY AtStage DEF LoadIndexes, At, Stages, OutputStages
<1>2. Grows /\ TablesInv'
  BY <1>1, NothingChanged DEF LoadIndexes
<1>3. CASE output = "unique"
  <2>1. "check_nulls" \in StagesOf(p) /\ Backed(p, "check_nulls")'
    BY <1>1, <1>2, <1>3, BackedStays, KindsDisjoint DEF StagesOf, Ends, ExtractStages, MappingStages, QueueStages,
     OutputStages,
       Backed, MappingReady
  <2>2. Go(p, "check_nulls")
    BY <1>3 DEF LoadIndexes
  <2> QED BY <1>2, <2>1, <2>2, GoKeeps
<1>4. CASE output # "unique"
  <2>1. "output_index" \in StagesOf(p) /\ Backed(p, "output_index")'
    BY <1>1, <1>2, <1>4, BackedStays, KindsDisjoint DEF StagesOf, Ends, ExtractStages, MappingStages, QueueStages,
     OutputStages,
       Backed, MappingReady
  <2>2. Go(p, "output_index")
    BY <1>4 DEF LoadIndexes
  <2> QED BY <1>2, <2>1, <2>2, GoKeeps
<1> QED BY <1>1, <1>2, <1>3, <1>4, KindsDisjoint DEF StagesOf, Ends, ExtractStages, MappingStages, QueueStages,
     OutputStages

LEMMA CreateOutputIndexKeeps ==
  ASSUME SetupInv, NEW p \in Processes, CreateOutputIndex(p) PROVE SetupInv'
<1>1. "output_index" \in StagesOf(p) /\ Backed(p, "output_index") /\ TablesInv
  BY AtStage DEF CreateOutputIndex, At, Stages, OutputStages
<1>2. Grows /\ TablesInv'
  BY <1>1 DEF CreateOutputIndex, mappingTable, targetTable, Grows, TablesInv, MappingsKept
<1>3. "check_nulls" \in StagesOf(p) /\ Backed(p, "check_nulls")'
  BY <1>1, <1>2, BackedStays, KindsDisjoint DEF StagesOf, Ends, ExtractStages, MappingStages, QueueStages,
     OutputStages,
     Backed, CreateOutputIndex
<1> QED BY <1>2, <1>3, GoKeeps DEF CreateOutputIndex

LEMMA CheckNullsKeeps ==
  ASSUME SetupInv, NEW p \in Processes, CheckNulls(p) PROVE SetupInv'
<1>1. "check_nulls" \in StagesOf(p) /\ Backed(p, "check_nulls") /\ TablesInv
  BY AtStage DEF CheckNulls, At, Stages, OutputStages
<1>2. Grows /\ TablesInv'
  BY <1>1, NothingChanged DEF CheckNulls
<1>3. "ready" \in StagesOf(p) /\ Backed(p, "ready")'
  BY <1>1, <1>2, BackedStays, KindsDisjoint DEF StagesOf, Ends, ExtractStages, MappingStages, QueueStages,
     OutputStages,
     Backed, MappingReady
<1> QED BY <1>2, <1>3, GoKeeps DEF CheckNulls

LEMMA LoadExtractedKeeps ==
  ASSUME SetupInv, NEW p \in Processes, LoadExtracted(p) PROVE SetupInv'
<1>1. "load_extracted" \in StagesOf(p) /\ Backed(p, "load_extracted") /\ TablesInv
  BY AtStage DEF LoadExtracted, At, Stages, ExtractStages
<1>2. Grows /\ TablesInv'
  BY <1>1, NothingChanged DEF LoadExtracted
<1>3. CASE extracted = "none"
  <2>1. "create_extracted" \in StagesOf(p) /\ Backed(p, "create_extracted")'
    BY <1>1, <1>2, <1>3, BackedStays, KindsDisjoint DEF StagesOf, Ends, ExtractStages, MappingStages, QueueStages,
     OutputStages,
       Backed, MappingReady
  <2>2. Go(p, "create_extracted")
    BY <1>3 DEF LoadExtracted
  <2> QED BY <1>2, <2>1, <2>2, GoKeeps
<1>4. CASE extracted # "none"
  <2>1. "check_unique" \in StagesOf(p) /\ Backed(p, "check_unique")'
    BY <1>1, <1>2, <1>4, BackedStays, KindsDisjoint DEF StagesOf, Ends, ExtractStages, MappingStages, QueueStages,
     OutputStages,
       Backed, MappingReady
  <2>2. Go(p, "check_unique")
    BY <1>4 DEF LoadExtracted
  <2> QED BY <1>2, <2>1, <2>2, GoKeeps
<1> QED BY <1>1, <1>2, <1>3, <1>4, KindsDisjoint DEF StagesOf, Ends, ExtractStages, MappingStages, QueueStages,
     OutputStages

LEMMA CreateExtractedKeeps ==
  ASSUME SetupInv, NEW p \in Processes, CreateExtracted(p) PROVE SetupInv'
<1>1. "create_extracted" \in StagesOf(p) /\ Backed(p, "create_extracted") /\ TablesInv
  BY AtStage DEF CreateExtracted, At, Stages, ExtractStages
<1>2. Grows /\ TablesInv'
  BY <1>1 DEF CreateExtracted, mappingTable, targetTable, Grows, TablesInv, MappingsKept
<1>3. "check_unique" \in StagesOf(p) /\ Backed(p, "check_unique")'
  BY <1>1, <1>2, BackedStays, KindsDisjoint DEF StagesOf, Ends, ExtractStages, MappingStages, QueueStages,
     OutputStages,
     Backed, CreateExtracted
<1> QED BY <1>2, <1>3, GoKeeps DEF CreateExtracted

LEMMA CheckUniqueKeeps ==
  ASSUME SetupInv, NEW p \in Processes, CheckUnique(p) PROVE SetupInv'
<1>1. "check_unique" \in StagesOf(p) /\ Backed(p, "check_unique") /\ TablesInv
  BY AtStage DEF CheckUnique, At, Stages, ExtractStages
<1>2. Grows /\ TablesInv'
  BY <1>1, NothingChanged DEF CheckUnique
<1>3. CASE extracted = "unique"
  <2>1. "ready" \in StagesOf(p) /\ Backed(p, "ready")'
    BY <1>1, <1>2, <1>3, BackedStays, KindsDisjoint DEF StagesOf, Ends, ExtractStages, MappingStages, QueueStages,
     OutputStages,
       Backed, MappingReady
  <2>2. Go(p, "ready")
    BY <1>3 DEF CheckUnique
  <2> QED BY <1>2, <2>1, <2>2, GoKeeps
<1>4. CASE extracted # "unique"
  <2>1. "failed" \in StagesOf(p) /\ Backed(p, "failed")'
    BY <1>1, <1>2, <1>4, BackedStays, KindsDisjoint DEF StagesOf, Ends, ExtractStages, MappingStages, QueueStages,
     OutputStages,
       Backed, MappingReady
  <2>2. Go(p, "failed")
    BY <1>4 DEF CheckUnique
  <2> QED BY <1>2, <2>1, <2>2, GoKeeps
<1> QED BY <1>1, <1>2, <1>3, <1>4, KindsDisjoint DEF StagesOf, Ends, ExtractStages, MappingStages, QueueStages,
     OutputStages

LEMMA AgainKeeps ==
  ASSUME SetupInv, NEW p \in Processes, Again(p) PROVE SetupInv'
<1>1. Grows /\ TablesInv'
  BY NothingChanged DEF Again, SetupInv
<1>2. First(p) \in StagesOf(p) /\ Backed(p, First(p))'
  BY KindsDisjoint DEF First, StagesOf, Ends, ExtractStages, MappingStages, QueueStages,
     OutputStages, Backed
<1> QED BY <1>1, <1>2, GoKeeps DEF Again

LEMMA FailsKeeps ==
  ASSUME SetupInv, NEW p \in Processes, Fails(p) PROVE SetupInv'
<1>1. Grows /\ TablesInv'
  BY NothingChanged DEF Fails, SetupInv
<1>2. "failed" \in StagesOf(p) /\ Backed(p, "failed")'
  BY DEF StagesOf, Ends, MappingStages, QueueStages, OutputStages, Backed
<1> QED BY <1>1, <1>2, GoKeeps DEF Fails

LEMMA CrashKeeps == ASSUME SetupInv, Crash PROVE SetupInv'
<1>1. TablesInv'
  BY NothingChanged DEF Crash, SetupInv
<1>2. at' \in [Processes -> Stages]
  BY DEF Crash, Stages, Ends
<1>3. ASSUME NEW p \in Processes, NEW s \in Stages, at'[p] = s
      PROVE  s \in StagesOf(p) /\ Backed(p, s)'
  <2>1. s = "failed"
    BY <1>3 DEF Crash
  <2>2. "failed" \in StagesOf(p) /\ Backed(p, "failed")'
    BY DEF StagesOf, Ends, MappingStages, QueueStages, OutputStages, Backed
  <2> QED BY <2>1, <2>2
<1> QED BY <1>1, <1>2, <1>3 DEF SetupInv

LEMMA InitSetup == Init => SetupInv
<1> SUFFICES ASSUME Init PROVE SetupInv
  OBVIOUS
<1>1. TablesInv
  BY DEF Init, TablesInv, MappingsKept
<1>2. \A p \in Processes : First(p) \in StagesOf(p) /\ Backed(p, First(p))
  BY KindsDisjoint DEF First, StagesOf, Ends, ExtractStages, MappingStages, QueueStages,
     OutputStages, Backed
<1>3. at \in [Processes -> Stages]
  BY <1>2, StagesAreStages DEF Init
<1>4. \A p \in Processes : at[p] = First(p)
  BY DEF Init
<1> QED BY <1>1, <1>2, <1>3, <1>4 DEF SetupInv

LEMMA StutterKeeps == SetupInv /\ UNCHANGED vars => SetupInv'
BY DEF vars, tables, mappingTable, targetTable, SetupInv, TablesInv, MappingsKept, Backed,
   MappingReady

LEMMA NextSetup == SetupInv /\ [Next]_vars => SetupInv'
<1> SUFFICES ASSUME SetupInv, [Next]_vars PROVE SetupInv'
  OBVIOUS
<1>1. ASSUME NEW p \in Processes, EnsureMapping(p)
      PROVE  SetupInv'
  BY <1>1, CreateMappingKeeps, AddTargetSetKeeps, CheckFieldKeeps, BackfillKeeps,
     SetNotNullKeeps, DropFieldKeeps, CreateMappingIndexKeeps DEF EnsureMapping
<1>2. ASSUME NEW p \in Processes, EnsureQueue(p)
      PROVE  SetupInv'
  BY <1>2, CreateTargetsKeeps, DropDescriptionKeeps, CreateRecallIndexKeeps,
     CreateCandidatesKeeps DEF EnsureQueue
<1>3. ASSUME NEW p \in Processes, EnsureOutput(p)
      PROVE  SetupInv'
  BY <1>3, LoadOutputKeeps, CreateOutputKeeps, LoadIndexesKeeps, CreateOutputIndexKeeps,
     CheckNullsKeeps DEF EnsureOutput
<1>4. ASSUME NEW p \in Processes, EnsureExtracted(p)
      PROVE  SetupInv'
  BY <1>4, LoadExtractedKeeps, CreateExtractedKeeps, CheckUniqueKeeps DEF EnsureExtracted
<1> QED BY <1>1, <1>2, <1>3, <1>4, AgainKeeps, FailsKeeps, CrashKeeps, StutterKeeps
     DEF Next, Step

\* The inductive invariant of the set-up holds in every reachable state.
THEOREM SetupInvariance == Spec => []SetupInv
BY InitSetup, NextSetup, PTL DEF Spec

\* No mapping row of a former version loses the column its target set is taken
\* from before it has one, however many set-ups migrate the table at once.
THEOREM MappingsKeptHolds == Spec => []MappingsKept
<1>1. SetupInv => MappingsKept
  BY DEF SetupInv, TablesInv
<1> QED BY <1>1, SetupInvariance, PTL

\* Whoever has finished its set-up finds the columns and unique keys its
\* statements need, whatever set-ups were cut off before.
THEOREM ReadyFindsHolds == Spec => []ReadyFinds
<1>1. ASSUME SetupInv, NEW p \in Processes, at[p] = "ready"
      PROVE  Backed(p, "ready")
  BY <1>1, AtStage DEF Stages, Ends
<1>2. SetupInv => ReadyFinds
  BY <1>1 DEF ReadyFinds, Backed, QueueReady
<1> QED BY <1>2, SetupInvariance, PTL

---------------------------------------------------------------------------
\* The former column and the output table stay as they are.
SameRaces ==
  /\ "field_name" \in columns <=> "field_name" \in columns'
  /\ output = "none" <=> output' = "none"

\* A process goes on, and nobody is overtaken.
LEMMA GoesOn ==
  ASSUME SetupInv, SameRaces, NEW p \in Processes, NEW s \in Stages, Go(p, s),
         p \notin Overtaken, p \notin Overtaken',
         \/ Position(p) < Position(p)'
         \/ p \in Extracts /\ s = "failed" /\ extracted = "plain"
  PROVE  RaceStep
<1>1. at'[p] = s /\ \A q \in Processes \ {p} : at'[q] = at[q]
  BY DEF SetupInv, Go
<1>2. ASSUME NEW q \in Processes PROVE q \in Overtaken <=> q \in Overtaken'
  BY <1>1 DEF SameRaces, Overtaken
<1>3. Overtaken' = Overtaken
  BY <1>2 DEF Overtaken
<1> QED BY <1>1, <1>3 DEF RaceStep, SameRaces

\* A process that was overtaken gives up.
LEMMA GivesUp ==
  ASSUME SetupInv, SameRaces, NEW p \in Processes, p \in Overtaken, Go(p, "failed")
  PROVE  RaceStep
<1>1. at'[p] = "failed" /\ \A q \in Processes \ {p} : at'[q] = at[q]
  BY DEF SetupInv, Go
<1>2. p \notin Overtaken'
  BY <1>1 DEF Overtaken
<1>3. Overtaken' \subseteq Overtaken
  BY <1>1, <1>2 DEF SameRaces, Overtaken
<1> QED BY <1>2, <1>3 DEF RaceStep, SameRaces

LEMMA CreateMappingRaces ==
  ASSUME SetupInv, NEW p \in Processes, CreateMapping(p) PROVE RaceStep
<1>1. at[p] = "create_mapping" /\ "add_target_set" \in Stages /\ Go(p, "add_target_set") /\ at'[p] = "add_target_set"
  BY DEF SetupInv, CreateMapping, At, Go, Stages, MappingStages
<1>2. SameRaces
  BY DEF CreateMapping, SameRaces
<1>3. p \notin Overtaken /\ p \notin Overtaken'
  BY <1>1 DEF Overtaken
<1>4. Position(p) < Position(p)'
  BY <1>1 DEF Position, Order, MappingStages
<1> QED BY <1>1, <1>2, <1>3, <1>4, GoesOn

LEMMA AddTargetSetRaces ==
  ASSUME SetupInv, NEW p \in Processes, AddTargetSet(p) PROVE RaceStep
<1>1. at[p] = "add_target_set" /\ "check_field" \in Stages /\ Go(p, "check_field") /\ at'[p] = "check_field"
  BY DEF SetupInv, AddTargetSet, At, Go, Stages, MappingStages
<1>2. SameRaces
  BY DEF AddTargetSet, SameRaces
<1>3. p \notin Overtaken /\ p \notin Overtaken'
  BY <1>1 DEF Overtaken
<1>4. Position(p) < Position(p)'
  BY <1>1 DEF Position, Order, MappingStages
<1> QED BY <1>1, <1>2, <1>3, <1>4, GoesOn

LEMMA CreateTargetsRaces ==
  ASSUME SetupInv, NEW p \in Processes, CreateTargets(p) PROVE RaceStep
<1>1. at[p] = "create_targets" /\ "drop_description" \in Stages /\ Go(p, "drop_description") /\ at'[p] = "drop_description"
  BY DEF SetupInv, CreateTargets, At, Go, Stages, QueueStages
<1>2. SameRaces
  BY DEF CreateTargets, SameRaces, mappingTable
<1>3. p \notin Overtaken /\ p \notin Overtaken'
  BY <1>1 DEF Overtaken
<1>4. Position(p) < Position(p)'
  BY <1>1 DEF Position, Order, MappingStages
<1> QED BY <1>1, <1>2, <1>3, <1>4, GoesOn

LEMMA CreateRecallIndexRaces ==
  ASSUME SetupInv, NEW p \in Processes, CreateRecallIndex(p) PROVE RaceStep
<1>1. at[p] = "recall_index" /\ "create_candidates" \in Stages /\ Go(p, "create_candidates") /\ at'[p] = "create_candidates"
  BY DEF SetupInv, CreateRecallIndex, At, Go, Stages, QueueStages
<1>2. SameRaces
  BY DEF CreateRecallIndex, SameRaces, mappingTable
<1>3. p \notin Overtaken /\ p \notin Overtaken'
  BY <1>1 DEF Overtaken
<1>4. Position(p) < Position(p)'
  BY <1>1 DEF Position, Order, MappingStages
<1> QED BY <1>1, <1>2, <1>3, <1>4, GoesOn

LEMMA CheckNullsRaces ==
  ASSUME SetupInv, NEW p \in Processes, CheckNulls(p) PROVE RaceStep
<1>1. at[p] = "check_nulls" /\ "ready" \in Stages /\ Go(p, "ready") /\ at'[p] = "ready"
  BY DEF SetupInv, CheckNulls, At, Go, Stages, Ends
<1>2. SameRaces
  BY DEF CheckNulls, SameRaces, tables, mappingTable
<1>3. p \notin Overtaken /\ p \notin Overtaken'
  BY <1>1 DEF Overtaken
<1>4. Position(p) < Position(p)'
  BY <1>1 DEF Position, Order, MappingStages
<1> QED BY <1>1, <1>2, <1>3, <1>4, GoesOn

LEMMA CreateExtractedRaces ==
  ASSUME SetupInv, NEW p \in Processes, CreateExtracted(p) PROVE RaceStep
<1>1. at[p] = "create_extracted" /\ "check_unique" \in Stages /\ Go(p, "check_unique") /\ at'[p] = "check_unique"
  BY DEF SetupInv, CreateExtracted, At, Go, Stages, ExtractStages
<1>2. SameRaces
  BY DEF CreateExtracted, SameRaces, mappingTable
<1>3. p \notin Overtaken /\ p \notin Overtaken'
  BY <1>1 DEF Overtaken
<1>4. Position(p) < Position(p)'
  BY <1>1 DEF Position, Order, MappingStages
<1> QED BY <1>1, <1>2, <1>3, <1>4, GoesOn

LEMMA CheckFieldRaces ==
  ASSUME SetupInv, NEW p \in Processes, CheckField(p) PROVE RaceStep
<1>1. at[p] = "check_field" /\ "check_field" \in StagesOf(p)
  BY AtStage DEF CheckField, At, Stages, MappingStages
<1>2. SameRaces
  BY DEF CheckField, SameRaces, tables, mappingTable
<1>3. CASE FieldNameExists
  <2>1. "backfill" \in Stages /\ Go(p, "backfill") /\ at'[p] = "backfill"
    BY <1>3 DEF SetupInv, CheckField, Go, Stages, MappingStages, AfterCheck
  <2>2. p \notin Overtaken /\ p \notin Overtaken'
    BY <1>1, <1>2, <1>3, <2>1 DEF Overtaken, SameRaces, FieldNameExists
  <2>3. Position(p) < Position(p)'
    BY <1>1, <2>1, <1>3, KindsDisjoint DEF Position, Order, MappingStages
  <2> QED BY <1>2, <2>1, <2>2, <2>3, GoesOn
<1>4. CASE ~FieldNameExists
  <2>1. "set_not_null" \in Stages /\ Go(p, "set_not_null") /\ at'[p] = "set_not_null"
    BY <1>4 DEF SetupInv, CheckField, Go, Stages, MappingStages, AfterCheck
  <2>2. p \notin Overtaken /\ p \notin Overtaken'
    BY <1>1, <1>2, <1>4, <2>1 DEF Overtaken, SameRaces, FieldNameExists
  <2>3. Position(p) < Position(p)'
    BY <1>1, <2>1, <1>4, KindsDisjoint DEF Position, Order, MappingStages
  <2> QED BY <1>2, <2>1, <2>2, <2>3, GoesOn
<1> QED BY <1>3, <1>4

LEMMA CreateMappingIndexRaces ==
  ASSUME SetupInv, NEW p \in Processes, CreateMappingIndex(p) PROVE RaceStep
<1>1. at[p] = "mapping_index" /\ "mapping_index" \in StagesOf(p)
  BY AtStage DEF CreateMappingIndex, At, Stages, MappingStages
<1>2. SameRaces
  BY DEF CreateMappingIndex, SameRaces
<1>3. CASE p \in Jobs
  <2>1. "create_targets" \in Stages /\ Go(p, "create_targets") /\ at'[p] = "create_targets"
    BY <1>3 DEF SetupInv, CreateMappingIndex, Go, Stages, QueueStages, AfterMapping
  <2>2. p \notin Overtaken /\ p \notin Overtaken'
    BY <1>1, <1>2, <1>3, <2>1 DEF Overtaken, SameRaces
  <2>3. Position(p) < Position(p)'
    BY <1>1, <2>1, <1>3, KindsDisjoint DEF Position, Order, StagesOf, Ends, ExtractStages, MappingStages, QueueStages
  <2> QED BY <1>2, <2>1, <2>2, <2>3, GoesOn
<1>4. CASE p \notin Jobs
  <2>1. "ready" \in Stages /\ Go(p, "ready") /\ at'[p] = "ready"
    BY <1>4 DEF SetupInv, CreateMappingIndex, Go, Stages, Ends, AfterMapping
  <2>2. p \notin Overtaken /\ p \notin Overtaken'
    BY <1>1, <1>2, <1>4, <2>1 DEF Overtaken, SameRaces
  <2>3. Position(p) < Position(p)'
    BY <1>1, <2>1, <1>4, KindsDisjoint DEF Position, Order, StagesOf, Ends, ExtractStages, MappingStages, QueueStages
  <2> QED BY <1>2, <2>1, <2>2, <2>3, GoesOn
<1> QED BY <1>3, <1>4

LEMMA DropDescriptionRaces ==
  ASSUME SetupInv, NEW p \in Processes, DropDescription(p) PROVE RaceStep
<1>1. at[p] = "drop_description" /\ "drop_description" \in StagesOf(p)
  BY AtStage DEF DropDescription, At, Stages, QueueStages
<1>2. SameRaces
  BY DEF DropDescription, SameRaces, mappingTable
<1>3. CASE p \in Jobs
  <2>1. "recall_index" \in Stages /\ Go(p, "recall_index") /\ at'[p] = "recall_index"
    BY <1>3 DEF SetupInv, DropDescription, Go, Stages, QueueStages, AfterTargets
  <2>2. p \notin Overtaken /\ p \notin Overtaken'
    BY <1>1, <1>2, <1>3, <2>1 DEF Overtaken, SameRaces
  <2>3. Position(p) < Position(p)'
    BY <1>1, <2>1, <1>3, KindsDisjoint DEF Position, Order, MappingStages
  <2> QED BY <1>2, <2>1, <2>2, <2>3, GoesOn
<1>4. CASE p \notin Jobs
  <2>1. "create_candidates" \in Stages /\ Go(p, "create_candidates") /\ at'[p] = "create_candidates"
    BY <1>4 DEF SetupInv, DropDescription, Go, Stages, QueueStages, AfterTargets
  <2>2. p \notin Overtaken /\ p \notin Overtaken'
    BY <1>1, <1>2, <1>4, <2>1 DEF Overtaken, SameRaces
  <2>3. Position(p) < Position(p)'
    BY <1>1, <2>1, <1>4, KindsDisjoint DEF Position, Order, MappingStages
  <2> QED BY <1>2, <2>1, <2>2, <2>3, GoesOn
<1> QED BY <1>3, <1>4

LEMMA CreateCandidatesRaces ==
  ASSUME SetupInv, NEW p \in Processes, CreateCandidates(p) PROVE RaceStep
<1>1. at[p] = "create_candidates" /\ "create_candidates" \in StagesOf(p)
  BY AtStage DEF CreateCandidates, At, Stages, QueueStages
<1>2. SameRaces
  BY DEF CreateCandidates, SameRaces, mappingTable
<1>3. CASE p \in Jobs
  <2>1. "load_output" \in Stages /\ Go(p, "load_output") /\ at'[p] = "load_output"
    BY <1>3 DEF SetupInv, CreateCandidates, Go, Stages, OutputStages, AfterCandidates
  <2>2. p \notin Overtaken /\ p \notin Overtaken'
    BY <1>1, <1>2, <1>3, <2>1 DEF Overtaken, SameRaces
  <2>3. Position(p) < Position(p)'
    BY <1>1, <2>1, <1>3, KindsDisjoint DEF Position, Order, StagesOf, Ends, ExtractStages, MappingStages, QueueStages
  <2> QED BY <1>2, <2>1, <2>2, <2>3, GoesOn
<1>4. CASE p \notin Jobs
  <2>1. "create_mapping" \in Stages /\ Go(p, "create_mapping") /\ at'[p] = "create_mapping"
    BY <1>4 DEF SetupInv, CreateCandidates, Go, Stages, MappingStages, AfterCandidates
  <2>2. p \notin Overtaken /\ p \notin Overtaken'
    BY <1>1, <1>2, <1>4, <2>1 DEF Overtaken, SameRaces
  <2>3. Position(p) < Position(p)'
    BY <1>1, <2>1, <1>4, KindsDisjoint DEF Position, Order, StagesOf, Ends, ExtractStages, MappingStages, QueueStages
  <2> QED BY <1>2, <2>1, <2>2, <2>3, GoesOn
<1> QED BY <1>3, <1>4

LEMMA LoadOutputRaces ==
  ASSUME SetupInv, NEW p \in Processes, LoadOutput(p) PROVE RaceStep
<1>1. at[p] = "load_output" /\ "load_output" \in StagesOf(p)
  BY AtStage DEF LoadOutput, At, Stages, OutputStages
<1>2. SameRaces
  BY DEF LoadOutput, SameRaces, tables, mappingTable
<1>3. CASE output = "none"
  <2>1. "create_output" \in Stages /\ Go(p, "create_output") /\ at'[p] = "create_output"
    BY <1>3 DEF SetupInv, LoadOutput, Go, Stages, OutputStages, AfterLoad
  <2>2. p \notin Overtaken /\ p \notin Overtaken'
    BY <1>1, <1>2, <1>3, <2>1 DEF Overtaken, SameRaces
  <2>3. Position(p) < Position(p)'
    BY <1>1, <2>1, <1>3, KindsDisjoint DEF Position, Order, MappingStages
  <2> QED BY <1>2, <2>1, <2>2, <2>3, GoesOn
<1>4. CASE output # "none"
  <2>1. "load_indexes" \in Stages /\ Go(p, "load_indexes") /\ at'[p] = "load_indexes"
    BY <1>4 DEF SetupInv, LoadOutput, Go, Stages, OutputStages, AfterLoad
  <2>2. p \notin Overtaken /\ p \notin Overtaken'
    BY <1>1, <1>2, <1>4, <2>1 DEF Overtaken, SameRaces
  <2>3. Position(p) < Position(p)'
    BY <1>1, <2>1, <1>4, KindsDisjoint DEF Position, Order, MappingStages
  <2> QED BY <1>2, <2>1, <2>2, <2>3, GoesOn
<1> QED BY <1>3, <1>4

LEMMA LoadIndexesRaces ==
  ASSUME SetupInv, NEW p \in Processes, LoadIndexes(p) PROVE RaceStep
<1>1. at[p] = "load_indexes" /\ "load_indexes" \in StagesOf(p)
  BY AtStage DEF LoadIndexes, At, Stages, OutputStages
<1>2. SameRaces
  BY DEF LoadIndexes, SameRaces, tables, mappingTable
<1>3. CASE output = "unique"
  <2>1. "check_nulls" \in Stages /\ Go(p, "check_nulls") /\ at'[p] = "check_nulls"
    BY <1>3 DEF SetupInv, LoadIndexes, Go, Stages, OutputStages
  <2>2. p \notin Overtaken /\ p \notin Overtaken'
    BY <1>1, <1>2, <1>3, <2>1 DEF Overtaken, SameRaces
  <2>3. Position(p) < Position(p)'
    BY <1>1, <2>1, <1>3, KindsDisjoint DEF Position, Order, MappingStages
  <2> QED BY <1>2, <2>1, <2>2, <2>3, GoesOn
<1>4. CASE output # "unique"
  <2>1. "output_index" \in Stages /\ Go(p, "output_index") /\ at'[p] = "output_index"
    BY <1>4 DEF SetupInv, LoadIndexes, Go, Stages, OutputStages
  <2>2. p \notin Overtaken /\ p \notin Overtaken'
    BY <1>1, <1>2, <1>4, <2>1 DEF Overtaken, SameRaces
  <2>3. Position(p) < Position(p)'
    BY <1>1, <2>1, <1>4, KindsDisjoint DEF Position, Order, MappingStages
  <2> QED BY <1>2, <2>1, <2>2, <2>3, GoesOn
<1> QED BY <1>3, <1>4

LEMMA LoadExtractedRaces ==
  ASSUME SetupInv, NEW p \in Processes, LoadExtracted(p) PROVE RaceStep
<1>1. at[p] = "load_extracted" /\ "load_extracted" \in StagesOf(p)
  BY AtStage DEF LoadExtracted, At, Stages, ExtractStages
<1>2. SameRaces
  BY DEF LoadExtracted, SameRaces, tables, mappingTable
<1>3. CASE extracted = "none"
  <2>1. "create_extracted" \in Stages /\ Go(p, "create_extracted") /\ at'[p] = "create_extracted"
    BY <1>3 DEF SetupInv, LoadExtracted, Go, Stages, ExtractStages
  <2>2. p \notin Overtaken /\ p \notin Overtaken'
    BY <1>1, <1>2, <1>3, <2>1 DEF Overtaken, SameRaces
  <2>3. Position(p) < Position(p)'
    BY <1>1, <2>1, <1>3, KindsDisjoint DEF Position, Order, MappingStages
  <2> QED BY <1>2, <2>1, <2>2, <2>3, GoesOn
<1>4. CASE extracted # "none"
  <2>1. "check_unique" \in Stages /\ Go(p, "check_unique") /\ at'[p] = "check_unique"
    BY <1>4 DEF SetupInv, LoadExtracted, Go, Stages, ExtractStages
  <2>2. p \notin Overtaken /\ p \notin Overtaken'
    BY <1>1, <1>2, <1>4, <2>1 DEF Overtaken, SameRaces
  <2>3. Position(p) < Position(p)'
    BY <1>1, <2>1, <1>4, KindsDisjoint DEF Position, Order, MappingStages
  <2> QED BY <1>2, <2>1, <2>2, <2>3, GoesOn
<1> QED BY <1>3, <1>4

\* The statement fails only after another process dropped field_name.
LEMMA BackfillRaces ==
  ASSUME SetupInv, NEW p \in Processes, Backfill(p) PROVE RaceStep
<1>1. at[p] = "backfill"
  BY DEF Backfill, At
<1>2. SameRaces
  BY DEF Backfill, SameRaces
<1>3. CASE "field_name" \in columns
  <2>1. "set_not_null" \in Stages /\ Go(p, "set_not_null") /\ at'[p] = "set_not_null"
    BY <1>3 DEF SetupInv, Backfill, Go, Stages, MappingStages
  <2>2. p \notin Overtaken /\ p \notin Overtaken'
    BY <1>1, <1>3, <2>1 DEF Overtaken
  <2>3. Position(p) < Position(p)'
    BY <1>1, <2>1 DEF Position, Order, MappingStages
  <2> QED BY <1>2, <2>1, <2>2, <2>3, GoesOn
<1>4. CASE "field_name" \notin columns
  BY <1>1, <1>2, <1>4, GivesUp DEF Backfill, Overtaken
<1> QED BY <1>3, <1>4

\* Who gets here left no row without a target set, so this statement never fails.
LEMMA SetNotNullRaces ==
  ASSUME SetupInv, NEW p \in Processes, SetNotNull(p) PROVE RaceStep
<1>1. at[p] = "set_not_null" /\ Backed(p, "set_not_null")
  BY AtStage DEF SetNotNull, At, Stages, MappingStages
<1>2. SameRaces
  BY DEF SetNotNull, SameRaces
<1>3. "drop_field" \in Stages /\ Go(p, "drop_field") /\ at'[p] = "drop_field"
  BY <1>1 DEF SetupInv, SetNotNull, Go, Stages, MappingStages, Backed
<1>4. p \notin Overtaken /\ p \notin Overtaken'
  BY <1>1, <1>3 DEF Overtaken
<1>5. Position(p) < Position(p)'
  BY <1>1, <1>3 DEF Position, Order, MappingStages
<1> QED BY <1>2, <1>3, <1>4, <1>5, GoesOn

\* The former column goes, once.
LEMMA DropFieldRaces ==
  ASSUME SetupInv, NEW p \in Processes, DropField(p) PROVE RaceStep
<1>1. at[p] = "drop_field"
  BY DEF DropField, At
<1>2. CASE "field_name" \in columns
  BY <1>2 DEF DropField, RaceStep
<1>3. CASE "field_name" \notin columns
  <2>1. SameRaces
    BY <1>3 DEF DropField, SameRaces
  <2>2. "mapping_index" \in Stages /\ Go(p, "mapping_index") /\ at'[p] = "mapping_index"
    BY DEF SetupInv, DropField, Go, Stages, MappingStages
  <2>3. p \notin Overtaken /\ p \notin Overtaken'
    BY <1>1, <2>2 DEF Overtaken
  <2>4. Position(p) < Position(p)'
    BY <1>1, <2>2 DEF Position, Order, MappingStages
  <2> QED BY <2>1, <2>2, <2>3, <2>4, GoesOn
<1> QED BY <1>2, <1>3

\* The output table comes, once; who finds it there was overtaken.
LEMMA CreateOutputRaces ==
  ASSUME SetupInv, NEW p \in Processes, CreateOutput(p) PROVE RaceStep
<1>1. CASE output = "none"
  BY <1>1 DEF CreateOutput, mappingTable, RaceStep
<1>2. CASE output # "none"
  BY <1>2, GivesUp DEF CreateOutput, At, mappingTable, SameRaces, Overtaken
<1> QED BY <1>1, <1>2

LEMMA CreateOutputIndexRaces ==
  ASSUME SetupInv, NEW p \in Processes, CreateOutputIndex(p) PROVE RaceStep
<1>1. CASE output = "none"
  BY <1>1 DEF CreateOutputIndex, mappingTable, RaceStep
<1>2. CASE output # "none"
  <2>1. SameRaces
    BY <1>2 DEF CreateOutputIndex, mappingTable, SameRaces
  <2>2. at[p] = "output_index" /\ "check_nulls" \in Stages /\ Go(p, "check_nulls")
        /\ at'[p] = "check_nulls"
    BY DEF SetupInv, CreateOutputIndex, At, Go, Stages, OutputStages
  <2>3. p \notin Overtaken /\ p \notin Overtaken'
    BY <2>2 DEF Overtaken
  <2>4. Position(p) < Position(p)'
    BY <2>2 DEF Position, Order, MappingStages
  <2> QED BY <2>1, <2>2, <2>3, <2>4, GoesOn
<1> QED BY <1>1, <1>2

\* The output table of an enrichextract job that has no key stays without one.
LEMMA CheckUniqueRaces ==
  ASSUME SetupInv, NEW p \in Processes, CheckUnique(p) PROVE RaceStep
<1>1. at[p] = "check_unique" /\ p \in Extracts /\ extracted # "none"
  BY AtStage, KindsDisjoint DEF CheckUnique, At, Stages, ExtractStages, StagesOf, Ends,
     MappingStages, QueueStages, OutputStages, Backed
<1>2. SameRaces
  BY DEF CheckUnique, SameRaces, tables, mappingTable
<1>3. p \notin Overtaken
  BY <1>1 DEF Overtaken
<1>4. CASE extracted = "unique"
  <2>1. "ready" \in Stages /\ Go(p, "ready") /\ at'[p] = "ready"
    BY <1>4 DEF SetupInv, CheckUnique, Go, Stages, Ends
  <2>2. p \notin Overtaken' /\ Position(p) < Position(p)'
    BY <1>1, <2>1 DEF Overtaken, Position, Order, MappingStages
  <2> QED BY <1>2, <1>3, <2>1, <2>2, GoesOn
<1>5. CASE extracted = "plain"
  <2>1. "failed" \in Stages /\ Go(p, "failed") /\ at'[p] = "failed"
    BY <1>5 DEF SetupInv, CheckUnique, Go, Stages, Ends
  <2>2. p \notin Overtaken'
    BY <2>1 DEF Overtaken
  <2> QED BY <1>1, <1>2, <1>3, <1>5, <2>1, <2>2, GoesOn
<1> QED BY <1>1, <1>4, <1>5 DEF SetupInv, TablesInv

LEMMA AgainRaces ==
  ASSUME SetupInv, NEW p \in Processes, Again(p) PROVE RaceStep
<1>1. at[p] = "failed" /\ Go(p, First(p)) /\ First(p) \in Stages /\ at'[p] = First(p)
      /\ First(p) \in {"create_mapping", "create_targets", "load_extracted"}
  BY KindsDisjoint DEF SetupInv, Again, Go, First, Stages, MappingStages, QueueStages,
     ExtractStages
<1>2. SameRaces
  BY DEF Again, SameRaces, tables, mappingTable
<1>3. p \notin Overtaken /\ p \notin Overtaken'
  BY <1>1 DEF Overtaken
<1>4. Position(p) < Position(p)'
  BY <1>1 DEF Position, Order, MappingStages
<1> QED BY <1>1, <1>2, <1>3, <1>4, GoesOn

\* A fault is counted.
LEMMA FaultsCounted ==
  ASSUME faults \in Nat, Crash \/ \E p \in Processes : Fails(p)
  PROVE  faults' # faults
BY DEF Crash, Fails

\* Without another fault, a process loses a race only to a change that is made once,
\* and no process meets the same failure again, for any number of processes: what
\* stands in the way of everybody's getting ready is used up.
THEOREM RacesRunOutHolds == Spec => RacesRunOut
<1>1. Init => faults \in Nat
  BY DEF Init
<1>2. faults \in Nat /\ [Next]_vars => (faults \in Nat)'
  BY DEF Next, Crash, Again, Step, Fails, EnsureMapping, EnsureQueue, EnsureOutput,
     EnsureExtracted, CreateMapping, AddTargetSet, CheckField, Backfill, SetNotNull,
     DropField, CreateMappingIndex, CreateTargets, DropDescription, CreateRecallIndex,
     CreateCandidates, LoadOutput, CreateOutput, LoadIndexes, CreateOutputIndex,
     CheckNulls, LoadExtracted, CreateExtracted, CheckUnique, At, vars
<1>3. ASSUME SetupInv, NEW p \in Processes, Step(p) PROVE RaceStep
  <2>1. EnsureMapping(p) => RaceStep
    BY <1>3, CreateMappingRaces, AddTargetSetRaces, CheckFieldRaces, BackfillRaces,
       SetNotNullRaces, DropFieldRaces, CreateMappingIndexRaces DEF EnsureMapping
  <2>2. EnsureQueue(p) => RaceStep
    BY <1>3, CreateTargetsRaces, DropDescriptionRaces, CreateRecallIndexRaces,
       CreateCandidatesRaces DEF EnsureQueue
  <2>3. EnsureOutput(p) => RaceStep
    BY <1>3, LoadOutputRaces, CreateOutputRaces, LoadIndexesRaces, CreateOutputIndexRaces,
       CheckNullsRaces DEF EnsureOutput
  <2>4. EnsureExtracted(p) => RaceStep
    BY <1>3, LoadExtractedRaces, CreateExtractedRaces, CheckUniqueRaces DEF EnsureExtracted
  <2> QED BY <1>3, <2>1, <2>2, <2>3, <2>4 DEF Step
<1>4. SetupInv /\ faults \in Nat /\ [Next]_vars => [faults' = faults => RaceStep]_vars
  BY <1>3, AgainRaces, FaultsCounted DEF Next
<1> QED BY <1>1, <1>2, <1>4, SetupInvariance, PTL DEF Spec, RacesRunOut
=============================================================================
