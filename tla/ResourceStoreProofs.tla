------------------------ MODULE ResourceStoreProofs -------------------------
(***************************************************************************)
(* Proofs about ResourceStore, for any number of clients and resources.    *)
(***************************************************************************)
EXTENDS ResourceStore, TLAPS

\* The three tables are the three kinds, and the migrated ones come first.
LEMMA TablesAreKinds ==
  /\ \A n \in 1..3 : Tables[n] \in Kinds
  /\ \A k \in Kinds : \E n \in 1..3 : Tables[n] = k
  /\ \A n \in 1..3 : Tables[n] \in Migrated <=> n \in 1..2
  /\ \A n, k \in 1..3 : Tables[n] = Tables[k] => n = k
  /\ Tables[3] = "database"
<1>1. Tables[1] = "llm" /\ Tables[2] = "embedding" /\ Tables[3] = "database"
  BY DEF Tables
<1>2. \A n \in 1..3 : n = 1 \/ n = 2 \/ n = 3
  OBVIOUS
<1> QED BY <1>1, <1>2 DEF Kinds, Migrated

LEMMA RowsAreThere ==
  /\ Absent \notin Row /\ Absent \notin Configs /\ Absent \notin Nat
  /\ \A r \in Requests : r.of \in Resources /\ r.config \in Configs
BY StoreAssumption DEF Row

LEMMA InitStore == Init => StoreInv
<1> SUFFICES ASSUME Init PROVE StoreInv
  OBVIOUS
<1>1. rows \in [Resources -> Row \cup {Absent}]
  BY StoreAssumption DEF Init, Row
<1>2. TypeOK
  <2>1. /\ clock \in 0..MaxClock
        /\ now \in [Clients -> 0..MaxClock]
        /\ existing \in [Clients -> 0..MaxClock \cup {Absent}]
    BY StoreAssumption DEF Init
  <2>2. /\ request \in [Clients -> Requests \cup {NoRequest}]
        /\ \A c \in Clients : pc[c] = "idle" <=> request[c] = NoRequest
    BY DEF Init
  <2>3. pc \in [Clients -> {"idle", "read", "replace"}] /\ schema \in [Kinds -> {"none", "old", "complete"}]
    BY DEF Init
  <2>4. overlapped \subseteq {c \in Clients : pc[c] = "replace"}
    BY DEF Init
  <2>5. at \in {"down", "create", "inspect", "scan", "alter", "ready"} /\ table \in 1..3
    BY DEF Init
  <2>6. cursor \in BOOLEAN
    BY Zenon DEF Init
  <2> QED BY <1>1, <2>1, <2>2, <2>3, <2>4, <2>5, <2>6 DEF TypeOK
<1>3. TablesPrepared /\ FoundIsThere
  BY DEF Init, TablesPrepared, FoundIsThere, Ready
<1> QED BY <1>2, <1>3 DEF StoreInv

\* No request is under way while the tables are set up.
LEMMA NobodyInSetup ==
  ASSUME StoreInv, ~Ready
  PROVE  \A c \in Clients : pc[c] = "idle"
BY DEF StoreInv, TablesPrepared

\* What the set-up does not touch stays as it was.
LEMMA SetupLeavesCalls ==
  ASSUME StoreInv, ~Ready, UNCHANGED <<rows, clock, calls>>
  PROVE  /\ FoundIsThere'
         /\ \A c \in Clients : pc'[c] = "idle"
BY NobodyInSetup DEF FoundIsThere, calls

LEMMA UpToNext ==
  \A n, k \in Int : k \in {n, n + 1} => 1..(k - 1) \subseteq 1..n
OBVIOUS

LEMMA NextTableKeeps ==
  ASSUME StoreInv, ~Ready, NextTable, UNCHANGED <<rows, clock, calls>>,
         cursor' \in BOOLEAN,
         schema' \in [Kinds -> {"none", "old", "complete"}],
         schema'["database"] # "old",
         \A k \in Kinds : schema[k] = "complete" => schema'[k] = "complete",
         schema'[Tables[table]] = "complete"
  PROVE  StoreInv'
<1>1. table \in 1..3 /\ table' \in 1..3 /\ at' \in {"create", "ready"}
  BY DEF StoreInv, TypeOK, NextTable
<1>2. \A n \in 1..table : schema'[Tables[n]] = "complete"
  BY <1>1, TablesAreKinds DEF StoreInv, TablesPrepared
<1>3. TypeOK'
  BY <1>1 DEF StoreInv, TypeOK, calls
<1>4. table' \in {table, table + 1} /\ (at' = "ready" => table = 3)
  BY <1>1 DEF NextTable, StoreInv, TypeOK
<1>5. at' = "ready" => \A k \in Kinds : schema'[k] = "complete"
  BY <1>2, <1>4, TablesAreKinds
<1>6. \A n \in 1..(table' - 1) : schema'[Tables[n]] = "complete"
  <2>1. table \in Int /\ table' \in Int
    BY <1>1
  <2>2. 1..(table' - 1) \subseteq 1..table
    BY <2>1, <1>4, UpToNext
  <2> QED BY <1>2, <2>2
<1>7. TablesPrepared'
  BY <1>1, <1>5, <1>6, SetupLeavesCalls DEF TablesPrepared, Ready
<1> QED BY <1>3, <1>7, SetupLeavesCalls DEF StoreInv

LEMMA CreateKeeps == ASSUME StoreInv, CreateTable PROVE StoreInv'
<1>1. table \in 1..3 /\ ~Ready /\ Tables[table] \in Kinds
  BY TablesAreKinds DEF StoreInv, TypeOK, CreateTable, Ready
<1>2. /\ schema' \in [Kinds -> {"none", "old", "complete"}]
      /\ schema'["database"] # "old"
      /\ schema'[Tables[table]] # "none"
      /\ \A k \in Kinds : schema[k] = "complete" => schema'[k] = "complete"
  BY <1>1 DEF StoreInv, TypeOK, TablesPrepared, CreateTable, Kinds
<1>3. CASE Tables[table] \in Migrated
  <2>1. at' = "inspect" /\ UNCHANGED <<table, rows, clock, cursor, calls>>
    BY <1>3 DEF CreateTable
  <2>2. TypeOK'
    BY <1>2, <2>1 DEF StoreInv, TypeOK, calls
  <2>3. \A n \in 1..(table - 1) : Tables[n] \in Kinds
    BY <1>1, TablesAreKinds
  <2>4. TablesPrepared'
    BY <1>1, <1>2, <1>3, <2>1, <2>3, SetupLeavesCalls
       DEF StoreInv, TypeOK, TablesPrepared, Ready
  <2> QED BY <1>1, <2>1, <2>2, <2>4, SetupLeavesCalls DEF StoreInv
<1>4. CASE Tables[table] \notin Migrated
  <2>1. table = 3 /\ schema'[Tables[table]] = "complete"
    BY <1>1, <1>2, <1>4, TablesAreKinds
  <2> QED BY <1>1, <1>2, <1>4, <2>1, NextTableKeeps DEF CreateTable, StoreInv, TypeOK
<1> QED BY <1>3, <1>4

LEMMA InspectKeeps == ASSUME StoreInv, InspectTable PROVE StoreInv'
<1>1. /\ ~Ready /\ at = "inspect" /\ at' = "scan" /\ cursor' = TRUE
      /\ UNCHANGED <<schema, table, rows, clock, calls>>
  BY DEF InspectTable, Ready, disk
<1>2. TypeOK' /\ TablesPrepared'
  BY <1>1, SetupLeavesCalls DEF StoreInv, TypeOK, TablesPrepared, Ready, calls
<1> QED BY <1>1, <1>2, SetupLeavesCalls DEF StoreInv

LEMMA ScanKeeps == ASSUME StoreInv, ScanColumns PROVE StoreInv'
<1>1. ~Ready /\ UNCHANGED <<schema, rows, clock, calls>>
  BY DEF ScanColumns, Ready, disk
<1>2. CASE schema[Tables[table]] = "complete"
  BY <1>1, <1>2, NextTableKeeps DEF ScanColumns, StoreInv, TypeOK, TablesPrepared
<1>3. CASE schema[Tables[table]] # "complete"
  <2>1. at = "scan" /\ at' = "alter" /\ cursor' = FALSE /\ UNCHANGED table
    BY <1>3 DEF ScanColumns, OpenAfterScan
  <2>2. TypeOK' /\ TablesPrepared'
    BY <1>1, <2>1, SetupLeavesCalls DEF StoreInv, TypeOK, TablesPrepared, Ready, calls
  <2> QED BY <1>1, <2>2, SetupLeavesCalls DEF StoreInv
<1> QED BY <1>2, <1>3

LEMMA AddColumnKeeps == ASSUME StoreInv, AddColumn PROVE StoreInv'
<1>1. table \in 1..3 /\ ~Ready /\ Tables[table] \in Kinds
  BY TablesAreKinds DEF StoreInv, TypeOK, AddColumn, Ready
<1>2. /\ schema' \in [Kinds -> {"none", "old", "complete"}]
      /\ schema'["database"] # "old"
      /\ schema'[Tables[table]] = "complete"
      /\ \A k \in Kinds : schema[k] = "complete" => schema'[k] = "complete"
  BY <1>1 DEF StoreInv, TypeOK, TablesPrepared, AddColumn, Kinds
<1> QED BY <1>1, <1>2, NextTableKeeps DEF AddColumn, StoreInv, TypeOK

\* A request ends: the locals of its client are cleared.
LEMMA AnswerKeepsTypes ==
  ASSUME StoreInv, NEW c \in Clients, NEW a, Answer(c, a),
         overlapped' \subseteq Clients,
         \A d \in overlapped' : d # c /\ pc[d] = "replace"
  PROVE  /\ pc' \in [Clients -> {"idle", "read", "replace"}]
         /\ request' \in [Clients -> Requests \cup {NoRequest}]
         /\ \A d \in Clients : pc'[d] = "idle" <=> request'[d] = NoRequest
         /\ now' \in [Clients -> 0..MaxClock]
         /\ existing' \in [Clients -> 0..MaxClock \cup {Absent}]
         /\ overlapped' \subseteq {d \in Clients : pc'[d] = "replace"}
         /\ pc'[c] = "idle"
         /\ \A d \in Clients \ {c} :
              pc'[d] = pc[d] /\ request'[d] = request[d] /\ existing'[d] = existing[d]
BY StoreAssumption DEF StoreInv, TypeOK, Answer

\* A step that leaves the set-up alone while the server serves.
LEMMA ServesOn ==
  ASSUME StoreInv, Ready, UNCHANGED <<schema, setup>>
  PROVE  TablesPrepared'
BY DEF StoreInv, TablesPrepared, Ready, setup

\* A request ends without writing a row.
LEMMA AnswerKeeps ==
  ASSUME StoreInv, Ready, NEW c \in Clients, NEW a, Answer(c, a),
         UNCHANGED <<disk, clock, setup>>,
         overlapped' = overlapped \ {c}
  PROVE  StoreInv'
<1>1. overlapped' \subseteq Clients /\ \A d \in overlapped' : d # c /\ pc[d] = "replace"
  BY DEF StoreInv, TypeOK
<1>2. TypeOK'
  BY <1>1, AnswerKeepsTypes DEF StoreInv, TypeOK, disk, setup
<1>3. FoundIsThere'
  BY <1>1, AnswerKeepsTypes DEF StoreInv, FoundIsThere, disk
<1> QED BY <1>2, <1>3, ServesOn DEF StoreInv, disk

\* A request ends and writes the row of x.
LEMMA WriteKeeps ==
  ASSUME StoreInv, Ready, NEW c \in Clients, NEW a, Answer(c, a),
         NEW x \in Resources, NEW row \in Row \cup {Absent},
         rows' = [rows EXCEPT ![x] = row],
         UNCHANGED <<schema, clock, setup>>,
         overlapped' = (overlapped \cup Reading(x)) \ {c}
  PROVE  StoreInv'
<1>1. overlapped' \subseteq Clients /\ \A d \in overlapped' : d # c /\ pc[d] = "replace"
  BY DEF StoreInv, TypeOK, Reading
<1>2. TypeOK'
  BY <1>1, AnswerKeepsTypes DEF StoreInv, TypeOK, setup
<1>3. ASSUME NEW d \in Clients, pc'[d] = "replace", d \notin overlapped'
      PROVE  existing'[d] = Created(rows'[request'[d].of])
  <2>1. d # c /\ pc[d] = "replace" /\ request'[d] = request[d] /\ existing'[d] = existing[d]
    BY <1>1, <1>3, AnswerKeepsTypes
  <2>2. d \notin overlapped /\ request[d].of # x
    BY <1>3, <2>1 DEF Reading
  <2>3. request[d] \in Requests
    BY <2>1 DEF StoreInv, TypeOK
  <2>4. rows'[request[d].of] = rows[request[d].of]
    BY <2>2, <2>3, RowsAreThere DEF StoreInv, TypeOK
  <2> QED BY <2>1, <2>2, <2>4 DEF StoreInv, FoundIsThere
<1>4. FoundIsThere'
  BY <1>3 DEF FoundIsThere
<1> QED BY <1>2, <1>4, ServesOn DEF StoreInv

LEMMA SetKeeps ==
  ASSUME StoreInv, NEW c \in Clients, NEW x \in Resources, Set(c, x)
  PROVE  StoreInv'
<1>1. Ready /\ pc[c] = "idle" /\ UNCHANGED <<disk, clock, setup, overlapped>>
  BY DEF Set, Free
<1>2. c \notin overlapped
  BY <1>1 DEF StoreInv, TypeOK
<1>3. CASE Answer(c, "invalid_argument")
  BY <1>1, <1>2, <1>3, AnswerKeeps
<1>4. CASE ~Answer(c, "invalid_argument")
  <2>1. PICK r \in Requests :
          /\ request' = [request EXCEPT ![c] = r]
          /\ now' = [now EXCEPT ![c] = clock]
          /\ pc' = [pc EXCEPT ![c] = "read"]
          /\ UNCHANGED existing
    BY <1>4 DEF Set
  <2>2. TypeOK'
    BY <1>1, <2>1, StoreAssumption DEF StoreInv, TypeOK, disk, setup
  <2>3. FoundIsThere'
    BY <1>1, <2>1 DEF StoreInv, TypeOK, FoundIsThere, disk
  <2> QED BY <1>1, <2>2, <2>3, ServesOn DEF StoreInv, disk
<1> QED BY <1>3, <1>4

LEMMA ReadKeeps ==
  ASSUME StoreInv, NEW c \in Clients, ReadExisting(c)
  PROVE  StoreInv'
<1>1. /\ Ready /\ pc[c] = "read" /\ c \notin overlapped
      /\ UNCHANGED <<disk, clock, setup, request, now, overlapped>>
  BY DEF ReadExisting, At, StoreInv, TypeOK
<1>2. request[c] \in Requests /\ request[c].of \in Resources
  BY <1>1, RowsAreThere DEF StoreInv, TypeOK
<1>3. rows[request[c].of] \in Row \cup {Absent}
  BY <1>2 DEF StoreInv, TypeOK
<1>4. Created(rows[request[c].of]) \in 0..MaxClock \cup {Absent}
  BY <1>3 DEF Created, Row
<1>5. TypeOK'
  BY <1>1, <1>4 DEF StoreInv, TypeOK, ReadExisting, disk, setup
<1>6. FoundIsThere'
  BY <1>1 DEF StoreInv, TypeOK, FoundIsThere, ReadExisting, disk
<1> QED BY <1>1, <1>5, <1>6, ServesOn DEF StoreInv, disk

\* The row that a save writes.
LEMMA NewRow ==
  ASSUME StoreInv, NEW c \in Clients, pc[c] = "replace"
  PROVE  /\ request[c] \in Requests /\ request[c].of \in Resources
         /\ [config |-> request[c].config, created |-> CreatedAt(c)] \in Row
<1>1. request[c] \in Requests /\ request[c].of \in Resources /\ request[c].config \in Configs
  BY RowsAreThere DEF StoreInv, TypeOK
<1>2. CreatedAt(c) \in 0..MaxClock
  BY DEF CreatedAt, StoreInv, TypeOK
<1> QED BY <1>1, <1>2 DEF Row

LEMMA SaveKeeps ==
  ASSUME StoreInv, NEW c \in Clients, Save(c)
  PROVE  StoreInv'
<1>1. CASE ReadExisting(c)
  BY <1>1, ReadKeeps
<1>2. CASE ReplaceRow(c)
  BY <1>2, NewRow, WriteKeeps DEF ReplaceRow, At, Replaced
<1>3. CASE SaveFails(c)
  BY <1>3, AnswerKeeps DEF SaveFails, At
<1> QED BY <1>1, <1>2, <1>3 DEF Save

LEMMA GetKeeps ==
  ASSUME StoreInv, NEW c \in Clients, NEW x \in Resources, Get(c, x)
  PROVE  StoreInv'
<1>1. Ready /\ c \notin overlapped /\ UNCHANGED <<disk, clock, setup, overlapped>>
  BY DEF Get, Free, StoreInv, TypeOK
<1>2. \E a \in {Config(rows[x]), "internal"} : Answer(c, a)
  BY DEF Get
<1> QED BY <1>1, <1>2, AnswerKeeps

LEMMA DeleteKeeps ==
  ASSUME StoreInv, NEW c \in Clients, NEW x \in Resources, Delete(c, x)
  PROVE  StoreInv'
<1>1. Ready /\ pc[c] = "idle" /\ c \notin overlapped /\ UNCHANGED <<schema, clock, setup>>
  BY DEF Delete, Free, StoreInv, TypeOK
<1>2. CASE Answer(c, "internal") /\ UNCHANGED <<rows, overlapped>>
  BY <1>1, <1>2, AnswerKeeps DEF disk
<1>3. ASSUME NEW a, Answer(c, a), rows' = [rows EXCEPT ![x] = Absent],
             overlapped' = overlapped \cup Reading(x)
      PROVE  StoreInv'
  <2>1. overlapped' = (overlapped \cup Reading(x)) \ {c}
    BY <1>1, <1>3 DEF Reading
  <2> QED BY <1>1, <1>3, <2>1, WriteKeeps
<1> QED BY <1>2, <1>3 DEF Delete

LEMMA OperateKeeps ==
  ASSUME StoreInv, NEW c \in Clients, NEW k \in Kinds, NEW i \in Ids, Operate(c, <<k, i>>)
  PROVE  StoreInv'
<1>1. <<k, i>> \in Resources
  BY DEF Resources
<1> QED BY <1>1, SetKeeps, GetKeeps, DeleteKeeps DEF Operate

LEMMA EndKeeps == ASSUME StoreInv, Crash \/ Restart PROVE StoreInv'
<1>1. CASE Crash
  <2>1. TypeOK'
    <3>1. /\ now' \in [Clients -> 0..MaxClock]
          /\ existing' \in [Clients -> 0..MaxClock \cup {Absent}]
          /\ request' \in [Clients -> Requests \cup {NoRequest}]
          /\ pc' \in [Clients -> {"idle", "read", "replace"}]
      BY <1>1, StoreAssumption DEF Crash
    <3>2. \A c \in Clients : pc'[c] = "idle" <=> request'[c] = NoRequest
      BY <1>1 DEF Crash
    <3>3. overlapped' \subseteq {c \in Clients : pc'[c] = "replace"}
      BY <1>1 DEF Crash
    <3>4. at' = "down" /\ table' \in 1..3 /\ UNCHANGED <<schema, rows, clock>>
      BY <1>1 DEF Crash, disk
    <3>5. cursor' \in BOOLEAN
      BY <1>1, Zenon DEF Crash
    <3> QED BY <3>1, <3>2, <3>3, <3>4, <3>5 DEF StoreInv, TypeOK
  <2>2. TablesPrepared' /\ FoundIsThere'
    BY <1>1 DEF Crash, StoreInv, TypeOK, TablesPrepared, FoundIsThere, Ready, disk
  <2> QED BY <2>1, <2>2 DEF StoreInv
<1>2. CASE Restart
  <2>1. ~Ready /\ at' = "create" /\ UNCHANGED <<schema, rows, clock, table, cursor, calls>>
    BY <1>2 DEF Restart, Ready, disk
  <2>2. TypeOK' /\ TablesPrepared'
    BY <2>1, SetupLeavesCalls DEF StoreInv, TypeOK, TablesPrepared, Ready, calls
  <2> QED BY <2>1, <2>2, SetupLeavesCalls DEF StoreInv
<1> QED BY <1>1, <1>2

LEMMA TickKeeps == ASSUME StoreInv, Tick \/ UNCHANGED vars PROVE StoreInv'
<1>1. UNCHANGED <<schema, rows, at, table, cursor, calls>>
  BY DEF Tick, vars, disk, setup
<1>2. clock' \in 0..MaxClock
  BY StoreAssumption DEF Tick, vars, StoreInv, TypeOK
<1>3. TypeOK' /\ TablesPrepared'
  BY <1>1, <1>2 DEF StoreInv, TypeOK, TablesPrepared, Ready, calls
<1>4. FoundIsThere'
  BY <1>1 DEF StoreInv, FoundIsThere, calls
<1> QED BY <1>3, <1>4 DEF StoreInv

LEMMA NextStore == StoreInv /\ [Next]_vars => StoreInv'
<1> SUFFICES ASSUME StoreInv, [Next]_vars PROVE StoreInv'
  OBVIOUS
<1>1. CASE Setup
  BY <1>1, CreateKeeps, InspectKeeps, ScanKeeps, AddColumnKeeps DEF Setup
<1>2. CASE Restart \/ Crash
  BY <1>2, EndKeeps
<1>3. CASE Tick \/ UNCHANGED vars
  BY <1>3, TickKeeps
<1>4. ASSUME NEW c \in Clients, LLMRequest(c) \/ EmbeddingRequest(c) \/ DatabaseRequest(c)
      PROVE  StoreInv'
  BY <1>4, OperateKeeps DEF LLMRequest, EmbeddingRequest, DatabaseRequest, Kinds
<1>5. ASSUME NEW c \in Clients, SaveLLM(c) \/ SaveEmbedding(c) \/ SaveDatabase(c)
      PROVE  StoreInv'
  BY <1>5, SaveKeeps DEF SaveLLM, SaveEmbedding, SaveDatabase, SavesOf
<1> QED BY <1>1, <1>2, <1>3, <1>4, <1>5 DEF Next

\* The inductive invariant of the resource service holds: the tables are complete
\* before a request is served, wherever an earlier set-up was cut off.
THEOREM StoreInvariance == Spec => []StoreInv
BY InitStore, NextStore, PTL DEF Spec

---------------------------------------------------------------------------
(***************************************************************************)
(* Creation times.                                                         *)
(***************************************************************************)

\* Steps other than the second statement of a save change no row, or take it away.
LEMMA OnlyReplaceWrites ==
  ASSUME StoreInv, [Next]_vars, NEW x \in Resources,
         rows[x] # Absent, rows'[x] # Absent, rows'[x] # rows[x]
  PROVE  \E c \in Clients : ReplaceRow(c)
<1>1. CASE Setup \/ Restart \/ Crash \/ Tick \/ UNCHANGED vars
  BY <1>1 DEF Setup, CreateTable, InspectTable, ScanColumns, AddColumn, Restart,
     Crash, Tick, vars, disk
<1>2. ASSUME NEW c \in Clients, NEW k \in Kinds, NEW i \in Ids, Operate(c, <<k, i>>)
      PROVE  FALSE
  <2>1. <<k, i>> \in Resources /\ (UNCHANGED rows \/ rows' = [rows EXCEPT ![<<k, i>>] = Absent])
    BY <1>2 DEF Operate, Set, Get, Delete, disk, Resources
  <2> QED BY <2>1 DEF StoreInv, TypeOK
<1>3. ASSUME NEW c \in Clients, Save(c), ~ReplaceRow(c)
      PROVE  FALSE
  BY <1>3 DEF Save, ReadExisting, SaveFails, disk
<1>4. Next \/ UNCHANGED vars
  OBVIOUS
<1> QED BY <1>1, <1>2, <1>3, <1>4 DEF Next, LLMRequest, EmbeddingRequest, DatabaseRequest, Kinds,
     SaveLLM, SaveEmbedding, SaveDatabase, SavesOf

\* The creation time of a resource that stays is changed by overlapping saves only.
THEOREM CreatedKeptHolds == Spec => CreatedKept
<1>1. ASSUME StoreInv, [Next]_vars, NEW x \in Resources,
             rows[x] # Absent, rows'[x] # Absent, rows'[x].created # rows[x].created
      PROVE  \E c \in overlapped : request[c].of = x /\ pc'[c] = "idle"
  <2>1. PICK c \in Clients : ReplaceRow(c)
    BY <1>1, OnlyReplaceWrites
  <2>2. /\ pc[c] = "replace" /\ pc'[c] = "idle"
        /\ rows' = [rows EXCEPT ![request[c].of] =
                      [config |-> request[c].config, created |-> CreatedAt(c)]]
    BY <1>1, <2>1 DEF ReplaceRow, At, Answer, Replaced, StoreInv, TypeOK
  <2>3. request[c].of = x /\ rows'[x].created = CreatedAt(c)
    BY <1>1, <2>2, NewRow DEF StoreInv, TypeOK
  <2>4. c \notin overlapped => existing[c] = rows[x].created
    BY <1>1, <2>2, <2>3 DEF StoreInv, FoundIsThere, Created
  <2>5. rows[x].created # Absent
    BY <1>1, RowsAreThere DEF StoreInv, TypeOK, Row
  <2>6. c \in overlapped
    BY <1>1, <2>3, <2>4, <2>5 DEF CreatedAt
  <2> QED BY <2>2, <2>3, <2>6
<1>2. StoreInv /\ [Next]_vars =>
        [\A x \in Resources :
           rows[x] # Absent /\ rows'[x] # Absent /\ rows'[x].created # rows[x].created =>
             \E c \in overlapped : request[c].of = x /\ pc'[c] = "idle"]_vars
  BY <1>1
<1> QED BY <1>2, StoreInvariance, PTL DEF Spec, CreatedKept

---------------------------------------------------------------------------
(***************************************************************************)
(* The register.                                                           *)
(***************************************************************************)

\* A step that touches neither a row nor a request.
LEMMA Stutters ==
  ASSUME UNCHANGED <<rows, request, answer>>
  PROVE  UNCHANGED Register!vars
BY DEF Register!vars

LEMMA WritesOneResource ==
  ASSUME StoreInv, NEW x \in Resources, NEW row \in Row \cup {Absent},
         rows' = [rows EXCEPT ![x] = row]
  PROVE  [y \in Resources |-> Config(rows'[y])]
           = [[y \in Resources |-> Config(rows[y])] EXCEPT ![x] = Config(row)]
BY DEF StoreInv, TypeOK

LEMMA SetIsRegister ==
  ASSUME StoreInv, NEW c \in Clients, NEW x \in Resources, Set(c, x)
  PROVE  Register!Next
<1>1. request[c] = NoRequest /\ UNCHANGED rows
  BY DEF Set, Free, disk, StoreInv, TypeOK
<1>2. CASE Answer(c, "invalid_argument")
  <2>1. Register!Refuse(c)
    BY <1>1, <1>2 DEF Answer, Register!Refuse, Register!Errors
  <2> QED BY <2>1 DEF Register!Next
<1>3. CASE ~Answer(c, "invalid_argument")
  <2>1. PICK r \in Requests :
          /\ r.of = x
          /\ request' = [request EXCEPT ![c] = r]
          /\ answer' = [answer EXCEPT ![c] = "none"]
    BY <1>3 DEF Set
  <2>2. r.config \in Configs /\ r = [of |-> x, config |-> r.config]
    BY <2>1, StoreAssumption
  <2>3. Register!Ask(c, x, r.config)
    BY <1>1, <2>1, <2>2 DEF Register!Ask
  <2> QED BY <2>2, <2>3 DEF Register!Next
<1> QED BY <1>2, <1>3

LEMMA SaveIsRegister ==
  ASSUME StoreInv, NEW c \in Clients, Save(c)
  PROVE  Register!Next \/ UNCHANGED Register!vars
<1>1. CASE ReadExisting(c)
  BY <1>1, Stutters DEF ReadExisting, disk
<1>2. CASE ReplaceRow(c)
  <2>1. /\ pc[c] = "replace" /\ Answer(c, "ok")
        /\ rows' = [rows EXCEPT ![request[c].of] =
                      [config |-> request[c].config, created |-> CreatedAt(c)]]
    BY <1>2 DEF ReplaceRow, At, Replaced
  <2>2. request[c] # NoRequest
    BY <2>1 DEF StoreInv, TypeOK
  <2> DEFINE row == [config |-> request[c].config, created |-> CreatedAt(c)]
  <2>3. row \in Row /\ request[c].of \in Resources
    BY <2>1, NewRow
  <2>4. Config(row) = request[c].config
    BY <2>3, RowsAreThere DEF Config
  <2> HIDE DEF row
  <2>5. [y \in Resources |-> Config(rows'[y])]
          = [[y \in Resources |-> Config(rows[y])] EXCEPT ![request[c].of] = request[c].config]
    BY <2>1, <2>3, <2>4, WritesOneResource DEF row
  <2>6. Register!Save(c)
    BY <2>1, <2>2, <2>5 DEF Register!Save, Answer
  <2> QED BY <2>6 DEF Register!Next
<1>3. CASE SaveFails(c)
  <2>1. Register!Refuse(c)
    BY <1>3 DEF SaveFails, Answer, disk, Register!Refuse, Register!Errors
  <2> QED BY <2>1 DEF Register!Next
<1> QED BY <1>1, <1>2, <1>3 DEF Save

LEMMA GetIsRegister ==
  ASSUME StoreInv, NEW c \in Clients, NEW x \in Resources, Get(c, x)
  PROVE  Register!Next
<1>1. request[c] = NoRequest /\ UNCHANGED rows
  BY DEF Get, Free, disk, StoreInv, TypeOK
<1>2. CASE Answer(c, "internal")
  <2>1. Register!Refuse(c)
    BY <1>1, <1>2 DEF Answer, Register!Refuse, Register!Errors
  <2> QED BY <2>1 DEF Register!Next
<1>3. CASE Answer(c, Config(rows[x]))
  <2>1. request' = request
    BY <1>1, <1>3 DEF Answer, StoreInv, TypeOK
  <2>2. Register!Get(c, x)
    BY <1>1, <1>3, <2>1 DEF Answer, Register!Get
  <2> QED BY <2>2 DEF Register!Next
<1> QED BY <1>2, <1>3 DEF Get

LEMMA DeleteIsRegister ==
  ASSUME StoreInv, NEW c \in Clients, NEW x \in Resources, Delete(c, x)
  PROVE  Register!Next
<1>1. request[c] = NoRequest
  BY DEF Delete, Free, StoreInv, TypeOK
<1>2. CASE Answer(c, "internal") /\ UNCHANGED rows
  <2>1. Register!Refuse(c)
    BY <1>1, <1>2 DEF Answer, Register!Refuse, Register!Errors
  <2> QED BY <2>1 DEF Register!Next
<1>3. CASE /\ rows' = [rows EXCEPT ![x] = Absent]
           /\ Answer(c, IF rows[x] = Absent THEN "not_found" ELSE "deleted")
  <2>1. request' = request
    BY <1>1, <1>3 DEF Answer, StoreInv, TypeOK
  <2>2. Config(rows[x]) = Absent <=> rows[x] = Absent
    BY RowsAreThere DEF Config, Row, StoreInv, TypeOK
  <2>3. [y \in Resources |-> Config(rows'[y])]
          = [[y \in Resources |-> Config(rows[y])] EXCEPT ![x] = Absent]
    <3>1. Config(Absent) = Absent
      BY DEF Config
    <3> QED BY <1>3, <3>1, WritesOneResource
  <2>4. Register!Delete(c, x)
    BY <1>1, <1>3, <2>1, <2>2, <2>3 DEF Answer, Register!Delete
  <2> QED BY <2>4 DEF Register!Next
<1> QED BY <1>2, <1>3 DEF Delete

LEMMA OperateIsRegister ==
  ASSUME StoreInv, NEW c \in Clients, NEW k \in Kinds, NEW i \in Ids, Operate(c, <<k, i>>)
  PROVE  Register!Next
<1>1. <<k, i>> \in Resources
  BY DEF Resources
<1> QED BY <1>1, SetIsRegister, GetIsRegister, DeleteIsRegister DEF Operate

LEMMA StepIsRegister ==
  ASSUME StoreInv, [Next]_vars
  PROVE  Register!Next \/ UNCHANGED Register!vars
<1>1. CASE Setup \/ Restart \/ Tick \/ UNCHANGED vars
  BY <1>1, Stutters DEF Setup, CreateTable, InspectTable, ScanColumns, AddColumn,
     Restart, Tick, vars, disk, calls
<1>2. CASE Crash
  <2>1. Register!Lose
    BY <1>2 DEF Crash, disk, Register!Lose
  <2> QED BY <2>1 DEF Register!Next
<1>3. ASSUME NEW c \in Clients, LLMRequest(c) \/ EmbeddingRequest(c) \/ DatabaseRequest(c)
      PROVE  Register!Next
  BY <1>3, OperateIsRegister DEF LLMRequest, EmbeddingRequest, DatabaseRequest, Kinds
<1>4. ASSUME NEW c \in Clients, SaveLLM(c) \/ SaveEmbedding(c) \/ SaveDatabase(c)
      PROVE  Register!Next \/ UNCHANGED Register!vars
  BY <1>4, SaveIsRegister DEF SaveLLM, SaveEmbedding, SaveDatabase, SavesOf
<1> QED BY <1>1, <1>2, <1>3, <1>4 DEF Next

LEMMA InitRegister == Init => Register!Init
<1> SUFFICES ASSUME Init PROVE Register!Init
  OBVIOUS
<1>1. \A x \in Resources : Config(rows[x]) \in Configs \cup {Absent}
  BY DEF Init, Config
<1> QED BY <1>1 DEF Init, Register!Init

\* Each resource is a register for the callers: the two statements of a save act
\* as one, whatever interleaves with them and wherever the server ends.
THEOREM RegisterKeptHolds == Spec => RegisterKept
<1>1. StoreInv /\ [Next]_vars => [Register!Next]_Register!vars
  BY StepIsRegister
<1> QED BY <1>1, InitRegister, StoreInvariance, PTL DEF Spec, RegisterKept, Register!Spec
=============================================================================
