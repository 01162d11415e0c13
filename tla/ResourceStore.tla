---------------------------- MODULE ResourceStore ---------------------------
(***************************************************************************)
(* The resource service (internal/resource): the tables of LLM, embedding  *)
(* and database resources in the server's SQLite file, their set-up and    *)
(* migration at start, and the requests that set, get and delete           *)
(* resources.  A statement is one step.  The pool has one connection,      *)
(* which a statement gives back at its end, so that statements of          *)
(* different requests interleave; only the set-up holds it longer.         *)
(***************************************************************************)
EXTENDS Integers

CONSTANTS
  Clients,     \* requests under way
  Ids,         \* resource_id
  Configs,     \* configurations that Validate accepts
  Requests,    \* the saves that are asked for
  Absent,      \* no row
  NoRequest,   \* the client waits for no answer
  MaxClock     \* bound on the clock

\* The tables in the order NewResourceRepo prepares them.
Tables == <<"llm", "embedding", "database">>
Kinds == {"llm", "embedding", "database"}
Resources == Kinds \X Ids

ASSUME StoreAssumption ==
  /\ MaxClock \in Nat
  /\ Absent \notin Configs \cup Nat \cup [config : Configs, created : Nat]
  /\ Requests \subseteq [of : Resources, config : Configs]
  /\ NoRequest \notin Requests

VARIABLES
  schema,      \* the tables: missing, without max_concurrency, or complete
  rows,        \* rows of the tables
  clock,       \* the time, in seconds as it is stored
  at, table,   \* where the set-up is, and with which table
  cursor,      \* its rows of PRAGMA table_info hold the connection
  pc,          \* where the requests of the clients are
  request,     \* the resource and configuration to be saved
  now,         \* the local now
  existing,    \* the creation time of the row it found, if any
  overlapped,  \* saves whose resource was written since they read it (history)
  answer       \* the last answer

disk == <<schema, rows>>
setup == <<at, table, cursor>>
calls == <<pc, request, now, existing, overlapped, answer>>
vars == <<disk, clock, setup, calls>>

\* updated_at, the time of the last save, is left out: nothing reads it.
Row == [config : Configs, created : 0..MaxClock]
Ready == at = "ready"

---------------------------------------------------------------------------
(***************************************************************************)
(* NewResourceRepo.                                                        *)
(***************************************************************************)

\* On to the next table; the server serves after the last.
NextTable ==
  IF table = 3 THEN at' = "ready" /\ UNCHANGED table
               ELSE at' = "create" /\ table' = table + 1

\* The tables that ensureColumn is called for: a former version had them without
\* max_concurrency.  (OnlyLLM, and the like below, are mutations used to show
\* that a property can fail.)
OnlyLLM == {"llm"}
Migrated == {"llm", "embedding"}

\* CREATE TABLE IF NOT EXISTS.
CreateTable ==
  /\ at = "create"
  /\ schema' = [schema EXCEPT ![Tables[table]] = IF @ = "none" THEN "complete" ELSE @]
  /\ IF Tables[table] \in Migrated THEN at' = "inspect" /\ UNCHANGED table ELSE NextTable
  /\ UNCHANGED <<rows, clock, cursor, calls>>

\* ensureColumn: PRAGMA table_info, whose rows hold the only connection.
InspectTable ==
  /\ at = "inspect"
  /\ at' = "scan" /\ cursor' = TRUE
  /\ UNCHANGED <<disk, clock, table, calls>>

\* The rows are closed by the return, or by Next when there are no more.
OpenUntilReturn == TRUE
OpenAfterScan == FALSE

ScanColumns ==
  /\ at = "scan"
  /\ IF schema[Tables[table]] = "complete"
       THEN NextTable /\ cursor' = FALSE
       ELSE at' = "alter" /\ cursor' = OpenAfterScan /\ UNCHANGED table
  /\ UNCHANGED <<disk, clock, calls>>

\* ALTER TABLE ADD COLUMN, for which it takes the connection again.
AddColumn ==
  /\ at = "alter" /\ ~cursor
  /\ schema' = [schema EXCEPT ![Tables[table]] = "complete"]
  /\ NextTable
  /\ UNCHANGED <<rows, clock, cursor, calls>>

Setup == CreateTable \/ InspectTable \/ ScanColumns \/ AddColumn

---------------------------------------------------------------------------
(***************************************************************************)
(* Requests.  Those of one kind go through a handler, the service and the  *)
(* repository; no handler passes a CreatedAt.                              *)
(***************************************************************************)

Free(c) == Ready /\ pc[c] = "idle"
At(c, stage) == Ready /\ pc[c] = stage

\* The request ends, with nothing left of its locals.
Answer(c, a) ==
  /\ answer' = [answer EXCEPT ![c] = a]
  /\ pc' = [pc EXCEPT ![c] = "idle"]
  /\ request' = [request EXCEPT ![c] = NoRequest]
  /\ now' = [now EXCEPT ![c] = 0]
  /\ existing' = [existing EXCEPT ![c] = Absent]

\* A set is refused by Validate, or its statements begin: the time is taken.
Set(c, x) ==
  /\ Free(c)
  /\ \/ Answer(c, "invalid_argument")
     \/ \E r \in Requests :
          /\ r.of = x
          /\ request' = [request EXCEPT ![c] = r]
          /\ now' = [now EXCEPT ![c] = clock]
          /\ pc' = [pc EXCEPT ![c] = "read"]
          /\ answer' = [answer EXCEPT ![c] = "none"]
          /\ UNCHANGED existing
  /\ UNCHANGED <<disk, clock, setup, overlapped>>

Created(row) == IF row = Absent THEN Absent ELSE row.created

\* The first statement of a save: is there a row?
ReadExisting(c) ==
  /\ At(c, "read")
  /\ existing' = [existing EXCEPT ![c] = Created(rows[request[c].of])]
  /\ pc' = [pc EXCEPT ![c] = "replace"]
  /\ UNCHANGED <<disk, clock, setup, request, now, overlapped, answer>>

\* createdAt: the creation time of a resource is kept.
AlwaysNow(c) == now[c]
CreatedAt(c) == IF existing[c] = Absent THEN now[c] ELSE existing[c]

\* The saves that have read x, which another request writes.
Reading(x) == {d \in Clients : pc[d] = "replace" /\ request[d].of = x}

\* The second: INSERT OR REPLACE of the whole row, whatever became of the one
\* that was read.
Updated(old, new) == IF old = Absent THEN Absent ELSE new
Replaced(old, new) == new

ReplaceRow(c) ==
  /\ At(c, "replace")
  /\ LET x == request[c].of
     IN /\ rows' = [rows EXCEPT ![x] =
                Replaced(@, [config |-> request[c].config, created |-> CreatedAt(c)])]
        /\ overlapped' = (overlapped \cup Reading(x)) \ {c}
  /\ Answer(c, "ok")
  /\ UNCHANGED <<schema, clock, setup>>

\* A statement of a save fails; the handler reports any error of a set so.
SaveFails(c) ==
  /\ At(c, "read") \/ At(c, "replace")
  /\ Answer(c, "invalid_argument")
  /\ overlapped' = overlapped \ {c}
  /\ UNCHANGED <<disk, clock, setup>>

Save(c) == ReadExisting(c) \/ ReplaceRow(c) \/ SaveFails(c)

Config(row) == IF row = Absent THEN Absent ELSE row.config

\* A get is one statement; without a row the answer is the code not found.
Get(c, x) ==
  /\ Free(c)
  /\ Answer(c, Config(rows[x])) \/ Answer(c, "internal")
  /\ UNCHANGED <<disk, clock, setup, overlapped>>

\* A delete is one statement; the rows affected tell whether there was a row.
Delete(c, x) ==
  /\ Free(c)
  /\ \/ /\ rows' = [rows EXCEPT ![x] = Absent]
        /\ overlapped' = overlapped \cup Reading(x)
        /\ Answer(c, IF rows[x] = Absent THEN "not_found" ELSE "deleted")
     \/ Answer(c, "internal") /\ UNCHANGED <<rows, overlapped>>
  /\ UNCHANGED <<schema, clock, setup>>

\* Service: what it does with a resource.
Operate(c, x) == Set(c, x) \/ Get(c, x) \/ Delete(c, x)

\* The repository's three parts, which differ in the columns only.
SavesOf(c, kind) == pc[c] # "idle" /\ request[c].of[1] = kind /\ Save(c)
SaveLLM(c) == SavesOf(c, "llm")
SaveEmbedding(c) == SavesOf(c, "embedding")
SaveDatabase(c) == SavesOf(c, "database")

LLMRequest(c) == \E i \in Ids : Operate(c, <<"llm", i>>)
EmbeddingRequest(c) == \E i \in Ids : Operate(c, <<"embedding", i>>)
DatabaseRequest(c) == \E i \in Ids : Operate(c, <<"database", i>>)

---------------------------------------------------------------------------
Tick ==
  /\ clock < MaxClock
  /\ clock' = clock + 1
  /\ UNCHANGED <<disk, setup, calls>>

\* The server crashes, or a statement of the set-up fails and ends it.
Crash ==
  /\ at # "down"
  /\ at' = "down" /\ table' = 1 /\ cursor' = FALSE
  /\ pc' = [c \in Clients |-> "idle"]
  /\ request' = [c \in Clients |-> NoRequest]
  /\ now' = [c \in Clients |-> 0]
  /\ existing' = [c \in Clients |-> Absent]
  /\ overlapped' = {}
  /\ UNCHANGED <<disk, clock, answer>>

Restart ==
  /\ at = "down"
  /\ at' = "create"
  /\ UNCHANGED <<disk, clock, table, cursor, calls>>

\* A new file, or one of a version without max_concurrency, with its rows.
Init ==
  /\ clock = 0
  /\ schema \in [Kinds -> {"none", "old", "complete"}]
  /\ schema["database"] # "old"
  /\ rows \in [Resources -> {Absent} \cup [config : Configs, created : {0}]]
  /\ \A x \in Resources : rows[x] # Absent =>
       schema[x[1]] # "none" /\ [of |-> x, config |-> rows[x].config] \in Requests
  /\ at = "down" /\ table = 1 /\ cursor = FALSE
  /\ pc = [c \in Clients |-> "idle"]
  /\ request = [c \in Clients |-> NoRequest]
  /\ now = [c \in Clients |-> 0]
  /\ existing = [c \in Clients |-> Absent]
  /\ overlapped = {}
  /\ answer = [c \in Clients |-> "none"]

Next ==
  \/ Setup \/ Restart \/ Crash \/ Tick
  \/ \E c \in Clients : \/ LLMRequest(c) \/ EmbeddingRequest(c) \/ DatabaseRequest(c)
                        \/ SaveLLM(c) \/ SaveEmbedding(c) \/ SaveDatabase(c)

Spec == Init /\ [][Next]_vars

\* The set-up goes on.
FairSpec == Spec /\ WF_vars(Setup)

---------------------------------------------------------------------------
(***************************************************************************)
(* Properties.                                                             *)
(***************************************************************************)

\* The types of the tables, the set-up and the requests.
TypeOK ==
  /\ schema \in [Kinds -> {"none", "old", "complete"}]
  /\ rows \in [Resources -> Row \cup {Absent}]
  /\ clock \in 0..MaxClock
  /\ at \in {"down", "create", "inspect", "scan", "alter", "ready"}
  /\ table \in 1..3
  /\ cursor \in BOOLEAN
  /\ pc \in [Clients -> {"idle", "read", "replace"}]
  /\ request \in [Clients -> Requests \cup {NoRequest}]
  /\ \A c \in Clients : pc[c] = "idle" <=> request[c] = NoRequest
  /\ now \in [Clients -> 0..MaxClock]
  /\ existing \in [Clients -> 0..MaxClock \cup {Absent}]
  /\ overlapped \subseteq {c \in Clients : pc[c] = "replace"}

\* Tables before the one at hand are complete, and a request is only served when
\* all are: wherever a set-up was cut off, no statement meets a missing column.
TablesPrepared ==
  /\ \A n \in 1..(table - 1) : schema[Tables[n]] = "complete"
  /\ at \in {"inspect", "scan", "alter"} =>
       Tables[table] \in Migrated /\ schema[Tables[table]] # "none"
  /\ schema["database"] # "old"
  /\ Ready => \A k \in Kinds : schema[k] = "complete"
  /\ \A c \in Clients : pc[c] # "idle" => Ready

\* A save that overlapped no other write is about to replace the row it found.
FoundIsThere ==
  \A c \in Clients :
    pc[c] = "replace" /\ c \notin overlapped =>
      existing[c] = Created(rows[request[c].of])

\* The inductive invariant behind the theorems.
StoreInv == TypeOK /\ TablesPrepared /\ FoundIsThere

\* The creation time of a resource that stays changes only by a save that another
\* write of this resource overlapped: it reads the time in one statement and
\* writes it back in another.
CreatedKept ==
  [][\A x \in Resources :
       rows[x] # Absent /\ rows'[x] # Absent /\ rows'[x].created # rows[x].created =>
         \E c \in overlapped : request[c].of = x /\ pc'[c] = "idle"]_vars

\* Whatever interleaves, the two statements of a save are one for the callers:
\* each resource is a register, through crashes and the migration.
Register == INSTANCE ResourceRegister WITH
  store <- [x \in Resources |-> Config(rows[x])]

RegisterKept == Register!Spec

\* The set-up ends, unless the server does: it never waits for the connection
\* that its own rows hold.
SetupEnds == at = "create" ~> at \in {"ready", "down"}
=============================================================================
