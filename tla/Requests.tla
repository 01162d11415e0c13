------------------------------ MODULE Requests ------------------------------
(***************************************************************************)
(* From a start request to the rows of its job: what the services accept,  *)
(* what they make of it, what the LLM is asked and what of its answer is   *)
(* kept (enrichextract/validator.go, prompt.go; alignment/service.go).     *)
(* The rows come from the scan of KeyScan.                                 *)
(*                                                                         *)
(* A name arrives as a spelling: the name, and whether white space         *)
(* surrounds it.  The services trim most names, but not everywhere.        *)
(*                                                                         *)
(* UntrimmedHints and NotChecked are mutations used to show that a         *)
(* property can fail.                                                      *)
(***************************************************************************)
EXTENDS KeyScan, Sequences

CONSTANTS
  EnrichRequests, AlignRequests,
  Blank,                     \* the name of the empty string and of white space
  Idents,                    \* names identPattern accepts
  NoExample,                 \* target_example is not sent
  Sources,                   \* what a source row may hold, from names to values
  Answers,                   \* what the LLM may answer, from names to values
  NoObject,                  \* JSON that is not an object, or no JSON
  Null,
  Failed,                    \* what becomes of a row that fails
  Floats,                    \* integers a float64 can be
  LabelledSets,              \* target sets that have labels
  MaxConcurrency, RowsPerCaller, MinPageSize, MaxPageSize, OutputPageSize

\* A "word" and a "numeral" are strings, "other" is a list, an object or a
\* fraction, with a number in it.
JSONValues == [is : {"number", "numeral", "word", "other"}, of : Int]

ASSUME RequestAssumption ==
  /\ Blank \notin Idents
  /\ Floats \subseteq Int /\ {MinKey, MaxKey + 1} \subseteq Floats
  /\ {MaxPageSize, OutputPageSize} \subseteq PageSizes
  /\ \A r \in EnrichRequests \cup AlignRequests : {r.start, r.end} \subseteq Bounds
  /\ \A r \in EnrichRequests : r.example # NoExample =>
       \A s \in DOMAIN r.example : s \in [name : {s.name}, padded : BOOLEAN]
  /\ \A f \in Sources \cup Answers : f # NoObject =>
       \A n \in DOMAIN f : f[n] \in JSONValues \cup {Null}
  /\ Null \notin JSONValues

VARIABLES
  answer,  \* "none", "started", "invalid_argument" or "not_found"
  job,     \* the row of the job
  todo,    \* rows of the page that wait for the LLM
  prompt,  \* the last prompt
  reply,   \* the last answer of the LLM
  row      \* what was made of it: a row of the output table, or Failed

requestVars == <<answer, job, todo, prompt, reply, row>>
vars == <<scanVars, requestVars>>

NoJob == [kind |-> "none"]
NoPrompt == [columns |-> <<>>]

---------------------------------------------------------------------------
Trim(spelling) == spelling.name
Exactly(name) == [name |-> name, padded |-> FALSE]
RangeOK(r) == r.start = None \/ r.end = None \/ r.start <= r.end

(* NormalizeOutputSchema. The columns are sorted by name, so their order in *)
(* the request does not matter.                                             *)
ColumnNames(r) == {Trim(r.schema[i].name) : i \in DOMAIN r.schema}
ColumnTypes(r) ==
  [n \in ColumnNames(r) |->
     r.schema[CHOOSE i \in DOMAIN r.schema : Trim(r.schema[i].name) = n].type]

SchemaOK(r) ==
  /\ r.schema # <<>>
  /\ \A i \in DOMAIN r.schema :
       /\ Trim(r.schema[i].name) \in Idents \ {Trim(r.key)}
       /\ r.schema[i].type \in {"text", "bigint"}
  /\ Cardinality(ColumnNames(r)) = Len(r.schema)

\* validateTargetExampleFields compares the two sorted lists of names.
ExampleOK(r) ==
  /\ r.example # NoExample
  /\ {Trim(s) : s \in DOMAIN r.example} = ColumnNames(r)
  /\ Cardinality(DOMAIN r.example) = Cardinality(ColumnNames(r))

HintsOK(r) ==
  \A s \in DOMAIN r.hints : Trim(s) \in ColumnNames(r) /\ r.hints[s] # Blank

UntrimmedHints(r) ==
  {[n \in {Trim(s) : s \in {t \in DOMAIN r.hints : ~t.padded}} |-> r.hints[Exactly(n)]]}

\* Two spellings of one field: the one the map iteration meets last wins.
NormalizedHints(r) ==
  {h \in [{Trim(s) : s \in DOMAIN r.hints} -> {r.hints[s] : s \in DOMAIN r.hints}] :
     \A n \in DOMAIN h : \E s \in DOMAIN r.hints : Trim(s) = n /\ r.hints[s] = h[n]}

Clamp(v, low, high) == IF v < low THEN low ELSE IF v > high THEN high ELSE v
Concurrency(r) == IF r.concurrency = None THEN 1 ELSE r.concurrency
PageSizeOf(r) ==
  IF r.page # None THEN r.page
  ELSE Clamp(Concurrency(r) * RowsPerCaller, MinPageSize, MaxPageSize)

NormalizeOK(r) ==
  /\ r.complete  \* the other names are there, the other numbers in range
  /\ Trim(r.key) # Blank
  /\ RangeOK(r) /\ SchemaOK(r) /\ ExampleOK(r) /\ HintsOK(r)
  /\ Concurrency(r) \in 1..MaxConcurrency
  /\ PageSizeOf(r) \in 1..MaxPageSize

EnrichJob(r, hints) ==
  [kind |-> "enrich", key |-> Trim(r.key), columns |-> ColumnTypes(r),
   example |-> r.example, hints |-> hints, start |-> r.start, end |-> r.end,
   page |-> PageSizeOf(r), of |-> r]

\* validateStartRequest compares trimmed names, and stores them as they came.
ValidateOK(r) ==
  /\ r.complete
  /\ Trim(r.key) # Blank
  /\ r.fields # <<>>
  /\ RangeOK(r)
  /\ \A i \in DOMAIN r.fields : Trim(r.fields[i].name) \notin {Blank, Trim(r.key)}

AlignJob(r) ==
  [kind |-> "align", key |-> r.key, fields |-> r.fields,
   start |-> r.start, end |-> r.end]

Answered(a) == answer' = a /\ UNCHANGED job
Created(j) == answer' = "started" /\ job' = j

\* Start: the resources are looked up after the request was found valid.
Start ==
  /\ answer = "none"
  /\ \/ \E r \in EnrichRequests :
          IF NormalizeOK(r)
          THEN Answered("not_found") \/ \E h \in NormalizedHints(r) : Created(EnrichJob(r, h))
          ELSE Answered("invalid_argument")
     \/ \E r \in AlignRequests :
          IF ValidateOK(r) THEN Answered("not_found") \/ Created(AlignJob(r))
          ELSE Answered("invalid_argument")
  /\ UNCHANGED <<scanVars, todo, prompt, reply, row>>

---------------------------------------------------------------------------
(* What is decoded of JSON.                                                *)

Choices(names, Of(_)) ==
  {g \in [names -> UNION {Of(n) : n \in names}] : \A n \in names : g[n] \in Of(n)}

\* json.Unmarshal makes a float64 of every number: the nearest one (of two
\* it may be either here).  Beyond the largest it fails, unless it rounds back.
Distance(n, m) == IF n < m THEN m - n ELSE n - m
Nearest(n) == {m \in Floats : \A k \in Floats : Distance(n, m) <= Distance(n, k)}
TooLarge(n) == (\A m \in Floats : m < n) \/ (\A m \in Floats : n < m)
HasNumber(v) == v # Null /\ v.is \in {"number", "other"}
Decoded(v) == IF HasNumber(v) THEN {[is |-> v.is, of |-> m] : m \in Nearest(v.of)} ELSE {v}

Unmarshal ==
  [f \in Sources \cup Answers |->
     IF f = NoObject THEN {}
     ELSE LET Values(n) == Decoded(f[n]) IN Choices(DOMAIN f, Values)]
CannotParse(f) ==
  f # NoObject => \E n \in DOMAIN f : HasNumber(f[n]) /\ TooLarge(f[n].of)

---------------------------------------------------------------------------
(* An enrichextract job.                                                   *)

RunEnrich ==
  /\ job.kind = "enrich"
  /\ Begin("cursor", job.start, job.end, job.page)
  /\ UNCHANGED requestVars

ReadPage ==
  /\ todo = {}
  /\ SelectSourcePage
  /\ todo' = {k \in Keys : taken'[k] # taken[k]}
  /\ UNCHANGED <<answer, job, prompt, reply, row>>

StripKey(f, key) == [n \in DOMAIN f \ {key} |-> f[n]]

\* BuildSystemPrompt looks the example up by the trimmed name.
BuildMessages(j, source) ==
  [columns |-> j.columns,
   example |-> [n \in DOMAIN j.columns |->
                  IF Exactly(n) \in DOMAIN j.example THEN j.example[Exactly(n)] ELSE Null],
   hints   |-> j.hints,
   source  |-> StripKey(source, j.key)]

\* A field the answer lacks is null, one that is not a column is dropped.
AlignOutputFields(f, columns) ==
  [n \in DOMAIN columns |-> IF n \in DOMAIN f THEN f[n] ELSE Null]

\* float64(math.MaxInt64) is MaxKey + 1, so that number passes; what its
\* conversion to int64 gives depends on the processor.
BigInt(n) == [is |-> "bigint", of |-> n]
NotChecked(f) == {BigInt(Wrap(f))}
Converted(f) ==
  IF f < MinKey \/ f > MaxKey + 1 THEN {Failed}
  ELSE IF f = MaxKey + 1 THEN {BigInt(MinKey), BigInt(MaxKey)} ELSE {BigInt(f)}

BigInts(v) ==
  IF v = Null THEN {Null}
  ELSE CASE v.is = "number"  -> Converted(v.of)
         [] v.is = "numeral" -> {IF v.of \in Keys THEN BigInt(v.of) ELSE Failed}
         [] OTHER -> {Failed}

\* Strings are kept, everything else becomes its JSON; that of a float64 is
\* the shortest numeral that decodes to it.
JSON(v) == [is |-> "json", of |-> v.of]
Texts(v) ==
  IF v = Null THEN {Null}
  ELSE IF v.is \in {"word", "numeral"} THEN {v} ELSE {JSON(v)}

Outcomes(type, v) == IF type = "text" THEN Texts(v) ELSE BigInts(v)

\* One value that does not fit fails the attempt.
NormalizeOutputValues(f, columns) ==
  LET Values(n) == Outcomes(columns[n], f[n]) IN
  {IF \E n \in DOMAIN r : r[n] = Failed THEN Failed ELSE r :
     r \in Choices(DOMAIN columns, Values)}

RowsFrom(j, f) ==
  (IF CannotParse(f) THEN {Failed} ELSE {}) \cup
  UNION {NormalizeOutputValues(AlignOutputFields(StripKey(g, j.key), j.columns), j.columns) :
           g \in Unmarshal[f]}

\* processOneRow, with its last attempt.
ProcessOneRow(k) ==
  /\ k \in todo /\ todo' = todo \ {k}
  /\ \E source \in Sources :
       \/ CannotParse(source) /\ row' = Failed /\ reply' = NoObject /\ UNCHANGED prompt
       \/ /\ \E s \in Unmarshal[source] : prompt' = BuildMessages(job, s)
          /\ \E f \in Answers : reply' = f /\ row' \in RowsFrom(job, f)
  /\ UNCHANGED <<scanVars, answer, job>>

---------------------------------------------------------------------------
(* An alignment job.                                                       *)

Field(i) == job.fields[i].name
TargetSetID(i) == IF job.fields[i].set = Exactly(Blank) THEN Field(i) ELSE job.fields[i].set

\* Execute compares and loads by the names as they came.
FieldsPrepared ==
  /\ \A i, j \in DOMAIN job.fields : i # j => Field(i) # Field(j)
  /\ \A i \in DOMAIN job.fields :
       ~TargetSetID(i).padded /\ Trim(TargetSetID(i)) \in LabelledSets
KeyFound == ~job.key.padded

\* LoadTargetLabels and EnsureExecutionReady, and with them what comes before
\* the output: the mappings of all fields, by calls of the LLM.
RunAlign ==
  /\ job.kind = "align"
  /\ IF FieldsPrepared /\ KeyFound
     THEN Begin("pages", job.start, job.end, OutputPageSize)
     ELSE scan = "none" /\ Fail("pages")
  /\ UNCHANGED requestVars

ReadKeyRange == SelectKeyRange /\ UNCHANGED requestVars

\* Two fields of one trimmed name join the mapping table under one alias,
\* which Postgres refuses.
AliasTwice == \E i, j \in DOMAIN job.fields : i # j /\ Trim(Field(i)) = Trim(Field(j))

WriteOutputRows ==
  /\ job.kind = "align"
  /\ IF AliasTwice
     THEN stop # None /\ Fail("pages")
     ELSE WritePage
  /\ UNCHANGED requestVars

---------------------------------------------------------------------------
Init ==
  /\ ScanInit
  /\ answer = "none" /\ job = NoJob
  /\ todo = {} /\ prompt = NoPrompt /\ reply = NoObject /\ row = Failed

Work ==
  \/ RunEnrich \/ ReadPage \/ \E k \in Keys : ProcessOneRow(k)
  \/ ReadKeyRange \/ WriteOutputRows

EditRows == Edit /\ UNCHANGED requestVars

Next == Start \/ RunAlign \/ Work \/ EditRows

\* The goroutine of a job goes on, but for RunAlign: a call of the LLM has no
\* deadline there.
Spec == Init /\ [][Next]_vars
FairSpec == Spec /\ WF_vars(Work)

---------------------------------------------------------------------------
\* The LLM is asked for exactly the columns that were asked for, with the
\* example the request gives for a column (null when it is spelled with
\* white space, validator.go:218 and prompt.go:36) and a hint it gives for
\* it, none lost; the value of the key is never in the prompt.
PromptKeepsRequest ==
  prompt # NoPrompt =>
    LET r == job.of IN
    /\ DOMAIN prompt.columns = ColumnNames(r)
    /\ \A n \in ColumnNames(r) :
         \E s \in DOMAIN r.example :
           /\ Trim(s) = n
           /\ prompt.example[n] = IF s.padded THEN Null ELSE r.example[s]
    /\ {Trim(s) : s \in DOMAIN r.hints} = DOMAIN prompt.hints
    /\ \A n \in DOMAIN prompt.hints :
         \E s \in DOMAIN r.hints : Trim(s) = n /\ r.hints[s] = prompt.hints[n]
    /\ Trim(r.key) \notin DOMAIN prompt.source

\* A row has the columns of the job, each with what the LLM answered for it.
\* A numeral is kept to the last digit in either type of column; a number is
\* the float64 it was decoded to in both, so that beyond 2^53 it may be
\* another than was answered, and 2^63 may become either end of int64.
Given(n) == IF n \in DOMAIN reply THEN reply[n] ELSE Null

RowFitsSchema ==
  row # Failed =>
    /\ DOMAIN row = ColumnNames(job.of)
    /\ \A n \in DOMAIN row :
         LET v == Given(n) IN
         IF v = Null THEN row[n] = Null
         ELSE IF job.columns[n] = "bigint"
         THEN /\ \E m \in Keys : row[n] = BigInt(m)
              /\ v.is = "numeral" => row[n] = BigInt(v.of)
              /\ v.is = "number" /\ MaxKey + 1 \notin Nearest(v.of)
                   => row[n].of \in Nearest(v.of)
         ELSE IF HasNumber(v) THEN \E m \in Nearest(v.of) : row[n] = JSON([is |-> v.is, of |-> m])
         ELSE row[n] = v
=============================================================================
