--------------------------- MODULE RequestsProofs ---------------------------
(***************************************************************************)
(* What the services accept is walked over like KeyScan says, and what     *)
(* reaches the LLM and the output table is what the request asked for,     *)
(* for every set of requests, source rows and answers.                     *)
(***************************************************************************)
EXTENDS Requests, KeyScanProofs

\* A job holds what was made of a request that passed the validation.
JobInv ==
  /\ job # NoJob => job.kind \in {"enrich", "align"}
  /\ job.kind = "enrich" =>
       \E r \in EnrichRequests : NormalizeOK(r) /\ \E h \in NormalizedHints(r) : job = EnrichJob(r, h)
  /\ job.kind = "align" => \E r \in AlignRequests : ValidateOK(r) /\ job = AlignJob(r)

\* Only a job has prompts and rows.
StartedInv ==
  /\ answer = "none" => job = NoJob /\ todo = {} /\ prompt = NoPrompt /\ row = Failed
  /\ todo # {} \/ prompt # NoPrompt \/ row # Failed => job.kind = "enrich"
  /\ scan = "cursor" => job.kind = "enrich"

PromptInv ==
  prompt # NoPrompt =>
    \E f \in Sources : \E source \in Unmarshal[f] : prompt = BuildMessages(job, source)

RowInv == row # Failed => reply \in Answers /\ row \in RowsFrom(job, reply)

RequestInv == JobInv /\ StartedInv /\ PromptInv /\ RowInv

---------------------------------------------------------------------------
\* Every step of a job is a step of the scan or leaves it alone.
LEMMA RangeOfJob ==
  ASSUME JobInv, job # NoJob
  PROVE  /\ job.start \in Bounds /\ job.end \in Bounds
         /\ job.kind = "enrich" => job.page \in PageSizes
<1>1. CASE job.kind = "enrich"
  <2>1. PICK r \in EnrichRequests : NormalizeOK(r) /\ \E h \in NormalizedHints(r) : job = EnrichJob(r, h)
    BY <1>1 DEF JobInv
  <2>2. job.start = r.start /\ job.end = r.end /\ job.page = PageSizeOf(r)
    BY <2>1 DEF EnrichJob
  <2>3. PageSizeOf(r) \in 1..MaxPageSize
    BY <2>1 DEF NormalizeOK
  <2> QED
    BY <2>2, <2>3, RequestAssumption, KeyAssumption DEF PageSizes
<1>2. CASE job.kind = "align"
  <2>1. PICK r \in AlignRequests : ValidateOK(r) /\ job = AlignJob(r)
    BY <1>2 DEF JobInv
  <2>2. job.start = r.start /\ job.end = r.end
    BY <2>1 DEF AlignJob
  <2> QED
    BY <1>2, <2>2, RequestAssumption
<1> QED
  BY <1>1, <1>2 DEF JobInv

LEMMA StepOfScan == JobInv /\ [Next]_vars => [ScanNext]_scanVars
<1> SUFFICES ASSUME JobInv, [Next]_vars PROVE [ScanNext]_scanVars
  OBVIOUS
<1>1. CASE UNCHANGED vars
  BY <1>1 DEF vars
<1>2. CASE Start
  BY <1>2 DEF Start
<1>3. CASE RunEnrich
  <2>1. job # NoJob
    BY <1>3 DEF RunEnrich, NoJob
  <2> QED
    BY <1>3, <2>1, RangeOfJob DEF RunEnrich, ScanNext
<1>4. CASE ReadPage
  BY <1>4 DEF ReadPage, ScanNext, Walk
<1>5. ASSUME NEW k \in Keys, ProcessOneRow(k)
      PROVE  [ScanNext]_scanVars
  BY <1>5 DEF ProcessOneRow
<1>6. CASE RunAlign
  <2>1. job # NoJob
    BY <1>6 DEF RunAlign, NoJob
  <2>2. OutputPageSize \in PageSizes
    BY RequestAssumption
  <2> QED
    BY <1>6, <2>1, <2>2, RangeOfJob DEF RunAlign, ScanNext
<1>7. CASE ReadKeyRange
  BY <1>7 DEF ReadKeyRange, ScanNext, Walk
<1>8. CASE WriteOutputRows
  BY <1>8 DEF WriteOutputRows, ScanNext, Walk
<1>9. CASE EditRows
  BY <1>9 DEF EditRows, ScanNext
<1> QED
  BY <1>1, <1>2, <1>3, <1>4, <1>5, <1>6, <1>7, <1>8, <1>9 DEF Next, Work

---------------------------------------------------------------------------
LEMMA InitRequestInv == Init => RequestInv
BY DEF Init, ScanInit, RequestInv, JobInv, StartedInv, PromptInv, RowInv, NoJob

LEMMA StartInv == ASSUME RequestInv, Start PROVE RequestInv'
<1> USE DEF RequestInv
<1>1. answer = "none" /\ UNCHANGED <<scanVars, todo, prompt, reply, row>>
  BY DEF Start
<1>2. job = NoJob /\ todo = {} /\ prompt = NoPrompt /\ row = Failed
  BY <1>1 DEF StartedInv
<1>3. scan # "cursor"
  BY <1>2 DEF StartedInv, NoJob
<1>4. PromptInv' /\ RowInv'
  BY <1>1, <1>2 DEF PromptInv, RowInv
<1>5. CASE job' = NoJob /\ answer' # "none"
  BY <1>1, <1>2, <1>3, <1>4, <1>5 DEF JobInv, StartedInv, NoJob, scanVars
<1>6. ASSUME NEW r \in EnrichRequests, NormalizeOK(r), NEW h \in NormalizedHints(r),
             Created(EnrichJob(r, h))
      PROVE  RequestInv'
  <2>1. job'.kind = "enrich" /\ job' = EnrichJob(r, h) /\ answer' = "started"
    BY <1>6 DEF Created, EnrichJob
  <2> QED
    BY <1>1, <1>2, <1>3, <1>4, <1>6, <2>1 DEF JobInv, StartedInv, scanVars
<1>7. ASSUME NEW r \in AlignRequests, ValidateOK(r), Created(AlignJob(r))
      PROVE  RequestInv'
  <2>1. job'.kind = "align" /\ job' = AlignJob(r) /\ answer' = "started"
    BY <1>7 DEF Created, AlignJob
  <2> QED
    BY <1>1, <1>2, <1>3, <1>4, <1>7, <2>1 DEF JobInv, StartedInv, scanVars
<1> QED
  BY <1>2, <1>5, <1>6, <1>7 DEF Start, Answered

\* The steps that change no prompt and no row.
LEMMA ScanStepInv ==
  ASSUME RequestInv, UNCHANGED <<answer, job, prompt, reply, row>>,
         todo' # {} => todo # {} \/ scan = "cursor", answer = "none" => todo' = {},
         scan' = "cursor" => scan = "cursor" \/ job.kind = "enrich"
  PROVE  RequestInv'
<1> USE DEF RequestInv
<1>1. JobInv'
  BY DEF JobInv
<1>2. StartedInv'
  BY DEF StartedInv
<1>3. PromptInv' /\ RowInv'
  BY DEF PromptInv, RowInv
<1> QED
  BY <1>1, <1>2, <1>3

LEMMA ProcessOneRowInv ==
  ASSUME RequestInv, NEW k \in Keys, ProcessOneRow(k)
  PROVE  RequestInv'
<1> USE DEF RequestInv
<1>1. k \in todo /\ todo' \subseteq todo /\ UNCHANGED <<scanVars, answer, job>>
  BY DEF ProcessOneRow
<1>2. job.kind = "enrich" /\ answer # "none"
  BY <1>1 DEF StartedInv
<1>3. JobInv' /\ StartedInv'
  BY <1>1, <1>2 DEF JobInv, StartedInv, scanVars
<1>4. PICK source \in Sources :
        \/ row' = Failed /\ UNCHANGED prompt
        \/ /\ \E s \in Unmarshal[source] : prompt' = BuildMessages(job, s)
           /\ \E f \in Answers : reply' = f /\ row' \in RowsFrom(job, f)
  BY DEF ProcessOneRow
<1>5. PromptInv'
  BY <1>1, <1>4 DEF PromptInv
<1>6. RowInv'
  BY <1>1, <1>4 DEF RowInv
<1> QED
  BY <1>3, <1>5, <1>6

LEMMA NextRequestInv == RequestInv /\ [Next]_vars => RequestInv'
<1> SUFFICES ASSUME RequestInv, [Next]_vars PROVE RequestInv'
  OBVIOUS
<1>1. CASE UNCHANGED vars
  <2>1. UNCHANGED <<answer, job, todo, prompt, reply, row, scan>>
    BY <1>1 DEF vars, requestVars, scanVars
  <2> QED
    BY <2>1, ScanStepInv DEF RequestInv, StartedInv
<1>2. CASE Start
  BY <1>2, StartInv
<1>3. CASE RunEnrich
  <2>1. UNCHANGED <<answer, job, todo, prompt, reply, row>> /\ job.kind = "enrich"
    BY <1>3 DEF RunEnrich, requestVars
  <2> QED
    BY <2>1, ScanStepInv DEF RequestInv, StartedInv
<1>4. CASE ReadPage
  <2>1. UNCHANGED <<answer, job, prompt, reply, row>> /\ scan = "cursor" /\ scan' = scan
    BY <1>4 DEF ReadPage, SelectSourcePage, jobVars
  <2>2. answer # "none"
    BY <2>1 DEF RequestInv, StartedInv, NoJob
  <2> QED
    BY <2>1, <2>2, ScanStepInv
<1>5. ASSUME NEW k \in Keys, ProcessOneRow(k)
      PROVE  RequestInv'
  BY <1>5, ProcessOneRowInv
<1>6. CASE RunAlign \/ ReadKeyRange \/ WriteOutputRows \/ EditRows
  <2>1. UNCHANGED <<answer, job, todo, prompt, reply, row>>
    BY <1>6 DEF RunAlign, ReadKeyRange, WriteOutputRows, EditRows, requestVars
  <2>2. scan' = "cursor" => scan = "cursor"
    BY <1>6 DEF RunAlign, ReadKeyRange, WriteOutputRows, EditRows, Begin, Fail,
                SelectKeyRange, WritePage, Edit, jobVars
  <2> QED
    BY <2>1, <2>2, ScanStepInv DEF RequestInv, StartedInv
<1> QED
  BY <1>1, <1>2, <1>3, <1>4, <1>5, <1>6 DEF Next, Work

---------------------------------------------------------------------------
\* The composition: a job walks over its table like KeyScan says.
THEOREM RequestsImplementScan == Spec => ScanSpec
<1>1. Init => ScanInit
  BY DEF Init
<1>2. RequestInv /\ [Next]_vars => [ScanNext]_scanVars
  BY StepOfScan DEF RequestInv
<1> QED
  BY <1>1, <1>2, InitRequestInv, NextRequestInv, PTL DEF Spec, ScanSpec

\* So an accepted job takes every key of its range once.
THEOREM RequestedRangeTaken == Spec => []RangeTaken
BY RequestsImplementScan, RangeTakenHolds, PTL

\* And its walk over them never comes back to a key.
THEOREM RequestedScanAdvances == Spec => ScanAdvances
BY RequestsImplementScan, ScanAdvancesHolds, PTL

---------------------------------------------------------------------------
LEMMA RequestInvariance == Spec => []RequestInv
BY InitRequestInv, NextRequestInv, PTL DEF Spec

\* The hints kept are those of the trimmed names.
LEMMA HintsKept ==
  ASSUME NEW r, NEW h \in NormalizedHints(r)
  PROVE  /\ DOMAIN h = {Trim(s) : s \in DOMAIN r.hints}
         /\ \A n \in DOMAIN h : \E s \in DOMAIN r.hints : Trim(s) = n /\ r.hints[s] = h[n]
BY DEF NormalizedHints

LEMMA PromptOfRequest == RequestInv => PromptKeepsRequest
<1> SUFFICES ASSUME RequestInv, prompt # NoPrompt PROVE PromptKeepsRequest
  BY DEF PromptKeepsRequest
<1> USE DEF RequestInv
<1>1. job.kind = "enrich"
  BY DEF StartedInv
<1>2. PICK r \in EnrichRequests : NormalizeOK(r) /\ \E h \in NormalizedHints(r) : job = EnrichJob(r, h)
  BY <1>1 DEF JobInv
<1>3. PICK h \in NormalizedHints(r) : job = EnrichJob(r, h)
  BY <1>2
<1>4. /\ job.of = r /\ job.key = Trim(r.key) /\ job.columns = ColumnTypes(r)
      /\ job.example = r.example /\ job.hints = h
  BY <1>3 DEF EnrichJob
<1>5. PICK source : prompt = BuildMessages(job, source)
  BY DEF PromptInv
<1>6. /\ prompt.columns = ColumnTypes(r) /\ prompt.hints = h
      /\ prompt.source = StripKey(source, Trim(r.key))
      /\ prompt.example = [n \in ColumnNames(r) |->
           IF Exactly(n) \in DOMAIN r.example THEN r.example[Exactly(n)] ELSE Null]
  BY <1>4, <1>5 DEF BuildMessages, ColumnTypes
<1>7. DOMAIN prompt.columns = ColumnNames(r)
  BY <1>6 DEF ColumnTypes
<1>8. ASSUME NEW n \in ColumnNames(r)
      PROVE  \E s \in DOMAIN r.example :
               /\ Trim(s) = n
               /\ prompt.example[n] = IF s.padded THEN Null ELSE r.example[s]
  <2>1. PICK s \in DOMAIN r.example : Trim(s) = n
    BY <1>2 DEF NormalizeOK, ExampleOK
  <2>2. CASE Exactly(n) \in DOMAIN r.example
    <3>1. Trim(Exactly(n)) = n /\ ~Exactly(n).padded
      BY DEF Exactly, Trim
    <3> QED
      BY <1>6, <2>2, <3>1
  <2>3. CASE Exactly(n) \notin DOMAIN r.example
    <3>1. s \in [name : {s.name}, padded : BOOLEAN]
      BY <1>2, RequestAssumption DEF NormalizeOK, ExampleOK
    <3>2. ~s.padded => s = Exactly(n)
      BY <2>1, <3>1 DEF Exactly, Trim
    <3>3. prompt.example[n] = Null
      BY <1>6, <2>3
    <3> QED
      BY <2>1, <2>3, <3>1, <3>2, <3>3
  <2> QED
    BY <2>2, <2>3
<1>9. Trim(r.key) \notin DOMAIN prompt.source
  BY <1>6 DEF StripKey
<1>10. /\ {Trim(s) : s \in DOMAIN r.hints} = DOMAIN prompt.hints
       /\ \A n \in DOMAIN prompt.hints :
            \E s \in DOMAIN r.hints : Trim(s) = n /\ r.hints[s] = prompt.hints[n]
  BY <1>6, HintsKept
<1> QED
  BY <1>4, <1>7, <1>8, <1>9, <1>10 DEF PromptKeepsRequest

---------------------------------------------------------------------------
\* A decoded answer has the fields of the answer.
LEMMA DecodedFields ==
  ASSUME NEW f \in Answers, NEW g \in Unmarshal[f]
  PROVE  f # NoObject /\ DOMAIN g = DOMAIN f /\ \A n \in DOMAIN f : g[n] \in Decoded(f[n])
BY DEF Unmarshal, Choices

\* What a number is decoded to is a number of the same kind.
LEMMA DecodedNumber ==
  ASSUME NEW v \in JSONValues, HasNumber(v), NEW d \in Decoded(v)
  PROVE  d \in JSONValues /\ d # Null /\ d.is = v.is /\ d.of \in Nearest(v.of)
<1>1. PICK m \in Nearest(v.of) : d = [is |-> v.is, of |-> m]
  BY DEF Decoded
<1>2. m \in Int
  BY RequestAssumption DEF Nearest
<1>3. d \in JSONValues
  BY <1>1, <1>2 DEF JSONValues
<1> QED
  BY <1>1, <1>3, RequestAssumption

\* What a bigint column holds, when its value did not fail the attempt.
LEMMA BigIntsFit ==
  ASSUME NEW v \in JSONValues, NEW d \in Decoded(v), NEW x \in BigInts(d), x # Failed
  PROVE  /\ \E m \in Keys : x = BigInt(m)
         /\ v.is = "numeral" => x = BigInt(v.of)
         /\ v.is = "number" /\ MaxKey + 1 \notin Nearest(v.of) => x.of \in Nearest(v.of)
<1>1. v # Null
  BY RequestAssumption
<1>2. CASE v.is = "number"
  <2>1. d.is = "number" /\ d # Null /\ d.of \in Nearest(v.of) /\ d.of \in Int
    BY <1>1, <1>2, DecodedNumber DEF HasNumber, JSONValues
  <2>2. x \in Converted(d.of)
    BY <2>1 DEF BigInts
  <2>3. d.of >= MinKey /\ d.of <= MaxKey + 1
    BY <2>1, <2>2, KeyAssumption DEF Converted
  <2>4. CASE d.of = MaxKey + 1
    <3>1. x \in {BigInt(MinKey), BigInt(MaxKey)}
      BY <2>2, <2>3, <2>4, KeyAssumption DEF Converted
    <3> QED
      BY <1>2, <2>1, <2>4, <3>1, KeyAssumption DEF Keys
  <2>5. CASE d.of # MaxKey + 1
    <3>1. x = BigInt(d.of) /\ d.of \in Keys
      BY <2>1, <2>2, <2>3, <2>5, KeyAssumption DEF Converted, Keys
    <3> QED
      BY <1>2, <2>1, <3>1 DEF BigInt
  <2> QED
    BY <2>4, <2>5
<1>3. CASE v.is = "numeral"
  <2>1. d = v
    BY <1>3 DEF Decoded, HasNumber
  <2> QED
    BY <1>1, <1>3, <2>1 DEF BigInts
<1>4. CASE v.is \notin {"number", "numeral"}
  <2>1. d # Null /\ d.is = v.is
    BY <1>1, <1>4, DecodedNumber DEF Decoded, HasNumber
  <2> QED
    BY <1>4, <2>1 DEF BigInts
<1> QED
  BY <1>2, <1>3, <1>4

\* And a text column: strings as they came, the JSON of what else was decoded.
LEMMA TextsFit ==
  ASSUME NEW v \in JSONValues, NEW d \in Decoded(v), NEW x \in Texts(d)
  PROVE  IF HasNumber(v) THEN \E m \in Nearest(v.of) : x = JSON([is |-> v.is, of |-> m])
         ELSE x = v
<1>1. v # Null
  BY RequestAssumption
<1>2. CASE HasNumber(v)
  <2>1. PICK m \in Nearest(v.of) : d = [is |-> v.is, of |-> m]
    BY <1>2 DEF Decoded
  <2>2. d # Null /\ d.is = v.is
    BY <1>2, DecodedNumber
  <2>3. x = JSON(d)
    BY <1>2, <2>2 DEF Texts, HasNumber
  <2> QED
    BY <1>2, <2>1, <2>3
<1>3. CASE ~HasNumber(v)
  <2>1. d = v /\ v.is \in {"word", "numeral"}
    BY <1>1, <1>3 DEF Decoded, HasNumber, JSONValues
  <2> QED
    BY <1>1, <1>3, <2>1 DEF Texts
<1> QED
  BY <1>2, <1>3

LEMMA RowOfRequest == RequestInv => RowFitsSchema
<1> SUFFICES ASSUME RequestInv, row # Failed PROVE RowFitsSchema
  BY DEF RowFitsSchema
<1> USE DEF RequestInv
<1>1. job.kind = "enrich"
  BY DEF StartedInv
<1>2. PICK r \in EnrichRequests : NormalizeOK(r) /\ \E h \in NormalizedHints(r) : job = EnrichJob(r, h)
  BY <1>1 DEF JobInv
<1>3. job.of = r /\ job.key = Trim(r.key) /\ job.columns = ColumnTypes(r)
  BY <1>2 DEF EnrichJob
<1>4. DOMAIN job.columns = ColumnNames(r)
  BY <1>3 DEF ColumnTypes
<1>5. Trim(r.key) \notin ColumnNames(r)
  BY <1>2 DEF NormalizeOK, SchemaOK, ColumnNames
<1>6. reply \in Answers /\ row \in RowsFrom(job, reply)
  BY DEF RowInv
<1>7. PICK g \in Unmarshal[reply] :
         row \in NormalizeOutputValues(AlignOutputFields(StripKey(g, job.key), job.columns), job.columns)
  BY <1>6 DEF RowsFrom
<1>8. reply # NoObject /\ DOMAIN g = DOMAIN reply /\ \A n \in DOMAIN reply : g[n] \in Decoded(reply[n])
  BY <1>6, DecodedFields
<1> DEFINE f == AlignOutputFields(StripKey(g, job.key), job.columns)
<1>9. /\ DOMAIN row = ColumnNames(r)
      /\ \A n \in ColumnNames(r) : row[n] # Failed /\ row[n] \in Outcomes(job.columns[n], f[n])
  BY <1>4, <1>7 DEF NormalizeOutputValues, Choices
<1>10. ASSUME NEW n \in ColumnNames(r)
      PROVE  IF Given(n) = Null THEN f[n] = Null
             ELSE f[n] \in Decoded(Given(n)) /\ Given(n) \in JSONValues
  <2>1. f[n] = IF n \in DOMAIN reply THEN g[n] ELSE Null
    BY <1>3, <1>4, <1>5, <1>8 DEF AlignOutputFields, StripKey
  <2>2. CASE n \in DOMAIN reply
    <3>1. f[n] \in Decoded(reply[n]) /\ Given(n) = reply[n]
      BY <1>8, <2>1, <2>2 DEF Given
    <3>2. reply[n] \in JSONValues \cup {Null}
      BY <1>6, <1>8, <2>2, RequestAssumption
    <3> QED
      BY <3>1, <3>2 DEF Decoded, HasNumber
  <2>3. CASE n \notin DOMAIN reply
    BY <2>1, <2>3 DEF Given
  <2> QED
    BY <2>2, <2>3
<1>11. ASSUME NEW n \in ColumnNames(r)
      PROVE  LET v == Given(n) IN
             IF v = Null THEN row[n] = Null
             ELSE IF job.columns[n] = "bigint"
             THEN /\ \E m \in Keys : row[n] = BigInt(m)
                  /\ v.is = "numeral" => row[n] = BigInt(v.of)
                  /\ v.is = "number" /\ MaxKey + 1 \notin Nearest(v.of)
                       => row[n].of \in Nearest(v.of)
             ELSE IF HasNumber(v)
             THEN \E m \in Nearest(v.of) : row[n] = JSON([is |-> v.is, of |-> m])
             ELSE row[n] = v
  <2> SUFFICES ASSUME NEW v, v = Given(n)
               PROVE  IF v = Null THEN row[n] = Null
                      ELSE IF job.columns[n] = "bigint"
                      THEN /\ \E m \in Keys : row[n] = BigInt(m)
                           /\ v.is = "numeral" => row[n] = BigInt(v.of)
                           /\ v.is = "number" /\ MaxKey + 1 \notin Nearest(v.of)
                                => row[n].of \in Nearest(v.of)
                      ELSE IF HasNumber(v)
                      THEN \E m \in Nearest(v.of) : row[n] = JSON([is |-> v.is, of |-> m])
                      ELSE row[n] = v
    OBVIOUS
  <2>1. row[n] # Failed /\ row[n] \in Outcomes(job.columns[n], f[n])
    BY <1>9
  <2>2. IF v = Null THEN f[n] = Null ELSE f[n] \in Decoded(v) /\ v \in JSONValues
    BY <1>10
  <2> HIDE DEF f
  <2>3. CASE v = Null
    BY <2>1, <2>2, <2>3 DEF Outcomes, Texts, BigInts
  <2>4. CASE v # Null /\ job.columns[n] = "bigint"
    <3>1. row[n] \in BigInts(f[n])
      BY <2>1, <2>4 DEF Outcomes
    <3> QED
      BY <2>1, <2>2, <2>4, <3>1, BigIntsFit
  <2>5. CASE v # Null /\ job.columns[n] # "bigint"
    <3>1. job.columns[n] = "text"
      <4>1. PICK i \in DOMAIN r.schema : Trim(r.schema[i].name) = n
        BY DEF ColumnNames
      <4>2. job.columns[n] = r.schema[CHOOSE k \in DOMAIN r.schema : Trim(r.schema[k].name) = n].type
        BY <1>3 DEF ColumnTypes
      <4>3. (CHOOSE k \in DOMAIN r.schema : Trim(r.schema[k].name) = n) \in DOMAIN r.schema
        BY <4>1
      <4> QED
        BY <1>2, <2>5, <4>2, <4>3 DEF NormalizeOK, SchemaOK
    <3>2. row[n] \in Texts(f[n])
      BY <2>1, <3>1 DEF Outcomes
    <3> QED
      BY <2>2, <2>5, <3>2, TextsFit
  <2> QED
    BY <2>3, <2>4, <2>5
<1> QED
  BY <1>3, <1>9, <1>11 DEF RowFitsSchema

\* The LLM is asked for what the request asked for.
THEOREM PromptKeepsRequestHolds == Spec => []PromptKeepsRequest
BY RequestInvariance, PromptOfRequest, PTL

\* No row has a column too many or too few, or a value its column cannot hold.
THEOREM RowFitsSchemaHolds == Spec => []RowFitsSchema
BY RequestInvariance, RowOfRequest, PTL
=============================================================================
