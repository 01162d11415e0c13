------------------------------- MODULE KeyScan ------------------------------
(***************************************************************************)
(* How a job walks over the keys of its source table while other programs  *)
(* insert and delete rows.  Keys are the int64 values of key_field; here   *)
(* they are MinKey..MaxKey, and the arithmetic on them wraps.              *)
(*                                                                         *)
(* enrichextract reads pages behind a cursor (SelectSourcePage); alignment *)
(* cuts the span between the smallest and the largest key into pages       *)
(* (selectOutputKeyRange, buildOutputPages) and writes one after another.  *)
(***************************************************************************)
EXTENDS Integers, FiniteSets

CONSTANTS
  MinKey, MaxKey,  \* the smallest and the largest int64
  MaxPages,        \* the longest slice of pages that fits in memory
  MaxAlloc,        \* the longest slice of pages that fits in the address space
  Tables,          \* what the source table may hold at first
  MaxEdits,        \* bound on the insertions and deletions of others
  None             \* no start_id, no end_id, no key yet

Keys == MinKey..MaxKey
Span == MaxKey - MinKey + 1

ASSUME KeyAssumption ==
  /\ MinKey \in Int /\ MaxKey \in Int /\ MinKey < 0 /\ 0 < MaxKey
  /\ MaxPages \in Nat /\ MaxAlloc \in Nat /\ MaxPages <= MaxAlloc
  /\ MaxEdits \in Nat
  /\ Tables \subseteq SUBSET Keys
  /\ None \notin Int

VARIABLES
  rows,         \* keys of the source table
  edits,        \* insertions and deletions so far
  scan,         \* "none", "cursor" (enrichextract) or "pages" (alignment)
  status,       \* "active", "done", "failed", or "lost": active, its server dead
  first, last,  \* start_id and end_id of the job
  size,         \* page size
  cursor,       \* last key of the last page; pageStart
  stop,         \* largest key of the span (pages)
  taken,        \* how often each key was taken: 0, 1, or 2 for more
  kept          \* keys in range that were there all along

scanVars == <<rows, edits, scan, status, first, last, size, cursor, stop, taken, kept>>
jobVars == <<scan, first, last, size>>

---------------------------------------------------------------------------
\* The int64 that has the bits of n.
Wrap(n) == IF n > MaxKey THEN n - Span ELSE IF n < MinKey THEN n + Span ELSE n

\* Go's quotient is truncated towards zero.
Quotient(a, b) == IF a >= 0 THEN a \div b ELSE -((-a) \div b)

\* buildRangeClause: both bounds are inclusive.
InRange(k, from, to) == (from = None \/ from <= k) /\ (to = None \/ k <= to)

Lowest(S, k) == k \in S /\ \A j \in S : k <= j
Highest(S, k) == k \in S /\ \A j \in S : j <= k
Take(page) ==
  taken' = [k \in Keys |-> IF k \notin page THEN taken[k]
                           ELSE IF taken[k] = 0 THEN 1 ELSE 2]

ScanInit ==
  /\ rows \in Tables
  /\ edits = 0
  /\ scan = "none" /\ status = "active"
  /\ first = None /\ last = None /\ size = 1
  /\ cursor = None /\ stop = None
  /\ taken = [k \in Keys |-> 0]
  /\ kept = {}

\* A job starts over the rows from f to t.
Begin(way, f, t, s) ==
  /\ scan = "none"
  /\ scan' = way /\ first' = f /\ last' = t /\ size' = s
  /\ kept' = {k \in rows : InRange(k, f, t)}
  /\ UNCHANGED <<rows, edits, status, cursor, stop, taken>>

---------------------------------------------------------------------------
(* SelectSourcePage: keyset pagination, s.key > $1, of a job with          *)
(* overwrite; what a job without it skips is in EnrichExtract.  (StartsAt   *)
(* and NoBreak are mutations used to show that a property can fail.)       *)

StartsAt == IF cursor # None THEN cursor ELSE first
Bound == IF cursor # None THEN cursor
         ELSE IF first # None THEN Wrap(first - 1) ELSE None
Ahead == {k \in rows : (Bound = None \/ Bound < k) /\ (last = None \/ k <= last)}

\* ORDER BY key LIMIT size
FirstRows(S) == {k \in S : Cardinality({j \in S : j <= k}) <= size}

SelectSourcePage ==
  /\ scan = "cursor" /\ status = "active"
  /\ \/ /\ Ahead = {}
        /\ status' = "done"
        /\ UNCHANGED <<taken, cursor>>
     \/ /\ Take(FirstRows(Ahead))
        /\ \E k \in FirstRows(Ahead) : Highest(FirstRows(Ahead), k) /\ cursor' = k
        /\ UNCHANGED status
  /\ UNCHANGED <<rows, edits, jobVars, stop, kept>>

---------------------------------------------------------------------------
(* The pages of the output of alignment.                                   *)

Spanned == {k \in rows : InRange(k, first, last)}

\* make([]outputPage, 0, (end-start)/pageSize+1).  A capacity below zero or
\* beyond the address space panics, and runJob recovers and marks the job
\* failed; one that fits there but not in memory is a fatal error, which
\* nothing recovers: the server dies, and the job stays running.
Capacity(from, to) == Wrap(Quotient(Wrap(to - from), size) + 1)
Allocated(capacity) ==
  IF capacity \notin 0..MaxAlloc THEN "failed"
  ELSE IF capacity <= MaxPages THEN "active" ELSE "lost"

SelectKeyRange ==
  /\ scan = "pages" /\ status = "active" /\ stop = None
  /\ \/ /\ Spanned = {}
        /\ status' = "done"
        /\ UNCHANGED <<cursor, stop>>
     \/ \E from, to \in Spanned :
          /\ Lowest(Spanned, from) /\ Highest(Spanned, to)
          /\ cursor' = from /\ stop' = to
          /\ status' = Allocated(Capacity(from, to))
  /\ UNCHANGED <<rows, edits, jobVars, taken, kept>>

\* end - pageStart < pageSize, in int64.
ShortPage == Wrap(stop - cursor) < size
PageEnd == IF ShortPage THEN stop ELSE Wrap(cursor + size - 1)
NoBreak == FALSE
LastPage == PageEnd = stop

WritePage ==
  /\ scan = "pages" /\ status = "active" /\ stop # None
  /\ Take({k \in rows : cursor <= k /\ k <= PageEnd})
  /\ LET next == IF LastPage THEN cursor ELSE Wrap(PageEnd + 1) IN
       /\ cursor' = next
       /\ status' = IF LastPage \/ stop < next THEN "done" ELSE "active"
  /\ UNCHANGED <<rows, edits, jobVars, stop, kept>>

---------------------------------------------------------------------------
\* Other programs write the source table (external).
Edit ==
  /\ edits < MaxEdits /\ edits' = edits + 1
  /\ \/ \E k \in Keys \ rows : rows' = rows \cup {k} /\ UNCHANGED kept
     \/ \E k \in rows : rows' = rows \ {k} /\ kept' = kept \ {k}
  /\ UNCHANGED <<jobVars, status, cursor, stop, taken>>

\* The job fails before or during its scan, for a reason of its own.
Fail(way) ==
  /\ scan \in {"none", way} /\ status = "active"
  /\ scan' = way /\ status' = "failed"
  /\ UNCHANGED <<rows, edits, first, last, size, cursor, stop, taken, kept>>

Walk == SelectSourcePage \/ SelectKeyRange \/ WritePage

PageSizes == 1..MaxKey
Bounds == Keys \cup {None}

ScanNext ==
  \/ Walk \/ Edit
  \/ \E way \in {"cursor", "pages"} :
       Fail(way) \/ \E f, t \in Bounds, s \in PageSizes : Begin(way, f, t, s)

ScanSpec == ScanInit /\ [][ScanNext]_scanVars

---------------------------------------------------------------------------
\* A key is taken once at most and only in range, and a row that was there
\* all along is taken by the end.  The one exception is a cursor that starts
\* at the smallest int64: start_id - 1 wraps to the largest, and no key is
\* above it (business_repository.go:137).
Wraps == scan = "cursor" /\ first = MinKey

RangeTaken ==
  \A k \in Keys :
    /\ taken[k] <= 1
    /\ taken[k] = 1 => InRange(k, first, last)
    /\ status = "done" /\ k \in kept /\ ~Wraps => taken[k] = 1

\* No scan comes back to a key: each step of it ends the job, fixes the span once,
\* or moves the cursor or the start of the page up, within int64.  So a scan
\* goes on for no more steps than there are keys, whatever others insert
\* behind it or ahead of it; a page bound that wrapped would start it all over.
ScanAdvances ==
  [][scan # "none" /\ ~UNCHANGED <<status, cursor, stop, taken>> =>
       /\ status = "active"
       /\ \/ status' # "active"
          \/ stop = None /\ stop' # None
          \/ /\ stop' = stop /\ cursor' \in Keys
             /\ cursor = None \/ cursor < cursor']_scanVars

\* A scan that has begun ends, at either end of int64 too, where pageEnd + 1 wraps,
\* and for whatever request passed the validation: a field that was given twice
\* fails the job.  Only a span whose pages do not fit in memory, of keys far
\* apart, takes the server down, and leaves the job running.
ScanEnds ==
  scan # "none" ~>
    \/ status \in {"done", "failed"}
    \/ status = "lost" /\ scan = "pages" /\ MaxPages < Capacity(cursor, stop)
=============================================================================
