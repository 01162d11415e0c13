---------------------------- MODULE KeyScanProofs ---------------------------
(***************************************************************************)
(* KeyScan takes every key of the range once, whatever int64 is, whatever  *)
(* the page size and whatever others insert and delete meanwhile.          *)
(*                                                                         *)
(* RangeTaken is not inductive: it does not say that what was taken lies   *)
(* behind the cursor and what is still due lies ahead of it.               *)
(***************************************************************************)
EXTENDS KeyScan, FiniteSetTheorems, TLAPS

TypeInv ==
  /\ rows \subseteq Keys /\ kept \subseteq rows
  /\ scan \in {"none", "cursor", "pages"} /\ status \in {"active", "done", "failed", "lost"}
  /\ first \in Bounds /\ last \in Bounds /\ size \in PageSizes
  /\ cursor \in Bounds /\ stop \in Bounds
  /\ taken \in [Keys -> 0..2]

\* What was taken, was taken once and is in range; so is what was kept.
OnceInv ==
  /\ \A k \in Keys : taken[k] # 0 => taken[k] = 1 /\ InRange(k, first, last)
  /\ \A k \in kept : InRange(k, first, last)

NothingYet == cursor = None /\ \A k \in Keys : taken[k] = 0

IdleInv == scan = "none" => NothingYet /\ stop = None /\ kept = {} /\ status = "active"

\* The cursor lies between the taken keys and the keys still due.
CursorInv ==
  scan = "cursor" =>
    /\ \A k \in Keys : taken[k] # 0 => cursor # None /\ k <= cursor
    /\ cursor # None => first = None \/ first <= cursor
    /\ \A k \in kept : taken[k] = 1 \/ Wraps \/ (status # "done" /\ (cursor = None \/ cursor < k))

\* So does the start of the next page, up to the end of the span.
PagesInv ==
  scan = "pages" =>
    /\ stop = None => NothingYet /\ (status = "done" => kept = {})
    /\ stop # None =>
         /\ cursor # None /\ cursor <= stop
         /\ InRange(cursor, first, last) /\ InRange(stop, first, last)
         /\ \A k \in kept : k <= stop
         /\ status = "active" => \A k \in Keys : taken[k] # 0 => k < cursor
         /\ \A k \in kept : taken[k] = 1 \/ (status # "done" /\ cursor <= k)

ScanInv == TypeInv /\ OnceInv /\ IdleInv /\ CursorInv /\ PagesInv

---------------------------------------------------------------------------
\* The first rows of a page: no row of S lies between two of them, or below.
LEMMA FirstRowsClosed ==
  ASSUME NEW S \in SUBSET Keys, size \in Nat, NEW k \in FirstRows(S), NEW j \in S, j <= k
  PROVE  j \in FirstRows(S)
<1>1. IsFiniteSet(Keys)
  BY FS_Interval, KeyAssumption DEF Keys
<1>2. IsFiniteSet({i \in S : i <= k})
  BY <1>1, FS_Subset
<1>3. {i \in S : i <= j} \subseteq {i \in S : i <= k}
  <2>1. k \in Int /\ j \in Int /\ S \subseteq Int
    BY KeyAssumption DEF FirstRows, Keys
  <2>2. \A i \in S : i <= j => i <= k
    BY <2>1
  <2> QED
    BY <2>2
<1>4. Cardinality({i \in S : i <= j}) <= Cardinality({i \in S : i <= k})
  BY <1>2, <1>3, FS_Subset
<1>5. Cardinality({i \in S : i <= j}) \in Nat /\ Cardinality({i \in S : i <= k}) \in Nat
  BY <1>2, <1>3, FS_Subset, FS_CardinalityType
<1> QED
  BY <1>4, <1>5 DEF FirstRows

LEMMA InitInv == ScanInit => ScanInv
BY KeyAssumption DEF ScanInit, ScanInv, TypeInv, OnceInv, IdleInv, CursorInv, PagesInv,
   NothingYet, Bounds, PageSizes, Keys

LEMMA BeginInv ==
  ASSUME ScanInv, NEW way \in {"cursor", "pages"}, NEW f \in Bounds, NEW t \in Bounds,
         NEW s \in PageSizes, Begin(way, f, t, s)
  PROVE  ScanInv'
<1> USE DEF ScanInv, Begin
<1>1. TypeInv'
  BY DEF TypeInv
<1>2. OnceInv'
  BY DEF OnceInv, IdleInv, NothingYet
<1>3. IdleInv' /\ CursorInv' /\ PagesInv'
  BY DEF IdleInv, CursorInv, PagesInv, NothingYet, Wraps, TypeInv
<1> QED
  BY <1>1, <1>2, <1>3

LEMMA FailInv ==
  ASSUME ScanInv, NEW way \in {"cursor", "pages"}, Fail(way)
  PROVE  ScanInv'
<1> USE DEF ScanInv, Fail
<1>1. TypeInv' /\ OnceInv'
  BY DEF TypeInv, OnceInv
<1>2. IdleInv' /\ CursorInv' /\ PagesInv'
  BY DEF IdleInv, CursorInv, PagesInv, NothingYet, Wraps, TypeInv
<1> QED
  BY <1>1, <1>2

LEMMA EditInv == ASSUME ScanInv, Edit PROVE ScanInv'
<1> USE DEF ScanInv
<1>1. /\ UNCHANGED <<jobVars, status, cursor, stop, taken>>
      /\ kept' \subseteq kept /\ kept' \subseteq rows' /\ rows' \subseteq Keys
  BY DEF Edit, TypeInv
<1>2. TypeInv' /\ OnceInv'
  BY <1>1 DEF TypeInv, OnceInv, jobVars
<1>3. IdleInv' /\ CursorInv' /\ PagesInv'
  BY <1>1 DEF IdleInv, CursorInv, PagesInv, NothingYet, Wraps, jobVars
<1> QED
  BY <1>2, <1>3

---------------------------------------------------------------------------
\* A page behind the cursor.
LEMMA SelectSourcePageInv == ASSUME ScanInv, SelectSourcePage PROVE ScanInv'
<1> USE DEF ScanInv
<1>1. /\ scan = "cursor" /\ status = "active"
      /\ UNCHANGED <<rows, edits, scan, first, last, size, stop, kept>>
  BY DEF SelectSourcePage, jobVars
<1>2. ASSUME NEW k \in kept, k \notin Ahead, taken[k] # 1, ~Wraps
      PROVE  FALSE
  \* what is due is ahead of the bound
  <2>1. cursor = None \/ cursor < k
    BY <1>1, <1>2 DEF CursorInv
  <2>2. InRange(k, first, last) /\ k \in rows /\ k \in Keys
    BY DEF OnceInv, TypeInv
  <2>3. ~(Bound = None \/ Bound < k)
    BY <1>2, <2>2 DEF Ahead, InRange
  <2>4. cursor = None /\ first # None
    BY <2>1, <2>3 DEF Bound
  <2>5. Wrap(first - 1) >= k
    BY <2>2, <2>3, <2>4, KeyAssumption DEF Bound, Wrap, TypeInv, Bounds, Keys, Span
  <2> QED
    BY <1>1, <2>2, <2>4, <2>5, KeyAssumption DEF InRange, Wraps, Wrap, TypeInv, Bounds, Keys, Span
<1>3. CASE Ahead = {} /\ status' = "done" /\ UNCHANGED <<taken, cursor>>
  <2>1. TypeInv' /\ OnceInv' /\ IdleInv' /\ PagesInv'
    BY <1>1, <1>3 DEF TypeInv, OnceInv, IdleInv, PagesInv
  <2>2. CursorInv'
    BY <1>1, <1>2, <1>3 DEF CursorInv, Wraps
  <2> QED
    BY <2>1, <2>2
<1>4. ASSUME NEW h \in FirstRows(Ahead), Highest(FirstRows(Ahead), h), cursor' = h,
             Take(FirstRows(Ahead)), UNCHANGED status
      PROVE  ScanInv'
  <2> DEFINE page == FirstRows(Ahead)
  <2>1. /\ page \subseteq Ahead /\ Ahead \subseteq rows /\ rows \subseteq Keys
        /\ size \in Nat /\ h \in Keys
    BY <1>4, KeyAssumption DEF FirstRows, Ahead, TypeInv, PageSizes, Keys
  <2>2. ASSUME NEW k \in page
        PROVE  /\ cursor = None \/ cursor < k
               /\ InRange(k, first, last) /\ taken[k] = 0 /\ k <= h /\ k \in Keys
    <3>1. k \in Keys /\ k <= h
      BY <1>4, <2>1 DEF Highest
    <3>2. (Bound = None \/ Bound < k) /\ (last = None \/ k <= last)
      BY <2>1 DEF Ahead
    <3>3. cursor = None \/ cursor < k
      BY <3>2 DEF Bound
    <3>4. first = None \/ first <= k
      <4>1. CASE cursor # None
        BY <1>1, <3>1, <3>3, <4>1, KeyAssumption DEF CursorInv, TypeInv, Bounds, Keys
      <4>2. CASE cursor = None /\ first # None
        BY <3>1, <3>2, <4>2, KeyAssumption DEF Bound, Wrap, TypeInv, Bounds, Keys, Span
      <4> QED
        BY <4>1, <4>2
    <3>5. taken[k] = 0
      BY <1>1, <3>1, <3>3, KeyAssumption DEF CursorInv, TypeInv, Bounds, Keys
    <3> QED
      BY <3>1, <3>2, <3>3, <3>4, <3>5 DEF InRange
  <2>3. \A k \in Keys : taken'[k] = IF k \notin page THEN taken[k] ELSE 1
    BY <1>4, <2>2 DEF Take
  <2>4. taken' \in [Keys -> 0..2]
    BY <1>4 DEF Take, TypeInv
  <2>5. TypeInv'
    BY <1>1, <1>4, <2>1, <2>4 DEF TypeInv, Bounds
  <2>6. OnceInv'
    BY <1>1, <2>2, <2>3 DEF OnceInv, TypeInv
  <2>7. cursor = None \/ cursor < h
    BY <1>4, <2>2
  <2>8. ASSUME NEW k \in Keys, taken'[k] # 0
        PROVE  k <= h
    BY <1>1, <2>1, <2>2, <2>3, <2>7, <2>8, KeyAssumption DEF CursorInv, TypeInv, Bounds, Keys
  <2>9. first = None \/ first <= h
    BY <1>4, <2>2 DEF InRange
  <2>10. ASSUME NEW k \in kept
         PROVE  taken'[k] = 1 \/ Wraps \/ h < k
    <3>1. k \in Keys
      BY DEF TypeInv
    <3>2. CASE taken[k] = 1
      BY <2>3, <3>1, <3>2
    <3>3. CASE taken[k] # 1 /\ ~Wraps
      <4>1. k \in Ahead
        BY <1>2, <3>3
      <4>2. k <= h => k \in page
        BY <1>4, <2>1, <4>1, FirstRowsClosed
      <4> QED
        BY <2>1, <2>3, <3>1, <4>2, KeyAssumption DEF Keys
    <3> QED
      BY <3>2, <3>3
  <2>11. h # None
    BY <2>1, KeyAssumption DEF Keys
  <2>12. CursorInv'
    BY <1>1, <1>4, <2>8, <2>9, <2>10, <2>11 DEF CursorInv, Wraps
  <2> QED
    BY <1>1, <2>5, <2>6, <2>12 DEF IdleInv, PagesInv
<1> QED
  BY <1>3, <1>4 DEF SelectSourcePage

---------------------------------------------------------------------------
\* The pages of the output.
LEMMA SelectKeyRangeInv == ASSUME ScanInv, SelectKeyRange PROVE ScanInv'
<1> USE DEF ScanInv
<1>1. /\ scan = "pages" /\ status = "active" /\ stop = None
      /\ UNCHANGED <<rows, edits, scan, first, last, size, taken, kept>>
  BY DEF SelectKeyRange, jobVars
<1>2. NothingYet
  BY <1>1 DEF PagesInv
<1>3. kept \subseteq Spanned
  BY DEF Spanned, OnceInv, TypeInv
<1>4. OnceInv'
  BY <1>1 DEF OnceInv
<1>5. CASE Spanned = {} /\ status' = "done" /\ UNCHANGED <<cursor, stop>>
  BY <1>1, <1>2, <1>3, <1>4, <1>5
  DEF TypeInv, IdleInv, CursorInv, PagesInv, NothingYet
<1>6. ASSUME NEW from \in Spanned, NEW to \in Spanned,
             Lowest(Spanned, from), Highest(Spanned, to), cursor' = from, stop' = to,
             status' = Allocated(Capacity(from, to))
      PROVE  ScanInv'
  <2>1. /\ from \in Keys /\ to \in Keys /\ from # None /\ to # None
        /\ InRange(from, first, last) /\ InRange(to, first, last)
    BY KeyAssumption DEF Spanned, TypeInv, Keys
  <2>2. from <= to /\ \A k \in kept : from <= k /\ k <= to
    BY <1>3, <1>6 DEF Lowest, Highest
  <2>3. status' \in {"active", "failed", "lost"}
    BY <1>6 DEF Allocated
  <2>4. TypeInv'
    BY <1>1, <1>6, <2>1, <2>3 DEF TypeInv, Bounds
  <2>5. PagesInv'
    BY <1>1, <1>2, <1>6, <2>1, <2>2, <2>3 DEF PagesInv, NothingYet
  <2> QED
    BY <1>1, <1>4, <2>4, <2>5 DEF IdleInv, CursorInv
<1> QED
  BY <1>5, <1>6 DEF SelectKeyRange

\* No page goes beyond the span, and none but the last can wrap.
LEMMA PageEndInSpan ==
  ASSUME KeyAssumption, stop \in Keys, cursor \in Keys, cursor <= stop, size \in PageSizes
  PROVE  /\ PageEnd \in Keys /\ cursor <= PageEnd /\ PageEnd <= stop
         /\ ~LastPage => Wrap(PageEnd + 1) = PageEnd + 1
<1>1. CASE ShortPage
  BY <1>1, KeyAssumption DEF PageEnd, LastPage, Keys
<1>2. CASE ~ShortPage
  <2>1. stop - cursor >= size /\ size >= 1
    BY <1>2, KeyAssumption DEF ShortPage, Wrap, Keys, Span, PageSizes
  <2>2. PageEnd = cursor + size - 1
    BY <1>2, <2>1, KeyAssumption DEF PageEnd, Wrap, Keys, Span, PageSizes
  <2> QED
    BY <2>1, <2>2, KeyAssumption DEF Wrap, Keys, Span, PageSizes
<1> QED
  BY <1>1, <1>2

LEMMA WritePageInv == ASSUME ScanInv, WritePage PROVE ScanInv'
<1> USE DEF ScanInv
<1> DEFINE page == {k \in rows : cursor <= k /\ k <= PageEnd}
           next == IF LastPage THEN cursor ELSE Wrap(PageEnd + 1)
<1>1. /\ scan = "pages" /\ status = "active" /\ stop # None
      /\ UNCHANGED <<rows, edits, scan, first, last, size, stop, kept>>
      /\ Take(page) /\ cursor' = next
      /\ status' = IF LastPage \/ stop < next THEN "done" ELSE "active"
  BY DEF WritePage, jobVars
<1>2. /\ stop \in Keys /\ cursor \in Keys /\ cursor <= stop
      /\ InRange(cursor, first, last) /\ InRange(stop, first, last)
  BY <1>1 DEF PagesInv, TypeInv, Bounds
<1>3. /\ PageEnd \in Keys /\ cursor <= PageEnd /\ PageEnd <= stop
      /\ ~LastPage => Wrap(PageEnd + 1) = PageEnd + 1
  BY <1>2, PageEndInSpan, KeyAssumption DEF TypeInv
<1>4. LastPage => PageEnd = stop
  BY DEF LastPage
<1>5. ~LastPage => PageEnd < stop
  BY <1>2, <1>3, KeyAssumption DEF LastPage, Keys
<1>6. /\ next \in Keys /\ next <= stop
      /\ LastPage => next = cursor
      /\ ~LastPage => next = PageEnd + 1
  BY <1>2, <1>3, <1>5, KeyAssumption DEF Keys
<1>7. status' = IF LastPage THEN "done" ELSE "active"
  BY <1>1, <1>2, <1>6, KeyAssumption DEF Keys
<1>8. InRange(next, first, last)
  BY <1>2, <1>3, <1>5, <1>6, KeyAssumption DEF InRange, TypeInv, Bounds, Keys
<1>9. ASSUME NEW k \in page
      PROVE  k \in Keys /\ taken[k] = 0 /\ InRange(k, first, last)
  <2>1. k \in Keys /\ cursor <= k /\ k <= stop
    BY <1>2, <1>3, KeyAssumption DEF TypeInv, Keys
  <2> QED
    BY <1>1, <1>2, <2>1, KeyAssumption DEF PagesInv, InRange, TypeInv, Bounds, Keys
<1>10. \A k \in Keys : taken'[k] = IF k \notin page THEN taken[k] ELSE 1
  BY <1>1, <1>9 DEF Take
<1>11. taken' \in [Keys -> 0..2]
  BY <1>1 DEF Take, TypeInv
<1>12. TypeInv'
  BY <1>1, <1>6, <1>7, <1>11 DEF TypeInv, Bounds
<1>13. OnceInv'
  BY <1>1, <1>9, <1>10 DEF OnceInv, TypeInv
<1>14. ASSUME NEW k \in kept
       PROVE  taken'[k] = 1 \/ (~LastPage /\ next <= k)
  <2>1. k \in Keys /\ k \in rows /\ k <= stop
    BY <1>1 DEF PagesInv, TypeInv
  <2>2. CASE taken[k] = 1
    BY <1>10, <2>1, <2>2
  <2>3. CASE cursor <= k /\ k <= PageEnd
    BY <1>10, <2>1, <2>3
  <2>4. CASE PageEnd < k
    BY <1>3, <1>4, <1>6, <2>1, <2>4, KeyAssumption DEF Keys
  <2> QED
    BY <1>1, <1>3, <2>1, <2>2, <2>3, <2>4, KeyAssumption DEF PagesInv, Keys
<1>15. ASSUME ~LastPage, NEW k \in Keys, taken'[k] # 0
       PROVE  k < next
  <2>1. k \in page \/ taken[k] # 0
    BY <1>10, <1>15
  <2> QED
    BY <1>1, <1>2, <1>3, <1>6, <1>15, <2>1, KeyAssumption DEF PagesInv, Keys
<1>16. next # None
  BY <1>6, KeyAssumption DEF Keys
<1>17. \A k \in kept : k <= stop
  BY <1>1 DEF PagesInv
<1>18. PagesInv'
  BY <1>1, <1>6, <1>7, <1>8, <1>14, <1>15, <1>16, <1>17 DEF PagesInv
<1> QED
  BY <1>1, <1>12, <1>13, <1>18 DEF IdleInv, CursorInv

---------------------------------------------------------------------------
\* What was taken once and in range, and what was due, is what RangeTaken says.
LEMMA InvRangeTaken == ScanInv => RangeTaken
<1> SUFFICES ASSUME ScanInv, NEW k \in Keys
             PROVE  /\ taken[k] <= 1
                    /\ taken[k] = 1 => InRange(k, first, last)
                    /\ status = "done" /\ k \in kept /\ ~Wraps => taken[k] = 1
  BY DEF RangeTaken
<1> USE DEF ScanInv
<1>1. taken[k] \in {0, 1}
  BY DEF OnceInv, TypeInv
<1>2. taken[k] = 1 => InRange(k, first, last)
  BY DEF OnceInv
<1>3. status = "done" /\ k \in kept /\ ~Wraps => taken[k] = 1
  BY DEF IdleInv, CursorInv, PagesInv, NothingYet, TypeInv
<1> QED
  BY <1>1, <1>2, <1>3

LEMMA NextInv == ScanInv /\ [ScanNext]_scanVars => ScanInv'
<1> SUFFICES ASSUME ScanInv, [ScanNext]_scanVars PROVE ScanInv'
  OBVIOUS
<1>1. CASE UNCHANGED scanVars
  BY <1>1 DEF ScanInv, TypeInv, OnceInv, IdleInv, CursorInv, PagesInv, NothingYet, Wraps, scanVars
<1>2. CASE Walk
  BY <1>2, SelectSourcePageInv, SelectKeyRangeInv, WritePageInv DEF Walk
<1>3. CASE Edit
  BY <1>3, EditInv
<1>4. ASSUME NEW way \in {"cursor", "pages"}, Fail(way)
      PROVE  ScanInv'
  BY <1>4, FailInv
<1>5. ASSUME NEW way \in {"cursor", "pages"}, NEW f \in Bounds, NEW t \in Bounds,
             NEW s \in PageSizes, Begin(way, f, t, s)
      PROVE  ScanInv'
  BY <1>5, BeginInv
<1> QED
  BY <1>1, <1>2, <1>3, <1>4, <1>5 DEF ScanNext

\* Every key of the range is taken exactly once if its row was there all
\* along, and at most once if not, by both scans, at both ends of int64.
THEOREM RangeTakenHolds == ScanSpec => []RangeTaken
<1>1. ScanSpec => []ScanInv
  BY InitInv, NextInv, PTL DEF ScanSpec
<1> QED
  BY <1>1, InvRangeTaken, PTL

---------------------------------------------------------------------------
\* A step of a scan that does not end it moves the cursor up, or fixes the span.
LEMMA CursorAdvances ==
  ASSUME TypeInv, SelectSourcePage
  PROVE  /\ status = "active"
         /\ \/ status' # "active"
            \/ stop' = stop /\ cursor' \in Keys /\ (cursor = None \/ cursor < cursor')
<1>1. status = "active" /\ stop' = stop
  BY DEF SelectSourcePage
<1>2. CASE status' = "done"
  BY <1>1, <1>2
<1>3. ASSUME NEW k \in FirstRows(Ahead), cursor' = k
      PROVE  cursor' \in Keys /\ (cursor = None \/ cursor < cursor')
  BY <1>3 DEF FirstRows, Ahead, Bound, TypeInv
<1> QED
  BY <1>1, <1>2, <1>3 DEF SelectSourcePage

LEMMA SpanFixed ==
  ASSUME TypeInv, SelectKeyRange
  PROVE  status = "active" /\ stop = None /\ (status' # "active" \/ stop' # None)
<1>1. \A k \in Spanned : k # None
  BY KeyAssumption DEF Spanned, TypeInv, Keys
<1> QED
  BY <1>1 DEF SelectKeyRange

LEMMA PageAdvances ==
  ASSUME ScanInv, WritePage
  PROVE  /\ status = "active"
         /\ \/ status' # "active"
            \/ stop' = stop /\ cursor' \in Keys /\ (cursor = None \/ cursor < cursor')
<1>1. /\ status = "active" /\ stop' = stop /\ stop \in Keys /\ cursor \in Keys
      /\ cursor <= stop /\ size \in PageSizes
  BY DEF WritePage, ScanInv, PagesInv, TypeInv, Bounds
<1>2. CASE LastPage
  BY <1>1, <1>2 DEF WritePage
<1>3. CASE ~LastPage
  <2>1. /\ PageEnd \in Keys /\ cursor <= PageEnd /\ PageEnd <= stop
        /\ cursor' = PageEnd + 1
    BY <1>1, <1>3, PageEndInSpan, KeyAssumption DEF WritePage
  <2>2. PageEnd # stop
    BY <1>3 DEF LastPage
  <2> QED
    BY <1>1, <2>1, <2>2, KeyAssumption DEF Keys
<1> QED
  BY <1>2, <1>3

\* A scan never comes back to a key, though the bounds of its pages wrap and
\* others insert rows all the time.
THEOREM ScanAdvancesHolds == ScanSpec => ScanAdvances
<1> DEFINE Advance == scan # "none" /\ ~UNCHANGED <<status, cursor, stop, taken>> =>
                        /\ status = "active"
                        /\ \/ status' # "active"
                           \/ stop = None /\ stop' # None
                           \/ /\ stop' = stop /\ cursor' \in Keys
                              /\ cursor = None \/ cursor < cursor'
<1>1. ASSUME ScanInv, ScanNext PROVE Advance
  <2>1. CASE SelectSourcePage \/ WritePage
    BY <1>1, <2>1, CursorAdvances, PageAdvances DEF ScanInv
  <2>2. CASE SelectKeyRange
    BY <1>1, <2>2, SpanFixed DEF ScanInv
  <2>3. CASE Edit
    BY <2>3 DEF Edit
  <2>4. ASSUME NEW way \in {"cursor", "pages"}, Fail(way) PROVE Advance
    BY <2>4 DEF Fail
  <2>5. ASSUME NEW way \in {"cursor", "pages"}, NEW f \in Bounds, NEW t \in Bounds,
               NEW s \in PageSizes, Begin(way, f, t, s)
        PROVE  Advance
    BY <2>5 DEF Begin
  <2> QED
    BY <1>1, <2>1, <2>2, <2>3, <2>4, <2>5 DEF ScanNext, Walk
<1>2. ScanInv /\ [ScanNext]_scanVars => [Advance]_scanVars
  BY <1>1
<1>3. ScanSpec => []ScanInv
  BY InitInv, NextInv, PTL DEF ScanSpec
<1> QED
  BY <1>2, <1>3, PTL DEF ScanSpec, ScanAdvances
=============================================================================
