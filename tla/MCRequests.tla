----------------------------- MODULE MCRequests -----------------------------
(***************************************************************************)
(* A small instance of Requests for TLC: int64 has four bits (-8..7), and  *)
(* integers up to 4 are exact in a float64, then every other up to 10.     *)
(***************************************************************************)
EXTENDS Requests, TLC

CONSTANTS one, two  \* hints, and examples

SmallestKey == -8
FewFloats == (-4..4) \cup {-10, -8, -6, 6, 8, 10}

\* In pages of two keys, the span from 4 to 7 fits in memory, the one from 0 to 4
\* does not, the one from 0 to 7 is beyond the address space; those from -8 wrap.
FewTables == {{}, {-8, -7, 0, 4, 7}}

Padded(name) == [name |-> name, padded |-> TRUE]
Column(s, t) == [name |-> s, type |-> t]
a == Exactly("a")
b == Exactly("b")

Asked == [kind |-> "enrich", complete |-> TRUE, key |-> Exactly("id"),
          schema |-> <<Column(a, "text")>>, example |-> a :> one, hints |-> <<>>,
          start |-> 0, end |-> 0, concurrency |-> None, page |-> None]
Both == [Asked EXCEPT !.schema = <<Column(b, "bigint"), Column(Padded("a"), "text")>>,
                      !.example = a :> one @@ b :> two]

\* The key range, at both ends of int64, and the page size.
RangeRequests ==
  {[Asked EXCEPT !.start = f, !.end = t] : f \in {None, -8, -7, 1}, t \in {None, 0}} \cup
  {[Asked EXCEPT !.start = None, !.end = 7, !.page = 3]}

\* One thing is unusual, or wrong.
FieldRequests ==
  {[Both EXCEPT !.key = k] : k \in {Padded("id"), Exactly(""), a}} \cup
  {[Both EXCEPT !.schema = s] :
     s \in {<<>>, <<Column(a, "text"), Column(Padded("a"), "text")>>,
            <<Column(a, "text"), Column(b, "")>>, <<Column(a, "text"), Column(Padded(""), "text")>>}} \cup
  {[Both EXCEPT !.example = e] :
     e \in {NoExample, a :> one, Padded("a") :> one @@ b :> two,
            a :> one @@ Padded("a") :> two}} \cup
  {[Both EXCEPT !.hints = h] :
     h \in {a :> one @@ Padded("a") :> two, a :> one @@ Padded("b") :> two,
            a :> Blank, Exactly("id") :> one}} \cup
  {[Both EXCEPT !.concurrency = c, !.page = p] : c \in {0, 1, 2, 3}, p \in {None, 0, 4}}
FewEnrichRequests ==
  RangeRequests \cup FieldRequests \cup {[Asked EXCEPT !.complete = FALSE]}

Aligned(s, set) == [name |-> s, set |-> set]
AskedAlign == [kind |-> "align", complete |-> TRUE, key |-> Exactly("id"),
               fields |-> <<Aligned(a, Exactly(""))>>, start |-> None, end |-> None]
FewAlignRequests ==
  {[AskedAlign EXCEPT !.start = f, !.end = t] : f \in {None, -1, 1}, t \in {None, 5, 0}} \cup
  {[AskedAlign EXCEPT !.fields = s] :
     s \in {<<>>, <<Aligned(a, a), Aligned(a, a)>>, <<Aligned(a, a), Aligned(Padded("a"), a)>>,
            <<Aligned(Padded("a"), Exactly(""))>>, <<Aligned(b, a), Aligned(a, Exactly(""))>>,
            <<Aligned(a, b)>>, <<Aligned(Exactly("id"), a)>>}} \cup
  {[AskedAlign EXCEPT !.key = Padded("id")], [AskedAlign EXCEPT !.complete = FALSE]}

Word == [is |-> "word", of |-> 0]
Holds(v) == "a" :> v @@ "id" :> [is |-> "numeral", of |-> 1]
Number(n) == [is |-> "number", of |-> n]
Numeral(n) == [is |-> "numeral", of |-> n]
Other(n) == [is |-> "other", of |-> n]

FewSources == {NoObject, Holds(Number(1))}

\* 7 and -9 are no floats, 8 is one beyond the largest key, 11 is too large.
FewAnswers ==
  {NoObject, "a" :> Word, "a" :> Number(7) @@ "b" :> Numeral(7),
   "a" :> Other(-9) @@ "b" :> Word, Holds(Null) @@ "b" :> Number(7)} \cup
  {"a" :> Word @@ "b" :> v : v \in {Number(-9), Number(11), Numeral(8)}}
=============================================================================
