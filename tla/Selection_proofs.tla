---------------------------- MODULE Selection_proofs ----------------------------
(*************************************************************************)
(* Proofs about what decides which mutants are tested and with which tests. *)
(*                                                                       *)
(* SourceRanges, for every list of ranges: the merge keeps every position *)
(* and no other, and one binary search then decides whether a target     *)
(* touches any of the ranges given.                                      *)
(*                                                                       *)
(* ChangedLines, for every diff and every name: the name that Git quotes *)
(* is read as it is, no line of a hunk is taken for a header, and the    *)
(* lines selected are those the hunks add.                               *)
(*                                                                       *)
(* SourceFilters, for every source, with any items, cfg attributes and    *)
(* annotations, and every policy: the walk, the merge, the search and the *)
(* annotations read one by one together exclude what they are meant to   *)
(* exclude and nothing else.                                             *)
(*                                                                       *)
(* CoverageSelection, for every list of packages and tests, every profile *)
(* and every way it can be torn: no test that executes the mutant is lost *)
(* between the run that shows it and the commands the mutant has to pass. *)
(*************************************************************************)
EXTENDS SourceRanges, SourceFilters, ChangedLines, CoverageSelection, ListFacts

\* The position lies in one of the ranges.
Covers(spans, point) == \E i \in DOMAIN spans : point \in Points(spans[i])

RangesTyped ==
    /\ given \in Seq(SpanType)
    /\ rest \in Seq(SpanType)
    /\ merged \in Seq(SpanType)

\* What is kept starts no later than what is still to come, which is sorted.
InOrder ==
    /\ Sorted(rest)
    /\ \A i \in DOMAIN merged : \A j \in DOMAIN rest : merged[i].first <= rest[j].first

\* MergeKeepsPoints, position by position.
SamePoints ==
    \A point \in Int : Covers(given, point) <=> Covers(merged, point) \/ Covers(rest, point)

\* MergedApart of any list of ranges.
Apart(spans) ==
    /\ \A i \in DOMAIN spans : spans[i].first < spans[i].past
    /\ \A i, j \in DOMAIN spans : i < j => spans[i].past < spans[j].first

RInv == RangesTyped /\ InOrder /\ Apart(merged) /\ SamePoints

-----------------------------------------------------------------------------
(* One pass of the loop.                                                   *)

LEMMA SpanFacts ==
    ASSUME NEW span \in SpanType
    PROVE  /\ span.first \in Nat /\ span.past \in Nat
           /\ \A point : point \in Points(span) <=>
                  point \in Int /\ span.first <= point /\ point < span.past
BY RangesAssumption DEF SpanType, Points

\* The range of a span that reaches as far as either of two.
Extended(last, span) ==
    [last EXCEPT !.past = IF span.past > last.past THEN span.past ELSE last.past]

\* Join drops a span, extends the last one by it or appends it.
LEMMA JoinCases ==
    ASSUME NEW spans \in Seq(SpanType), NEW span \in SpanType
    PROVE  \/ span.past <= span.first /\ Join(spans, span) = spans
           \/ /\ span.first < span.past /\ spans # <<>>
              /\ span.first <= spans[Len(spans)].past
              /\ Join(spans, span) =
                     [spans EXCEPT ![Len(spans)] = Extended(spans[Len(spans)], span)]
           \/ /\ span.first < span.past
              /\ spans = <<>> \/ spans[Len(spans)].past < span.first
              /\ Join(spans, span) = Append(spans, span)
<1>1. span.first \in Nat /\ span.past \in Nat
  BY SpanFacts
<1>2. spans # <<>> => spans[Len(spans)] \in SpanType
  BY EmptySeq, LenProperties, ElementOfSeq
<1>3. spans # <<>> => spans[Len(spans)].past \in Nat
  BY <1>2, SpanFacts
<1> QED
  BY <1>1, <1>3 DEF Join, Extended

\* What is true of the list after a span is joined to it.
Joined(spans, span, after) ==
    /\ after \in Seq(SpanType)
    /\ Apart(after)
    /\ \A i \in DOMAIN after : after[i].first <= span.first
    /\ \A point \in Int : Covers(after, point) <=> Covers(spans, point) \/ point \in Points(span)

\* A span that starts in or directly after the last range extends it.
LEMMA ExtendKeeps ==
    ASSUME NEW spans \in Seq(SpanType), NEW span \in SpanType, spans # <<>>,
           Apart(spans), \A i \in DOMAIN spans : spans[i].first <= span.first,
           span.first < span.past, span.first <= spans[Len(spans)].past
    PROVE  Joined(spans, span,
                  [spans EXCEPT ![Len(spans)] = Extended(spans[Len(spans)], span)])
<1> DEFINE n == Len(spans)
           last == spans[n]
           longer == Extended(last, span)
           after == [spans EXCEPT ![n] = longer]
<1>1. n \in Nat /\ n \in DOMAIN spans /\ DOMAIN spans = 1 .. n
  BY EmptySeq, LenProperties
<1>2. last \in SpanType /\ \A i \in DOMAIN spans : spans[i] \in SpanType
  BY <1>1, ElementOfSeq
<1>3. /\ longer \in SpanType
      /\ longer.first = last.first
      /\ longer.past = IF span.past > last.past THEN span.past ELSE last.past
  BY <1>2 DEF Extended, SpanType
<1>4. /\ after \in Seq(SpanType) /\ DOMAIN after = DOMAIN spans
      /\ after[n] = longer /\ \A i \in DOMAIN spans : i # n => after[i] = spans[i]
  BY <1>1, <1>3, ExceptSeq, LenProperties
<1> HIDE DEF last, longer, after, n
<1>5. /\ span.first \in Nat /\ span.past \in Nat /\ last.first \in Nat /\ last.past \in Nat
      /\ \A i \in DOMAIN spans : spans[i].first \in Nat /\ spans[i].past \in Nat
  BY <1>2, SpanFacts
<1>6. last.first <= span.first /\ last.first < last.past /\ span.first <= last.past
  BY <1>1 DEF Apart, last, n
<1>7. Apart(after)
  <2>1. ASSUME NEW i \in DOMAIN after PROVE after[i].first < after[i].past
    <3>1. CASE i = n
      BY <1>3, <1>4, <1>5, <1>6, <3>1
    <3>2. CASE i # n
      BY <1>4, <3>2 DEF Apart
    <3> QED
      BY <3>1, <3>2
  <2>2. ASSUME NEW i \in DOMAIN after, NEW j \in DOMAIN after, i < j
        PROVE  after[i].past < after[j].first
    <3>1. i # n /\ after[i] = spans[i]
      BY <1>1, <1>4, <2>2
    <3>2. after[j].first = spans[j].first
      BY <1>3, <1>4 DEF last
    <3> QED
      BY <1>4, <2>2, <3>1, <3>2 DEF Apart
  <2> QED
    BY <2>1, <2>2 DEF Apart
<1>8. \A i \in DOMAIN after : after[i].first <= span.first
  BY <1>3, <1>4, <1>6
<1>9. ASSUME NEW point \in Int
      PROVE  Covers(after, point) <=> Covers(spans, point) \/ point \in Points(span)
  <2>1. point \in Points(longer) <=> point \in Points(last) \/ point \in Points(span)
    BY <1>2, <1>3, <1>5, <1>6, SpanFacts
  <2>2. \A i \in DOMAIN spans : i # n => (point \in Points(after[i]) <=> point \in Points(spans[i]))
    BY <1>4
  <2>3. point \in Points(after[n]) <=> point \in Points(spans[n]) \/ point \in Points(span)
    BY <1>4, <2>1 DEF last
  <2> QED
    BY <1>1, <1>4, <2>2, <2>3 DEF Covers
<1> QED
  BY <1>4, <1>7, <1>8, <1>9 DEF Joined, after, longer, last, n

\* A span beyond the last range is a range of its own.
LEMMA AppendKeeps ==
    ASSUME NEW spans \in Seq(SpanType), NEW span \in SpanType,
           Apart(spans), \A i \in DOMAIN spans : spans[i].first <= span.first,
           span.first < span.past, spans = <<>> \/ spans[Len(spans)].past < span.first
    PROVE  Joined(spans, span, Append(spans, span))
<1> DEFINE n == Len(spans)
           after == Append(spans, span)
<1>1. n \in Nat /\ DOMAIN spans = 1 .. n /\ (spans # <<>> => n \in DOMAIN spans)
  BY EmptySeq, LenProperties
<1>2. \A i \in DOMAIN spans : spans[i] \in SpanType
  BY <1>1, ElementOfSeq
<1>3. /\ after \in Seq(SpanType) /\ DOMAIN after = 1 .. n + 1
      /\ after[n + 1] = span /\ \A i \in DOMAIN spans : after[i] = spans[i]
  BY <1>1, AppendProperties, LenProperties
<1>4. /\ span.first \in Nat /\ span.past \in Nat
      /\ \A i \in DOMAIN spans : spans[i].first \in Nat /\ spans[i].past \in Nat
  BY <1>2, SpanFacts
<1> HIDE DEF after
<1>5. ASSUME NEW i \in DOMAIN spans PROVE spans[i].past < span.first
  <2>1. spans # <<>>
    BY <1>1, EmptySeq
  <2>2. n \in DOMAIN spans /\ spans[n].past < span.first
    BY <1>1, <2>1
  <2>3. CASE i = n
    BY <2>2, <2>3
  <2>4. CASE i # n
    <3>1. i < n
      BY <1>1, <2>4
    <3>2. spans[i].past < spans[n].first /\ spans[n].first < spans[n].past
      BY <2>2, <3>1 DEF Apart
    <3> QED
      BY <1>4, <2>2, <3>2
  <2> QED
    BY <2>3, <2>4
<1>6. Apart(after)
  <2>1. ASSUME NEW i \in DOMAIN after PROVE after[i].first < after[i].past
    <3>1. CASE i = n + 1
      BY <1>3, <3>1
    <3>2. CASE i \in DOMAIN spans
      BY <1>3, <3>2 DEF Apart
    <3> QED
      BY <1>1, <1>3, <3>1, <3>2
  <2>2. ASSUME NEW i \in DOMAIN after, NEW j \in DOMAIN after, i < j
        PROVE  after[i].past < after[j].first
    <3>1. i \in DOMAIN spans
      BY <1>1, <1>3, <2>2
    <3>2. CASE j = n + 1
      BY <1>3, <1>5, <3>1, <3>2
    <3>3. CASE j \in DOMAIN spans
      BY <1>3, <2>2, <3>1, <3>3 DEF Apart
    <3> QED
      BY <1>1, <1>3, <3>2, <3>3
  <2> QED
    BY <2>1, <2>2 DEF Apart
<1>7. \A i \in DOMAIN after : after[i].first <= span.first
  <2> SUFFICES ASSUME NEW i \in DOMAIN after PROVE after[i].first <= span.first
    OBVIOUS
  <2>1. CASE i = n + 1
    BY <1>3, <1>4, <2>1
  <2>2. CASE i \in DOMAIN spans
    BY <1>3, <2>2
  <2> QED
    BY <1>1, <1>3, <2>1, <2>2
<1>8. ASSUME NEW point \in Int
      PROVE  Covers(after, point) <=> Covers(spans, point) \/ point \in Points(span)
  <2>1. DOMAIN after = DOMAIN spans \cup {n + 1}
    BY <1>1, <1>3
  <2> QED
    BY <1>3, <2>1 DEF Covers
<1> QED
  BY <1>3, <1>6, <1>7, <1>8 DEF Joined, after

\* One pass of the loop: what is kept covers the span as well, stays apart, and
\* starts no later than the span.
LEMMA JoinKeeps ==
    ASSUME NEW spans \in Seq(SpanType), NEW span \in SpanType,
           Apart(spans), \A i \in DOMAIN spans : spans[i].first <= span.first
    PROVE  Joined(spans, span, Join(spans, span))
<1>1. CASE span.past <= span.first /\ Join(spans, span) = spans
  <2>1. \A point \in Int : point \notin Points(span)
    BY <1>1, SpanFacts
  <2> QED
    BY <1>1, <2>1 DEF Joined
<1>2. CASE /\ span.first < span.past /\ spans # <<>>
           /\ span.first <= spans[Len(spans)].past
           /\ Join(spans, span) =
                  [spans EXCEPT ![Len(spans)] = Extended(spans[Len(spans)], span)]
  BY <1>2, ExtendKeeps
<1>3. CASE /\ span.first < span.past
           /\ spans = <<>> \/ spans[Len(spans)].past < span.first
           /\ Join(spans, span) = Append(spans, span)
  BY <1>3, AppendKeeps
<1> QED
  BY <1>1, <1>2, <1>3, JoinCases

-----------------------------------------------------------------------------
(* The whole merge.                                                        *)

LEMMA RInit == MergeInit => RInv
<1> SUFFICES ASSUME MergeInit PROVE RInv
  OBVIOUS
<1>1. merged = <<>> /\ rest = given /\ Sorted(given)
  BY DEF MergeInit
<1>2. PICK n \in 0 .. MaxRanges : given \in [1 .. n -> SpanType]
  BY DEF MergeInit
<1>3. given \in Seq(SpanType)
  BY <1>2, IsASeq, RangesAssumption
<1>4. merged \in Seq(SpanType) /\ DOMAIN merged = {}
  BY <1>1, EmptySeq
<1> QED
  BY <1>1, <1>3, <1>4 DEF RInv, RangesTyped, InOrder, Apart, SamePoints, Covers

LEMMA RStep == RInv /\ [Merge]_rangeVars => RInv'
<1> SUFFICES ASSUME RInv, [Merge]_rangeVars PROVE RInv'
  OBVIOUS
<1>1. CASE UNCHANGED rangeVars
  BY <1>1 DEF rangeVars, RInv, RangesTyped, InOrder, Apart, SamePoints, Sorted, Covers
<1>2. CASE Merge
  <2> DEFINE span == Head(rest)
  <2>1. /\ rest # <<>> /\ rest \in Seq(SpanType) /\ merged \in Seq(SpanType)
        /\ given' = given /\ rest' = Tail(rest) /\ merged' = Join(merged, span)
    BY <1>2 DEF Merge, RInv, RangesTyped
  <2>2. Len(rest) \in Nat /\ DOMAIN rest = 1 .. Len(rest) /\ 1 \in DOMAIN rest
    BY <2>1, EmptySeq, LenProperties
  <2>3. span \in SpanType /\ span = rest[1]
    BY <2>1, HeadTailProperties
  <2>4. /\ rest' \in Seq(SpanType) /\ DOMAIN rest' = 1 .. Len(rest) - 1
        /\ \A i \in DOMAIN rest' : i + 1 \in DOMAIN rest /\ rest'[i] = rest[i + 1]
    BY <2>1, <2>2, HeadTailProperties, LenProperties
  <2>5. Joined(merged, span, merged')
    BY <2>1, <2>2, <2>3, JoinKeeps DEF RInv, InOrder
  <2> HIDE DEF span
  <2>6. RangesTyped'
    BY <2>1, <2>4, <2>5 DEF RInv, RangesTyped, Joined
  <2>7. \A i \in DOMAIN rest : rest[i] \in SpanType
    BY <2>1, <2>2, ElementOfSeq
  <2>8. \A i \in DOMAIN rest : rest[i].first \in Nat
    BY <2>7, SpanFacts
  <2>9. Sorted(rest')
    BY <2>2, <2>4 DEF RInv, InOrder, Sorted
  <2>10. ASSUME NEW i \in DOMAIN merged', NEW j \in DOMAIN rest'
         PROVE  merged'[i].first <= rest'[j].first
    <3>1. merged'[i].first <= rest[1].first
      BY <2>3, <2>5 DEF Joined
    <3>2. rest[1].first <= rest[j + 1].first
      BY <2>2, <2>4 DEF RInv, InOrder, Sorted
    <3>3. merged'[i] \in SpanType
      BY <2>5, LenProperties, ElementOfSeq DEF Joined
    <3>4. merged'[i].first \in Nat
      BY <3>3, SpanFacts
    <3> QED
      BY <2>2, <2>4, <2>8, <3>1, <3>2, <3>4
  <2>11. InOrder'
    BY <2>9, <2>10 DEF InOrder
  <2>12. Apart(merged')
    BY <2>5 DEF Joined
  <2>13. ASSUME NEW point \in Int
         PROVE  Covers(rest, point) <=> point \in Points(span) \/ Covers(rest', point)
    <3>1. ASSUME Covers(rest, point), point \notin Points(span) PROVE Covers(rest', point)
      <4>1. PICK i \in DOMAIN rest : point \in Points(rest[i])
        BY <3>1 DEF Covers
      <4>2. i # 1
        BY <2>3, <3>1, <4>1
      <4>3. i - 1 \in DOMAIN rest' /\ rest'[i - 1] = rest[i]
        BY <2>2, <2>4, <4>2
      <4> QED
        BY <4>1, <4>3 DEF Covers
    <3>2. ASSUME Covers(rest', point) PROVE Covers(rest, point)
      BY <2>4, <3>2 DEF Covers
    <3>3. ASSUME point \in Points(span) PROVE Covers(rest, point)
      BY <2>2, <2>3, <3>3 DEF Covers
    <3> QED
      BY <3>1, <3>2, <3>3
  <2>14. SamePoints'
    BY <2>1, <2>5, <2>13 DEF RInv, SamePoints, Joined
  <2> QED
    BY <2>6, <2>11, <2>12, <2>14 DEF RInv
<1> QED
  BY <1>1, <1>2

LEMMA RInvariance == MergeSpec => []RInv
BY RInit, RStep, PTL DEF MergeSpec

LEMMA PointsAreCovered ==
    ASSUME NEW spans \in Seq(SpanType)
    PROVE  \A point : point \in PointsIn(spans) <=> point \in Int /\ Covers(spans, point)
<1>1. \A i \in DOMAIN spans : spans[i] \in SpanType
  BY LenProperties, ElementOfSeq
<1>2. \A i \in DOMAIN spans : \A point \in Points(spans[i]) : point \in Int
  BY <1>1, SpanFacts
<1> QED
  BY <1>2 DEF PointsIn, Covers

\* However many ranges there are and however they overlap, touch or are empty:
\* the merge keeps exactly their positions, sorted and apart.
THEOREM MergesAreExact == MergeSpec => []MergeIsExact
<1>1. RInv => MergeIsExact
  <2> SUFFICES ASSUME RInv PROVE MergeIsExact
    OBVIOUS
  <2>1. MergedApart
    BY DEF RInv, Apart, MergedApart
  <2>2. ASSUME NEW point
        PROVE  point \in PointsIn(merged) \cup PointsIn(rest) <=> point \in PointsIn(given)
    BY PointsAreCovered DEF RInv, RangesTyped, SamePoints
  <2>3. MergeKeepsPoints
    BY <2>2 DEF MergeKeepsPoints
  <2> QED
    BY <2>1, <2>3 DEF MergeIsExact
<1> QED
  BY <1>1, RInvariance, PTL

-----------------------------------------------------------------------------
(* The search.                                                             *)

\* The binary search over ranges that are apart finds every target that
\* touches one of them, and no other.
LEMMA SearchDecides ==
    ASSUME NEW spans \in Seq(SpanType), Apart(spans), NEW target \in SpanType
    PROVE  Overlaps(spans, target) <=>
               \E point \in Touched(target) : point \in Int /\ Covers(spans, point)
<1>1. target.first \in Nat /\ target.past \in Nat
  BY SpanFacts
<1>2. DOMAIN spans \subseteq Nat /\ \A i \in DOMAIN spans : spans[i] \in SpanType
  BY LenProperties, ElementOfSeq
<1>3. \A i \in DOMAIN spans : spans[i].first \in Nat /\ spans[i].past \in Nat
  BY <1>2, SpanFacts
<1>4. \A i \in DOMAIN spans : \A point \in Int :
          point \in Points(spans[i]) <=> spans[i].first <= point /\ point < spans[i].past
  BY <1>2, SpanFacts
<1>5. \A point : point \in Touched(target) <=>
          IF target.past <= target.first
          THEN point = target.first
          ELSE point \in Int /\ target.first <= point /\ point < target.past
  BY SpanFacts DEF Touched
<1>6. ASSUME Overlaps(spans, target)
      PROVE  \E point \in Touched(target) : point \in Int /\ Covers(spans, point)
  <2>1. PICK i \in DOMAIN spans :
            /\ spans[i].past > target.first
            /\ IF target.past <= target.first
               THEN spans[i].first <= target.first
               ELSE spans[i].first < target.past
    BY <1>6 DEF Overlaps
  <2>2. spans[i].first < spans[i].past
    BY DEF Apart
  <2> DEFINE point == IF target.first < spans[i].first THEN spans[i].first ELSE target.first
  <2>3. point \in Touched(target)
    BY <1>1, <1>3, <1>5, <2>1
  <2>4. point \in Int /\ point \in Points(spans[i])
    BY <1>1, <1>3, <1>4, <2>1, <2>2
  <2> QED
    BY <2>3, <2>4 DEF Covers
<1>7. ASSUME NEW point \in Touched(target), point \in Int, Covers(spans, point)
      PROVE  Overlaps(spans, target)
  <2>1. PICK k \in DOMAIN spans : spans[k].first <= point /\ point < spans[k].past
    BY <1>4, <1>7 DEF Covers
  <2>2. target.first <= point
    BY <1>1, <1>5
  <2> DEFINE S == {i \in DOMAIN spans : spans[i].past > target.first}
  <2>3. k \in S
    BY <1>1, <1>3, <1>7, <2>1, <2>2
  <2>4. PICK m \in S : \A n \in S : m <= n
    BY <1>2, <2>3, LeastNatural
  <2>5. \A j \in DOMAIN spans : j < m => spans[j].past <= target.first
    BY <1>1, <1>2, <1>3, <2>4
  <2>6. spans[m].first <= point /\ (m # k => spans[m].past <= point)
    <3>1. CASE m = k
      BY <2>1, <3>1
    <3>2. CASE m # k
      <4>1. m < k
        BY <1>2, <2>3, <2>4, <3>2
      <4>2. spans[m].first < spans[m].past /\ spans[m].past < spans[k].first
        BY <2>4, <4>1 DEF Apart
      <4> QED
        BY <1>3, <1>7, <2>1, <2>4, <4>2
    <3> QED
      BY <3>1, <3>2
  <2>7. IF target.past <= target.first
        THEN spans[m].first <= target.first
        ELSE spans[m].first < target.past
    BY <1>1, <1>3, <1>5, <1>7, <2>4, <2>6
  <2> QED
    BY <2>4, <2>5, <2>7 DEF Overlaps
<1> QED
  BY <1>6, <1>7

\* After every merge one search decides for every target whether it touches a
\* range that was given.
THEOREM SearchesAreExact == MergeSpec => []SearchIsExact
<1>1. RInv => SearchIsExact
  <2> SUFFICES ASSUME RInv, rest = <<>>, NEW target \in SpanType
               PROVE  Overlaps(merged, target) <=> Touched(target) \cap PointsIn(given) # {}
    BY DEF SearchIsExact
  <2>1. \A point \in Int : ~Covers(rest, point)
    BY EmptySeq DEF Covers
  <2>2. \A point : point \in PointsIn(given) <=> point \in Int /\ Covers(merged, point)
    BY <2>1, PointsAreCovered DEF RInv, RangesTyped, SamePoints
  <2>3. Overlaps(merged, target) <=>
            \E point \in Touched(target) : point \in Int /\ Covers(merged, point)
    BY SearchDecides DEF RInv, RangesTyped
  <2> QED
    BY <2>2, <2>3
<1> QED
  BY <1>1, RInvariance, PTL

-----------------------------------------------------------------------------
(* Names in headers.                                                       *)

Bytes == 1 .. 255

Letters == {97, 98, 102, 110, 114, 116, 118, Quote, Backslash}

LEMMA EscapeFacts ==
    /\ DOMAIN Escapes = Letters /\ \A l \in Letters : Escapes[l] \in Bytes
    /\ \A l \in Letters : l \in Bytes /\ l \notin Digits
  BY DEF Escapes, Letters, Bytes, Digits, Quote, Backslash, Tab

\* What QuotedByte makes of a byte: a letter's escape, three digits, or itself.
LEMMA QuotedCases ==
    ASSUME NEW b \in Bytes
    PROVE  \/ \E l \in Letters : Escapes[l] = b /\ QuotedByte(b) = <<Backslash, l>>
           \/ \E x \in 0 .. 3, y \in 0 .. 7, z \in 0 .. 7 :
                 b = 64 * x + 8 * y + z /\ QuotedByte(b) = <<Backslash, 48 + x, 48 + y, 48 + z>>
           \/ b \notin {Quote, Backslash} /\ QuotedByte(b) = <<b>>
<1>1. CASE \E l \in DOMAIN Escapes : Escapes[l] = b
  BY <1>1, EscapeFacts DEF QuotedByte
<1>2. CASE ~(\E l \in DOMAIN Escapes : Escapes[l] = b) /\ NeedsQuotes(b)
  <2> DEFINE x == b \div 64
             y == (b \div 8) % 8
             z == b % 8
  <2>1. x \in 0 .. 3 /\ y \in 0 .. 7 /\ z \in 0 .. 7 /\ b = 64 * x + 8 * y + z
    BY DEF Bytes
  <2>2. QuotedByte(b) = <<Backslash, 48 + x, 48 + y, 48 + z>>
    BY <1>2 DEF QuotedByte
  <2> HIDE DEF x, y, z
  <2>3. QED BY <2>1, <2>2
<1>3. CASE ~(\E l \in DOMAIN Escapes : Escapes[l] = b) /\ ~NeedsQuotes(b)
  BY <1>3 DEF QuotedByte, NeedsQuotes
<1>4. QED BY <1>1, <1>2, <1>3

\* The escape of three digits from position i on.
HoldsOctal(text, i, x, y, z) ==
    /\ text \in Seq(Bytes) /\ i \in Nat /\ i >= 1 /\ i + 2 <= Len(text)
    /\ x \in 0 .. 3 /\ y \in 0 .. 7 /\ z \in 0 .. 7
    /\ text[i] = 48 + x /\ text[i + 1] = 48 + y /\ text[i + 2] = 48 + z

LEMMA OctalReads ==
    ASSUME NEW text, NEW i, NEW x, NEW y, NEW z, HoldsOctal(text, i, x, y, z)
    PROVE  DigitsAt(text, i) = 3 /\ OctalAt(text, i) = 64 * x + 8 * y + z
<1> USE DEF HoldsOctal
<1>0. Len(text) \in Nat
  BY LenProperties
<1> DEFINE Right(n) == /\ \A j \in i .. i + n - 1 : j <= Len(text) /\ text[j] \in Digits
                       /\ n = 3 \/ i + n > Len(text) \/ text[i + n] \notin Digits
<1>1. text[i] \in Digits /\ text[i + 1] \in Digits /\ text[i + 2] \in Digits
  BY DEF Digits
<1>2. Right(3)
  <2>1. \A j \in i .. i + 2 : j = i \/ j = i + 1 \/ j = i + 2
    OBVIOUS
  <2>2. QED BY <1>0, <1>1, <2>1
<1>3. ~Right(1) /\ ~Right(2)
  BY <1>0, <1>1
<1>4. \A n \in 1 .. 3 : Right(n) => n = 3
  <2> HIDE DEF Right
  <2>1. \A n \in 1 .. 3 : n = 1 \/ n = 2 \/ n = 3
    OBVIOUS
  <2>2. QED BY <1>3, <2>1
<1>5. DigitsAt(text, i) = CHOOSE n \in 1 .. 3 : Right(n)
  BY DEF DigitsAt
<1>6. DigitsAt(text, i) = 3
  <2> HIDE DEF Right
  <2>1. QED BY <1>2, <1>4, <1>5
<1>7. OctalAt(text, i) = ((8 * ((8 * x + y) % 256)) + z) % 256
  <2>1. i + 0 = i /\ text[i + 0] - 48 = x /\ text[i + 1] - 48 = y /\ text[i + 2] - 48 = z
    OBVIOUS
  <2>2. QED BY <1>6, <2>1 DEF OctalAt
<1>8. (8 * x + y) % 256 = 8 * x + y /\ 8 * (8 * x + y) + z \in 0 .. 255
  OBVIOUS
<1>9. ((8 * (8 * x + y)) + z) % 256 = 64 * x + 8 * y + z
  BY <1>8
<1>10. QED BY <1>6, <1>7, <1>8, <1>9

Reading(at, bytes, ended) == [at |-> at, bytes |-> bytes, ended |-> ended]

\* One turn of the loop takes what was written for one byte.
LEMMA TurnReads ==
    ASSUME NEW text \in Seq(Bytes), NEW b \in Bytes, NEW at \in Nat, at >= 1, NEW bytes,
           \A j \in 1 .. Len(QuotedByte(b)) :
              at + j - 1 <= Len(text) /\ text[at + j - 1] = QuotedByte(b)[j]
    PROVE  UnquoteTurn(text, Reading(at, bytes, "no"))
               = Reading(at + Len(QuotedByte(b)), Append(bytes, b), "no")
<1>0. Len(text) \in Nat
  BY LenProperties
<1> DEFINE q == QuotedByte(b)
           s == Reading(at, bytes, "no")
<1>s. s.at = at /\ s.bytes = bytes /\ s.ended = "no"
  BY DEF Reading
<1>1. CASE \E l \in Letters : Escapes[l] = b /\ QuotedByte(b) = <<Backslash, l>>
  <2>1. PICK l \in Letters : Escapes[l] = b /\ QuotedByte(b) = <<Backslash, l>>
    BY <1>1
  <2>2. Len(q) = 2 /\ q[1] = Backslash /\ q[2] = l
    BY <2>1
  <2>3. at <= Len(text) /\ text[at] = Backslash /\ at + 1 <= Len(text) /\ text[at + 1] = l
    <3>1. 1 \in 1 .. Len(q) /\ 2 \in 1 .. Len(q) /\ at + 1 - 1 = at /\ at + 2 - 1 = at + 1
      BY <2>2
    <3>2. QED BY <2>2, <3>1
  <2> HIDE DEF q, s
  <2>4. UnquoteTurn(text, s) = Reading(at + 2, Append(bytes, b), "no")
    
    <3>1. l \in DOMAIN Escapes /\ Escapes[l] = b /\ l \notin Digits
      BY <2>1, EscapeFacts
    <3>2. ~(s.ended # "no" \/ s.at > Len(text)) /\ s.at # Len(text)
      BY <1>0, <1>s, <2>3
    <3>3. text[s.at] = Backslash /\ text[s.at + 1] = l /\ Backslash # Quote
      BY <1>s, <2>3 DEF Backslash, Quote
    <3>4. UnquoteTurn(text, s) = [at |-> s.at + 2, bytes |-> Append(s.bytes, b), ended |-> "no"]
      BY <3>1, <3>2, <3>3 DEF UnquoteTurn
    <3>5. QED BY <1>s, <3>4 DEF Reading
  <2>5. QED BY <2>2, <2>4 DEF q, s
<1>2. CASE \E x \in 0 .. 3, y \in 0 .. 7, z \in 0 .. 7 :
              b = 64 * x + 8 * y + z /\ QuotedByte(b) = <<Backslash, 48 + x, 48 + y, 48 + z>>
  <2>1. PICK x \in 0 .. 3, y \in 0 .. 7, z \in 0 .. 7 :
              b = 64 * x + 8 * y + z /\ QuotedByte(b) = <<Backslash, 48 + x, 48 + y, 48 + z>>
    BY <1>2
  <2>2. Len(q) = 4 /\ q[1] = Backslash /\ q[2] = 48 + x /\ q[3] = 48 + y /\ q[4] = 48 + z
    BY <2>1
  <2>3. /\ at <= Len(text) /\ text[at] = Backslash
        /\ at + 1 <= Len(text) /\ text[at + 1] = 48 + x
        /\ at + 2 <= Len(text) /\ text[at + 2] = 48 + y
        /\ at + 3 <= Len(text) /\ text[at + 3] = 48 + z
    <3>1. /\ 1 \in 1 .. Len(q) /\ 2 \in 1 .. Len(q) /\ 3 \in 1 .. Len(q) /\ 4 \in 1 .. Len(q)
          /\ at + 1 - 1 = at /\ at + 2 - 1 = at + 1 /\ at + 3 - 1 = at + 2 /\ at + 4 - 1 = at + 3
      BY <2>2
    <3>2. QED BY <2>2, <3>1
  <2> HIDE DEF q, s
  <2>4. DigitsAt(text, at + 1) = 3 /\ OctalAt(text, at + 1) = b
    <3> DEFINE i == at + 1
    <3>1. i \in Nat /\ i >= 1 /\ i + 1 = at + 2 /\ i + 2 = at + 3
      OBVIOUS
    <3>2. i + 2 <= Len(text) /\ text[i] = 48 + x /\ text[i + 1] = 48 + y /\ text[i + 2] = 48 + z
      BY <2>3, <3>1
    <3> HIDE DEF i
    <3>h. HoldsOctal(text, i, x, y, z)
      BY <3>1, <3>2, <2>1 DEF HoldsOctal
    <3>3. DigitsAt(text, i) = 3 /\ OctalAt(text, i) = 64 * x + 8 * y + z
      BY <3>h, OctalReads
    <3>4. QED BY <2>1, <3>3 DEF i
  <2>5. text[at + 1] \in Digits /\ text[at + 1] \notin DOMAIN Escapes
    BY <2>3, EscapeFacts DEF Digits
  <2>6. UnquoteTurn(text, s) = Reading(at + 4, Append(bytes, b), "no")
    
    <3>1. ~(s.ended # "no" \/ s.at > Len(text)) /\ s.at # Len(text)
      BY <1>0, <1>s, <2>3
    <3>2. text[s.at] = Backslash /\ Backslash # Quote
      BY <1>s, <2>3 DEF Backslash, Quote
    <3>3. text[s.at + 1] \in Digits /\ text[s.at + 1] \notin DOMAIN Escapes
          /\ DigitsAt(text, s.at + 1) = 3 /\ OctalAt(text, s.at + 1) = b
      BY <1>s, <2>4, <2>5
    <3>4. UnquoteTurn(text, s) = [at |-> s.at + (1 + 3), bytes |-> Append(s.bytes, b), ended |-> "no"]
      BY <3>1, <3>2, <3>3 DEF UnquoteTurn
    <3>5. QED BY <1>s, <3>4 DEF Reading
  <2>7. QED BY <2>2, <2>6 DEF q, s
<1>3. CASE b \notin {Quote, Backslash} /\ QuotedByte(b) = <<b>>
  <2>1. Len(q) = 1 /\ q[1] = b
    BY <1>3
  <2>2. at <= Len(text) /\ text[at] = b
    <3>1. 1 \in 1 .. Len(q) /\ at + 1 - 1 = at
      BY <2>1
    <3>2. QED BY <2>1, <3>1
  <2> HIDE DEF q, s
  <2>3. UnquoteTurn(text, s) = Reading(at + 1, Append(bytes, b), "no")
    
    <3>1. ~(s.ended # "no" \/ s.at > Len(text))
      BY <1>0, <1>s, <2>2
    <3>2. text[s.at] = b
      BY <1>s, <2>2
    <3>3. UnquoteTurn(text, s) = [at |-> s.at + 1, bytes |-> Append(s.bytes, b), ended |-> "no"]
      BY <1>3, <3>1, <3>2 DEF UnquoteTurn
    <3>4. QED BY <1>s, <3>3 DEF Reading
  <2>4. QED BY <2>1, <2>3 DEF q, s
<1>4. QED BY <1>1, <1>2, <1>3, QuotedCases

\* The turns of unquote_git_path's loop up to the n-th.
Turns(text, read, n) ==
    read = [k \in 0 .. n |->
              IF k = 0 THEN [at |-> 1, bytes |-> <<>>, ended |-> "no"]
              ELSE UnquoteTurn(text, read[k - 1])]

LEMMA TurnsExist ==
    ASSUME NEW text, NEW n \in Nat
    PROVE  \E read : Turns(text, read, n)
<1> DEFINE T == {k \in Nat : ~\E read : Turns(text, read, k)}
<1> SUFFICES ASSUME T # {} PROVE FALSE
  OBVIOUS
<1>1. PICK k \in T : \A y \in T : k <= y
  BY LeastNatural
<1>2. k \in Nat /\ ~\E read : Turns(text, read, k)
  OBVIOUS
<1> DEFINE start == [at |-> 1, bytes |-> <<>>, ended |-> "no"]
<1>3. CASE k = 0
  <2> DEFINE h == [i \in 0 .. 0 |-> start]
  <2>1. \A i \in 0 .. 0 : i = 0
    OBVIOUS
  <2>2. Turns(text, h, 0)
    <3> HIDE DEF start
    <3>1. h = [i \in 0 .. 0 |-> IF i = 0 THEN start ELSE UnquoteTurn(text, h[i - 1])]
      BY <2>1
    <3> HIDE DEF h
    <3>2. QED BY <3>1 DEF Turns, start
  <2>3. QED BY <1>2, <1>3, <2>2
<1>4. CASE k > 0
  <2>1. k - 1 \in Nat /\ k - 1 \notin T
    BY <1>1, <1>2, <1>4
  <2>2. PICK g : Turns(text, g, k - 1)
    BY <2>1
  <2> DEFINE h == [i \in 0 .. k |-> IF i < k THEN g[i] ELSE UnquoteTurn(text, g[k - 1])]
  <2> HIDE DEF start
  <2>3. ASSUME NEW i \in 0 .. k
        PROVE  h[i] = IF i = 0 THEN start ELSE UnquoteTurn(text, h[i - 1])
    <3>1. CASE i = k
      <4>1. h[k] = UnquoteTurn(text, g[k - 1]) /\ h[k - 1] = g[k - 1]
        BY <1>2, <1>4
      <4> HIDE DEF h
      <4>2. QED BY <1>4, <3>1, <4>1
    <3>2. CASE i < k
      <4>1. g[i] = IF i = 0 THEN start ELSE UnquoteTurn(text, g[i - 1])
        <5>1. i \in 0 .. (k - 1)
          BY <1>2, <3>2
        <5>2. QED BY <2>2, <5>1, Zenon DEF Turns, start
      <4>2. h[i] = g[i] /\ (i # 0 => h[i - 1] = g[i - 1])
        BY <1>2, <3>2
      <4> HIDE DEF h
      <4>3. QED BY <4>1, <4>2
    <3>3. QED BY <1>2, <3>1, <3>2
  <2>4. Turns(text, h, k)
    <3>1. h = [i \in 0 .. k |-> h[i]]
      OBVIOUS
    <3> HIDE DEF h
    <3>2. [i \in 0 .. k |-> h[i]] = [i \in 0 .. k |-> IF i = 0 THEN start ELSE UnquoteTurn(text, h[i - 1])]
      BY <2>3
    <3>3. QED BY <3>1, <3>2 DEF Turns, start
  <2>5. QED BY <1>2, <2>4
<1>5. QED BY <1>2, <1>3, <1>4

\* What unquote_git_path makes of the text is what the last turn leaves.
LEMMA UnquotedIsLastTurn ==
    ASSUME NEW text, Len(text) \in Nat
    PROVE  \E read :
             /\ \A k \in 0 .. Len(text) :
                  read[k] = IF k = 0 THEN Reading(1, <<>>, "no")
                            ELSE UnquoteTurn(text, read[k - 1])
             /\ Unquoted(text) = IF read[Len(text)].ended = "closed"
                                 THEN read[Len(text)].bytes ELSE NoFile
<1> DEFINE read == CHOOSE r : Turns(text, r, Len(text))
<1>1. Turns(text, read, Len(text))
  BY TurnsExist
<1>2. Unquoted(text) = IF read[Len(text)].ended = "closed" THEN read[Len(text)].bytes ELSE NoFile
  BY DEF Unquoted, Turns
<1> HIDE DEF read
<1>3. \A k \in 0 .. Len(text) :
        read[k] = IF k = 0 THEN Reading(1, <<>>, "no") ELSE UnquoteTurn(text, read[k - 1])
  BY <1>1, Zenon DEF Turns, Reading
<1>4. QED BY <1>2, <1>3

\* The escape of a byte is a text of bytes.
LEMMA QuotedByteTyped ==
    ASSUME NEW b \in Bytes
    PROVE  QuotedByte(b) \in Seq(Bytes) /\ Len(QuotedByte(b)) \in 1 .. 4
<1>1. CASE \E l \in Letters : Escapes[l] = b /\ QuotedByte(b) = <<Backslash, l>>
  <2>1. PICK l \in Letters : QuotedByte(b) = <<Backslash, l>>
    BY <1>1
  <2>2. Backslash \in Bytes /\ l \in Bytes
    BY EscapeFacts DEF Backslash, Bytes
  <2>3. QED BY <2>1, <2>2
<1>2. CASE \E x \in 0 .. 3, y \in 0 .. 7, z \in 0 .. 7 :
              b = 64 * x + 8 * y + z /\ QuotedByte(b) = <<Backslash, 48 + x, 48 + y, 48 + z>>
  <2>1. PICK x \in 0 .. 3, y \in 0 .. 7, z \in 0 .. 7 :
              QuotedByte(b) = <<Backslash, 48 + x, 48 + y, 48 + z>>
    BY <1>2
  <2>2. Backslash \in Bytes /\ 48 + x \in Bytes /\ 48 + y \in Bytes /\ 48 + z \in Bytes
    BY DEF Backslash, Bytes
  <2>3. QED BY <2>1, <2>2
<1>3. CASE QuotedByte(b) = <<b>>
  BY <1>3
<1>4. QED BY <1>1, <1>2, <1>3, QuotedCases

\* The first bytes of a name.
Begin(name, k) == [i \in 1 .. k |-> name[i]]

LEMMA BeginGrows ==
    ASSUME NEW name \in Seq(Bytes), NEW k \in Nat, k < Len(name)
    PROVE  Append(Begin(name, k), name[k + 1]) = Begin(name, k + 1)
<1> DEFINE b == name[k + 1]
           s == Begin(name, k)
           t == Begin(name, k + 1)
<1>0. Len(name) \in Nat
  BY LenProperties
<1>1. \A i \in 1 .. k + 1 : name[i] \in Bytes
  BY <1>0, ElementOfSeq
<1>2. s \in Seq(Bytes) /\ Len(s) = k /\ t \in Seq(Bytes) /\ Len(t) = k + 1
  <2>1. s \in [1 .. k -> Bytes] /\ t \in [1 .. k + 1 -> Bytes]
    BY <1>1 DEF Begin
  <2>2. k + 1 \in Nat
    OBVIOUS
  <2>3. QED BY <2>1, <2>2, IsASeq, LenProperties
<1>3. Append(s, b) \in Seq(Bytes) /\ Len(Append(s, b)) = k + 1
      /\ Append(s, b)[k + 1] = b /\ \A i \in 1 .. k : Append(s, b)[i] = s[i]
  BY <1>1, <1>2, AppendProperties
<1>4. \A i \in 1 .. k + 1 : Append(s, b)[i] = t[i]
  <2>1. \A i \in 1 .. k + 1 : i = k + 1 \/ i \in 1 .. k
    OBVIOUS
  <2>2. \A i \in 1 .. k : s[i] = t[i]
    BY DEF Begin
  <2>3. t[k + 1] = b
    BY DEF Begin
  <2> HIDE DEF s, t, b
  <2>4. QED BY <1>3, <2>1, <2>2, <2>3
<1>5. QED
  <2> HIDE DEF s, t, b
  <2>1. Append(s, b) = t
    BY <1>2, <1>3, <1>4, SeqEqual
  <2>2. QED BY <2>1 DEF s, t, b

LEMMA BeginIsWhole ==
    ASSUME NEW name \in Seq(Bytes)
    PROVE  Begin(name, Len(name)) = name
  BY LenProperties DEF Begin

\* A quoted name is read up to its closing quote, whatever follows.
LEMMA QuotedIsRead ==
    ASSUME NEW name \in Seq(Bytes), NEW after \in Seq(Bytes)
    PROVE  Unquoted(QuotedName(name) \o after) = name
<1> DEFINE n == Len(name)
           parts == [i \in DOMAIN name |-> QuotedByte(name[i])]
           flat == FlattenSeq(parts)
           text == QuotedName(name) \o after
<1>1. n \in Nat /\ DOMAIN name = 1 .. n /\ \A i \in 1 .. n : name[i] \in Bytes
  BY LenProperties, ElementOfSeq
<1>2. parts \in Seq(Seq(Bytes)) /\ Len(parts) = n
  <2>1. parts \in [1 .. n -> Seq(Bytes)]
    BY <1>1, QuotedByteTyped
  <2> HIDE DEF parts
  <2>2. QED BY <1>1, <2>1, IsASeq, LenProperties
<1>3. \A i \in 1 .. n : parts[i] = QuotedByte(name[i]) /\ Len(parts[i]) \in 1 .. 4
  BY <1>1, QuotedByteTyped
<1>t. QuotedName(name) = flat \o <<Quote>>
  BY DEF QuotedName
<1>f. \E start :
        /\ Offsets(parts, start, n)
        /\ Len(flat) = start[n + 1]
        /\ \A i \in 1 .. n : \A j \in 1 .. Len(parts[i]) :
             start[i] + j <= Len(flat) /\ flat[start[i] + j] = parts[i][j]
  <2> HIDE DEF parts, n
  <2>1. \E start :
        /\ Offsets(parts, start, Len(parts))
        /\ Len(FlattenSeq(parts)) = start[Len(parts) + 1]
        /\ \A i \in 1 .. Len(parts) : \A j \in 1 .. Len(parts[i]) :
             /\ start[i] + j <= Len(FlattenSeq(parts))
             /\ FlattenSeq(parts)[start[i] + j] = parts[i][j]
    BY <1>2, FlattenPlaces, Zenon
  <2>2. QED BY <1>2, <2>1
<1> HIDE DEF parts, n
<1>4. PICK start :
        /\ Offsets(parts, start, n)
        /\ Len(flat) = start[n + 1]
        /\ \A i \in 1 .. n : \A j \in 1 .. Len(parts[i]) :
             start[i] + j <= Len(flat) /\ flat[start[i] + j] = parts[i][j]
  BY <1>f
<1>5. flat \in Seq(Bytes)
  BY <1>2, FlattenPlaces
<1> HIDE DEF flat
<1>6. Quote \in Bytes
  BY DEF Quote, Bytes
<1>7. Len(flat) \in Nat /\ Len(after) \in Nat
  BY <1>5, LenProperties
<1>8. /\ text \in Seq(Bytes) /\ Len(text) = Len(flat) + 1 + Len(after)
      /\ \A k \in 1 .. Len(flat) : text[k] = flat[k]
      /\ text[Len(flat) + 1] = Quote
  <2> DEFINE q == flat \o <<Quote>>
  <2>1. q \in Seq(Bytes) /\ Len(q) = Len(flat) + 1 /\ q[Len(flat) + 1] = Quote
        /\ \A k \in 1 .. Len(flat) : q[k] = flat[k]
    <3>1. <<Quote>> \in Seq(Bytes) /\ Len(<<Quote>>) = 1 /\ <<Quote>>[1] = Quote /\ 1 \in 1 .. 1
      BY <1>6
    <3>2. QED BY <1>5, <1>7, <3>1, ConcatProperties
  <2> HIDE DEF q
  <2>2. text = q \o after
    BY <1>t DEF q
  <2> HIDE DEF text
  <2>3. text \in Seq(Bytes) /\ Len(text) = Len(q) + Len(after) /\ \A k \in 1 .. Len(q) : text[k] = q[k]
    <3>1. q \o after \in Seq(Bytes) /\ Len(q \o after) = Len(q) + Len(after)
          /\ \A k \in 1 .. Len(q) : (q \o after)[k] = q[k]
      <4>1. q \in Seq(Bytes) /\ after \in Seq(Bytes) /\ Len(q) \in Nat /\ Len(after) \in Nat
        BY <1>7, <2>1, LenProperties
      <4>2. QED BY <4>1, ConcatProperties
    <3>2. QED BY <2>2, <3>1
  <2>4. \A k \in 1 .. Len(flat) + 1 : text[k] = q[k]
    BY <2>1, <2>3
  <2>5. Len(flat) + 1 \in 1 .. Len(flat) + 1 /\ \A k \in 1 .. Len(flat) : k \in 1 .. Len(flat) + 1
    BY <1>7
  <2>6. QED BY <1>7, <2>1, <2>3, <2>4, <2>5
<1> HIDE DEF text
<1>9. Len(text) \in Nat
  BY <1>8, LenProperties
<1>10. PICK read :
        /\ \A k \in 0 .. Len(text) :
             read[k] = IF k = 0 THEN Reading(1, <<>>, "no") ELSE UnquoteTurn(text, read[k - 1])
        /\ Unquoted(text) = IF read[Len(text)].ended = "closed" THEN read[Len(text)].bytes ELSE NoFile
  BY <1>9, UnquotedIsLastTurn
<1>s. /\ start[1] = 0 /\ start[n + 1] \in Nat
      /\ \A i \in 1 .. n : start[i] \in Nat /\ start[i + 1] = start[i] + Len(parts[i])
  BY <1>4 DEF Offsets
<1> DEFINE Reached(k) == start[k + 1] \in Nat /\ k <= start[k + 1]
           Right(k) == read[k] = Reading(start[k + 1] + 1, Begin(name, k), "no")
<1>r. \A k \in 0 .. n : Reached(k)
  <2> DEFINE T == {k \in 0 .. n : ~Reached(k)}
  <2> SUFFICES ASSUME T # {} PROVE FALSE
    <3> HIDE DEF Reached
    <3>1. QED OBVIOUS
  <2>1. PICK k \in T : \A y \in T : k <= y
    <3>1. T \in SUBSET Nat
      <4> HIDE DEF Reached
      <4>1. QED BY <1>1
    <3> HIDE DEF T
    <3>2. QED BY <3>1, LeastNatural
  <2>2. k \in 0 .. n /\ ~Reached(k)
    OBVIOUS
  <2>3. k # 0
    <3>1. Reached(0)
      <4>1. 0 + 1 = 1
        OBVIOUS
      <4>2. QED BY <1>s, <4>1
    <3>2. QED BY <2>2, <3>1
  <2>4. k - 1 \in 0 .. n /\ k \in 1 .. n /\ (k - 1) + 1 = k
    <3> HIDE DEF T, Reached
    <3>1. QED BY <1>1, <2>2, <2>3
  <2>5. Reached(k - 1)
    <3> HIDE DEF Reached
    <3>1. k - 1 \in T => k <= k - 1
      <4> HIDE DEF T
      <4>1. QED BY <2>1
    <3>2. ~(k <= k - 1)
      BY <2>4
    <3>3. QED BY <2>4, <3>1, <3>2
  <2>6. start[k] \in Nat /\ k - 1 <= start[k]
    BY <2>4, <2>5
  <2> HIDE DEF T
  <2>7. Reached(k)
    <3>1. Len(parts[k]) \in 1 .. 4
      BY <1>3, <2>4
    <3>2. start[k + 1] = start[k] + Len(parts[k])
      BY <1>s, <2>4
    <3> DEFINE l == Len(parts[k])
               a == start[k]
               c == start[k + 1]
    <3>3. k \in Int /\ l \in 1 .. 4 /\ a \in Nat /\ k - 1 <= a /\ c = a + l
      BY <1>1, <2>4, <2>6, <3>1, <3>2
    <3> HIDE DEF l, a, c
    <3>4. c \in Nat /\ k <= c
      BY <3>3
    <3>5. QED BY <3>4 DEF c
  <2>8. QED BY <2>2, <2>7
<1>n. n <= Len(flat) /\ n + 1 <= Len(text)
  <2>1. n <= start[n + 1]
    BY <1>1, <1>r
  <2>2. QED BY <1>1, <1>4, <1>7, <1>8, <2>1
<1>11. ASSUME NEW k \in 1 .. n, Right(k - 1) PROVE Right(k)
  <2> DEFINE b == name[k]
             at == start[k] + 1
  <2>1. b \in Bytes /\ parts[k] = QuotedByte(b) /\ Len(parts[k]) \in 1 .. 4
    BY <1>1, <1>3
  <2>2. (k - 1) + 1 = k /\ start[k] \in Nat /\ start[k + 1] = start[k] + Len(parts[k])
    BY <1>s
  <2>4. ASSUME NEW j \in 1 .. Len(QuotedByte(b))
        PROVE  at + j - 1 <= Len(text) /\ text[at + j - 1] = QuotedByte(b)[j]
    <3>1. start[k] + j <= Len(flat) /\ flat[start[k] + j] = parts[k][j]
      BY <1>4, <2>1
    <3>2. at + j - 1 = start[k] + j /\ start[k] + j \in 1 .. Len(flat)
      BY <1>7, <2>1, <2>2, <3>1
    <3> HIDE DEF at, b
    <3>3. QED BY <1>7, <1>8, <2>1, <3>1, <3>2
  <2>5. at \in Nat /\ at >= 1
    BY <2>2
  <2>6. k \in 0 .. Len(text) /\ k # 0
    BY <1>1, <1>9, <1>n
  <2>7. read[k] = UnquoteTurn(text, read[k - 1])
    BY <1>10, <2>6
  <2>8. read[k - 1] = Reading(at, Begin(name, k - 1), "no")
    BY <1>11, <2>2
  <2> HIDE DEF at, b
  <2>9. UnquoteTurn(text, Reading(at, Begin(name, k - 1), "no"))
          = Reading(at + Len(QuotedByte(b)), Append(Begin(name, k - 1), b), "no")
    BY <1>8, <2>1, <2>4, <2>5, TurnReads
  <2>10. Append(Begin(name, k - 1), b) = Begin(name, k)
    <3>1. k - 1 \in Nat /\ k - 1 < Len(name) /\ (k - 1) + 1 = k
      BY <1>1 DEF n
    <3>2. Append(Begin(name, k - 1), name[(k - 1) + 1]) = Begin(name, (k - 1) + 1)
      BY <3>1, BeginGrows
    <3>3. QED BY <3>1, <3>2 DEF b
  <2>11. at + Len(QuotedByte(b)) = start[k + 1] + 1
    BY <2>1, <2>2 DEF at
  <2>12. QED BY <2>7, <2>8, <2>9, <2>10, <2>11
<1>12. Right(0)
  <2>1. 0 \in 0 .. Len(text) /\ start[0 + 1] + 1 = 1
    BY <1>9, <1>s
  <2>2. read[0] = Reading(1, <<>>, "no")
    BY <1>10, <2>1
  <2>3. Begin(name, 0) = <<>>
    BY DEF Begin
  <2>4. QED BY <2>1, <2>2, <2>3
<1>13. Right(n)
  <2> DEFINE T == {k \in 0 .. n : ~Right(k)}
  <2> HIDE DEF Right
  <2>0. SUFFICES ASSUME T # {} PROVE FALSE
    BY <1>1
  <2>1. PICK k \in T : \A y \in T : k <= y
    <3>1. T \in SUBSET Nat
      BY <1>1
    <3> HIDE DEF T
    <3>2. QED BY <2>0, <3>1, LeastNatural
  <2>2. k \in 0 .. n /\ ~Right(k) /\ k # 0
    BY <1>12
  <2>4. k - 1 \in 0 .. n /\ k \in 1 .. n
    <3> HIDE DEF T
    <3>1. QED BY <1>1, <2>2
  <2>5. Right(k - 1)
    <3>1. k - 1 \in T => k <= k - 1
      <4> HIDE DEF T
      <4>1. QED BY <2>1
    <3>2. ~(k <= k - 1)
      BY <2>4
    <3>3. QED BY <2>4, <3>1, <3>2
  <2>6. QED BY <1>11, <2>2, <2>4, <2>5
<1> DEFINE closed == [Reading(Len(flat) + 1, name, "no") EXCEPT !.ended = "closed"]
<1>14. read[n] = Reading(Len(flat) + 1, name, "no")
  BY <1>13, <1>4, BeginIsWhole DEF n
<1>15. UnquoteTurn(text, Reading(Len(flat) + 1, name, "no")) = closed
  <2> DEFINE s == Reading(Len(flat) + 1, name, "no")
  <2>1. s.at = Len(flat) + 1 /\ s.ended = "no"
    BY DEF Reading
  <2>2. ~(s.ended # "no" \/ s.at > Len(text)) /\ text[s.at] = Quote
    BY <1>7, <1>8, <2>1
  <2> HIDE DEF s
  <2>3. UnquoteTurn(text, s) = [s EXCEPT !.ended = "closed"]
    BY <2>2 DEF UnquoteTurn, Quote, Backslash
  <2>4. QED BY <2>3 DEF s
<1>16. closed.ended = "closed" /\ closed.bytes = name
  BY DEF Reading
<1>17. UnquoteTurn(text, closed) = closed
  <2> HIDE DEF closed
  <2>1. closed.ended # "no"
    BY <1>16
  <2>2. QED BY <2>1 DEF UnquoteTurn
<1> HIDE DEF closed
<1>18. \A k \in n + 1 .. Len(text) : read[k] = closed
  <2> DEFINE T == {k \in n + 1 .. Len(text) : read[k] # closed}
  <2>0. SUFFICES ASSUME T # {} PROVE FALSE
    OBVIOUS
  <2>1. PICK k \in T : \A y \in T : k <= y
    <3>1. T \in SUBSET Nat
      BY <1>1
    <3> HIDE DEF T
    <3>2. QED BY <2>0, <3>1, LeastNatural
  <2>2. k \in n + 1 .. Len(text) /\ read[k] # closed
    OBVIOUS
  <2>3. k \in 0 .. Len(text) /\ k # 0 /\ (k = n + 1 \/ k - 1 \in n + 1 .. Len(text))
    <3> HIDE DEF T
    <3>1. QED BY <1>1, <1>9, <2>2
  <2>4. read[k] = UnquoteTurn(text, read[k - 1])
    <3> HIDE DEF T
    <3>1. QED BY <1>10, <2>3
  <2>5. CASE k = n + 1
    <3>1. k - 1 = n
      <4> HIDE DEF T
      <4>1. QED BY <1>1, <2>5
    <3> HIDE DEF T
    <3>2. QED BY <1>14, <1>15, <2>2, <2>4, <3>1
  <2>6. CASE k - 1 \in n + 1 .. Len(text)
    <3>1. k - 1 \in T => k <= k - 1
      <4> HIDE DEF T
      <4>1. QED BY <2>1
    <3>2. ~(k <= k - 1)
      <4> HIDE DEF T
      <4>1. QED BY <2>3
    <3>3. read[k - 1] = closed
      BY <2>6, <3>1, <3>2
    <3>4. QED BY <1>17, <2>2, <2>4, <3>3
  <2>7. QED BY <2>3, <2>5, <2>6
<1>19. Len(text) \in n + 1 .. Len(text)
  BY <1>1, <1>9, <1>n
<1>20. Unquoted(text) = name
  BY <1>10, <1>16, <1>18, <1>19
<1>21. QED BY <1>20 DEF text

\* A plain name is read up to the first tab.
LEMMA PlainIsRead ==
    ASSUME NEW name \in Seq(Bytes), \A i \in 1 .. Len(name) : name[i] # Tab,
           NEW text, text = name \/ text = name \o <<Tab>>
    PROVE  BeforeTab(text) = name
<1> DEFINE n == Len(name)
           Ends(m) == /\ \A i \in 1 .. m : text[i] # Tab
                      /\ m = Len(text) \/ text[m + 1] = Tab
<1>1. n \in Nat
  BY LenProperties
<1>2. /\ text \in Seq(Bytes) /\ Len(text) \in {n, n + 1}
      /\ \A i \in 1 .. n : text[i] = name[i]
      /\ Len(text) = n + 1 => text[n + 1] = Tab
  <2>1. <<Tab>> \in Seq(Bytes) /\ Len(<<Tab>>) = 1 /\ <<Tab>>[1] = Tab
    BY DEF Tab, Bytes
  <2> DEFINE long == name \o <<Tab>>
  <2>2. /\ long \in Seq(Bytes) /\ Len(long) = n + 1 /\ long[n + 1] = Tab
        /\ \A i \in 1 .. n : long[i] = name[i]
    BY <1>1, <2>1, ConcatProperties
  <2> HIDE DEF long, n
  <2>3. text = name \/ text = long
    BY DEF long
  <2>4. QED BY <1>1, <2>2, <2>3 DEF n
<1>3. n \in 0 .. Len(text) /\ Ends(n)
  BY <1>1, <1>2
<1>4. \A m \in 0 .. Len(text) : Ends(m) => m = n
  <2> SUFFICES ASSUME NEW m \in 0 .. Len(text), Ends(m) PROVE m = n
    OBVIOUS
  <2>1. ~(m < n)
    <3> SUFFICES ASSUME m < n PROVE FALSE
      OBVIOUS
    <3>1. m + 1 \in 1 .. n /\ m # Len(text)
      BY <1>1, <1>2
    <3>2. QED BY <1>2, <3>1
  <2>2. ~(m > n)
    <3> SUFFICES ASSUME m > n PROVE FALSE
      OBVIOUS
    <3>1. m = n + 1 /\ n + 1 \in 1 .. m
      BY <1>1, <1>2
    <3>2. QED BY <1>1, <1>2, <3>1
  <2>3. QED BY <1>1, <1>2, <2>1, <2>2
<1>5. BeforeTab(text) = SubSeq(text, 1, CHOOSE m \in 0 .. Len(text) : Ends(m))
  BY DEF BeforeTab
<1> HIDE DEF Ends
<1>6. (CHOOSE m \in 0 .. Len(text) : Ends(m)) = n
  BY <1>3, <1>4
<1>7. SubSeq(text, 1, n) = name
  <2>1. /\ SubSeq(text, 1, n) \in Seq(Bytes)
        /\ Len(SubSeq(text, 1, n)) = n
        /\ \A i \in 1 .. n : SubSeq(text, 1, n)[i] = text[i]
    <3>1. CASE n = 0
      BY <1>2, <3>1, SubSeqProperties, SubSeqEmpty, EmptySeq
    <3>2. CASE n > 0
      BY <1>1, <1>2, <3>2, SubSeqProperties
    <3>3. QED BY <1>1, <3>1, <3>2
  <2> DEFINE sub == SubSeq(text, 1, n)
  <2> HIDE DEF sub
  <2>2. sub \in Seq(Bytes) /\ Len(sub) = Len(name) /\ \A i \in 1 .. Len(sub) : sub[i] = name[i]
    BY <1>2, <2>1 DEF sub
  <2>3. sub = name
    BY <2>2, SeqEqual
  <2>4. QED BY <2>3 DEF sub
<1>8. QED BY <1>5, <1>6, <1>7

\* What Git writes of a name is read as that name.
LEMMA NamesAreRead ==
    ASSUME NEW name \in Seq(Bytes)
    PROVE  NamedBy(HeaderOf(name)) = name
<1> DEFINE quoted == \E i \in DOMAIN name : NeedsQuotes(name[i])
           spaced == \E i \in DOMAIN name : name[i] = Space
           after == IF spaced THEN <<Tab>> ELSE <<>>
           h == HeaderOf(name)
<1>1. h.quoted = quoted /\ h.text = (IF quoted THEN QuotedName(name) ELSE name) \o after
  BY DEF HeaderOf
<1>2. after \in Seq(Bytes)
  <2>1. <<Tab>> \in Seq(Bytes) /\ <<>> \in Seq(Bytes)
    BY DEF Tab, Bytes
  <2>2. CASE spaced
    BY <2>1, <2>2
  <2>3. CASE ~spaced
    BY <2>1, <2>3
  <2>4. QED BY <2>2, <2>3
<1>3. CASE quoted
  <2>1. h.text = QuotedName(name) \o after /\ h.quoted
    BY <1>1, <1>3
  <2> HIDE DEF after, quoted, h
  <2>2. Unquoted(QuotedName(name) \o after) = name
    BY <1>2, QuotedIsRead
  <2>3. QED BY <2>1, <2>2 DEF NamedBy, h
<1>4. CASE ~quoted
  <2>1. \A i \in 1 .. Len(name) : name[i] # Tab
    BY <1>4 DEF NeedsQuotes, Tab
  <2>2. h.text = name \o after /\ ~h.quoted
    BY <1>1, <1>4
  <2>3. name \o <<>> = name
    BY ConcatEmptySeq
  <2>4. h.text = name \/ h.text = name \o <<Tab>>
    BY <2>2, <2>3
  <2> HIDE DEF h
  <2>5. BeforeTab(h.text) = name
    BY <2>1, <2>4, PlainIsRead
  <2>6. QED BY <2>2, <2>5 DEF NamedBy, h
<1>5. QED BY <1>3, <1>4

-----------------------------------------------------------------------------
(* The merge of one file's ranges.                                         *)

\* The lists that the loop of the merge keeps, up to the n-th range.
Passes(spans, kept, n) ==
    kept = [k \in 0 .. n |-> IF k = 0 THEN <<>> ELSE Join(kept[k - 1], spans[k])]

LEMMA PassesExist ==
    ASSUME NEW spans, NEW n \in Nat
    PROVE  \E kept : Passes(spans, kept, n)
<1> DEFINE T == {k \in Nat : ~\E kept : Passes(spans, kept, k)}
<1> SUFFICES ASSUME T # {} PROVE FALSE
  OBVIOUS
<1>1. PICK k \in T : \A y \in T : k <= y
  BY LeastNatural
<1>2. k \in Nat /\ ~\E kept : Passes(spans, kept, k)
  OBVIOUS
<1>3. CASE k = 0
  <2> DEFINE h == [i \in 0 .. 0 |-> <<>>]
  <2>1. \A i \in 0 .. 0 : i = 0
    OBVIOUS
  <2>2. Passes(spans, h, 0)
    <3>1. h = [i \in 0 .. 0 |-> IF i = 0 THEN <<>> ELSE Join(h[i - 1], spans[i])]
      BY <2>1
    <3> HIDE DEF h
    <3>2. QED BY <3>1 DEF Passes
  <2>3. QED BY <1>2, <1>3, <2>2
<1>4. CASE k > 0
  <2>1. k - 1 \in Nat /\ k - 1 \notin T
    BY <1>1, <1>2, <1>4
  <2>2. PICK g : Passes(spans, g, k - 1)
    BY <2>1
  <2> DEFINE h == [i \in 0 .. k |-> IF i < k THEN g[i] ELSE Join(g[k - 1], spans[k])]
  <2>3. ASSUME NEW i \in 0 .. k
        PROVE  h[i] = IF i = 0 THEN <<>> ELSE Join(h[i - 1], spans[i])
    <3>1. CASE i = k
      <4>1. h[k] = Join(g[k - 1], spans[k]) /\ h[k - 1] = g[k - 1]
        BY <1>2, <1>4
      <4> HIDE DEF h
      <4>2. QED BY <1>4, <3>1, <4>1
    <3>2. CASE i < k
      <4>1. g[i] = IF i = 0 THEN <<>> ELSE Join(g[i - 1], spans[i])
        <5>1. i \in 0 .. (k - 1)
          BY <1>2, <3>2
        <5>2. QED BY <2>2, <5>1, Zenon DEF Passes
      <4>2. h[i] = g[i] /\ (i # 0 => h[i - 1] = g[i - 1])
        BY <1>2, <3>2
      <4> HIDE DEF h
      <4>3. QED BY <4>1, <4>2
    <3>3. QED BY <1>2, <3>1, <3>2
  <2>4. Passes(spans, h, k)
    <3>1. h = [i \in 0 .. k |-> h[i]]
      OBVIOUS
    <3> HIDE DEF h
    <3>2. [i \in 0 .. k |-> h[i]] = [i \in 0 .. k |-> IF i = 0 THEN <<>> ELSE Join(h[i - 1], spans[i])]
      BY <2>3
    <3>3. QED BY <3>1, <3>2 DEF Passes
  <2>5. QED BY <1>2, <2>4
<1>5. QED BY <1>2, <1>3, <1>4

\* The merge covers what was given and nothing else, with ranges in order and
\* apart.
LEMMA MergeAllCovers ==
    ASSUME NEW spans \in Seq(SpanType), Sorted(spans)
    PROVE  /\ MergeAll(spans) \in Seq(SpanType)
           /\ Apart(MergeAll(spans))
           /\ \A point \in Int : Covers(MergeAll(spans), point) <=> Covers(spans, point)
<1> DEFINE n == Len(spans)
           kept == CHOOSE g : Passes(spans, g, n)
           Known(point, k) == \E i \in 1 .. k : point \in Points(spans[i])
           Right(k) == /\ kept[k] \in Seq(SpanType)
                       /\ Apart(kept[k])
                       /\ \A i \in DOMAIN kept[k] : \A j \in k + 1 .. n :
                             kept[k][i].first <= spans[j].first
                       /\ \A point \in Int : Covers(kept[k], point) <=> Known(point, k)
           T == {k \in 0 .. n : ~Right(k)}
<1>1. n \in Nat /\ DOMAIN spans = 1 .. n /\ \A i \in 1 .. n : spans[i] \in SpanType
  BY LenProperties, ElementOfSeq
<1>2. Passes(spans, kept, n) /\ MergeAll(spans) = kept[n]
  BY <1>1, PassesExist DEF MergeAll, Passes
<1> HIDE DEF kept, n
<1>3. \A k \in 0 .. n : kept[k] = IF k = 0 THEN <<>> ELSE Join(kept[k - 1], spans[k])
  BY <1>2, Zenon DEF Passes
<1>4. Right(0)
  <2>1. kept[0] = <<>>
    BY <1>1, <1>3
  <2>2. kept[0] \in Seq(SpanType) /\ DOMAIN kept[0] = {}
    BY <2>1, EmptySeq
  <2>3. \A point : ~Known(point, 0)
    OBVIOUS
  <2> HIDE DEF Known
  <2>4. QED BY <2>2, <2>3 DEF Apart, Covers
<1>5. ASSUME NEW k \in 1 .. n, Right(k - 1) PROVE Right(k)
  <2> DEFINE a == kept[k - 1]
             b == kept[k]
             span == spans[k]
  <2>1. k \in Nat /\ (k - 1) + 1 = k /\ k \in k .. n /\ k \in 0 .. n /\ k # 0
    BY <1>1
  <2>2. b = Join(a, span)
    BY <1>3, <2>1
  <2>3. /\ a \in Seq(SpanType) /\ Apart(a)
        /\ \A i \in DOMAIN a : a[i].first <= span.first
        /\ \A point \in Int : Covers(a, point) <=> Known(point, k - 1)
    BY <1>5, <2>1
  <2>4. span \in SpanType
    BY <1>1
  <2> HIDE DEF a, b, span, Known
  <2>5. Joined(a, span, b)
    BY <2>2, <2>3, <2>4, JoinKeeps
  <2>6. /\ b \in Seq(SpanType) /\ Apart(b)
        /\ \A i \in DOMAIN b : b[i].first <= span.first
        /\ \A point \in Int : Covers(b, point) <=> Covers(a, point) \/ point \in Points(span)
    BY <2>5 DEF Joined
  <2>7. ASSUME NEW i \in DOMAIN b, NEW j \in k + 1 .. n PROVE b[i].first <= spans[j].first
    <3>1. j \in DOMAIN spans /\ k \in DOMAIN spans /\ k < j
      BY <1>1, <2>1
    <3>2. span.first <= spans[j].first
      BY <3>1 DEF Sorted, span
    <3>3. b[i] \in SpanType /\ spans[j] \in SpanType
      BY <1>1, <2>6, <3>1, ElementOfSeq, LenProperties
    <3>4. b[i].first \in Nat /\ spans[j].first \in Nat /\ span.first \in Nat
      BY <2>4, <3>3, SpanFacts
    <3>5. QED BY <2>6, <3>2, <3>4
  <2>8. \A point : Known(point, k) <=> Known(point, k - 1) \/ point \in Points(span)
    <3>1. \A i \in 1 .. k : i = k \/ i \in 1 .. (k - 1)
      BY <2>1
    <3>2. k \in 1 .. k /\ \A i \in 1 .. (k - 1) : i \in 1 .. k
      BY <2>1
    <3>3. QED BY <3>1, <3>2 DEF Known, span
  <2>9. \A point \in Int : Covers(b, point) <=> Known(point, k)
    BY <2>3, <2>6, <2>8
  <2>10. QED BY <2>6, <2>7, <2>9 DEF b
<1> HIDE DEF Right
<1>6. T = {}
  <2> SUFFICES ASSUME T # {} PROVE FALSE
    OBVIOUS
  <2>1. PICK k \in T : \A y \in T : k <= y
    <3>1. T \in SUBSET Nat
      BY <1>1
    <3> HIDE DEF T
    <3>2. QED BY <3>1, LeastNatural
  <2>2. k \in 0 .. n /\ ~Right(k) /\ k # 0
    BY <1>4
  <2>3. k - 1 \in 0 .. n /\ k \in 1 .. n
    <3> HIDE DEF T
    <3>1. QED BY <1>1, <2>2
  <2>4. Right(k - 1)
    <3>1. k - 1 \in T => k <= k - 1
      <4> HIDE DEF T
      <4>1. QED BY <2>1
    <3>2. ~(k <= k - 1)
      BY <2>3
    <3>3. QED BY <2>3, <3>1, <3>2
  <2>5. QED BY <1>5, <2>2, <2>3, <2>4
<1>7. Right(n)
  BY <1>1, <1>6
<1>8. kept[n] \in Seq(SpanType) /\ Apart(kept[n])
      /\ \A point \in Int : Covers(kept[n], point) <=> Covers(spans, point)
  BY <1>1, <1>7 DEF Right, Covers
<1>9. QED BY <1>2, <1>8

\* Ranges that start one after the other stay as they are.
StartInOrder(spans) ==
    \A i, j \in DOMAIN spans : i < j => spans[i].first < spans[j].first

LEMMA MergedCovers ==
    ASSUME NEW spans \in Seq(SpanType), StartInOrder(spans)
    PROVE  \A point \in Int : Covers(MergedRanges(spans), point) <=> Covers(spans, point)
<1> DEFINE n == Len(spans)
           Precedes(j, i) == \/ spans[j].first < spans[i].first
                             \/ spans[j].first = spans[i].first /\ j < i
           before == [i \in DOMAIN spans |-> {j \in DOMAIN spans : Precedes(j, i)}]
           rank == [i \in DOMAIN spans |-> Cardinality(before[i]) + 1]
<1>1. n \in Nat /\ DOMAIN spans = 1 .. n /\ \A i \in 1 .. n : spans[i] \in SpanType
  BY LenProperties, ElementOfSeq
<1>2. \A i \in 1 .. n : spans[i].first \in Nat
  BY <1>1, SpanFacts
<1> HIDE DEF n
<1>3. ASSUME NEW i \in 1 .. n PROVE rank[i] = i
  <2>1. \A j \in 1 .. n : Precedes(j, i) <=> j < i
    <3> SUFFICES ASSUME NEW j \in 1 .. n PROVE Precedes(j, i) <=> j < i
      OBVIOUS
    <3>1. j < i => spans[j].first < spans[i].first
      BY <1>1 DEF StartInOrder
    <3>2. i < j => spans[i].first < spans[j].first
      BY <1>1 DEF StartInOrder
    <3>3. QED BY <1>2, <3>1, <3>2
  <2> DEFINE earlier == {j \in DOMAIN spans : Precedes(j, i)}
             c == Cardinality(earlier)
  <2>2. rank[i] = c + 1
    BY <1>1
  <2> HIDE DEF Precedes
  <2>3. earlier = 1 .. (i - 1)
    BY <1>1, <2>1
  <2> HIDE DEF earlier
  <2>4. Cardinality(1 .. (i - 1)) = i - 1
    <3>1. i - 1 \in Int /\ 1 \in Int
      OBVIOUS
    <3>2. CASE i = 1
      <4>1. 1 .. (i - 1) = {}
        BY <3>2
      <4>2. QED BY <3>2, <4>1, FS_EmptySet
    <3>3. CASE i > 1
      BY <3>1, <3>3, FS_Interval
    <3>4. QED BY <3>2, <3>3
  <2>5. c = i - 1
    BY <2>3, <2>4
  <2> HIDE DEF c, before, rank
  <2>6. QED BY <2>2, <2>5
<1>4. SortedBy(spans, before) = [m \in DOMAIN spans |-> spans[CHOOSE i \in DOMAIN spans : rank[i] = m]]
  BY DEF SortedBy
<1>5. MergedRanges(spans) = MergeAll(SortedBy(spans, before))
  BY DEF MergedRanges
<1> DEFINE sorted == [m \in DOMAIN spans |-> spans[CHOOSE i \in DOMAIN spans : rank[i] = m]]
<1>s. MergedRanges(spans) = MergeAll(sorted)
  BY <1>4, <1>5
<1> HIDE DEF Precedes, before, rank
<1>t. sorted = spans
  <2> DEFINE pick(m) == CHOOSE i \in DOMAIN spans : rank[i] = m
  <2> HIDE DEF pick
  <2>1. \A m \in DOMAIN spans : pick(m) = m
    BY <1>1, <1>3 DEF pick
  <2>2. [m \in DOMAIN spans |-> spans[pick(m)]] = [m \in DOMAIN spans |-> spans[m]]
    BY <2>1
  <2>3. [m \in DOMAIN spans |-> spans[m]] = spans
    BY <1>1
  <2>4. QED BY <2>2, <2>3 DEF pick
<1> HIDE DEF sorted
<1>6. Sorted(spans)
  BY <1>1, <1>2 DEF Sorted, StartInOrder
<1>7. QED BY <1>s, <1>t, <1>6, MergeAllCovers
-----------------------------------------------------------------------------
(* Reading the diff.                                                       *)

DiffTyped ==
    /\ step \in {"root", "base", "verify", "fork", "diff", "parse", "sources", "done"}
    /\ git \in [at : {"start", "old", "new", "hunks", "minus", "plus"}, left : SUBSET Files,
                file : Files \cup {NoFile}, kind : {"changed", "created", "removed", "moved"},
                floor : -1 .. LastLine, plus : Int, utf8 : BOOLEAN]
    /\ reader \in [source : Files \cup {NoFile}, inHunk : BOOLEAN, pending : BOOLEAN]
    /\ added \in [Files -> SUBSET Int]
    /\ git.at # "start" => git.file \in Files
    /\ git.file \notin git.left

\* The reader knows where Git is: a pair of headers is open only between its
\* two lines, and the source is the file whose hunks Git writes.
ReaderFollowsGit ==
    /\ reader.pending <=> git.at = "new"
    /\ git.at \in {"old", "new"} => ~reader.inHunk
    /\ git.at \in {"minus", "plus"} => reader.inHunk
    /\ git.at \in {"hunks", "minus", "plus"} =>
         reader.source = IF git.kind = "removed" THEN NoFile ELSE git.file

\* Until they are merged the ranges of a file start one after the other, those
\* of the current file no later than the last line written of it.
RangesGrow ==
    step \notin {"sources", "done"} =>
        /\ ranges \in [Files -> Seq(SpanType)]
        /\ \A f \in Files : StartInOrder(ranges[f])
        /\ \A f \in git.left : ranges[f] = <<>>
        /\ git.file \in Files =>
             \A i \in DOMAIN ranges[git.file] : ranges[git.file][i].first <= git.floor

RangesCoverAdded ==
    \A f \in Files, point \in Int : Covers(ranges[f], point) <=> point \in added[f]

\* Only a Git command fails, or the look for a source outside the repository.
ErrorsAreEarly ==
    /\ step # "done" => verdict = "none"
    /\ step \in {"root", "base", "verify", "fork", "diff"} => git.left = Files
    /\ verdict = "error" =>
         git.left = Files \/ \E d \in SourceDirectories : ~IsPrefix(found, d)

DiffInv == DiffTyped /\ ReaderFollowsGit /\ RangesGrow /\ RangesCoverAdded /\ ErrorsAreEarly

LEMMA FilesAreNames ==
    ASSUME NEW f \in Files
    PROVE  /\ f # NoFile /\ NamedBy(HeaderOf(f)) = f
           /\ ~IsUnreadable(HeaderOf(f)) /\ ~IsUnreadable(NoHeader)
<1>1. f \in Seq(Bytes) /\ f # NoFile
  BY FilesAssumption DEF Bytes
<1>2. NamedBy(HeaderOf(f)) = f
  BY <1>1, NamesAreRead
<1>3. QED BY <1>1, <1>2 DEF IsUnreadable

LEMMA NoHeaderNamesNone == NamedBy(NoHeader) = NoFile
<1>1. <<>> \in Seq(Bytes) /\ \A i \in 1 .. Len(<<>>) : <<>>[i] # Tab
  BY EmptySeq
<1>2. BeforeTab(<<>>) = <<>>
  BY <1>1, PlainIsRead
<1>3. NoHeader.quoted = FALSE /\ NoHeader.text = <<>>
  BY DEF NoHeader, NoFile
<1>4. QED BY <1>2, <1>3 DEF NamedBy, NoFile

\* What one line does to the reader, by the kind of the line.
LEMMA ReadTurns ==
    ASSUME NEW line, Read(line)
    PROVE  /\ line.tag = "diff" =>
                /\ reader' = [reader EXCEPT !.inHunk = FALSE, !.pending = FALSE]
                /\ UNCHANGED <<ranges, verdict, step>>
           /\ line.tag = "---" =>
                /\ reader' = [reader EXCEPT !.pending = @ \/ ~reader.inHunk]
                /\ UNCHANGED <<ranges, verdict, step>>
           /\ line.tag = "+++" =>
                /\ reader' = [reader EXCEPT
                      !.source = IF reader.pending THEN NamedBy(line.header) ELSE @,
                      !.pending = FALSE]
                /\ UNCHANGED ranges
                /\ ~(reader.pending /\ IsUnreadable(line.header)) => UNCHANGED <<verdict, step>>
           /\ line.tag = "@@" =>
                /\ reader' = [reader EXCEPT !.inHunk = TRUE]
                /\ reader.source = NoFile => UNCHANGED <<ranges, verdict, step>>
                /\ reader.source # NoFile /\ ~HunkIsRefused(line) =>
                     /\ ranges' = [ranges EXCEPT ![reader.source] = @ \o HunkSpans(line)]
                     /\ UNCHANGED <<verdict, step>>
           /\ line.tag = "other" => UNCHANGED <<reader, ranges, verdict, step>>
<1>1. CASE line.tag = "diff"
  BY <1>1 DEF Read
<1>2. CASE line.tag = "---"
  BY <1>2 DEF Read
<1>3. CASE line.tag = "+++"
  BY <1>3 DEF Read
<1>4. CASE line.tag = "@@"
  BY <1>4 DEF Read
<1>5. CASE line.tag = "other"
  BY <1>5 DEF Read
<1>6. QED BY <1>1, <1>2, <1>3, <1>4, <1>5

LEMMA DiffStarts == DiffInit => DiffInv
<1> SUFFICES ASSUME DiffInit PROVE DiffInv
  OBVIOUS
<1>1. NoFile \notin Files /\ LastLine \in Nat
  BY FilesAssumption, LinesAssumption
<1>2. DiffTyped
  BY <1>1 DEF DiffInit, DiffTyped
<1>3. ReaderFollowsGit
  BY DEF DiffInit, ReaderFollowsGit
<1>4. \A f \in Files : ranges[f] = <<>> /\ added[f] = {}
  BY DEF DiffInit
<1>5. <<>> \in Seq(SpanType) /\ DOMAIN <<>> = {}
  BY EmptySeq
<1>6. RangesGrow
  BY <1>1, <1>4, <1>5 DEF DiffInit, RangesGrow, StartInOrder
<1>7. RangesCoverAdded
  BY <1>4, <1>5 DEF RangesCoverAdded, Covers
<1>8. ErrorsAreEarly
  BY DEF DiffInit, ErrorsAreEarly
<1>9. QED BY <1>2, <1>3, <1>6, <1>7, <1>8 DEF DiffInv

\* The commands before the diff leave the files alone.
LEMMA CommandsKeep ==
    ASSUME DiffInv, FindRoot \/ ChooseBase \/ VerifyBase \/ FindFork \/ RunDiff
    PROVE  DiffInv'
<1>1. UNCHANGED <<git, reader, ranges, added>>
  BY DEF FindRoot, ChooseBase, VerifyBase, FindFork, RunDiff, parsing
<1>2. step \in {"root", "base", "verify", "fork", "diff"}
  BY DEF FindRoot, ChooseBase, VerifyBase, FindFork, RunDiff
<1>3. \/ step' = "done" /\ verdict' = "error"
      \/ step' \in {"base", "verify", "fork", "diff", "parse"} /\ verdict' = verdict
  BY DEF FindRoot, ChooseBase, VerifyBase, FindFork, RunDiff, Fails, GoesOn
<1>4. DiffTyped'
  BY <1>1, <1>3 DEF DiffInv, DiffTyped
<1>5. ReaderFollowsGit'
  BY <1>1 DEF DiffInv, ReaderFollowsGit
<1>6. RangesGrow'
  BY <1>1, <1>2 DEF DiffInv, RangesGrow, StartInOrder
<1>7. RangesCoverAdded'
  BY <1>1 DEF DiffInv, RangesCoverAdded, Covers
<1>8. ErrorsAreEarly'
  BY <1>1, <1>2, <1>3 DEF DiffInv, ErrorsAreEarly
<1>9. QED BY <1>4, <1>5, <1>6, <1>7, <1>8 DEF DiffInv

\* A line that leaves the ranges alone.
LEMMA QuietLineKeeps ==
    ASSUME DiffInv, step = "parse", UNCHANGED <<ranges, verdict, step, added>>,
           DiffTyped', ReaderFollowsGit', git'.left \subseteq git.left,
           \/ git'.file = git.file /\ git'.floor = git.floor
           \/ git'.file \in git.left
    PROVE  DiffInv'
<1>1. RangesGrow'
  <2>1. /\ ranges \in [Files -> Seq(SpanType)]
        /\ \A f \in Files : StartInOrder(ranges[f])
        /\ \A f \in git.left : ranges[f] = <<>>
        /\ git.file \in Files =>
             \A i \in DOMAIN ranges[git.file] : ranges[git.file][i].first <= git.floor
    BY DEF DiffInv, RangesGrow
  <2>2. git'.file \in Files =>
             \A i \in DOMAIN ranges[git'.file] : ranges[git'.file][i].first <= git'.floor
    <3>1. CASE git'.file = git.file /\ git'.floor = git.floor
      BY <2>1, <3>1
    <3>2. CASE git'.file \in git.left
      BY <2>1, <3>2, EmptySeq
    <3>3. QED BY <3>1, <3>2
  <2>3. \A f \in git'.left : ranges[f] = <<>>
    BY <2>1
  <2>4. \A f \in Files : StartInOrder(ranges[f])'
    BY <2>1 DEF StartInOrder
  <2>5. QED BY <2>1, <2>2, <2>3, <2>4 DEF RangesGrow
<1>2. RangesCoverAdded'
  BY DEF DiffInv, RangesCoverAdded, Covers
<1>3. ErrorsAreEarly'
  BY DEF DiffInv, ErrorsAreEarly
<1>4. QED BY <1>1, <1>2, <1>3 DEF DiffInv

LEMMA WriteFileKeeps == DiffInv /\ WriteFile => DiffInv'
<1> SUFFICES ASSUME DiffInv, WriteFile PROVE DiffInv'
  OBVIOUS
<1>0. DiffTyped
  BY DEF DiffInv
<1>1. PICK f \in git.left, kind \in {"changed", "created", "removed", "moved"} :
        Writes(Plain("diff"),
               [git EXCEPT !.left = @ \ {f}, !.file = f, !.kind = kind, !.floor = -1,
                           !.at = IF kind = "moved" THEN "start" ELSE "old"])
  BY DEF WriteFile
<1>2. /\ step = "parse" /\ Read(Plain("diff"))
      /\ git' = [git EXCEPT !.left = @ \ {f}, !.file = f, !.kind = kind, !.floor = -1,
                            !.at = IF kind = "moved" THEN "start" ELSE "old"]
  BY <1>1 DEF Writes
<1>3. Plain("diff").tag = "diff"
  BY DEF Plain, Line
<1>4. /\ reader' = [reader EXCEPT !.inHunk = FALSE, !.pending = FALSE]
      /\ UNCHANGED <<ranges, verdict, step>>
  BY <1>2, <1>3, ReadTurns
<1>5. UNCHANGED added
  BY DEF WriteFile
<1>6. /\ git'.left = git.left \ {f} /\ git'.file = f /\ git'.floor = -1
      /\ git'.at \in {"start", "old"} /\ f \in Files
  BY <1>0, <1>2 DEF DiffTyped
<1>7. DiffTyped'
  <2>1. LastLine \in Nat /\ -1 \in -1 .. LastLine
    BY LinesAssumption
  <2>2. git' \in [at : {"start", "old", "new", "hunks", "minus", "plus"}, left : SUBSET Files,
                  file : Files \cup {NoFile}, kind : {"changed", "created", "removed", "moved"},
                  floor : -1 .. LastLine, plus : Int, utf8 : BOOLEAN]
    <3>1. git.left \ {f} \in SUBSET Files
      BY <1>0 DEF DiffTyped
    <3>2. QED BY <1>0, <1>2, <1>6, <2>1, <3>1 DEF DiffTyped
  <2>3. reader' \in [source : Files \cup {NoFile}, inHunk : BOOLEAN, pending : BOOLEAN]
    BY <1>0, <1>4 DEF DiffTyped
  <2>4. git'.file \notin git'.left
    BY <1>6
  <2>5. QED BY <1>0, <1>4, <1>5, <1>6, <2>2, <2>3, <2>4 DEF DiffTyped
<1>8. ReaderFollowsGit'
  BY <1>0, <1>4, <1>6 DEF DiffTyped, ReaderFollowsGit
<1>9. QED BY <1>2, <1>4, <1>5, <1>6, <1>7, <1>8, QuietLineKeeps

LEMMA WriteOldKeeps == DiffInv /\ WriteOld => DiffInv'
<1> SUFFICES ASSUME DiffInv, WriteOld PROVE DiffInv'
  OBVIOUS
<1> DEFINE line == Line("---", IF git.kind = "created" THEN NoHeader ELSE HeaderOf(git.file), 0, 0)
<1>0. DiffTyped /\ ReaderFollowsGit
  BY DEF DiffInv
<1>2. /\ step = "parse" /\ Read(line) /\ git' = [git EXCEPT !.at = "new"] /\ git.at = "old"
      /\ UNCHANGED added
  BY DEF WriteOld, Writes
<1>3. line.tag = "---"
  BY DEF Line
<1> HIDE DEF line
<1>4. /\ reader' = [reader EXCEPT !.pending = @ \/ ~reader.inHunk]
      /\ UNCHANGED <<ranges, verdict, step>>
  BY <1>2, <1>3, ReadTurns
<1>6. /\ git'.left = git.left /\ git'.file = git.file /\ git'.floor = git.floor /\ git'.at = "new"
  BY <1>0, <1>2 DEF DiffTyped
<1>7. DiffTyped'
  BY <1>0, <1>2, <1>4, <1>6 DEF DiffTyped
<1>8. ReaderFollowsGit'
  <2>1. ~reader.inHunk
    BY <1>0, <1>2 DEF ReaderFollowsGit
  <2>2. reader'.pending /\ ~reader'.inHunk
    BY <1>0, <1>4, <2>1 DEF DiffTyped
  <2>3. QED BY <1>6, <2>2 DEF ReaderFollowsGit
<1>9. QED BY <1>2, <1>4, <1>6, <1>7, <1>8, QuietLineKeeps

LEMMA WriteNewKeeps == DiffInv /\ WriteNew => DiffInv'
<1> SUFFICES ASSUME DiffInv, WriteNew PROVE DiffInv'
  OBVIOUS
<1> DEFINE header == IF git.kind = "removed" THEN NoHeader ELSE HeaderOf(git.file)
           line == Line("+++", header, 0, 0)
           named == IF git.kind = "removed" THEN NoFile ELSE git.file
<1>0. DiffTyped /\ ReaderFollowsGit
  BY DEF DiffInv
<1>2. /\ step = "parse" /\ Read(line) /\ git' = [git EXCEPT !.at = "hunks"] /\ git.at = "new"
      /\ UNCHANGED added
  BY DEF WriteNew, Writes
<1>3. line.tag = "+++" /\ line.header = header
  BY DEF Line
<1>4. git.file \in Files /\ reader.pending
  BY <1>0, <1>2 DEF DiffTyped, ReaderFollowsGit
<1>5. NamedBy(header) = named /\ ~IsUnreadable(header)
  BY <1>4, FilesAreNames, NoHeaderNamesNone
<1> HIDE DEF line, header
<1>6. /\ reader' = [reader EXCEPT !.source = IF reader.pending THEN NamedBy(line.header) ELSE @,
                                  !.pending = FALSE]
      /\ UNCHANGED <<ranges, verdict, step>>
  BY <1>2, <1>3, <1>5, ReadTurns
<1>7. reader' = [reader EXCEPT !.source = named, !.pending = FALSE]
  BY <1>3, <1>4, <1>5, <1>6
<1>8. named \in Files \cup {NoFile}
  BY <1>4
<1>9. /\ git'.left = git.left /\ git'.file = git.file /\ git'.floor = git.floor /\ git'.at = "hunks"
      /\ git'.kind = git.kind
  BY <1>0, <1>2 DEF DiffTyped
<1>10. DiffTyped'
  <2> HIDE DEF named
  <2>1. QED BY <1>0, <1>2, <1>6, <1>7, <1>8, <1>9 DEF DiffTyped
<1>11. ReaderFollowsGit'
  <2> HIDE DEF named
  <2>1. reader'.source = named /\ reader'.pending = FALSE
    BY <1>0, <1>7 DEF DiffTyped
  <2>2. QED BY <1>9, <2>1 DEF ReaderFollowsGit, named
<1>12. QED BY <1>2, <1>6, <1>9, <1>10, <1>11, QuietLineKeeps

\* A line of a hunk, whatever it looks like, is none of the reader's headers.
LEMMA BodyLineKeeps ==
    ASSUME DiffInv, NEW line, step = "parse", Read(line), git.at \in {"minus", "plus"},
           line.tag \in {"other"} \/ line.tag = IF git.at = "minus" THEN "---" ELSE "+++",
           git' \in [at : {"hunks", "plus"}, left : {git.left}, file : {git.file},
                     kind : {git.kind}, floor : {git.floor}, plus : Int, utf8 : BOOLEAN],
           UNCHANGED added
    PROVE  DiffInv'
<1>0. DiffTyped /\ ReaderFollowsGit
  BY DEF DiffInv
<1>1. reader.inHunk = TRUE /\ reader.pending = FALSE
  BY <1>0 DEF DiffTyped, ReaderFollowsGit
<1>2. reader' = reader /\ UNCHANGED <<ranges, verdict, step>>
  <2>1. CASE line.tag = "other"
    BY <2>1, ReadTurns
  <2>2. CASE line.tag = "---"
    <3>1. /\ reader' = [reader EXCEPT !.pending = @ \/ ~reader.inHunk]
          /\ UNCHANGED <<ranges, verdict, step>>
      BY <2>2, ReadTurns
    <3>2. reader' = [reader EXCEPT !.pending = FALSE]
      BY <1>1, <3>1
    <3>3. QED BY <1>0, <1>1, <3>1, <3>2 DEF DiffTyped
  <2>3. CASE line.tag = "+++"
    <3>1. /\ reader' = [reader EXCEPT !.source = IF reader.pending THEN NamedBy(line.header) ELSE @,
                                      !.pending = FALSE]
          /\ UNCHANGED <<ranges, verdict, step>>
      BY <1>1, <2>3, ReadTurns
    <3>2. reader' = [reader EXCEPT !.source = reader.source, !.pending = FALSE]
      BY <1>1, <3>1
    <3>3. reader' \in [source : Files \cup {NoFile}, inHunk : BOOLEAN, pending : BOOLEAN]
      BY <1>0, <3>2 DEF DiffTyped
    <3>4. /\ reader'.source = reader.source /\ reader'.inHunk = reader.inHunk
          /\ reader'.pending = reader.pending
      BY <1>0, <1>1, <3>2 DEF DiffTyped
    <3>5. reader' = reader
      BY <1>0, <3>3, <3>4 DEF DiffTyped
    <3>6. QED BY <3>1, <3>5
  <2>4. line.tag = "other" \/ line.tag = "---" \/ line.tag = "+++"
    OBVIOUS
  <2> DEFINE same == reader' = reader /\ UNCHANGED <<ranges, verdict, step>>
  <2>5. (line.tag = "other" => same) /\ (line.tag = "---" => same) /\ (line.tag = "+++" => same)
    BY <2>1, <2>2, <2>3
  <2> HIDE DEF same
  <2>6. same
    BY <2>4, <2>5
  <2>7. QED BY <2>6 DEF same
<1>3. /\ git'.left = git.left /\ git'.file = git.file /\ git'.floor = git.floor
      /\ git'.kind = git.kind /\ git'.at \in {"hunks", "plus"}
  OBVIOUS
<1>4. DiffTyped'
  BY <1>0, <1>2, <1>3 DEF DiffTyped
<1>5. ReaderFollowsGit'
  BY <1>0, <1>1, <1>2, <1>3 DEF ReaderFollowsGit
<1>6. QED BY <1>2, <1>3, <1>4, <1>5, QuietLineKeeps

LEMMA WriteBodyKeeps == DiffInv /\ (WriteMinus \/ WritePlus) => DiffInv'
<1> SUFFICES ASSUME DiffInv, WriteMinus \/ WritePlus PROVE DiffInv'
  OBVIOUS
<1>0. DiffTyped
  BY DEF DiffInv
<1>1. CASE WriteMinus
  <2>1. PICK line \in {Plain("other"), Line("---", Garbled, 0, 0)} :
          Writes(line, [git EXCEPT !.at = IF git.plus = 0 THEN "hunks" ELSE "plus"])
    BY <1>1 DEF WriteMinus
  <2>2. line.tag \in {"other", "---"}
    BY <2>1 DEF Plain, Line
  <2>3. /\ step = "parse" /\ Read(line) /\ UNCHANGED added /\ git.at = "minus"
        /\ git' = [git EXCEPT !.at = IF git.plus = 0 THEN "hunks" ELSE "plus"]
    BY <1>1, <2>1 DEF WriteMinus, Writes
  <2>4. git' \in [at : {"hunks", "plus"}, left : {git.left}, file : {git.file},
                  kind : {git.kind}, floor : {git.floor}, plus : Int, utf8 : BOOLEAN]
    BY <1>0, <2>3 DEF DiffTyped
  <2>5. QED BY <2>2, <2>3, <2>4, BodyLineKeeps
<1>2. CASE WritePlus
  <2>1. PICK line \in {Plain("other"), Line("+++", Garbled, 0, 0)}
                       \cup {Line("+++", HeaderOf(f), 0, 0) : f \in Files} :
          Writes(line, [git EXCEPT !.plus = @ - 1,
                                   !.at = IF git.plus = 1 THEN "hunks" ELSE "plus"])
    BY <1>2 DEF WritePlus
  <2>2. line.tag \in {"other", "+++"}
    BY <2>1 DEF Plain, Line
  <2>3. /\ step = "parse" /\ Read(line) /\ UNCHANGED added /\ git.at = "plus"
        /\ git' = [git EXCEPT !.plus = @ - 1, !.at = IF git.plus = 1 THEN "hunks" ELSE "plus"]
    BY <1>2, <2>1 DEF WritePlus, Writes
  <2>4. git' \in [at : {"hunks", "plus"}, left : {git.left}, file : {git.file},
                  kind : {git.kind}, floor : {git.floor}, plus : Int, utf8 : BOOLEAN]
    <3>1. git.plus - 1 \in Int
      BY <1>0 DEF DiffTyped
    <3> DEFINE fewer == git.plus - 1
               next == IF git.plus = 1 THEN "hunks" ELSE "plus"
    <3>2. fewer \in Int /\ next \in {"hunks", "plus"} /\ git' = [git EXCEPT !.plus = fewer, !.at = next]
      BY <2>3, <3>1
    <3> HIDE DEF fewer, next
    <3>3. QED BY <1>0, <3>2 DEF DiffTyped
  <2>5. QED BY <2>2, <2>3, <2>4, BodyLineKeeps
<1>3. QED BY <1>1, <1>2

\* A range beyond those of a list joins them.
LEMMA AppendStartsLater ==
    ASSUME NEW spans \in Seq(SpanType), NEW span \in SpanType, StartInOrder(spans),
           \A i \in DOMAIN spans : spans[i].first < span.first
    PROVE  /\ spans \o <<span>> \in Seq(SpanType) /\ StartInOrder(spans \o <<span>>)
           /\ \A i \in DOMAIN (spans \o <<span>>) : (spans \o <<span>>)[i].first <= span.first
           /\ \A point \in Int :
                Covers(spans \o <<span>>, point) <=> Covers(spans, point) \/ point \in Points(span)
<1> DEFINE n == Len(spans)
           after == spans \o <<span>>
<1>1. n \in Nat /\ DOMAIN spans = 1 .. n
  BY LenProperties
<1>2. /\ after \in Seq(SpanType) /\ DOMAIN after = 1 .. n + 1
      /\ after[n + 1] = span /\ \A i \in 1 .. n : after[i] = spans[i]
  <2>1. <<span>> \in Seq(SpanType) /\ Len(<<span>>) = 1 /\ <<span>>[1] = span
    OBVIOUS
  <2>2. /\ after \in Seq(SpanType) /\ Len(after) = n + 1
        /\ after[n + 1] = span /\ \A i \in 1 .. n : after[i] = spans[i]
    BY <1>1, <2>1, ConcatProperties
  <2> HIDE DEF after, n
  <2>3. QED BY <2>2, LenProperties
<1>3. span.first \in Nat /\ \A i \in 1 .. n : spans[i].first \in Nat
  BY <1>1, ElementOfSeq, SpanFacts
<1> HIDE DEF after, n
<1>4. \A i \in 1 .. n + 1 : i = n + 1 \/ i \in 1 .. n
  BY <1>1
<1>5. StartInOrder(after)
  <2> SUFFICES ASSUME NEW i \in 1 .. n + 1, NEW j \in 1 .. n + 1, i < j
               PROVE  after[i].first < after[j].first
    BY <1>2 DEF StartInOrder
  <2>1. i \in 1 .. n
    BY <1>1
  <2>2. CASE j = n + 1
    BY <1>1, <1>2, <2>1, <2>2
  <2>3. CASE j \in 1 .. n
    BY <1>1, <1>2, <2>1, <2>3 DEF StartInOrder
  <2>4. QED BY <1>4, <2>2, <2>3
<1>6. \A i \in DOMAIN after : after[i].first <= span.first
  <2> SUFFICES ASSUME NEW i \in 1 .. n + 1 PROVE after[i].first <= span.first
    BY <1>2
  <2>1. CASE i = n + 1
    BY <1>2, <1>3, <2>1
  <2>2. CASE i \in 1 .. n
    BY <1>1, <1>2, <1>3, <2>2
  <2>3. QED BY <1>4, <2>1, <2>2
<1>7. ASSUME NEW point \in Int
      PROVE  Covers(after, point) <=> Covers(spans, point) \/ point \in Points(span)
  <2>1. n + 1 \in 1 .. n + 1 /\ \A i \in 1 .. n : i \in 1 .. n + 1
    BY <1>1
  <2>2. QED BY <1>1, <1>2, <1>4, <2>1 DEF Covers
<1>8. QED BY <1>2, <1>5, <1>6, <1>7 DEF after

LEMMA WriteHunkKeeps == DiffInv /\ WriteHunk => DiffInv'
<1> SUFFICES ASSUME DiffInv, WriteHunk PROVE DiffInv'
  OBVIOUS
<1>0. DiffTyped /\ ReaderFollowsGit /\ LastLine \in Nat /\ LastLine < End /\ End \in Nat
  BY LinesAssumption, RangesAssumption DEF DiffInv
<1>1. PICK first \in git.floor + 1 .. LastLine, count \in 0 .. LastLine, minus \in 0 .. 1 :
        /\ count > 0 => first > git.floor + 1 /\ first + count - 1 <= LastLine
        /\ git.kind = "removed" => first = 0 /\ count = 0
        /\ Writes(Line("@@", NoHeader, first, count),
                  [git EXCEPT !.at = IF minus > 0 THEN "minus" ELSE "plus",
                              !.floor = IF count = 0 THEN first ELSE first + count - 1,
                              !.plus = count])
        /\ added' = [added EXCEPT ![git.file] = @ \cup first .. first + count - 1]
  BY DEF WriteHunk
<1> DEFINE line == Line("@@", NoHeader, first, count)
           floor == IF count = 0 THEN first ELSE first + count - 1
           next == IF minus > 0 THEN "minus" ELSE "plus"
           f == git.file
           span == [first |-> first, past |-> first + count]
<1>2. /\ step = "parse" /\ Read(line) /\ git.at = "hunks"
      /\ git' = [git EXCEPT !.at = next, !.floor = floor, !.plus = count]
      /\ added' = [added EXCEPT ![f] = @ \cup first .. first + count - 1]
  BY <1>1 DEF Writes, WriteHunk
<1>3. git.floor \in -1 .. LastLine /\ f \in Files /\ f # NoFile /\ f \notin git.left
  BY <1>0, <1>2, FilesAssumption DEF DiffTyped
<1>4. /\ first \in Nat /\ count \in Nat /\ first <= LastLine /\ git.floor < first
      /\ floor \in -1 .. LastLine /\ first <= floor
  BY <1>0, <1>1, <1>3
<1>5. line.tag = "@@" /\ line.first = first /\ line.count = count
  BY DEF Line
<1>6. next \in {"minus", "plus"}
  OBVIOUS
<1>7. ~HunkIsRefused(line)
  BY <1>1, <1>3, <1>5 DEF HunkIsRefused
<1>8. HunkSpans(line) = IF count = 0 THEN <<>> ELSE <<span>>
  BY <1>5 DEF HunkSpans
<1>9. reader.source = IF git.kind = "removed" THEN NoFile ELSE f
  BY <1>0, <1>2 DEF ReaderFollowsGit
<1> HIDE DEF line, floor, next, f
<1>10. /\ reader' = [reader EXCEPT !.inHunk = TRUE]
       /\ reader.source = NoFile => UNCHANGED <<ranges, verdict, step>>
       /\ reader.source # NoFile =>
            /\ ranges' = [ranges EXCEPT ![reader.source] = @ \o HunkSpans(line)]
            /\ UNCHANGED <<verdict, step>>
  BY <1>2, <1>5, <1>7, ReadTurns
<1>11. UNCHANGED <<verdict, step>>
  BY <1>10
<1>12. /\ git'.left = git.left /\ git'.file = f /\ git'.floor = floor /\ git'.at = next
       /\ git'.kind = git.kind
  BY <1>0, <1>2 DEF DiffTyped, f
<1>13. DiffTyped'
  <2>1. git' \in [at : {"start", "old", "new", "hunks", "minus", "plus"}, left : SUBSET Files,
                  file : Files \cup {NoFile}, kind : {"changed", "created", "removed", "moved"},
                  floor : -1 .. LastLine, plus : Int, utf8 : BOOLEAN]
    <3>1. git \in [at : {"start", "old", "new", "hunks", "minus", "plus"}, left : SUBSET Files,
                  file : Files \cup {NoFile}, kind : {"changed", "created", "removed", "moved"},
                  floor : -1 .. LastLine, plus : Int, utf8 : BOOLEAN]
      BY <1>0 DEF DiffTyped
    <3>2. count \in Int /\ floor \in -1 .. LastLine
          /\ next \in {"start", "old", "new", "hunks", "minus", "plus"}
      BY <1>4, <1>6
    <3>3. git' = [git EXCEPT !.at = next, !.floor = floor, !.plus = count]
      BY <1>2
    <3>4. QED BY <3>1, <3>2, <3>3
  <2>2. reader' \in [source : Files \cup {NoFile}, inHunk : BOOLEAN, pending : BOOLEAN]
    BY <1>0, <1>10 DEF DiffTyped
  <2>3. added' \in [Files -> SUBSET Int]
    <3>1. first .. first + count - 1 \subseteq Int
      OBVIOUS
    <3>2. QED BY <1>0, <1>2, <3>1 DEF DiffTyped
  <2>4. QED BY <1>0, <1>3, <1>11, <1>12, <2>1, <2>2, <2>3 DEF DiffTyped
<1>14. ReaderFollowsGit'
  <2>1. reader'.inHunk = TRUE /\ reader'.pending = reader.pending /\ reader'.source = reader.source
    BY <1>0, <1>10 DEF DiffTyped
  <2>2. ~reader.pending
    BY <1>0, <1>2 DEF ReaderFollowsGit
  <2>3. QED BY <1>6, <1>9, <1>12, <2>1, <2>2 DEF ReaderFollowsGit, f
<1>15. /\ ranges \in [Files -> Seq(SpanType)]
       /\ \A g \in Files : StartInOrder(ranges[g])
       /\ \A g \in git.left : ranges[g] = <<>>
       /\ \A i \in DOMAIN ranges[f] : ranges[f][i].first <= git.floor
  BY <1>2, <1>3 DEF DiffInv, RangesGrow, f
<1>16. \A g \in Files, point \in Int : Covers(ranges[g], point) <=> point \in added[g]
  BY DEF DiffInv, RangesCoverAdded
<1>17. ErrorsAreEarly'
  <2>1. found' = found
    BY <1>1 DEF Writes, comparing
  <2>2. QED BY <1>11, <1>12, <2>1 DEF DiffInv, ErrorsAreEarly
<1>18. ranges[f] \in Seq(SpanType) /\ \A i \in DOMAIN ranges[f] : ranges[f][i].first \in Nat
  BY <1>3, <1>15, ElementOfSeq, LenProperties, SpanFacts
<1>19. CASE count = 0
  <2>1. ranges' = ranges
    <3>1. ranges[f] \o <<>> = ranges[f]
      BY <1>18, ConcatEmptySeq
    <3>2. reader.source # NoFile => ranges' = [ranges EXCEPT ![f] = ranges[f] \o <<>>]
      BY <1>8, <1>9, <1>10, <1>19
    <3>3. QED BY <1>10, <1>15, <3>1, <3>2
  <2>2. added' = added
    <3>1. first .. first + count - 1 = {}
      BY <1>4, <1>19
    <3>2. QED BY <1>0, <1>2, <3>1 DEF DiffTyped
  <2>3. \A i \in DOMAIN ranges[f] : ranges[f][i].first <= floor
    BY <1>3, <1>4, <1>15, <1>18
  <2>4. RangesGrow'
    BY <1>12, <1>15, <2>1, <2>3 DEF RangesGrow, StartInOrder
  <2>5. RangesCoverAdded'
    BY <1>16, <2>1, <2>2 DEF RangesCoverAdded, Covers
  <2>6. QED BY <1>13, <1>14, <1>17, <2>4, <2>5 DEF DiffInv
<1>20. CASE count # 0
  <2>1. span \in SpanType /\ span.first = first
        /\ \A point \in Int : point \in Points(span) <=> point \in first .. first + count - 1
    BY <1>0, <1>1, <1>4, <1>20 DEF SpanType, Points
  <2> DEFINE longer == ranges[f] \o <<span>>
  <2>2. \A i \in DOMAIN ranges[f] : ranges[f][i].first < span.first
    BY <1>3, <1>4, <1>15, <1>18, <2>1
  <2>3. StartInOrder(ranges[f])
    BY <1>3, <1>15
  <2> HIDE DEF span
  <2>4. /\ longer \in Seq(SpanType) /\ StartInOrder(longer)
        /\ \A i \in DOMAIN longer : longer[i].first <= span.first
        /\ \A point \in Int : Covers(longer, point) <=> Covers(ranges[f], point) \/ point \in Points(span)
    BY <1>18, <2>1, <2>2, <2>3, AppendStartsLater
  <2>5. ranges' = [ranges EXCEPT ![f] = longer]
    <3>1. git.kind # "removed"
      BY <1>1, <1>20
    <3>2. reader.source = f
      BY <1>9, <3>1
    <3>3. HunkSpans(line) = <<span>>
      BY <1>8, <1>20 DEF span
    <3>4. QED BY <1>3, <1>10, <3>2, <3>3
  <2> HIDE DEF longer
  <2>6. ranges'[f] = longer /\ \A g \in Files : g # f => ranges'[g] = ranges[g]
    BY <1>3, <1>15, <2>5
  <2>7. ranges' \in [Files -> Seq(SpanType)]
    BY <1>3, <1>15, <2>4, <2>5
  <2>8. \A i \in DOMAIN longer : longer[i].first <= floor
    <3> SUFFICES ASSUME NEW i \in DOMAIN longer PROVE longer[i].first <= floor
      OBVIOUS
    <3>1. longer[i].first \in Nat
      BY <2>4, ElementOfSeq, LenProperties, SpanFacts
    <3>2. QED BY <1>4, <2>1, <2>4, <3>1
  <2>9. RangesGrow'
    <3>1. \A g \in Files : StartInOrder(ranges'[g])
      BY <1>15, <2>4, <2>6
    <3>2. \A g \in git'.left : ranges'[g] = <<>>
      <4>1. git.left \subseteq Files
        BY <1>0 DEF DiffTyped
      <4>2. QED BY <1>3, <1>12, <1>15, <2>6, <4>1
    <3>3. \A i \in DOMAIN ranges'[git'.file] : ranges'[git'.file][i].first <= git'.floor
      BY <1>12, <2>6, <2>8
    <3>4. QED BY <2>7, <3>1, <3>2, <3>3 DEF RangesGrow, StartInOrder
  <2>10. RangesCoverAdded'
    <3>1. added'[f] = added[f] \cup first .. first + count - 1
          /\ \A g \in Files : g # f => added'[g] = added[g]
      BY <1>0, <1>2, <1>3 DEF DiffTyped
    <3>2. \A point \in Int : Covers(ranges'[f], point) <=> point \in added'[f]
      BY <1>3, <1>16, <2>1, <2>4, <2>6, <3>1
    <3>3. \A g \in Files, point \in Int : g # f => (Covers(ranges'[g], point) <=> point \in added'[g])
      BY <1>16, <2>6, <3>1
    <3>4. \A g \in Files, point \in Int : Covers(ranges'[g], point) <=> point \in added'[g]
      BY <3>2, <3>3
    <3>5. QED BY <3>4 DEF RangesCoverAdded, Covers
  <2>11. QED BY <1>13, <1>14, <1>17, <2>9, <2>10 DEF DiffInv
<1>21. QED BY <1>19, <1>20

LEMMA EndOfDiffKeeps == DiffInv /\ EndOfDiff => DiffInv'
<1> SUFFICES ASSUME DiffInv, EndOfDiff PROVE DiffInv'
  OBVIOUS
<1>1. /\ step = "parse" /\ step' = "sources"
      /\ ranges' = [f \in Files |-> MergedRanges(ranges[f])]
      /\ UNCHANGED <<found, git, reader, verdict, added>>
  BY DEF EndOfDiff, comparing
<1>2. DiffTyped' /\ ReaderFollowsGit'
  BY <1>1 DEF DiffInv, DiffTyped, ReaderFollowsGit
<1>3. RangesGrow'
  BY <1>1 DEF RangesGrow
<1>4. ASSUME NEW f \in Files, NEW point \in Int
      PROVE  Covers(ranges'[f], point) <=> point \in added'[f]
  <2>1. ranges[f] \in Seq(SpanType) /\ StartInOrder(ranges[f])
    BY <1>1 DEF DiffInv, RangesGrow
  <2>2. Covers(MergedRanges(ranges[f]), point) <=> Covers(ranges[f], point)
    BY <2>1, MergedCovers
  <2>3. ranges'[f] = MergedRanges(ranges[f]) /\ added'[f] = added[f]
    BY <1>1
  <2>4. Covers(ranges[f], point) <=> point \in added[f]
    BY DEF DiffInv, RangesCoverAdded
  <2>5. QED BY <2>2, <2>3, <2>4
<1>5. RangesCoverAdded'
  BY <1>4 DEF RangesCoverAdded, Covers
<1>6. ErrorsAreEarly'
  BY <1>1 DEF DiffInv, ErrorsAreEarly
<1>7. QED BY <1>2, <1>3, <1>5, <1>6 DEF DiffInv

LEMMA ValidateKeeps == DiffInv /\ ValidateSources => DiffInv'
<1> SUFFICES ASSUME DiffInv, ValidateSources PROVE DiffInv'
  OBVIOUS
<1>1. /\ step = "sources" /\ step' = "done"
      /\ verdict' = IF \A d \in SourceDirectories : IsPrefix(found, d) THEN "ok" ELSE "error"
      /\ UNCHANGED <<found, git, reader, ranges, added>>
  BY DEF ValidateSources, comparing, parsing
<1>2. DiffTyped' /\ ReaderFollowsGit'
  BY <1>1 DEF DiffInv, DiffTyped, ReaderFollowsGit
<1>3. RangesGrow'
  BY <1>1 DEF RangesGrow
<1>4. RangesCoverAdded'
  BY <1>1 DEF DiffInv, RangesCoverAdded, Covers
<1>5. ErrorsAreEarly'
  BY <1>1 DEF ErrorsAreEarly
<1>6. QED BY <1>2, <1>3, <1>4, <1>5 DEF DiffInv

LEMMA DiffStep == DiffInv /\ [DiffNext]_diffVars => DiffInv'
<1> SUFFICES ASSUME DiffInv, [DiffNext]_diffVars PROVE DiffInv'
  OBVIOUS
<1>1. CASE UNCHANGED diffVars
  <2>1. DiffTyped' /\ ReaderFollowsGit' /\ ErrorsAreEarly'
    BY <1>1 DEF diffVars, DiffInv, DiffTyped, ReaderFollowsGit, ErrorsAreEarly
  <2>2. RangesGrow'
    BY <1>1 DEF diffVars, DiffInv, RangesGrow, StartInOrder
  <2>3. RangesCoverAdded'
    BY <1>1 DEF diffVars, DiffInv, RangesCoverAdded, Covers
  <2>4. QED BY <2>1, <2>2, <2>3 DEF DiffInv
<1>2. CASE DiffNext
  BY <1>2, CommandsKeep, WriteFileKeeps, WriteOldKeeps, WriteNewKeeps, WriteHunkKeeps,
     WriteBodyKeeps, EndOfDiffKeeps, ValidateKeeps DEF DiffNext
<1>3. QED BY <1>1, <1>2

\* A diff in UTF-8 is read without an error, and what is selected of each file
\* of the repository is exactly the lines its hunks add, whatever text those
\* lines hold and however the file's name is quoted.
THEOREM ChangedLinesHold == DiffSpec => []ChangedLinesAreExact
<1>1. DiffInv => ChangedLinesAreExact
  <2> SUFFICES ASSUME DiffInv PROVE ChangedLinesAreExact
    OBVIOUS
  <2>1. ASSUME NEW f \in Files, NEW line \in 1 .. LastLine
        PROVE  Includes(f, line) <=> line \in added[f]
    BY DEF DiffInv, RangesCoverAdded, Covers, Includes
  <2>2. verdict = "error" /\ git.left # Files =>
          \E d \in SourceDirectories : ~IsPrefix(found, d)
    BY DEF DiffInv, ErrorsAreEarly
  <2>3. QED BY <2>1, <2>2 DEF ChangedLinesAreExact
<1>2. QED BY <1>1, DiffStarts, DiffStep, PTL DEF DiffSpec

-----------------------------------------------------------------------------
(* What a profile holds.                                                   *)

MarkerOf(tag, p) ==
    [tag |-> tag, source |-> p.source, place |-> p.place, spot |-> NoSource, hit |-> FALSE]

Markers == UNION {{MarkerOf("SF", p), MarkerOf("end", p)} : p \in Range(Profiled)}

DataOf(job, source) ==
    {[tag |-> "DA", source |-> source, place |-> "copy", spot |-> s, hit |-> s \in Executed(job)] :
        s \in {x \in Spots : x.source = source}}

RecordsOf(job) == Markers \cup UNION {DataOf(job, p.source) : p \in Range(Profiled)}

\* Two lists one after the other.
LEMMA OneAfterTheOther ==
    ASSUME NEW S, NEW a \in Seq(S), NEW b \in Seq(S)
    PROVE  /\ a \o b \in Seq(S) /\ Len(a \o b) = Len(a) + Len(b)
           /\ \A i \in 1 .. Len(a) : (a \o b)[i] = a[i]
           /\ \A i \in 1 .. Len(b) : (a \o b)[i + Len(a)] = b[i]
<1>1. Len(a) \in Nat /\ Len(b) \in Nat
  BY LenProperties
<1>2. a \o b \in Seq(S) /\ Len(a \o b) = Len(a) + Len(b)
  BY ConcatProperties
<1>3. ASSUME NEW i \in 1 .. Len(a)
      PROVE  (a \o b)[i] = a[i]
  BY <1>1, ConcatProperties
<1>4. ASSUME NEW i \in 1 .. Len(b)
      PROVE  (a \o b)[i + Len(a)] = b[i]
  <2>1. i + Len(a) \in 1 .. Len(a) + Len(b) /\ ~(i + Len(a) <= Len(a)) /\ (i + Len(a)) - Len(a) = i
    BY <1>1
  <2>2. QED BY <2>1, ConcatProperties
<1>5. QED BY <1>2, <1>3, <1>4

LEMMA ProfileHolds ==
    ASSUME NEW job
    PROVE  /\ ProfileOf(job) \in Seq(RecordsOf(job))
           /\ \A s \in Spots \cap Executed(job) :
                \E k \in 1 .. Len(ProfileOf(job)) :
                    LET r == ProfileOf(job)[k] IN r.tag = "DA" /\ r.spot = s /\ r.hit
<1> DEFINE S == RecordsOf(job)
           Lines(source) == SetToSeq(DataOf(job, source))
           part(p) == <<MarkerOf("SF", p)>> \o Lines(p.source) \o <<MarkerOf("end", p)>>
           parts == [n \in DOMAIN Profiled |-> part(Profiled[n])]
<1>1. Len(Profiled) \in Nat /\ DOMAIN Profiled = 1 .. Len(Profiled)
      /\ \A n \in DOMAIN Profiled : Profiled[n] \in Range(Profiled)
  BY CoverageAssumption, LenProperties DEF Range
<1>2. ProfileOf(job) = FlattenSeq(parts)
  BY DEF ProfileOf, DataOf, MarkerOf
<1>3. ASSUME NEW p \in Range(Profiled)
      PROVE  /\ part(p) \in Seq(S)
             /\ \A d \in DataOf(job, p.source) : \E k \in 1 .. Len(part(p)) : part(p)[k] = d
  <2> DEFINE a == <<MarkerOf("SF", p)>>
             b == Lines(p.source)
             c == <<MarkerOf("end", p)>>
  <2>1. IsFiniteSet(DataOf(job, p.source))
    <3> DEFINE there == {x \in Spots : x.source = p.source}
               record(s) == [tag |-> "DA", source |-> p.source, place |-> "copy", spot |-> s,
                             hit |-> s \in Executed(job)]
    <3>1. IsFiniteSet(there)
      BY CoverageAssumption, FS_Subset
    <3>2. DataOf(job, p.source) = {record(s) : s \in there}
      BY DEF DataOf
    <3> DEFINE f == [s \in there |-> record(s)]
    <3>3. f \in Surjection(there, DataOf(job, p.source))
      <4> HIDE DEF there, record
      <4>1. QED BY <3>2 DEF Surjection
    <3> HIDE DEF there, f
    <3>4. QED BY <3>1, <3>3, FS_Surjection
  <2>2. /\ b \in Seq(DataOf(job, p.source))
        /\ \A d \in DataOf(job, p.source) : \E i \in 1 .. Len(b) : b[i] = d
    BY <2>1, ListOfSet
  <2>3. DataOf(job, p.source) \subseteq S
    BY DEF RecordsOf
  <2>4. b \in Seq(S)
    BY <2>2, <2>3, SeqMonotonic
  <2>5. MarkerOf("SF", p) \in S /\ MarkerOf("end", p) \in S
    BY DEF Markers, RecordsOf
  <2>6. a \in Seq(S) /\ Len(a) = 1 /\ c \in Seq(S) /\ Len(c) = 1
    <3> HIDE DEF S
    <3>1. QED BY <2>5
  <2> HIDE DEF a, b, c, S
  <2>7. /\ (a \o b) \o c \in Seq(S)
        /\ Len((a \o b) \o c) = Len(b) + 2 /\ Len(b) \in Nat
        /\ \A i \in 1 .. Len(b) : ((a \o b) \o c)[i + 1] = b[i]
    <3>1. Len(b) \in Nat
      BY <2>4, LenProperties
    <3>2. /\ a \o b \in Seq(S) /\ Len(a \o b) = Len(b) + 1
          /\ \A i \in 1 .. Len(b) : (a \o b)[i + 1] = b[i]
      BY <2>4, <2>6, <3>1, OneAfterTheOther
    <3>3. /\ (a \o b) \o c \in Seq(S) /\ Len((a \o b) \o c) = Len(a \o b) + 1
          /\ \A i \in 1 .. Len(a \o b) : ((a \o b) \o c)[i] = (a \o b)[i]
      BY <2>6, <3>2, OneAfterTheOther
    <3>4. \A i \in 1 .. Len(b) : i + 1 \in 1 .. Len(a \o b)
      BY <3>1, <3>2
    <3>5. QED BY <3>1, <3>2, <3>3, <3>4
  <2>8. part(p) = (a \o b) \o c
    BY DEF a, b, c
  <2>9. ASSUME NEW d \in DataOf(job, p.source)
        PROVE  \E k \in 1 .. Len((a \o b) \o c) : ((a \o b) \o c)[k] = d
    <3>1. PICK i \in 1 .. Len(b) : b[i] = d
      BY <2>2
    <3>2. i + 1 \in 1 .. Len((a \o b) \o c) /\ ((a \o b) \o c)[i + 1] = d
      BY <2>7, <3>1
    <3>3. QED BY <3>2
  <2> HIDE DEF part
  <2>10. QED BY <2>7, <2>8, <2>9
<1> HIDE DEF part, S
<1>4. parts \in Seq(Seq(S)) /\ Len(parts) = Len(Profiled)
      /\ \A n \in 1 .. Len(Profiled) : parts[n] = part(Profiled[n])
  BY <1>1, <1>3, SeqDef
<1>5. /\ FlattenSeq(parts) \in Seq(S)
      /\ \A i \in 1 .. Len(parts) : \A j \in 1 .. Len(parts[i]) :
            \E k \in 1 .. Len(FlattenSeq(parts)) : FlattenSeq(parts)[k] = parts[i][j]
  <2> HIDE DEF parts
  <2>1. QED BY <1>4, FlattenHolds
<1>6. ASSUME NEW s \in Spots \cap Executed(job)
      PROVE  \E k \in 1 .. Len(ProfileOf(job)) :
                LET r == ProfileOf(job)[k] IN r.tag = "DA" /\ r.spot = s /\ r.hit
  <2> DEFINE d == [tag |-> "DA", source |-> s.source, place |-> "copy", spot |-> s,
                   hit |-> s \in Executed(job)]
  <2>1. PICK n \in 1 .. Len(Profiled) : Profiled[n].source = s.source
    <3>1. PICK p \in Range(Profiled) : p.source = s.source
      BY CoverageAssumption
    <3>2. PICK n \in DOMAIN Profiled : Profiled[n] = p
      BY DEF Range
    <3>3. QED BY <1>1, <3>1, <3>2
  <2>2. d \in DataOf(job, Profiled[n].source)
    BY <2>1 DEF DataOf
  <2>3. PICK j \in 1 .. Len(parts[n]) : parts[n][j] = d
    <3>1. Profiled[n] \in Range(Profiled) /\ parts[n] = part(Profiled[n])
      BY <1>1, <1>4
    <3> HIDE DEF parts, d
    <3>2. QED BY <1>3, <2>2, <3>1
  <2>4. PICK k \in 1 .. Len(FlattenSeq(parts)) : FlattenSeq(parts)[k] = d
    <3> HIDE DEF parts, d
    <3>1. QED BY <1>4, <1>5, <2>3
  <2>5. d.tag = "DA" /\ d.spot = s /\ d.hit
    OBVIOUS
  <2> HIDE DEF parts, d
  <2>6. QED BY <1>2, <2>4, <2>5
<1>7. QED BY <1>2, <1>5, <1>6 DEF S

Sources == {p.source : p \in Range(Profiled)} \cup {NoSource}

LEMMA RecordsTyped ==
    ASSUME NEW job, NEW r \in RecordsOf(job)
    PROVE  /\ r.tag = "SF" => r.source \in Sources /\ r.source # NoSource
           /\ r.tag = "DA" => r.spot \in Spots
<1>1. CASE r \in Markers
  <2>1. PICK p \in Range(Profiled) : r \in {MarkerOf("SF", p), MarkerOf("end", p)}
    BY <1>1 DEF Markers
  <2>2. r.source = p.source /\ r.tag # "DA"
    BY <2>1 DEF MarkerOf
  <2>3. QED BY <2>2, CoverageAssumption DEF Sources
<1>2. CASE \E p \in Range(Profiled) : r \in DataOf(job, p.source)
  <2>1. r.tag = "DA" /\ r.spot \in Spots
    BY <1>2 DEF DataOf
  <2>2. QED BY <2>1
<1>3. QED BY <1>1, <1>2 DEF RecordsOf

-----------------------------------------------------------------------------
(* The inductive invariant.                                                *)

CoverageWorld ==
    /\ world \in [recursive : BOOLEAN, kinds : SUBSET {"normal", "perTest"},
                  hits : [AllTests -> SUBSET Spots], killers : SUBSET AllTests,
                  mutant : Spots]
    /\ \A t \in world.killers : world.mutant \in world.hits[t]

\* Runs are for the whole suite of a scope, or each for one test of one.
ScopesOfWorld == Range(Scopes)

JobsOfWorld ==
    [scope : ScopesOfWorld,
     test : {"all"} \cup (IF "perTest" \in world.kinds THEN AllTests ELSE {})]

JobsTyped ==
    /\ jobs \in Seq(JobsOfWorld)
    /\ "perTest" \notin world.kinds => perTest = {}
    /\ covStep \in {"select", "test"} => jobs = <<>>

ToCome(job) == \E i \in 1 .. Len(jobs) : jobs[i] = job

\* Unless a profile was cut between records, what a run executes is on the map,
\* or the run is still to come.
Collected ==
    covStep # "list" /\ ~short =>
        /\ "normal" \in world.kinds =>
              \A scope \in ScopesOfWorld :
                 LET job == [scope |-> scope, test |-> "all"]
                 IN  ToCome(job) \/ Executed(job) \subseteq normal
        /\ "perTest" \in world.kinds =>
              \A scope \in ScopesOfWorld : \A t \in Listed(scope) :
                 ToCome([scope |-> scope, test |-> t]) \/ world.hits[t] \X {t} \subseteq perTest

LcovType == [source : Sources, text : BOOLEAN, data : BOOLEAN, lines : SUBSET Spots]

\* k of the first n records are read; a profile that ends too early ends
\* inside a record or is known as short, and the reader is inside one after
\* every such record.
ReadOf(P, n, k) ==
    /\ n \in 0 .. Len(P) /\ k \in 0 .. n
    /\ short \/ n = Len(P) \/ (n > 0 /\ P[n].tag # "end")
    /\ records = SubSeq(P, k + 1, n)
    /\ (k > 0 /\ P[k].tag # "end") => lcov.source # NoSource
    /\ \A i \in 1 .. k : (P[i].tag = "DA" /\ P[i].hit) => P[i].spot \in lcov.lines

ReadsInOrder ==
    covStep = "read" =>
        /\ jobs # <<>>
        /\ lcov \in LcovType
        /\ \E n, k \in Nat : ReadOf(ProfileOf(Head(jobs)), n, k)

\* Every test of the suite that fails on the mutant, and that coverage can see,
\* is still to be run.
SeenKillers == (Suite \cap world.killers) \ Unseen

KillersToCome ==
    covStep = "test" =>
        /\ tests \in Seq(AllTests \cup {"suite"}) /\ tests # <<>>
        /\ ~short => \A t \in SeenKillers : \E i \in 1 .. Len(tests) : tests[i] \in {t, "suite"}

CoverageInv ==
    /\ CoverageWorld /\ JobsTyped /\ Collected /\ ReadsInOrder /\ KillersToCome
    /\ CoverageLosesNoKill

LEMMA CoverageStarts == CoverageInit => CoverageInv
<1> SUFFICES ASSUME CoverageInit PROVE CoverageInv
  OBVIOUS
<1> USE DEF CoverageInit
<1>1. CoverageWorld
  BY DEF CoverageWorld
<1>2. JobsTyped
  BY EmptySeq DEF JobsTyped
<1>3. QED BY <1>1, <1>2 DEF CoverageInv, Collected, ReadsInOrder, KillersToCome, CoverageLosesNoKill

\* A test of the mutant's suite runs in one of the scopes.
LEMMA SuiteIsScoped ==
    ASSUME CoverageWorld, NEW t \in Suite
    PROVE  t \in AllTests /\ \E scope \in ScopesOfWorld : t \in TestsIn(scope)
<1>1. world.mutant.package \in Range(Packages) /\ world.mutant.package # "workspace"
  BY CoverageAssumption DEF CoverageWorld
<1>2. CASE world.recursive
  <2>1. t \in AllTests /\ Scopes = <<"workspace">> /\ TestsIn("workspace") = AllTests
    BY <1>2 DEF Suite, Scopes, TestsIn
  <2>2. "workspace" \in ScopesOfWorld
    BY <2>1 DEF ScopesOfWorld, Range
  <2>3. QED BY <2>1, <2>2
<1>3. CASE ~world.recursive
  <2>1. t \in TestsOf(world.mutant.package) /\ Scopes = Packages
    BY <1>3 DEF Suite, Scopes
  <2>2. t \in TestsIn(world.mutant.package)
    BY <1>1, <2>1 DEF TestsIn
  <2>3. t \in AllTests
    BY <1>1, <2>1 DEF AllTests
  <2>4. QED BY <1>1, <2>1, <2>2, <2>3 DEF ScopesOfWorld
<1>4. QED BY <1>2, <1>3

LEMMA ScopesAreList ==
    ASSUME CoverageWorld
    PROVE  /\ Scopes \in Seq(ScopesOfWorld)
           /\ \A scope \in ScopesOfWorld : TestsIn(scope) \subseteq AllTests
           /\ \A scope \in ScopesOfWorld : \E n \in 1 .. Len(Scopes) : Scopes[n] = scope
<1>1. CASE world.recursive
  <2>1. Scopes = <<"workspace">>
    BY <1>1 DEF Scopes
  <2>2. ScopesOfWorld = {"workspace"}
    BY <2>1 DEF ScopesOfWorld, Range
  <2>3. TestsIn("workspace") = AllTests
    BY DEF TestsIn
  <2>4. QED BY <2>1, <2>2, <2>3
<1>2. CASE ~world.recursive
  <2>1. Scopes = Packages /\ ScopesOfWorld = Range(Packages)
    BY <1>2 DEF Scopes, ScopesOfWorld
  <2>2. Packages \in Seq(Range(Packages)) /\ DOMAIN Packages = 1 .. Len(Packages)
    BY CoverageAssumption, LenProperties
  <2>3. \A scope \in Range(Packages) : \E n \in 1 .. Len(Packages) : Packages[n] = scope
    BY <2>2 DEF Range
  <2>4. \A scope \in Range(Packages) : TestsIn(scope) \subseteq AllTests
    BY DEF TestsIn, AllTests
  <2>5. QED BY <2>1, <2>2, <2>3, <2>4
<1>3. QED BY <1>1, <1>2

LEMMA WorldStays ==
    ASSUME world' = world
    PROVE  /\ CoverageWorld' <=> CoverageWorld
           /\ Scopes' = Scopes /\ ScopesOfWorld' = ScopesOfWorld /\ JobsOfWorld' = JobsOfWorld
           /\ Suite' = Suite /\ Unseen' = Unseen /\ SeenKillers' = SeenKillers
           /\ \A job : Executed(job)' = Executed(job)
           /\ \A job : ProfileOf(job)' = ProfileOf(job)
           /\ \A scope : TestsIn(scope)' = TestsIn(scope) /\ Listed(scope)' = Listed(scope)
  BY DEF CoverageWorld, Scopes, ScopesOfWorld, JobsOfWorld, Suite, Executed, ProfileOf, TestsIn,
         Listed, Unseen, SeenKillers

\* The list holds a run for each scope, or for each scope and listed test.
LEMMA NormalJobsList ==
    ASSUME CoverageWorld
    PROVE  /\ NormalJobs \in Seq(JobsOfWorld)
           /\ \A scope \in ScopesOfWorld :
                \E i \in 1 .. Len(NormalJobs) : NormalJobs[i] = [scope |-> scope, test |-> "all"]
<1> DEFINE job(scope) == [scope |-> scope, test |-> "all"]
           list == [n \in 1 .. Len(Scopes) |-> job(Scopes[n])]
<1>1. /\ Len(Scopes) \in Nat /\ DOMAIN Scopes = 1 .. Len(Scopes)
      /\ \A n \in 1 .. Len(Scopes) : Scopes[n] \in ScopesOfWorld
      /\ \A scope \in ScopesOfWorld : \E n \in 1 .. Len(Scopes) : Scopes[n] = scope
  BY ScopesAreList, LenProperties
<1>2. NormalJobs = list
  BY <1>1 DEF NormalJobs
<1>3. \A scope \in ScopesOfWorld : job(scope) \in JobsOfWorld
  BY DEF JobsOfWorld
<1> HIDE DEF job
<1>4. list \in Seq(JobsOfWorld) /\ Len(list) = Len(Scopes)
      /\ \A n \in 1 .. Len(Scopes) : list[n] = job(Scopes[n])
  BY <1>1, <1>3, SeqDef
<1>5. \A scope \in ScopesOfWorld : \E i \in 1 .. Len(list) : list[i] = job(scope)
  BY <1>1, <1>4
<1> HIDE DEF list
<1>6. QED BY <1>2, <1>4, <1>5 DEF job

LEMMA TestJobsList ==
    ASSUME CoverageWorld, "perTest" \in world.kinds
    PROVE  /\ TestJobs \in Seq(JobsOfWorld)
           /\ \A scope \in ScopesOfWorld : \A t \in Listed(scope) :
                \E i \in 1 .. Len(TestJobs) : TestJobs[i] = [scope |-> scope, test |-> t]
<1> DEFINE job(scope, t) == [scope |-> scope, test |-> t]
           listed(scope) == SetToSeq(Listed(scope))
           part(scope) == [m \in DOMAIN listed(scope) |-> job(scope, listed(scope)[m])]
           parts == [n \in 1 .. Len(Scopes) |-> part(Scopes[n])]
<1>1. /\ Len(Scopes) \in Nat /\ DOMAIN Scopes = 1 .. Len(Scopes)
      /\ \A n \in 1 .. Len(Scopes) : Scopes[n] \in ScopesOfWorld
      /\ \A scope \in ScopesOfWorld : Listed(scope) \subseteq AllTests
      /\ \A scope \in ScopesOfWorld : \E n \in 1 .. Len(Scopes) : Scopes[n] = scope
  BY ScopesAreList, LenProperties DEF Listed
<1>2. TestJobs = FlattenSeq(parts)
  BY <1>1 DEF TestJobs
<1>3. ASSUME NEW scope \in ScopesOfWorld
      PROVE  /\ part(scope) \in Seq(JobsOfWorld)
             /\ \A t \in Listed(scope) :
                   \E m \in 1 .. Len(part(scope)) : part(scope)[m] = job(scope, t)
  <2>1. \A t \in Listed(scope) : job(scope, t) \in JobsOfWorld
    BY <1>1 DEF JobsOfWorld
  <2>2. IsFiniteSet(Listed(scope))
    BY <1>1, CoverageAssumption, FS_Subset
  <2>3. /\ listed(scope) \in Seq(Listed(scope))
        /\ \A t \in Listed(scope) : \E m \in 1 .. Len(listed(scope)) : listed(scope)[m] = t
    BY <2>2, ListOfSet
  <2> HIDE DEF job, listed
  <2>4. /\ Len(listed(scope)) \in Nat /\ DOMAIN listed(scope) = 1 .. Len(listed(scope))
        /\ \A m \in 1 .. Len(listed(scope)) : listed(scope)[m] \in Listed(scope)
    BY <2>3, LenProperties
  <2>5. /\ part(scope) \in Seq(JobsOfWorld) /\ Len(part(scope)) = Len(listed(scope))
        /\ \A m \in 1 .. Len(listed(scope)) : part(scope)[m] = job(scope, listed(scope)[m])
    BY <2>1, <2>4, SeqDef
  <2> HIDE DEF part
  <2>6. QED BY <2>3, <2>5
<1> HIDE DEF part, job
<1>4. /\ parts \in Seq(Seq(JobsOfWorld)) /\ Len(parts) = Len(Scopes)
      /\ \A n \in 1 .. Len(Scopes) : parts[n] = part(Scopes[n])
  BY <1>1, <1>3, SeqDef
<1> HIDE DEF parts
<1>5. /\ FlattenSeq(parts) \in Seq(JobsOfWorld)
      /\ \A i \in 1 .. Len(parts) : \A j \in 1 .. Len(parts[i]) :
            \E k \in 1 .. Len(FlattenSeq(parts)) : FlattenSeq(parts)[k] = parts[i][j]
  BY <1>4, FlattenHolds
<1>6. ASSUME NEW scope \in ScopesOfWorld, NEW t \in Listed(scope)
      PROVE  \E i \in 1 .. Len(TestJobs) : TestJobs[i] = job(scope, t)
  <2>1. PICK n \in 1 .. Len(Scopes) : Scopes[n] = scope
    BY <1>1
  <2>2. PICK m \in 1 .. Len(parts[n]) : parts[n][m] = job(scope, t)
    BY <1>3, <1>4, <2>1
  <2>3. QED BY <1>2, <1>4, <1>5, <2>2
<1>7. QED BY <1>2, <1>5, <1>6 DEF job

\* What is in one of two lists is in both together.
LEMMA InEither ==
    ASSUME NEW S, NEW a \in Seq(S), NEW b \in Seq(S), NEW x,
           \/ \E i \in 1 .. Len(a) : a[i] = x
           \/ \E i \in 1 .. Len(b) : b[i] = x
    PROVE  \E i \in 1 .. Len(a \o b) : (a \o b)[i] = x
<1>1. Len(a) \in Nat /\ Len(b) \in Nat /\ Len(a \o b) = Len(a) + Len(b)
  BY OneAfterTheOther, LenProperties
<1>2. CASE \E i \in 1 .. Len(a) : a[i] = x
  <2>1. PICK i \in 1 .. Len(a) : a[i] = x
    BY <1>2
  <2>2. i \in 1 .. Len(a \o b) /\ (a \o b)[i] = a[i]
    BY <1>1, OneAfterTheOther
  <2>3. QED BY <2>1, <2>2
<1>3. CASE \E i \in 1 .. Len(b) : b[i] = x
  <2>1. PICK i \in 1 .. Len(b) : b[i] = x
    BY <1>3
  <2>2. i + Len(a) \in 1 .. Len(a \o b) /\ (a \o b)[i + Len(a)] = b[i]
    BY <1>1, OneAfterTheOther
  <2>3. QED BY <2>1, <2>2
<1>4. QED BY <1>2, <1>3

LEMMA ListJobsKeeps == CoverageInv /\ ListJobs => CoverageInv'
<1> SUFFICES ASSUME CoverageInv, ListJobs PROVE CoverageInv'
  OBVIOUS
<1> DEFINE normalRuns == IF "normal" \in world.kinds THEN NormalJobs ELSE <<>>
           testRuns == IF "perTest" \in world.kinds THEN TestJobs ELSE <<>>
<1>1. /\ covStep = "list" /\ covStep' = "job" /\ world' = world /\ short' = short
      /\ normal' = normal /\ perTest' = perTest /\ tests' = tests /\ result' = result
      /\ jobs' = normalRuns \o testRuns
  BY DEF ListJobs, maps
<1>2. CoverageWorld /\ CoverageWorld'
  BY <1>1, WorldStays DEF CoverageInv
<1>3. /\ normalRuns \in Seq(JobsOfWorld)
      /\ "normal" \in world.kinds => \A scope \in ScopesOfWorld :
            \E i \in 1 .. Len(normalRuns) : normalRuns[i] = [scope |-> scope, test |-> "all"]
  BY <1>2, NormalJobsList, EmptySeq
<1>4. /\ testRuns \in Seq(JobsOfWorld)
      /\ "perTest" \in world.kinds => \A scope \in ScopesOfWorld : \A t \in Listed(scope) :
            \E i \in 1 .. Len(testRuns) : testRuns[i] = [scope |-> scope, test |-> t]
  BY <1>2, TestJobsList, EmptySeq
<1> HIDE DEF normalRuns, testRuns
<1>5. /\ jobs' \in Seq(JobsOfWorld)
      /\ "normal" \in world.kinds => \A scope \in ScopesOfWorld :
            \E i \in 1 .. Len(jobs') : jobs'[i] = [scope |-> scope, test |-> "all"]
      /\ "perTest" \in world.kinds => \A scope \in ScopesOfWorld : \A t \in Listed(scope) :
            \E i \in 1 .. Len(jobs') : jobs'[i] = [scope |-> scope, test |-> t]
  <2>1. jobs' \in Seq(JobsOfWorld)
    BY <1>1, <1>3, <1>4, ConcatProperties
  <2>2. ASSUME "normal" \in world.kinds, NEW scope \in ScopesOfWorld
        PROVE  \E i \in 1 .. Len(jobs') : jobs'[i] = [scope |-> scope, test |-> "all"]
    BY <1>1, <1>3, <1>4, <2>2, InEither
  <2>3. ASSUME "perTest" \in world.kinds, NEW scope \in ScopesOfWorld, NEW t \in Listed(scope)
        PROVE  \E i \in 1 .. Len(jobs') : jobs'[i] = [scope |-> scope, test |-> t]
    BY <1>1, <1>3, <1>4, <2>3, InEither
  <2>4. QED BY <2>1, <2>2, <2>3
<1>6. JobsTyped'
  BY <1>1, <1>5, WorldStays DEF CoverageInv, JobsTyped
<1>7. Collected'
  BY <1>1, <1>5, WorldStays DEF Collected, ToCome
<1>8. CoverageLosesNoKill'
  BY <1>1, WorldStays DEF CoverageInv, CoverageLosesNoKill
<1>9. QED BY <1>1, <1>2, <1>6, <1>7, <1>8 DEF CoverageInv, ReadsInOrder, KillersToCome

\* What the run that starts or goes on leaves as it is.
LEMMA CollectionStays ==
    ASSUME CoverageInv, world' = world, jobs' = jobs, normal' = normal, perTest' = perTest,
           ~short' => ~short,
           covStep \in {"job", "read", "select"},
           covStep' \in {"job", "read", "done"}
    PROVE  CoverageWorld' /\ JobsTyped' /\ Collected' /\ KillersToCome'
<1>1. CoverageWorld' /\ JobsTyped'
  BY WorldStays DEF CoverageInv, JobsTyped
<1>2. Collected'
  BY WorldStays DEF CoverageInv, Collected, ToCome
<1>3. QED BY <1>1, <1>2 DEF KillersToCome

\* The first n of a list.
LEMMA PrefixFacts ==
    ASSUME NEW S, NEW s \in Seq(S), NEW n \in 1 .. Len(s)
    PROVE  Len(SubSeq(s, 1, n)) = n /\ SubSeq(s, 1, n)[n] = s[n]
<1>1. Len(s) \in Nat
  BY LenProperties
<1>2. \A i \in 1 .. n : i \in 1 .. Len(s)
  BY <1>1
<1>3. \A i \in 1 .. n : s[i] \in S
  BY <1>2, ElementOfSeq
<1>4. Len(SubSeq(s, 1, n)) = n - 1 + 1 /\ SubSeq(s, 1, n)[n] = s[1 + n - 1]
  BY <1>1, <1>3, SubSeqProperties
<1>5. QED BY <1>1, <1>4

LEMMA RunJobKeeps == CoverageInv /\ RunJob => CoverageInv'
<1> SUFFICES ASSUME CoverageInv, RunJob PROVE CoverageInv'
  OBVIOUS
<1> USE DEF LcovType
<1> DEFINE P == ProfileOf(Head(jobs))
<1>1. /\ covStep = "job" /\ jobs # <<>> /\ world' = world /\ jobs' = jobs /\ normal' = normal
      /\ perTest' = perTest /\ tests' = tests
      /\ \/ /\ records' \in {P} \cup TornFrom(P) /\ covStep' = "read" /\ lcov' = Reader
            /\ result' = result
            /\ short' = (short \/ (records' # P /\ EndsARecord(records')))
         \/ covStep' = "done" /\ result' = "failed" /\ short' = short
  BY Zenon DEF RunJob, FailRun, maps
<1>2. CoverageWorld' /\ JobsTyped' /\ Collected' /\ KillersToCome'
  <2>1. ~short' => ~short
    <3>1. CASE short' = short
      BY <3>1
    <3>2. CASE short' = (short \/ (records' # P /\ EndsARecord(records')))
      BY <3>2
    <3>3. QED BY Zenon, <1>1, <3>1, <3>2
  <2>2. world' = world /\ jobs' = jobs /\ normal' = normal /\ perTest' = perTest
    BY <1>1
  <2> HIDE DEF P
  <2>3. covStep \in {"job", "read", "select"} /\ covStep' \in {"job", "read", "done"}
    BY <1>1
  <2>4. QED BY <2>1, <2>2, <2>3, CollectionStays
<1>3. CASE covStep' = "read"
  <2>1. P \in Seq(RecordsOf(Head(jobs)))
    BY ProfileHolds
  <2>2. Len(P) \in Nat
    BY <2>1, LenProperties
  <2>3. \E n \in 0 .. Len(P) : /\ records' = SubSeq(P, 1, n)
                               /\ short' \/ n = Len(P) \/ (n > 0 /\ P[n].tag # "end")
    <3>1. CASE records' = P
      <4>1. records' = SubSeq(P, 1, Len(P))
        BY <2>1, <3>1, SubSeqFull
      <4>2. QED BY <2>2, <4>1
    <3>2. CASE records' \in TornFrom(P) /\ records' # P
      <4> HIDE DEF P
      <4>1. PICK n \in 0 .. Len(P) - 1 : records' = SubSeq(P, 1, n)
        BY <3>2 DEF TornFrom
      <4>2. short' \/ ~EndsARecord(records')
        BY <1>1, <1>3, <3>2
      <4>3. ~EndsARecord(records') => n > 0 /\ P[n].tag # "end"
        <5> SUFFICES ASSUME ~EndsARecord(records') PROVE n > 0 /\ P[n].tag # "end"
          OBVIOUS
        <5>1. records' # <<>> /\ Last(records').tag # "end"
          BY DEF EndsARecord
        <5>2. n > 0
          BY <2>1, <2>2, <4>1, <5>1, SubSeqEmpty
        <5>3. n \in 1 .. Len(P) /\ 1 \in 1 .. Len(P)
          BY <2>2, <4>1, <5>2
        <5>4. Len(records') = n /\ records'[n] = P[n]
          BY <2>1, <4>1, <5>3, PrefixFacts
        <5>5. QED BY <5>1, <5>2, <5>4 DEF Last
      <4>4. n \in 0 .. Len(P)
        BY <2>2, <4>1
      <4>5. short' \/ n = Len(P) \/ (n > 0 /\ P[n].tag # "end")
        BY <4>2, <4>3
      <4>6. QED BY <4>1, <4>4, <4>5
    <3>3. QED BY <1>1, <1>3, <3>1, <3>2
  <2>4. PICK n \in 0 .. Len(P) : /\ records' = SubSeq(P, 1, n)
                                 /\ short' \/ n = Len(P) \/ (n > 0 /\ P[n].tag # "end")
    BY <2>3
  <2>5. P' = P
    BY <1>1, WorldStays
  <2> HIDE DEF P
  <2>6. ReadOf(P, n, 0)'
    BY <2>2, <2>4, <2>5 DEF ReadOf
  <2>7. (\E m, k \in Nat : ReadOf(P, m, k))'
    BY <2>2, <2>6
  <2>8. lcov' \in LcovType
    <3>1. lcov' = Reader
      BY <1>1, <1>3
    <3>2. Reader \in LcovType
      <4>1. NoSource \in Sources
        BY DEF Sources
      <4>2. QED BY <4>1 DEF Reader
    <3>3. QED BY <3>1, <3>2
  <2>9. ReadsInOrder'
    BY <1>1, <2>7, <2>8 DEF ReadsInOrder, P
  <2>10. CoverageLosesNoKill'
    BY <1>1, <1>3, WorldStays DEF CoverageInv, CoverageLosesNoKill
  <2>11. QED BY <1>2, <2>9, <2>10 DEF CoverageInv
<1>4. CASE covStep' = "done"
  BY <1>1, <1>2, <1>4 DEF CoverageInv, CoverageLosesNoKill, ReadsInOrder
<1>5. QED BY <1>1, <1>3, <1>4

LEMMA ReadRecordKeeps == CoverageInv /\ ReadRecord => CoverageInv'
<1> SUFFICES ASSUME CoverageInv, ReadRecord PROVE CoverageInv'
  OBVIOUS
<1> USE DEF LcovType
<1> DEFINE P == ProfileOf(Head(jobs))
           r == Head(records)
<1>1. /\ covStep = "read" /\ records # <<>> /\ records' = Tail(records) /\ short' = short
      /\ world' = world /\ jobs' = jobs /\ normal' = normal /\ perTest' = perTest /\ tests' = tests
  BY DEF ReadRecord, maps
<1>2. /\ r.tag = "SF" => covStep' = "done" \/ lcov' = [lcov EXCEPT !.source = r.source, !.text = TRUE]
      /\ r.tag = "DA" => /\ lcov.source # NoSource
                         /\ lcov' = [lcov EXCEPT !.data = TRUE,
                                        !.lines = IF r.hit THEN @ \cup {r.spot} ELSE @]
      /\ r.tag = "end" => lcov' = [lcov EXCEPT !.source = NoSource]
      /\ r.tag \in {"SF", "DA", "end"}
      /\ \/ covStep' = covStep /\ result' = result
         \/ covStep' = "done" /\ result' = "failed"
  <2> HIDE DEF r
  <2>1. QED BY DEF ReadRecord, FailRun, r
<1>3. CoverageWorld' /\ JobsTyped' /\ Collected' /\ KillersToCome'
  BY <1>1, <1>2, CollectionStays
<1>4. CoverageLosesNoKill'
  BY <1>1, <1>2, WorldStays DEF CoverageInv, CoverageLosesNoKill
<1>5. CASE covStep' = "done"
  BY <1>3, <1>4, <1>5 DEF CoverageInv, ReadsInOrder
<1>6. CASE covStep' = "read"
  <2>1. /\ jobs # <<>> /\ lcov \in LcovType
        /\ \E n, k \in Nat : ReadOf(P, n, k)
    BY <1>1 DEF CoverageInv, ReadsInOrder
  <2>2. PICK n \in Nat : \E k \in Nat : ReadOf(P, n, k)
    BY <2>1
  <2>3. PICK k \in Nat : ReadOf(P, n, k)
    BY <2>2
  <2>4. P \in Seq(RecordsOf(Head(jobs))) /\ Len(P) \in Nat
    BY ProfileHolds, LenProperties
  <2>5. /\ n \in 0 .. Len(P) /\ k \in 0 .. n /\ records = SubSeq(P, k + 1, n)
        /\ (k > 0 /\ P[k].tag # "end") => lcov.source # NoSource
        /\ short \/ n = Len(P) \/ (n > 0 /\ P[n].tag # "end")
        /\ \A i \in 1 .. k : (P[i].tag = "DA" /\ P[i].hit) => P[i].spot \in lcov.lines
    BY <2>3 DEF ReadOf
  <2> HIDE DEF P, r
  <2>6. k < n
    <3>1. k >= n => records = <<>>
      BY <2>4, <2>5, SubSeqEmpty
    <3>2. QED BY <1>1, <2>5, <3>1
  <2>7. r = P[k + 1] /\ records' = SubSeq(P, k + 2, n)
    <3>1. k + 1 \in 1 .. Len(P) /\ n \in k + 1 .. Len(P)
      BY <2>4, <2>5, <2>6
    <3>2. Head(SubSeq(P, k + 1, n)) = P[k + 1] /\ Tail(SubSeq(P, k + 1, n)) = SubSeq(P, (k + 1) + 1, n)
      BY <2>4, <3>1, HeadTailOfSubSeq
    <3>3. (k + 1) + 1 = k + 2
      BY <2>5
    <3>4. QED BY <1>1, <2>5, <3>2, <3>3 DEF r
  <2>8. r \in RecordsOf(Head(jobs))
    <3>1. k + 1 \in 1 .. Len(P)
      BY <2>4, <2>5, <2>6
    <3>2. QED BY <2>4, <2>7, <3>1, ElementOfSeq
  <2>9. /\ r.tag = "SF" => r.source \in Sources /\ r.source # NoSource
        /\ r.tag = "DA" => r.spot \in Spots
    BY <2>8, RecordsTyped
  <2>10. /\ lcov' \in LcovType
         /\ r.tag # "end" => lcov'.source # NoSource
         /\ lcov.lines \subseteq lcov'.lines
         /\ (r.tag = "DA" /\ r.hit) => r.spot \in lcov'.lines
    <3>1. CASE r.tag = "SF"
      BY <1>2, <1>6, <2>1, <2>9, <3>1
    <3>2. CASE r.tag = "DA"
      <4> DEFINE lines == IF r.hit THEN lcov.lines \cup {r.spot} ELSE lcov.lines
      <4>1. lcov' = [lcov EXCEPT !.data = TRUE, !.lines = lines] /\ lcov.source # NoSource
        BY <1>2, <3>2
      <4>2. lines \in SUBSET Spots /\ lcov.lines \subseteq lines /\ (r.hit => r.spot \in lines)
        <5>1. lcov.lines \in SUBSET Spots /\ r.spot \in Spots
          BY <2>1, <2>9, <3>2
        <5>2. QED BY <5>1
      <4> HIDE DEF lines
      <4>3. /\ lcov' \in LcovType
            /\ lcov'.source = lcov.source /\ lcov'.lines = lines
        BY <2>1, <4>1, <4>2
      <4>4. QED BY <3>2, <4>1, <4>2, <4>3
    <3>3. CASE r.tag = "end"
      <4>1. NoSource \in Sources
        BY DEF Sources
      <4>2. QED BY <1>2, <1>6, <2>1, <3>3, <4>1
    <3>4. QED BY <1>2, <3>1, <3>2, <3>3
  <2>11. P' = P
    BY <1>1, WorldStays DEF P
  <2>12. ReadOf(P, n, k + 1)'
    <3>1. n \in 0 .. Len(P) /\ k + 1 \in 0 .. n /\ records' = SubSeq(P, (k + 1) + 1, n)
      BY <2>5, <2>6, <2>7
    <3>2. (k + 1 > 0 /\ P[k + 1].tag # "end") => lcov'.source # NoSource
      BY <2>7, <2>10
    <3>3. \A i \in 1 .. k + 1 : (P[i].tag = "DA" /\ P[i].hit) => P[i].spot \in lcov'.lines
      <4>1. \A i \in 1 .. k + 1 : i \in 1 .. k \/ i = k + 1
        BY <2>5
      <4>2. QED BY <2>5, <2>7, <2>10, <4>1
    <3>4. QED BY <1>1, <2>5, <2>11, <3>1, <3>2, <3>3 DEF ReadOf
  <2>13. (\E m, i \in Nat : ReadOf(P, m, i))'
    <3>1. k + 1 \in Nat
      OBVIOUS
    <3>2. QED BY <2>12, <3>1
  <2>14. ReadsInOrder'
    BY <1>1, <2>1, <2>10, <2>13 DEF ReadsInOrder, P
  <2>15. QED BY <1>3, <1>4, <2>14 DEF CoverageInv
<1>7. QED BY <1>1, <1>2, <1>5, <1>6

LEMMA ExecutedAreSpots ==
    ASSUME CoverageWorld, NEW job \in JobsOfWorld
    PROVE  /\ Executed(job) \subseteq Spots
           /\ job.test # "all" => /\ "perTest" \in world.kinds /\ job.test \in AllTests
                                  /\ Executed(job) = world.hits[job.test]
<1>1. \A scope \in ScopesOfWorld : TestsIn(scope) \subseteq AllTests
  BY ScopesAreList
<1>2. \A t \in AllTests : world.hits[t] \subseteq Spots
  BY DEF CoverageWorld
<1>3. CASE job.test # "all"
  <2>1. job.test \in AllTests /\ "perTest" \in world.kinds
    BY <1>3 DEF JobsOfWorld
  <2>2. Executed(job) = world.hits[job.test]
    BY <1>3 DEF Executed
  <2>3. QED BY <1>2, <2>1, <2>2
<1>4. CASE job.test = "all"
  <2>1. job.scope \in ScopesOfWorld
    BY DEF JobsOfWorld
  <2>2. Executed(job) = UNION {world.hits[t] : t \in TestsIn(job.scope) \ Doctests}
    BY <1>4 DEF Executed
  <2>3. QED BY <1>1, <1>2, <1>4, <2>1, <2>2
<1>5. QED BY <1>3, <1>4

LEMMA NothingIsLost ==
    ASSUME NEW lines \in SUBSET Spots
    PROVE  lines \subseteq Restored(lines)
<1> SUFFICES ASSUME NEW s \in lines PROVE s \in Restored(lines)
  OBVIOUS
<1>1. PICK p \in Range(Profiled) : p.source = s.source /\ p.place \in {"copy", "original"}
  BY CoverageAssumption
<1>2. PICK n \in DOMAIN Profiled : Profiled[n] = p
  BY DEF Range
<1>3. QED BY <1>1, <1>2 DEF Restored

\* The whole profile has been read when the text ends outside a record, unless
\* it was cut between two.
LEMMA WholeProfile ==
    ASSUME CoverageInv, covStep = "read", records = <<>>, lcov.source = NoSource
    PROVE  /\ jobs # <<>> /\ Head(jobs) \in JobsOfWorld
           /\ ~short => Executed(Head(jobs)) \subseteq Restored(lcov.lines)
<1> DEFINE job == Head(jobs)
           P == ProfileOf(job)
<1>1. /\ jobs # <<>> /\ lcov \in LcovType
      /\ \E n, k \in Nat : ReadOf(P, n, k)
  BY DEF CoverageInv, ReadsInOrder
<1>2. job \in JobsOfWorld
  BY <1>1, HeadTailProperties DEF CoverageInv, JobsTyped
<1>3. PICK n \in Nat : \E k \in Nat : ReadOf(P, n, k)
  BY <1>1
<1>4. PICK k \in Nat : ReadOf(P, n, k)
  BY <1>3
<1>5. P \in Seq(RecordsOf(job)) /\ Len(P) \in Nat
      /\ \A s \in Spots \cap Executed(job) :
            \E i \in 1 .. Len(P) : P[i].tag = "DA" /\ P[i].spot = s /\ P[i].hit
  <2>1. P \in Seq(RecordsOf(job))
    BY ProfileHolds
  <2>2. QED BY <2>1, ProfileHolds, LenProperties
<1> HIDE DEF P
<1>6. /\ n \in 0 .. Len(P) /\ k \in 0 .. n /\ records = SubSeq(P, k + 1, n)
      /\ (k > 0 /\ P[k].tag # "end") => lcov.source # NoSource
      /\ short \/ n = Len(P) \/ (n > 0 /\ P[n].tag # "end")
      /\ \A i \in 1 .. k : (P[i].tag = "DA" /\ P[i].hit) => P[i].spot \in lcov.lines
  BY <1>4 DEF ReadOf
<1>7. k = n
  <2>1. ASSUME k < n PROVE FALSE
    <3>1. \A i \in k + 1 .. n : i \in 1 .. Len(P)
      BY <1>5, <1>6
    <3>2. \A i \in k + 1 .. n : P[i] \in RecordsOf(job)
      BY <1>5, <3>1, ElementOfSeq
    <3>3. Len(SubSeq(P, k + 1, n)) = n - (k + 1) + 1
      BY <1>6, <2>1, <3>2, SubSeqProperties
    <3>4. Len(SubSeq(P, k + 1, n)) = 0
      <4>1. SubSeq(P, k + 1, n) = <<>>
        BY <1>6
      <4>2. QED BY <4>1, EmptySeq
    <3>5. QED BY <2>1, <3>3, <3>4
  <2>2. QED BY <1>6, <2>1
<1>8. ~short => n = Len(P)
  BY <1>6, <1>7
<1>9. ~short => Executed(job) \subseteq lcov.lines
  <2> SUFFICES ASSUME ~short, NEW s \in Executed(job) PROVE s \in lcov.lines
    OBVIOUS
  <2>1. s \in Spots
    BY <1>2, ExecutedAreSpots DEF CoverageInv
  <2>2. PICK i \in 1 .. Len(P) : P[i].tag = "DA" /\ P[i].spot = s /\ P[i].hit
    BY <1>5, <2>1
  <2>3. QED BY <1>6, <1>7, <1>8, <2>2
<1>10. lcov.lines \subseteq Restored(lcov.lines)
  BY <1>1, NothingIsLost DEF LcovType
<1>11. QED BY <1>1, <1>2, <1>9, <1>10

LEMMA EndProfileKeeps == CoverageInv /\ EndProfile => CoverageInv'
<1> SUFFICES ASSUME CoverageInv, EndProfile PROVE CoverageInv'
  OBVIOUS
<1> DEFINE job == Head(jobs)
           read == Restored(lcov.lines)
<1>1. /\ covStep = "read" /\ records = <<>> /\ world' = world /\ tests' = tests /\ short' = short
      /\ \/ /\ covStep' = "done" /\ result' = "failed" /\ jobs' = jobs
            /\ normal' = normal /\ perTest' = perTest
         \/ /\ lcov.source = NoSource /\ jobs' = Tail(jobs) /\ covStep' = "job" /\ result' = result
            /\ job.test = "all" => normal' = normal \cup read /\ perTest' = perTest
            /\ job.test # "all" => perTest' = perTest \cup (read \X {job.test}) /\ normal' = normal
  BY DEF EndProfile, FailRun, maps
<1>2. CoverageLosesNoKill'
  BY <1>1, WorldStays DEF CoverageInv, CoverageLosesNoKill
<1>3. CASE covStep' = "done"
  BY <1>1, <1>2, <1>3, CollectionStays DEF CoverageInv, ReadsInOrder
<1>4. CASE covStep' = "job"
  <2>1. /\ lcov.source = NoSource /\ jobs' = Tail(jobs) /\ result' = result
        /\ job.test = "all" => normal' = normal \cup read /\ perTest' = perTest
        /\ job.test # "all" => perTest' = perTest \cup (read \X {job.test}) /\ normal' = normal
    BY <1>1, <1>4
  <2>2. jobs # <<>> /\ job \in JobsOfWorld /\ (~short => Executed(job) \subseteq read)
    BY <1>1, <2>1, WholeProfile
  <2>3. /\ CoverageWorld /\ jobs \in Seq(JobsOfWorld)
        /\ Executed(job) \subseteq Spots
        /\ job.test # "all" => "perTest" \in world.kinds /\ Executed(job) = world.hits[job.test]
    BY <2>2, ExecutedAreSpots DEF CoverageInv, JobsTyped
  <2> HIDE DEF read, job
  <2>4. /\ Tail(jobs) \in Seq(JobsOfWorld) /\ Len(jobs) \in Nat /\ Len(Tail(jobs)) = Len(jobs) - 1
        /\ \A i \in 1 .. Len(Tail(jobs)) : Tail(jobs)[i] = jobs[i + 1]
    BY <2>2, <2>3, HeadTailProperties, LenProperties
  <2>5. ASSUME NEW other, ToCome(other) PROVE other = job \/ ToCome(other)'
    <3>1. PICK i \in 1 .. Len(jobs) : jobs[i] = other
      BY <2>5 DEF ToCome
    <3>2. CASE i = 1
      BY <3>1, <3>2 DEF job
    <3>3. CASE i # 1
      <4>1. i - 1 \in 1 .. Len(Tail(jobs)) /\ Tail(jobs)[i - 1] = jobs[(i - 1) + 1] /\ (i - 1) + 1 = i
        BY <2>4, <3>3
      <4>2. QED BY <2>1, <3>1, <4>1 DEF ToCome
    <3>4. QED BY <3>2, <3>3
  <2>6. CoverageWorld' /\ JobsTyped'
    BY <1>1, <1>4, <2>1, <2>3, <2>4, WorldStays DEF CoverageInv, JobsTyped
  <2>7. ASSUME ~short, NEW run, run.test = "all", ToCome(run) \/ Executed(run) \subseteq normal
        PROVE  ToCome(run)' \/ Executed(run) \subseteq normal'
    <3>1. normal \subseteq normal'
      BY <2>1
    <3>2. CASE ToCome(run)
      <4>1. CASE run = job
        BY <2>1, <2>2, <2>7, <4>1
      <4>2. CASE ToCome(run)'
        BY <4>2
      <4>3. QED BY <2>5, <3>2, <4>1, <4>2
    <3>3. CASE Executed(run) \subseteq normal
      BY <3>1, <3>3
    <3>4. QED BY <2>7, <3>2, <3>3
  <2>8. ASSUME ~short, NEW run, run.test # "all",
               ToCome(run) \/ world.hits[run.test] \X {run.test} \subseteq perTest
        PROVE  ToCome(run)' \/ world.hits[run.test] \X {run.test} \subseteq perTest'
    <3>1. perTest \subseteq perTest'
      BY <2>1
    <3>2. CASE ToCome(run)
      <4>1. CASE run = job
        <5>1. perTest' = perTest \cup (read \X {job.test}) /\ world.hits[job.test] \subseteq read
          BY <2>1, <2>2, <2>3, <2>8, <4>1
        <5>2. QED BY <4>1, <5>1
      <4>2. CASE ToCome(run)'
        BY <4>2
      <4>3. QED BY <2>5, <3>2, <4>1, <4>2
    <3>3. CASE world.hits[run.test] \X {run.test} \subseteq perTest
      BY <3>1, <3>3
    <3>4. QED BY <2>8, <3>2, <3>3
  <2>9. Collected'
    <3>1. ASSUME ~short, "normal" \in world.kinds, NEW scope \in ScopesOfWorld
          PROVE  LET run == [scope |-> scope, test |-> "all"]
                 IN  ToCome(run)' \/ Executed(run) \subseteq normal'
      <4> DEFINE run == [scope |-> scope, test |-> "all"]
      <4>1. ToCome(run) \/ Executed(run) \subseteq normal
        BY <1>1, <3>1 DEF CoverageInv, Collected
      <4>2. run.test = "all"
        OBVIOUS
      <4>3. QED BY <2>7, <3>1, <4>1, <4>2
    <3>2. ASSUME ~short, "perTest" \in world.kinds, NEW scope \in ScopesOfWorld,
                 NEW t \in Listed(scope)
          PROVE  ToCome([scope |-> scope, test |-> t])' \/ world.hits[t] \X {t} \subseteq perTest'
      <4> DEFINE run == [scope |-> scope, test |-> t]
      <4>1. ToCome(run) \/ world.hits[run.test] \X {run.test} \subseteq perTest
        BY <1>1, <3>2 DEF CoverageInv, Collected
      <4>2. t \in AllTests
        BY <2>3, <3>2, ScopesAreList DEF Listed
      <4>3. run.test # "all"
        BY <4>2, CoverageAssumption
      <4>4. ToCome(run)' \/ world.hits[run.test] \X {run.test} \subseteq perTest'
        BY <2>8, <3>2, <4>1, <4>3
      <4>5. QED BY <4>4
    <3>3. QED BY <1>1, <3>1, <3>2, WorldStays DEF Collected
  <2>10. QED BY <1>2, <1>4, <2>6, <2>9 DEF CoverageInv, ReadsInOrder, KillersToCome
<1>5. QED BY <1>1, <1>3, <1>4

LEMMA EndCollectionKeeps == CoverageInv /\ EndCollection => CoverageInv'
<1> SUFFICES ASSUME CoverageInv, EndCollection PROVE CoverageInv'
  OBVIOUS
<1> USE DEF EndCollection, maps
<1>1. CoverageWorld' /\ JobsTyped'
  BY WorldStays DEF CoverageInv, JobsTyped
<1>2. Collected'
  BY WorldStays DEF CoverageInv, Collected, ToCome
<1>3. CoverageLosesNoKill'
  BY WorldStays DEF CoverageInv, CoverageLosesNoKill
<1>4. QED BY <1>1, <1>2, <1>3 DEF CoverageInv, ReadsInOrder, KillersToCome

\* Once every run has been read whole, the maps tell of every test that coverage
\* can see and that executes the mutant, and so of each that fails on it.
LEMMA KillersAreOnTheMap ==
    ASSUME CoverageInv, covStep = "select", ~short, NEW t \in SeenKillers
    PROVE  /\ t \in AllTests
           /\ "normal" \in world.kinds => world.mutant \in normal
           /\ "perTest" \in world.kinds => <<world.mutant, t>> \in perTest
<1>0. /\ t \in Suite /\ t \in world.killers
      /\ "normal" \in world.kinds => t \notin Doctests
      /\ "perTest" \in world.kinds => t \notin Unlisted
  BY DEF SeenKillers, Unseen
<1>1. CoverageWorld /\ world.mutant \in world.hits[t]
  BY <1>0 DEF CoverageInv, CoverageWorld
<1>2. PICK scope \in ScopesOfWorld : t \in TestsIn(scope)
  BY <1>0, <1>1, SuiteIsScoped
<1>3. t \in AllTests
  BY <1>0, <1>1, SuiteIsScoped
<1>4. \A job : ~ToCome(job)
  <2>1. Len(jobs) = 0
    BY EmptySeq DEF CoverageInv, JobsTyped
  <2>2. QED BY <2>1 DEF ToCome
<1>5. ASSUME "normal" \in world.kinds PROVE world.mutant \in normal
  <2> DEFINE job == [scope |-> scope, test |-> "all"]
  <2>1. Executed(job) \subseteq normal
    BY <1>2, <1>4, <1>5 DEF CoverageInv, Collected
  <2>2. Executed(job) = UNION {world.hits[u] : u \in TestsIn(scope) \ Doctests}
    BY DEF Executed
  <2>3. QED BY <1>0, <1>1, <1>2, <1>5, <2>1, <2>2
<1>6. ASSUME "perTest" \in world.kinds PROVE <<world.mutant, t>> \in perTest
  <2>1. t \in Listed(scope)
    BY <1>0, <1>2, <1>6 DEF Listed
  <2>2. world.hits[t] \X {t} \subseteq perTest
    BY <1>2, <1>4, <1>6, <2>1 DEF CoverageInv, Collected
  <2>3. QED BY <1>1, <2>2
<1>7. QED BY <1>3, <1>5, <1>6

LEMMA SelectTestsKeeps == CoverageInv /\ SelectTests => CoverageInv'
<1> SUFFICES ASSUME CoverageInv, SelectTests PROVE CoverageInv'
  OBVIOUS
<1> DEFINE own == {t \in AllTests : <<world.mutant, t>> \in perTest}
<1>1. /\ covStep = "select" /\ world' = world /\ jobs' = jobs /\ normal' = normal
      /\ perTest' = perTest /\ short' = short
      /\ \/ /\ "normal" \in world.kinds /\ world.mutant \notin normal
            /\ result' = "NotCovered" /\ covStep' = "done"
         \/ /\ tests' = IF own = {} THEN <<"suite">> ELSE SetToSeq(own)
            /\ covStep' = "test" /\ result' = result
  BY DEF SelectTests, maps
<1>2. CoverageWorld' /\ JobsTyped'
  BY <1>1, WorldStays DEF CoverageInv, JobsTyped
<1>3. Collected'
  BY <1>1, WorldStays DEF CoverageInv, Collected, ToCome
<1>4. CASE covStep' = "done"
  <2>1. ~short => SeenKillers = {}
    BY <1>1, <1>4, KillersAreOnTheMap
  <2>2. CoverageLosesNoKill'
    BY <1>1, <1>4, <2>1, WorldStays DEF CoverageLosesNoKill, SeenKillers
  <2>3. QED BY <1>2, <1>3, <1>4, <2>2 DEF CoverageInv, ReadsInOrder, KillersToCome
<1>5. CASE covStep' = "test"
  <2>1. tests' = (IF own = {} THEN <<"suite">> ELSE SetToSeq(own)) /\ result' = result
    BY <1>1, <1>5
  <2>2. CoverageLosesNoKill'
    BY <1>1, <2>1, WorldStays DEF CoverageInv, CoverageLosesNoKill
  <2>3. /\ tests' \in Seq(AllTests \cup {"suite"}) /\ tests' # <<>>
        /\ ~short => \A t \in SeenKillers :
              \E i \in 1 .. Len(tests') : tests'[i] \in {t, "suite"}
    <3>1. CASE own = {}
      <4>1. tests' = <<"suite">>
        BY <2>1, <3>1
      <4>2. Len(<<"suite">>) = 1 /\ <<"suite">>[1] = "suite" /\ <<"suite">> # <<>>
        OBVIOUS
      <4>3. QED BY <4>1, <4>2
    <3>2. CASE own # {}
      <4>1. tests' = SetToSeq(own) /\ IsFiniteSet(own)
        BY <2>1, <3>2, CoverageAssumption, FS_Subset
      <4>2. /\ tests' \in Seq(own)
            /\ \A t \in own : \E i \in 1 .. Len(tests') : tests'[i] = t
        BY <4>1, ListOfSet
      <4>3. ~short => \A t \in SeenKillers : t \in own
        <5> SUFFICES ASSUME ~short, NEW t \in SeenKillers PROVE t \in own
          OBVIOUS
        <5>1. CASE "perTest" \in world.kinds
          BY <1>1, <5>1, KillersAreOnTheMap
        <5>2. CASE "perTest" \notin world.kinds
          BY <3>2, <5>2 DEF CoverageInv, JobsTyped
        <5>3. QED BY <5>1, <5>2
      <4>4. tests' \in Seq(AllTests \cup {"suite"})
        BY <4>2, SeqMonotonic
      <4>5. tests' # <<>>
        <5>1. PICK t \in own : TRUE
          BY <3>2
        <5>2. PICK i \in 1 .. Len(tests') : tests'[i] = t
          BY <4>2, <5>1
        <5>3. Len(tests') # 0
          BY <5>2
        <5>4. QED BY <5>3, EmptySeq
      <4> HIDE DEF own
      <4>6. QED BY <4>2, <4>3, <4>4, <4>5
    <3>3. QED BY <3>1, <3>2
  <2>4. KillersToCome'
    BY <1>1, <2>3, WorldStays DEF KillersToCome
  <2>5. QED BY <1>2, <1>3, <1>5, <2>2, <2>4 DEF CoverageInv, ReadsInOrder
<1>6. QED BY <1>1, <1>4, <1>5

LEMMA RunTestKeeps == CoverageInv /\ RunTest => CoverageInv'
<1> SUFFICES ASSUME CoverageInv, RunTest PROVE CoverageInv'
  OBVIOUS
<1> DEFINE command == Head(tests)
<1>1. /\ covStep = "test" /\ tests' = Tail(tests) /\ world' = world /\ jobs' = jobs
      /\ normal' = normal /\ perTest' = perTest /\ short' = short
      /\ \/ /\ ~Kills(command)
            /\ IF Len(tests) > 1 THEN covStep' = "test" /\ result' = result
               ELSE covStep' = "done" /\ result' = "Escaped"
         \/ Kills(command) /\ covStep' = "done" /\ result' = "Killed"
         \/ covStep' = "done" /\ result' = "Errored"
  BY DEF RunTest, maps
<1>2. CoverageWorld' /\ JobsTyped'
  BY <1>1, WorldStays DEF CoverageInv, JobsTyped
<1>3. Collected'
  BY <1>1, WorldStays DEF CoverageInv, Collected, ToCome
<1>4. /\ tests \in Seq(AllTests \cup {"suite"}) /\ tests # <<>>
      /\ ~short => \A t \in SeenKillers : \E i \in 1 .. Len(tests) : tests[i] \in {t, "suite"}
  BY <1>1 DEF CoverageInv, KillersToCome
<1>5. /\ Len(tests) \in Nat \ {0} /\ Tail(tests) \in Seq(AllTests \cup {"suite"})
      /\ command = tests[1]
      /\ Len(Tail(tests)) = Len(tests) - 1
      /\ \A i \in 1 .. Len(Tail(tests)) : Tail(tests)[i] = tests[i + 1]
  BY <1>4, HeadTailProperties, EmptySeq, LenProperties
<1> HIDE DEF command
<1>6. ASSUME ~Kills(command), ~short, NEW t \in SeenKillers
      PROVE  \E i \in 2 .. Len(tests) : tests[i] \in {t, "suite"}
  <2>1. PICK i \in 1 .. Len(tests) : tests[i] \in {t, "suite"}
    BY <1>4, <1>6
  <2>2. command \notin {t, "suite"}
    BY <1>6 DEF Kills, SeenKillers
  <2>3. i # 1
    BY <1>5, <2>1, <2>2
  <2>4. QED BY <1>5, <2>1, <2>3
<1>7. CASE covStep' = "test"
  <2>1. ~Kills(command) /\ Len(tests) > 1 /\ result' = result
    BY <1>1, <1>7
  <2>2. Tail(tests) # <<>>
    <3>1. Len(Tail(tests)) # 0
      BY <1>5, <2>1
    <3>2. Len(<<>>) = 0
      BY EmptySeq
    <3>3. QED BY <3>1, <3>2
  <2>3. ASSUME ~short, NEW t \in SeenKillers
        PROVE  \E i \in 1 .. Len(Tail(tests)) : Tail(tests)[i] \in {t, "suite"}
    <3>1. PICK i \in 2 .. Len(tests) : tests[i] \in {t, "suite"}
      BY <1>6, <2>1, <2>3
    <3>2. i - 1 \in 1 .. Len(Tail(tests)) /\ Tail(tests)[i - 1] = tests[(i - 1) + 1] /\ (i - 1) + 1 = i
      BY <1>5, <3>1
    <3>3. QED BY <3>1, <3>2
  <2>4. KillersToCome'
    BY <1>1, <1>5, <2>2, <2>3, WorldStays DEF KillersToCome
  <2>5. CoverageLosesNoKill'
    BY <1>1, <2>1, WorldStays DEF CoverageInv, CoverageLosesNoKill
  <2>6. QED BY <1>2, <1>3, <1>7, <2>4, <2>5 DEF CoverageInv, ReadsInOrder
<1>8. CASE covStep' = "done"
  <2>1. result' = "Escaped" /\ ~short => SeenKillers = {}
    <3> SUFFICES ASSUME result' = "Escaped", ~short, NEW t \in SeenKillers PROVE FALSE
      OBVIOUS
    <3>1. ~Kills(command) /\ ~(Len(tests) > 1)
      BY <1>1, <1>8
    <3>2. PICK i \in 2 .. Len(tests) : tests[i] \in {t, "suite"}
      BY <1>6, <3>1
    <3>3. QED BY <1>5, <3>1, <3>2
  <2>2. result' = "Killed" => world.killers # {}
    BY <1>1, <1>8 DEF Kills
  <2>3. CoverageLosesNoKill'
    BY <1>1, <1>8, <2>1, <2>2, WorldStays DEF CoverageLosesNoKill, SeenKillers
  <2>4. QED BY <1>2, <1>3, <1>8, <2>3 DEF CoverageInv, ReadsInOrder, KillersToCome
<1>9. QED BY <1>1, <1>7, <1>8

LEMMA CoverageStep == CoverageInv /\ [CoverageNext]_covVars => CoverageInv'
<1>1. CoverageInv /\ UNCHANGED covVars => CoverageInv'
  <2> SUFFICES ASSUME CoverageInv, UNCHANGED covVars PROVE CoverageInv'
    OBVIOUS
  <2> USE DEF covVars
  <2>1. CoverageWorld' /\ JobsTyped' /\ KillersToCome' /\ CoverageLosesNoKill'
    BY WorldStays DEF CoverageInv, JobsTyped, KillersToCome, CoverageLosesNoKill
  <2>2. Collected'
    BY WorldStays DEF CoverageInv, Collected, ToCome
  <2>3. ReadsInOrder'
    <3> DEFINE P == ProfileOf(Head(jobs))
    <3>1. P' = P
      BY WorldStays
    <3>2. CASE covStep = "read"
      <4>1. \E n, k \in Nat : ReadOf(P, n, k)
        BY <3>2 DEF CoverageInv, ReadsInOrder
      <4> HIDE DEF P
      <4>2. PICK n \in Nat : \E k \in Nat : ReadOf(P, n, k)
        BY <4>1
      <4>3. PICK k \in Nat : ReadOf(P, n, k)
        BY <4>2
      <4>4. ReadOf(P, n, k)'
        BY <3>1, <4>3 DEF ReadOf
      <4>5. (\E m, i \in Nat : ReadOf(P, m, i))'
        BY <4>4
      <4>6. QED BY <3>2, <4>5 DEF CoverageInv, ReadsInOrder, P
    <3>3. QED BY <3>2 DEF ReadsInOrder
  <2>4. QED BY <2>1, <2>2, <2>3 DEF CoverageInv
<1>2. QED BY <1>1, ListJobsKeeps, RunJobKeeps, ReadRecordKeeps, EndProfileKeeps,
             EndCollectionKeeps, SelectTestsKeeps, RunTestKeeps DEF CoverageNext

\* Whatever the packages, their tests and the lines they execute, with
\* --coverage, --per-test or both: unless a profile was cut between two records,
\* no profile that is torn or read for another run, and no selection of tests,
\* lets a mutant escape on which a test of its suite fails that coverage can see.
THEOREM NoKillIsLost == CoverageSpec => []CoverageLosesNoKill
<1>1. CoverageInv => CoverageLosesNoKill
  BY DEF CoverageInv
<1>2. QED BY <1>1, CoverageStarts, CoverageStep, PTL DEF CoverageSpec

-----------------------------------------------------------------------------
(* Items: trees in the order of the visit.                                 *)

LEMMA ItemFacts ==
    ASSUME IsTree(items)
    PROVE  /\ Len(items) \in Nat /\ Item = 1 .. Len(items) /\ Item \subseteq Nat
           /\ DOMAIN items = Item
           /\ \A i \in Item :
                /\ items[i].parent \in Nat /\ items[i].parent < i
                /\ items[i].parent # 0 => items[i].parent \in Item
                /\ items[i].first \in 0 .. End /\ items[i].past \in 0 .. End
                /\ items[i].first \in Nat /\ items[i].past \in Nat /\ items[i].body \in Nat
                /\ items[i].name \in Nat /\ items[i].first < items[i].past
                /\ items[i].kind = "fn" => items[i].first < items[i].body
<1> DEFINE R == [parent : Nat, kind : STRING, first : 0 .. End, past : 0 .. End,
                 name : 0 .. End, body : 0 .. End]
<1>1. items \in Seq(R)
  BY DEF IsTree
<1>2. Len(items) \in Nat /\ DOMAIN items = 1 .. Len(items) /\ \A i \in DOMAIN items : items[i] \in R
  <2> HIDE DEF R
  <2>1. QED BY <1>1, LenProperties, ElementOfSeq
<1>3. Item = 1 .. Len(items) /\ Item \subseteq Nat
  BY <1>2 DEF Item
<1>4. ASSUME NEW i \in Item
      PROVE  /\ items[i].parent \in Nat /\ items[i].parent < i
             /\ items[i].first \in 0 .. End /\ items[i].past \in 0 .. End
             /\ items[i].body \in 0 .. End /\ items[i].name \in 0 .. End
             /\ items[i].first < items[i].past
             /\ items[i].kind = "fn" => items[i].first < items[i].body
  <2>1. i \in DOMAIN items
    BY <1>2, <1>3
  <2>2. items[i] \in R
    BY <1>2, <2>1
  <2>3. /\ items[i].parent < i
        /\ items[i].first < items[i].past
        /\ items[i].kind = "fn" => items[i].first < items[i].body
    BY <2>1 DEF IsTree
  <2>4. QED BY <2>2, <2>3
<1>5. ASSUME NEW i \in Item, items[i].parent # 0 PROVE items[i].parent \in Item
  BY <1>2, <1>3, <1>4, <1>5
<1>6. \A x \in 0 .. End : x \in Nat
  BY RangesAssumption
<1> HIDE DEF R
<1>7. QED BY <1>2, <1>3, <1>4, <1>5, <1>6

LEMMA ParentsEnclose ==
    ASSUME IsTree(items), NEW i \in Item, items[i].parent # 0
    PROVE  /\ items[items[i].parent].first <= items[i].first
           /\ items[i].past <= items[items[i].parent].past
           /\ items[items[i].parent].kind = "fn" => items[items[i].parent].body <= items[i].first
<1>1. i \in DOMAIN items
  BY ItemFacts
<1>2. QED BY <1>1 DEF IsTree

LEMMA SiblingsLieApart ==
    ASSUME IsTree(items), NEW i \in Item, NEW j \in Item, j # i, items[j].parent = items[i].parent
    PROVE  items[i].past <= items[j].first \/ items[j].past <= items[i].first
<1>1. i \in DOMAIN items /\ j \in DOMAIN items
  BY ItemFacts
<1>2. QED BY <1>1 DEF IsTree

\* The items around each of the first n items.
Upward(up, n) ==
    up = [j \in 1 .. n |->
            {j} \cup (IF items[j].parent = 0 THEN {} ELSE up[items[j].parent])]

LEMMA UpwardExists ==
    ASSUME NEW n \in Nat, \A j \in 1 .. n : items[j].parent \in Nat /\ items[j].parent < j
    PROVE  \E up : Upward(up, n)
<1> DEFINE T == {k \in Nat : k <= n /\ ~\E up : Upward(up, k)}
<1> SUFFICES ASSUME T # {} PROVE FALSE
  OBVIOUS
<1>1. PICK k \in T : \A y \in T : k <= y
  BY LeastNatural
<1>2. k \in Nat /\ k <= n /\ ~\E up : Upward(up, k)
  OBVIOUS
<1>3. CASE k = 0
  <2> DEFINE h == [j \in 1 .. 0 |-> {j}]
  <2>1. h = [j \in 1 .. 0 |-> {j} \cup (IF items[j].parent = 0 THEN {} ELSE h[items[j].parent])]
    OBVIOUS
  <2> HIDE DEF h
  <2>2. QED BY <1>2, <1>3, <2>1 DEF Upward
<1>4. CASE k > 0
  <2>1. k - 1 \in Nat /\ k - 1 \notin T /\ k - 1 <= n
    BY <1>1, <1>2, <1>4
  <2>2. PICK g : Upward(g, k - 1)
    BY <2>1
  <2> DEFINE Around(f, j) == {j} \cup (IF items[j].parent = 0 THEN {} ELSE f[items[j].parent])
             h == [j \in 1 .. k |-> IF j < k THEN g[j] ELSE Around(g, k)]
  <2>3. g = [j \in 1 .. (k - 1) |-> Around(g, j)]
    BY <2>2 DEF Upward
  <2>4. ASSUME NEW j \in 1 .. k PROVE h[j] = Around(h, j)
    <3> DEFINE p == items[j].parent
    <3>1. p \in Nat /\ p < j
      BY <1>2
    <3>2. p # 0 => h[p] = g[p]
      BY <1>2, <3>1
    <3>3. Around(h, j) = Around(g, j)
      BY <3>2
    <3>4. CASE j = k
      BY <3>3, <3>4
    <3>5. CASE j < k
      <4>1. j \in 1 .. (k - 1)
        BY <1>2, <3>5
      <4> HIDE DEF Around
      <4>2. g[j] = Around(g, j)
        BY <2>3, <4>1
      <4>3. QED BY <3>3, <3>5, <4>2
    <3>6. j = k \/ j < k
      BY <1>2
    <3> HIDE DEF h, Around
    <3>7. QED BY <3>4, <3>5, <3>6
  <2>5. h = [j \in 1 .. k |-> h[j]]
    OBVIOUS
  <2> HIDE DEF h
  <2>6. [j \in 1 .. k |-> h[j]] = [j \in 1 .. k |-> Around(h, j)]
    <3> HIDE DEF Around
    <3>1. QED BY <2>4
  <2>7. Upward(h, k)
    BY <2>5, <2>6 DEF Upward
  <2>8. QED BY <1>2, <2>7
<1>5. QED BY <1>2, <1>3, <1>4

\* An item stands in itself and in what its parent stands in.
LEMMA AncestryUnfolds ==
    ASSUME IsTree(items), NEW i \in Item
    PROVE  Ancestry(i) = {i} \cup (IF items[i].parent = 0 THEN {} ELSE Ancestry(items[i].parent))
<1> DEFINE n == Len(items)
           up == CHOOSE g : Upward(g, n)
<1>1. n \in Nat /\ Item = 1 .. n
      /\ \A j \in 1 .. n : items[j].parent \in Nat /\ items[j].parent < j
                           /\ (items[j].parent # 0 => items[j].parent \in 1 .. n)
  BY ItemFacts
<1>2. Upward(up, n)
  BY <1>1, UpwardExists
<1>3. \A j \in Item : Ancestry(j) = up[j]
  BY <1>1 DEF Ancestry, Upward
<1> HIDE DEF up, n
<1>4. \A j \in 1 .. n : up[j] = {j} \cup (IF items[j].parent = 0 THEN {} ELSE up[items[j].parent])
  BY <1>2 DEF Upward
<1>5. QED BY <1>1, <1>3, <1>4

\* What lies around an item comes before it, and encloses it.
LEMMA AncestorsEnclose ==
    ASSUME IsTree(items), NEW i \in Item, NEW a \in Ancestry(i)
    PROVE  /\ a \in Item /\ a <= i
           /\ items[a].first <= items[i].first /\ items[i].past <= items[a].past
           /\ a # i /\ items[a].kind = "fn" => items[a].body <= items[i].first
           /\ a # i => items[i].parent # 0 /\ a \in Ancestry(items[i].parent)
<1> DEFINE Right(j, b) ==
             /\ b \in Item /\ b <= j
             /\ items[b].first <= items[j].first /\ items[j].past <= items[b].past
             /\ b # j /\ items[b].kind = "fn" => items[b].body <= items[j].first
             /\ b # j => items[j].parent # 0 /\ b \in Ancestry(items[j].parent)
           T == {j \in Item : \E b \in Ancestry(j) : ~Right(j, b)}
<1>1. Item \subseteq Nat
  BY ItemFacts
<1>2. T = {}
  <2> SUFFICES ASSUME T # {} PROVE FALSE
    OBVIOUS
  <2>1. PICK j \in T : \A y \in T : j <= y
    BY <1>1, LeastNatural
  <2>2. PICK b \in Ancestry(j) : ~Right(j, b)
    BY <2>1
  <2> DEFINE p == items[j].parent
  <2>3. /\ j \in Item /\ j \in Nat /\ p \in Nat /\ p < j /\ (p # 0 => p \in Item)
        /\ items[j].first \in Nat /\ items[j].past \in Nat
    BY <1>1, ItemFacts
  <2>4. b = j \/ (p # 0 /\ b \in Ancestry(p))
    BY <2>3, AncestryUnfolds
  <2>5. b # j
    <3> SUFFICES ASSUME b = j PROVE FALSE
      OBVIOUS
    <3>1. QED BY <2>2, <2>3
  <2>6. p # 0 /\ p \in Item /\ b \in Ancestry(p) /\ p \notin T
    BY <2>1, <2>3, <2>4, <2>5
  <2>7. Right(p, b)
    BY <2>6
  <2>8. /\ items[p].first <= items[j].first /\ items[j].past <= items[p].past
        /\ items[p].kind = "fn" => items[p].body <= items[j].first
    BY <2>3, <2>6, ParentsEnclose
  <2>9. /\ items[p].first \in Nat /\ items[p].past \in Nat /\ items[b].first \in Nat
        /\ items[b].past \in Nat /\ items[b].body \in Nat /\ b \in Nat
    BY <1>1, <2>6, <2>7, ItemFacts
  <2>10. QED BY <2>2, <2>3, <2>5, <2>6, <2>7, <2>8, <2>9
<1>3. Right(i, a)
  BY <1>2
<1>4. QED BY <1>3

LEMMA AncestryIsTransitive ==
    ASSUME IsTree(items), NEW i \in Item, NEW a \in Ancestry(i), NEW b \in Ancestry(a)
    PROVE  b \in Ancestry(i)
<1> DEFINE T == {j \in Item : \E c \in Ancestry(j) : \E d \in Ancestry(c) : d \notin Ancestry(j)}
<1>1. Item \subseteq Nat
  BY ItemFacts
<1>2. T = {}
  <2> SUFFICES ASSUME T # {} PROVE FALSE
    OBVIOUS
  <2>1. PICK j \in T : \A y \in T : j <= y
    BY <1>1, LeastNatural
  <2>2. PICK c \in Ancestry(j) : \E d \in Ancestry(c) : d \notin Ancestry(j)
    BY <2>1
  <2>3. PICK d \in Ancestry(c) : d \notin Ancestry(j)
    BY <2>2
  <2>4. c # j
    BY <2>3
  <2> DEFINE p == items[j].parent
  <2>5. p # 0 /\ c \in Ancestry(p)
    BY <2>4, AncestorsEnclose
  <2>6. p \in Item /\ p < j /\ p \in Nat /\ j \in Nat
    BY <1>1, <2>5, ItemFacts
  <2>7. p \notin T
    BY <2>1, <2>6
  <2>8. d \in Ancestry(p)
    BY <2>3, <2>5, <2>6, <2>7
  <2>9. QED BY <2>3, <2>5, <2>8, AncestryUnfolds
<1>3. QED BY <1>2

\* Of two items one stands in the other, or they lie apart.
Lie(i, j) == \/ i \in Ancestry(j) \/ j \in Ancestry(i)
             \/ items[i].past <= items[j].first \/ items[j].past <= items[i].first

LEMMA ItemsNestOrLieApart ==
    ASSUME IsTree(items), NEW i \in Item, NEW j \in Item
    PROVE  Lie(i, j)
<1> DEFINE Wrong(s) == \E a, b \in Item : a + b = s /\ a < b /\ ~Lie(a, b)
           T == {s \in Nat : Wrong(s)}
<1>1. Item \subseteq Nat
  BY ItemFacts
<1>2. T = {}
  <2> SUFFICES ASSUME T # {} PROVE FALSE
    OBVIOUS
  <2>1. PICK s \in T : \A y \in T : s <= y
    BY LeastNatural
  <2>2. PICK a \in Item, b \in Item : a + b = s /\ a < b /\ ~Lie(a, b)
    BY <2>1
  <2> DEFINE p == items[a].parent
             q == items[b].parent
  <2>3. /\ a \in Nat /\ b \in Nat /\ p \in Nat /\ q \in Nat /\ p < a /\ q < b
        /\ (p # 0 => p \in Item) /\ (q # 0 => q \in Item)
    BY <1>1, ItemFacts
  <2>4. /\ a \notin Ancestry(b) /\ b \notin Ancestry(a)
        /\ ~(items[a].past <= items[b].first) /\ ~(items[b].past <= items[a].first)
    BY <2>2 DEF Lie
  <2>5. a \in Ancestry(a) /\ b \in Ancestry(b)
    BY AncestryUnfolds
  <2>6. ASSUME NEW c \in Item, NEW d \in Item, c < d, c + d < s PROVE Lie(c, d)
    <3>1. c \in Nat /\ d \in Nat /\ c + d \in Nat /\ s \in Nat
      BY <1>1
    <3>2. c + d \notin T
      <4> HIDE DEF T
      <4>1. QED BY <2>1, <2>6, <3>1
    <3>3. ~Wrong(c + d)
      BY <3>1, <3>2
    <3>4. QED BY <2>6, <3>3
  <2>7. p # q
    <3> SUFFICES ASSUME p = q PROVE FALSE
      OBVIOUS
    <3>1. items[a].past <= items[b].first \/ items[b].past <= items[a].first
      BY <2>2, <2>3, SiblingsLieApart
    <3>2. QED BY <2>4, <3>1
  <2>8. ASSUME p # 0, Lie(p, b) PROVE p \in Ancestry(b)
    <3>1. p \in Item /\ p \in Ancestry(a)
      BY <2>3, <2>8, AncestryUnfolds
    <3>2. b \notin Ancestry(p)
      BY <2>4, <3>1, AncestryIsTransitive
    <3>3. items[p].first <= items[a].first /\ items[a].past <= items[p].past
      BY <3>1, AncestorsEnclose
    <3>4. /\ items[p].first \in Nat /\ items[p].past \in Nat /\ items[a].first \in Nat
          /\ items[a].past \in Nat /\ items[b].first \in Nat /\ items[b].past \in Nat
      BY <3>1, ItemFacts
    <3>5. ~(items[p].past <= items[b].first) /\ ~(items[b].past <= items[p].first)
      BY <2>4, <3>3, <3>4
    <3>6. QED BY <2>8, <3>2, <3>5 DEF Lie
  <2>9. ASSUME q # 0, Lie(a, q) \/ Lie(q, a) PROVE q \in Ancestry(a)
    <3>1. q \in Item /\ q \in Ancestry(b)
      BY <2>3, <2>9, AncestryUnfolds
    <3>2. a \notin Ancestry(q)
      BY <2>4, <3>1, AncestryIsTransitive
    <3>3. items[q].first <= items[b].first /\ items[b].past <= items[q].past
      BY <3>1, AncestorsEnclose
    <3>4. /\ items[q].first \in Nat /\ items[q].past \in Nat /\ items[a].first \in Nat
          /\ items[a].past \in Nat /\ items[b].first \in Nat /\ items[b].past \in Nat
      BY <3>1, ItemFacts
    <3>5. ~(items[q].past <= items[a].first) /\ ~(items[a].past <= items[q].first)
      BY <2>4, <3>3, <3>4
    <3>6. QED BY <2>9, <3>2, <3>5 DEF Lie
  <2>10. p # 0 => p \in Ancestry(b)
    <3> SUFFICES ASSUME p # 0 PROVE p \in Ancestry(b)
      OBVIOUS
    <3>1. p < b /\ p + b < s
      BY <2>2, <2>3
    <3>2. QED BY <2>3, <2>6, <2>8, <3>1
  <2>11. q # 0 => q \in Ancestry(a)
    <3> SUFFICES ASSUME q # 0 PROVE q \in Ancestry(a)
      OBVIOUS
    <3>1. q \in Item /\ q + a < s
      BY <2>2, <2>3
    <3>2. CASE a < q
      <4>1. a + q < s
        BY <2>3, <3>1
      <4>2. QED BY <2>6, <2>9, <3>1, <3>2, <4>1
    <3>3. CASE q < a
      BY <2>6, <2>9, <3>1, <3>3
    <3>4. CASE q = a
      BY <2>5, <3>4
    <3>5. QED BY <2>3, <3>2, <3>3, <3>4
  \* Each parent stands in the other's, so they are one.
  <2>12. p = q
    <3>1. CASE p # 0 /\ q # 0
      <4>1. p # b /\ q # a
        <5>1. q = a => a \in Ancestry(b)
          BY <2>3, <3>1, AncestryUnfolds
        <5>2. QED BY <2>2, <2>3, <2>4, <5>1
      <4>2. p \in Ancestry(q) /\ q \in Ancestry(p)
        BY <2>10, <2>11, <3>1, <4>1, AncestorsEnclose
      <4>3. p <= q /\ q <= p
        BY <2>3, <3>1, <4>2, AncestorsEnclose
      <4>4. QED BY <2>3, <4>3
    <3>2. CASE p = 0 /\ q # 0
      <4>1. q # a
        BY <2>3, <2>4, <3>2, AncestryUnfolds
      <4>2. QED BY <2>11, <3>2, <4>1, AncestorsEnclose
    <3>3. CASE p # 0 /\ q = 0
      <4>1. p # b
        BY <2>2, <2>3
      <4>2. QED BY <2>10, <3>3, <4>1, AncestorsEnclose
    <3>4. QED BY <3>1, <3>2, <3>3
  <2>13. QED BY <2>7, <2>12
<1>3. ASSUME NEW a \in Item, NEW b \in Item, a < b PROVE Lie(a, b)
  <2>1. a + b \in Nat
    BY <1>1
  <2>2. ~Wrong(a + b)
    BY <1>2, <2>1
  <2>3. QED BY <1>3, <2>2
<1>4. Lie(i, i)
  BY AncestryUnfolds DEF Lie
<1>5. i < j \/ j < i \/ i = j
  BY <1>1
<1>6. QED BY <1>3, <1>4, <1>5 DEF Lie

-----------------------------------------------------------------------------
(* The innermost function.                                                 *)

\* Of two functions around a span one stands in the other, and is shorter.
LEMMA FunctionsAroundNest ==
    ASSUME IsTree(items), NEW span \in SpanType, span.first <= span.past,
           NEW i \in Item, NEW j \in Item, i # j, Encloses(i, span), Encloses(j, span)
    PROVE  \/ i \in Ancestry(j) /\ items[j].past - items[j].body < items[i].past - items[i].body
           \/ j \in Ancestry(i) /\ items[i].past - items[i].body < items[j].past - items[j].body
<1>1. /\ items[i].first \in Nat /\ items[i].past \in Nat /\ items[i].body \in Nat
      /\ items[j].first \in Nat /\ items[j].past \in Nat /\ items[j].body \in Nat
      /\ span.first \in Nat /\ span.past \in Nat
  BY ItemFacts, SpanFacts
<1>2. /\ items[i].kind = "fn" /\ items[j].kind = "fn"
      /\ items[i].body <= span.first /\ span.past <= items[i].past
      /\ items[j].body <= span.first /\ span.past <= items[j].past
  BY DEF Encloses
<1>3. items[i].first < items[i].body /\ items[j].first < items[j].body
  BY <1>2, ItemFacts
<1>4. i \in Ancestry(j) \/ j \in Ancestry(i)
  <2>1. ~(items[i].past <= items[j].first) /\ ~(items[j].past <= items[i].first)
    BY <1>1, <1>2, <1>3
  <2>2. QED BY <2>1, ItemsNestOrLieApart DEF Lie
<1>5. CASE i \in Ancestry(j)
  <2>1. items[i].body <= items[j].first /\ items[j].past <= items[i].past
    BY <1>2, <1>5, AncestorsEnclose
  <2>2. QED BY <1>1, <1>3, <1>5, <2>1
<1>6. CASE j \in Ancestry(i)
  <2>1. items[j].body <= items[i].first /\ items[i].past <= items[j].past
    BY <1>2, <1>6, AncestorsEnclose
  <2>2. QED BY <1>1, <1>3, <1>6, <2>1
<1>7. QED BY <1>4, <1>5, <1>6

\* The shortest body around a span is the one that holds no other around it.
LEMMA ShortestIsDeepest ==
    ASSUME IsTree(items), NEW span \in SpanType, span.first <= span.past
    PROVE  Innermost(span) = Deepest(span)
<1> DEFINE length(i) == items[i].past - items[i].body
<1>1. Item \subseteq Nat /\ \A i \in Item : length(i) \in Int
  BY ItemFacts
<1>2. \A i : i \in Item /\ Encloses(i, span) <=> i \in Functions /\ Holds(BodyOf(i), span)
  BY DEF Encloses, Functions, Holds, BodyOf
<1>3. \A i \in Item, j \in Item :
         i # j /\ Encloses(i, span) /\ Encloses(j, span) =>
             \/ i \in Ancestry(j) /\ length(j) < length(i)
             \/ j \in Ancestry(i) /\ length(i) < length(j)
  BY FunctionsAroundNest
<1>4. \A i \in Item, j \in Item : i # j /\ i \in Ancestry(j) => j \notin Ancestry(i)
  <2> SUFFICES ASSUME NEW i \in Item, NEW j \in Item, i # j, i \in Ancestry(j), j \in Ancestry(i)
               PROVE  FALSE
    OBVIOUS
  <2>1. i <= j /\ j <= i
    BY AncestorsEnclose
  <2>2. QED BY <1>1, <2>1
<1>5. \A i : i \in Innermost(span) <=>
         /\ i \in Item /\ Encloses(i, span)
         /\ \A j \in Item : Encloses(j, span) =>
                length(i) < length(j) \/ (length(i) = length(j) /\ i <= j)
  BY <1>2 DEF Innermost
<1> HIDE DEF length
<1>6. ASSUME NEW i \in Innermost(span) PROVE i \in Deepest(span)
  <2>1. i \in Item /\ Encloses(i, span)
    BY <1>5
  <2>2. ASSUME NEW j \in Item \ {i}, Encloses(j, span), i \in Ancestry(j) PROVE FALSE
    <3>1. length(j) < length(i)
      BY <1>3, <1>4, <2>1, <2>2
    <3>2. length(i) < length(j) \/ length(i) = length(j)
      BY <1>5, <2>2
    <3>3. QED BY <1>1, <2>1, <3>1, <3>2
  <2>3. QED BY <2>1, <2>2 DEF Deepest
<1>7. ASSUME NEW i \in Deepest(span) PROVE i \in Innermost(span)
  <2>1. i \in Item /\ Encloses(i, span)
    BY DEF Deepest
  <2>2. ASSUME NEW j \in Item, Encloses(j, span)
        PROVE  length(i) < length(j) \/ (length(i) = length(j) /\ i <= j)
    <3>1. CASE i = j
      BY <1>1, <3>1
    <3>2. CASE i # j
      <4>1. i \notin Ancestry(j)
        BY <2>2, <3>2 DEF Deepest
      <4>2. QED BY <1>3, <2>1, <2>2, <3>2, <4>1
    <3>3. QED BY <3>1, <3>2
  <2>3. QED BY <1>5, <2>1, <2>2
<1>8. QED BY <1>6, <1>7

-----------------------------------------------------------------------------
(* The walk.                                                               *)

\* An item is in the module tree when its parent is and can hold items.
LEMMA InTreeUnfolds ==
    ASSUME IsTree(items), NEW i \in Item
    PROVE  InTree(i) <=> items[i].parent = 0
                \/ (items[items[i].parent].kind \in Holders /\ InTree(items[i].parent))
<1> DEFINE p == items[i].parent
<1>1. i \in Nat /\ p \in Nat /\ p < i /\ (p # 0 => p \in Item)
  BY ItemFacts
<1>2. CASE p = 0
  <2>1. Ancestry(i) = {i}
    BY <1>2, AncestryUnfolds
  <2>2. QED BY <1>2, <2>1 DEF InTree
<1>3. CASE p # 0
  <2>1. Ancestry(i) = {i} \cup Ancestry(p) /\ p \in Ancestry(p)
    BY <1>1, <1>3, AncestryUnfolds
  <2>2. i \notin Ancestry(p)
    <3> SUFFICES ASSUME i \in Ancestry(p) PROVE FALSE
      OBVIOUS
    <3>1. i <= p
      BY <1>1, <1>3, AncestorsEnclose
    <3>2. QED BY <1>1, <3>1
  <2>3. Ancestry(i) \ {i} = {p} \cup (Ancestry(p) \ {p})
    BY <2>1, <2>2
  <2>4. QED BY <1>3, <2>3 DEF InTree
<1>4. QED BY <1>2, <1>3

\* The visits to the first n items.
Entered(gate, v, i) ==
    items[i].parent = 0 \/ (v[items[i].parent] /\ gate \notin gates[items[i].parent]
                                /\ items[items[i].parent].kind \in Holders)

Visits(gate, v, n) == v = [i \in 1 .. n |-> Entered(gate, v, i)]

LEMMA VisitsExist ==
    ASSUME NEW gate, NEW n \in Nat, \A j \in 1 .. n : items[j].parent \in Nat /\ items[j].parent < j
    PROVE  \E v : Visits(gate, v, n)
<1> DEFINE T == {k \in Nat : k <= n /\ ~\E v : Visits(gate, v, k)}
<1> SUFFICES ASSUME T # {} PROVE FALSE
  OBVIOUS
<1>1. PICK k \in T : \A y \in T : k <= y
  BY LeastNatural
<1>2. k \in Nat /\ k <= n /\ ~\E v : Visits(gate, v, k)
  OBVIOUS
<1>3. CASE k = 0
  <2> DEFINE h == [j \in 1 .. 0 |-> TRUE]
  <2>1. h = [j \in 1 .. 0 |-> Entered(gate, h, j)]
    OBVIOUS
  <2> HIDE DEF h
  <2>2. QED BY <1>2, <1>3, <2>1 DEF Visits
<1>4. CASE k > 0
  <2>1. k - 1 \in Nat /\ k - 1 \notin T /\ k - 1 <= n
    BY <1>1, <1>2, <1>4
  <2>2. PICK g : Visits(gate, g, k - 1)
    BY <2>1
  <2> DEFINE h == [j \in 1 .. k |-> IF j < k THEN g[j] ELSE Entered(gate, g, k)]
  <2>3. g = [j \in 1 .. (k - 1) |-> Entered(gate, g, j)]
    BY <2>2 DEF Visits
  <2>4. ASSUME NEW j \in 1 .. k PROVE h[j] = Entered(gate, h, j)
    <3> DEFINE p == items[j].parent
    <3>1. p \in Nat /\ p < j
      BY <1>2
    <3>2. p # 0 => h[p] = g[p]
      BY <1>2, <3>1
    <3>3. Entered(gate, h, j) = Entered(gate, g, j)
      <4> HIDE DEF h
      <4>1. QED BY <3>2 DEF Entered
    <3>4. CASE j = k
      BY <3>3, <3>4
    <3>5. CASE j < k
      <4>1. j \in 1 .. (k - 1)
        BY <1>2, <3>5
      <4>2. g[j] = Entered(gate, g, j)
        BY <2>3, <4>1
      <4>3. QED BY <3>3, <3>5, <4>2
    <3>6. j = k \/ j < k
      BY <1>2
    <3> HIDE DEF h
    <3>7. QED BY <3>4, <3>5, <3>6
  <2>5. h = [j \in 1 .. k |-> h[j]]
    OBVIOUS
  <2> HIDE DEF h
  <2>6. [j \in 1 .. k |-> h[j]] = [j \in 1 .. k |-> Entered(gate, h, j)]
    BY <2>4
  <2>7. Visits(gate, h, k)
    BY <2>5, <2>6 DEF Visits
  <2>8. QED BY <1>2, <2>7
<1>5. QED BY <1>2, <1>3, <1>4

\* An item is visited when its parent is, does not have the attribute itself
\* and can hold items.
LEMMA VisitedUnfolds ==
    ASSUME IsTree(items), NEW gate, NEW i \in Item
    PROVE  i \in Visited(gate) <=> items[i].parent = 0
                \/ (items[i].parent \in Visited(gate) /\ gate \notin gates[items[i].parent]
                        /\ items[items[i].parent].kind \in Holders)
<1> DEFINE n == Len(items)
           v == CHOOSE g : Visits(gate, g, n)
<1>1. n \in Nat /\ Item = 1 .. n
      /\ \A j \in 1 .. n : items[j].parent \in Nat /\ items[j].parent < j
                           /\ (items[j].parent # 0 => items[j].parent \in 1 .. n)
  BY ItemFacts
<1>2. Visits(gate, v, n)
  BY <1>1, VisitsExist
<1>3. Visited(gate) = {j \in Item : v[j]}
  BY <1>1 DEF Visited, Visits, Entered
<1> HIDE DEF v, n
<1>4. v[i] = Entered(gate, v, i)
  BY <1>1, <1>2 DEF Visits
<1>5. QED BY <1>1, <1>3, <1>4 DEF Entered

\* Only items of the module tree are visited.
LEMMA VisitedAreInTree ==
    ASSUME IsTree(items), NEW gate, NEW i \in Visited(gate)
    PROVE  i \in Item /\ InTree(i)
<1> DEFINE T == {j \in Visited(gate) : ~InTree(j)}
<1>1. Visited(gate) \subseteq Item /\ Item \subseteq Nat
  BY ItemFacts DEF Visited
<1>2. T = {}
  <2> SUFFICES ASSUME T # {} PROVE FALSE
    OBVIOUS
  <2>1. PICK j \in T : \A y \in T : j <= y
    <3>1. T \in SUBSET Nat
      BY <1>1
    <3> HIDE DEF T
    <3>2. QED BY <3>1, LeastNatural
  <2> DEFINE p == items[j].parent
  <2>2. j \in Item /\ j \in Visited(gate) /\ ~InTree(j) /\ p \in Nat /\ p < j /\ j \in Nat
    BY <1>1, ItemFacts
  <2>3. p # 0 /\ p \in Visited(gate) /\ items[p].kind \in Holders /\ ~InTree(p)
    BY <2>2, VisitedUnfolds, InTreeUnfolds
  <2>4. p \in T
    BY <2>3
  <2>5. j <= p
    <3> HIDE DEF T
    <3>1. QED BY <2>1, <2>4
  <2>6. QED BY <2>2, <2>5
<1>3. QED BY <1>1, <1>2

\* An item of the module tree that is not visited stands in a visited one
\* with the attribute.
LEMMA UnvisitedAreInside ==
    ASSUME IsTree(items), NEW gate, NEW i \in Item, InTree(i), i \notin Visited(gate)
    PROVE  \E a \in Ancestry(i) : a \in Visited(gate) /\ gate \in gates[a]
<1> DEFINE Inside(j) == \E a \in Ancestry(j) : a \in Visited(gate) /\ gate \in gates[a]
           T == {j \in Item : InTree(j) /\ j \notin Visited(gate) /\ ~Inside(j)}
<1>1. Item \subseteq Nat
  BY ItemFacts
<1>2. T = {}
  <2> SUFFICES ASSUME T # {} PROVE FALSE
    OBVIOUS
  <2>1. PICK j \in T : \A y \in T : j <= y
    <3>1. T \in SUBSET Nat
      BY <1>1
    <3> HIDE DEF T
    <3>2. QED BY <3>1, LeastNatural
  <2> DEFINE p == items[j].parent
  <2>2. j \in Item /\ InTree(j) /\ j \notin Visited(gate) /\ ~Inside(j)
    OBVIOUS
  <2>3. j \in Nat /\ p \in Nat /\ p < j /\ (p # 0 => p \in Item)
    BY <1>1, <2>2, ItemFacts
  <2>4. p # 0 /\ items[p].kind \in Holders /\ InTree(p)
    BY <2>2, InTreeUnfolds, VisitedUnfolds
  <2>5. p \notin Visited(gate) \/ gate \in gates[p]
    BY <2>2, <2>4, VisitedUnfolds
  <2>6. Ancestry(p) \subseteq Ancestry(j) /\ p \in Ancestry(p)
    BY <2>2, <2>3, <2>4, AncestryUnfolds
  <2>7. CASE p \notin Visited(gate)
    <3>1. p \notin T
      <4>1. p \in T => j <= p
        <5> HIDE DEF T
        <5>1. QED BY <2>1
      <4>2. ~(j <= p)
        BY <2>3
      <4>3. QED BY <4>1, <4>2, Zenon
    <3>2. Inside(p)
      BY <2>3, <2>4, <2>7, <3>1
    <3>3. QED BY <2>2, <2>6, <3>2
  <2>8. CASE p \in Visited(gate) /\ gate \in gates[p]
    BY <2>2, <2>6, <2>8
  <2>9. QED BY <2>5, <2>7, <2>8
<1>3. QED BY <1>2

\* What the walk finds is what has the attribute in the module tree.
LEMMA WalkFindsGated ==
    ASSUME IsTree(items), NEW gate
    PROVE  /\ \A point \in Int :
                (\E i \in Visited(gate) : gate \in gates[i] /\ point \in Points(SpanOf(i)))
                <=> (\E i \in Item : InTree(i) /\ gate \in gates[i] /\ point \in Points(SpanOf(i)))
           /\ (\E i \in Visited(gate) : gate \in gates[i])
                <=> (\E i \in Item : InTree(i) /\ gate \in gates[i])
<1>1. \A i \in Visited(gate) : i \in Item /\ InTree(i)
  BY VisitedAreInTree
<1>2. ASSUME NEW i \in Item, InTree(i), gate \in gates[i]
      PROVE  \E a \in Visited(gate) :
                gate \in gates[a] /\ \A point \in Points(SpanOf(i)) : point \in Points(SpanOf(a))
  <2>1. CASE i \in Visited(gate)
    BY <1>2, <2>1
  <2>2. CASE i \notin Visited(gate)
    <3>1. PICK a \in Ancestry(i) : a \in Visited(gate) /\ gate \in gates[a]
      BY <1>2, <2>2, UnvisitedAreInside
    <3>2. a \in Item /\ items[a].first <= items[i].first /\ items[i].past <= items[a].past
      BY AncestorsEnclose
    <3>3. /\ items[a].first \in Nat /\ items[a].past \in Nat
          /\ items[i].first \in Nat /\ items[i].past \in Nat
      BY <3>2, ItemFacts
    <3>4. \A point \in Points(SpanOf(i)) : point \in Points(SpanOf(a))
      BY <3>2, <3>3 DEF Points, SpanOf
    <3>5. QED BY <3>1, <3>4
  <2>3. QED BY <2>1, <2>2
<1>3. QED BY <1>1, <1>2

-----------------------------------------------------------------------------
(* The ranges of a walk, sorted and merged.                                *)

\* The lists of ranges after the first items.
Takes(gate, g, n) ==
    g = [k \in 0 .. n |-> IF k = 0 THEN <<>>
                          ELSE IF k \in Visited(gate) /\ gate \in gates[k]
                          THEN Append(g[k - 1], SpanOf(k))
                          ELSE g[k - 1]]

LEMMA TakesExist ==
    ASSUME NEW gate, NEW n \in Nat
    PROVE  \E g : Takes(gate, g, n)
<1> DEFINE After(f, k) == IF k = 0 THEN <<>>
                          ELSE IF k \in Visited(gate) /\ gate \in gates[k]
                          THEN Append(f[k - 1], SpanOf(k))
                          ELSE f[k - 1]
           T == {k \in Nat : ~\E g : Takes(gate, g, k)}
<1> SUFFICES ASSUME T # {} PROVE FALSE
  OBVIOUS
<1>1. PICK k \in T : \A y \in T : k <= y
  BY LeastNatural
<1>2. k \in Nat /\ ~\E g : Takes(gate, g, k)
  OBVIOUS
<1>3. CASE k = 0
  <2> DEFINE h == [i \in 0 .. 0 |-> <<>>]
  <2>1. \A i \in 0 .. 0 : i = 0
    OBVIOUS
  <2>2. h = [i \in 0 .. 0 |-> After(h, i)]
    BY <2>1
  <2> HIDE DEF h
  <2>3. Takes(gate, h, 0)
    BY <2>2 DEF Takes
  <2>4. QED BY <1>2, <1>3, <2>3
<1>4. CASE k > 0
  <2>1. k - 1 \in Nat /\ k - 1 \notin T
    BY <1>1, <1>2, <1>4
  <2>2. PICK g : Takes(gate, g, k - 1)
    BY <2>1
  <2>3. g = [i \in 0 .. (k - 1) |-> After(g, i)]
    BY <2>2 DEF Takes
  <2> DEFINE h == [i \in 0 .. k |-> IF i < k THEN g[i] ELSE After(g, k)]
  <2>4. ASSUME NEW i \in 0 .. k PROVE h[i] = After(h, i)
    <3>1. i # 0 => h[i - 1] = g[i - 1]
      <4> HIDE DEF After
      <4>1. QED BY <1>2
    <3>2. After(h, i) = After(g, i)
      <4> HIDE DEF h
      <4>1. QED BY <3>1
    <3> HIDE DEF After
    <3>3. CASE i = k
      BY <3>2, <3>3
    <3>4. CASE i < k
      <4>1. i \in 0 .. (k - 1)
        BY <1>2, <3>4
      <4>2. g[i] = After(g, i)
        BY <2>3, <4>1
      <4>3. QED BY <3>2, <3>4, <4>2
    <3>5. i = k \/ i < k
      BY <1>2
    <3> HIDE DEF h
    <3>6. QED BY <3>3, <3>4, <3>5
  <2>5. h = [i \in 0 .. k |-> h[i]]
    OBVIOUS
  <2> HIDE DEF h
  <2>6. [i \in 0 .. k |-> h[i]] = [i \in 0 .. k |-> After(h, i)]
    <3> HIDE DEF After
    <3>1. QED BY <2>4
  <2>7. Takes(gate, h, k)
    BY <2>5, <2>6 DEF Takes
  <2>8. QED BY <1>2, <2>7
<1>5. QED BY <1>2, <1>3, <1>4

\* None of the ranges of the walk is empty, and they cover what it finds.
LEMMA WalkCovers ==
    ASSUME IsTree(items), NEW gate, gate \notin gates[0]
    PROVE  /\ GatedRanges(gate) \in Seq(SpanType)
           /\ \A n \in DOMAIN GatedRanges(gate) :
                GatedRanges(gate)[n].first < GatedRanges(gate)[n].past
           /\ \A point \in Int : Covers(GatedRanges(gate), point) <=>
                \E i \in Visited(gate) : gate \in gates[i] /\ point \in Points(SpanOf(i))
<1> DEFINE n == Len(items)
           g == CHOOSE f : Takes(gate, f, n)
           Known(point, k) == \E i \in Visited(gate) :
                                 i <= k /\ gate \in gates[i] /\ point \in Points(SpanOf(i))
           Right(k) == /\ g[k] \in Seq(SpanType)
                       /\ \A i \in DOMAIN g[k] : g[k][i].first < g[k][i].past
                       /\ \A point \in Int : Covers(g[k], point) <=> Known(point, k)
           T == {k \in 0 .. n : ~Right(k)}
<1>1. n \in Nat /\ Item = 1 .. n /\ Visited(gate) \subseteq Item
  BY ItemFacts DEF Visited
<1>2. Takes(gate, g, n)
  BY <1>1, TakesExist
<1>3. GatedRanges(gate) = g[n]
  BY DEF GatedRanges, Takes
<1>4. \A i \in Visited(gate) : SpanOf(i) \in SpanType /\ SpanOf(i).first < SpanOf(i).past
  BY <1>1, ItemFacts DEF SpanOf, SpanType
<1> HIDE DEF g, n
<1>5. \A k \in 0 .. n : g[k] = IF k = 0 THEN <<>>
                               ELSE IF k \in Visited(gate) /\ gate \in gates[k]
                               THEN Append(g[k - 1], SpanOf(k))
                               ELSE g[k - 1]
  BY <1>2, Zenon DEF Takes
<1>6. Right(0)
  <2>1. g[0] = <<>>
    BY <1>1, <1>5
  <2>2. g[0] \in Seq(SpanType) /\ DOMAIN g[0] = {}
    BY <2>1, EmptySeq
  <2>3. \A point : ~Known(point, 0)
    BY <1>1
  <2> HIDE DEF Known
  <2>4. QED BY <2>2, <2>3 DEF Covers
<1>7. ASSUME NEW k \in 1 .. n, Right(k - 1) PROVE Right(k)
  <2> DEFINE a == g[k - 1]
             b == g[k]
             span == SpanOf(k)
  <2>1. k \in Nat /\ k \in 0 .. n /\ k # 0
    BY <1>1
  <2>2. /\ a \in Seq(SpanType) /\ \A i \in DOMAIN a : a[i].first < a[i].past
        /\ \A point \in Int : Covers(a, point) <=> Known(point, k - 1)
    BY <1>7
  <2>3. CASE k \in Visited(gate) /\ gate \in gates[k]
    <3>1. b = Append(a, span)
      BY <1>5, <2>1, <2>3
    <3>2. span \in SpanType /\ span.first < span.past
      BY <1>4, <2>3
    <3>3. \A point : Known(point, k) <=> Known(point, k - 1) \/ point \in Points(span)
      <4>1. \A i \in Visited(gate) : i <= k <=> i = k \/ i <= k - 1
        BY <1>1, <2>1
      <4>2. k <= k
        BY <2>1
      <4>3. QED BY <2>3, <4>1, <4>2
    <3> HIDE DEF a, b, span, Known
    <3>4. Len(a) \in Nat /\ DOMAIN a = 1 .. Len(a)
      BY <2>2, LenProperties
    <3>5. /\ b \in Seq(SpanType) /\ DOMAIN b = 1 .. Len(a) + 1
          /\ b[Len(a) + 1] = span /\ \A i \in DOMAIN a : b[i] = a[i]
      BY <2>2, <3>1, <3>2, <3>4, AppendProperties, LenProperties
    <3>6. \A i : i \in DOMAIN b <=> i \in DOMAIN a \/ i = Len(a) + 1
      BY <3>4, <3>5
    <3>7. \A i \in DOMAIN b : b[i].first < b[i].past
      BY <2>2, <3>2, <3>5, <3>6
    <3>8. \A point \in Int : Covers(b, point) <=> Covers(a, point) \/ point \in Points(span)
      BY <3>5, <3>6 DEF Covers
    <3>9. \A point \in Int : Covers(b, point) <=> Known(point, k)
      BY <2>2, <3>3, <3>8
    <3>10. QED BY <3>5, <3>7, <3>9 DEF b
  <2>4. CASE ~(k \in Visited(gate) /\ gate \in gates[k])
    <3>1. b = a
      BY <1>5, <2>1, <2>4
    <3>2. \A point : Known(point, k) <=> Known(point, k - 1)
      <4>1. \A i \in Visited(gate) : i <= k <=> i = k \/ i <= k - 1
        BY <1>1, <2>1
      <4>2. QED BY <2>4, <4>1
    <3> HIDE DEF a, b, Known
    <3>3. QED BY <2>2, <3>1, <3>2 DEF b
  <2>5. QED BY <2>3, <2>4
<1> HIDE DEF Right
<1>8. T = {}
  <2> SUFFICES ASSUME T # {} PROVE FALSE
    OBVIOUS
  <2>1. PICK k \in T : \A y \in T : k <= y
    <3>1. T \in SUBSET Nat
      BY <1>1
    <3> HIDE DEF T
    <3>2. QED BY <3>1, LeastNatural
  <2>2. k \in 0 .. n /\ ~Right(k) /\ k # 0
    BY <1>6
  <2>3. k - 1 \in 0 .. n /\ k \in 1 .. n
    <3> HIDE DEF T
    <3>1. QED BY <1>1, <2>2
  <2>4. Right(k - 1)
    <3>1. k - 1 \in T => k <= k - 1
      <4> HIDE DEF T
      <4>1. QED BY <2>1
    <3>2. ~(k <= k - 1)
      BY <2>3
    <3>3. QED BY <2>3, <3>1, <3>2
  <2>5. QED BY <1>7, <2>2, <2>3, <2>4
<1>9. Right(n)
  BY <1>1, <1>8
<1>10. \A point : Known(point, n) <=>
          \E i \in Visited(gate) : gate \in gates[i] /\ point \in Points(SpanOf(i))
  BY <1>1
<1>11. QED BY <1>3, <1>9, <1>10 DEF Right

\* An order of the indices of a list of ranges, told by which come before each.
Orders(spans, before) ==
    /\ before \in [DOMAIN spans -> SUBSET DOMAIN spans]
    /\ \A i \in DOMAIN spans : i \notin before[i]
    /\ \A i, j \in DOMAIN spans : i # j => i \in before[j] \/ j \in before[i]
    /\ \A i, j, k \in DOMAIN spans : i \in before[j] /\ j \in before[k] => i \in before[k]
    /\ \A i, j \in DOMAIN spans : i \in before[j] => spans[i].first <= spans[j].first

\* Sorting moves the ranges and keeps them all.
LEMMA SortKeeps ==
    ASSUME NEW spans \in Seq(SpanType), NEW before, Orders(spans, before)
    PROVE  /\ SortedBy(spans, before) \in Seq(SpanType)
           /\ Sorted(SortedBy(spans, before))
           /\ \A point : Covers(SortedBy(spans, before), point) <=> Covers(spans, point)
<1> DEFINE n == Len(spans)
           rank == [i \in DOMAIN spans |-> Cardinality(before[i]) + 1]
           at(m) == CHOOSE i \in DOMAIN spans : rank[i] = m
           sorted == SortedBy(spans, before)
<1>1. /\ n \in Nat /\ DOMAIN spans = 1 .. n
      /\ IsFiniteSet(1 .. n) /\ Cardinality(1 .. n) = n
      /\ \A i \in 1 .. n : spans[i] \in SpanType
  <2>1. n \in Nat /\ DOMAIN spans = 1 .. n /\ \A i \in 1 .. n : spans[i] \in SpanType
    BY LenProperties, ElementOfSeq
  <2> HIDE DEF n
  <2>2. IsFiniteSet(1 .. n) /\ Cardinality(1 .. n) = n
    BY <2>1, FS_Interval
  <2>3. QED BY <2>1, <2>2
<1>2. \A i \in 1 .. n : IsFiniteSet(before[i]) /\ Cardinality(before[i]) \in Nat
  BY <1>1, FS_Subset, FS_CardinalityType DEF Orders
<1>3. ASSUME NEW i \in 1 .. n, NEW j \in 1 .. n, i \in before[j]
      PROVE  rank[i] < rank[j]
  <2>1. before[i] \subseteq before[j] /\ before[i] # before[j]
    BY <1>1, <1>3 DEF Orders
  <2>2. /\ Cardinality(before[i]) <= Cardinality(before[j])
        /\ Cardinality(before[i]) # Cardinality(before[j])
    BY <1>2, <2>1, FS_Subset
  <2>3. QED BY <1>1, <1>2, <2>2
<1>4. ASSUME NEW i \in 1 .. n PROVE rank[i] \in 1 .. n
  <2>1. before[i] \subseteq 1 .. n /\ before[i] # 1 .. n
    BY <1>1 DEF Orders
  <2>2. Cardinality(before[i]) <= n /\ Cardinality(before[i]) # n
    BY <1>1, <2>1, FS_Subset
  <2>3. QED BY <1>1, <1>2, <2>2
<1>5. rank \in Injection(1 .. n, 1 .. n)
  <2>1. rank \in [1 .. n -> 1 .. n]
    BY <1>1, <1>4
  <2>2. ASSUME NEW i \in 1 .. n, NEW j \in 1 .. n, i # j PROVE rank[i] # rank[j]
    <3>1. rank[i] < rank[j] \/ rank[j] < rank[i]
      BY <1>1, <1>3, <2>2 DEF Orders
    <3>2. rank[i] \in 1 .. n /\ rank[j] \in 1 .. n
      BY <1>4
    <3> HIDE DEF rank
    <3>3. QED BY <1>1, <3>1, <3>2
  <2> HIDE DEF rank
  <2>3. QED BY <2>1, <2>2 DEF Injection, IsInjective
<1>6. rank \in Surjection(1 .. n, 1 .. n)
  <2> HIDE DEF rank
  <2>1. QED BY <1>1, <1>5, FS_Injection
<1>7. \A m \in 1 .. n : at(m) \in 1 .. n /\ rank[at(m)] = m
  <2> HIDE DEF rank
  <2>1. \A m \in 1 .. n : \E i \in 1 .. n : rank[i] = m
    BY <1>6 DEF Surjection
  <2>2. QED BY <1>1, <2>1
<1>8. DOMAIN sorted = 1 .. n /\ \A m \in 1 .. n : sorted[m] = spans[at(m)]
  BY <1>1 DEF SortedBy
<1>9. \A i \in 1 .. n : at(rank[i]) = i
  <2>1. ASSUME NEW i \in 1 .. n PROVE at(rank[i]) = i
    <3>1. rank[i] \in 1 .. n
      BY <1>4
    <3>2. at(rank[i]) \in 1 .. n /\ rank[at(rank[i])] = rank[i]
      BY <1>7, <3>1
    <3> HIDE DEF rank, at
    <3>3. QED BY <1>5, <3>2 DEF Injection, IsInjective
  <2>2. QED BY <2>1
<1>10. sorted \in Seq(SpanType)
  <2>1. sorted = [m \in 1 .. n |-> spans[at(m)]]
    BY <1>1 DEF SortedBy
  <2> HIDE DEF sorted, at
  <2>2. sorted \in [1 .. n -> SpanType]
    BY <1>1, <1>7, <2>1
  <2>3. QED BY <1>1, <2>2, SeqDef
<1>11. ASSUME NEW m \in 1 .. n, NEW l \in 1 .. n, m < l
       PROVE  sorted[m].first <= sorted[l].first
  <2> DEFINE i == at(m)
             j == at(l)
  <2>1. i \in 1 .. n /\ j \in 1 .. n /\ rank[i] = m /\ rank[j] = l
    BY <1>7
  <2>2. sorted[m] = spans[i] /\ sorted[l] = spans[j]
    BY <1>8
  <2> HIDE DEF i, j, at, rank, sorted
  <2>3. i # j /\ j \notin before[i]
    <3>1. ~(l < m) /\ l # m
      BY <1>1, <1>11
    <3>2. QED BY <1>3, <2>1, <3>1
  <2>4. QED BY <1>1, <2>1, <2>2, <2>3 DEF Orders
<1>12. Sorted(sorted)
  <2> HIDE DEF sorted
  <2>1. QED BY <1>8, <1>11 DEF Sorted
<1>13. ASSUME NEW point PROVE Covers(sorted, point) <=> Covers(spans, point)
  <2> HIDE DEF sorted, at
  <2>1. \A i \in 1 .. n : rank[i] \in 1 .. n /\ sorted[rank[i]] = spans[i]
    BY <1>4, <1>8, <1>9
  <2> HIDE DEF rank
  <2>2. QED BY <1>1, <1>7, <1>8, <2>1 DEF Covers
<1>14. QED BY <1>10, <1>12, <1>13

\* normalize_ranges, of ranges that are not empty.
LEMMA NormalizedIsExact ==
    ASSUME NEW spans \in Seq(SpanType), \A i \in DOMAIN spans : spans[i].first < spans[i].past
    PROVE  /\ Normalized(spans) \in Seq(SpanType)
           /\ Apart(Normalized(spans))
           /\ \A point \in Int : Covers(Normalized(spans), point) <=> Covers(spans, point)
<1> DEFINE Precedes(j, i) == \/ spans[j].first < spans[i].first
                             \/ spans[j].first = spans[i].first /\ spans[j].past < spans[i].past
                             \/ spans[j] = spans[i] /\ j < i
           before == [i \in DOMAIN spans |-> {j \in DOMAIN spans : Precedes(j, i)}]
<1>1. Len(spans) \in Nat /\ DOMAIN spans = 1 .. Len(spans)
      /\ \A i \in DOMAIN spans : spans[i] \in SpanType
  BY LenProperties, ElementOfSeq
<1>2. CASE Len(spans) <= 1
  <2>1. Normalized(spans) = spans
    BY <1>2 DEF Normalized
  <2>2. \A i, j \in DOMAIN spans : ~(i < j)
    BY <1>1, <1>2
  <2>3. QED BY <2>1, <2>2 DEF Apart
<1>3. CASE ~(Len(spans) <= 1)
  <2>1. \A i \in DOMAIN spans : spans[i].first \in Nat /\ spans[i].past \in Nat
    BY <1>1, SpanFacts
  <2>2. \A i, j \in DOMAIN spans :
           spans[i] = spans[j] <=> spans[i].first = spans[j].first /\ spans[i].past = spans[j].past
    <3>1. \A a, b \in SpanType : a = b <=> a.first = b.first /\ a.past = b.past
      <4> SUFFICES ASSUME NEW a \in SpanType, NEW b \in SpanType,
                          a.first = b.first, a.past = b.past
                   PROVE  a = b
        OBVIOUS
      <4>1. /\ a = [first |-> a.first, past |-> a.past]
            /\ b = [first |-> b.first, past |-> b.past]
        BY DEF SpanType
      <4>2. QED BY <4>1
    <3>2. QED BY <1>1, <3>1
  <2>3. \A i \in DOMAIN spans : ~Precedes(i, i)
    BY <1>1, <2>1
  <2>4. \A i, j \in DOMAIN spans : i # j => Precedes(i, j) \/ Precedes(j, i)
    BY <1>1, <2>1, <2>2
  <2>5. \A i, j, k \in DOMAIN spans : Precedes(i, j) /\ Precedes(j, k) => Precedes(i, k)
    <3>1. ASSUME NEW i \in DOMAIN spans, NEW j \in DOMAIN spans, NEW k \in DOMAIN spans,
                 Precedes(i, j), Precedes(j, k)
          PROVE  Precedes(i, k)
      <4>1. i \in Nat /\ j \in Nat /\ k \in Nat
        BY <1>1
      <4>2. /\ spans[i].first \in Nat /\ spans[i].past \in Nat /\ spans[j].first \in Nat
            /\ spans[j].past \in Nat /\ spans[k].first \in Nat /\ spans[k].past \in Nat
        BY <2>1
      <4>3. CASE spans[i] = spans[j] /\ spans[j] = spans[k]
        BY <3>1, <4>1, <4>2, <4>3
      <4>4. CASE spans[i] = spans[j] /\ spans[j] # spans[k]
        BY <3>1, <4>4
      <4>5. CASE spans[i] # spans[j] /\ spans[j] = spans[k]
        BY <3>1, <4>5
      <4>6. CASE spans[i] # spans[j] /\ spans[j] # spans[k]
        BY <3>1, <4>2, <4>6
      <4>7. QED BY <4>3, <4>4, <4>5, <4>6
    <3>2. QED BY <3>1
  <2>6. \A i, j \in DOMAIN spans : Precedes(i, j) => spans[i].first <= spans[j].first
    BY <2>1
  <2>7. /\ before \in [DOMAIN spans -> SUBSET DOMAIN spans]
        /\ \A i, j \in DOMAIN spans : i \in before[j] <=> Precedes(i, j)
    <3> HIDE DEF Precedes
    <3>1. QED OBVIOUS
  <2>8. Normalized(spans) = MergeAll(SortedBy(spans, before))
    BY <1>3 DEF Normalized
  <2> HIDE DEF Precedes, before
  <2>9. Orders(spans, before)
    BY <2>3, <2>4, <2>5, <2>6, <2>7 DEF Orders
  <2>10. /\ SortedBy(spans, before) \in Seq(SpanType)
         /\ Sorted(SortedBy(spans, before))
         /\ \A point : Covers(SortedBy(spans, before), point) <=> Covers(spans, point)
    BY <2>9, SortKeeps
  <2>11. QED BY <2>8, <2>10, MergeAllCovers
<1>4. QED BY <1>2, <1>3

\* What is looked up among the ranges is what has the attribute.
LEMMA GatedIsFound ==
    ASSUME IsTree(items), NEW gate, NEW span \in SpanType
    PROVE  Overlaps(Normalized(GatedRanges(gate)), span) <=>
               \E point \in Touched(span) : Gated(gate, point)
<1> DEFINE searched == Normalized(GatedRanges(gate))
<1>1. span.first \in Nat /\ span.past \in Nat /\ \A point \in Touched(span) : point \in Nat
  BY SpanFacts DEF Touched, Points
<1>2. End \in Nat
  BY RangesAssumption
<1>3. \A i \in Item, point \in Int : point \in Points(SpanOf(i)) => point < End
  <2>1. \A i \in Item : items[i].past \in 0 .. End /\ items[i].first \in Nat
    BY ItemFacts
  <2>2. QED BY <1>2, <2>1 DEF Points, SpanOf
<1>4. CASE gate \in gates[0]
  <2> DEFINE whole == [first |-> 0, past |-> End]
  <2>1. \A point \in Nat : Gated(gate, point) <=> point < End
    BY <1>3, <1>4 DEF Gated
  <2>2. GatedRanges(gate) = <<whole>> /\ whole \in SpanType
    BY <1>2, <1>4 DEF GatedRanges, SpanType
  <2>3. CASE End = 0
    <3>1. searched = <<whole>>
      BY <2>2 DEF Normalized
    <3>2. DOMAIN searched = {1} /\ searched[1].past = 0
      BY <2>3, <3>1
    <3> HIDE DEF searched
    <3>3. ~Overlaps(searched, span)
      BY <1>1, <3>2 DEF Overlaps
    <3>4. \A point \in Nat : ~(point < 0)
      OBVIOUS
    <3>5. QED BY <1>1, <2>1, <2>3, <3>3, <3>4 DEF searched
  <2>4. CASE End # 0
    <3> DEFINE one == <<whole>>
    <3>1. one \in Seq(SpanType) /\ DOMAIN one = {1} /\ one[1] = whole
      BY <2>2
    <3>2. whole.first < whole.past
      BY <1>2, <2>4
    <3>3. \A point \in Int : Covers(one, point) <=> point \in Nat /\ point < End
      <4>1. \A point \in Int : point \in Points(whole) <=> point \in Nat /\ point < End
        BY <1>2 DEF Points
      <4> HIDE DEF one, whole
      <4>2. QED BY <3>1, <4>1 DEF Covers
    <3> HIDE DEF whole
    <3>4. /\ searched \in Seq(SpanType) /\ Apart(searched)
          /\ \A point \in Int : Covers(searched, point) <=> Covers(one, point)
      <4>1. \A i \in DOMAIN one : one[i].first < one[i].past
        BY <3>1, <3>2
      <4>2. searched = Normalized(one)
        BY <2>2
      <4> HIDE DEF one, searched
      <4>3. QED BY <3>1, <4>1, <4>2, NormalizedIsExact
    <3> HIDE DEF searched, one
    <3>5. Overlaps(searched, span) <=> \E point \in Touched(span) : point \in Int /\ Covers(searched, point)
      BY <3>4, SearchDecides
    <3>6. QED BY <1>1, <2>1, <3>3, <3>4, <3>5 DEF searched
  <2>5. QED BY <2>3, <2>4
<1>5. CASE gate \notin gates[0]
  <2> DEFINE taken == GatedRanges(gate)
  <2>1. \A point : Gated(gate, point) <=>
           \E i \in Item : InTree(i) /\ gate \in gates[i] /\ point \in Points(SpanOf(i))
    BY <1>5 DEF Gated
  <2>2. /\ taken \in Seq(SpanType) /\ \A i \in DOMAIN taken : taken[i].first < taken[i].past
        /\ \A point \in Int : Covers(taken, point) <=>
             \E i \in Visited(gate) : gate \in gates[i] /\ point \in Points(SpanOf(i))
    BY <1>5, WalkCovers
  <2>3. \A point \in Int : Covers(taken, point) <=> Gated(gate, point)
    <3> HIDE DEF taken
    <3>1. QED BY <2>1, <2>2, WalkFindsGated
  <2> HIDE DEF taken
  <2>4. /\ searched \in Seq(SpanType) /\ Apart(searched)
        /\ \A point \in Int : Covers(searched, point) <=> Covers(taken, point)
    <3>1. searched = Normalized(taken)
      BY DEF taken
    <3> HIDE DEF searched
    <3>2. QED BY <2>2, <3>1, NormalizedIsExact
  <2> HIDE DEF searched
  <2>5. Overlaps(searched, span) <=> \E point \in Touched(span) : point \in Int /\ Covers(searched, point)
    BY <2>4, SearchDecides
  <2>6. QED BY <1>1, <2>3, <2>4, <2>5 DEF searched
<1>6. QED BY <1>4, <1>5

-----------------------------------------------------------------------------
(* Lines.                                                                  *)

\* The number of a line grows with the position, by one at most.
LEMMA LinesGrow ==
    ASSUME NEW p \in Nat, NEW q \in Nat, p <= q
    PROVE  /\ LineAt(p) \in Nat /\ LineAt(q) \in Nat /\ LineAt(p) <= LineAt(q)
           /\ q = p + 1 => LineAt(q) <= LineAt(p) + 1
<1> DEFINE Starts(x) == {s \in LineStarts : s <= x}
<1>1. LineStarts \subseteq Nat
  BY LineStartsAssumption, RangesAssumption
<1>s. /\ \A x \in Nat : \A s \in Starts(x) : s \in Nat
      /\ \A x \in Nat, s \in Nat : s \in Starts(x) <=> s \in LineStarts /\ s <= x
  BY <1>1
<1>5. LineAt(p) = Cardinality(Starts(p)) /\ LineAt(q) = Cardinality(Starts(q))
  BY DEF LineAt
<1> HIDE DEF Starts
<1>2. ASSUME NEW x \in Nat PROVE IsFiniteSet(Starts(x)) /\ Cardinality(Starts(x)) \in Nat
  <2>1. Starts(x) \subseteq 0 .. x
    <3> SUFFICES ASSUME NEW s \in Starts(x) PROVE s \in 0 .. x
      OBVIOUS
    <3>1. s \in Nat /\ s <= x
      BY <1>s
    <3>2. QED BY <3>1
  <2>2. IsFiniteSet(0 .. x)
    BY FS_Interval
  <2>3. QED BY <2>1, <2>2, FS_Subset, FS_CardinalityType
<1>3. Starts(p) \subseteq Starts(q)
  <2> SUFFICES ASSUME NEW s \in Starts(p) PROVE s \in Starts(q)
    OBVIOUS
  <2>1. s \in Nat /\ s \in LineStarts /\ s <= p
    BY <1>s
  <2>2. s <= q
    BY <2>1
  <2>3. QED BY <1>s, <2>1, <2>2
<1>4. q = p + 1 => Starts(q) \subseteq Starts(p) \cup {q}
  <2> SUFFICES ASSUME q = p + 1, NEW s \in Starts(q) PROVE s \in Starts(p) \/ s = q
    OBVIOUS
  <2>1. s \in Nat /\ s \in LineStarts /\ s <= q
    BY <1>s
  <2>2. s <= p \/ s = q
    BY <2>1
  <2>3. QED BY <1>s, <2>1, <2>2
<1>6. Cardinality(Starts(p)) <= Cardinality(Starts(q))
  BY <1>2, <1>3, FS_Subset
<1>7. ASSUME q = p + 1 PROVE Cardinality(Starts(q)) <= Cardinality(Starts(p)) + 1
  <2> DEFINE more == Starts(p) \cup {q}
  <2>1. IsFiniteSet(more) /\ Cardinality(more) = IF q \in Starts(p) THEN Cardinality(Starts(p)) ELSE Cardinality(Starts(p)) + 1
    BY <1>2, FS_AddElement
  <2>2. Starts(q) \subseteq more
    BY <1>4, <1>7
  <2> HIDE DEF more
  <2>3. Cardinality(Starts(q)) <= Cardinality(more)
    BY <2>1, <2>2, FS_Subset
  <2>4. Cardinality(Starts(p)) \in Nat /\ Cardinality(Starts(q)) \in Nat
    BY <1>2
  <2>5. QED BY <2>1, <2>3, <2>4
<1>8. QED BY <1>2, <1>5, <1>6, <1>7

\* Between the lines of two positions lie only lines of positions between them.
LEMMA NoLineIsSkipped ==
    ASSUME NEW p \in Nat, NEW q \in Nat, p <= q, NEW line \in LineAt(p) .. LineAt(q)
    PROVE  \E x \in p .. q : LineAt(x) = line
<1> DEFINE T == {x \in p .. q : line <= LineAt(x)}
<1>1. LineAt(p) \in Nat /\ LineAt(q) \in Nat /\ line \in Nat
      /\ LineAt(p) <= line /\ line <= LineAt(q)
  BY LinesGrow
<1>2. q \in T /\ T \in SUBSET Nat
  BY <1>1
<1>3. PICK x \in T : \A y \in T : x <= y
  <2> HIDE DEF T
  <2>1. QED BY <1>2, LeastNatural
<1>4. x \in p .. q /\ x \in Nat /\ line <= LineAt(x)
  OBVIOUS
<1>5. CASE x = p
  BY <1>1, <1>4, <1>5
<1>6. CASE x # p
  <2>1. x - 1 \in p .. q /\ x - 1 \in Nat /\ x = (x - 1) + 1 /\ x - 1 <= x
    BY <1>4, <1>6
  <2>2. x - 1 \notin T
    <3>1. x - 1 \in T => x <= x - 1
      <4> HIDE DEF T
      <4>1. QED BY <1>3
    <3>2. ~(x <= x - 1)
      BY <2>1
    <3>3. QED BY <3>1, <3>2, Zenon
  <2>3. ~(line <= LineAt(x - 1))
    BY <2>1, <2>2
  <2>4. LineAt(x - 1) \in Nat /\ LineAt(x) \in Nat /\ LineAt(x) <= LineAt(x - 1) + 1
    <3> DEFINE w == x - 1
    <3>1. w \in Nat /\ x \in Nat /\ w <= x /\ x = w + 1
      BY <2>1
    <3> HIDE DEF w
    <3>2. LineAt(w) \in Nat /\ LineAt(x) \in Nat /\ LineAt(x) <= LineAt(w) + 1
      BY <3>1, LinesGrow
    <3>3. QED BY <3>2 DEF w
  <2>5. LineAt(x) = line
    BY <1>1, <1>4, <2>3, <2>4
  <2>6. QED BY <1>4, <2>5
<1>7. QED BY <1>5, <1>6

\* The lines from a span's first position to its last are those it touches.
LEMMA LinesAreTouched ==
    ASSUME NEW span \in SpanType, span.first <= span.past
    PROVE  LinesFor(span) = TouchedLines(span)
<1> DEFINE p == span.first
           q == IF span.past - 1 > span.first THEN span.past - 1 ELSE span.first
<1>1. span.first \in Nat /\ span.past \in Nat
  BY SpanFacts
<1>2. p \in Nat /\ q \in Nat /\ p <= q
  BY <1>1
<1>3. Touched(span) = p .. q
  <2>1. CASE span.past <= span.first
    <3>1. q = span.first
      BY <1>1, <2>1
    <3>2. \A x : x \in p .. q <=> x = p
      BY <1>2, <3>1
    <3>3. QED BY <2>1, <3>2 DEF Touched
  <2>2. CASE ~(span.past <= span.first)
    <3>1. q = span.past - 1
      BY <1>1, <2>2
    <3>2. QED BY <2>2, <3>1 DEF Touched, Points
  <2>3. QED BY <2>1, <2>2
<1>4. LinesFor(span) = LineAt(p) .. LineAt(q)
  BY DEF LinesFor
<1> HIDE DEF p, q
<1>5. \A x \in p .. q : LineAt(x) \in LineAt(p) .. LineAt(q)
  <2> SUFFICES ASSUME NEW x \in p .. q PROVE LineAt(x) \in LineAt(p) .. LineAt(q)
    OBVIOUS
  <2>1. x \in Nat /\ p <= x /\ x <= q
    BY <1>2
  <2>2. /\ LineAt(p) \in Nat /\ LineAt(x) \in Nat /\ LineAt(q) \in Nat
        /\ LineAt(p) <= LineAt(x) /\ LineAt(x) <= LineAt(q)
    BY <1>2, <2>1, LinesGrow
  <2>3. QED BY <2>2
<1>6. \A line \in LineAt(p) .. LineAt(q) : \E x \in p .. q : LineAt(x) = line
  BY <1>2, NoLineIsSkipped
<1>7. QED BY <1>3, <1>4, <1>5, <1>6 DEF TouchedLines

-----------------------------------------------------------------------------
(* The annotations.                                                        *)

\* The first function of a line is the one range_after finds.
LEMMA FirstIsFirst ==
    ASSUME IsTree(items), NEW line \in Nat, FunctionsAfter(line) # {}
    PROVE  /\ FirstAfter(line) \in FunctionsAfter(line)
           /\ \A i \in Item : items[i].kind = "fn" /\ items[i].body < items[i].past =>
                (IsFirstOn(line + 1, i) <=> i = FirstAfter(line))
<1> DEFINE after == FunctionsAfter(line)
           least == FirstAfter(line)
<1>1. Item = 1 .. Len(items) /\ Item \subseteq Nat /\ Len(items) \in Nat
  BY ItemFacts
<1>2. after \in SUBSET Nat /\ after \subseteq Item
  BY <1>1 DEF FunctionsAfter, Functions
<1>3. \E i \in after : \A j \in after : i <= j
  <2> HIDE DEF after
  <2>1. QED BY <1>2, LeastNatural DEF after
<1>4. least \in after /\ \A j \in after : least <= j
  BY <1>3 DEF FirstAfter
<1>5. \A i \in Item :
         i \in after <=> /\ items[i].kind = "fn" /\ items[i].body < items[i].past
                         /\ line + 1 \in {LineAt(items[i].first), LineAt(items[i].name)}
  BY DEF FunctionsAfter, Functions
<1> HIDE DEF after, least
<1>6. ASSUME NEW i \in Item, items[i].kind = "fn", items[i].body < items[i].past
      PROVE  IsFirstOn(line + 1, i) <=> i = least
  <2>1. IsFirstOn(line + 1, i) <=>
           /\ line + 1 \in {LineAt(items[i].first), LineAt(items[i].name)}
           /\ \A j \in 1 .. i - 1 : items[j].kind = "fn" /\ items[j].body < items[j].past =>
                 line + 1 \notin {LineAt(items[j].first), LineAt(items[j].name)}
    BY DEF IsFirstOn
  <2>2. \A j : j \in 1 .. i - 1 <=> j \in Item /\ j < i
    BY <1>1
  <2>3. IsFirstOn(line + 1, i) <=> i \in after /\ \A j \in Item : j < i => j \notin after
    BY <1>5, <1>6, <2>1, <2>2
  <2>4. i \in Nat /\ least \in Nat /\ least \in Item
    BY <1>1, <1>2, <1>4
  <2>5. ASSUME IsFirstOn(line + 1, i) PROVE i = least
    <3>1. i \in after /\ ~(least < i)
      BY <1>4, <2>3, <2>4, <2>5
    <3>2. least <= i
      BY <1>4, <3>1
    <3>3. QED BY <2>4, <3>1, <3>2
  <2>6. ASSUME i = least PROVE IsFirstOn(line + 1, i)
    <3>1. \A j \in Item : j < least => j \notin after
      <4> SUFFICES ASSUME NEW j \in Item, j < least, j \in after PROVE FALSE
        OBVIOUS
      <4>1. least <= j /\ j \in Nat
        BY <1>1, <1>4
      <4>2. QED BY <2>4, <4>1
    <3>2. QED BY <1>4, <2>3, <2>6, <3>1
  <2>7. QED BY <2>5, <2>6
<1>7. QED BY <1>4, <1>6 DEF after, least

AnnotationType ==
    [line : Nat, form : {"func", "next", "regexp", "unknown"},
     matches : SUBSET Nat, names : SUBSET Mutators]

CommentsRead == Len(comments) - Len(unread)

\* What one annotation switches off.
LinesOff(c) ==
    CASE c.form = "next" -> {[line |-> c.line + 1, names |-> c.names]}
      [] c.form = "regexp" -> {[line |-> l, names |-> c.names] : l \in c.matches}
      [] OTHER -> {}

FunctionsOff(c) ==
    IF c.form = "func" THEN {[span |-> BodyOf(FirstAfter(c.line)), names |-> c.names]} ELSE {}

FilterTyped ==
    /\ IsTree(items)
    /\ comments \in Seq(AnnotationType)
    /\ unread \in Seq(AnnotationType)
    /\ filter \in {"building", "ready", "error"}

\* The comments are read in order.
UnreadAreLast ==
    /\ CommentsRead \in Nat
    /\ \A j \in 1 .. Len(unread) : unread[j] = comments[CommentsRead + j]

\* As long as there is no error, each comment read is one that can be read, and
\* what they say is switched off.
ReadAreOff ==
    filter # "error" =>
        /\ \A n \in 1 .. CommentsRead :
              /\ comments[n].form # "unknown"
              /\ comments[n].form = "func" => FunctionsAfter(comments[n].line) # {}
        /\ switchedOff = [functions |-> UNION {FunctionsOff(comments[n]) : n \in 1 .. CommentsRead},
                          lines |-> UNION {LinesOff(comments[n]) : n \in 1 .. CommentsRead}]

\* A finished filter has read them all, and holds the ranges of both walks.
RangesAreMerged ==
    filter = "ready" =>
        /\ CommentsRead = Len(comments)
        /\ excluded = [test |-> Normalized(GatedRanges("test")),
                       cfg |-> IF policy.skipWithCfg THEN Normalized(GatedRanges("cfg")) ELSE <<>>]

FilterInv == FilterTyped /\ UnreadAreLast /\ ReadAreOff /\ RangesAreMerged

\* An annotation that can be read is one of three, and switches off what it says.
LEMMA OneAnnotation ==
    ASSUME IsTree(items), NEW c \in AnnotationType, NEW mutator, NEW span \in SpanType,
           span.first <= span.past, c.form # "unknown",
           c.form = "func" => FunctionsAfter(c.line) # {}
    PROVE  SwitchedOff(c, mutator, span) <=>
               \/ \E d \in LinesOff(c) : d.line \in LinesFor(span) /\ mutator \in d.names
               \/ \E d \in FunctionsOff(c) : Holds(d.span, span) /\ mutator \in d.names
<1>1. LinesFor(span) = TouchedLines(span)
  BY LinesAreTouched
<1>2. c.line \in Nat /\ c.form \in {"func", "next", "regexp"}
  BY DEF AnnotationType
<1>3. CASE c.form = "next"
  <2>1. FunctionsOff(c) = {} /\ LinesOff(c) = {[line |-> c.line + 1, names |-> c.names]}
    BY <1>3 DEF FunctionsOff, LinesOff
  <2>2. SwitchedOff(c, mutator, span) <=> mutator \in c.names /\ c.line + 1 \in TouchedLines(span)
    BY <1>3 DEF SwitchedOff
  <2>3. QED BY <1>1, <2>1, <2>2
<1>4. CASE c.form = "regexp"
  <2>1. FunctionsOff(c) = {} /\ LinesOff(c) = {[line |-> l, names |-> c.names] : l \in c.matches}
    BY <1>4 DEF FunctionsOff, LinesOff
  <2>2. SwitchedOff(c, mutator, span) <=> mutator \in c.names /\ c.matches \cap TouchedLines(span) # {}
    BY <1>4 DEF SwitchedOff
  <2>3. (\E d \in LinesOff(c) : d.line \in LinesFor(span) /\ mutator \in d.names)
           <=> mutator \in c.names /\ \E l \in c.matches : l \in LinesFor(span)
    <3> DEFINE Off(l) == [line |-> l, names |-> c.names]
    <3>1. \A l : Off(l).line = l /\ Off(l).names = c.names
      OBVIOUS
    <3>2. LinesOff(c) = {Off(l) : l \in c.matches}
      BY <2>1
    <3> HIDE DEF Off
    <3>3. QED BY <3>1, <3>2
  <2>4. QED BY <1>1, <2>1, <2>2, <2>3
<1>5. CASE c.form = "func"
  <2> DEFINE i == FirstAfter(c.line)
  <2>1. LinesOff(c) = {} /\ FunctionsOff(c) = {[span |-> BodyOf(i), names |-> c.names]}
    BY <1>5 DEF FunctionsOff, LinesOff
  <2>2. SwitchedOff(c, mutator, span) <=>
           mutator \in c.names /\ \E j \in Item : Encloses(j, span) /\ IsFirstOn(c.line + 1, j)
    BY <1>5 DEF SwitchedOff
  <2>3. /\ i \in FunctionsAfter(c.line)
        /\ \A j \in Item : items[j].kind = "fn" /\ items[j].body < items[j].past =>
              (IsFirstOn(c.line + 1, j) <=> j = i)
    BY <1>2, <1>5, FirstIsFirst
  <2>4. i \in Item /\ items[i].kind = "fn" /\ items[i].body < items[i].past
    BY <2>3 DEF FunctionsAfter, Functions
  <2> HIDE DEF i
  <2>5. (\E j \in Item : Encloses(j, span) /\ IsFirstOn(c.line + 1, j)) <=> Encloses(i, span)
    BY <2>3, <2>4 DEF Encloses
  <2>6. Encloses(i, span) <=> Holds(BodyOf(i), span)
    BY <2>4 DEF Encloses, Holds, BodyOf
  <2>7. QED BY <2>1, <2>2, <2>5, <2>6
<1>6. QED BY <1>2, <1>3, <1>4, <1>5

LEMMA FilterStarts == FilterInit => FilterInv
<1> SUFFICES ASSUME FilterInit PROVE FilterInv
  OBVIOUS
<1>1. /\ items \in Shapes /\ comments \in CommentLists /\ unread = comments
      /\ switchedOff = [functions |-> {}, lines |-> {}] /\ filter = "building"
  BY DEF FilterInit
<1>2. FilterTyped
  BY <1>1, ShapesAssumption, CommentsAssumption DEF FilterTyped, AnnotationType
<1>3. Len(comments) \in Nat /\ CommentsRead = 0
  BY <1>1, <1>2, LenProperties DEF FilterTyped, CommentsRead
<1>4. 1 .. CommentsRead = {} /\ \A j \in 1 .. Len(unread) : CommentsRead + j = j
  BY <1>1, <1>3
<1>5. UnreadAreLast
  BY <1>1, <1>3, <1>4 DEF UnreadAreLast
<1>6. ReadAreOff
  BY <1>1, <1>4 DEF ReadAreOff
<1>7. RangesAreMerged
  BY <1>1 DEF RangesAreMerged
<1>8. QED BY <1>2, <1>5, <1>6, <1>7 DEF FilterInv

\* A step leaves the source, its functions and its ranges as they are.
LEMMA RangesStay ==
    ASSUME items' = items, gates' = gates, NEW gate
    PROVE  GatedRanges(gate)' = GatedRanges(gate)
<1> DEFINE n == Len(items)
           taken(k) == CHOOSE f : Takes(gate, f, k)
<1>1. /\ Item' = Item /\ Len(items') = Len(items)
      /\ \A i : SpanOf(i)' = SpanOf(i)
  BY DEF Item, SpanOf
<1>2. Visited(gate)' = Visited(gate)
  BY <1>1, SMT DEF Visited
<1>3. GatedRanges(gate) = IF gate \in gates[0] THEN <<[first |-> 0, past |-> End]>> ELSE taken(n)[n]
  BY DEF GatedRanges, Takes
<1>4. GatedRanges(gate)' = IF gate \in gates'[0] THEN <<[first |-> 0, past |-> End]>> ELSE taken(n)'[n']
  BY DEF GatedRanges, Takes
<1>5. n' = n /\ \A f : Takes(gate, f, n)' <=> Takes(gate, f, n)
  BY <1>1, <1>2 DEF Takes
<1>6. taken(n)' = taken(n)
  <2> HIDE DEF n
  <2>1. QED BY <1>5, Zenon
<1> HIDE DEF taken, n
<1>7. QED BY <1>3, <1>4, <1>5, <1>6, SMT

LEMMA SourceStays ==
    ASSUME UNCHANGED <<items, gates, policy, comments>>
    PROVE  /\ \A line : FunctionsAfter(line)' = FunctionsAfter(line)
           /\ \A c : FunctionsOff(c)' = FunctionsOff(c) /\ LinesOff(c)' = LinesOff(c)
<1>1. Functions' = Functions
  BY DEF Functions, Item
<1>2. \A line : FunctionsAfter(line)' = FunctionsAfter(line)
  BY <1>1 DEF FunctionsAfter, LineAt
<1>3. \A line : FirstAfter(line)' = FirstAfter(line)
  BY <1>2 DEF FirstAfter
<1>4. \A i : BodyOf(i)' = BodyOf(i)
  BY DEF BodyOf
<1>5. \A c : FunctionsOff(c)' = FunctionsOff(c) /\ LinesOff(c)' = LinesOff(c)
  BY <1>3, <1>4 DEF FunctionsOff, LinesOff
<1>6. QED BY <1>2, <1>5

LEMMA ReadCommentKeeps == FilterInv /\ ReadComment => FilterInv'
<1> SUFFICES ASSUME FilterInv, ReadComment PROVE FilterInv'
  OBVIOUS
<1> DEFINE c == Head(unread)
           r == CommentsRead
<1>1. /\ filter = "building" /\ unread # <<>> /\ unread' = Tail(unread)
      /\ UNCHANGED <<items, gates, policy, comments, excluded>>
  BY DEF ReadComment
<1>2. /\ IsTree(items) /\ comments \in Seq(AnnotationType) /\ unread \in Seq(AnnotationType)
      /\ r \in Nat /\ \A j \in 1 .. Len(unread) : unread[j] = comments[r + j]
  BY DEF FilterInv, FilterTyped, UnreadAreLast
<1>3. /\ Len(unread) \in Nat /\ Len(unread) >= 1 /\ Len(comments) \in Nat
      /\ unread' \in Seq(AnnotationType) /\ Len(unread') = Len(unread) - 1
      /\ c = unread[1] /\ \A j \in 1 .. Len(unread') : unread'[j] = unread[j + 1]
  BY <1>1, <1>2, LenProperties, EmptySeq, HeadTailProperties
<1>4. CommentsRead' = r + 1 /\ r = Len(comments) - Len(unread)
  BY <1>1, <1>3 DEF CommentsRead
<1> HIDE DEF r
<1>5. c = comments[r + 1]
  BY <1>2, <1>3
<1>6. UnreadAreLast'
  <2>1. ASSUME NEW j \in 1 .. Len(unread')
        PROVE  j + 1 \in 1 .. Len(unread) /\ r + (j + 1) = (r + 1) + j
    <3>1. j \in Nat /\ j >= 1 /\ j <= Len(unread) - 1 /\ r \in Nat /\ Len(unread) \in Nat
      BY <1>2, <1>3
    <3>2. QED BY <3>1
  <2>2. r + 1 \in Nat
    BY <1>2
  <2>3. QED BY <1>1, <1>2, <1>3, <1>4, <2>1, <2>2 DEF UnreadAreLast
<1>7. /\ \A line : FunctionsAfter(line)' = FunctionsAfter(line)
      /\ \A x : FunctionsOff(x)' = FunctionsOff(x) /\ LinesOff(x)' = LinesOff(x)
  BY <1>1, SourceStays
<1>8. /\ \A n \in 1 .. r : /\ comments[n].form # "unknown"
                           /\ comments[n].form = "func" => FunctionsAfter(comments[n].line) # {}
      /\ switchedOff = [functions |-> UNION {FunctionsOff(comments[n]) : n \in 1 .. r},
                        lines |-> UNION {LinesOff(comments[n]) : n \in 1 .. r}]
  BY <1>1 DEF FilterInv, ReadAreOff, r
<1>9. \A n : n \in 1 .. r + 1 <=> n \in 1 .. r \/ n = r + 1
  BY <1>2
<1> HIDE DEF c
<1>10. \/ /\ filter' = "error"
       \/ /\ filter' = "building" /\ c.form # "unknown"
          /\ c.form = "func" => FunctionsAfter(c.line) # {}
          /\ switchedOff' = [functions |-> switchedOff.functions \cup FunctionsOff(c),
                             lines |-> switchedOff.lines \cup LinesOff(c)]
  <2>1. \/ /\ c.form = "func" /\ FunctionsAfter(c.line) # {}
           /\ switchedOff' = [switchedOff EXCEPT !.functions = @ \cup
                 {[span |-> BodyOf(FirstAfter(c.line)), names |-> c.names]}]
           /\ UNCHANGED filter
        \/ /\ c.form = "next"
           /\ switchedOff' = [switchedOff EXCEPT !.lines = @ \cup
                 {[line |-> c.line + 1, names |-> c.names]}]
           /\ UNCHANGED filter
        \/ /\ c.form = "regexp"
           /\ switchedOff' = [switchedOff EXCEPT !.lines = @ \cup
                 {[line |-> l, names |-> c.names] : l \in c.matches}]
           /\ UNCHANGED filter
        \/ filter' = "error"
    BY DEF ReadComment, c
  <2>2. CASE /\ c.form = "func" /\ FunctionsAfter(c.line) # {}
             /\ switchedOff' = [switchedOff EXCEPT !.functions = @ \cup
                   {[span |-> BodyOf(FirstAfter(c.line)), names |-> c.names]}]
             /\ UNCHANGED filter
    <3>1. LinesOff(c) = {} /\ FunctionsOff(c) = {[span |-> BodyOf(FirstAfter(c.line)), names |-> c.names]}
      BY <2>2 DEF LinesOff, FunctionsOff
    <3>2. switchedOff' = [switchedOff EXCEPT !.functions = @ \cup FunctionsOff(c)]
      BY <2>2, <3>1
    <3>3. QED BY <1>1, <1>8, <2>2, <3>1, <3>2
  <2>3. CASE /\ c.form = "next"
             /\ switchedOff' = [switchedOff EXCEPT !.lines = @ \cup
                   {[line |-> c.line + 1, names |-> c.names]}]
             /\ UNCHANGED filter
    <3>1. FunctionsOff(c) = {} /\ LinesOff(c) = {[line |-> c.line + 1, names |-> c.names]}
      BY <2>3 DEF LinesOff, FunctionsOff
    <3>2. switchedOff' = [switchedOff EXCEPT !.lines = @ \cup LinesOff(c)]
      BY <2>3, <3>1
    <3>3. QED BY <1>1, <1>8, <2>3, <3>1, <3>2
  <2>4. CASE /\ c.form = "regexp"
             /\ switchedOff' = [switchedOff EXCEPT !.lines = @ \cup
                   {[line |-> l, names |-> c.names] : l \in c.matches}]
             /\ UNCHANGED filter
    <3>1. FunctionsOff(c) = {} /\ LinesOff(c) = {[line |-> l, names |-> c.names] : l \in c.matches}
      BY <2>4 DEF LinesOff, FunctionsOff
    <3>2. switchedOff' = [switchedOff EXCEPT !.lines = @ \cup LinesOff(c)]
      BY <2>4, <3>1
    <3>3. QED BY <1>1, <1>8, <2>4, <3>1, <3>2
  <2>5. QED BY <2>1, <2>2, <2>3, <2>4
<1>11. ReadAreOff'
  <2>1. CASE filter' = "error"
    BY <2>1 DEF ReadAreOff
  <2>2. CASE filter' # "error"
    <3>1. /\ c.form # "unknown" /\ (c.form = "func" => FunctionsAfter(c.line) # {})
          /\ switchedOff' = [functions |-> switchedOff.functions \cup FunctionsOff(c),
                             lines |-> switchedOff.lines \cup LinesOff(c)]
      BY <1>10, <2>2
    <3>2. \A n \in 1 .. r + 1 :
             /\ comments[n].form # "unknown"
             /\ comments[n].form = "func" => FunctionsAfter(comments[n].line) # {}
      BY <1>5, <1>8, <1>9, <3>1
    <3> DEFINE F == UNION {FunctionsOff(comments[n]) : n \in 1 .. r}
               L == UNION {LinesOff(comments[n]) : n \in 1 .. r}
    <3>3. UNION {FunctionsOff(comments[n]) : n \in 1 .. r + 1} = F \cup FunctionsOff(c)
      <4>1. {FunctionsOff(comments[n]) : n \in 1 .. r + 1}
               = {FunctionsOff(comments[n]) : n \in 1 .. r} \cup {FunctionsOff(c)}
        BY <1>5, <1>9
      <4>2. QED BY <4>1
    <3>4. UNION {LinesOff(comments[n]) : n \in 1 .. r + 1} = L \cup LinesOff(c)
      <4>1. {LinesOff(comments[n]) : n \in 1 .. r + 1}
               = {LinesOff(comments[n]) : n \in 1 .. r} \cup {LinesOff(c)}
        BY <1>5, <1>9
      <4>2. QED BY <4>1
    <3>8. switchedOff.functions = F /\ switchedOff.lines = L
      <4>1. switchedOff = [functions |-> F, lines |-> L]
        BY <1>8
      <4> HIDE DEF F, L
      <4>2. QED BY <4>1
    <3> HIDE DEF F, L
    <3>5. switchedOff' = [functions |-> UNION {FunctionsOff(comments[n]) : n \in 1 .. r + 1},
                          lines |-> UNION {LinesOff(comments[n]) : n \in 1 .. r + 1}]
      BY <3>1, <3>3, <3>4, <3>8
    <3>6. /\ UNION {FunctionsOff(comments[n]) : n \in 1 .. r + 1}
                = UNION {FunctionsOff(comments[n])' : n \in 1 .. r + 1}
          /\ UNION {LinesOff(comments[n]) : n \in 1 .. r + 1}
                = UNION {LinesOff(comments[n])' : n \in 1 .. r + 1}
      BY <1>1, <1>7
    <3>7. QED BY <1>1, <1>4, <1>7, <3>2, <3>5, <3>6 DEF ReadAreOff
  <2>3. QED BY <2>1, <2>2
<1>12. FilterTyped' /\ RangesAreMerged'
  BY <1>1, <1>2, <1>3, <1>10 DEF FilterTyped, RangesAreMerged, IsTree
<1>13. QED BY <1>6, <1>11, <1>12 DEF FilterInv

LEMMA FinishFilterKeeps == FilterInv /\ FinishFilter => FilterInv'
<1> SUFFICES ASSUME FilterInv, FinishFilter PROVE FilterInv'
  OBVIOUS
<1>1. /\ filter = "building" /\ unread = <<>> /\ filter' = "ready"
      /\ UNCHANGED <<items, gates, policy, comments, unread, switchedOff>>
      /\ excluded' = [test |-> Normalized(GatedRanges("test")),
                      cfg |-> IF policy.skipWithCfg THEN Normalized(GatedRanges("cfg")) ELSE <<>>]
  BY DEF FinishFilter
<1>2. CommentsRead' = CommentsRead
  BY <1>1 DEF CommentsRead
<1>3. FilterTyped'
  BY <1>1 DEF FilterInv, FilterTyped, IsTree
<1>4. UnreadAreLast'
  BY <1>1, <1>2 DEF FilterInv, UnreadAreLast
<1>5. ReadAreOff'
  <2>1. /\ \A line : FunctionsAfter(line)' = FunctionsAfter(line)
        /\ \A c : FunctionsOff(c)' = FunctionsOff(c) /\ LinesOff(c)' = LinesOff(c)
    BY <1>1, SourceStays
  <2>2. /\ UNION {FunctionsOff(comments[n]) : n \in 1 .. CommentsRead}
              = UNION {FunctionsOff(comments[n])' : n \in 1 .. CommentsRead}
        /\ UNION {LinesOff(comments[n]) : n \in 1 .. CommentsRead}
              = UNION {LinesOff(comments[n])' : n \in 1 .. CommentsRead}
    BY <1>1, <2>1
  <2>3. QED BY <1>1, <1>2, <2>1, <2>2 DEF FilterInv, ReadAreOff
<1>6. RangesAreMerged'
  <2>1. \A gate : GatedRanges(gate)' = GatedRanges(gate)
    BY <1>1, RangesStay
  <2>2. CommentsRead' = Len(comments')
    <3>1. Len(comments) \in Nat /\ Len(unread) = 0
      BY <1>1, LenProperties, EmptySeq DEF FilterInv, FilterTyped
    <3>2. QED BY <1>1, <1>2, <3>1 DEF CommentsRead
  <2>3. excluded' = [test |-> Normalized(GatedRanges("test"))',
                     cfg |-> IF policy'.skipWithCfg THEN Normalized(GatedRanges("cfg"))' ELSE <<>>]
    BY <1>1, <2>1
  <2>4. QED BY <2>2, <2>3 DEF RangesAreMerged
<1>7. QED BY <1>3, <1>4, <1>5, <1>6 DEF FilterInv

LEMMA FilterStep == FilterInv /\ [FilterNext]_filterVars => FilterInv'
<1> SUFFICES ASSUME FilterInv, [FilterNext]_filterVars PROVE FilterInv'
  OBVIOUS
<1>1. CASE ReadComment
  BY <1>1, ReadCommentKeeps
<1>2. CASE FinishFilter
  BY <1>2, FinishFilterKeeps
<1>3. CASE UNCHANGED filterVars
  <2>1. /\ items' = items /\ gates' = gates /\ policy' = policy /\ comments' = comments
        /\ unread' = unread /\ switchedOff' = switchedOff /\ excluded' = excluded /\ filter' = filter
    BY <1>3 DEF filterVars
  <2>2. FilterTyped' /\ UnreadAreLast'
    BY <2>1 DEF FilterInv, FilterTyped, UnreadAreLast, CommentsRead, IsTree
  <2>3. ReadAreOff'
    <3>1. /\ \A line : FunctionsAfter(line)' = FunctionsAfter(line)
          /\ \A c : FunctionsOff(c)' = FunctionsOff(c) /\ LinesOff(c)' = LinesOff(c)
      BY <2>1, SourceStays
    <3>2. /\ UNION {FunctionsOff(comments[n]) : n \in 1 .. CommentsRead}
                = UNION {FunctionsOff(comments[n])' : n \in 1 .. CommentsRead}
          /\ UNION {LinesOff(comments[n]) : n \in 1 .. CommentsRead}
                = UNION {LinesOff(comments[n])' : n \in 1 .. CommentsRead}
      BY <2>1, <3>1
    <3>3. CommentsRead' = CommentsRead
      BY <2>1 DEF CommentsRead
    <3>4. QED BY <2>1, <3>1, <3>2, <3>3 DEF FilterInv, ReadAreOff
  <2>4. RangesAreMerged'
    <3>1. \A gate : GatedRanges(gate)' = GatedRanges(gate)
      BY <2>1, RangesStay
    <3>2. CommentsRead' = CommentsRead
      BY <2>1 DEF CommentsRead
    <3>3. QED BY <2>1, <3>1, <3>2 DEF FilterInv, RangesAreMerged
  <2>5. QED BY <2>2, <2>3, <2>4 DEF FilterInv
<1>4. QED BY <1>1, <1>2, <1>3 DEF FilterNext

\* A finished filter decides as FilterIsExact says.
LEMMA FinishedFilterDecides == FilterInv => FilterIsExact
<1> SUFFICES ASSUME FilterInv, filter = "ready", NEW mutator \in Mutators, NEW span \in SpanType,
                    span.first <= span.past
             PROVE  AllowsMutation(mutator, span) <=> Wanted(mutator, span)
  BY DEF FilterIsExact
<1> DEFINE n == Len(comments)
<1>1. /\ IsTree(items) /\ comments \in Seq(AnnotationType)
      /\ CommentsRead = n
      /\ excluded.test = Normalized(GatedRanges("test"))
      /\ excluded.cfg = IF policy.skipWithCfg THEN Normalized(GatedRanges("cfg")) ELSE <<>>
  BY DEF FilterInv, FilterTyped, RangesAreMerged
<1>2. /\ \A k \in 1 .. n : /\ comments[k].form # "unknown"
                           /\ comments[k].form = "func" => FunctionsAfter(comments[k].line) # {}
      /\ switchedOff.functions = UNION {FunctionsOff(comments[k]) : k \in 1 .. n}
      /\ switchedOff.lines = UNION {LinesOff(comments[k]) : k \in 1 .. n}
  BY <1>1 DEF FilterInv, ReadAreOff
<1>3. DOMAIN comments = 1 .. n /\ \A k \in 1 .. n : comments[k] \in AnnotationType
  BY <1>1, LenProperties, ElementOfSeq
<1> HIDE DEF n
<1>4. HasUnitTests <=> \E i \in Item : InTree(i) /\ "test" \in gates[i]
  BY <1>1, WalkFindsGated DEF HasUnitTests
<1>5. FunctionAllows(span) <=> policy.match = "off" \/ Deepest(span) \cap policy.matching # {}
  BY <1>1, ShortestIsDeepest DEF FunctionAllows
<1>6. InIgnoredLine(span) <=> TouchedLines(span) \cap policy.ignored # {}
  BY LinesAreTouched DEF InIgnoredLine
<1>7. InDisabledLine(mutator, span) \/ InDisabledFunction(mutator, span) <=>
         \E k \in DOMAIN comments : SwitchedOff(comments[k], mutator, span)
  <2>1. \A k \in 1 .. n : SwitchedOff(comments[k], mutator, span) <=>
           \/ \E d \in LinesOff(comments[k]) : d.line \in LinesFor(span) /\ mutator \in d.names
           \/ \E d \in FunctionsOff(comments[k]) : Holds(d.span, span) /\ mutator \in d.names
    BY <1>1, <1>2, <1>3, OneAnnotation
  <2>2. InDisabledLine(mutator, span) <=>
           \E k \in 1 .. n : \E d \in LinesOff(comments[k]) :
              d.line \in LinesFor(span) /\ mutator \in d.names
    BY <1>2 DEF InDisabledLine
  <2>3. InDisabledFunction(mutator, span) <=>
           \E k \in 1 .. n : \E d \in FunctionsOff(comments[k]) :
              Holds(d.span, span) /\ mutator \in d.names
    BY <1>2 DEF InDisabledFunction
  <2>4. QED BY <1>3, <2>1, <2>2, <2>3
<1>8. Overlaps(excluded.test, span) <=> \E p \in Touched(span) : Gated("test", p)
  BY <1>1, GatedIsFound
<1>9. Overlaps(excluded.cfg, span) <=>
         policy.skipWithCfg /\ \E p \in Touched(span) : Gated("cfg", p)
  <2>1. CASE policy.skipWithCfg
    BY <1>1, <2>1, GatedIsFound
  <2>2. CASE ~policy.skipWithCfg
    <3>1. excluded.cfg = <<>>
      BY <1>1, <2>2
    <3>2. QED BY <2>2, <3>1 DEF Overlaps
  <2>3. QED BY <2>1, <2>2
<1>10. QED BY <1>4, <1>5, <1>6, <1>7, <1>8, <1>9 DEF AllowsMutation, Wanted

\* A source filter, of any source and with any annotations, policy and cfg
\* attributes: once it is built it lets through the mutations that FilterIsExact
\* names and no others.
THEOREM FiltersAreExact == FilterSpec => []FilterIsExact
<1>1. FilterInv => FilterIsExact
  BY FinishedFilterDecides
<1>2. QED BY <1>1, FilterStarts, FilterStep, PTL DEF FilterSpec
=============================================================================
