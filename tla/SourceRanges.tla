----------------------------- MODULE SourceRanges -----------------------------
(***************************************************************************)
(* Merging and searching sorted ranges: normalize_ranges and               *)
(* range_overlaps_any in src/filter.rs (the byte ranges of tests and of    *)
(* conditional items), and merge_ranges in src/git.rs (the changed lines   *)
(* first..last of a file, written here as the half-open range              *)
(* first..last+1).  Both loops take the ranges in the order of their       *)
(* starts and either extend the last range kept or keep a new one.         *)
(***************************************************************************)
EXTENDS Integers, Sequences, FiniteSets

CONSTANTS
    End,        \* ranges lie in 0..End
    MaxRanges   \* bound on the ranges given to one merge

ASSUME RangesAssumption == End \in Nat /\ MaxRanges \in Nat

VARIABLES
    given,   \* the ranges, sorted by their start
    rest,    \* those the loop has not taken yet
    merged   \* those it has kept

rangeVars == <<given, rest, merged>>

\* A half-open range of positions; it is empty when past <= first.
SpanType == [first : 0 .. End, past : 0 .. End]

Points(span) == span.first .. (span.past - 1)

PointsIn(spans) == UNION {Points(spans[i]) : i \in DOMAIN spans}

Sorted(spans) ==
    \A i, j \in DOMAIN spans : i < j => spans[i].first <= spans[j].first

\* A stable sort of ranges: an index moves behind those in before[i], which
\* come before it.
SortedBy(spans, before) ==
    LET rank == [i \in DOMAIN spans |-> Cardinality(before[i]) + 1]
    IN  [n \in DOMAIN spans |-> spans[CHOOSE i \in DOMAIN spans : rank[i] = n]]

\* Mistake: an extended range ends where the later one ends.
JoinTakesLater(spans, span) ==
    LET last == Len(spans)
    IN  CASE span.past <= span.first -> spans
          [] /\ span.past > span.first
             /\ spans # <<>>
             /\ span.first <= spans[last].past ->
                [spans EXCEPT ![last].past = span.past]
          [] OTHER -> Append(spans, span)

\* One pass of the loop: an empty range is dropped, one that starts inside or
\* directly after the last range kept extends it, any other is kept.
Join(spans, span) ==
    LET last == Len(spans)
    IN  CASE span.past <= span.first -> spans
          [] /\ span.past > span.first
             /\ spans # <<>>
             /\ span.first <= spans[last].past ->
                [spans EXCEPT ![last].past = IF span.past > @ THEN span.past ELSE @]
          [] OTHER -> Append(spans, span)

\* The whole merge of ranges that are in order.
MergeAll(spans) ==
    LET kept[n \in 0 .. Len(spans)] ==
            IF n = 0 THEN <<>> ELSE Join(kept[n - 1], spans[n])
    IN  kept[Len(spans)]

MergeInit ==
    /\ given \in UNION {[1 .. n -> SpanType] : n \in 0 .. MaxRanges}
    /\ Sorted(given)
    /\ rest = given
    /\ merged = <<>>

Merge ==
    /\ rest # <<>>
    /\ merged' = Join(merged, Head(rest))
    /\ rest' = Tail(rest)
    /\ UNCHANGED given

MergeSpec == MergeInit /\ [][Merge]_rangeVars

\* The range the binary search finds is the first one that ends after the
\* target's start; an empty target lies in it or in none.
Overlaps(spans, target) ==
    \E i \in DOMAIN spans :
        /\ spans[i].past > target.first
        /\ \A j \in DOMAIN spans : j < i => spans[j].past <= target.first
        /\ IF target.past <= target.first
           THEN spans[i].first <= target.first
           ELSE spans[i].first < target.past

-----------------------------------------------------------------------------

\* What the target of a search stands for: the positions it covers, or, when
\* it is empty, the position it stands at.
Touched(target) ==
    IF target.past <= target.first THEN {target.first} ELSE Points(target)

\* The ranges kept so far and those still to come cover what was given.
MergeKeepsPoints == PointsIn(merged) \cup PointsIn(rest) = PointsIn(given)

\* The ranges kept are in order, not empty and apart from each other.
MergedApart ==
    /\ \A i \in DOMAIN merged : merged[i].first < merged[i].past
    /\ \A i, j \in DOMAIN merged : i < j => merged[i].past < merged[j].first

\* No test, conditional item or changed line is lost or added by the merge,
\* and what it keeps is what the binary search relies on: sorted, not empty
\* and apart.
MergeIsExact == MergeKeepsPoints /\ MergedApart

\* After the merge one binary search decides: it finds the target exactly when
\* one of the ranges that were given shares a position with it.
SearchIsExact ==
    rest = <<>> =>
        \A target \in SpanType :
            Overlaps(merged, target) <=> Touched(target) \cap PointsIn(given) # {}
=============================================================================
