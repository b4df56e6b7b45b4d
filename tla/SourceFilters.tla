---------------------------- MODULE SourceFilters ----------------------------
(***************************************************************************)
(* Filters inside one source: src/filter.rs.  build_source_filter collects *)
(* the functions, reads the annotations in the comments one after another  *)
(* and gathers the byte ranges of tests and of conditional items;          *)
(* allows_mutation then decides for every mutation of the source.          *)
(*                                                                         *)
(* A source is a tree of items over the positions 0..End: a module, impl   *)
(* or trait holds items, and so does the body of a function.               *)
(***************************************************************************)
EXTENDS SequencesExt, FiniteSets, SourceRanges

CONSTANTS
    LineStarts,   \* the positions at which lines start, 0 among them
    Shapes,       \* trees: sequences of items, each after its parent
    GatesOf(_),   \* the cfg attributes to try on a tree, by item, 0 for the file
    Policies,     \* the values of the filter options
    CommentLists, \* the annotation comments of a source, in order
    Mutators      \* the mutators' names

\* Items are listed in the order of the visit.  An item starts at its first
\* attribute, a function without one at its name.  It lies within its parent,
\* within the body when that is a function, and apart from its siblings.
IsTree(shape) ==
    /\ shape \in Seq([parent : Nat, kind : STRING, first : 0 .. End, past : 0 .. End,
                      name : 0 .. End, body : 0 .. End])
    /\ \A i \in DOMAIN shape :
        LET item == shape[i]
        IN  /\ item.parent < i
            /\ item.first < item.past
            /\ item.kind = "fn" => item.first < item.body
            /\ item.parent # 0 =>
                LET outer == shape[item.parent]
                IN  /\ outer.first <= item.first /\ item.past <= outer.past
                    /\ outer.kind = "fn" => outer.body <= item.first
            /\ \A j \in DOMAIN shape :
                j # i /\ shape[j].parent = item.parent =>
                    item.past <= shape[j].first \/ shape[j].past <= item.first

ASSUME ShapesAssumption == \A shape \in Shapes : IsTree(shape)
ASSUME LineStartsAssumption == LineStarts \subseteq 0 .. End
ASSUME CommentsAssumption ==
    \A list \in CommentLists :
        list \in Seq([line : Nat, form : {"func", "next", "regexp", "unknown"},
                     matches : SUBSET Nat, names : SUBSET Mutators])

VARIABLES
    items,     \* the items of the source
    gates,     \* for each item and the file (0), which cfg attributes it has
    policy,    \* the filter options
    comments,  \* all annotation comments
    unread,    \* those not read yet
    switchedOff,  \* [functions, lines]: what the annotations switch off
    excluded,  \* [test, cfg]: the ranges of tests and of conditional items
    filter     \* "building", "ready" or "error"

filterVars == <<items, gates, policy, comments, unread, switchedOff, excluded, filter>>

Item == 1 .. Len(items)

\* LineIndex::line_at counts the line starts up to the position.
LineAt(p) == Cardinality({s \in LineStarts : s <= p})

LinesFor(span) ==
    LineAt(span.first) .. LineAt(IF span.past - 1 > span.first THEN span.past - 1 ELSE span.first)

SpanOf(i) == [first |-> items[i].first, past |-> items[i].past]

Holds(outer, inner) == outer.first <= inner.first /\ inner.past <= outer.past

-----------------------------------------------------------------------------
(* The walk over items.                                                    *)

Holders == {"mod", "impl", "trait"}

\* Mistake: items inside impl and trait blocks are not looked at.
VisitedModulesOnly(gate) ==
    LET visited[i \in Item] ==
            LET p == items[i].parent
            IN  p = 0 \/ (visited[p] /\ gate \notin gates[p] /\ items[p].kind = "mod")
    IN  {i \in Item : visited[i]}

\* collect_test_items and collect_conditional_items: an item with the
\* attribute is taken whole, another is entered when it is a module, an impl
\* or a trait.
Visited(gate) ==
    LET visited[i \in Item] ==
            LET p == items[i].parent
            IN  p = 0 \/ (visited[p] /\ gate \notin gates[p] /\ items[p].kind \in Holders)
    IN  {i \in Item : visited[i]}

\* The ranges in the order of the walk.
GatedRanges(gate) ==
    IF gate \in gates[0] THEN <<[first |-> 0, past |-> End]>>
    ELSE LET visited == Visited(gate)
             taken[n \in 0 .. Len(items)] ==
                 IF n = 0 THEN <<>>
                 ELSE IF n \in visited /\ gate \in gates[n]
                 THEN Append(taken[n - 1], SpanOf(n))
                 ELSE taken[n - 1]
         IN  taken[Len(items)]

\* normalize_ranges: one range is returned as it is, several are sorted, freed
\* of empty ones and merged.
Normalized(spans) ==
    LET before == [i \in DOMAIN spans |->
                      {j \in DOMAIN spans :
                          \/ spans[j].first < spans[i].first
                          \/ spans[j].first = spans[i].first /\ spans[j].past < spans[i].past
                          \/ spans[j] = spans[i] /\ j < i}]
    IN  IF Len(spans) <= 1 THEN spans ELSE MergeAll(SortedBy(spans, before))

\* source_has_unit_tests: the file's own attribute does not count.
HasUnitTests == \E i \in Visited("test") : "test" \in gates[i]

-----------------------------------------------------------------------------
(* Functions.                                                              *)

\* The functions with a body, in the order of the visit.
Functions == {i \in Item : items[i].kind = "fn" /\ items[i].body < items[i].past}

BodyOf(i) == [first |-> items[i].body, past |-> items[i].past]

\* range_after: a function whose first attribute, or whose name, stands on the
\* next line.
FunctionsAfter(line) ==
    {i \in Functions : \/ LineAt(items[i].first) = line + 1
                       \/ LineAt(items[i].name) = line + 1}

FirstAfter(line) == CHOOSE i \in FunctionsAfter(line) : \A j \in FunctionsAfter(line) : i <= j

\* innermost_function: the shortest body around the mutation.
Innermost(span) ==
    LET around == {i \in Functions : Holds(BodyOf(i), span)}
        length(i) == items[i].past - items[i].body
    IN  {i \in around : \A j \in around :
            length(i) < length(j) \/ (length(i) = length(j) /\ i <= j)}

FunctionAllows(span) ==
    policy.match = "off" \/ \E i \in Innermost(span) : i \in policy.matching

-----------------------------------------------------------------------------
(* Annotations.                                                            *)

\* One comment.  An unknown annotation, mutator or expression stops the run,
\* and so does a function annotation with no function directly after it.
ReadComment ==
    /\ filter = "building"
    /\ unread # <<>>
    /\ unread' = Tail(unread)
    /\ LET c == Head(unread)
       IN  \/ /\ c.form = "func" /\ FunctionsAfter(c.line) # {}
              /\ switchedOff' = [switchedOff EXCEPT !.functions = @ \cup
                    {[span |-> BodyOf(FirstAfter(c.line)), names |-> c.names]}]
              /\ UNCHANGED filter
           \/ /\ c.form = "next"
              /\ switchedOff' = [switchedOff EXCEPT !.lines = @ \cup
                    {[line |-> c.line + 1, names |-> c.names]}]
              /\ UNCHANGED filter
           \/ /\ c.form = "regexp"
              /\ switchedOff' = [switchedOff EXCEPT !.lines = @ \cup
                    {[line |-> l, names |-> c.names] : l \in c.matches}]
              /\ UNCHANGED filter
           \/ /\ \/ c.form = "unknown"
                 \/ c.form = "func" /\ FunctionsAfter(c.line) = {}
              /\ filter' = "error"
              /\ UNCHANGED switchedOff
    /\ UNCHANGED <<items, gates, policy, comments, excluded>>

FinishFilter ==
    /\ filter = "building"
    /\ unread = <<>>
    /\ filter' = "ready"
    /\ excluded' = [test |-> Normalized(GatedRanges("test")),
                    cfg |-> IF policy.skipWithCfg THEN Normalized(GatedRanges("cfg")) ELSE <<>>]
    /\ UNCHANGED <<items, gates, policy, comments, unread, switchedOff>>

FilterInit ==
    /\ items \in Shapes
    /\ gates \in GatesOf(items)
    /\ policy \in Policies
    /\ comments \in CommentLists
    /\ unread = comments
    /\ switchedOff = [functions |-> {}, lines |-> {}]
    /\ excluded = [test |-> <<>>, cfg |-> <<>>]
    /\ filter = "building"

FilterNext == ReadComment \/ FinishFilter

FilterSpec == FilterInit /\ [][FilterNext]_filterVars

-----------------------------------------------------------------------------
(* The decision.                                                           *)

InIgnoredLine(span) == LinesFor(span) \cap policy.ignored # {}

InDisabledLine(mutator, span) ==
    \E d \in switchedOff.lines : d.line \in LinesFor(span) /\ mutator \in d.names

InDisabledFunction(mutator, span) ==
    \E d \in switchedOff.functions : Holds(d.span, span) /\ mutator \in d.names

\* SourceFilter::allows_mutation.
AllowsMutation(mutator, span) ==
    /\ ~(policy.skipWithoutTest /\ ~HasUnitTests)
    /\ FunctionAllows(span)
    /\ ~InDisabledFunction(mutator, span)
    /\ ~InIgnoredLine(span)
    /\ ~InDisabledLine(mutator, span)
    /\ ~Overlaps(excluded.cfg, span)
    /\ ~Overlaps(excluded.test, span)

-----------------------------------------------------------------------------
(* What the filter is for, told by position and by ancestry.               *)

\* The item and everything it stands in, the file (0) not included.
Ancestry(i) ==
    LET up[j \in Item] ==
            {j} \cup (IF items[j].parent = 0 THEN {} ELSE up[items[j].parent])
    IN  up[i]

\* Items of the module tree: those not inside a function's body.
InTree(i) == \A j \in Ancestry(i) \ {i} : items[j].kind \in Holders

Gated(gate, p) ==
    \/ gate \in gates[0] /\ p < End
    \/ \E i \in Item : InTree(i) /\ gate \in gates[i] /\ p \in Points(SpanOf(i))

TouchedLines(span) == {LineAt(p) : p \in Touched(span)}

Encloses(i, span) ==
    /\ items[i].kind = "fn" /\ items[i].body < items[i].past
    /\ items[i].body <= span.first /\ span.past <= items[i].past

\* The functions whose bodies are around the span and that hold no other function around it.
Deepest(span) ==
    {i \in Item : Encloses(i, span)
        /\ \A j \in Item \ {i} : Encloses(j, span) => i \notin Ancestry(j)}

\* The first function that starts, or has its name, on the line.
IsFirstOn(line, i) ==
    /\ line \in {LineAt(items[i].first), LineAt(items[i].name)}
    /\ \A j \in 1 .. i - 1 :
        items[j].kind = "fn" /\ items[j].body < items[j].past =>
            line \notin {LineAt(items[j].first), LineAt(items[j].name)}

\* Annotation c switches the mutator off for the span.
SwitchedOff(c, mutator, span) ==
    /\ mutator \in c.names
    /\ CASE c.form = "next" -> c.line + 1 \in TouchedLines(span)
         [] c.form = "regexp" -> c.matches \cap TouchedLines(span) # {}
         [] OTHER -> \E i \in Item : Encloses(i, span) /\ IsFirstOn(c.line + 1, i)

Wanted(mutator, span) ==
    /\ policy.skipWithoutTest =>
           \E i \in Item : InTree(i) /\ "test" \in gates[i]
    /\ policy.match = "off" \/ Deepest(span) \cap policy.matching # {}
    /\ TouchedLines(span) \cap policy.ignored = {}
    /\ \A n \in DOMAIN comments : ~SwitchedOff(comments[n], mutator, span)
    /\ \A p \in Touched(span) :
           ~Gated("test", p) /\ ~(policy.skipWithCfg /\ Gated("cfg", p))

\* A finished filter lets a mutation through exactly when nothing it touches is
\* excluded: no position inside a test or (when asked) a conditional item of
\* the module tree, no ignored or switched-off line, no switched-off function,
\* and its innermost function is one of those asked for.  The ranges are
\* collected by a walk, merged and searched, so a range lost or stretched on
\* the way shows here.
FilterIsExact ==
    filter = "ready" =>
        \A mutator \in Mutators, span \in SpanType :
            span.first <= span.past =>
                (AllowsMutation(mutator, span) <=> Wanted(mutator, span))
=============================================================================
