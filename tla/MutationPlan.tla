----------------------------- MODULE MutationPlan -----------------------------
(***************************************************************************)
(* The plan of a mutation run: mutation_plan, add_mutator_candidates,      *)
(* deduplicate_candidates and selected_mutation_plan in src/execution.rs,  *)
(* with the evidence of src/evidence.rs.  Sources are read in path order   *)
(* and for each source the mutators in registry order; a mutator yields    *)
(* its mutations one after the other.  A mutation becomes a candidate when *)
(* it is viable and no filter, Git selection or blacklist excludes it.     *)
(*                                                                         *)
(* A mutator may yield anything: a step chooses the next mutation.  Two    *)
(* mutations of one source can change equal lines to equal lines (repeated *)
(* evidence); MD5 is taken to be injective.                                *)
(***************************************************************************)
EXTENDS Naturals, Sequences, FiniteSets

CONSTANTS
    Order,        \* the sources in path order
    Registry,     \* the names of the enabled mutators in registry order
    Ranges,       \* the byte ranges mutators replace
    Texts,        \* the replacements
    Paths,        \* the names of sources below their source root
    PathOf,       \* the name of each source
    Lines, LineOf, \* the line a range begins on, in each source
    Changes, ChangeOf, \* the changed lines of each mutation
    Viable,       \* the mutations that change the text and still parse
    MaxOffers,    \* bound on the viable mutations of a run
    NoRange       \* evidence without a location

Sources == {Order[k] : k \in 1 .. Len(Order)}
Names == {Registry[k] : k \in 1 .. Len(Registry)}

\* A Mutation of a source; its identity is the range and the replacement.
Mutation == [source : Sources, range : Ranges, text : Texts]

ASSUME OrderAssumption == Order \in Seq(Sources)
ASSUME RegistryAssumption == Registry \in Seq(Names)
ASSUME UniqueAssumption ==
    /\ \A j, k \in 1 .. Len(Order) : Order[j] = Order[k] => j = k
    /\ \A j, k \in 1 .. Len(Registry) : Registry[j] = Registry[k] => j = k
ASSUME NoRangeAssumption == NoRange \notin Ranges
ASSUME PathAssumption == PathOf \in [Sources -> Paths]
ASSUME LineAssumption == LineOf \in [Sources \X Ranges -> Lines]
ASSUME ChangeAssumption == ChangeOf \in [Mutation -> Changes]
ASSUME ViableAssumption == Viable \subseteq Mutation
ASSUME MaxOffersAssumption == MaxOffers \in Nat

\* Two replacements of one range that leave the same changed lines are one.
ASSUME EvidenceAssumption ==
    \A m, n \in Mutation :
        m.source = n.source /\ m.range = n.range /\ ChangeOf[m] = ChangeOf[n]
            => m.text = n.text

Locations == Ranges \cup {NoRange}

\* stable_mutant_id and blacklist_checksum
Id == [path : Paths, name : Names, change : Changes, location : Locations]
Checksum == [change : Changes, location : Locations]

VARIABLES
    source, name,  \* how many sources, and mutators of this source, are done
    seen,          \* seen_stable_ids of this source and mutator
    offers,        \* the viable mutations yielded so far, with their mutators
    candidates,    \* the candidates, each with its place in the plan
    stage,         \* "collecting", "collected", "deduplicated" or "selected"
    selection,     \* what --run-mutant-id found
    disabled,      \* <<mutator, source, range>> the source filters exclude
    changed,       \* <<source, line>> of the Git selection
    blacklist      \* the checksums of the blacklist files

scope == <<disabled, changed, blacklist>>
vars == <<source, name, seen, offers, candidates, stage, selection,
          disabled, changed, blacklist>>

Offer == [mutation : Mutation, name : Names]
Candidate == [mutation : Mutation, name : Names, id : Id, at : Nat]

IdOf(m, n, l) ==
    [path |-> PathOf[m.source], name |-> n, change |-> ChangeOf[m], location |-> l]
ChecksumOf(m, l) == [change |-> ChangeOf[m], location |-> l]

-----------------------------------------------------------------------------
InitWith(D, C, B) ==
    /\ source = 1
    /\ name = 1
    /\ seen = {}
    /\ offers = <<>>
    /\ candidates = {}
    /\ stage = "collecting"
    /\ selection = "none"
    /\ disabled = D
    /\ changed = C
    /\ blacklist = B

Init ==
    \E D \in SUBSET (Names \X Sources \X Ranges), C \in SUBSET (Sources \X Lines),
       B \in SUBSET Checksum : InitWith(D, C, B)

\* The filter, the Git selection and the blacklist, in this order.
Excluded(m, n, l) ==
    \/ <<n, m.source, m.range>> \in disabled
    \/ <<m.source, LineOf[<<m.source, m.range>>]>> \notin changed
    \/ ChecksumOf(m, l) \in blacklist

\* Mistake: only the candidates of the plan reserve their evidence.
ConsiderKept(m) ==
    /\ stage = "collecting"
    /\ source <= Len(Order) /\ name <= Len(Registry)
    /\ m.source = Order[source]
    /\ m \in Viable
    /\ Len(offers) < MaxOffers
    /\ offers' = Append(offers, [mutation |-> m, name |-> Registry[name]])
    /\ LET n == Registry[name]
           base == IdOf(m, n, NoRange)
           location == IF base \in seen THEN m.range ELSE NoRange
       IN  IF Excluded(m, n, location)
           THEN UNCHANGED <<seen, candidates>>
           ELSE /\ seen' = seen \cup {base}
                /\ candidates' = candidates \cup
                     {[mutation |-> m, name |-> n, id |-> IdOf(m, n, location),
                       at |-> Len(offers) + 1]}
    /\ UNCHANGED <<source, name, stage, selection, scope>>

\* Mistake: repeated evidence keeps the identity of its first occurrence.
ConsiderUnlocated(m) ==
    /\ stage = "collecting"
    /\ source <= Len(Order) /\ name <= Len(Registry)
    /\ m.source = Order[source]
    /\ m \in Viable
    /\ Len(offers) < MaxOffers
    /\ offers' = Append(offers, [mutation |-> m, name |-> Registry[name]])
    /\ LET n == Registry[name]
       IN  IF Excluded(m, n, NoRange)
           THEN UNCHANGED candidates
           ELSE candidates' = candidates \cup
                  {[mutation |-> m, name |-> n, id |-> IdOf(m, n, NoRange),
                    at |-> Len(offers) + 1]}
    /\ UNCHANGED <<source, name, seen, stage, selection, scope>>

\* The loop body of add_mutator_candidates for a mutation that changes the
\* text and parses; others leave no trace.
Consider(m) ==
    /\ stage = "collecting"
    /\ source <= Len(Order) /\ name <= Len(Registry)
    /\ m.source = Order[source]
    /\ m \in Viable
    /\ Len(offers) < MaxOffers
    /\ offers' = Append(offers, [mutation |-> m, name |-> Registry[name]])
    /\ LET n == Registry[name]
           base == IdOf(m, n, NoRange)
           location == IF base \in seen THEN m.range ELSE NoRange
       IN  /\ seen' = seen \cup {base}
           /\ candidates' =
                IF Excluded(m, n, location)
                THEN candidates
                ELSE candidates \cup
                       {[mutation |-> m, name |-> n, id |-> IdOf(m, n, location),
                         at |-> Len(offers) + 1]}
    /\ UNCHANGED <<source, name, stage, selection, scope>>

\* The mutator has no more mutations: the next mutator, or the next source.
NextMutator ==
    /\ stage = "collecting"
    /\ source <= Len(Order) /\ name <= Len(Registry)
    /\ name' = name + 1
    /\ seen' = {}
    /\ UNCHANGED <<source, offers, candidates, stage, selection, scope>>

NextSource ==
    /\ stage = "collecting"
    /\ source <= Len(Order) /\ name > Len(Registry)
    /\ source' = source + 1
    /\ name' = 1
    /\ UNCHANGED <<seen, offers, candidates, stage, selection, scope>>

Collected ==
    /\ stage = "collecting"
    /\ source > Len(Order)
    /\ stage' = "collected"
    /\ UNCHANGED <<source, name, seen, offers, candidates, selection, scope>>

\* Mistake: the key of the set leaves the replacement out.
DeduplicateRanges ==
    /\ stage = "collected"
    /\ candidates' = {c \in candidates : \A d \in candidates :
          d.mutation.source = c.mutation.source /\ d.mutation.range = c.mutation.range
              => c.at <= d.at}
    /\ stage' = "deduplicated"
    /\ UNCHANGED <<source, name, seen, offers, selection, scope>>

\* deduplicate_candidates: of equal mutations the first one stays.
Deduplicate ==
    /\ stage = "collected"
    /\ candidates' = {c \in candidates : \A d \in candidates :
                          d.mutation = c.mutation => c.at <= d.at}
    /\ stage' = "deduplicated"
    /\ UNCHANGED <<source, name, seen, offers, selection, scope>>

\* selected_mutation_plan with a mutant ID.
Select(id) ==
    LET found == {c \in candidates : c.id = id}
    IN  /\ stage = "deduplicated"
        /\ stage' = "selected"
        /\ IF found = {}
           THEN selection' = "missing" /\ UNCHANGED candidates
           ELSE IF \E c \in found : found = {c}
           THEN selection' = "one" /\ candidates' = found
           ELSE selection' = "ambiguous" /\ UNCHANGED candidates
        /\ UNCHANGED <<source, name, seen, offers, scope>>

Next ==
    \/ \E m \in Mutation : Consider(m)
    \/ NextMutator
    \/ NextSource
    \/ Collected
    \/ Deduplicate
    \/ \E id \in Id : Select(id)

Spec == Init /\ [][Next]_vars

-----------------------------------------------------------------------------
TypeOK ==
    /\ source \in 1 .. Len(Order) + 1
    /\ name \in 1 .. Len(Registry) + 1
    /\ seen \subseteq Id
    /\ offers \in Seq(Offer)
    /\ Len(offers) <= MaxOffers
    /\ candidates \subseteq Candidate
    /\ stage \in {"collecting", "collected", "deduplicated", "selected"}
    /\ selection \in {"none", "missing", "one", "ambiguous"}
    /\ disabled \subseteq Names \X Sources \X Ranges
    /\ changed \subseteq Sources \X Lines
    /\ blacklist \subseteq Checksum

\* The sources of the plan have different names.
PathsDiffer == \A s, t \in Sources : PathOf[s] = PathOf[t] => s = t

\* Each ID in a plan names one mutant, so that --run-mutant-id finds it and a
\* baseline entry accepts one escaped mutant, not several.
IdNamesOneMutant ==
    stage \in {"deduplicated", "selected"} =>
        \A c, d \in candidates : c.id = d.id => c = d

\* The ID of a candidate is the one it has in a plan without any filter: a
\* filter, a Git selection or a blacklist entry renames no other mutant, so
\* baselines and IDs written down before remain valid.
SameEvidence(o, p) ==
    /\ o.name = p.name
    /\ o.mutation.source = p.mutation.source
    /\ ChangeOf[o.mutation] = ChangeOf[p.mutation]

Repeated(k) == \E j \in 1 .. k - 1 : SameEvidence(offers[j], offers[k])

UnfilteredId(k) ==
    IdOf(offers[k].mutation, offers[k].name,
         IF Repeated(k) THEN offers[k].mutation.range ELSE NoRange)

FiltersRenameNothing == \A c \in candidates : c.id = UnfilteredId(c.at)

\* Nothing is planned twice and nothing is lost: of the offers of one mutation
\* that nothing excludes exactly the first one is in the final plan.
Allowed(k) ==
    ~Excluded(offers[k].mutation, offers[k].name, UnfilteredId(k).location)

PlanIsExact ==
    stage = "deduplicated" =>
        {c.at : c \in candidates} =
            {k \in 1 .. Len(offers) : Allowed(k) /\ \A j \in 1 .. k - 1 :
                ~(Allowed(j) /\ offers[j].mutation = offers[k].mutation)}
=============================================================================
