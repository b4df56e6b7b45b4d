---------------------------- MODULE MCPreparation ----------------------------
(***************************************************************************)
(* TLC instances of the components that prepare a run.  They decide one    *)
(* after the other what is mutated and with which tests: source discovery  *)
(* and its Cargo targets, the source filters, the Git selection, the merge *)
(* of ranges they share, the plan, and coverage.  Then they make the place *)
(* where the tests run: temporary areas, the copy of the workspace, clones *)
(* of a built area, and beside them the progress line.  A behaviour takes  *)
(* one of them through its steps; the variables of the others rest.        *)
(***************************************************************************)
EXTENDS MCMutationPlan, MCDiscovery, MCCargoTargets, MCSourceFilters,
        ChangedLines, CoverageSelection,
        TemporaryAreas, MCWorkspaceCopy, MCWarmClones, Progress

VARIABLE part   \* the component this behaviour is about

-----------------------------------------------------------------------------
\* Changed lines: a name with a space and a quoted one.  One target lies in no
\* repository, one in a repository nested in that of the third.

TwoFiles == {<<120, 32>>, <<1, 49>>}
TwoRepositories == {<<"r">>, <<"r", "n">>}
ThreeSeeds == <<<<"o">>, <<"r", "n", "src">>, <<"r", "src">>>>
BothSources == {<<"r", "n", "src">>, <<"r", "src">>}

-----------------------------------------------------------------------------
\* Coverage: two packages with four tests, one of documentation and one of a
\* target with a required feature among them, and a source outside.

MCPackages == <<"p", "q">>
MCTestsOf(p) == IF p = "p" THEN {"t", "doc", "gated"} ELSE {"u"}
MCSpots == {[package |-> "p", source |-> "p.rs", line |-> 1],
            [package |-> "q", source |-> "q.rs", line |-> 1]}
MCProfiled == <<[source |-> "p.rs", place |-> "copy"],
                [source |-> "std", place |-> "outside"],
                [source |-> "q.rs", place |-> "copy"]>>

\* The mutant is in the first package, as are the lines that the two special
\* tests execute.
MCCoverageInit ==
    /\ CoverageInit
    /\ world.mutant.package = "p"
    /\ \A t \in Unlisted : world.hits[t] \subseteq {world.mutant}

-----------------------------------------------------------------------------
\* Temporary areas: two threads of one process and one of another with the
\* same number.  Progress: two states that are counted.

MCProcessOf(t) == IF t \in {"a1", "a2"} THEN "a" ELSE "b"
MCNumberOf(p) == 7

MCCounted == <<"killed", "escaped">>

-----------------------------------------------------------------------------
\* The values at which a component rests.

DiscoveryRests ==
    /\ tree = [answers |-> FALSE] /\ asked = <<>> /\ taken = 0
    /\ collected = {} /\ ended = "no"
CargoRests ==
    /\ cargo = <<>> /\ phase = "check" /\ directory = 0
    /\ target = NoTarget /\ settings = <<>>
FilterRests ==
    /\ items = <<>> /\ gates = <<>> /\ policy = <<>> /\ comments = <<>> /\ unread = <<>>
    /\ switchedOff = <<>> /\ excluded = <<>> /\ filter = "building"
RangesRest == given = <<>> /\ rest = <<>> /\ merged = <<>>
DiffRests ==
    /\ step = "root" /\ found = "none" /\ base = "unset" /\ verdict = "none"
    /\ git = <<>> /\ reader = <<>>
    /\ ranges = [f \in Files |-> <<>>] /\ added = [f \in Files |-> {}]
CoverageRests ==
    /\ world = <<>> /\ covStep = "list" /\ jobs = <<>> /\ records = <<>> /\ lcov = <<>>
    /\ short = FALSE /\ normal = {} /\ perTest = {} /\ tests = <<>> /\ result = "none"
PlanRests == InitWith({}, {}, {})
AreasRest ==
    /\ used = <<>> /\ tries = <<>> /\ maker = <<>>
    /\ doing = [t \in Threads |-> "idle"] /\ held = [t \in Threads |-> NoName]
    /\ kept = {} /\ stuck = {} /\ orphans = {} /\ kills = 0 /\ failures = 0
CopyRests ==
    /\ disk = <<>> /\ copying = "rests"
    /\ roots = {} /\ manifests = {} /\ builds = {} /\ pending = <<>>
    /\ inspected = {} /\ toRead = {} /\ configs = {} /\ area = {}
    /\ rewritten = {} /\ broken = FALSE
ClonesRest ==
    /\ layout = "rests" /\ cloning = [w \in Cloners |-> "none"]
    /\ place = <<>> /\ names = <<>> /\ builder = <<>> /\ lock = <<>>
ProgressRests ==
    /\ counter = <<>> /\ finished = <<>> /\ snapshot = <<>> /\ index = 0
    /\ line = Clear /\ ticker = "none" /\ monitor = "none"

Parts == {"discovery", "cargo", "filter", "ranges", "diff", "coverage", "plan",
          "areas", "copy", "clones", "progress"}

PreparationInit ==
    /\ part \in Parts
    /\ IF part = "discovery" THEN DiscoveryInit ELSE DiscoveryRests
    /\ IF part = "cargo" THEN CargoInit ELSE CargoRests
    /\ IF part = "filter" THEN FilterInit ELSE FilterRests
    /\ IF part = "ranges" THEN MergeInit ELSE RangesRest
    /\ IF part = "diff" THEN DiffInit ELSE DiffRests
    /\ IF part = "coverage" THEN MCCoverageInit ELSE CoverageRests
    /\ IF part = "plan" THEN MCInit ELSE PlanRests
    /\ IF part = "areas" THEN TempInit ELSE AreasRest
    /\ IF part = "copy" THEN CopyInit ELSE CopyRests
    /\ IF part = "clones" THEN CloneInit ELSE ClonesRest
    /\ IF part = "progress" THEN ProgressInit ELSE ProgressRests

\* The component the behaviour is about takes a step.
Active ==
    \/ part = "discovery" /\ DiscoveryNext
    \/ part = "cargo" /\ CargoNext
    \/ part = "filter" /\ FilterNext
    \/ part = "ranges" /\ Merge
    \/ part = "diff" /\ DiffNext
    \/ part = "coverage" /\ CoverageNext
    \/ part = "plan" /\ Next
    \/ part = "areas" /\ TempNext
    \/ part = "copy" /\ CopyNext
    \/ part = "clones" /\ CloneNext
    \/ part = "progress" /\ ProgressNext

\* The others rest.
Idle ==
    /\ IF part = "discovery" THEN TRUE ELSE UNCHANGED sourceVars
    /\ IF part = "cargo" THEN TRUE ELSE UNCHANGED cargoVars
    /\ IF part = "filter" THEN TRUE ELSE UNCHANGED filterVars
    /\ IF part = "ranges" THEN TRUE ELSE UNCHANGED rangeVars
    /\ IF part = "diff" THEN TRUE ELSE UNCHANGED diffVars
    /\ IF part = "coverage" THEN TRUE ELSE UNCHANGED covVars
    /\ IF part = "plan" THEN TRUE ELSE UNCHANGED vars
    /\ IF part = "areas" THEN TRUE ELSE UNCHANGED tempVars
    /\ IF part = "copy" THEN TRUE ELSE UNCHANGED copyVars
    /\ IF part = "clones" THEN TRUE ELSE UNCHANGED cloneVars
    /\ IF part = "progress" THEN TRUE ELSE UNCHANGED progressVars

PreparationNext == Active /\ Idle /\ UNCHANGED part

=============================================================================
