-------------------------- MODULE CoverageSelection --------------------------
(***************************************************************************)
(* Coverage and the tests a mutant gets: src/coverage.rs and the coverage  *)
(* part of src/execution.rs.  Before the mutants are tested, cargo         *)
(* llvm-cov runs once per package or workspace (--coverage), once per      *)
(* test (--per-test), or both; each run leaves an LCOV profile that is     *)
(* read record by record.  With --coverage a mutant on a line no test      *)
(* executes is not tested; with --per-test a mutant gets the tests that    *)
(* execute its line, or the full suite.                                    *)
(*                                                                         *)
(* Cargo, llvm-cov and the tests are the environment: which lines a test   *)
(* executes (hits) and which tests fail on the mutant (killers) is fixed   *)
(* for one behaviour.                                                      *)
(***************************************************************************)
EXTENDS SequencesExt, FiniteSets

CONSTANTS
    Packages,     \* the packages with mutants, in plan order, one workspace
    TestsOf(_),   \* the tests of a package
    Doctests,     \* those of documentation: llvm-cov runs none
    Unlisted,     \* those the list for --per-test leaves out
    Spots,        \* the lines of the sources: [package, source, line]
    Profiled      \* the sources a profile names, in order, as [source, place]

Places == {"copy", "original", "outside", "missing"}

VARIABLES
    world,      \* [recursive, kinds, hits, killers, mutant]: fixed by Init
    covStep,    \* "list", "job", "read", "select", "test" or "done"
    jobs,       \* the llvm-cov runs to come: [scope, test]
    records,    \* the records of the profile being read
    lcov,       \* [source, text, data, lines]: the reader's state
    short,      \* a profile was cut between two records (not in the code)
    normal,     \* CoverageMap: the spots covered
    perTest,    \* PerTestCoverageMap: pairs of a spot and a test
    tests,      \* the commands the mutant still has to pass: tests, or "suite"
    result      \* "none", "NotCovered", "Escaped", "Killed", "Errored" or "failed"

covVars == <<world, covStep, jobs, records, lcov, short, normal, perTest, tests, result>>

AllTests == UNION {TestsOf(p) : p \in Range(Packages)}

\* The tests the mutant's own test command runs.
Suite == IF world.recursive THEN AllTests ELSE TestsOf(world.mutant.package)

NoSource == "no source"

Reader == [source |-> NoSource, text |-> FALSE, data |-> FALSE, lines |-> {}]

\* A mutant's line is in one of the packages, and an instrumented build names
\* its source in every profile, in the copy or where the original is.  No test
\* and no package is called by one of the marks used here.
ASSUME CoverageAssumption ==
    /\ Packages \in Seq(Range(Packages)) /\ "workspace" \notin Range(Packages)
    /\ IsFiniteSet(AllTests) /\ AllTests \cap {"all", "suite"} = {}
    /\ Doctests \subseteq Unlisted
    /\ Profiled \in Seq(Range(Profiled)) /\ \A p \in Range(Profiled) : p.source # NoSource
    /\ IsFiniteSet(Spots)
    /\ \A s \in Spots :
          /\ s.package \in Range(Packages)
          /\ \E p \in Range(Profiled) : p.source = s.source /\ p.place \in {"copy", "original"}

maps == <<normal, perTest>>

-----------------------------------------------------------------------------
(* The runs of llvm-cov.                                                   *)

\* coverage_workspaces: packages of one workspace are one scope when the run
\* is recursive.
Scopes == IF world.recursive THEN <<"workspace">> ELSE Packages

TestsIn(scope) == IF scope = "workspace" THEN AllTests ELSE TestsOf(scope)

\* cargo_test_targets leaves out targets with required features and those
\* that are no library, program, example, test or benchmark; documentation is
\* no target.
Listed(scope) == TestsIn(scope) \ Unlisted

\* collect_coverage: its runs, one per scope, then one per scope and test.
NormalJobs == [n \in DOMAIN Scopes |-> [scope |-> Scopes[n], test |-> "all"]]

TestJobs ==
    FlattenSeq([n \in DOMAIN Scopes |->
        LET listed == SetToSeq(Listed(Scopes[n]))
        IN  [m \in DOMAIN listed |-> [scope |-> Scopes[n], test |-> listed[m]]]])

ListJobs ==
    /\ covStep = "list"
    /\ jobs' = (IF "normal" \in world.kinds THEN NormalJobs ELSE <<>>)
               \o (IF "perTest" \in world.kinds THEN TestJobs ELSE <<>>)
    /\ covStep' = "job"
    /\ UNCHANGED <<world, records, lcov, short, maps, tests, result>>

\* The spots the run of a job executes.
Executed(job) ==
    UNION {world.hits[t] :
              t \in IF job.test = "all" THEN TestsIn(job.scope) \ Doctests ELSE {job.test}}

\* The profile: for each source its name, its lines with their hits, an end.
ProfileOf(job) ==
    LET LinesOf(source) ==
            SetToSeq({[tag |-> "DA", source |-> source, place |-> "copy",
                       spot |-> s, hit |-> s \in Executed(job)] :
                      s \in {x \in Spots : x.source = source}})
        Marker(tag, p) == [tag |-> tag, source |-> p.source, place |-> p.place,
                           spot |-> NoSource, hit |-> FALSE]
    IN  FlattenSeq([n \in DOMAIN Profiled |->
            <<Marker("SF", Profiled[n])>> \o LinesOf(Profiled[n].source)
            \o <<Marker("end", Profiled[n])>>])

\* What a run leaves when the disk is full or a tool breaks off: any part of
\* the text from its start, nothing included.
TornFrom(profile) == {SubSeq(profile, 1, n) : n \in 0 .. Len(profile) - 1}

\* The text ends between two records.
EndsARecord(text) == text = <<>> \/ Last(text).tag = "end"

FailRun ==
    /\ covStep' = "done"
    /\ result' = "failed"

\* One run: llvm-cov or the listing of the tests fails, runs out of time or is
\* interrupted, and with it the mutation run; or it leaves a profile.
RunJob ==
    /\ covStep = "job"
    /\ jobs # <<>>
    /\ LET whole == ProfileOf(Head(jobs))
       IN  \/ /\ records' \in {whole} \cup TornFrom(whole)
              /\ short' = (short \/ (records' # whole /\ EndsARecord(records')))
              /\ covStep' = "read"
              /\ lcov' = Reader
              /\ UNCHANGED result
           \/ FailRun /\ UNCHANGED <<records, lcov, short>>
    /\ UNCHANGED <<world, jobs, maps, tests>>

\* parse_lcov_record.  A source that cannot be resolved, a source inside
\* another's record and a line outside any are errors.
ReadRecord ==
    /\ covStep = "read"
    /\ records # <<>>
    /\ records' = Tail(records)
    /\ LET r == Head(records)
       IN  \/ /\ r.tag = "SF" /\ lcov.source = NoSource /\ r.place # "missing"
              /\ lcov' = [lcov EXCEPT !.source = r.source, !.text = TRUE]
              /\ UNCHANGED <<covStep, result>>
           \/ /\ r.tag = "SF" /\ (lcov.source # NoSource \/ r.place = "missing")
              /\ FailRun /\ UNCHANGED lcov
           \/ /\ r.tag = "DA" /\ lcov.source # NoSource
              /\ lcov' = [lcov EXCEPT !.data = TRUE,
                             !.lines = IF r.hit THEN @ \cup {r.spot} ELSE @]
              /\ UNCHANGED <<covStep, result>>
           \/ /\ r.tag = "end" /\ lcov.source # NoSource
              /\ lcov' = [lcov EXCEPT !.source = NoSource]
              /\ UNCHANGED <<covStep, result>>
    /\ UNCHANGED <<world, jobs, short, maps, tests>>

\* restore_workspace_paths keeps the sources that are in the copy or in the
\* user's workspace.
Restored(lines) ==
    {s \in lines : \E n \in DOMAIN Profiled :
        Profiled[n].source = s.source /\ Profiled[n].place \in {"copy", "original"}}

\* Mistake: the end of the text is taken for the end of the record.
EndProfileUnchecked ==
    /\ covStep = "read"
    /\ records = <<>>
    /\ IF Head(jobs).test = "all"
       THEN normal' = normal \cup Restored(lcov.lines) /\ UNCHANGED perTest
       ELSE /\ perTest' = perTest \cup (Restored(lcov.lines) \X {Head(jobs).test})
            /\ UNCHANGED normal
    /\ jobs' = Tail(jobs)
    /\ covStep' = "job"
    /\ UNCHANGED <<world, records, lcov, short, tests, result>>

\* The end of the text inside a record, or a text that names sources and no
\* line, is an error; otherwise, and when the text is empty, the profile is
\* added to the map.
EndProfile ==
    /\ covStep = "read"
    /\ records = <<>>
    /\ IF lcov.source # NoSource \/ (lcov.text /\ ~lcov.data)
       THEN FailRun /\ UNCHANGED <<jobs, maps>>
       ELSE /\ IF Head(jobs).test = "all"
               THEN normal' = normal \cup Restored(lcov.lines) /\ UNCHANGED perTest
               ELSE /\ perTest' = perTest \cup (Restored(lcov.lines) \X {Head(jobs).test})
                    /\ UNCHANGED normal
            /\ jobs' = Tail(jobs)
            /\ covStep' = "job"
            /\ UNCHANGED result
    /\ UNCHANGED <<world, records, lcov, short, tests>>

EndCollection ==
    /\ covStep = "job"
    /\ jobs = <<>>
    /\ covStep' = "select"
    /\ UNCHANGED <<world, jobs, records, lcov, short, maps, tests, result>>

-----------------------------------------------------------------------------
(* The mutant.                                                             *)

\* apply_coverage_selection: not covered, the tests that execute the line, or,
\* where none is known, the full suite.
SelectTests ==
    /\ covStep = "select"
    /\ LET own == {t \in AllTests : <<world.mutant, t>> \in perTest}
       IN  \/ /\ "normal" \in world.kinds /\ world.mutant \notin normal
              /\ result' = "NotCovered"
              /\ covStep' = "done"
              /\ UNCHANGED tests
           \/ /\ "normal" \in world.kinds => world.mutant \in normal
              /\ tests' = IF own = {} THEN <<"suite">> ELSE SetToSeq(own)
              /\ covStep' = "test"
              /\ UNCHANGED result
    /\ UNCHANGED <<world, jobs, records, lcov, short, maps>>

Kills(command) ==
    IF command = "suite" THEN Suite \cap world.killers # {} ELSE command \in world.killers

\* run_selected_cargo_tests: the first command that does not pass decides.
RunTest ==
    /\ covStep = "test"
    /\ tests' = Tail(tests)
    /\ \/ /\ ~Kills(Head(tests))
          /\ IF Len(tests) > 1 THEN UNCHANGED <<covStep, result>>
             ELSE covStep' = "done" /\ result' = "Escaped"
       \/ Kills(Head(tests)) /\ covStep' = "done" /\ result' = "Killed"
       \/ covStep' = "done" /\ result' = "Errored"
    /\ UNCHANGED <<world, jobs, records, lcov, short, maps>>

\* Each test executes some of the spots; only tests that execute the mutant
\* can fail on it.
CoverageInit ==
    /\ world \in [recursive : BOOLEAN, kinds : SUBSET {"normal", "perTest"},
                  hits : [AllTests -> SUBSET Spots], killers : SUBSET AllTests,
                  mutant : Spots]
    /\ \A t \in world.killers : world.mutant \in world.hits[t]
    /\ covStep = "list"
    /\ jobs = <<>>
    /\ records = <<>>
    /\ lcov = Reader
    /\ short = FALSE
    /\ normal = {}
    /\ perTest = {}
    /\ tests = <<>>
    /\ result = "none"

CoverageNext ==
    \/ ListJobs \/ RunJob \/ ReadRecord \/ EndProfile \/ EndCollection
    \/ SelectTests \/ RunTest

CoverageSpec == CoverageInit /\ [][CoverageNext]_covVars

-----------------------------------------------------------------------------

\* The tests coverage cannot see: llvm-cov runs no documentation, and what is
\* not listed is not selected.
Unseen ==
    (IF "normal" \in world.kinds THEN Doctests ELSE {})
    \cup (IF "perTest" \in world.kinds THEN Unlisted ELSE {})

\* Unless a profile was cut between two records, a mutant is left as escaped or
\* not covered only when each test of its full suite that coverage can see would
\* let it escape too, and a mutant is killed only by a test that fails on it: no
\* profile cut inside a record, read for the wrong test or merged from several
\* packages, and no selection, hides such a test.
CoverageLosesNoKill ==
    /\ result \in {"Escaped", "NotCovered"} /\ ~short =>
         (Suite \cap world.killers) \subseteq Unseen
    /\ result = "Killed" => world.killers # {}
=============================================================================
