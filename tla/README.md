# Mutarust: a verification project

Mutarust is a mutation tester for Rust. It plans small edits (mutants) of a
crate's sources, runs the crate's tests on each of them in a private copy of
the workspace, and reports which ones no test notices. This directory holds
TLA+ models of the parts of it that carry state, concurrency or arithmetic,
the TLC configurations that check them on small instances, and proofs that
TLAPS checks for every value of their constants.

Each module begins with a comment that names the functions it models. Beside
some definitions there are others marked `Mistake:`. They are plausible bugs;
they take no part in a specification. Replacing the definition that follows by
its mistaken form must make a property fail, so they show that the property
can tell the two apart. `PROJECT.json` lists which is meant for which.

## 1. Inventory

One command is one process. `main.rs` parses the command line, loads the
baseline, merges the configuration and calls
`run_mutation_tests_with_controls` in `execution.rs`, which takes a
process-wide lock, installs a SIGINT handler, discovers the sources, plans the
candidates, collects coverage, tests the clean workspaces, runs the candidates
on worker threads and returns the results. `main.rs` then writes a baseline, or
prints, writes reports and applies the gates.

| Component | State | Operations | Hard part | What makes it correct |
| --- | --- | --- | --- | --- |
| Mutation workers (`execution.rs` 1085-1270) | queue, per-thread results, interrupt flag | take, test, stop, join, sort | interleaving, panic, interrupt | a successful run has every verdict once, in plan order |
| Mutation areas (2804-2990, 3186-3196, 4270-4530) | copied workspace, the dirty source, clean-suite builds | claim, write, restore, reset, drop | long sequences in one area, failing file operations | tests see exactly one mutation; areas are private, but for what clones link, and removed |
| Clones of a build (3880-4290) | entries copied or linked, build lock | clone, remap, build | an entry on the wrong side of copy and link | tests run the build of their own tree |
| Test command (3200-3490) | child process and its group, poll interval, deadline | spawn, poll, stop, reap, drop | timeout against late end, failing system calls, reused process numbers | an end during a sleep is no timeout, nothing survives a stop, the wait ends |
| Run session (28-33, 585-661, 1271-1281, 1790-1870) | run lock, interrupt flag, SIGINT handler | lock, install, stages, restore | two runs in one process, SIGINT at any time, panics | only the lock's holder touches flag and handler |
| Mutation plan and evidence (`execution.rs` 1880-1970, 2690-2800, `evidence.rs`, `blacklist.rs`) | seen IDs, candidates, used checksums | collect, filter, deduplicate, order, select | order of insertion and filtering | an ID names one mutant, filters rename nothing |
| Scores and gates (`execution.rs` 58-136, `main.rs` 964-1041) | result counts | score, gate | rounding at the boundary, zero denominators | no missed minimum passes, no reached one fails |
| Command and baseline (`main.rs` 632-850, `baseline.rs`) | baseline file, accepted IDs | load, run, update, report, gate | killed half way through a write, edits between steps, selections of mutants | only recorded escapes pass, an update settles |
| Command line, configuration and registry (`main.rs`, `configuration.rs`, `mutator.rs`) | options read, merged policy | read, check, merge, select | dozens of options, precedence, enable against disable | an accepted option takes effect, the command line overrides the file |
| Git changed lines (`git.rs`) | parser position, ranges | find the base, parse, merge, look up | content that looks like a header, quoted names, empty hunks | exactly the added lines are selected |
| Source filters (`filter.rs`) | ranges, annotations | collect, normalise, look up | half-open bounds, nested items and functions | no excluded byte is mutated, no other is lost |
| Coverage (`coverage.rs`, `execution.rs` 664-1050) | line maps, tests per line | run, parse LCOV, merge, select | torn profiles, copied paths, tests of several packages | no test that would kill is left out |
| Discovery (`discovery.rs`) | the walk's visited files | resolve targets, walk modules and directories | one file in several roles, cycles, configurations that include each other | production code is found, tests are not |
| Workspace copy (`execution.rs` 1975-2680, 3491-4290) | roots, manifests, configurations | find, copy, rewrite, exclude | paths out of the workspace | the copy builds what the original builds |
| Temporary workspaces (4570-4653) | name counter, directories | create, keep, finish, drop | names left by dead processes, failing removal | a directory belongs to one area |
| Progress (`progress.rs`) | counters, stop flag, ticker thread | record, read, draw, stop | ticker against other output | the line is cleared at the end |
| Reports (`report/`) | none | render, write | escaping, relative paths | each lists the results of the run |
| Mutators (`value.rs`, `expression.rs`, `control_flow.rs`, `return_value.rs`, ...) | none | visit, propose | syntax | a proposed edit parses |

Components interact by calls within one thread, apart from these: the workers
share the queue (a mutex), the clean-suite builds (a mutex), Cargo's lock file
where their clones link it, the progress counters and the interrupt flag
(atomics); the ticker shares the counters; the signal handler sets the flag;
commands share the baseline file and the temporary directory.

`PROJECT.json` lists every hazard found in this survey at its line, with the
properties that cover it, or why none does.

## 2. Modules

| Module | Models | Built on |
| --- | --- | --- |
| `RunContract` | what a caller of `test_candidates` may rely on: one outcome, decided once; success means one genuine verdict per candidate | - |
| `WorkerPool` | queue, threads, sequential path, interrupt, panic, join | refines `RunContract` |
| `MutationWorkers` | the pool together with areas, clean-suite builds and the file operations of each candidate | EXTENDS `WorkerPool`, refines its `FairSpec` |
| `WarmClones` | what a clone of a build copies and links, and the builds that follow | - |
| `ProcessWait` | one test command, its process group and the thread that waits | - |
| `RunSession` | the lock, the flag and the handler around the stages of a run | - |
| `MutationPlan` | collection of candidates with IDs, filters, blacklist, deduplication, selection of one ID | - |
| `SourceRanges` | the merge and the binary search of ranges | - |
| `ChangedLines` | Git's diff and its reader | EXTENDS `SourceRanges` |
| `SourceFilters` | which positions of a source may be mutated | EXTENDS `SourceRanges` |
| `CoverageSelection` | collection of coverage, the LCOV reader, the tests of a mutant | - |
| `CfgConditions` | when a `cfg` holds, and when it asks for a test build | - |
| `Discovery` | which sources a run mutates | EXTENDS `CfgConditions` |
| `CargoTargets` | the compiler targets that Cargo's configurations name | - |
| `WorkspaceCopy` | what is copied for a workspace, and what is rewritten | - |
| `TemporaryAreas` | directories of several threads and processes | - |
| `Progress` | counters, ticker thread, end of the line | - |
| `Policy` | arguments, configuration file, merge, selection of mutators | - |
| `ScoreGates` | both scores in binary floating point and both gates | - |
| `Invocation` | commands, one after another, on one baseline file | takes the outcome of the score gates as open |
| `*_proofs` | theorems and proofs of the module in their name, `MutationWorkers_proofs` with the help of `WorkerPool_proofs` | EXTENDS the module and `TLAPS` |
| `Selection_proofs` | those of `SourceRanges`, `SourceFilters`, `ChangedLines` and `CoverageSelection` | EXTENDS the four and `ListFacts` |
| `Surroundings_proofs` | those of `RunSession`, `Progress`, `TemporaryAreas`, `WorkspaceCopy`, `WarmClones` and `CargoTargets` | EXTENDS the six and `ListFacts` |
| `Invocation_proofs` | those of `Invocation`, `Policy` and `ScoreGates` | EXTENDS the three and `ListFacts` |
| `ListFacts` | least numbers, the list of a set, the list of a list of lists, recursion over a finite set | - |
| `MC*` | constants for TLC; `MCPreparation` and `MCCommand` put several components into one instance | EXTENDS the module |

How state and actions correspond to the code:

* **WorkerPool.** `queue` is the `Mutex<VecDeque<IndexedCandidate>>`; `Take` is
  `next_candidate`, `Start` the look at the interrupt flag after it, `Finish`
  the call of `test_candidate` and the push of its result, `Recheck` the look at
  the flag after that, `Conclude` the join, the first error and the sort by
  index. `collected[t]` dies with a thread that panics. The sequential path
  (one worker or a custom command) is the same loop in the calling thread.
* **MutationWorkers.** `tree[a]` is the content of a temporary workspace,
  `scratch[t]` the `WorkerScratch` of a thread with its `dirty` source, `warm`
  the map of `WarmBuilds`. The pool's `Finish` is refined into preparing,
  writing, testing and resetting. A file is abstracted to the set of mutations
  applied to it, so "the mutant and nothing else" is a set equation. A source
  below a directory named `target` (`BelowTarget`) is a link to the clean-suite
  build in a clone (`Shared`), and `Text` and `Written` read and write through
  it. `ResetArea` keeps what lies in Cargo's own `target`, as the code does on
  purpose. The properties are about the sources that are a worker's own
  (`Private`).
* **WarmClones.** `place[w][e]` says in which area an entry of a worker's
  target directory really is: in its own when `clone_target_profile` and its
  kin copy it, in the template's when they link it. `CratePrefixes` and
  `IsCrateEntry` are the code's prefix test on names, over words and
  separators. `layout` says whether Cargo builds for the host, in
  `target/<profile>`, or for a target it was given, in
  `target/<triple>/<profile>`; there the code takes the triple for a profile,
  and the profile is an entry that is linked as a whole. `StartBuild` needs
  the lock at the place where the worker's lock file really is.
* **ProcessWait.** `leader` and `others` are the process group; `active` is
  `ProcessChild::active`; the poll interval doubles up to its bound and the
  last sleep is cut to the deadline. A unit of time is 5 ms. `Tick` is possible
  between any two steps of the thread, so a sleep may overrun and the deadline
  may pass between the look for the end (3418) and the look at the clock (3425).
* **RunSession.** `stage[c]` is where the caller's thread is in
  `run_mutation_tests_with_controls`; leaving a stage by error or panic runs the
  drops of the guards in reverse order of their declaration.
* **MutationPlan.** `Consider` is one turn of the innermost loop of candidate
  collection, in the code's order: syntax check, base ID, insertion into the
  seen set, filter, location-specific ID, changed lines, blacklist. MD5 is
  taken to be injective. Sources that are skipped or do not parse offer no
  mutation. Two assumptions about data are named: `UniqueAssumption` (no source
  and no mutator twice) and `EvidenceAssumption` (edits of one range with
  different replacements change the text differently).
* **SourceRanges.** `Merge` is one turn of the loop in `normalize_ranges` and
  of that in `merge_ranges`; an inclusive range of lines is written half-open.
  `Overlaps` is the binary search of `range_overlaps_any`.
* **ChangedLines.** `FindRoot` to `RunDiff` are the Git commands of
  `ChangedLines::load`, each of which may fail. Git then writes the diff, one
  line per action (`WriteFile`, `WriteOld`, `WriteNew`, `WriteHunk`,
  `WriteMinus`, `WritePlus`), and `Read` is what `parse_changed_lines` does
  with that line. A body line may have the tag of a header. Names are bytes, so
  quoting and `Unquoted` are conversions and not the identity. A diff that is
  not UTF-8 is an error of `RunDiff`. `EndOfDiff` merges the ranges,
  `ValidateSources` is the look at each source: it has to lie below the root of
  the repository found, so one in a nested repository passes.
* **SourceFilters.** A source is a tree of items over a few positions.
  `Visited` says which items the visitors of `filter.rs` reach,
  `GatedRanges` and `Normalized` give the ranges, `ReadComment` reads one
  annotation, `FinishFilter` builds the ranges once (`excluded`), and
  `AllowsMutation` is `allows_mutation` with its searches in them. The
  property compares it with the set of positions that an ancestor excludes.
* **CoverageSelection.** `RunJob` is one run of `cargo llvm-cov` and leaves a
  profile that may be torn; `ReadRecord` reads one LCOV record, `EndProfile`
  checks and merges it with paths restored to the workspace, `SelectTests` and
  `RunTest` are `select_tests` and the commands that follow. Which test runs
  which line, and which fails on the mutant, is fixed by the environment.
  `world.kinds` has `--coverage`, `--per-test`, both or neither. Documentation
  tests run in no coverage (`Doctests`), and tests of targets with required
  features are in no list (`Unlisted`). An empty profile is accepted, and so is
  one cut between two records; `short` remembers that this happened.
* **Discovery.** A tree is a set of files with the modules, includes, `path`
  attributes and conditions they hold. One step collects one target: a file, a
  directory or a package, with the walks over production, test-only and
  inactive modules as operators (`ProductionPlaces`, `TestOnlyPlaces`,
  `InactivePlaces`, and `WalkOf` for their closure). `CfgConditions` has the conditions with
  their rule for flags nobody knows.
* **CargoTargets.** `CheckDirectory` follows the includes of one directory's
  configuration and finds missing files and cycles, `ReadDirectory` merges its
  `build.target`, `AskHost` and `AskTargets` ask `rustc` about the result. The
  set `active` of `Checked` and `ReadTarget` is `active_paths`, the files on
  the way to the one that is read; both are recursive functions of a file and
  that set. `Refused` stands for the error of a merge.
* **WorkspaceCopy.** `FindConfigurations` to `AddConfigurationPaths` are
  `workspace_from_metadata` with one action per turn of a loop
  (`ReadConfiguration`, `PopDependency`, `InspectManifests`); `CopyFiles` leaves
  the excluded roots out, `RewriteConfigurations` and `RewriteManifests` rewrite
  absolute paths. A disk lists files and the references each holds; `IsWorld`
  is what every disk has: paths are sequences of names, there are finitely many
  references, `cargo metadata` answers where there is a manifest. What a build
  reads (`ReachedManifests`) is not computed as the code computes it, but is
  the smallest set of manifests that holds those of the workspace and that no
  path dependency or patch leaves. What the code does not do is named:
  `IsOverlooked` is a path into a directory that stays behind, as that of a
  runner in a package's own `.cargo`, and a path of `workspace.members` or
  `package.workspace` (`WorkspaceKinds`) that is absolute or leads to where no
  other path does; a package that only a configuration leads to is copied
  without what its manifest leads to (`execution.rs:2030`).
* **TemporaryAreas.** `TryName` is one turn of the loop in
  `TemporaryWorkspace::create`, `Keep`, `Finish` and `Drop` are the methods,
  `KillProcess` ends a process with its directories left, `Restart` begins
  another. `NumberOf` lets two processes have one number.
* **Progress.** A snapshot reads the counters one at a time (`ReadCounter`), so
  a line may show counts of different moments. `StopMonitor` and `JoinTicker`
  are the drop of `ProgressMonitor`.
* **Policy.** Each argument is an action; `EndArguments` holds the tables of
  options that exclude each other, `ReadFile` the validation of the file,
  `ApplySettings` the merge, `SelectMutators` the registry. A mutator's name is
  a sequence of words, so that group patterns are prefixes.
* **ScoreGates.** `Percentage` computes quotient and product, each rounded to
  `Precision` significant bits, ties to even, in integers.
* **Invocation.** `pc` walks through `start_mutation_run` and
  `finish_mutation_run`. `Truncate` and `Write` are the two effects of
  `fs::write`. `recorded`, `settled`, `settledScope` and `fresh` are history
  variables that no action reads to decide anything but their own values.

## 3. Runs

| Run | Instance | Question and answer |
| --- | --- | --- |
| `pool_parallel` | 2 threads, 4 candidates | Safety of the pool, and that it implements `RunContract` with termination. Holds. |
| `areas_parallel` | 2 threads, 4 candidates, 3 sources in 2 workspaces, one of them below a directory named `target`, no fault | In the sources that are its own each test sees one mutant; implements the pool. Holds. |
| `areas_one_fault` | sequential path, 4 candidates, 3 sources in 2 workspaces, one failing operation anywhere | No test runs with two mutations; only an area whose removal failed stays; implements the pool. Holds. |
| `areas_reset_fails` | sequential path, 2 candidates, one failing operation | `TestsSeeOneMutant` with a fault: violated (finding 1). |
| `process_wait` | timeout 9, interval up to 4, clock up to 11, 3 faults | An end during a sleep is no timeout, signals reach only the command, nothing survives a stop, the wait ends. Holds. |
| `run_session` | 2 callers, 6 kinds of controls | Guarding of flag and handler, and that every run returns. Holds. |
| `preparation` | eleven components, below | What decides on the mutants of a run and makes the place where they are tested. 17 properties hold. |
| `command` | three components, below | What a command makes of its arguments, its results and its baseline. 7 properties hold. |
| `plan_two_packages` | 2 sources of one relative path | `IdNamesOneMutant`: violated (finding 2). |
| `score_equal` | up to 50 results, minimum 58 | `EqualScorePasses`: violated (finding 3). |
| `clones_share_lock` | 2 workers | `WorkersBuildApart`: violated (finding 4). |
| `sources_below_examples` | a workspace below `examples` | `BroadTargetsLeaveTestsOut`: violated (finding 5). |

In `preparation` and `command` the variable `part` names the component a
behaviour is about. That component takes its own steps from its own initial
states, the others rest at fixed values, so the states of the run are the sum
of the states of the components and not their product. These components share
no state in the code either: each hands its result to the next.

| Component | Instance in `preparation` or `command` | Properties |
| --- | --- | --- |
| `Discovery` | a workspace of two packages; modules, inline modules, `path` attributes and includes under twelve conditions; trees in which the packages share files, tests name another package's file, an include is no Rust file or is included twice, and what is inactive lies below an include; files, directories and packages as targets, also when `cargo metadata` does not answer | `ProductionIsCollected`, `OnlyBuiltModulesAreCollected` |
| `CargoTargets` | configurations of two directories and Cargo's home, with includes that are missing, optional, unreadable, shared or cyclic, and a target in the environment | `OnlyFaultsAreRefused`, `TargetsFollowCargo` |
| `SourceFilters` | positions 0..6 on 3 lines, three trees of items with up to two gated ones, annotations, options | `FilterIsExact` |
| `SourceRanges` | every 3 ranges within 0..6 | `MergeIsExact` |
| `ChangedLines` | 2 files, one with a space in its name and one with a quoted name, 4 lines, a target in no repository, 2 nested repositories | `ChangedLinesAreExact` |
| `CoverageSelection` | 2 packages, 4 tests, one of documentation and one unlisted, one source outside, both kinds of coverage | `CoverageLosesNoKill` |
| `MutationPlan` | 2 mutators, 2 ranges, 2 replacements, 4 offers | `IdNamesOneMutant`, `FiltersRenameNothing`, `PlanIsExact` |
| `TemporaryAreas` | 3 threads in 2 processes of one number, 2 attempts, 3 names, 1 kill, 1 failing call | `AreaHasOneHolder`, `LeftoversAreExplained` |
| `WorkspaceCopy` | seven packages: members, workspace paths, path dependencies in and out of the workspace, a patch, dependencies that share a directory, included configurations, an include that is a directory, runners inside and outside, absolute paths, missing files | `CopyIsClosed`, `SoundWorkspaceIsCopied` |
| `WarmClones` | 2 workers, 4 crates, entries of other packages and of Cargo, both layouts | `TestsRunOwnBuild` |
| `Progress` | 2 counted states, 2 mutants | `OutputIsClean` |
| `Policy` | every three options and patterns in any order, good and bad files | `AcceptedOptionsTakeEffect`, `SelectionFollowsPolicy` |
| `ScoreGates` | up to 50 results, percentages | `GatesFollowScores` |
| `Invocation` | 2 mutants, 1 report | `OnlyRecordedEscapesPass`, `UpdateSettles`, `UpdateForgetsKilled`, `TornBaselineStops` |

### Bounds, and why they are enough

* Two threads: every pair of steps of two workers occurs; a third thread adds
  no shared object. Four candidates let both threads take one, take another and
  find the queue empty. With areas, three or four candidates over two sources
  give the sequences same source, other source, back to the first.
* `MaxFaults` bounds failing file operations or system calls. The properties
  state for which number they hold; `areas_reset_fails` shows that none is the
  number for `TestsSeeOneMutant`. `process_wait` allows three because a stop
  has three calls that can fail, and a drop follows. With two failing kills the
  wait for the process may last as long as the command, so `WaitEnds` claims
  something of at most one failing call.
* Timeout 9 with intervals 1, 2, 4 leaves a last sleep of 2 when none overran:
  the case in which the sleep is cut. The clock goes on to 11 (`Horizon`), so a
  deadline can be met exactly or missed by an overrun sleep.
* `Areas` has one directory for each thread and each root, one that a failed
  removal left behind, and one more that is free: `AreasAssumption` asks for no
  more than that a fresh name can always be found, as in the code.
* Three ranges within 0..6: two that are merged and one that must or must not
  join them, empty ones included. The theorems on `SourceRanges` have no bound.
* Two files and four lines: hunks at the start, at the end and next to each
  other, and a file after a file.
* Two attempts with three names and one kill: a name met for the first time, a
  name met again, and an area that gives up.
* A ticker with two counters reads the second after both have changed.
* `ScoreGates` uses 50 results because 58% of 50 is a boundary that rounding
  moves. 13 significant bits decide as the 53 bits of `f64` do for all n out of
  d up to 100 and all whole percentages: the powers of two repeat modulo 100
  with period 20, and 53 is 13 plus twice 20. These 13 bits do not leave the
  room that `ScoresDecide` asks for (`RoomToSpare`), which `f64` does: TLC looks
  at the rounding itself.
* `preparation` has 1,702,848 distinct states; the others are smaller.
* Three options: the tables of exclusions hold pairs, and a third option is
  needed for the pairs that a third one allows (`--no-exec` or `--exec` with
  Cargo's options).
* Two mutants in `Invocation`: one inside a selection, one outside. One report
  is written or fails; a failing report among several is one that was not
  written.
* `MaxOffers` bounds the mutations offered per run of the plan. Four make two
  repetitions of two pieces of evidence possible. The two ranges differ by name
  only, and so do the two replacements, so the line that is left out and the
  blacklisted change are fixed ones.
* The disks of `WorkspaceCopy`, the trees of `Discovery` and the configurations
  of `CargoTargets` are one layout each, and for `Discovery` a few odd trees, in
  which everything that the code treats in a way of its own occurs and is
  varied: conditions of a module, where a reference leads, whether a file is
  there, whether a path is absolute.

Deadlock checking is off: the modelled parts really end (a run returns, a
command is reaped, a plan is complete, the results are in).

### Fairness

`WorkerPool`, `MutationWorkers` and `RunSession` assume weak fairness of each
thread's own steps: the operating system schedules every thread, and a test
always comes back since `ProcessWait` shows that the wait ends. Interrupts,
panics and faults are never fair. `ProcessWait` assumes that its thread runs
and that time passes; nothing is assumed of the test command, which may run for
ever. Safety runs that need no fairness have none.

## 4. Findings

1. **A failed reset does not retire the area** (`areas_reset_fails`,
   `execution.rs:4439` and 2967). The error becomes the verdict of the mutant,
   but the half-reset area stays in the worker's slot and is reused.
2. **IDs of two workspaces collide** (`plan_two_packages`, `evidence.rs:123`).
   The ID uses the path relative to each Cargo workspace and is tracked per
   source and mutator. Two targets in independent workspaces can yield two
   mutants of one ID.
3. **An equal score can fail** (`score_equal`, `main.rs:968`). 29 of 50 with
   `--min-msi 58`: `29.0 / 50.0 * 100.0 < 58.0` in `f64`.
4. **Workers share the build lock** (`clones_share_lock`, `execution.rs:4030`).
   `target/debug/.cargo-lock` is linked into every clone, so the Cargo builds
   of the workers run one after the other, and the wait counts in the timeout
   of a mutant. With `build.target` they share more than the lock (below).
5. **A workspace below `examples` is taken for an example**
   (`sources_below_examples`, `discovery.rs:204`). Excluded directory names are
   looked for among all ancestors of a target, those above the workspace too; a
   broad directory target then collects test sources.

Observations that no run checks:

* `restore_dirty` (`execution.rs:4447`) takes the record of the dirty source
  before it writes the original text. With a failing reset and then a failing
  restore (`MaxFaults = 2` in `areas_one_fault.cfg`) `MutationsNeverMix` fails:
  a later mutant is tested together with an earlier one.
* `--update-baseline` replaces the whole file by the escapes of this run.
  Combined with a selection such as `--git-diff-lines` it drops the accepted
  escapes outside the selection, and without a changed line it writes an empty
  list; `docs/cli.md:166` speaks of "the full current escaped set".
* A baseline left half written by a killed update also stops the next
  `--update-baseline`, because the load comes first (`TornBaselineStops`): the
  file has to be removed by hand.
* `docs/ci.md:95` gives exit value 1 for a command error, while source,
  configuration, run and report errors exit with 3 as `docs/parity.md` says; 1
  is left to failing standard output.
* A clone links the files of every directory named `target`, at any depth
  (`execution.rs:3947` and 3991), sources included. A mutant of such a source,
  say of a module in `src/target/`, is written through the link (4490) into the
  clean-suite build, where parallel workers' tests see it, and a mutant may be
  built upon another's. `TestsSeeOneMutant` and `MutationsNeverMix` are stated
  for `Private` sources; without that both fail.
* The reset keeps Cargo's `target` on purpose (4436), and with it what tests
  leave there, as in `target/tmp`. `TestsSeeOneMutant` allows it.
* With `build.target` or `--target`, which 3714 supports, the build lies in
  `target/<triple>/debug`. `clone_target_directory` takes the triple for a
  profile and links `debug` as a whole (4062), so all workers build and test
  in the directory of the clean-suite build. `TestsRunOwnBuild` is stated for
  `layout = "host"`; without that it fails.
* A command that ends between the last poll (3418) and the look at the clock
  (3425) is reported as timed out if the deadline passes in between, even if it
  ended before it. The gap is short unless the system is loaded. `NoFalseTimeout`
  says no more than the code ensures.
* `--fail-on-escaped` and the score options are accepted with `--dry-run` and
  `--no-exec`; they have no effect there. `--workers` is accepted with `--exec`,
  which runs with one worker (`docs/cli.md:233`), although `docs/cli.md:262`
  says that no selected option is silently ignored. `Unheeded` names it.
* The lists of tests for per-test coverage leave out targets with required
  features (1047), and `cargo llvm-cov` runs no doctests; such tests count for no line,
  so a mutant that only they kill is not covered, or escapes. `Unseen` names
  them. An LCOV profile that is empty, or cut between two records, is accepted
  (`coverage.rs:141`), and its lines then count as not executed (`short`).
* The look at a source asks whether it is below the repository root
  (`git.rs:60`): a source in a nested repository passes, and no line of it
  is in the diff of the outer one, so none is selected. A diff that is not UTF-8,
  for a changed file in another encoding, ends the run (`git.rs:44`).
* Copying: a runner inside a package's own `.cargo` is not copied; the
  dependencies of a crate that only a configuration's `[patch]` names are not
  followed (`tests/install_smoke.rs:4287` and 4496 test the patched crate
  itself); absolute symbolic links are copied as they are; absolute
  `workspace.members` and `package.workspace` are not rewritten; the virtual
  workspace root of a dependency outside is not copied. The disks of
  `MCWorkspaceCopy` hold the runner and the workspace paths, and `CopyIsClosed`
  excepts them by `IsOverlooked`; without that it fails.
* The `examples` directory of a clone is one link to the clean-suite build
  (a test that runs an example by its path runs the one some worker built last;
  `TestsRunOwnBuild` is not about examples), and
  the remapping of paths in binary files (`execution.rs:3902`) is not modelled.
* Discovery: cfg flags nobody knows count as set; an inactive module inside an
  actively included file is not seen as inactive (`HidesInactive`); the set of
  visited files has the file alone as its key, so a file with two directories
  for its modules loses those of one (`HasTwoRoots`, `discovery.rs:693`);
  conditional paths of a module below what is not built are not followed
  (`HidesPaths`); a directory target drops a production file that another
  package names for its tests (`IsBorrowed`, 384-395); an include that is no
  Rust file is left out. Those five are explicit limits of the two properties.
  The walks over test-only and inactive modules
  (`discovery.rs:440` and 828) have no set of visited files; `#[path]` on an inline module
  has no effect; when `cargo metadata` fails no test source is left out.
* A Cargo home that is also the `.cargo` of an ancestor is read twice.
  `execution.rs` reads an include it has met before only once, where discovery
  calls a cycle an error.

## 5. Proofs

| Module | Theorems |
| --- | --- |
| `WorkerPool_proofs` | `TypeCorrect`, `SuccessfulRunsAreComplete`, `NothingIsTestedTwice`, `NothingIsLostSilently`, `ImplementsContractSafety` |
| `MutationWorkers_proofs` | `ImplementsPoolSafety`, `TestsAreIsolated`, `MutationsStayApart`, `AreasAreRemoved` |
| `ProcessWait_proofs` | `TypeCorrect`, `StoppedCommandsAreGone`, `SignalsReachOnlyTheCommand`, `TimeoutsAreReal`, `CommandsAreReaped`, `InterruptsArePrompt` |
| `MutationPlan_proofs` | `TypeCorrect`, `FiltersKeepIds`, `IdsAreUnique`, `PlansAreExact` |
| `Selection_proofs` | `MergesAreExact`, `SearchesAreExact` of `SourceRanges`; `FiltersAreExact` of `SourceFilters`; `ChangedLinesHold` of `ChangedLines`; `NoKillIsLost` of `CoverageSelection` |
| `Invocation_proofs` | `TypeCorrect`, `RecordedEscapesPass`, `UpdatesSettle`, `TornBaselinesStop`, `ReportsComeFirst`, `KilledAreForgotten`; `OptionsTakeEffect`, `MutatorsFollowPolicy` of `Policy`; `ScoresDecide` of `ScoreGates` |
| `Surroundings_proofs` | `TypeCorrect`, `RunsAreGuarded`, `HandlersAreRestored`, `InterruptsAreKept` of `RunSession`; `AreasHaveOneHolder`, `LeftoversHaveReasons`, `OnlyOwnersRemove` of `TemporaryAreas`; `OutputStaysClean`, `LinesShowFinished` of `Progress`; `SoundIsCopied`, `CopyHoldsWhatItReads` of `WorkspaceCopy`; `OwnBuild` of `WarmClones`; `OnlyFaultsRefuse`, `TargetsAreCargos` of `CargoTargets` |

They rest on the named assumptions on constants only (TLC evaluates them in
every run of the module) and on the hypotheses their statements show.
`IdsAreUnique` has `PathsDiffer`, that no two sources of the plan have the same
relative path, which is what finding 2 lacks. `TestsAreIsolated` has
`MaxFaults = 0`: finding 1 is a counterexample with one fault.
`MutationsStayApart` and `AreasAreRemoved` have `AtMostOneFault`: with two,
`MutationsNeverMix` fails as section 4 says. `ScoresDecide` has `RoomToSpare`,
that the counts stay eight bits below the precision: with the 53 bits of `f64`
that is up to 2^45 results, and finding 3 is why it says nothing of a score that
equals a required one. Other assumptions say what data
the components meet: `BelowTargetAssumption` (some of the sources lie below a
directory named `target`), `WorldsAssumption` (every disk is one, section 2),
`CloneAssumption` (a worker's area is not the template's; a crate has one of
the four kinds that are cloned, and its names are sequences of words) and
`CoverageAssumption` (finitely many tests and lines; a mutant's line is in one
of the packages, and a profile that is whole mentions its source). Two say
what kind of data the selection of lines has: a name is a sequence of bytes and
not empty (`FilesAssumption`), and lines are among the positions ranges are
about (`LinesAssumption`). For the filters, the items of a source are a tree in
the order of a visit, children inside their parent and siblings apart, as a
parser gives them (`ShapesAssumption`), and lines and comments are where the
source is (`LineStartsAssumption`, `CommentsAssumption`). `DisksAssumption` says
that a disk has finitely many configurations, each with its includes in an
order, and `MaxTotalAssumption` that every count is a floating-point number.
The arguments:

* **WorkerPool.** `OkIsComplete` is not inductive. `IInv` adds that the queue
  is the unconsumed rest of the plan (`QueueIsRestOfPlan`), that an index is
  held by one thread (`HeldOnce`) and collected once (`PushedOnce`), that an
  index is in the queue, in a thread's hands, collected or lost for a stated
  reason (`NothingLost`), and that a thread leaves for a reason
  (`LeftForAReason`). At `Conclude` every thread has left without a reason to
  fail, so nothing is lost and sorting gives the plan.
* **MutationWorkers.** Every step is a step of the pool or leaves its variables
  alone (`AreaNextIsNext`), so the pool's invariant holds here. `AreaInv` adds
  four facts of the areas as a whole (`Owned`): types, no area with two holders
  (`HoldersDiffer`), what is held exists and a clean-suite build is clean in the
  private sources (`HeldExist`), of the others only those whose removal failed
  exist (`OthersGone`), and a removal that failed was the one fault
  (`StuckIsFault`); and three of each thread (`Local`): it has an area when it
  tests (`Placed`), its area differs from the original by the source its
  `dirty` record names, if at all (`Tracked`), and while nothing failed the
  area is clean between mutants (`CleanSoFar`). A write through a link reaches
  a clean-suite build, which no thread holds and which stays while parallel
  workers run (`BuildsStay`), and there only sources that are not private. Each
  kind of file operation has
  a lemma that keeps `Owned` (`DropKeeps`, `InstallKeeps`, `WriteKeeps`,
  `RestKeeps`) and leaves the areas of other threads alone; the step lemmas
  then only argue about the thread that moves.
* **ProcessWait.** `PInv` ties the process to the thread's place: `active`
  means the leader was not reaped, a stop has emptied the group, and a timeout
  is only decided after a poll that came after the last sleep and saw the leader
  alive (`LooksLast`).
  `CommandsAreReaped` adds that a thread is in the drop only after a failing
  call (`DroppedAfterFault`), `InterruptsArePrompt` that the thread comes to the
  clock with the flag clear, or has slept once since it was set (`OneSleep`).
* **RunSession.** `SInv` says who may be in the guarded stages (`HolderHolds`),
  when the recorder is installed (`RecorderMeansRun`) and what will be put back
  (`SavedIsProgram`).
* **MutationPlan.** `Inv` keeps that the candidates collected so far are the
  allowed ones among the offers so far, and that the seen set holds the base
  IDs of all offers of the present source and mutator, whatever the filters
  said; from that the identity of an offer depends on the offers before it only.
* **SourceRanges.** `RInv` keeps that what is kept is sorted with gaps
  (`Apart`), that nothing left starts before it (`InOrder`), and that kept and
  left ranges together hold the points given (`SamePoints`). For the search,
  the first kept range that ends after the start of the target is a least
  element, and as the ranges are apart no other can touch the target if it
  does not.
* **SourceFilters.** The ranges of the code must be the positions of the
  property. Two items nest or lie apart (`ItemsNestOrLieApart`), so the
  shortest function around a position is the deepest (`ShortestIsDeepest`); what
  the visitors skip lies inside a gated item they visited (`UnvisitedAreInside`,
  `WalkCovers`), so skipping loses nothing; sorting and merging keep the
  positions (`SortKeeps`, `NormalizedIsExact`), and the search then decides
  (`SearchDecides`). `FilterInv` says of the annotations read so far which
  functions and lines they switched off; a line grows by at most one from a
  position to the next, so the lines of a mutation are those it touches
  (`NoLineIsSkipped`).
* **ChangedLines.** A name is read as it was written (`NamesAreRead`): each turn
  of the loop takes what `QuotedByte` wrote for one byte, three octal digits
  and no more (`TurnReads`, `OctalReads`), so after as many turns as the name
  has bytes the name is read and the closing quote is next (`QuotedIsRead`).
  `DiffInv` then says where the reader is when Git is at a line
  (`ReaderFollowsGit`): a pair of headers is open only between its two lines,
  so a line of a hunk is never taken for one. The ranges of a file start one
  after the other and those of the current file before the next hunk
  (`RangesGrow`), so sorting leaves them as they are and the merge covers the
  same lines (`MergedCovers`, from `MergeAllCovers`).
* **Invocation.** `CInv` adds the order of the steps, that file and memory
  hold recorded escapes only, that results are right while the code is unchanged
  (`FreshResults`), and what a settled file holds (`SettledFile`).
* **TemporaryAreas.** `AInv` keeps that a thread has a name exactly while it
  uses a directory (`HoldsWhileUsing`), that the directory of that name was
  made by it (`HoldsOwn`), and that a kept one stays (`KeptStay`). The maker
  of a directory is one thread, so two holders cannot be.
* **Progress.** The monitor goes after the ticker and the ticker after the line
  (`LeavesInOrder`). A count that was read may be old but never exceeds what is
  finished (`CountsInv`).
* **Policy.** The tables of conflicts are right (`ConflictsAreUnsound`: every
  row takes from an option something it needs) and complete
  (`UnsoundIsRefused`: where no row applies, each option has what it needs).
  The options do not change after the check, and the registry is the merge's.
* **ScoreGates.** A quotient of counts that is not exactly a whole percentage
  is away from it by at least one part in a hundred of the denominator, and the
  two roundings move it by less (`RoundedIsNear`, `PercentageIsNear`). So the
  comparison in `f64` decides as the exact one does but on equality
  (`BelowDecides`), with the scores that are no number told apart first.
* **CoverageSelection.** `CoverageInv` follows a kill from one step to the
  next, unless a profile was cut between records: what a run executes is on the
  map or the run is still to come (`Collected`); the reader has read a part of
  the profile in order and every line hit in that part is in its hands, and a
  profile that is torn ends inside a record, where the reader must notice
  (`ReadsInOrder`); among the commands still to be run is one for every test
  that kills and that coverage can see (`KillersToCome`). That a
  whole profile mentions every executed line is `ProfileHolds`, over the
  concatenation of the records of all sources.
* **WorkspaceCopy.** `CopyInv` says what has been followed so far: the paths of
  a manifest that was inspected (`InspectionsFollowed`), the members of a root
  (`MembersFound`), after the loop those of all manifests found
  (`AllInspected`), the includes of configurations (`IncludesFollowed`) and
  their other paths (`ConfigurationPathsAdded`). After the loop the manifests
  found are one of the sets that no reference leaves, so the smallest of them,
  which is what a build reads, is among those found (`ReachedAreFound`); a
  chain of any length needs no induction. That only the outermost of nested
  roots is copied loses nothing (`OutermostCovers`).
* **WarmClones.** What the tests use is what crates produce, and each product
  begins with a prefix that `IsCrateEntry` looks for, whatever the crate's name
  and however its dashes are spelled (`ProductsAreCrateEntries`), so it is
  copied where Cargo builds for the host (`UsedIsCloned`). `CloneInv` then keeps
  that a used entry is at its
  worker's own place and was built there after the remapping.

* **CargoTargets.** Where every configuration was checked, the files that some
  check went through are closed under includes, and no ring of includes is among
  them: take a check of one of its files with the most files on the way
  (`CheckedIsUsable`). Where nothing is wrong with what is
  reached, every set of files has one that includes no other of the set
  (`ReadIsGrounded`), so a counterexample that includes none would be one where
  the step from the includes to the file fails: no check stops there
  (`UsableIsChecked`), and a file comes to what its list of values comes to
  (`ReadIsMerge`). The latter rests on the fact that merging follows appending
  (`MergedIsMerge`, for two kinds, arrays and single targets alike).
  `CargoInv` keeps this along the directories, and a merge that fails met two
  kinds (`RefusedForKinds`), which stay two in what all directories say
  (`KindsGoOn`).

`FlattenSeq` is a recursive function of the library, and the merge, the reading
of a quoted name, the walk over items, the powers of two and the includes of
configurations are recursive functions of the modules. Such a function is shown
to exist, and what it computes is proved, by the least number at which that
would be wrong (`LeastNatural`; `FlattenPlaces`, `TurnsExist`, `PassesExist`,
`DoublesExist`, `VisitsExist`, `TakesExist`, `UpwardExists`) or, over files, by a
set of counterexamples that is grounded (`RecursionExists`; `ChecksExist`,
`ReadsExist`, `SaysExist`), since the library's induction theorems take
operators.

Only model-checked:

* all liveness properties (`EveryRunReturns`, `WaitEnds`, and the fairness part
  of `ImplementsContract` and `ImplementsPool`), which need fairness and
  `ENABLED`;
* `ProductionIsCollected` and `OnlyBuiltModulesAreCollected` of `Discovery`. Its
  walks and nested conditions (`CfgConditions`) are recursive operators, which
  the provers do not take. The trees on which the code does not do what the two
  say are excepted in them by name (`HasTwoRoots`, `IsBorrowed`,
  `HidesInactive`, `HidesPaths`; section 4), and `MCDiscovery` has a tree for
  each. That no other tree breaks them is checked for the trees of
  `MCDiscovery`, not shown for all.

## 6. What could follow

Every module of section 2 is written, checked and, but for `Discovery`, proved
about. Next to the modelled parts are three that are not modelled:

1. `link_cargo_home_stores`: which stores of Cargo's home an isolated home
   links, with `WorkspaceCopy`.
2. `allows_source`: the exclusion of whole files by directory, with
   `SourceFilters`.
3. The parser of blacklist files, with `MutationPlan`.

## 7. Not modelled, and why

The syntax-tree visitors of the mutators and the rendering of reports are
functions of their input without state; a model would repeat them line by line.
`MutationPlan` takes what the mutators propose as an arbitrary sequence, and
`Invocation` has when reports are written and that each may fail. TOML editing,
LLVM tools and Cargo itself are external: the models take what they produce as
given. The texts of messages, the `list-mutators` and `list-files` commands and
the validation of single entries of a baseline file are left out, as are
symbolic links within a walked directory. Windows process handling is left out;
`ProcessWait` is the unix code.
