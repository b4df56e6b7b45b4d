--------------------------- MODULE MutationWorkers ---------------------------
(***************************************************************************)
(* The worker pool together with what its threads do to the file system:   *)
(* WorkerScratch, WarmBuilds and test_candidate_with_scratch in            *)
(* src/execution.rs.  WorkerPool's step Finish becomes four phases of the  *)
(* thread that tests a mutant: it prepares its scratch area (claims or     *)
(* clones a clean-suite build, or copies the workspace), writes the        *)
(* mutant, runs the tests, and resets the area.  Every file operation may  *)
(* fail, at most MaxFaults times in a run, and an interrupt cuts short the *)
(* operations that look at the flag between two directory entries.         *)
(*                                                                         *)
(* A source file of an area is the set of mutations applied to the         *)
(* original text, or it is missing, or a write or a test damaged it, or it *)
(* is a link to the file of the clean-suite build the area was cloned from.*)
(***************************************************************************)
EXTENDS WorkerPool, Functions

CONSTANTS
    Sources,     \* the mutated source files
    Roots,       \* the Cargo workspace roots that own them
    SourceOf,    \* the source file of each candidate
    RootOf,      \* the workspace root of each source file
    BelowTarget, \* the sources below a directory named target (Cargo's own,
                 \* at the top of an area, holds none)
    Untested,    \* the candidates whose line no test covers
    Areas,       \* enough temporary workspaces that creation finds one
    MaxFaults,   \* bound on the file operations that fail in one run
    NoArea,
    Absent,      \* the file does not exist
    Broken,      \* a truncated file, or one that a test overwrote
    Shared       \* the file is a link into the clean-suite build

ASSUME SourceOfAssumption == SourceOf \in [Candidates -> Sources]
ASSUME RootOfAssumption == RootOf \in [Sources -> Roots]
ASSUME BelowTargetAssumption == BelowTarget \subseteq Sources
ASSUME UntestedAssumption == Untested \subseteq Candidates

\* Where a build and its tests leave files: in Cargo's target directory they
\* always do, elsewhere the tests may.
LitterPlaces == {"target", "elsewhere"}

\* What an area can hold: of each source the set of mutations in it, if it is
\* there and whole, and where files were left behind.
Contents == [files : [Sources -> (SUBSET Candidates) \cup {Absent, Broken, Shared}],
             litter : SUBSET LitterPlaces]

ASSUME NoAreaAssumption ==
    NoArea \notin Areas /\ NoArea \notin Sources /\ NoArea \notin Roots /\ NoArea \notin Contents
ASSUME TextAssumption ==
    /\ \A c \in SUBSET Candidates : Absent # c /\ Broken # c /\ Shared # c
    /\ Shared # Absent /\ Shared # Broken /\ Absent # Broken

\* A build for each root to begin with; and whatever the threads and the roots
\* hold, with one directory left behind, there is a free area.
ASSUME AreasAssumption ==
    /\ \E f \in [Roots -> Areas] : IsInjective(f)
    /\ \A f \in [Threads -> Areas \cup {NoArea}], g \in [Roots -> Areas \cup {NoArea}],
          left \in Areas \cup {NoArea} :
          \E a \in Areas :
              /\ \A t \in Threads : f[t] # a
              /\ \A r \in Roots : g[r] # a
              /\ left # a

VARIABLES
    phase,    \* what a testing thread does next
    tree,     \* the content of each temporary workspace, NoArea if removed
    scratch,  \* the WorkerScratch of each thread
    warm,     \* WarmBuilds: the clean-suite build of each root
    verdict,  \* the result of the tests, kept while the area is reset
    stuck,    \* the directories whose removal failed
    faults    \* the file operations that failed so far

areaVars == <<phase, tree, scratch, warm, verdict, stuck, faults>>
allVars == <<queue, pc, current, collected, interrupted, outcome, results,
             phase, tree, scratch, warm, verdict, stuck, faults>>

-----------------------------------------------------------------------------
Original == {}

NoDirty == [path |-> NoArea, original |-> Original]
NoScratch == [area |-> NoArea, root |-> NoArea, dirty |-> NoDirty]
NoVerdict == NoArea

\* What copy_workspace leaves in an empty directory for workspace root r.
Clean(r) ==
    [files |-> [s \in Sources |-> IF RootOf[s] = r THEN Original ELSE Absent],
     litter |-> {}]

RootOfCandidate(i) == RootOf[SourceOf[i]]

\* TemporaryWorkspace::create finds a directory that does not exist.
Fresh == CHOOSE a \in Areas : tree[a] = NoArea

Fault == faults < MaxFaults /\ faults' = faults + 1

\* TemporaryWorkspace::drop on area a, if it is one, in the areas T: a failed
\* removal is ignored and the directory stays.
Drop(a, T) ==
    \/ a = NoArea /\ tree' = T /\ UNCHANGED <<stuck, faults>>
    \/ a # NoArea /\ tree' = [T EXCEPT ![a] = NoArea] /\ UNCHANGED <<stuck, faults>>
    \/ a # NoArea /\ Fault /\ tree' = T /\ stuck' = stuck \cup {a}

\* The thread's scratch is dropped, and its directory with it.
DropScratch(t) ==
    /\ scratch' = [scratch EXCEPT ![t] = NoScratch]
    /\ Drop(scratch[t].area, tree)

AreaInit ==
    /\ Init
    /\ phase = [t \in Threads |-> "idle"]
    /\ scratch = [t \in Threads |-> NoScratch]
    /\ warm = CHOOSE f \in [Roots -> Areas] : IsInjective(f)
    \* The clean suite ran in them and they were reset (test_clean_layout).
    /\ tree = [a \in Areas |->
          IF \E r \in Roots : warm[r] = a
          THEN [Clean(CHOOSE r \in Roots : warm[r] = a) EXCEPT !.litter = {"target"}]
          ELSE NoArea]
    /\ verdict = [t \in Threads |-> NoVerdict]
    /\ stuck = {}
    /\ faults = 0

-----------------------------------------------------------------------------
(* The steps of WorkerPool that keep or drop the scratch area.             *)

InterruptRun == Interrupt /\ UNCHANGED areaVars

TakeCandidate(t) == Take(t) /\ UNCHANGED areaVars

LeaveExhausted(t) ==
    /\ Exhaust(t)
    /\ DropScratch(t)
    /\ UNCHANGED <<phase, warm, verdict>>

StartCandidate(t) ==
    /\ Start(t)
    /\ IF interrupted
       THEN DropScratch(t) /\ UNCHANGED phase
       ELSE /\ phase' = [phase EXCEPT ![t] = "prepare"]
            /\ UNCHANGED <<tree, scratch, stuck, faults>>
    /\ UNCHANGED <<warm, verdict>>

RecheckFlag(t) ==
    /\ Recheck(t)
    /\ IF interrupted THEN DropScratch(t) ELSE UNCHANGED <<tree, scratch, stuck, faults>>
    /\ UNCHANGED <<phase, warm, verdict>>

PanicInTest(t) ==
    /\ Panic(t)
    /\ DropScratch(t)
    /\ phase' = [phase EXCEPT ![t] = "idle"]
    /\ verdict' = [verdict EXCEPT ![t] = NoVerdict]
    /\ UNCHANGED warm

\* Mistake: the clean-suite builds nobody claimed are not dropped.
ConcludeKeepsBuilds == Conclude /\ UNCHANGED areaVars

\* The run returns and drops the clean-suite builds nobody claimed.
ConcludeRun ==
    LET unclaimed == {warm[r] : r \in Roots} \ {NoArea}
        Dropped(stays) == [a \in Areas |->
            IF a \in unclaimed \ stays THEN NoArea ELSE tree[a]]
    IN  /\ Conclude
        /\ warm' = [r \in Roots |-> NoArea]
        /\ \/ tree' = Dropped({}) /\ UNCHANGED <<stuck, faults>>
           \/ /\ Fault
              /\ \E a \in unclaimed : tree' = Dropped({a}) /\ stuck' = stuck \cup {a}
        /\ UNCHANGED <<phase, scratch, verdict>>

-----------------------------------------------------------------------------
(* test_candidate_state and test_candidate_with_scratch.                   *)

\* The candidate's test ends with verdict v.
Return(t, v) ==
    /\ FinishWith(t, v)
    /\ phase' = [phase EXCEPT ![t] = "idle"]
    /\ verdict' = [verdict EXCEPT ![t] = NoVerdict]

\* An error of the operation: cancelled when the flag cut it short.
ReturnError(t) ==
    \/ interrupted /\ UNCHANGED faults /\ Return(t, Cancelled)
    \/ Fault /\ Return(t, "Errored")

\* Mistake: an uncovered candidate is passed over without a result.
ReturnEarlySilently(t) ==
    /\ phase[t] = "prepare"
    /\ current[t] \in Untested
    /\ pc' = [pc EXCEPT ![t] = "tested"]
    /\ current' = [current EXCEPT ![t] = NoCandidate]
    /\ phase' = [phase EXCEPT ![t] = "idle"]
    /\ UNCHANGED <<queue, collected, interrupted, outcome, results,
                   tree, scratch, warm, verdict, stuck, faults>>

\* stop_if_interrupted, then the coverage selection.
ReturnEarly(t) ==
    /\ phase[t] = "prepare"
    /\ \/ interrupted /\ Return(t, Cancelled)
       \/ ~interrupted /\ current[t] \in Untested /\ Return(t, "NotCovered")
    /\ UNCHANGED <<tree, scratch, warm, stuck, faults>>

Continues(t) ==
    /\ phase[t] = "prepare"
    /\ current[t] \notin Untested
    /\ UNCHANGED <<queue, pc, current, collected, interrupted, outcome, results>>

\* prepare_worker_scratch keeps an area of the same workspace root.
Reuse(t) ==
    /\ Continues(t)
    /\ scratch[t].root = RootOfCandidate(current[t])
    /\ phase' = [phase EXCEPT ![t] = "write"]
    /\ UNCHANGED <<tree, scratch, warm, verdict, stuck, faults>>

\* The thread installs area a, with content c, and drops its previous area.
Install(t, a, c) ==
    /\ scratch' = [scratch EXCEPT
          ![t] = [area |-> a, root |-> RootOfCandidate(current[t]), dirty |-> NoDirty]]
    /\ Drop(scratch[t].area, [tree EXCEPT ![a] = c])
    /\ phase' = [phase EXCEPT ![t] = "write"]
    /\ UNCHANGED verdict

\* clone_tree_with_shared_dependencies: of what is below a directory named
\* target, sources included, the clone of build c has links; everything else is
\* copied.  (A system that makes no links is one with no source below target.)
CloneOf(r, c) ==
    [c EXCEPT !.files = [s \in Sources |->
        IF s \in BelowTarget /\ RootOf[s] = r THEN Shared ELSE c.files[s]]]

\* WarmBuilds::claim: a single worker takes the clean-suite build, parallel
\* workers clone it; without one the workspace is copied (WorkerScratch::create).
Claim(t) ==
    LET r == RootOfCandidate(current[t])
    IN  /\ Continues(t)
        /\ scratch[t].root # r
        /\ \/ /\ warm[r] # NoArea /\ Sequential
              /\ Install(t, warm[r], tree[warm[r]])
              /\ warm' = [warm EXCEPT ![r] = NoArea]
           \/ /\ warm[r] # NoArea /\ ~Sequential
              /\ Install(t, Fresh, CloneOf(r, tree[warm[r]]))
              /\ UNCHANGED warm
           \/ /\ warm[r] = NoArea
              /\ Install(t, Fresh, Clean(r))
              /\ UNCHANGED warm

\* Creating, cloning or copying the area fails: the new directory is removed
\* and the thread keeps the area it had.
ClaimFails(t) ==
    LET r == RootOfCandidate(current[t])
    IN  /\ phase[t] = "prepare"
        /\ current[t] \notin Untested
        /\ scratch[t].root # r
        /\ ~(warm[r] # NoArea /\ Sequential)
        /\ ReturnError(t)
        /\ UNCHANGED <<tree, scratch, warm, stuck>>

-----------------------------------------------------------------------------
(* WorkerScratch::write_mutant.  An error here returns before the tests run *)
(* and before the area is reset.                                           *)

Target(t) == SourceOf[current[t]]
Dirty(t) == scratch[t].dirty
Tree(t) == tree[scratch[t].area]

SetTree(t, c) == tree' = [tree EXCEPT ![scratch[t].area] = c]
SetDirty(t, d) == scratch' = [scratch EXCEPT ![t].dirty = d]

\* The area in which the thread finds source s: its own, or behind a link the
\* clean-suite build, which all the clones of one workspace root share.
PlaceOf(t, s) == IF Tree(t).files[s] = Shared THEN warm[scratch[t].root] ELSE scratch[t].area

Text(t, s) == tree[PlaceOf(t, s)].files[s]

\* The areas T once x is written to source s of the thread's area.
Written(t, T, s, x) == [T EXCEPT ![PlaceOf(t, s)].files[s] = x]

\* The original text of the source mutated last is kept in memory.
InMemory(t) == Dirty(t).path = Target(t)
MustRestore(t) == Dirty(t).path \notin {NoArea, Target(t)}

\* The areas once restore_dirty wrote another source's original text back.
Restored(t) ==
    IF MustRestore(t) THEN Written(t, tree, Dirty(t).path, Dirty(t).original) ELSE tree

OriginalText(t) ==
    IF InMemory(t) THEN Dirty(t).original ELSE Text(t, Target(t))

\* Writing a file that is missing fails when its directory is missing too.
WriteFault(t, s) == Fault \/ (Text(t, s) = Absent /\ UNCHANGED faults)

\* What a write to s that failed leaves: nothing happened, or a truncated file.
AfterFailedWrite(t, T, s) ==
    {T} \cup (IF Text(t, s) = Absent THEN {} ELSE {Written(t, T, s, Broken)})

\* Mistake: the mutant is built from the file, not from the original text.
WriteOverMutant(t) ==
    LET text == Text(t, Target(t))
    IN  /\ phase[t] = "write"
        /\ text \notin {Absent, Broken}
        /\ tree' = Written(t, Restored(t), Target(t), text \cup {current[t]})
        /\ SetDirty(t, [path |-> Target(t), original |-> text])
        /\ phase' = [phase EXCEPT ![t] = "run"]
        /\ UNCHANGED <<queue, pc, current, collected, interrupted, outcome,
                       results, warm, verdict, stuck, faults>>

WriteMutant(t) ==
    LET original == OriginalText(t)
        mutant == IF original = Broken THEN Broken ELSE original \cup {current[t]}
    IN  /\ phase[t] = "write"
        /\ original # Absent
        /\ tree' = Written(t, Restored(t), Target(t), mutant)
        /\ SetDirty(t, [path |-> Target(t), original |-> original])
        /\ phase' = [phase EXCEPT ![t] = "run"]
        /\ UNCHANGED <<queue, pc, current, collected, interrupted, outcome,
                       results, warm, verdict, stuck, faults>>

\* restore_dirty took the original text before the write that fails.
RestoreFails(t) ==
    /\ phase[t] = "write"
    /\ MustRestore(t)
    /\ WriteFault(t, Dirty(t).path)
    /\ tree' \in AfterFailedWrite(t, tree, Dirty(t).path)
    /\ SetDirty(t, NoDirty)
    /\ Return(t, "Errored")
    /\ UNCHANGED <<warm, stuck>>

ReadFails(t) ==
    /\ phase[t] = "write"
    /\ ~InMemory(t)
    /\ IF OriginalText(t) = Absent THEN UNCHANGED faults ELSE Fault
    /\ tree' = Restored(t)
    /\ SetDirty(t, NoDirty)
    /\ Return(t, "Errored")
    /\ UNCHANGED <<warm, stuck>>

\* The mutation's byte range may not fit a text that is damaged or holds another
\* mutation; the write may fail.
ApplyOrWriteFails(t) ==
    LET original == OriginalText(t)
    IN  /\ phase[t] = "write"
        /\ original # Absent
        /\ \/ /\ original # Original
              /\ tree' = Restored(t)
              /\ UNCHANGED faults
           \/ /\ WriteFault(t, Target(t))
              /\ tree' \in AfterFailedWrite(t, Restored(t), Target(t))
        /\ SetDirty(t, [path |-> Target(t), original |-> original])
        /\ Return(t, "Errored")
        /\ UNCHANGED <<warm, stuck>>

-----------------------------------------------------------------------------
(* run_mutant_cargo_tests and WorkerScratch::reset_for_next_mutant.        *)

OwnSources(t) == {s \in Sources : RootOf[s] = scratch[t].root}

\* The tests are built, may leave files in the area and overwrite one of its
\* sources.
RunTests(t) ==
    /\ phase[t] = "run"
    /\ \E v \in Verdicts \ {"NotCovered"} :
          (v = Cancelled) = interrupted /\ verdict' = [verdict EXCEPT ![t] = v]
    /\ \E T \in {tree} \cup {Written(t, tree, s, Broken) : s \in OwnSources(t)},
          left \in {{"target"}, LitterPlaces} :
              tree' = [T EXCEPT ![scratch[t].area].litter = @ \cup left]
    /\ phase' = [phase EXCEPT ![t] = "reset"]
    /\ UNCHANGED <<queue, pc, current, collected, interrupted, outcome, results,
                   scratch, warm, stuck, faults>>

\* What is in Cargo's target directory stays there, for the next build.
Kept(t) == Tree(t).litter \cap {"target"}

\* Mistake: the sources are copied again, the other entries stay.
ResetSourcesOnly(t) ==
    /\ phase[t] = "reset"
    /\ ~interrupted
    /\ SetTree(t, [Clean(scratch[t].root) EXCEPT !.litter = Tree(t).litter])
    /\ SetDirty(t, NoDirty)
    /\ Return(t, verdict[t])
    /\ UNCHANGED <<warm, stuck, faults>>

\* Links are removed with the directories that hold them and copied anew.
ResetArea(t) ==
    /\ phase[t] = "reset"
    /\ ~interrupted
    /\ SetTree(t, [Clean(scratch[t].root) EXCEPT !.litter = Kept(t)])
    /\ SetDirty(t, NoDirty)
    /\ Return(t, verdict[t])
    /\ UNCHANGED <<warm, stuck, faults>>

\* remove_non_target_entries stopped half way.
HalfRemoved(t) ==
    {[files |-> [s \in Sources |-> IF s \in gone THEN Absent ELSE Tree(t).files[s]],
      litter |-> left] : gone \in SUBSET OwnSources(t), left \in {Kept(t), Tree(t).litter}}

\* copy_workspace stopped half way.
HalfCopied(t) ==
    {[files |-> [s \in Sources |-> IF s \in copied THEN Original ELSE Absent],
      litter |-> Kept(t)] : copied \in SUBSET OwnSources(t)}

\* Mistake: a reset the flag cut short is tried again.
ResetRetries(t) ==
    /\ phase[t] = "reset"
    /\ interrupted
    /\ \E c \in HalfRemoved(t) \cup HalfCopied(t) : SetTree(t, c)
    /\ UNCHANGED <<queue, pc, current, collected, interrupted, outcome, results,
                   phase, scratch, warm, verdict, stuck, faults>>

\* The flag is read before each entry; the dirty record stays as it was.
ResetFails(t) ==
    /\ phase[t] = "reset"
    /\ \E c \in HalfRemoved(t) \cup HalfCopied(t) : SetTree(t, c)
    /\ ReturnError(t)
    /\ UNCHANGED <<scratch, warm, stuck>>

-----------------------------------------------------------------------------
WorkArea(t) ==
    \/ TakeCandidate(t)
    \/ LeaveExhausted(t)
    \/ StartCandidate(t)
    \/ RecheckFlag(t)
    \/ PanicInTest(t)
    \/ ReturnEarly(t)
    \/ Reuse(t)
    \/ Claim(t)
    \/ ClaimFails(t)
    \/ WriteMutant(t)
    \/ RestoreFails(t)
    \/ ReadFails(t)
    \/ ApplyOrWriteFails(t)
    \/ RunTests(t)
    \/ ResetArea(t)
    \/ ResetFails(t)

AreaNext ==
    \/ InterruptRun
    \/ \E t \in Threads : WorkArea(t)
    \/ ConcludeRun

AreaSafety == AreaInit /\ [][AreaNext]_allVars

AreaSpec ==
    /\ AreaSafety
    /\ \A t \in Threads : WF_allVars(WorkArea(t))
    /\ WF_allVars(ConcludeRun)

-----------------------------------------------------------------------------
\* The sources that are each worker's own.  The limit of what follows: parallel
\* workers share the files below a directory named target, so there a worker's
\* tests can see the mutant of another, and a mutant can be built upon another.
Private == {s \in Sources : Sequential \/ s \notin BelowTarget}

\* The tests of a mutant find each private source as the user has it, except
\* for that one mutation, and nothing that tests left outside Cargo's target
\* directory: nothing of an earlier mutant, of its tests, or of another worker.
\* (Cargo's target directory is kept on purpose, execution.rs:4436, with
\* whatever tests left in it.)
TestsSeeOneMutant ==
    \A t \in Threads : phase[t] = "run" =>
        /\ \A s \in Private :
              Text(t, s) = IF s = Target(t) THEN {current[t]}
                           ELSE Clean(RootOfCandidate(current[t])).files[s]
        /\ "elsewhere" \notin Tree(t).litter

\* Whatever else is wrong with an area, the tests of a mutant never run with
\* a second mutation in a private source, so no verdict is credited to the
\* wrong mutant.
MutationsNeverMix ==
    \A t \in Threads : phase[t] = "run" =>
        \A s \in Private : Text(t, s) \notin {Absent, Broken} => Text(t, s) \subseteq {current[t]}

\* When a run returns, whatever it returns, the only temporary workspaces left
\* are those whose own removal failed.
NoAreaLeft ==
    outcome # "running" => \A a \in Areas : tree[a] # NoArea => a \in stuck

\* The threads take, test and give up candidates as WorkerPool says.
ImplementsPool == FairSpec
=============================================================================
