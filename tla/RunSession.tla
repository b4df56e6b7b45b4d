------------------------------ MODULE RunSession ------------------------------
(***************************************************************************)
(* Mutation runs in one process: run_mutation_tests_with_controls and the  *)
(* interrupt handling (unix) in src/execution.rs.  Any thread of the       *)
(* program may start a run.  MUTATION_RUN_LOCK lets one run proceed; that  *)
(* run clears MUTATION_RUN_INTERRUPTED, installs its SIGINT handler and    *)
(* goes through its stages; leaving it puts the previous handler back and  *)
(* then releases the lock.  SIGINT may come at any time, and ends the      *)
(* process when the program's own handler receives it.                     *)
(***************************************************************************)
EXTENDS Naturals

CONSTANTS
    Callers,   \* the threads that start a run each
    Modes      \* the execution controls a run can have

\* What a run's controls and its test command decide about its stages.
Mode == [cargo : BOOLEAN,        \* TestExecution::uses_cargo
         coefficient : BOOLEAN,  \* timeout_coefficient is given
         git : BOOLEAN,          \* git_diff.enabled
         dry : BOOLEAN,          \* dry_run
         noExec : BOOLEAN,       \* no_exec
         coverage : BOOLEAN]     \* coverage.enabled or coverage.per_test

ASSUME ModesAssumption == Modes \subseteq Mode
ASSUME CallersAssumption == "nobody" \notin Callers

VARIABLES
    mode,      \* the controls of each caller's run
    stage,     \* where each caller is
    outcome,   \* what its run returns
    planned,   \* it has candidates to test
    holder,    \* who holds MUTATION_RUN_LOCK, or "nobody"
    poisoned,  \* a run panicked while it held the lock
    flag,      \* MUTATION_RUN_INTERRUPTED
    handler,   \* the SIGINT disposition: "program" or "recorder"
    previous,  \* InterruptGuard::previous
    alive      \* the process runs

vars == <<mode, stage, outcome, planned, holder, poisoned, flag,
          handler, previous, alive>>

run == <<mode, planned>>
signals == <<flag, handler, previous>>

\* The stages between the handler's installation and its removal, in order.
Guarded == {"diff", "plan", "check", "decide", "coverage", "clean", "test", "restore"}

\* A stage that ran to its end goes on with the next one that has work to do.
GoTo(c, s) == stage' = [stage EXCEPT ![c] = s]

Ends(c, s, o) ==
    /\ GoTo(c, s)
    /\ outcome' = [outcome EXCEPT ![c] = o]

\* Every error, success or panic of a guarded stage unwinds the same way.
Leaves(c, o) == Ends(c, "restore", o)

Init ==
    /\ mode \in [Callers -> Modes]
    /\ stage = [c \in Callers |-> "validate"]
    /\ outcome = [c \in Callers |-> "none"]
    /\ planned = [c \in Callers |-> FALSE]
    /\ holder = "nobody"
    /\ poisoned = FALSE
    /\ flag = FALSE
    /\ handler = "program"
    /\ previous = [c \in Callers |-> "program"]
    /\ alive = TRUE

-----------------------------------------------------------------------------
(* Starting a run.                                                         *)

\* Mistake: a run clears the flag before it has the lock.
ValidateClears(c) ==
    /\ stage[c] = "validate"
    /\ flag' = FALSE
    /\ GoTo(c, "lock")
    /\ UNCHANGED <<run, outcome, holder, poisoned, handler, previous>>

Validate(c) ==
    /\ stage[c] = "validate"
    /\ IF mode[c].coefficient /\ ~mode[c].cargo
       THEN Ends(c, "returned", "error")
       ELSE GoTo(c, "lock") /\ UNCHANGED outcome
    /\ UNCHANGED <<run, holder, poisoned, signals>>

\* Mistake: the lock's guard is dropped at once (let _ = lock()).
LockDropped(c) ==
    /\ stage[c] = "lock"
    /\ holder = "nobody"
    /\ GoTo(c, "clear")
    /\ UNCHANGED <<run, outcome, holder, poisoned, signals>>

Lock(c) ==
    /\ stage[c] = "lock"
    /\ holder = "nobody"
    /\ IF poisoned
       THEN Ends(c, "returned", "error") /\ UNCHANGED holder
       ELSE GoTo(c, "clear") /\ holder' = c /\ UNCHANGED outcome
    /\ UNCHANGED <<run, poisoned, signals>>

\* prepare_interrupt_handling, in two steps a signal can come between.
ClearFlag(c) ==
    /\ stage[c] = "clear"
    /\ flag' = FALSE
    /\ GoTo(c, "install")
    /\ UNCHANGED <<run, outcome, holder, poisoned, handler, previous>>

\* Mistake: the lock stays locked when the handler is not installed.
InstallLeaksLock(c) ==
    /\ stage[c] = "install"
    /\ \/ /\ handler' = "recorder"
          /\ previous' = [previous EXCEPT ![c] = handler]
          /\ GoTo(c, "diff")
          /\ UNCHANGED outcome
       \/ /\ Ends(c, "returned", "error")
          /\ UNCHANGED <<handler, previous>>
    /\ UNCHANGED <<run, holder, poisoned, flag>>

Install(c) ==
    /\ stage[c] = "install"
    /\ \/ /\ handler' = "recorder"
          /\ previous' = [previous EXCEPT ![c] = handler]
          /\ GoTo(c, "diff")
          /\ UNCHANGED outcome
       \/ /\ Ends(c, "unlock", "error")
          /\ UNCHANGED <<handler, previous>>
    /\ UNCHANGED <<run, holder, poisoned, flag>>

-----------------------------------------------------------------------------
(* The stages of a run.                                                    *)

LoadDiff(c) ==
    /\ stage[c] = "diff"
    /\ \/ GoTo(c, "plan") /\ UNCHANGED outcome
       \/ mode[c].git /\ Leaves(c, "error")
    /\ UNCHANGED <<run, holder, poisoned, signals>>

\* Blacklist::load, mutation_plan and selected_mutation_plan.
Plan(c) ==
    /\ stage[c] = "plan"
    /\ \/ /\ GoTo(c, "check")
          /\ \E some \in BOOLEAN : planned' = [planned EXCEPT ![c] = some]
          /\ UNCHANGED outcome
       \/ Leaves(c, "error") /\ UNCHANGED planned
    /\ UNCHANGED <<mode, holder, poisoned, signals>>

\* stop_if_interrupted.
CheckFlag(c) ==
    /\ stage[c] = "check"
    /\ IF flag
       THEN Leaves(c, "interrupted")
       ELSE GoTo(c, "decide") /\ UNCHANGED outcome
    /\ UNCHANGED <<run, holder, poisoned, signals>>

\* A git run without candidates and a dry run end here.
Decide(c) ==
    /\ stage[c] = "decide"
    /\ IF mode[c].dry \/ (mode[c].git /\ ~planned[c])
       THEN Leaves(c, "ok")
       ELSE GoTo(c, "coverage") /\ UNCHANGED outcome
    /\ UNCHANGED <<run, holder, poisoned, signals>>

\* A stage that runs commands: it succeeds, fails, or stops when it sees the
\* flag, in a wait or between two commands.
RunsCommands(c, next) ==
    \/ GoTo(c, next) /\ UNCHANGED outcome
    \/ Leaves(c, "error")
    \/ flag /\ Leaves(c, "interrupted")

CollectCoverage(c) ==
    /\ stage[c] = "coverage"
    /\ \/ ~mode[c].coverage /\ GoTo(c, "clean") /\ UNCHANGED outcome
       \/ mode[c].coverage /\ ~mode[c].cargo /\ Leaves(c, "error")
       \/ mode[c].coverage /\ mode[c].cargo /\ RunsCommands(c, "clean")
    /\ UNCHANGED <<run, holder, poisoned, signals>>

NeedsCleanSuite(c) == mode[c].cargo /\ ~mode[c].noExec

TestCleanWorkspaces(c) ==
    /\ stage[c] = "clean"
    /\ IF NeedsCleanSuite(c)
       THEN RunsCommands(c, "test")
       ELSE GoTo(c, "test") /\ UNCHANGED outcome
    /\ UNCHANGED <<run, holder, poisoned, signals>>

\* test_candidates (see RunContract) reads the flag once more after the last
\* mutant, when there is one; a worker that panicked is an error.
TestCandidates(c) ==
    /\ stage[c] = "test"
    /\ \/ flag /\ planned[c] /\ Leaves(c, "interrupted")
       \/ ~(flag /\ planned[c]) /\ Leaves(c, "ok")
       \/ planned[c] /\ Leaves(c, "error")
    /\ UNCHANGED <<run, holder, poisoned, signals>>

Panic(c) ==
    /\ stage[c] \in Guarded \ {"restore"}
    /\ Leaves(c, "panicked")
    /\ UNCHANGED <<run, holder, poisoned, signals>>

-----------------------------------------------------------------------------
(* Leaving a run: the guard is dropped before the lock, which was declared *)
(* before it.  Releasing the lock in a panic poisons it.                   *)

\* Mistake: a panic leaves the handler installed.
RestoreUnlessPanicked(c) ==
    /\ stage[c] = "restore"
    /\ handler' = IF outcome[c] = "panicked" THEN handler ELSE previous[c]
    /\ GoTo(c, "unlock")
    /\ UNCHANGED <<run, outcome, holder, poisoned, flag, previous>>

Restore(c) ==
    /\ stage[c] = "restore"
    /\ handler' = previous[c]
    /\ GoTo(c, "unlock")
    /\ UNCHANGED <<run, outcome, holder, poisoned, flag, previous>>

Unlock(c) ==
    /\ stage[c] = "unlock"
    /\ holder' = "nobody"
    /\ poisoned' = (poisoned \/ outcome[c] = "panicked")
    /\ GoTo(c, "returned")
    /\ UNCHANGED <<run, outcome, signals>>

\* record_interrupt, or the program's own disposition.
Signal ==
    /\ IF handler = "recorder"
       THEN flag' = TRUE /\ UNCHANGED alive
       ELSE alive' = FALSE /\ UNCHANGED flag
    /\ UNCHANGED <<mode, stage, outcome, planned, holder, poisoned, handler, previous>>

-----------------------------------------------------------------------------
Step(c) ==
    \/ Validate(c) \/ Lock(c) \/ ClearFlag(c) \/ Install(c)
    \/ LoadDiff(c) \/ Plan(c) \/ CheckFlag(c) \/ Decide(c)
    \/ CollectCoverage(c) \/ TestCleanWorkspaces(c) \/ TestCandidates(c)
    \/ Panic(c) \/ Restore(c) \/ Unlock(c)

Next ==
    /\ alive
    /\ \/ Signal
       \/ \E c \in Callers : Step(c) /\ UNCHANGED alive

Spec == Init /\ [][Next]_vars

\* Threads are scheduled, and a thread waiting for the lock gets it.
FairSpec == Spec /\ \A c \in Callers : WF_vars(alive /\ Step(c) /\ UNCHANGED alive)

-----------------------------------------------------------------------------
TypeOK ==
    /\ mode \in [Callers -> Mode]
    /\ stage \in [Callers -> {"validate", "lock", "clear", "install", "unlock", "returned"}
                                \cup Guarded]
    /\ outcome \in [Callers -> {"none", "ok", "error", "interrupted", "panicked"}]
    /\ planned \in [Callers -> BOOLEAN]
    /\ holder \in Callers \cup {"nobody"}
    /\ poisoned \in BOOLEAN
    /\ flag \in BOOLEAN
    /\ handler \in {"program", "recorder"}
    /\ previous \in [Callers -> {"program", "recorder"}]
    /\ alive \in BOOLEAN

\* While a run goes through its stages its own handler receives SIGINT: no other
\* run that starts or ends takes it away, so no signal ends the process with
\* temporary workspaces and test commands left behind.
RunIsGuarded ==
    \A c \in Callers : stage[c] \in Guarded => handler = "recorder"

\* When no run is under way the program has its own handler back.
HandlerIsRestored ==
    (\A c \in Callers : stage[c] \in {"validate", "lock", "returned"})
        => handler = "program"

\* An interrupt recorded during a run stays recorded until that run left its
\* stages: no other run that waits for the lock clears it.
InterruptIsKept ==
    [][\A c \in Callers :
          stage[c] \in Guarded /\ stage'[c] \in Guarded /\ flag => flag']_vars

\* Every run returns, unless a signal ended the process.
EveryRunReturns == \A c \in Callers : <>(stage[c] = "returned" \/ ~alive)
=============================================================================
