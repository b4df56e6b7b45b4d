------------------------------ MODULE Invocation ------------------------------
(***************************************************************************)
(* One mutarust command after another on one project, and the baseline     *)
(* file they share: run_mutation_tests, start_mutation_run and             *)
(* finish_mutation_run in src/main.rs with src/baseline.rs.  The project   *)
(* may change, the file may be removed and a command may be killed between *)
(* any two steps.                                                          *)
(*                                                                         *)
(* A mutant is its stable ID; the results of a run are its escaped mutants.*)
(* Whether the scores reach their minimums is left open (see ScoreGates).  *)
(***************************************************************************)
CONSTANTS
    Mutants,    \* the mutants of the project
    Reports     \* the reports a command can enable

VARIABLES
    escapes,    \* the mutants that no test of the present code kills
    fileIs,     \* the baseline file: "missing", "broken" or "valid"
    fileIds,    \* the IDs of a valid baseline file
    command,    \* the options of the present or the latest command
    pc,         \* its next step, "idle" when it has ended
    accepted,   \* Baseline::accepted_ids, read at the start
    found,      \* the escaped mutants of MutationRun::results
    written,    \* the reports written by the command
    exit,       \* how it ended
    fresh,      \* history: the code has not changed since its mutants ran
    recorded,   \* history: the escaped mutants of all updates
    settled,    \* history: neither code nor file changed since the last update
    settledScope \* history: the mutants the last update ran

options == <<command, accepted, found>>
file == <<fileIs, fileIds>>
history == <<recorded, settled, settledScope>>
vars == <<escapes, file, options, pc, written, exit, fresh, history>>

Modes == {"test", "generate", "oneMutant"}
Exits == {"none", "killed", "ok", "stdoutFailed", "failed", "scoreGate", "escapedGate"}
Steps == {"idle", "load", "run", "truncate", "write", "announce", "print", "report", "gate"}

\* "generate" stands for --dry-run and --no-exec, which baseline_control_error
\* rejects together with --update-baseline, as it does --run-mutant-id.
Commands ==
    {c \in [update : BOOLEAN, failOnEscaped : BOOLEAN, ignoreEmpty : BOOLEAN,
            mode : Modes, scope : SUBSET Mutants, reports : SUBSET Reports] :
        /\ c.update => c.mode = "test"
        /\ c.mode = "oneMutant" => \E m \in Mutants : c.scope = {m}}

NoCommand == [update |-> FALSE, failOnEscaped |-> FALSE, ignoreEmpty |-> FALSE,
              mode |-> "test", scope |-> {}, reports |-> {}]

\* The process ends with an exit value; its memory is gone.
End(how) ==
    /\ pc' = "idle"
    /\ exit' = how
    /\ accepted' = {}

Go(step) ==
    /\ pc' = step
    /\ UNCHANGED <<exit, accepted>>

-----------------------------------------------------------------------------
Init ==
    /\ escapes \in SUBSET Mutants
    /\ fileIs = "missing" /\ fileIds = {}
    /\ command = NoCommand
    /\ pc = "idle"
    /\ accepted = {} /\ found = {} /\ written = {}
    /\ exit = "none"
    /\ fresh = FALSE
    /\ recorded = {}
    /\ settled = FALSE /\ settledScope = {}

\* The command line has been parsed and validated.
Start(c) ==
    /\ pc = "idle"
    /\ command' = c
    /\ pc' = "load"
    /\ exit' = "none"
    /\ found' = {} /\ written' = {}
    /\ fresh' = FALSE
    /\ UNCHANGED <<escapes, file, accepted, history>>

\* Mistake: a file that does not parse counts as a missing one.
LoadBrokenAsMissing ==
    /\ pc = "load"
    /\ accepted' = IF fileIs = "valid" THEN fileIds ELSE {}
    /\ pc' = "run" /\ exit' = exit
    /\ UNCHANGED <<escapes, file, command, found, written, fresh, history>>

\* Baseline::load; a file that cannot be read or parsed ends the command.
Load ==
    /\ pc = "load"
    /\ \/ /\ fileIs \in {"missing", "valid"}
          /\ accepted' = IF fileIs = "valid" THEN fileIds ELSE {}
          /\ pc' = "run" /\ exit' = exit
       \/ End("failed")
    /\ UNCHANGED <<escapes, file, command, found, written, fresh, history>>

\* The configuration, the test command and the whole mutation run.
Run ==
    /\ pc = "run"
    /\ \/ /\ found' = IF command.mode = "generate" THEN {} ELSE escapes \cap command.scope
          /\ fresh' = TRUE
          /\ Go(IF command.update THEN "truncate" ELSE "print")
       \/ End("failed") /\ UNCHANGED <<found, fresh>>
    /\ UNCHANGED <<escapes, file, command, written, history>>

\* fs::write opens the file, which empties it, ...
Truncate ==
    /\ pc = "truncate"
    /\ \/ /\ fileIs' = "broken" /\ fileIds' = {} /\ settled' = FALSE
          /\ Go("write")
       \/ End("failed") /\ UNCHANGED <<file, settled>>
    /\ UNCHANGED <<escapes, command, found, written, fresh, recorded, settledScope>>

\* ... and fills it with the document of the given mutants.  A file removed in
\* between stays removed.
WriteDocument(ids) ==
    /\ pc = "write"
    /\ \/ /\ fileIs = "broken"
          /\ fileIs' = "valid" /\ fileIds' = ids
          /\ recorded' = recorded \cup found
          /\ settled' = fresh /\ settledScope' = command.scope
          /\ Go("announce")
       \/ fileIs = "missing" /\ Go("announce") /\ UNCHANGED <<file, history>>
       \/ End("failed") /\ UNCHANGED <<file, history>>
    /\ UNCHANGED <<escapes, command, found, written, fresh>>

\* Mistake: every result is written, whatever its state.
WriteAllResults == WriteDocument(command.scope)

\* Mistake: only the escaped mutants the old file does not accept are written.
WriteNewEscapes == WriteDocument(found \ accepted)

\* Mistake: old entries the run did not see again are kept.
WriteMerged == WriteDocument(found \cup accepted)

Write == WriteDocument(found)

\* The line that tells of the update goes to standard output.
Announce ==
    /\ pc = "announce"
    /\ End("ok") \/ End("stdoutFailed")
    /\ UNCHANGED <<escapes, file, command, found, written, fresh, history>>

\* The total of a generating run, or the results and the summary.
PrintResults ==
    /\ pc = "print"
    /\ Go("report") \/ End("stdoutFailed")
    /\ UNCHANGED <<escapes, file, command, found, written, fresh, history>>

\* Every enabled report is tried; one that fails makes the command fail.
WriteReports ==
    /\ pc = "report"
    /\ written' \in SUBSET command.reports
    /\ IF written' # command.reports THEN End("failed")
       ELSE IF command.mode = "test" THEN Go("gate") ELSE End("ok")
    /\ UNCHANGED <<escapes, file, command, found, fresh, history>>

NewEscapes == found \ accepted

\* score_gates: the minimum scores come before the escaped mutants.
Gate ==
    /\ pc = "gate"
    /\ IF command.ignoreEmpty /\ command.scope = {} THEN End("ok")
       ELSE \/ End("scoreGate")
            \/ command.failOnEscaped /\ NewEscapes # {} /\ End("escapedGate")
            \/ (command.failOnEscaped => NewEscapes = {}) /\ End("ok")
    /\ UNCHANGED <<escapes, file, command, found, written, fresh, history>>

Kill ==
    /\ pc # "idle"
    /\ End("killed")
    /\ UNCHANGED <<escapes, file, command, found, written, fresh, history>>

\* Code and tests change: other mutants escape.
EditCode ==
    /\ escapes' \in SUBSET Mutants \ {escapes}
    /\ fresh' = FALSE /\ settled' = FALSE
    /\ UNCHANGED <<file, options, pc, written, exit, recorded, settledScope>>

RemoveFile ==
    /\ fileIs # "missing"
    /\ fileIs' = "missing" /\ fileIds' = {}
    /\ settled' = FALSE
    /\ UNCHANGED <<escapes, options, pc, written, exit, fresh, recorded, settledScope>>

Next ==
    \/ \E c \in Commands : Start(c)
    \/ Load \/ Run
    \/ Truncate \/ Write \/ Announce
    \/ PrintResults \/ WriteReports \/ Gate
    \/ Kill \/ EditCode \/ RemoveFile

Spec == Init /\ [][Next]_vars

-----------------------------------------------------------------------------
TypeOK ==
    /\ escapes \in SUBSET Mutants
    /\ fileIs \in {"missing", "broken", "valid"}
    /\ fileIds \in SUBSET Mutants
    /\ command \in Commands
    /\ pc \in Steps
    /\ accepted \in SUBSET Mutants
    /\ found \in SUBSET command.scope
    /\ written \in SUBSET command.reports
    /\ exit \in Exits
    /\ fresh \in BOOLEAN
    /\ recorded \in SUBSET Mutants
    /\ settled \in BOOLEAN
    /\ settledScope \in SUBSET Mutants

Gated == exit = "ok" /\ ~command.update /\ command.mode = "test" /\ command.failOnEscaped

\* A command that passes its escaped-mutant gate has only escaped mutants that
\* an earlier update saw escape: nothing else ever enters a baseline.
OnlyRecordedEscapesPass == Gated => found \subseteq recorded

\* After an update, and until the code or the file changes, the gate of the
\* escaped mutants stops no command that stays within the mutants of the update.
UpdateSettles ==
    settled /\ exit = "escapedGate" => ~(command.scope \subseteq settledScope)

\* A baseline that an update left half written lets no later command succeed,
\* an update included, until somebody removes it.
TornBaselineStops == exit = "ok" => fileIs # "broken"

\* An exit value of the gates or of success tells that every enabled report
\* is there, of this run; an update writes none (docs/cli.md:134-136).
ReportsPrecedeGates ==
    exit \in {"ok", "scoreGate", "escapedGate"} =>
        written = IF command.update THEN {} ELSE command.reports

\* A mutant stays accepted only as long as it escapes: what the latest update
\* ran and did not see escape is not in its file.
UpdateForgetsKilled ==
    settled => fileIds \cap settledScope \subseteq escapes
=============================================================================
