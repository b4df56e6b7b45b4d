--------------------------- MODULE Invocation_proofs ---------------------------
(*************************************************************************)
(* Proofs about a command.                                               *)
(*                                                                       *)
(* Invocation, for every set of mutants and of reports: what a baseline  *)
(* file can make a command accept, and what an update promises the       *)
(* commands after it.                                                    *)
(*                                                                       *)
(* Policy, for every command line, configuration file and registry:      *)
(* which mutators run, and that no option of an accepted command goes    *)
(* unheeded.                                                             *)
(*                                                                       *)
(* ScoreGates, for every precision and every number of results that      *)
(* leaves it eight bits: the gates decide as the exact scores would.     *)
(*************************************************************************)
EXTENDS Invocation, Policy, ScoreGates, ListFacts

\* The steps between the load of the baseline and the end of a normal command.
Loaded == {"run", "truncate", "print", "report", "gate"}

\* Where a command is, given its options and what it has done so far.
StepsInOrder ==
    /\ pc # "idle" => exit = "none"
    /\ pc \in {"truncate", "write", "announce"} => command.update
    /\ pc \in {"print", "report", "gate"} => ~command.update
    /\ pc = "gate" => command.mode = "test" /\ written = command.reports
    /\ pc \notin {"gate", "idle"} => written = {}

\* Only escaped mutants of an update enter the file or the memory of a command.
RecordedOnly == fileIds \subseteq recorded /\ accepted \subseteq recorded

\* A command that has loaded the file goes on only if it was not broken.
UnbrokenLoaded == pc \in Loaded \cup {"announce"} => fileIs # "broken"

\* As long as the code does not change the results stay right.
FreshResults ==
    fresh /\ command.mode = "test" /\ pc \in {"truncate", "write", "print", "report", "gate"} =>
        found = escapes \cap command.scope

\* What the last update leaves until the code or the file changes.
SettledFile ==
    settled =>
        /\ fileIs = "valid"
        /\ fileIds = escapes \cap settledScope
        /\ pc \in Loaded => accepted = fileIds
        /\ pc \in {"print", "report", "gate"} => fresh

CInv ==
    /\ TypeOK
    /\ StepsInOrder
    /\ RecordedOnly
    /\ UnbrokenLoaded
    /\ FreshResults
    /\ SettledFile
    /\ OnlyRecordedEscapesPass
    /\ UpdateSettles
    /\ TornBaselineStops
    /\ ReportsPrecedeGates

-----------------------------------------------------------------------------
\* The fields of a command.
LEMMA CommandFields ==
    ASSUME NEW c \in Commands
    PROVE  /\ c.update \in BOOLEAN /\ c.failOnEscaped \in BOOLEAN /\ c.ignoreEmpty \in BOOLEAN
           /\ c.mode \in Modes
           /\ c.scope \in SUBSET Mutants /\ c.reports \in SUBSET Reports
           /\ c.update => c.mode = "test"
BY DEF Commands

\* No command has run yet.
LEMMA NoCommandIsOne == NoCommand \in Commands
BY DEF NoCommand, Commands, Modes

LEMMA InvInit == Init => CInv
<1>1. SUFFICES ASSUME Init PROVE CInv
  OBVIOUS
<1>2. TypeOK
  BY <1>1, NoCommandIsOne DEF Init, TypeOK, Steps, Exits
<1>3. /\ StepsInOrder /\ RecordedOnly /\ UnbrokenLoaded /\ FreshResults /\ SettledFile
      /\ OnlyRecordedEscapesPass /\ UpdateSettles /\ TornBaselineStops /\ ReportsPrecedeGates
  BY <1>1 DEF Init, StepsInOrder, RecordedOnly, UnbrokenLoaded, FreshResults, SettledFile, Loaded,
              OnlyRecordedEscapesPass, Gated, UpdateSettles, TornBaselineStops,
              ReportsPrecedeGates
<1> QED
  BY <1>2, <1>3 DEF CInv

-----------------------------------------------------------------------------
\* Every step keeps the invariant: first what each variable may be, then the
\* order of the steps and what the file holds, then the properties themselves.
LEMMA InvNext == CInv /\ [Next]_vars => CInv'
<1> SUFFICES ASSUME CInv, [Next]_vars PROVE CInv'
  OBVIOUS
<1> USE DEF CInv
<1>f. /\ command.update \in BOOLEAN /\ command.mode \in Modes
      /\ command.scope \in SUBSET Mutants /\ command.reports \in SUBSET Reports
      /\ command.update => command.mode = "test"
  BY CommandFields DEF TypeOK
<1>1. ASSUME NEW c \in Commands, Start(c) PROVE CInv'
  <2>f. c.scope \in SUBSET Mutants /\ c.reports \in SUBSET Reports
    BY CommandFields
  <2>1. TypeOK'
    BY <1>1, <1>f, <2>f DEF TypeOK, Steps, Exits, Start, options, file, history
  <2>2. StepsInOrder' /\ RecordedOnly' /\ UnbrokenLoaded'
    BY <1>1, <1>f, <2>f DEF TypeOK, StepsInOrder, RecordedOnly, UnbrokenLoaded, Loaded, Modes, Start, options, file, history
  <2>3. FreshResults' /\ SettledFile'
    BY <1>1, <1>f, <2>f DEF TypeOK, StepsInOrder, UnbrokenLoaded, FreshResults, SettledFile, Loaded, Start, options, file, history
  <2>4. OnlyRecordedEscapesPass' /\ UpdateSettles'
    BY <1>1, <1>f, <2>f DEF TypeOK, StepsInOrder, RecordedOnly, FreshResults, SettledFile, Loaded,
       OnlyRecordedEscapesPass, Gated, UpdateSettles, Start, options, file, history
  <2>5. TornBaselineStops' /\ ReportsPrecedeGates'
    BY <1>1, <1>f, <2>f DEF TypeOK, StepsInOrder, UnbrokenLoaded, Loaded, TornBaselineStops,
       ReportsPrecedeGates, Start, options, file, history
  <2> QED
    BY <2>1, <2>2, <2>3, <2>4, <2>5
<1>2. ASSUME Load PROVE CInv'
  <2>1. TypeOK'
    BY <1>2, <1>f DEF TypeOK, Steps, Exits, Load, End, options, file, history
  <2>2. StepsInOrder' /\ RecordedOnly' /\ UnbrokenLoaded'
    BY <1>2, <1>f DEF TypeOK, StepsInOrder, RecordedOnly, UnbrokenLoaded, Loaded, Modes, Load, End, options, file, history
  <2>3. FreshResults' /\ SettledFile'
    BY <1>2, <1>f DEF TypeOK, StepsInOrder, UnbrokenLoaded, FreshResults, SettledFile, Loaded, Load, End, options, file, history
  <2>4. OnlyRecordedEscapesPass' /\ UpdateSettles'
    BY <1>2, <1>f DEF TypeOK, StepsInOrder, RecordedOnly, FreshResults, SettledFile, Loaded,
       OnlyRecordedEscapesPass, Gated, UpdateSettles, Load, End, options, file, history
  <2>5. TornBaselineStops' /\ ReportsPrecedeGates'
    BY <1>2, <1>f DEF TypeOK, StepsInOrder, UnbrokenLoaded, Loaded, TornBaselineStops,
       ReportsPrecedeGates, Load, End, options, file, history
  <2> QED
    BY <2>1, <2>2, <2>3, <2>4, <2>5
<1>3. ASSUME Run PROVE CInv'
  <2>1. TypeOK'
    BY <1>3, <1>f DEF TypeOK, Steps, Exits, Run, End, Go, options, file, history
  <2>2. StepsInOrder' /\ RecordedOnly' /\ UnbrokenLoaded'
    BY <1>3, <1>f DEF TypeOK, StepsInOrder, RecordedOnly, UnbrokenLoaded, Loaded, Modes, Run, End, Go, options, file, history
  <2>3. FreshResults' /\ SettledFile'
    BY <1>3, <1>f DEF TypeOK, StepsInOrder, UnbrokenLoaded, FreshResults, SettledFile, Loaded, Run, End, Go, options, file, history
  <2>4. OnlyRecordedEscapesPass' /\ UpdateSettles'
    BY <1>3, <1>f DEF TypeOK, StepsInOrder, RecordedOnly, FreshResults, SettledFile, Loaded,
       OnlyRecordedEscapesPass, Gated, UpdateSettles, Run, End, Go, options, file, history
  <2>5. TornBaselineStops' /\ ReportsPrecedeGates'
    BY <1>3, <1>f DEF TypeOK, StepsInOrder, UnbrokenLoaded, Loaded, TornBaselineStops,
       ReportsPrecedeGates, Run, End, Go, options, file, history
  <2> QED
    BY <2>1, <2>2, <2>3, <2>4, <2>5
<1>4. ASSUME Truncate PROVE CInv'
  <2>1. TypeOK'
    BY <1>4, <1>f DEF TypeOK, Steps, Exits, Truncate, End, Go, options, file, history
  <2>2. StepsInOrder' /\ RecordedOnly' /\ UnbrokenLoaded'
    BY <1>4, <1>f DEF TypeOK, StepsInOrder, RecordedOnly, UnbrokenLoaded, Loaded, Modes, Truncate, End, Go, options, file, history
  <2>3. FreshResults' /\ SettledFile'
    BY <1>4, <1>f DEF TypeOK, StepsInOrder, UnbrokenLoaded, FreshResults, SettledFile, Loaded, Truncate, End, Go, options, file, history
  <2>4. OnlyRecordedEscapesPass' /\ UpdateSettles'
    BY <1>4, <1>f DEF TypeOK, StepsInOrder, RecordedOnly, FreshResults, SettledFile, Loaded,
       OnlyRecordedEscapesPass, Gated, UpdateSettles, Truncate, End, Go, options, file, history
  <2>5. TornBaselineStops' /\ ReportsPrecedeGates'
    BY <1>4, <1>f DEF TypeOK, StepsInOrder, UnbrokenLoaded, Loaded, TornBaselineStops,
       ReportsPrecedeGates, Truncate, End, Go, options, file, history
  <2> QED
    BY <2>1, <2>2, <2>3, <2>4, <2>5
<1>5. ASSUME Write PROVE CInv'
  <2>1. TypeOK'
    BY <1>5, <1>f DEF TypeOK, Steps, Exits, Write, WriteDocument, End, Go, options, file, history
  <2>2. StepsInOrder' /\ RecordedOnly' /\ UnbrokenLoaded'
    BY <1>5, <1>f DEF TypeOK, StepsInOrder, RecordedOnly, UnbrokenLoaded, Loaded, Modes, Write, WriteDocument, End, Go, options, file, history
  <2>3. FreshResults' /\ SettledFile'
    BY <1>5, <1>f DEF TypeOK, StepsInOrder, UnbrokenLoaded, FreshResults, SettledFile, Loaded, Write, WriteDocument, End, Go, options, file, history
  <2>4. OnlyRecordedEscapesPass' /\ UpdateSettles'
    BY <1>5, <1>f DEF TypeOK, StepsInOrder, RecordedOnly, FreshResults, SettledFile, Loaded,
       OnlyRecordedEscapesPass, Gated, UpdateSettles, Write, WriteDocument, End, Go, options, file, history
  <2>5. TornBaselineStops' /\ ReportsPrecedeGates'
    BY <1>5, <1>f DEF TypeOK, StepsInOrder, UnbrokenLoaded, Loaded, TornBaselineStops,
       ReportsPrecedeGates, Write, WriteDocument, End, Go, options, file, history
  <2> QED
    BY <2>1, <2>2, <2>3, <2>4, <2>5
<1>6. ASSUME Announce PROVE CInv'
  <2>1. TypeOK'
    BY <1>6, <1>f DEF TypeOK, Steps, Exits, Announce, End, options, file, history
  <2>2. StepsInOrder' /\ RecordedOnly' /\ UnbrokenLoaded'
    BY <1>6, <1>f DEF TypeOK, StepsInOrder, RecordedOnly, UnbrokenLoaded, Loaded, Modes, Announce, End, options, file, history
  <2>3. FreshResults' /\ SettledFile'
    BY <1>6, <1>f DEF TypeOK, StepsInOrder, UnbrokenLoaded, FreshResults, SettledFile, Loaded, Announce, End, options, file, history
  <2>4. OnlyRecordedEscapesPass' /\ UpdateSettles'
    BY <1>6, <1>f DEF TypeOK, StepsInOrder, RecordedOnly, FreshResults, SettledFile, Loaded,
       OnlyRecordedEscapesPass, Gated, UpdateSettles, Announce, End, options, file, history
  <2>5. TornBaselineStops' /\ ReportsPrecedeGates'
    BY <1>6, <1>f DEF TypeOK, StepsInOrder, UnbrokenLoaded, Loaded, TornBaselineStops,
       ReportsPrecedeGates, Announce, End, options, file, history
  <2> QED
    BY <2>1, <2>2, <2>3, <2>4, <2>5
<1>7. ASSUME PrintResults PROVE CInv'
  <2>1. TypeOK'
    BY <1>7, <1>f DEF TypeOK, Steps, Exits, PrintResults, End, Go, options, file, history
  <2>2. StepsInOrder' /\ RecordedOnly' /\ UnbrokenLoaded'
    BY <1>7, <1>f DEF TypeOK, StepsInOrder, RecordedOnly, UnbrokenLoaded, Loaded, Modes, PrintResults, End, Go, options, file, history
  <2>3. FreshResults' /\ SettledFile'
    BY <1>7, <1>f DEF TypeOK, StepsInOrder, UnbrokenLoaded, FreshResults, SettledFile, Loaded, PrintResults, End, Go, options, file, history
  <2>4. OnlyRecordedEscapesPass' /\ UpdateSettles'
    BY <1>7, <1>f DEF TypeOK, StepsInOrder, RecordedOnly, FreshResults, SettledFile, Loaded,
       OnlyRecordedEscapesPass, Gated, UpdateSettles, PrintResults, End, Go, options, file, history
  <2>5. TornBaselineStops' /\ ReportsPrecedeGates'
    BY <1>7, <1>f DEF TypeOK, StepsInOrder, UnbrokenLoaded, Loaded, TornBaselineStops,
       ReportsPrecedeGates, PrintResults, End, Go, options, file, history
  <2> QED
    BY <2>1, <2>2, <2>3, <2>4, <2>5
<1>8. ASSUME WriteReports PROVE CInv'
  <2>1. TypeOK'
    BY <1>8, <1>f DEF TypeOK, Steps, Exits, WriteReports, End, Go, options, file, history, StepsInOrder
  <2>2. StepsInOrder' /\ RecordedOnly' /\ UnbrokenLoaded'
    BY <1>8, <1>f DEF TypeOK, StepsInOrder, RecordedOnly, UnbrokenLoaded, Loaded, Modes, WriteReports, End, Go, options, file, history
  <2>3. FreshResults' /\ SettledFile'
    BY <1>8, <1>f DEF TypeOK, StepsInOrder, UnbrokenLoaded, FreshResults, SettledFile, Loaded, WriteReports, End, Go, options, file, history
  <2>4. OnlyRecordedEscapesPass' /\ UpdateSettles'
    BY <1>8, <1>f DEF TypeOK, StepsInOrder, RecordedOnly, FreshResults, SettledFile, Loaded,
       OnlyRecordedEscapesPass, Gated, UpdateSettles, WriteReports, End, Go, options, file, history
  <2>5. TornBaselineStops' /\ ReportsPrecedeGates'
    BY <1>8, <1>f DEF TypeOK, StepsInOrder, UnbrokenLoaded, Loaded, TornBaselineStops,
       ReportsPrecedeGates, WriteReports, End, Go, options, file, history
  <2> QED
    BY <2>1, <2>2, <2>3, <2>4, <2>5
<1>9. ASSUME Gate PROVE CInv'
  <2>1. TypeOK'
    BY <1>9, <1>f DEF TypeOK, Steps, Exits, Gate, NewEscapes, End, options, file, history
  <2>2. StepsInOrder' /\ RecordedOnly' /\ UnbrokenLoaded'
    BY <1>9, <1>f DEF TypeOK, StepsInOrder, RecordedOnly, UnbrokenLoaded, Loaded, Modes, Gate, NewEscapes, End, options, file, history
  <2>3. FreshResults' /\ SettledFile'
    BY <1>9, <1>f DEF TypeOK, StepsInOrder, UnbrokenLoaded, FreshResults, SettledFile, Loaded, Gate, NewEscapes, End, options, file, history
  <2>4. OnlyRecordedEscapesPass' /\ UpdateSettles'
    BY <1>9, <1>f DEF TypeOK, StepsInOrder, RecordedOnly, FreshResults, SettledFile, Loaded,
       OnlyRecordedEscapesPass, Gated, UpdateSettles, Gate, NewEscapes, End, options, file, history
  <2>5. TornBaselineStops' /\ ReportsPrecedeGates'
    BY <1>9, <1>f DEF TypeOK, StepsInOrder, UnbrokenLoaded, Loaded, TornBaselineStops,
       ReportsPrecedeGates, Gate, NewEscapes, End, options, file, history
  <2> QED
    BY <2>1, <2>2, <2>3, <2>4, <2>5
<1>10. ASSUME Kill PROVE CInv'
  <2>1. TypeOK'
    BY <1>10, <1>f DEF TypeOK, Steps, Exits, Kill, End, options, file, history
  <2>2. StepsInOrder' /\ RecordedOnly' /\ UnbrokenLoaded'
    BY <1>10, <1>f DEF TypeOK, StepsInOrder, RecordedOnly, UnbrokenLoaded, Loaded, Modes, Kill, End, options, file, history
  <2>3. FreshResults' /\ SettledFile'
    BY <1>10, <1>f DEF TypeOK, StepsInOrder, UnbrokenLoaded, FreshResults, SettledFile, Loaded, Kill, End, options, file, history
  <2>4. OnlyRecordedEscapesPass' /\ UpdateSettles'
    BY <1>10, <1>f DEF TypeOK, StepsInOrder, RecordedOnly, FreshResults, SettledFile, Loaded,
       OnlyRecordedEscapesPass, Gated, UpdateSettles, Kill, End, options, file, history
  <2>5. TornBaselineStops' /\ ReportsPrecedeGates'
    BY <1>10, <1>f DEF TypeOK, StepsInOrder, UnbrokenLoaded, Loaded, TornBaselineStops,
       ReportsPrecedeGates, Kill, End, options, file, history
  <2> QED
    BY <2>1, <2>2, <2>3, <2>4, <2>5
<1>11. ASSUME EditCode PROVE CInv'
  <2>1. TypeOK'
    BY <1>11, <1>f DEF TypeOK, Steps, Exits, EditCode, options, file, history
  <2>2. StepsInOrder' /\ RecordedOnly' /\ UnbrokenLoaded'
    BY <1>11, <1>f DEF TypeOK, StepsInOrder, RecordedOnly, UnbrokenLoaded, Loaded, Modes, EditCode, options, file, history
  <2>3. FreshResults' /\ SettledFile'
    BY <1>11, <1>f DEF TypeOK, StepsInOrder, UnbrokenLoaded, FreshResults, SettledFile, Loaded, EditCode, options, file, history
  <2>4. OnlyRecordedEscapesPass' /\ UpdateSettles'
    BY <1>11, <1>f DEF TypeOK, StepsInOrder, RecordedOnly, FreshResults, SettledFile, Loaded,
       OnlyRecordedEscapesPass, Gated, UpdateSettles, EditCode, options, file, history
  <2>5. TornBaselineStops' /\ ReportsPrecedeGates'
    BY <1>11, <1>f DEF TypeOK, StepsInOrder, UnbrokenLoaded, Loaded, TornBaselineStops,
       ReportsPrecedeGates, EditCode, options, file, history
  <2> QED
    BY <2>1, <2>2, <2>3, <2>4, <2>5
<1>12. ASSUME RemoveFile PROVE CInv'
  <2>1. TypeOK'
    BY <1>12, <1>f DEF TypeOK, Steps, Exits, RemoveFile, options, file, history
  <2>2. StepsInOrder' /\ RecordedOnly' /\ UnbrokenLoaded'
    BY <1>12, <1>f DEF TypeOK, StepsInOrder, RecordedOnly, UnbrokenLoaded, Loaded, Modes, RemoveFile, options, file, history
  <2>3. FreshResults' /\ SettledFile'
    BY <1>12, <1>f DEF TypeOK, StepsInOrder, UnbrokenLoaded, FreshResults, SettledFile, Loaded, RemoveFile, options, file, history
  <2>4. OnlyRecordedEscapesPass' /\ UpdateSettles'
    BY <1>12, <1>f DEF TypeOK, StepsInOrder, RecordedOnly, FreshResults, SettledFile, Loaded,
       OnlyRecordedEscapesPass, Gated, UpdateSettles, RemoveFile, options, file, history
  <2>5. TornBaselineStops' /\ ReportsPrecedeGates'
    BY <1>12, <1>f DEF TypeOK, StepsInOrder, UnbrokenLoaded, Loaded, TornBaselineStops,
       ReportsPrecedeGates, RemoveFile, options, file, history
  <2> QED
    BY <2>1, <2>2, <2>3, <2>4, <2>5
<1>13. CASE UNCHANGED vars
  <2>1. TypeOK' /\ StepsInOrder' /\ RecordedOnly' /\ UnbrokenLoaded' /\ FreshResults' /\ SettledFile'
    BY <1>13 DEF TypeOK, StepsInOrder, RecordedOnly, UnbrokenLoaded, FreshResults, SettledFile, Loaded, vars, options, file, history
  <2>2. OnlyRecordedEscapesPass' /\ UpdateSettles' /\ TornBaselineStops' /\ ReportsPrecedeGates'
    BY <1>13 DEF OnlyRecordedEscapesPass, Gated, UpdateSettles, TornBaselineStops, ReportsPrecedeGates, vars, options, file, history
  <2> QED
    BY <2>1, <2>2
<1> QED
  BY <1>1, <1>2, <1>3, <1>4, <1>5, <1>6, <1>7, <1>8, <1>9, <1>10, <1>11, <1>12, <1>13 DEF Next

\* The invariant holds in every state of every behaviour.
THEOREM Invariance == Spec => []CInv
<1> QED
  BY InvInit, InvNext, PTL DEF Spec

\* The variables keep their types: Spec => []TypeOK.
THEOREM TypeCorrect == Spec => []TypeOK
<1>1. CInv => TypeOK
  BY DEF CInv
<1> QED
  BY <1>1, Invariance, PTL

\* Whatever a command that passes its escaped-mutant gate lets escape was
\* written by an update that saw it escape (Baseline::write, new_escaped_count).
THEOREM RecordedEscapesPass == Spec => []OnlyRecordedEscapesPass
<1>1. CInv => OnlyRecordedEscapesPass
  BY DEF CInv
<1> QED
  BY <1>1, Invariance, PTL

\* After an update the escaped-mutant gate stops no command within the
\* mutants of the update until the code or the file changes.
THEOREM UpdatesSettle == Spec => []UpdateSettles
<1>1. CInv => UpdateSettles
  BY DEF CInv
<1> QED
  BY <1>1, Invariance, PTL

\* No command succeeds on a half-written baseline (Baseline::load comes
\* first, for an update too).
THEOREM TornBaselinesStop == Spec => []TornBaselineStops
<1>1. CInv => TornBaselineStops
  BY DEF CInv
<1> QED
  BY <1>1, Invariance, PTL

\* An exit value of a gate or of success means that all enabled reports are
\* written (finish_mutation_run, report_exit_code).
THEOREM ReportsComeFirst == Spec => []ReportsPrecedeGates
<1>1. CInv => ReportsPrecedeGates
  BY DEF CInv
<1> QED
  BY <1>1, Invariance, PTL

\* An update's file accepts no mutant it ran and did not see escape.
THEOREM KilledAreForgotten == Spec => []UpdateForgetsKilled
<1>1. CInv => UpdateForgetsKilled
  BY DEF CInv, SettledFile, UpdateForgetsKilled
<1> QED
  BY <1>1, Invariance, PTL

-----------------------------------------------------------------------------
(* The options of an accepted command.                                   *)

\* What EndArguments finds wrong with the options of a command.
IsRefused(opted) ==
    \/ \E c \in Conflicts : c \subseteq opted
    \/ "--git-diff-base" \in opted /\ "--git-diff-lines" \notin opted

\* Every row of the tables takes from an option what it needs of the run.
LEMMA ConflictsAreUnsound ==
    ASSUME NEW opted, IsRefused(opted)
    PROVE  ~IsSound(opted)
<1>1. CASE "--git-diff-base" \in opted /\ "--git-diff-lines" \notin opted
  <2>1. "--git-diff-base" \in opted \ Unheeded(opted) /\ "diff" \notin Has(opted)
    BY <1>1 DEF Unheeded, Has
  <2>2. Needs("--git-diff-base") = {"diff"}
    BY DEF Needs
  <2>3. QED BY <2>1, <2>2 DEF IsSound
<1>2. ASSUME NEW c \in RunModeConflicts, c \subseteq opted PROVE ~IsSound(opted)
  BY <1>2 DEF RunModeConflicts, With, IsSound, Unheeded, Needs, Has
<1>3. ASSUME NEW c \in DryRunConflicts, c \subseteq opted PROVE ~IsSound(opted)
  <2>1. Has(opted) \cap {"areas", "workers", "tests", "cargo"} = {}
    BY <1>3 DEF DryRunConflicts, With, Has
  <2>2. PICK p \in c : p \in {"--do-not-remove-tmp-folder", "--timeout", "--timeout-coefficient",
                             "--test-flags", "--workers", "--test-recursive", "--coverage",
                             "--per-test"}
    BY <1>3 DEF DryRunConflicts, With
  <2>3. Needs(p) \in {{"areas"}, {"workers"}, {"tests"}, {"cargo"}}
    BY <2>2 DEF Needs
  <2>4. CASE p \in Unheeded(opted)
    <3>1. "--exec" \in opted \ Unheeded(opted)
      BY <2>4 DEF Unheeded
    <3>2. Needs("--exec") = {"tests"}
      BY DEF Needs
    <3>3. QED BY <2>1, <3>1, <3>2 DEF IsSound
  <2>5. CASE p \notin Unheeded(opted)
    BY <1>3, <2>1, <2>3, <2>5 DEF IsSound
  <2>6. QED BY <2>4, <2>5
<1>4. ASSUME NEW c \in CargoConflicts, c \subseteq opted PROVE ~IsSound(opted)
  <2>1. CASE c \in With("--timeout-coefficient", {"--timeout", "--exec", "--no-exec"})
    <3>1. CASE "--timeout" \in opted /\ "--timeout-coefficient" \in opted
      BY <3>1 DEF IsSound
    <3>2. CASE "cargo" \notin Has(opted) /\ "--timeout-coefficient" \in opted
      BY <3>2 DEF IsSound, Unheeded, Needs
    <3>3. QED BY <1>4, <2>1, <3>1, <3>2 DEF With, Has
  <2>2. CASE c \in With("--no-exec", {"--timeout", "--test-flags", "--test-recursive"})
    <3>1. Has(opted) \cap {"tests", "cargo"} = {}
      BY <1>4, <2>2 DEF With, Has
    <3>2. PICK p \in c : p \in {"--timeout", "--test-flags", "--test-recursive"}
      BY <2>2 DEF With
    <3>3. Needs(p) \in {{"tests"}, {"cargo"}}
      BY <3>2 DEF Needs
    <3>4. p \notin Unheeded(opted)
      BY <3>2 DEF Unheeded
    <3>5. QED BY <1>4, <3>1, <3>3, <3>4 DEF IsSound
  <2>3. CASE c \in With("--exec", {"--test-flags"})
    <3>1. "--test-flags" \in opted /\ "cargo" \notin Has(opted)
      BY <1>4, <2>3 DEF With, Has
    <3>2. QED BY <3>1 DEF IsSound, Unheeded, Needs
  <2>4. QED BY <1>4, <2>1, <2>2, <2>3 DEF CargoConflicts
<1>5. ASSUME NEW c \in CoverageConflicts, c \subseteq opted PROVE ~IsSound(opted)
  <2>1. PICK o \in {"--coverage", "--per-test"} : c \in With(o, {"--exec", "--no-exec"})
    BY <1>5 DEF CoverageConflicts
  <2>2. o \in opted /\ Needs(o) = {"cargo"}
    BY <1>5, <2>1 DEF With, Needs
  <2>3. "cargo" \notin Has(opted)
    BY <1>5, <2>1 DEF With, Has
  <2>4. QED BY <2>1, <2>2, <2>3 DEF IsSound, Unheeded
<1>6. ASSUME NEW c \in BaselineConflicts, c \subseteq opted PROVE ~IsSound(opted)
  BY <1>6 DEF BaselineConflicts, With, IsSound, Unheeded, Needs, Has
<1>7. QED BY <1>1, <1>2, <1>3, <1>4, <1>5, <1>6 DEF IsRefused, Conflicts

\* And the tables have a row for every such pair.
LEMMA UnsoundIsRefused ==
    ASSUME NEW opted, ~IsRefused(opted)
    PROVE  IsSound(opted)
<1>1. \A o, p : {o, p} \in Conflicts => ~(o \in opted /\ p \in opted)
  BY DEF IsRefused
<1>2. ASSUME NEW o, NEW others, NEW p \in others, With(o, others) \subseteq Conflicts
      PROVE  ~(o \in opted /\ p \in opted)
  BY <1>1, <1>2 DEF With
<1>3. /\ ~("--dry-run" \in opted /\ "--no-exec" \in opted)
      /\ ~("--dry-run" \in opted /\ "--exec" \in opted)
      /\ ~("--no-exec" \in opted /\ "--exec" \in opted)
  BY <1>2 DEF Conflicts, RunModeConflicts
<1>4. /\ "--dry-run" \in opted =>
            opted \cap {"--do-not-remove-tmp-folder", "--timeout", "--timeout-coefficient",
                          "--test-flags", "--workers", "--test-recursive", "--coverage",
                          "--per-test"} = {}
  BY <1>2 DEF Conflicts, DryRunConflicts
<1>5. /\ "--timeout-coefficient" \in opted =>
            opted \cap {"--timeout", "--exec", "--no-exec"} = {}
      /\ "--no-exec" \in opted =>
            opted \cap {"--timeout", "--test-flags", "--test-recursive"} = {}
      /\ ~("--exec" \in opted /\ "--test-flags" \in opted)
  BY <1>2 DEF Conflicts, CargoConflicts
<1>6. {"--coverage", "--per-test"} \cap opted # {} =>
            opted \cap {"--exec", "--no-exec"} = {}
  <2>1. \A o \in {"--coverage", "--per-test"} : With(o, {"--exec", "--no-exec"}) \subseteq Conflicts
    BY DEF Conflicts, CoverageConflicts
  <2>2. QED BY <1>2, <2>1
<1>7. "--update-baseline" \in opted =>
            opted \cap {"--dry-run", "--no-exec", "--run-mutant-id"} = {}
  BY <1>2 DEF Conflicts, BaselineConflicts
<1>8. "--git-diff-base" \in opted => "--git-diff-lines" \in opted
  BY DEF IsRefused
<1>9. ASSUME NEW o \in opted \ Unheeded(opted) PROVE Needs(o) \subseteq Has(opted)
  <2> DEFINE areas == "--dry-run" \notin opted
             run == areas /\ "--no-exec" \notin opted
             cargo == run /\ "--exec" \notin opted
             all == run /\ "--run-mutant-id" \notin opted
  <2>1. /\ areas => "areas" \in Has(opted)
        /\ run => "tests" \in Has(opted)
        /\ cargo => "cargo" \in Has(opted)
        /\ "--git-diff-lines" \in opted => "diff" \in Has(opted)
        /\ all => "all results" \in Has(opted)
    BY DEF Has
  <2>2. CASE o \in {"--no-exec", "--do-not-remove-tmp-folder"}
    BY <2>1, <2>2, <1>3, <1>4 DEF Needs
  <2>3. CASE o = "--workers"
    <3>1. "--exec" \notin opted
      BY <2>3 DEF Unheeded
    <3>2. areas /\ "workers" \in Has(opted)
      BY <2>3, <3>1, <1>4 DEF Has
    <3>3. QED BY <2>3, <3>2 DEF Needs
  <2>4. CASE o \in {"--exec", "--timeout", "--test-recursive"}
    BY <2>1, <2>4, <1>3, <1>4, <1>5 DEF Needs
  <2>5. CASE o \in {"--timeout-coefficient", "--test-flags", "--coverage", "--per-test"}
    BY <2>1, <2>5, <1>3, <1>4, <1>5, <1>6 DEF Needs
  <2>6. CASE o = "--git-diff-base"
    BY <2>1, <2>6, <1>8 DEF Needs
  <2>7. CASE o = "--update-baseline"
    BY <2>1, <2>7, <1>7 DEF Needs
  <2>8. CASE o \notin {"--no-exec", "--do-not-remove-tmp-folder", "--workers", "--exec",
                       "--timeout", "--test-recursive", "--timeout-coefficient", "--test-flags",
                       "--coverage", "--per-test", "--git-diff-base", "--update-baseline"}
    BY <2>8 DEF Needs
  <2>9. QED BY <2>2, <2>4, <2>5, <2>6, <2>7, <2>8, <2>3
<1>10. QED BY <1>5, <1>9 DEF IsSound

\* The options of a command do not change once they were checked.
OptionsChecked ==
    /\ step \in {"run", "file read", "configured", "ready"} => ~IsRefused(given)
    /\ step = "refused" => IsRefused(given)

\* From the patterns of the command and the file to the mutators.
PolicyApplied ==
    /\ step \in {"configured", "ready"} => policy = Applied(configuration, settings)
    /\ step = "ready" =>
           registry = {n \in Known : /\ policy.enable = {} \/ MatchesAny(policy.enable, n)
                                     /\ ~MatchesAny(policy.disable, n)}

LEMMA PolicyStep ==
    OptionsChecked /\ PolicyApplied /\ [PolicyNext]_policyVars => OptionsChecked' /\ PolicyApplied'
<1> SUFFICES ASSUME OptionsChecked, PolicyApplied, [PolicyNext]_policyVars
             PROVE  OptionsChecked' /\ PolicyApplied'
  OBVIOUS
<1> USE DEF OptionsChecked, PolicyApplied, unread
<1>1. CASE OtherCommand
  BY <1>1 DEF OtherCommand
<1>2. CASE UnknownArgument
  BY <1>2 DEF UnknownArgument, Invalid
<1>3. CASE ReadTarget
  BY <1>3 DEF ReadTarget
<1>4. ASSUME NEW o \in Switches \cup Valued, ReadOption(o) PROVE OptionsChecked' /\ PolicyApplied'
  BY <1>4 DEF ReadOption, Invalid
<1>5. ASSUME NEW s \in Scores, ReadScore(s) PROVE OptionsChecked' /\ PolicyApplied'
  BY <1>5 DEF ReadScore, Invalid
<1>6. ASSUME NEW list \in {"enable", "disable"}, NEW p \in Patterns, ReadPattern(list, p)
      PROVE  OptionsChecked' /\ PolicyApplied'
  BY <1>6 DEF ReadPattern
<1>7. CASE EndArguments
  BY <1>7 DEF EndArguments, IsRefused
<1>8. CASE ReadFile
  BY <1>8 DEF ReadFile
<1>9. CASE ApplySettings
  BY <1>9 DEF ApplySettings
<1>10. CASE SelectMutators
  BY <1>10 DEF SelectMutators
<1>11. CASE UNCHANGED policyVars
  BY <1>11 DEF policyVars, IsRefused
<1>12. QED BY <1>1, <1>2, <1>3, <1>4, <1>5, <1>6, <1>7, <1>8, <1>9, <1>10, <1>11 DEF PolicyNext

\* The tables of conflicts are right and complete: for any set of options,
\* a command goes on exactly when each option has what it needs, but for
\* --workers next to --exec, which is accepted and not heeded.
THEOREM OptionsTakeEffect == PolicySpec => []AcceptedOptionsTakeEffect
<1>1. PolicyInit => OptionsChecked /\ PolicyApplied
  BY DEF PolicyInit, OptionsChecked, PolicyApplied
<1>2. OptionsChecked => AcceptedOptionsTakeEffect
  BY ConflictsAreUnsound, UnsoundIsRefused DEF OptionsChecked, AcceptedOptionsTakeEffect
<1>3. QED BY <1>1, <1>2, PolicyStep, PTL DEF PolicySpec

LEMMA AppliedPatterns ==
    ASSUME NEW n
    PROVE  /\ MatchesAny(Applied(configuration, settings).disable, n) <=>
                 MatchesAny(configuration.disable, n) \/ MatchesAny(settings.disable, n)
           /\ settings.enable # {} => Applied(configuration, settings).enable = settings.enable
           /\ settings.enable = {} => Applied(configuration, settings).enable = configuration.enable
  BY DEF Applied, MatchesAny

\* The mutators of a run are those the patterns of its command and its file
\* leave, for any set of mutators and any patterns.
THEOREM MutatorsFollowPolicy == PolicySpec => []SelectionFollowsPolicy
<1>1. PolicyInit => OptionsChecked /\ PolicyApplied
  BY DEF PolicyInit, OptionsChecked, PolicyApplied
<1>2. PolicyApplied => SelectionFollowsPolicy
  <2> SUFFICES ASSUME PolicyApplied, step = "ready", NEW n \in Known
               PROVE  n \in registry <=>
                        /\ ~MatchesAny(settings.disable, n)
                        /\ ~MatchesAny(configuration.disable, n)
                        /\ \/ MatchesAny(settings.enable, n)
                           \/ settings.enable = {} /\ (configuration.enable = {} \/ MatchesAny(configuration.enable, n))
    BY DEF SelectionFollowsPolicy
  <2>1. n \in registry <=> /\ policy.enable = {} \/ MatchesAny(policy.enable, n)
                           /\ ~MatchesAny(policy.disable, n)
    BY DEF PolicyApplied
  <2>2. settings.enable = {} => ~MatchesAny(settings.enable, n)
    BY DEF MatchesAny
  <2>3. policy = Applied(configuration, settings)
    BY DEF PolicyApplied
  <2>4. QED BY <2>1, <2>2, <2>3, AppliedPatterns
<1>3. QED BY <1>1, <1>2, PolicyStep, PTL DEF PolicySpec
-----------------------------------------------------------------------------
(* The gates on the scores: powers of two.                                 *)

\* The powers of two up to the n-th.
Doubles(two, n) == two = [x \in 0 .. n |-> IF x = 0 THEN 1 ELSE 2 * two[x - 1]]

LEMMA DoublesExist ==
    ASSUME NEW n \in Nat
    PROVE  \E two : Doubles(two, n)
<1> DEFINE T == {k \in Nat : ~\E two : Doubles(two, k)}
<1> SUFFICES ASSUME T # {} PROVE FALSE
  OBVIOUS
<1>1. PICK k \in T : \A y \in T : k <= y
  BY LeastNatural
<1>2. k \in Nat /\ ~\E two : Doubles(two, k)
  OBVIOUS
<1>3. CASE k = 0
  <2> DEFINE h == [i \in 0 .. 0 |-> 1]
  <2>1. \A i \in 0 .. 0 : i = 0
    OBVIOUS
  <2>2. h = [i \in 0 .. 0 |-> IF i = 0 THEN 1 ELSE 2 * h[i - 1]]
    BY <2>1
  <2>3. QED BY <1>2, <1>3, <2>2 DEF Doubles
<1>4. CASE k > 0
  <2>1. k - 1 \in Nat /\ k - 1 \notin T
    BY <1>1, <1>2, <1>4
  <2>2. PICK g : Doubles(g, k - 1)
    BY <2>1
  <2>3. g = [x \in 0 .. (k - 1) |-> IF x = 0 THEN 1 ELSE 2 * g[x - 1]]
    BY <2>2 DEF Doubles
  <2> DEFINE h == [i \in 0 .. k |-> IF i < k THEN g[i] ELSE 2 * g[k - 1]]
  <2>4. ASSUME NEW i \in 0 .. k PROVE h[i] = IF i = 0 THEN 1 ELSE 2 * h[i - 1]
    <3>1. CASE i = k
      <4>1. h[k] = 2 * g[k - 1] /\ h[k - 1] = g[k - 1]
        BY <1>2, <1>4
      <4> HIDE DEF h
      <4>2. QED BY <1>4, <3>1, <4>1
    <3>2. CASE i < k
      <4>1. i \in 0 .. (k - 1)
        BY <1>2, <3>2
      <4>2. g[i] = IF i = 0 THEN 1 ELSE 2 * g[i - 1]
        BY <2>3, <4>1, Zenon
      <4>3. h[i] = g[i] /\ (i # 0 => h[i - 1] = g[i - 1])
        BY <1>2, <3>2
      <4> HIDE DEF h
      <4>4. QED BY <4>2, <4>3
    <3>3. QED BY <1>2, <3>1, <3>2
  <2>5. h = [i \in 0 .. k |-> h[i]]
    OBVIOUS
  <2> HIDE DEF h
  <2>6. [i \in 0 .. k |-> h[i]] = [i \in 0 .. k |-> IF i = 0 THEN 1 ELSE 2 * h[i - 1]]
    BY <2>4
  <2>7. QED BY <1>2, <2>5, <2>6 DEF Doubles
<1>5. QED BY <1>2, <1>3, <1>4

\* PowerOf2 doubles from one exponent to the next, and no power is zero.
LEMMA PowersDouble ==
    /\ MaxExponent \in Nat
    /\ PowerOf2[0] = 1
    /\ \A x \in 1 .. MaxExponent : PowerOf2[x] = 2 * PowerOf2[x - 1]
    /\ \A x \in 0 .. MaxExponent : PowerOf2[x] \in Nat \ {0}
<1>1. MaxExponent \in Nat
  BY PrecisionAssumption DEF MaxExponent
<1>2. PICK two : Doubles(two, MaxExponent)
  BY <1>1, DoublesExist
<1>3. PowerOf2 = CHOOSE f : Doubles(f, MaxExponent)
  BY DEF PowerOf2, Doubles
<1>4. Doubles(PowerOf2, MaxExponent)
  BY <1>2, <1>3
<1>5. \A x \in 0 .. MaxExponent : PowerOf2[x] = IF x = 0 THEN 1 ELSE 2 * PowerOf2[x - 1]
  BY <1>4, Zenon DEF Doubles
<1>6. PowerOf2[0] = 1 /\ \A x \in 1 .. MaxExponent : PowerOf2[x] = 2 * PowerOf2[x - 1]
  BY <1>1, <1>5
<1> DEFINE T == {k \in Nat : k <= MaxExponent /\ PowerOf2[k] \notin Nat \ {0}}
<1>7. T = {}
  <2> SUFFICES ASSUME T # {} PROVE FALSE
    OBVIOUS
  <2>1. PICK k \in T : \A y \in T : k <= y
    BY LeastNatural
  <2>2. k # 0 /\ k \in 1 .. MaxExponent /\ k - 1 \notin T /\ k - 1 \in Nat
    BY <1>1, <1>6, <2>1
  <2>3. PowerOf2[k - 1] \in Nat \ {0} /\ PowerOf2[k] = 2 * PowerOf2[k - 1]
    BY <1>1, <1>6, <2>2
  <2>4. QED BY <2>1, <2>3
<1>8. QED BY <1>1, <1>6, <1>7

\* With an exponent that is Precision larger a power is that many times larger.
LEMMA PowersMultiply ==
    ASSUME NEW y \in Nat, y <= Precision
    PROVE  PowerOf2[Precision - 1 + y] = PowerOf2[Precision - 1] * PowerOf2[y]
<1> DEFINE A == PowerOf2[Precision - 1]
           T == {k \in Nat : k <= Precision /\ PowerOf2[Precision - 1 + k] # A * PowerOf2[k]}
<1>1. T = {}
  <2> SUFFICES ASSUME T # {} PROVE FALSE
    OBVIOUS
  <2>0. Precision \in Nat \ {0} /\ A \in Nat
    BY PrecisionAssumption, PowersDouble DEF MaxExponent
  <2>1. PICK k \in T : \A z \in T : k <= z
    BY LeastNatural
  <2> HIDE DEF A
  <2>2. CASE k = 0
    <3>1. Precision - 1 + k = Precision - 1
      BY <2>0, <2>2
    <3>2. A * PowerOf2[0] = A
      BY <2>0, PowersDouble
    <3>3. QED BY <2>1, <2>2, <3>1, <3>2 DEF A
  <2>3. CASE k > 0
    <3>1. k - 1 \in Nat /\ k - 1 \notin T /\ k - 1 <= Precision
      BY <2>0, <2>1, <2>3
    <3>2. PowerOf2[Precision - 1 + (k - 1)] = A * PowerOf2[k - 1]
      BY <3>1
    <3>3. k \in 1 .. MaxExponent /\ Precision - 1 + k \in 1 .. MaxExponent
      BY <2>0, <2>1, <2>3 DEF MaxExponent
    <3>4. PowerOf2[k] = 2 * PowerOf2[k - 1] /\ PowerOf2[k - 1] \in Nat
      BY <3>1, <3>3, PowersDouble
    <3>5. Precision - 1 + (k - 1) = (Precision - 1 + k) - 1
      BY <2>0, <2>1
    <3>6. PowerOf2[Precision - 1 + k] = 2 * (A * PowerOf2[k - 1])
      BY <3>2, <3>3, <3>5, PowersDouble
    <3> DEFINE B == PowerOf2[k - 1]
    <3>7. B \in Nat
      BY <3>4
    <3> HIDE DEF B
    <3>8. 2 * (A * B) = A * (2 * B)
      BY <2>0, <3>7
    <3>9. QED BY <2>1, <3>4, <3>6, <3>8 DEF B
  <2>4. QED BY <2>1, <2>2, <2>3
<1>2. QED BY <1>1

-----------------------------------------------------------------------------
(* Rounding.                                                               *)

\* Rounding moves a quotient by one half at most.
LEMMA RoundedIsNear ==
    ASSUME NEW a \in Nat, NEW b \in Nat \ {0}
    PROVE  /\ Rounded(a, b) \in Nat
           /\ 2 * (Rounded(a, b) * b) <= 2 * a + b
           /\ 2 * a <= 2 * (Rounded(a, b) * b) + b
<1> DEFINE q == a \div b
           r == a % b
<1>1. a = b * q + r /\ r \in 0 .. b - 1 /\ q \in Nat
  OBVIOUS
<1>2. Rounded(a, b) = IF 2 * r > b \/ (2 * r = b /\ q % 2 = 1) THEN q + 1 ELSE q
  BY DEF Rounded
<1> HIDE DEF q, r
<1>3. (q + 1) * b = q * b + b /\ b * q = q * b /\ q * b \in Nat
  BY <1>1
<1> DEFINE p == q * b
<1>4. p \in Nat /\ a = p + r /\ (q + 1) * b = p + b
  BY <1>1, <1>3
<1> HIDE DEF p
<1>5. CASE Rounded(a, b) = q + 1 /\ 2 * r >= b
  BY <1>1, <1>4, <1>5
<1>6. CASE Rounded(a, b) = q /\ 2 * r <= b
  <2>1. Rounded(a, b) * b = p
    BY <1>6 DEF p
  <2>2. QED BY <1>1, <1>4, <1>6, <2>1
<1>7. QED BY <1>1, <1>2, <1>5, <1>6

\* The counts of a run leave the gates eight bits to spare.
RoomToSpare == 256 * MaxTotal <= PowerOf2[Precision]

LEMMA ExponentFits ==
    ASSUME NEW n \in 1 .. MaxTotal, NEW d \in 1 .. MaxTotal
    PROVE  /\ Exponent(n, d) \in 0 .. 2 * Precision
           /\ n * PowerOf2[Exponent(n, d)] >= d * PowerOf2[Precision - 1]
           /\ \/ Exponent(n, d) = 0
              \/ n * PowerOf2[Exponent(n, d) - 1] < d * PowerOf2[Precision - 1]
<1> DEFINE A == PowerOf2[Precision - 1]
           Fits(e) == n * PowerOf2[e] >= d * A
           T == {e \in Nat : e <= 2 * Precision /\ Fits(e)}
<1>1. Precision \in Nat \ {0} /\ n \in Nat \ {0} /\ d \in Nat \ {0}
      /\ MaxTotal \in Nat /\ MaxTotal <= PowerOf2[Precision]
      /\ PowerOf2[Precision] \in Nat
  BY PrecisionAssumption, MaxTotalAssumption, PowersDouble DEF MaxExponent
<1>2. A \in Nat \ {0} /\ \A e \in 0 .. 2 * Precision : PowerOf2[e] \in Nat \ {0}
  BY <1>1, PowersDouble DEF MaxExponent
<1>3. Fits(2 * Precision - 1)
  <2> DEFINE B == PowerOf2[Precision]
  <2>1. PowerOf2[2 * Precision - 1] = A * B
    <3>1. Precision - 1 + Precision = 2 * Precision - 1
      BY <1>1
    <3>2. QED BY <1>1, <3>1, PowersMultiply
  <2>2. B \in Nat /\ d <= B
    BY <1>1
  <2> HIDE DEF A, B
  <2>3. d * A <= B * A
    BY <1>1, <1>2, <2>2
  <2>4. B * A <= n * (A * B)
    <3>1. A * B \in Nat /\ B * A = A * B
      BY <1>2, <2>2
    <3>2. \A z \in Nat : z <= n * z
      BY <1>1
    <3>3. QED BY <3>1, <3>2
  <2>5. n * (A * B) \in Nat /\ B * A \in Nat /\ d * A \in Nat
    BY <1>1, <1>2, <2>2
  <2>6. n * (A * B) >= d * A
    BY <2>3, <2>4, <2>5
  <2>7. QED BY <2>1, <2>6
<1>4. T # {} /\ T \subseteq Nat
  BY <1>1, <1>3
<1>5. PICK e \in T : \A y \in T : e <= y
  BY <1>4, LeastNatural
<1>6. e \in 0 .. 2 * Precision /\ Fits(e)
  BY <1>1, <1>5
<1>7. e = 0 \/ n * PowerOf2[e - 1] < d * A
  <2> SUFFICES ASSUME e # 0 PROVE n * PowerOf2[e - 1] < d * A
    OBVIOUS
  <2>1. e - 1 \in 0 .. 2 * Precision /\ e - 1 \notin T /\ e - 1 \in Nat /\ e - 1 <= 2 * Precision
    BY <1>1, <1>5, <1>6
  <2>2. ~Fits(e - 1)
    BY <2>1
  <2>3. n * PowerOf2[e - 1] \in Nat /\ d * A \in Nat
    BY <1>1, <1>2, <2>1
  <2>4. QED BY <2>2, <2>3
<1>8. \E x \in 0 .. 2 * Precision : Fits(x) /\ (x = 0 \/ n * PowerOf2[x - 1] < d * A)
  BY <1>6, <1>7
<1>9. QED BY <1>8 DEF Exponent

LEMMA ExcessFits ==
    ASSUME NEW q \in Nat, q <= PowerOf2[Precision]
    PROVE  PowerOf2[Excess(q)] \in 1 .. 128
<1> DEFINE B == PowerOf2[Precision]
<1>1. Precision \in Nat \ {0} /\ B \in Nat \ {0}
  BY PrecisionAssumption, PowersDouble DEF MaxExponent
<1>2. \A x \in 0 .. 6 : PowerOf2[Precision + x + 1] = 2 * PowerOf2[Precision + x]
  <2> SUFFICES ASSUME NEW x \in 0 .. 6
               PROVE  PowerOf2[Precision + x + 1] = 2 * PowerOf2[Precision + x]
    OBVIOUS
  <2>1. Precision + x + 1 \in 1 .. MaxExponent /\ (Precision + x + 1) - 1 = Precision + x
    BY <1>1 DEF MaxExponent
  <2>2. QED BY <2>1, PowersDouble
<1>3. PowerOf2[Precision + 7] = 128 * B
  <2>1. /\ Precision + 0 = Precision /\ Precision + 0 + 1 = Precision + 1
        /\ Precision + 1 + 1 = Precision + 2 /\ Precision + 2 + 1 = Precision + 3
        /\ Precision + 3 + 1 = Precision + 4 /\ Precision + 4 + 1 = Precision + 5
        /\ Precision + 5 + 1 = Precision + 6 /\ Precision + 6 + 1 = Precision + 7
    BY <1>1
  <2>2. PowerOf2[Precision + 1] = 2 * B /\ PowerOf2[Precision + 2] = 2 * PowerOf2[Precision + 1]
    BY <1>2, <2>1
  <2>3. /\ PowerOf2[Precision + 3] = 2 * PowerOf2[Precision + 2]
        /\ PowerOf2[Precision + 4] = 2 * PowerOf2[Precision + 3]
    BY <1>2, <2>1
  <2>4. /\ PowerOf2[Precision + 5] = 2 * PowerOf2[Precision + 4]
        /\ PowerOf2[Precision + 6] = 2 * PowerOf2[Precision + 5]
        /\ PowerOf2[Precision + 7] = 2 * PowerOf2[Precision + 6]
    BY <1>2, <2>1
  <2> HIDE DEF B
  <2>5. QED BY <1>1, <2>2, <2>3, <2>4
<1> DEFINE Fits(s) == 100 * q < PowerOf2[Precision + s]
           T == {s \in Nat : s <= 7 /\ Fits(s)}
<1>4. 7 \in T
  <2>1. 100 * q < 128 * B
    BY <1>1
  <2>2. QED BY <1>3, <2>1
<1>5. PICK s \in T : \A y \in T : s <= y
  BY <1>4, LeastNatural
<1>6. s \in 0 .. 7 /\ Fits(s)
  BY <1>5
<1>7. s = 0 \/ 100 * q >= PowerOf2[Precision + s - 1]
  <2> SUFFICES ASSUME s # 0 PROVE 100 * q >= PowerOf2[Precision + s - 1]
    OBVIOUS
  <2>1. s - 1 \in Nat /\ s - 1 \notin T /\ s - 1 <= 7
    BY <1>5, <1>6
  <2>2. Precision + (s - 1) = Precision + s - 1 /\ Precision + s - 1 \in 0 .. MaxExponent
    BY <1>1, <1>6, <2>1 DEF MaxExponent
  <2>3. ~(100 * q < PowerOf2[Precision + s - 1])
    BY <2>1, <2>2
  <2>4. PowerOf2[Precision + s - 1] \in Nat
    BY <2>2, PowersDouble
  <2>5. QED BY <2>3, <2>4
<1> DEFINE Right(k) == Fits(k) /\ (k = 0 \/ 100 * q >= PowerOf2[Precision + k - 1])
<1>8. \E k \in 0 .. 8 : Right(k)
  BY <1>6, <1>7
<1>9. Excess(q) = CHOOSE k \in 0 .. 8 : Right(k)
  BY DEF Excess
<1> HIDE DEF Right
<1>10. Excess(q) \in 0 .. 8 /\ Right(Excess(q))
  BY <1>8, <1>9
<1>11. Excess(q) # 8
  <2> SUFFICES ASSUME Excess(q) = 8 PROVE FALSE
    OBVIOUS
  <2>1. Precision + 8 - 1 = Precision + 7
    BY <1>1
  <2>2. 100 * q >= 128 * B
    BY <1>3, <1>10, <2>1 DEF Right
  <2>3. QED BY <1>1, <2>2
<1>12. \A x \in 1 .. 7 : PowerOf2[x] = 2 * PowerOf2[x - 1]
  BY <1>1, PowersDouble DEF MaxExponent
<1>13. /\ PowerOf2[0] = 1 /\ PowerOf2[1] = 2 /\ PowerOf2[2] = 4 /\ PowerOf2[3] = 8
       /\ PowerOf2[4] = 16 /\ PowerOf2[5] = 32 /\ PowerOf2[6] = 64 /\ PowerOf2[7] = 128
  <2>1. PowerOf2[0] = 1
    BY PowersDouble
  <2>2. PowerOf2[1] = 2 * PowerOf2[0] /\ PowerOf2[2] = 2 * PowerOf2[1]
    BY <1>12
  <2>3. PowerOf2[3] = 2 * PowerOf2[2] /\ PowerOf2[4] = 2 * PowerOf2[3]
    BY <1>12
  <2>4. PowerOf2[5] = 2 * PowerOf2[4] /\ PowerOf2[6] = 2 * PowerOf2[5]
        /\ PowerOf2[7] = 2 * PowerOf2[6]
    BY <1>12
  <2>5. QED BY <2>1, <2>2, <2>3, <2>4
<1>14. Excess(q) \in {0, 1, 2, 3, 4, 5, 6, 7}
  BY <1>10, <1>11
<1> HIDE DEF Right
<1>15. QED BY <1>13, <1>14

\* The rounded percentage is on the side of m on which the exact one is.
LEMMA PercentageIsNear ==
    ASSUME RoomToSpare,
           NEW n \in 1 .. MaxTotal, NEW d \in 1 .. MaxTotal, n <= d, NEW m \in Nat
    PROVE  /\ 100 * n < m * d => PercentBelow(n, d, m)
           /\ 100 * n > m * d => ~PercentBelow(n, d, m)
<1> DEFINE A == PowerOf2[Precision - 1]
           e == Exponent(n, d)
           D == PowerOf2[e]
           q == Rounded(n * D, d)
           U == PowerOf2[Excess(q)]
           v == Rounded(100 * q, U)
<1>1. Precision \in Nat \ {0} /\ n \in Nat \ {0} /\ d \in Nat \ {0} /\ MaxTotal \in Nat
  BY PrecisionAssumption, MaxTotalAssumption, PowersDouble DEF MaxExponent
<1>2. A \in Nat \ {0} /\ PowerOf2[Precision] = 2 * A
  BY <1>1, PowersDouble DEF MaxExponent
<1>3. e \in 0 .. 2 * Precision /\ D \in Nat \ {0}
  BY <1>1, ExponentFits, PowersDouble DEF MaxExponent
<1>4. 128 * n <= A
  BY <1>1, <1>2 DEF RoomToSpare
<1>5. n * D >= d * A /\ n * D < 2 * (d * A)
  <2>1. n * D >= d * A
    BY ExponentFits
  <2>2. CASE e = 0
    <3>1. D = 1
      BY <2>2, PowersDouble
    <3>2. d * A <= n
      BY <1>1, <2>1, <3>1
    <3>3. n < A
      BY <1>1, <1>2, <1>4
    <3>4. A <= d * A
      BY <1>1, <1>2
    <3>5. d * A \in Nat
      BY <1>1, <1>2
    <3> HIDE DEF A
    <3>6. QED BY <1>1, <1>2, <3>2, <3>3, <3>4, <3>5
  <2>3. CASE e # 0
    <3>1. n * PowerOf2[e - 1] < d * A
      BY <2>3, ExponentFits
    <3>2. e \in 1 .. MaxExponent /\ e - 1 \in 0 .. MaxExponent
      BY <1>1, <1>3, <2>3 DEF MaxExponent
    <3>3. D = 2 * PowerOf2[e - 1] /\ PowerOf2[e - 1] \in Nat
      BY <3>2, PowersDouble
    <3> DEFINE H == PowerOf2[e - 1]
    <3>4. D = 2 * H /\ H \in Nat /\ n * H < d * A
      BY <3>1, <3>3
    <3> HIDE DEF H, A, D, e
    <3>5. n * D = 2 * (n * H) /\ n * H \in Nat /\ d * A \in Nat
      BY <1>1, <1>2, <3>4
    <3>6. QED BY <2>1, <3>4, <3>5
  <2>4. QED BY <2>2, <2>3
<1> HIDE DEF A, e, D
<1>6. n * D \in Nat /\ d * A \in Nat
  BY <1>1, <1>2, <1>3
<1>7. /\ q \in Nat
      /\ 2 * (q * d) <= 2 * (n * D) + d
      /\ 2 * (n * D) <= 2 * (q * d) + d
  BY <1>1, <1>6, RoundedIsNear
<1> HIDE DEF q
<1>8. q <= 2 * A
  <2> SUFFICES ASSUME q >= 2 * A + 1 PROVE FALSE
    BY <1>2, <1>7
  <2>1. q * d >= (2 * A + 1) * d
    BY <1>1, <1>2, <1>7
  <2>2. (2 * A + 1) * d = 2 * (d * A) + d
    BY <1>1, <1>2
  <2>3. q * d \in Nat
    BY <1>1, <1>7
  <2>4. QED BY <1>1, <1>5, <1>6, <1>7, <2>1, <2>2, <2>3
<1>9. U \in 1 .. 128
  BY <1>2, <1>7, <1>8, ExcessFits
<1> HIDE DEF U
<1>10. /\ v \in Nat
       /\ 2 * (v * U) <= 2 * (100 * q) + U
       /\ 2 * (100 * q) <= 2 * (v * U) + U
  <2> DEFINE h == 100 * q
  <2>1. h \in Nat /\ U \in Nat \ {0}
    BY <1>7, <1>9
  <2> HIDE DEF h
  <2>2. /\ Rounded(h, U) \in Nat
        /\ 2 * (Rounded(h, U) * U) <= 2 * h + U
        /\ 2 * h <= 2 * (Rounded(h, U) * U) + U
    BY <2>1, RoundedIsNear
  <2>3. QED BY <2>2 DEF h
<1> HIDE DEF v
<1> DEFINE N == v * U
<1>11. N \in Nat /\ N <= 100 * q + 64 /\ 100 * q <= N + 64
  <2>1. N \in Nat
    BY <1>9, <1>10
  <2>2. 2 * N <= 2 * (100 * q) + U /\ 2 * (100 * q) <= 2 * N + U
    BY <1>10
  <2> HIDE DEF N
  <2>3. QED BY <1>7, <1>9, <2>1, <2>2
<1>12. PercentBelow(n, d, m) <=> N < m * D
  <2>1. Percentage[n] = [x \in 1 .. MaxTotal |->
            LET scale == PowerOf2[Exponent(n, x)]
                quotient == Rounded(n * scale, x)
                unit == PowerOf2[Excess(quotient)]
            IN  [numerator |-> Rounded(100 * quotient, unit) * unit, scale |-> scale]]
    BY DEF Percentage
  <2>2. Percentage[n][d] = [numerator |-> N, scale |-> D]
    BY <2>1 DEF N, v, U, q, D, e
  <2>3. QED BY <1>1, <2>2 DEF PercentBelow
<1> HIDE DEF N
\* The scale is at least 128 times the denominator.
<1>13. 128 * d <= D
  <2> SUFFICES ASSUME D < 128 * d PROVE FALSE
    BY <1>1, <1>3
  <2>1. n * D < n * (128 * d)
    BY <1>1, <1>3
  <2>2. n * (128 * d) = d * (128 * n)
    BY <1>1
  <2>3. d * (128 * n) <= d * A
    BY <1>1, <1>2, <1>4
  <2>4. d * (128 * n) \in Nat
    BY <1>1
  <2>5. QED BY <1>5, <1>6, <2>1, <2>2, <2>3, <2>4
<1> DEFINE M == m * D
<1>14. M \in Nat /\ M * d = D * (m * d) /\ m * d \in Nat
  BY <1>1, <1>3
<1> DEFINE Q == q * d
           K == n * D
           G == m * d
<1>15. /\ Q \in Nat /\ K \in Nat /\ G \in Nat
       /\ 2 * Q <= 2 * K + d /\ 2 * K <= 2 * Q + d
  BY <1>1, <1>6, <1>7, <1>14
<1>16. N * d <= 100 * Q + 64 * d /\ 100 * Q <= N * d + 64 * d
  <2>1. N * d <= (100 * q + 64) * d /\ (100 * q) * d <= (N + 64) * d
    BY <1>1, <1>7, <1>11
  <2>2. (100 * q + 64) * d = 100 * (q * d) + 64 * d
    BY <1>1, <1>7
  <2>3. (N + 64) * d = N * d + 64 * d /\ (100 * q) * d = 100 * (q * d)
    BY <1>1, <1>7, <1>11
  <2>4. QED BY <2>1, <2>2, <2>3
<1>17. M * d = D * G
  BY <1>14
<1>18. N * d \in Nat /\ M * d \in Nat
  BY <1>1, <1>11, <1>14
<1>19. 100 * K = D * (100 * n)
  BY <1>1, <1>3
<1> HIDE DEF M, Q, K
<1>20. ASSUME 100 * n < G PROVE N < M
  <2>1. 100 * n + 1 <= G
    BY <1>1, <1>15, <1>20
  <2>2. D * (100 * n + 1) <= D * G
    BY <1>1, <1>3, <1>15, <2>1
  <2>3. D * (100 * n + 1) = D * (100 * n) + D
    BY <1>1, <1>3
  <2>4. 100 * K + D <= M * d
    BY <1>17, <1>19, <2>2, <2>3
  <2>5. N * d < M * d
    BY <1>1, <1>3, <1>13, <1>15, <1>16, <1>18, <2>4
  <2> SUFFICES ASSUME M <= N PROVE FALSE
    BY <1>11, <1>14
  <2>6. M * d <= N * d
    BY <1>1, <1>11, <1>14
  <2>7. QED BY <1>18, <2>5, <2>6
<1>21. ASSUME 100 * n > G PROVE M <= N
  <2>1. 100 * n >= G + 1
    BY <1>1, <1>15, <1>21
  <2>2. D * (100 * n) >= D * (G + 1)
    BY <1>1, <1>3, <1>15, <2>1
  <2>3. D * (G + 1) = D * G + D
    BY <1>3, <1>15
  <2>4. 100 * K >= M * d + D
    BY <1>17, <1>19, <2>2, <2>3
  <2>5. M * d < N * d
    BY <1>1, <1>3, <1>13, <1>15, <1>16, <1>18, <2>4
  <2> SUFFICES ASSUME N < M PROVE FALSE
    BY <1>11, <1>14
  <2>6. N * d <= M * d
    BY <1>1, <1>11, <1>14
  <2>7. QED BY <1>18, <2>5, <2>6
<1>22. QED BY <1>11, <1>12, <1>14, <1>20, <1>21 DEF M

-----------------------------------------------------------------------------
(* The gates.                                                              *)

\* The states that a score looks at.
Kinds == {"killed", "errored", "skipped", "escaped", "notCovered"}

CountsTyped ==
    /\ count \in [States -> Nat]
    /\ Total <= MaxTotal
    /\ CountOf("notCovered") > 0 => hasCoverage
    /\ minimum \in Minimums /\ minimumCovered \in Minimums

LEMMA CountsAreNumbers ==
    ASSUME count \in [States -> Nat]
    PROVE  /\ \A s \in Kinds : CountOf(s) \in Nat
           /\ Scored \in Nat /\ Total \in Nat /\ Covered \in Nat
           /\ Scored <= Covered /\ Covered <= Total
<1>1. \A s \in Kinds : CountOf(s) \in Nat
  BY DEF CountOf
<1>2. /\ CountOf("killed") \in Nat /\ CountOf("errored") \in Nat /\ CountOf("skipped") \in Nat
      /\ CountOf("escaped") \in Nat /\ CountOf("notCovered") \in Nat
  BY <1>1 DEF Kinds
<1>3. QED BY <1>1, <1>2 DEF Scored, Total, Covered

\* A gate whose score is no number: an empty denominator, or nothing killed.
LEMMA BelowDecides ==
    ASSUME RoomToSpare, NEW n \in Nat, NEW d \in Nat, n <= d, d <= MaxTotal, NEW m \in Nat
    PROVE  /\ ExactlyBelow(n, d, m) => PercentBelow(n, d, m)
           /\ ~ExactlyBelow(n, d, m) /\ ~ExactlyEqual(n, d, m) => ~PercentBelow(n, d, m)
<1>0. m * d \in Nat /\ MaxTotal \in Nat
  BY MaxTotalAssumption, PowersDouble, PrecisionAssumption DEF MaxExponent
<1>1. CASE d = 0
  BY <1>1 DEF ExactlyBelow, ExactlyEqual, PercentBelow
<1>2. CASE n = 0 /\ d # 0
  <2>1. m = 0 => m * d = 0
    OBVIOUS
  <2>2. m # 0 => m > 0
    OBVIOUS
  <2>3. PercentBelow(n, d, m) <=> m > 0
    BY <1>2 DEF PercentBelow
  <2>4. ExactlyBelow(n, d, m) <=> 0 < m * d
    BY <1>2 DEF ExactlyBelow
  <2>5. ExactlyEqual(n, d, m) <=> m * d = 0
    BY <1>0, <1>2 DEF ExactlyEqual
  <2>6. QED BY <1>0, <2>1, <2>2, <2>3, <2>4, <2>5
<1>3. CASE n # 0 /\ d # 0
  <2>1. n \in 1 .. MaxTotal /\ d \in 1 .. MaxTotal
    BY <1>0, <1>3
  <2>2. /\ 100 * n < m * d => PercentBelow(n, d, m)
        /\ 100 * n > m * d => ~PercentBelow(n, d, m)
    BY <2>1, PercentageIsNear
  <2>3. QED BY <1>0, <1>3, <2>2 DEF ExactlyBelow, ExactlyEqual
<1>4. QED BY <1>1, <1>2, <1>3

LEMMA GatesDecide ==
    ASSUME RoomToSpare, CountsTyped
    PROVE  GatesFollowScores
<1>1. /\ Scored \in Nat /\ Total \in Nat /\ Covered \in Nat
      /\ Scored <= Covered /\ Covered <= Total /\ Scored <= Total
      /\ Total <= MaxTotal /\ Covered <= MaxTotal /\ MaxTotal \in Nat
  BY CountsAreNumbers, MaxTotalAssumption, PowersDouble, PrecisionAssumption
     DEF CountsTyped, MaxExponent
<1>2. /\ minimum # NoMinimum => minimum \in Nat
      /\ minimumCovered # NoMinimum => minimumCovered \in Nat
  BY MinimumsAssumption DEF CountsTyped
<1>3. minimum # NoMinimum =>
        /\ ExactlyBelow(Scored, Total, minimum) => Below(Scored, Total, minimum)
        /\ ~ExactlyBelow(Scored, Total, minimum) /\ ~ExactlyEqual(Scored, Total, minimum) =>
              ~Below(Scored, Total, minimum)
  BY <1>1, <1>2, BelowDecides DEF Below
<1>4. minimumCovered # NoMinimum =>
        /\ ExactlyBelow(Scored, Covered, minimumCovered) =>
              Below(Scored, Covered, minimumCovered)
        /\ ~ExactlyBelow(Scored, Covered, minimumCovered)
              /\ ~ExactlyEqual(Scored, Covered, minimumCovered) =>
              ~Below(Scored, Covered, minimumCovered)
  BY <1>1, <1>2, BelowDecides DEF Below
<1>5. Misses => GatesFail
  BY <1>3, <1>4, Zenon DEF Misses, GatesFail, TotalGateFails, CoveredGateFails
<1>6. Reaches => ~GatesFail
  BY <1>3, <1>4, Zenon DEF Reaches, GatesFail, TotalGateFails, CoveredGateFails
<1>7. QED BY <1>5, <1>6 DEF GatesFollowScores

LEMMA GatesStart == GatesInit => CountsTyped
<1> SUFFICES ASSUME GatesInit PROVE CountsTyped
  OBVIOUS
<1>1. \A s \in Kinds : CountOf(s) = 0
  BY DEF GatesInit, CountOf
<1>2. MaxTotal \in Nat
  BY MaxTotalAssumption, PowersDouble, PrecisionAssumption DEF MaxExponent
<1>3. /\ CountOf("killed") = 0 /\ CountOf("errored") = 0 /\ CountOf("skipped") = 0
      /\ CountOf("escaped") = 0 /\ CountOf("notCovered") = 0
  BY <1>1 DEF Kinds
<1>4. Total = 0
  BY <1>3 DEF Total
<1>5. QED BY <1>2, <1>3, <1>4 DEF GatesInit, CountsTyped

LEMMA GatesStep == CountsTyped /\ [GatesNext]_gateVars => CountsTyped'
<1> SUFFICES ASSUME CountsTyped, [GatesNext]_gateVars PROVE CountsTyped'
  OBVIOUS
<1>1. CASE UNCHANGED gateVars
  BY <1>1 DEF gateVars, CountsTyped, Total, CountOf
<1>2. ASSUME NEW s \in States, Record(s) PROVE CountsTyped'
  <2>1. count' \in [States -> Nat] /\ count' = [count EXCEPT ![s] = count[s] + 1]
    BY <1>2 DEF Record, CountsTyped
  <2>2. \A t \in Kinds : CountOf(t)' = IF t = s THEN CountOf(t) + 1 ELSE CountOf(t)
    BY <2>1 DEF CountOf, CountsTyped
  <2>3. \A t \in Kinds : CountOf(t) \in Nat
    BY CountsAreNumbers DEF CountsTyped
  <2>4. /\ CountOf("killed") \in Nat /\ CountOf("errored") \in Nat
        /\ CountOf("skipped") \in Nat /\ CountOf("escaped") \in Nat
        /\ CountOf("notCovered") \in Nat
    BY <2>3 DEF Kinds
  <2>5. Total' \in Nat /\ Total' <= Total + 1 /\ Total \in Nat
    <3>1. /\ CountOf("killed")' = IF s = "killed" THEN CountOf("killed") + 1 ELSE CountOf("killed")
          /\ CountOf("errored")' = IF s = "errored" THEN CountOf("errored") + 1
                                   ELSE CountOf("errored")
          /\ CountOf("skipped")' = IF s = "skipped" THEN CountOf("skipped") + 1
                                   ELSE CountOf("skipped")
      BY <2>2 DEF Kinds
    <3>2. /\ CountOf("escaped")' = IF s = "escaped" THEN CountOf("escaped") + 1
                                   ELSE CountOf("escaped")
          /\ CountOf("notCovered")' = IF s = "notCovered" THEN CountOf("notCovered") + 1
                                      ELSE CountOf("notCovered")
      BY <2>2 DEF Kinds
    <3>3. QED BY <2>4, <3>1, <3>2 DEF Total
  <2>6. Total' <= MaxTotal
    <3>1. MaxTotal \in Nat
      BY MaxTotalAssumption, PowersDouble, PrecisionAssumption DEF MaxExponent
    <3>2. Total < MaxTotal
      BY <1>2 DEF Record
    <3>3. QED BY <2>5, <3>1, <3>2
  <2>7. (CountOf("notCovered") > 0 => hasCoverage)'
    <3>1. CASE s = "notCovered"
      BY <1>2, <3>1 DEF Record
    <3>2. CASE s # "notCovered"
      <4>1. CountOf("notCovered")' = CountOf("notCovered")
        BY <2>2, <3>2 DEF Kinds
      <4>2. QED BY <1>2, <4>1 DEF Record, CountsTyped
    <3>3. QED BY <3>1, <3>2
  <2>8. QED BY <1>2, <2>1, <2>6, <2>7 DEF CountsTyped, Record
<1>3. QED BY <1>1, <1>2 DEF GatesNext

\* For every precision and every run that leaves the quotient eight bits to
\* spare, the gates (total_score_gate, covered_score_gate) fail below a
\* required percentage and pass above all of them, whatever rounding does.
THEOREM ScoresDecide == RoomToSpare => (GatesSpec => []GatesFollowScores)
<1> SUFFICES ASSUME RoomToSpare PROVE GatesSpec => []GatesFollowScores
  OBVIOUS
<1>1. CountsTyped => GatesFollowScores
  BY GatesDecide
<1>2. QED BY <1>1, GatesStart, GatesStep, PTL DEF GatesSpec
=============================================================================
