-------------------------- MODULE MCMutationWorkers --------------------------
(***************************************************************************)
(* TLC instances of MutationWorkers.  Two source files, in one workspace   *)
(* or in two; consecutive candidates mutate the same file and then another *)
(* one; one candidate is on a line no test covers.  "Killed" stands for    *)
(* every verdict the tests themselves produce.                             *)
(***************************************************************************)
EXTENDS MutationWorkers

MCVerdicts == {"Killed", "Errored", "NotCovered", "Cancelled"}

MCSources == {"lib", "util"}

\* Candidates are planned in source order.
MCSourceOf == [i \in Candidates |-> IF i <= 2 THEN "lib" ELSE "util"]

OneRoot == {"w"}
InOneRoot == [s \in MCSources |-> "w"]

\* Two sources in one workspace and a third in another.
ThreeSources == {"lib", "util", "app"}
OfThreeSources ==
    [i \in Candidates |-> IF i = 1 THEN "lib" ELSE IF i <= 3 THEN "util" ELSE "app"]
TwoRoots == {"v", "w"}
InTwoRoots == [s \in ThreeSources |-> IF s = "app" THEN "v" ELSE "w"]
=============================================================================
