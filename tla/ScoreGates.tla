------------------------------ MODULE ScoreGates ------------------------------
(***************************************************************************)
(* The mutation scores and their gates: MutationRun::mutation_score and    *)
(* covered_mutation_score in src/execution.rs, total_score_gate,           *)
(* covered_score_gate and score_gates in src/main.rs.  The results of a    *)
(* run come one after the other; the gates can be asked after each.        *)
(*                                                                         *)
(* A score is a floating-point quotient that is then multiplied by 100 and *)
(* compared with a whole percentage.  Both operations round to the nearest *)
(* number of Precision significant bits, a tie to the even one.            *)
(***************************************************************************)
EXTENDS Naturals, FiniteSets

CONSTANTS
    States,     \* the states of a MutationResult that occur
    MaxTotal,   \* bound on the results of a run
    Minimums,   \* the values of min_msi and min_covered_msi, NoMinimum included
    NoMinimum,  \* the option is not given
    Precision   \* significant bits of a score: 53 for f64

ASSUME MinimumsAssumption == Minimums \subseteq 0 .. 100 \cup {NoMinimum}
ASSUME PrecisionAssumption == Precision \in Nat \ {0}

MaxExponent == 2 * Precision + 8

PowerOf2[x \in 0 .. MaxExponent] == IF x = 0 THEN 1 ELSE 2 * PowerOf2[x - 1]

\* Every count is a floating-point number (`as f64` does not round).
ASSUME MaxTotalAssumption == MaxTotal \in 0 .. PowerOf2[Precision]

VARIABLES
    count,        \* the number of results in each state
    hasCoverage,  \* MutationRun::has_coverage
    ignoreNone,   \* --ignore-msi-with-no-mutations
    minimum,      \* min_msi
    minimumCovered \* min_covered_msi

gateVars == <<count, hasCoverage, ignoreNone, minimum, minimumCovered>>

-----------------------------------------------------------------------------
(* Scores.                                                                 *)

CountOf(s) == IF s \in States THEN count[s] ELSE 0

Scored == CountOf("killed") + CountOf("errored") + CountOf("skipped")

Total == CountOf("killed") + CountOf("errored") + CountOf("skipped")
           + CountOf("escaped") + CountOf("notCovered")

Covered == Total - CountOf("notCovered")

\* a / b, rounded to the nearest integer, a tie to the even one.
Rounded(a, b) ==
    LET q == a \div b
        r == a % b
    IN  IF 2 * r > b \/ (2 * r = b /\ q % 2 = 1) THEN q + 1 ELSE q

\* The least exponent that leaves Precision bits of n / d before the point.
Exponent(n, d) ==
    CHOOSE e \in 0 .. 2 * Precision :
        /\ n * PowerOf2[e] >= d * PowerOf2[Precision - 1]
        /\ e = 0 \/ n * PowerOf2[e - 1] < d * PowerOf2[Precision - 1]

\* The bits of 100 * quotient beyond Precision.
Excess(quotient) ==
    CHOOSE s \in 0 .. 8 :
        /\ 100 * quotient < PowerOf2[Precision + s]
        /\ s = 0 \/ 100 * quotient >= PowerOf2[Precision + s - 1]

\* The floating-point number numerator / scale nearest to n / d * 100: the
\* quotient is rounded first, and then the product.
Percentage ==
    [n \in 1 .. MaxTotal |-> [d \in 1 .. MaxTotal |->
        LET scale == PowerOf2[Exponent(n, d)]
            quotient == Rounded(n * scale, d)
            unit == PowerOf2[Excess(quotient)]
        IN  [numerator |-> Rounded(100 * quotient, unit) * unit, scale |-> scale]]]

\* The score n / d, zero of an empty denominator, is below m percent.
PercentBelow(n, d, m) ==
    IF n = 0 \/ d = 0
    THEN m > 0
    ELSE Percentage[n][d].numerator < m * Percentage[n][d].scale

\* Mistake: a percentage rounded to a whole number is compared.
WholePercentBelow(n, d, m) ==
    IF n = 0 \/ d = 0 THEN m > 0 ELSE Rounded(100 * n, d) < m

Below(n, d, m) == PercentBelow(n, d, m)

-----------------------------------------------------------------------------
(* Gates: TRUE when the gate returns exit value 4.                         *)

TotalGateFails == minimum # NoMinimum /\ Below(Scored, Total, minimum)

CoveredGateFails ==
    /\ minimumCovered \notin {NoMinimum, 0}
    /\ ~hasCoverage \/ Below(Scored, Covered, minimumCovered)

\* score_gates up to the gate of the escaped mutants.
GatesFail == ~(ignoreNone /\ Total = 0) /\ (TotalGateFails \/ CoveredGateFails)

-----------------------------------------------------------------------------
GatesInit ==
    /\ count = [s \in States |-> 0]
    /\ hasCoverage \in BOOLEAN
    /\ ignoreNone \in BOOLEAN
    /\ minimum \in Minimums
    /\ minimumCovered \in Minimums

\* Only a run with coverage has uncovered mutants (apply_coverage_selection).
Record(s) ==
    /\ Total < MaxTotal
    /\ s = "notCovered" => hasCoverage
    /\ count' = [count EXCEPT ![s] = @ + 1]
    /\ UNCHANGED <<hasCoverage, ignoreNone, minimum, minimumCovered>>

GatesNext == \E s \in States : Record(s)

GatesSpec == GatesInit /\ [][GatesNext]_gateVars

-----------------------------------------------------------------------------
\* The comparison without any rounding; an empty run has the score zero.
ExactlyBelow(n, d, m) == IF d = 0 THEN m > 0 ELSE 100 * n < m * d
ExactlyEqual(n, d, m) == d > 0 /\ 100 * n = m * d

\* A score below a required percentage; a run without mutants has the score
\* zero, unless the policy ignores such a run.
Misses ==
    /\ ~(ignoreNone /\ Total = 0)
    /\ \/ minimum # NoMinimum /\ ExactlyBelow(Scored, Total, minimum)
       \/ /\ minimumCovered \notin {NoMinimum, 0}
          /\ hasCoverage /\ ExactlyBelow(Scored, Covered, minimumCovered)

\* Scores above every required percentage.
Reaches ==
    /\ \/ minimum = NoMinimum
       \/ ~ExactlyBelow(Scored, Total, minimum) /\ ~ExactlyEqual(Scored, Total, minimum)
    /\ \/ minimumCovered \in {NoMinimum, 0}
       \/ /\ hasCoverage
          /\ ~ExactlyBelow(Scored, Covered, minimumCovered)
          /\ ~ExactlyEqual(Scored, Covered, minimumCovered)

\* The gates compare rounded quotients, yet decide as the exact scores would:
\* no run passes below a required percentage and none fails above all of them.
GatesFollowScores == (Misses => GatesFail) /\ (Reaches => ~GatesFail)

\* "A score equal to the required percentage passes" (docs/cli.md:47).
EqualScorePasses ==
    minimum # NoMinimum /\ ExactlyEqual(Scored, Total, minimum) => ~TotalGateFails
=============================================================================
