----------------------------- MODULE RunContract -----------------------------
(***************************************************************************)
(* What the mutant-testing stage of a mutation run promises its caller     *)
(* (test_candidates in src/execution.rs): one verdict for each planned     *)
(* candidate, in plan order, or a failure that an interrupt or a panic     *)
(* explains.  WorkerPool implements this specification.                    *)
(***************************************************************************)
EXTENDS Naturals, Sequences

CONSTANTS
    Total,      \* the number of planned candidates
    Verdicts,   \* the states a finished mutant test can be in
    Cancelled   \* the Errored state that carries "mutation run interrupted"

VARIABLES
    interrupted,  \* MUTATION_RUN_INTERRUPTED
    outcome,      \* "running", "ok", "interrupted" or "panicked"
    results       \* the returned results, in the order of the vector

vars == <<interrupted, outcome, results>>

\* A results vector with one genuine verdict per candidate, in plan order.
Complete(r) ==
    /\ DOMAIN r = 1 .. Total
    /\ \A i \in 1 .. Total :
          /\ r[i].index = i
          /\ r[i].verdict \in Verdicts \ {Cancelled}

Init ==
    /\ interrupted = FALSE
    /\ outcome = "running"
    /\ results = <<>>

Interrupt ==
    /\ outcome = "running"
    /\ interrupted' = TRUE
    /\ UNCHANGED <<outcome, results>>

Succeed ==
    /\ outcome = "running"
    /\ outcome' = "ok"
    /\ \E v \in [1 .. Total -> Verdicts \ {Cancelled}] :
          results' = [i \in 1 .. Total |-> [index |-> i, verdict |-> v[i]]]
    /\ UNCHANGED interrupted

FailInterrupted ==
    /\ outcome = "running"
    /\ interrupted
    /\ outcome' = "interrupted"
    /\ UNCHANGED <<interrupted, results>>

FailPanicked ==
    /\ outcome = "running"
    /\ outcome' = "panicked"
    /\ UNCHANGED <<interrupted, results>>

Decide == Succeed \/ FailInterrupted \/ FailPanicked

Next == Interrupt \/ Decide

Spec == Init /\ [][Next]_vars

FairSpec == Spec /\ WF_vars(Decide)
=============================================================================
