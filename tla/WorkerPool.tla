------------------------------ MODULE WorkerPool ------------------------------
(***************************************************************************)
(* The worker pool of a mutation run: test_candidates and the functions it *)
(* calls in src/execution.rs.  The planned candidates wait in one shared   *)
(* queue; each worker thread takes the next one, looks at the interrupt    *)
(* flag, tests the mutant, keeps the result in a vector of its own, and    *)
(* looks at the flag again.  The calling thread joins the workers in spawn *)
(* order, looks at the flag a last time and sorts the results back into    *)
(* plan order.  With fewer than two workers the calling thread tests the   *)
(* candidates itself; thread 1 then stands for it.                         *)
(*                                                                         *)
(* Testing one mutant is one step here (Finish); MutationWorkers refines   *)
(* it into the steps that change the worker's scratch workspace.           *)
(***************************************************************************)
EXTENDS Naturals, Sequences, FiniteSets

CONSTANTS
    Limit,      \* --workers: the largest number of threads
    Total,      \* the number of planned candidates
    UsesCargo,  \* FALSE for a custom --exec command
    Verdicts,   \* the states a finished mutant test can be in
    Cancelled,  \* the Errored state that carries "mutation run interrupted"
    NoCandidate \* no candidate in a thread's hands

ASSUME LimitAssumption == Limit \in Nat \ {0}
ASSUME TotalAssumption == Total \in Nat
ASSUME UsesCargoAssumption == UsesCargo \in BOOLEAN
ASSUME CancelledAssumption == Cancelled \in Verdicts
ASSUME NoCandidateAssumption == NoCandidate \notin Nat

VARIABLES
    queue,        \* the candidates nobody has taken, in plan order
    pc,           \* where each thread is in its loop
    current,      \* the candidate each thread holds
    collected,    \* the results each thread has pushed
    interrupted,  \* MUTATION_RUN_INTERRUPTED
    outcome,      \* what test_candidates returned, "running" before
    results       \* the vector it returned, <<>> before or on an error

vars == <<queue, pc, current, collected, interrupted, outcome, results>>

-----------------------------------------------------------------------------
\* active_worker_count
ActiveWorkers ==
    IF ~UsesCargo THEN 1 ELSE IF Limit < Total THEN Limit ELSE Total

Sequential == ActiveWorkers < 2

Threads == IF Sequential THEN {1} ELSE 1 .. ActiveWorkers

Candidates == 1 .. Total

Result == [index : Candidates, verdict : Verdicts]

Busy == {"taken", "testing"}
Left == {"exhausted", "broke", "panicked"}
Places == {"loop", "tested"} \cup Busy \cup Left

\* Every result pushed so far, by whichever thread.
Gathered == UNION {collected[t] : t \in Threads}

\* results_in_plan_order: the results sorted by candidate index.
InPlanOrder(R) ==
    [k \in 1 .. Cardinality(R) |->
        CHOOSE r \in R : Cardinality({q \in R : q.index < r.index}) = k - 1]

-----------------------------------------------------------------------------
Init ==
    /\ queue = [i \in Candidates |-> i]
    /\ pc = [t \in Threads |-> "loop"]
    /\ current = [t \in Threads |-> NoCandidate]
    /\ collected = [t \in Threads |-> {}]
    /\ interrupted = FALSE
    /\ outcome = "running"
    /\ results = <<>>

\* SIGINT while the handler of this run is installed (record_interrupt).
Interrupt ==
    /\ outcome = "running"
    /\ interrupted' = TRUE
    /\ UNCHANGED <<queue, pc, current, collected, outcome, results>>

\* Mistake: front() in place of pop_front().
TakeWithoutPop(t) ==
    /\ pc[t] = "loop"
    /\ queue # <<>>
    /\ current' = [current EXCEPT ![t] = Head(queue)]
    /\ pc' = [pc EXCEPT ![t] = "taken"]
    /\ UNCHANGED <<queue, collected, interrupted, outcome, results>>

\* next_candidate: pop the front of the queue under its lock.
Take(t) ==
    /\ pc[t] = "loop"
    /\ queue # <<>>
    /\ current' = [current EXCEPT ![t] = Head(queue)]
    /\ queue' = Tail(queue)
    /\ pc' = [pc EXCEPT ![t] = "taken"]
    /\ UNCHANGED <<collected, interrupted, outcome, results>>

Exhaust(t) ==
    /\ pc[t] = "loop"
    /\ queue = <<>>
    /\ pc' = [pc EXCEPT ![t] = "exhausted"]
    /\ UNCHANGED <<queue, current, collected, interrupted, outcome, results>>

\* Mistake: continue instead of break skips the candidate and stays in the loop.
StartSkips(t) ==
    /\ pc[t] = "taken"
    /\ IF interrupted
       THEN /\ pc' = [pc EXCEPT ![t] = "loop"]
            /\ current' = [current EXCEPT ![t] = NoCandidate]
       ELSE /\ pc' = [pc EXCEPT ![t] = "testing"]
            /\ UNCHANGED current
    /\ UNCHANGED <<queue, collected, interrupted, outcome, results>>

\* The flag is read after the candidate left the queue: a thread that breaks
\* here drops the candidate it holds.
Start(t) ==
    /\ pc[t] = "taken"
    /\ IF interrupted
       THEN /\ pc' = [pc EXCEPT ![t] = "broke"]
            /\ current' = [current EXCEPT ![t] = NoCandidate]
       ELSE /\ pc' = [pc EXCEPT ![t] = "testing"]
            /\ UNCHANGED current
    /\ UNCHANGED <<queue, collected, interrupted, outcome, results>>

\* test_candidate returns and the result is pushed.  Only an interrupted run
\* produces the cancelled verdict; an interrupted run can still produce any
\* other one, when the test command ended before the flag was seen.
FinishWith(t, v) ==
    /\ pc[t] = "testing"
    /\ v \in Verdicts
    /\ v = Cancelled => interrupted
    /\ collected' = [collected EXCEPT
          ![t] = @ \cup {[index |-> current[t], verdict |-> v]}]
    /\ pc' = [pc EXCEPT ![t] = "tested"]
    /\ current' = [current EXCEPT ![t] = NoCandidate]
    /\ UNCHANGED <<queue, interrupted, outcome, results>>

Finish(t) == \E v \in Verdicts : FinishWith(t, v)

Recheck(t) ==
    /\ pc[t] = "tested"
    /\ pc' = [pc EXCEPT ![t] = IF interrupted THEN "broke" ELSE "loop"]
    /\ UNCHANGED <<queue, current, collected, interrupted, outcome, results>>

\* A panic while a mutant is tested unwinds the thread; its results are lost.
Panic(t) ==
    /\ pc[t] = "testing"
    /\ pc' = [pc EXCEPT ![t] = "panicked"]
    /\ current' = [current EXCEPT ![t] = NoCandidate]
    /\ collected' = [collected EXCEPT ![t] = {}]
    /\ UNCHANGED <<queue, interrupted, outcome, results>>

\* Mistake: the error of a panicked thread is dropped.
ConcludeIgnoresPanics ==
    /\ outcome = "running"
    /\ \A t \in Threads : pc[t] \in Left
    /\ IF interrupted
       THEN outcome' = "interrupted" /\ UNCHANGED results
       ELSE outcome' = "ok" /\ results' = InPlanOrder(Gathered)
    /\ UNCHANGED <<queue, pc, current, collected, interrupted>>

\* collect_worker_results joins every thread; a panicked one fails the run.
\* The parallel path then reads the flag once more; the sequential path
\* returned at the read that saw it.
Conclude ==
    /\ outcome = "running"
    /\ \A t \in Threads : pc[t] \in Left
    /\ IF \E t \in Threads : pc[t] = "panicked"
       THEN outcome' = "panicked" /\ UNCHANGED results
       ELSE IF IF Sequential THEN pc[1] = "broke" ELSE interrupted
       THEN outcome' = "interrupted" /\ UNCHANGED results
       ELSE outcome' = "ok" /\ results' = InPlanOrder(Gathered)
    /\ UNCHANGED <<queue, pc, current, collected, interrupted>>

Work(t) ==
    Take(t) \/ Exhaust(t) \/ Start(t) \/ Finish(t) \/ Recheck(t) \/ Panic(t)

Next ==
    \/ Interrupt
    \/ \E t \in Threads : Work(t)
    \/ Conclude

Spec == Init /\ [][Next]_vars

\* The operating system schedules every runnable thread, a mutant test always
\* ends (it has a timeout), and the caller waits in join.
FairSpec ==
    /\ Spec
    /\ \A t \in Threads : WF_vars(Work(t))
    /\ WF_vars(Conclude)

-----------------------------------------------------------------------------
TypeOK ==
    /\ queue \in Seq(Candidates)
    /\ pc \in [Threads -> Places]
    /\ current \in [Threads -> Candidates \cup {NoCandidate}]
    /\ collected \in [Threads -> SUBSET Result]
    /\ interrupted \in BOOLEAN
    /\ outcome \in {"running", "ok", "interrupted", "panicked"}
    /\ \A t \in Threads : pc[t] \in Busy <=> current[t] # NoCandidate

\* The refinement mapping: the contract's state is what the caller sees of the
\* pool, the queue and the threads are hidden.
Contract == INSTANCE RunContract WITH
    Total <- Total, Verdicts <- Verdicts, Cancelled <- Cancelled,
    interrupted <- interrupted, outcome <- outcome, results <- results

\* A run that succeeds returns one genuine verdict for each planned candidate,
\* in plan order: no candidate is lost to a thread that broke off or panicked,
\* none is tested twice, and no verdict is one an interrupt produced.
OkIsComplete == outcome = "ok" => Contract!Complete(results)

\* A candidate is in exactly one place until it is dropped: in the queue, in
\* the hands of one thread, or in the results of one thread.
HeldBy(i) == {t \in Threads : current[t] = i}
PushedBy(i) == {t \in Threads : \E r \in collected[t] : r.index = i}
Queued(i) == {k \in 1 .. Len(queue) : queue[k] = i}

NoCandidateTwice ==
    \A i \in Candidates :
        /\ Cardinality(Queued(i)) + Cardinality(HeldBy(i))
             + Cardinality(PushedBy(i)) <= 1
        /\ \A t \in Threads :
              Cardinality({r \in collected[t] : r.index = i}) <= 1

\* A candidate that is in none of these places was dropped, and then some
\* thread has left its loop early: nothing is lost silently.
NoSilentLoss ==
    (\E i \in Candidates : Queued(i) = {} /\ HeldBy(i) = {} /\ PushedBy(i) = {})
        => \E t \in Threads : pc[t] \in {"broke", "panicked"}

\* The run implements the contract of the stage, its liveness included.
ImplementsContract == Contract!FairSpec
=============================================================================
