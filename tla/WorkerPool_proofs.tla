--------------------------- MODULE WorkerPool_proofs ---------------------------
(***************************************************************************)
(* Proofs about WorkerPool for every number of workers and candidates: its *)
(* type correctness, the invariant that a successful run is complete, and  *)
(* that every run implements the safety part of RunContract.               *)
(***************************************************************************)
EXTENDS WorkerPool, FiniteSetTheorems, SequenceTheorems, TLAPS

\* The candidates that left the queue are a prefix of the plan.
Taken == Total - Len(queue)

\* The queue is always the rest of the plan: next_candidate pops the front.
QueueIsRestOfPlan ==
    /\ Len(queue) <= Total
    /\ \A k \in 1 .. Len(queue) : queue[k] = Taken + k

\* A candidate a thread holds left the queue, nobody else holds it, and nobody
\* has a result for it yet.
HeldOnce ==
    \A t \in Threads : current[t] # NoCandidate =>
        /\ current[t] <= Taken
        /\ \A u \in Threads : current[u] = current[t] => u = t
        /\ \A u \in Threads : \A r \in collected[u] : r.index # current[t]

\* A result is about a candidate that left the queue, and it is the only one.
PushedOnce ==
    \A t \in Threads : \A r \in collected[t] :
        /\ r.index <= Taken
        /\ \A u \in Threads : \A q \in collected[u] :
              q.index = r.index => u = t /\ q = r

\* What left the queue is held or pushed, unless some thread left early.
NothingLost ==
    \A i \in Candidates : i <= Taken =>
        \/ \E t \in Threads : current[t] = i
        \/ \E t \in Threads : \E r \in collected[t] : r.index = i
        \/ \E t \in Threads : pc[t] \in {"broke", "panicked"}

\* A cancelled verdict needs the flag, and stops the thread that has it.
CancelledStops ==
    \A t \in Threads : \A r \in collected[t] :
        r.verdict = Cancelled => interrupted /\ pc[t] \in {"tested", "broke"}

\* Why a thread left its loop.
LeftForAReason ==
    \A t \in Threads :
        /\ pc[t] = "broke" => interrupted
        /\ pc[t] = "exhausted" => queue = <<>>

\* The calling thread decides the outcome after it joined every thread.
DecidedLast == outcome # "running" => \A t \in Threads : pc[t] \in Left

IInv ==
    /\ TypeOK
    /\ QueueIsRestOfPlan
    /\ HeldOnce
    /\ PushedOnce
    /\ NothingLost
    /\ CancelledStops
    /\ LeftForAReason
    /\ DecidedLast
    /\ OkIsComplete

-----------------------------------------------------------------------------
LEMMA ThreadsFact == 1 \in Threads /\ Threads \subseteq Nat /\ (Sequential => Threads = {1})
BY LimitAssumption, TotalAssumption, UsesCargoAssumption
   DEF Threads, Sequential, ActiveWorkers

LEMMA TypeInit == Init => TypeOK
<1> SUFFICES ASSUME Init PROVE TypeOK
  OBVIOUS
<1>1. queue \in Seq(Candidates)
  <2>1. Candidates = 1 .. Total /\ Total \in Nat
    BY TotalAssumption DEF Candidates
  <2>2. [i \in 1 .. Total |-> i] \in [1 .. Total -> 1 .. Total]
    OBVIOUS
  <2> QED
    BY <2>1, <2>2, SeqDef DEF Init
<1> QED
  BY <1>1 DEF Init, TypeOK, Places, Busy

LEMMA TypeStep == TypeOK /\ [Next]_vars => TypeOK'
<1> SUFFICES ASSUME TypeOK, [Next]_vars PROVE TypeOK'
  OBVIOUS
<1> USE DEF TypeOK
<1>1. CASE Interrupt
  BY <1>1 DEF Interrupt
<1>2. ASSUME NEW t \in Threads, Take(t) PROVE TypeOK'
  <2>1. Head(queue) \in Candidates /\ Tail(queue) \in Seq(Candidates)
    BY <1>2, HeadTailProperties DEF Take
  <2>2. Candidates \subseteq Nat
    BY DEF Candidates
  <2> QED
    BY <1>2, <2>1, <2>2, NoCandidateAssumption DEF Take, Places, Busy
<1>3. ASSUME NEW t \in Threads, Exhaust(t) PROVE TypeOK'
  BY <1>3 DEF Exhaust, Places, Busy, Left
<1>4. ASSUME NEW t \in Threads, Start(t) PROVE TypeOK'
  BY <1>4 DEF Start, Places, Left, Busy
<1>5. ASSUME NEW t \in Threads, Finish(t) PROVE TypeOK'
  <2>1. PICK v \in Verdicts : FinishWith(t, v)
    BY <1>5 DEF Finish
  <2>2. current[t] \in Candidates
    BY <2>1 DEF FinishWith, Busy
  <2>3. [index |-> current[t], verdict |-> v] \in Result
    BY <2>2 DEF Result
  <2> QED
    BY <2>1, <2>3 DEF FinishWith, Places, Busy, Left
<1>6. ASSUME NEW t \in Threads, Recheck(t) PROVE TypeOK'
  BY <1>6 DEF Recheck, Places, Busy, Left
<1>7. ASSUME NEW t \in Threads, Panic(t) PROVE TypeOK'
  BY <1>7 DEF Panic, Places, Busy, Left
<1>8. CASE Conclude
  BY <1>8 DEF Conclude
<1>9. CASE UNCHANGED vars
  BY <1>9 DEF vars
<1> QED
  BY <1>1, <1>2, <1>3, <1>4, <1>5, <1>6, <1>7, <1>8, <1>9 DEF Next, Work

\* The pool's types: every run keeps its queue a sequence of candidates, and a
\* thread holds a candidate exactly while it is busy with one.
THEOREM TypeCorrect == Spec => []TypeOK
BY TypeInit, TypeStep, PTL DEF Spec

-----------------------------------------------------------------------------
(* What results_in_plan_order returns.                                     *)

\* Sorting one result per candidate gives the vector that has the result of
\* candidate i in place i.
LEMMA PlanOrder ==
    ASSUME NEW R \in SUBSET Result,
           \A i \in Candidates : \E r \in R : r.index = i,
           \A r, q \in R : r.index = q.index => r = q
    PROVE  /\ DOMAIN InPlanOrder(R) = 1 .. Total
           /\ \A i \in 1 .. Total :
                 /\ InPlanOrder(R)[i] \in R
                 /\ InPlanOrder(R)[i].index = i
<1> DEFINE At(i) == CHOOSE r \in R : r.index = i
           Below(n) == {q \in R : q.index <= n}
<1>1. Candidates = 1 .. Total /\ Total \in Nat
  BY TotalAssumption DEF Candidates
<1>2. \A r \in R : r.index \in 1 .. Total
  BY <1>1 DEF Result
<1>3. \A i \in 1 .. Total : At(i) \in R /\ At(i).index = i
  BY <1>1
<1>4. ASSUME NEW n \in 0 .. Total
      PROVE  Cardinality(Below(n)) = n
  <2> DEFINE f == [i \in 1 .. n |-> At(i)]
  <2>1. \A i \in 1 .. n : f[i] \in Below(n) /\ f[i].index = i
    BY <1>1, <1>3
  <2>2. \A q \in Below(n) : q.index \in 1 .. n /\ f[q.index] = q
    BY <1>1, <1>2, <1>3
  <2>3. f \in Bijection(1 .. n, Below(n))
    <3> HIDE DEF f, At
    <3>1. f \in [1 .. n -> Below(n)]
      BY <2>1 DEF f
    <3>2. \A a, b \in 1 .. n : f[a] = f[b] => a = b
      BY <2>1
    <3>3. \A q \in Below(n) : \E i \in 1 .. n : f[i] = q
      BY <2>2
    <3> QED
      BY <3>1, <3>2, <3>3 DEF Bijection, Injection, Surjection, IsInjective
  <2>4. IsFiniteSet(1 .. n) /\ Cardinality(1 .. n) = n
    BY <1>1, FS_Interval
  <2> QED
    BY <2>3, <2>4, FS_Bijection DEF ExistsBijection
<1>5. Cardinality(R) = Total
  <2>1. R = Below(Total)
    BY <1>1, <1>2
  <2> QED
    BY <1>1, <1>4, <2>1
<1>6. \A r \in R : Cardinality({q \in R : q.index < r.index}) = r.index - 1
  <2> SUFFICES ASSUME NEW r \in R
               PROVE  Cardinality({q \in R : q.index < r.index}) = r.index - 1
    OBVIOUS
  <2>1. {q \in R : q.index < r.index} = Below(r.index - 1)
    BY <1>1, <1>2
  <2>2. r.index - 1 \in 0 .. Total
    BY <1>1, <1>2
  <2> QED
    BY <1>4, <2>1, <2>2
<1>7. ASSUME NEW i \in 1 .. Total
      PROVE  InPlanOrder(R)[i] \in R /\ InPlanOrder(R)[i].index = i
  <2> DEFINE Rank(r) == Cardinality({q \in R : q.index < r.index})
  <2>1. \A r \in R : Rank(r) = i - 1 <=> r.index = i
    BY <1>1, <1>2, <1>6
  <2>2. InPlanOrder(R)[i] = CHOOSE r \in R : Rank(r) = i - 1
    BY <1>5 DEF InPlanOrder
  <2>3. \E r \in R : Rank(r) = i - 1
    BY <1>3, <2>1
  <2> QED
    BY <2>1, <2>2, <2>3
<1> QED
  BY <1>5, <1>7 DEF InPlanOrder

-----------------------------------------------------------------------------
(* The inductive invariant.                                                *)

LEMMA InvInit == Init => IInv
<1> SUFFICES ASSUME Init PROVE IInv
  OBVIOUS
<1>1. TypeOK
  BY TypeInit
<1>2. Len(queue) = Total /\ \A k \in 1 .. Total : queue[k] = k
  BY TotalAssumption, <1>1 DEF Init, Candidates, TypeOK
<1>3. QueueIsRestOfPlan
  BY TotalAssumption, <1>2 DEF QueueIsRestOfPlan, Taken
<1>4. HeldOnce /\ PushedOnce /\ CancelledStops /\ LeftForAReason /\ DecidedLast /\ OkIsComplete
  BY DEF Init, HeldOnce, PushedOnce, CancelledStops, LeftForAReason, DecidedLast, OkIsComplete
<1>5. NothingLost
  BY TotalAssumption, <1>2 DEF NothingLost, Taken, Candidates
<1> QED
  BY <1>1, <1>3, <1>4, <1>5 DEF IInv

\* The facts about numbers the steps below use.
LEMMA InvFacts ==
    ASSUME IInv
    PROVE  /\ Total \in Nat /\ Len(queue) \in 0 .. Total /\ Taken \in 0 .. Total
           /\ \A t \in Threads : current[t] \in 1 .. Total \/ current[t] = NoCandidate
           /\ NoCandidate \notin Nat
           /\ \A t \in Threads : \A r \in collected[t] :
                 r.index \in 1 .. Total /\ r.verdict \in Verdicts
BY TotalAssumption, NoCandidateAssumption, LenProperties
   DEF IInv, TypeOK, QueueIsRestOfPlan, Taken, Candidates, Result

LEMMA TakeKeeps ==
    ASSUME IInv, TypeOK', NEW t \in Threads, Take(t)
    PROVE  IInv'
<1> USE InvFacts
<1>1. /\ queue # <<>> /\ queue \in Seq(Candidates)
      /\ current' = [current EXCEPT ![t] = Head(queue)]
      /\ queue' = Tail(queue)
      /\ pc' = [pc EXCEPT ![t] = "taken"] /\ pc[t] = "loop"
      /\ UNCHANGED <<collected, interrupted, outcome, results>>
  BY DEF Take, IInv, TypeOK
<1>2. /\ Len(queue') = Len(queue) - 1 /\ Len(queue) # 0
      /\ \A k \in 1 .. Len(queue') : queue'[k] = queue[k + 1]
  BY <1>1, HeadTailProperties, EmptySeq
<1>3. Head(queue) = Taken + 1 /\ Taken' = Taken + 1
  BY <1>1, <1>2 DEF IInv, QueueIsRestOfPlan, Taken
<1>4. QueueIsRestOfPlan'
  <2>1. Len(queue') <= Total
    BY <1>2
  <2>2. ASSUME NEW k \in 1 .. Len(queue')
        PROVE  queue'[k] = Taken' + k
    <3>1. queue'[k] = queue[k + 1] /\ k + 1 \in 1 .. Len(queue)
      BY <1>2
    <3>2. queue[k + 1] = Taken + (k + 1)
      BY <3>1 DEF IInv, QueueIsRestOfPlan
    <3> QED
      BY <1>3, <3>1, <3>2
  <2> QED
    BY <2>1, <2>2 DEF QueueIsRestOfPlan
<1>5. /\ current'[t] = Taken + 1
      /\ \A u \in Threads : u # t => current'[u] = current[u]
  BY <1>1, <1>3 DEF IInv, TypeOK
<1>6. HeldOnce'
  BY <1>1, <1>3, <1>5 DEF IInv, HeldOnce, PushedOnce
<1>7. PushedOnce'
  BY <1>1, <1>3 DEF IInv, PushedOnce
<1>8. NothingLost'
  <2> SUFFICES ASSUME NEW i \in Candidates, i <= Taken'
               PROVE  \/ \E u \in Threads : current'[u] = i
                      \/ \E u \in Threads : \E r \in collected'[u] : r.index = i
                      \/ \E u \in Threads : pc'[u] \in {"broke", "panicked"}
    BY DEF NothingLost
  <2>1. CASE i = Taken + 1
    BY <1>5, <2>1
  <2>2. CASE i <= Taken
    <3>1. \A u \in Threads : current[u] = i => u # t
      BY <1>1, <2>2 DEF IInv, TypeOK, Busy, Candidates
    <3>2. \A u \in Threads : pc[u] \in {"broke", "panicked"} => pc'[u] = pc[u]
      BY <1>1 DEF IInv, TypeOK
    <3> QED
      BY <1>1, <1>5, <2>2, <3>1, <3>2 DEF IInv, NothingLost
  <2> QED
    BY <1>3, <2>1, <2>2 DEF Candidates
<1>9. CancelledStops' /\ LeftForAReason' /\ DecidedLast' /\ OkIsComplete'
  BY <1>1 DEF IInv, TypeOK, CancelledStops, LeftForAReason, DecidedLast, OkIsComplete, Left
<1> QED
  BY <1>4, <1>6, <1>7, <1>8, <1>9 DEF IInv

\* A thread that leaves its loop because the queue is empty disturbs nothing.
LEMMA ExhaustKeeps ==
    ASSUME IInv, TypeOK', NEW t \in Threads, Exhaust(t)
    PROVE  IInv'
<1>1. /\ pc' = [pc EXCEPT ![t] = "exhausted"] /\ pc[t] = "loop" /\ queue = <<>>
      /\ UNCHANGED <<queue, current, collected, interrupted, outcome, results>>
  BY DEF Exhaust
<1>2. QueueIsRestOfPlan' /\ HeldOnce' /\ PushedOnce' /\ OkIsComplete'
  BY <1>1 DEF IInv, QueueIsRestOfPlan, HeldOnce, PushedOnce, OkIsComplete, Taken
<1>3. NothingLost'
  <2>1. \A u \in Threads : pc[u] \in {"broke", "panicked"} => pc'[u] = pc[u]
    BY <1>1 DEF IInv, TypeOK
  <2> QED
    BY <1>1, <2>1 DEF IInv, NothingLost, Taken
<1>4. CancelledStops' /\ LeftForAReason' /\ DecidedLast'
  BY <1>1 DEF IInv, TypeOK, CancelledStops, LeftForAReason, DecidedLast, Left
<1> QED
  BY <1>2, <1>3, <1>4 DEF IInv

\* A thread that sees the flag drops the candidate it took: what it held is
\* accounted for by its early leave.
LEMMA StartKeeps ==
    ASSUME IInv, TypeOK', NEW t \in Threads, Start(t)
    PROVE  IInv'
<1> USE InvFacts
<1>1. /\ pc[t] = "taken"
      /\ UNCHANGED <<queue, collected, interrupted, outcome, results>>
  BY DEF Start
<1>2. \A u \in Threads : u # t => pc'[u] = pc[u] /\ current'[u] = current[u]
  BY DEF Start, IInv, TypeOK
<1>3. \/ interrupted /\ pc'[t] = "broke" /\ current'[t] = NoCandidate
      \/ pc'[t] = "testing" /\ current'[t] = current[t]
  BY DEF Start, IInv, TypeOK
<1>4. QueueIsRestOfPlan' /\ PushedOnce' /\ OkIsComplete'
  BY <1>1 DEF IInv, QueueIsRestOfPlan, PushedOnce, OkIsComplete, Taken
<1>5. HeldOnce'
  BY <1>1, <1>2, <1>3 DEF IInv, HeldOnce, Taken
<1>6. NothingLost'
  <2>1. CASE pc'[t] = "broke"
    BY <2>1 DEF NothingLost
  <2>2. CASE pc'[t] = "testing" /\ current'[t] = current[t]
    BY <1>1, <1>2, <2>2 DEF IInv, NothingLost, Taken
  <2> QED
    BY <1>3, <2>1, <2>2
<1>7. CancelledStops'
  BY <1>1, <1>2, <1>3 DEF IInv, CancelledStops
<1>8. LeftForAReason' /\ DecidedLast'
  BY <1>1, <1>2, <1>3 DEF IInv, LeftForAReason, DecidedLast, Left
<1> QED
  BY <1>4, <1>5, <1>6, <1>7, <1>8 DEF IInv

\* The result takes the place of the candidate the thread held.
LEMMA FinishKeeps ==
    ASSUME IInv, TypeOK', NEW t \in Threads, Finish(t)
    PROVE  IInv'
<1> USE InvFacts
<1>1. PICK v \in Verdicts : FinishWith(t, v)
  BY DEF Finish
<1> DEFINE new == [index |-> current[t], verdict |-> v]
<1>2. /\ pc[t] = "testing" /\ pc'[t] = "tested"
      /\ current[t] # NoCandidate /\ current'[t] = NoCandidate
      /\ collected'[t] = collected[t] \cup {new}
      /\ v = Cancelled => interrupted
      /\ UNCHANGED <<queue, interrupted, outcome, results>>
  BY <1>1 DEF FinishWith, IInv, TypeOK, Busy
<1>3. \A u \in Threads : u # t =>
          pc'[u] = pc[u] /\ current'[u] = current[u] /\ collected'[u] = collected[u]
  BY <1>1 DEF FinishWith, IInv, TypeOK
<1>4. new.index = current[t] /\ new.verdict = v
  OBVIOUS
<1> HIDE DEF new
<1>5. QueueIsRestOfPlan' /\ OkIsComplete'
  BY <1>2 DEF IInv, QueueIsRestOfPlan, OkIsComplete, Taken
<1>6. \A u \in Threads : \A r \in collected'[u] :
          r \in collected[u] \/ (u = t /\ r = new)
  BY <1>2, <1>3
<1>7. HeldOnce'
  <2> SUFFICES ASSUME NEW u \in Threads, current'[u] # NoCandidate
               PROVE  /\ current'[u] <= Taken
                      /\ \A w \in Threads : current'[w] = current'[u] => w = u
                      /\ \A w \in Threads : \A r \in collected'[w] : r.index # current'[u]
    BY <1>2 DEF HeldOnce, Taken
  <2>1. u # t /\ current'[u] = current[u] /\ current[u] # current[t]
    BY <1>2, <1>3 DEF IInv, HeldOnce
  <2> QED
    BY <1>2, <1>3, <1>4, <1>6, <2>1 DEF IInv, HeldOnce
<1>8. PushedOnce'
  <2> SUFFICES ASSUME NEW u \in Threads, NEW r \in collected'[u]
               PROVE  /\ r.index <= Taken
                      /\ \A w \in Threads : \A q \in collected'[w] :
                            q.index = r.index => w = u /\ q = r
    BY <1>2 DEF PushedOnce, Taken
  <2>1. CASE r \in collected[u]
    BY <1>2, <1>4, <1>6, <2>1 DEF IInv, HeldOnce, PushedOnce
  <2>2. CASE u = t /\ r = new
    BY <1>2, <1>4, <1>6, <2>2 DEF IInv, HeldOnce
  <2> QED
    BY <1>6, <2>1, <2>2
<1>9. NothingLost'
  <2> SUFFICES ASSUME NEW i \in Candidates, i <= Taken
               PROVE  \/ \E u \in Threads : current'[u] = i
                      \/ \E u \in Threads : \E r \in collected'[u] : r.index = i
                      \/ \E u \in Threads : pc'[u] \in {"broke", "panicked"}
    BY <1>2 DEF NothingLost, Taken
  <2>1. CASE current[t] = i
    BY <1>2, <1>4, <2>1
  <2>2. CASE current[t] # i
    <3>1. \A u \in Threads : current[u] = i => current'[u] = i
      BY <1>3, <2>2
    <3>2. \A u \in Threads : collected[u] \subseteq collected'[u]
      BY <1>2, <1>3
    <3>3. \A u \in Threads : pc[u] \in {"broke", "panicked"} => pc'[u] = pc[u]
      BY <1>2, <1>3
    <3> QED
      BY <3>1, <3>2, <3>3 DEF IInv, NothingLost
  <2> QED
    BY <2>1, <2>2
<1>10. CancelledStops'
  BY <1>2, <1>3, <1>4, <1>6 DEF IInv, CancelledStops
<1>11. LeftForAReason' /\ DecidedLast'
  BY <1>2, <1>3 DEF IInv, LeftForAReason, DecidedLast, Left
<1> QED
  BY <1>5, <1>7, <1>8, <1>9, <1>10, <1>11 DEF IInv

LEMMA RecheckKeeps ==
    ASSUME IInv, TypeOK', NEW t \in Threads, Recheck(t)
    PROVE  IInv'
<1>1. /\ pc[t] = "tested"
      /\ pc'[t] = IF interrupted THEN "broke" ELSE "loop"
      /\ UNCHANGED <<queue, current, collected, interrupted, outcome, results>>
  BY DEF Recheck, IInv, TypeOK
<1>2. \A u \in Threads : u # t => pc'[u] = pc[u]
  BY DEF Recheck, IInv, TypeOK
<1>3. QueueIsRestOfPlan' /\ HeldOnce' /\ PushedOnce' /\ OkIsComplete'
  BY <1>1 DEF IInv, QueueIsRestOfPlan, HeldOnce, PushedOnce, OkIsComplete, Taken
<1>4. NothingLost'
  BY <1>1, <1>2 DEF IInv, NothingLost, Taken
<1>5. CancelledStops'
  BY <1>1, <1>2 DEF IInv, CancelledStops
<1>6. LeftForAReason' /\ DecidedLast'
  BY <1>1, <1>2 DEF IInv, LeftForAReason, DecidedLast, Left
<1> QED
  BY <1>3, <1>4, <1>5, <1>6 DEF IInv

\* A panicked thread loses what it held and what it pushed; NothingLost then
\* holds because a thread panicked.
LEMMA PanicKeeps ==
    ASSUME IInv, TypeOK', NEW t \in Threads, Panic(t)
    PROVE  IInv'
<1> USE InvFacts
<1>1. /\ pc[t] = "testing" /\ pc'[t] = "panicked"
      /\ current'[t] = NoCandidate /\ collected'[t] = {}
      /\ UNCHANGED <<queue, interrupted, outcome, results>>
  BY DEF Panic, IInv, TypeOK
<1>2. \A u \in Threads : u # t =>
          pc'[u] = pc[u] /\ current'[u] = current[u] /\ collected'[u] = collected[u]
  BY DEF Panic, IInv, TypeOK
<1>3. QueueIsRestOfPlan' /\ OkIsComplete'
  BY <1>1 DEF IInv, QueueIsRestOfPlan, OkIsComplete, Taken
<1>4. HeldOnce'
  BY <1>1, <1>2 DEF IInv, HeldOnce, Taken
<1>5. PushedOnce'
  BY <1>1, <1>2 DEF IInv, PushedOnce, Taken
<1>6. NothingLost'
  BY <1>1 DEF NothingLost
<1>7. CancelledStops'
  BY <1>1, <1>2 DEF IInv, CancelledStops
<1>8. LeftForAReason' /\ DecidedLast'
  BY <1>1, <1>2 DEF IInv, LeftForAReason, DecidedLast, Left
<1> QED
  BY <1>3, <1>4, <1>5, <1>6, <1>7, <1>8 DEF IInv

\* When the caller decides for success, every thread found the queue empty, so
\* every candidate left it, none is held, and every one has a result.
LEMMA SuccessIsComplete ==
    ASSUME IInv, Conclude, outcome' = "ok"
    PROVE  /\ results' = InPlanOrder(Gathered)
           /\ DOMAIN results' = 1 .. Total
           /\ \A i \in 1 .. Total :
                 /\ results'[i] \in Result
                 /\ results'[i].index = i
                 /\ results'[i].verdict # Cancelled
<1> USE InvFacts
<1>1. results' = InPlanOrder(Gathered)
  BY DEF Conclude
<1>2. \A t \in Threads : pc[t] = "exhausted"
  <2>1. \A t \in Threads : pc[t] \in Left /\ pc[t] # "panicked"
    BY DEF Conclude
  <2>2. CASE Sequential
    BY <2>1, <2>2, ThreadsFact DEF Conclude, Left
  <2>3. CASE ~Sequential
    BY <2>1, <2>3 DEF Conclude, IInv, LeftForAReason, Left
  <2> QED
    BY <2>2, <2>3
<1>3. queue = <<>>
  BY <1>2, ThreadsFact DEF IInv, LeftForAReason
<1>4. Taken = Total
  BY <1>3, EmptySeq DEF Taken
<1>5. \A t \in Threads : current[t] = NoCandidate
  BY <1>2 DEF IInv, TypeOK, Busy
<1>6. \A i \in Candidates : \E r \in Gathered : r.index = i
  BY <1>2, <1>4, <1>5 DEF IInv, NothingLost, Candidates, Gathered
<1>7. \A r, q \in Gathered : r.index = q.index => r = q
  BY DEF IInv, PushedOnce, Gathered
<1>8. Gathered \in SUBSET Result
  BY DEF IInv, TypeOK, Gathered
<1>9. /\ DOMAIN results' = 1 .. Total
      /\ \A i \in 1 .. Total : results'[i] \in Gathered /\ results'[i].index = i
  BY <1>1, <1>6, <1>7, <1>8, PlanOrder
<1>10. \A r \in Gathered : r.verdict # Cancelled
  BY <1>2 DEF IInv, CancelledStops, Gathered
<1> QED
  BY <1>1, <1>8, <1>9, <1>10

LEMMA ConcludeKeeps ==
    ASSUME IInv, TypeOK', Conclude
    PROVE  IInv'
<1>1. /\ \A t \in Threads : pc[t] \in Left
      /\ UNCHANGED <<queue, pc, current, collected, interrupted>>
  BY DEF Conclude
<1>2. /\ QueueIsRestOfPlan' /\ HeldOnce' /\ PushedOnce' /\ NothingLost'
      /\ CancelledStops' /\ LeftForAReason'
  BY <1>1 DEF IInv, QueueIsRestOfPlan, HeldOnce, PushedOnce, NothingLost,
              CancelledStops, LeftForAReason, Taken
<1>3. DecidedLast'
  BY <1>1 DEF DecidedLast
<1>4. OkIsComplete'
  <2> SUFFICES ASSUME outcome' = "ok"
               PROVE  /\ DOMAIN results' = 1 .. Total
                      /\ \A i \in 1 .. Total :
                            /\ results'[i].index = i
                            /\ results'[i].verdict \in Verdicts \ {Cancelled}
    BY DEF OkIsComplete, Contract!Complete
  <2> QED
    BY SuccessIsComplete DEF Result
<1> QED
  BY <1>2, <1>3, <1>4 DEF IInv

LEMMA InvStep == IInv /\ [Next]_vars => IInv'
<1> SUFFICES ASSUME IInv, [Next]_vars PROVE IInv'
  OBVIOUS
<1>1. TypeOK'
  BY TypeStep DEF IInv
<1>2. CASE Interrupt
  BY <1>1, <1>2 DEF Interrupt, IInv, QueueIsRestOfPlan, HeldOnce, PushedOnce, NothingLost,
                    CancelledStops, LeftForAReason, DecidedLast, OkIsComplete, Taken
<1>3. CASE \E t \in Threads : Work(t)
  BY <1>1, <1>3, TakeKeeps, ExhaustKeeps, StartKeeps, FinishKeeps, RecheckKeeps, PanicKeeps
     DEF Work
<1>4. CASE Conclude
  BY <1>1, <1>4, ConcludeKeeps
<1>5. CASE UNCHANGED vars
  BY <1>1, <1>5 DEF vars, IInv, QueueIsRestOfPlan, HeldOnce, PushedOnce, NothingLost,
                    CancelledStops, LeftForAReason, DecidedLast, OkIsComplete, Taken
<1> QED
  BY <1>2, <1>3, <1>4, <1>5 DEF Next

LEMMA Invariance == Spec => []IInv
BY InvInit, InvStep, PTL DEF Spec

-----------------------------------------------------------------------------
(* The properties of the pool.                                             *)

\* A run that succeeds returns one genuine verdict per planned candidate, in
\* plan order, whatever the threads did and whenever the interrupt came.
THEOREM SuccessfulRunsAreComplete == Spec => []OkIsComplete
<1>1. IInv => OkIsComplete
  BY DEF IInv
<1> QED
  BY <1>1, Invariance, PTL

\* A candidate in no queue, in no thread's hands and in no thread's results was
\* dropped by a thread that saw the interrupt or panicked.
THEOREM NothingIsLostSilently == Spec => []NoSilentLoss
<1>1. IInv => NoSilentLoss
  <2> SUFFICES ASSUME IInv, NEW i \in Candidates,
                      Queued(i) = {}, HeldBy(i) = {}, PushedBy(i) = {}
               PROVE  \E t \in Threads : pc[t] \in {"broke", "panicked"}
    BY DEF NoSilentLoss
  <2>1. i <= Taken
    <3> SUFFICES ASSUME i > Taken PROVE FALSE
      BY InvFacts DEF Candidates
    <3>1. i - Taken \in 1 .. Len(queue)
      BY InvFacts DEF Candidates, Taken
    <3>2. queue[i - Taken] = i
      BY <3>1, InvFacts DEF IInv, QueueIsRestOfPlan, Candidates
    <3> QED
      BY <3>1, <3>2 DEF Queued
  <2> QED
    BY <2>1 DEF IInv, NothingLost, HeldBy, PushedBy
<1> QED
  BY <1>1, Invariance, PTL

\* A set that has at most one element.
LEMMA AtMostOne ==
    ASSUME NEW S, \A x, y \in S : x = y
    PROVE  /\ Cardinality(S) \in 0 .. 1
           /\ S # {} => Cardinality(S) = 1
           /\ S = {} => Cardinality(S) = 0
<1>1. CASE S = {}
  BY <1>1, FS_EmptySet
<1>2. CASE S # {}
  <2>1. PICK x \in S : S = {x}
    BY <1>2
  <2> QED
    BY <1>2, <2>1, FS_Singleton
<1> QED
  BY <1>1, <1>2

\* No candidate is in two places, so none is tested by two threads.
THEOREM NothingIsTestedTwice == Spec => []NoCandidateTwice
<1>1. IInv => NoCandidateTwice
  <2> SUFFICES ASSUME IInv, NEW i \in Candidates
               PROVE  /\ Cardinality(Queued(i)) + Cardinality(HeldBy(i))
                            + Cardinality(PushedBy(i)) <= 1
                      /\ \A t \in Threads :
                            Cardinality({r \in collected[t] : r.index = i}) <= 1
    BY DEF NoCandidateTwice
  <2>1. i \in 1 .. Total /\ i # NoCandidate
    BY InvFacts DEF Candidates
  <2>2. \A k \in Queued(i) : k = i - Taken /\ i > Taken
    BY <2>1, InvFacts DEF Queued, IInv, QueueIsRestOfPlan
  <2>3. \A t \in HeldBy(i) : t \in Threads /\ current[t] = i
    BY DEF HeldBy
  <2>4. \A t \in HeldBy(i) : i <= Taken /\ \A u \in HeldBy(i) : u = t
    BY <2>1, <2>3 DEF IInv, HeldOnce
  <2>5. \A t \in PushedBy(i) : i <= Taken /\ \A u \in PushedBy(i) : u = t
    BY <2>1 DEF PushedBy, IInv, PushedOnce
  <2>6. HeldBy(i) = {} \/ PushedBy(i) = {}
    BY <2>1, <2>3 DEF PushedBy, IInv, HeldOnce
  <2>7. Queued(i) = {} \/ (HeldBy(i) = {} /\ PushedBy(i) = {})
    BY <2>1, <2>2, <2>4, <2>5, InvFacts
  <2>8. /\ Cardinality(Queued(i)) \in 0 .. 1
        /\ Queued(i) = {} => Cardinality(Queued(i)) = 0
    BY <2>2, AtMostOne
  <2>9. /\ Cardinality(HeldBy(i)) \in 0 .. 1
        /\ HeldBy(i) = {} => Cardinality(HeldBy(i)) = 0
    BY <2>4, AtMostOne
  <2>10. /\ Cardinality(PushedBy(i)) \in 0 .. 1
         /\ PushedBy(i) = {} => Cardinality(PushedBy(i)) = 0
    BY <2>5, AtMostOne
  <2>11. Cardinality(Queued(i)) + Cardinality(HeldBy(i)) + Cardinality(PushedBy(i)) <= 1
    BY <2>6, <2>7, <2>8, <2>9, <2>10
  <2>12. ASSUME NEW t \in Threads
         PROVE  Cardinality({r \in collected[t] : r.index = i}) <= 1
    <3>1. \A r, q \in {r \in collected[t] : r.index = i} : r = q
      BY DEF IInv, PushedOnce
    <3>2. Cardinality({r \in collected[t] : r.index = i}) \in 0 .. 1
      BY <3>1, AtMostOne
    <3> QED
      BY <3>2
  <2> QED
    BY <2>11, <2>12
<1> QED
  BY <1>1, Invariance, PTL

\* Every run implements the contract of the stage: each step is a step of
\* RunContract or leaves its variables alone.
THEOREM ImplementsContractSafety == Spec => Contract!Spec
<1>1. Init => Contract!Init
  BY DEF Init, Contract!Init
<1>2. IInv /\ [Next]_vars => [Contract!Next]_(Contract!vars)
  <2> SUFFICES ASSUME IInv, [Next]_vars
               PROVE  Contract!Next \/ UNCHANGED Contract!vars
    OBVIOUS
  <2>1. CASE Interrupt
    BY <2>1 DEF Interrupt, Contract!Next, Contract!Interrupt
  <2>2. ASSUME NEW t \in Threads, Work(t)
        PROVE  UNCHANGED Contract!vars
    BY <2>2 DEF Work, Take, Exhaust, Start, Finish, FinishWith, Recheck, Panic, Contract!vars
  <2>3. CASE Conclude
    <3>1. CASE outcome' = "panicked"
      BY <2>3, <3>1 DEF Conclude, Contract!Next, Contract!Decide, Contract!FailPanicked
    <3>2. CASE outcome' = "interrupted"
      <4>1. interrupted
        BY <2>3, <3>2, ThreadsFact DEF Conclude, IInv, LeftForAReason
      <4> QED
        BY <2>3, <3>2, <4>1
           DEF Conclude, Contract!Next, Contract!Decide, Contract!FailInterrupted
    <3>3. CASE outcome' = "ok"
      <4> DEFINE v == [i \in 1 .. Total |-> results'[i].verdict]
                 W == [i \in 1 .. Total |-> [index |-> i, verdict |-> v[i]]]
      <4>1. \A i \in 1 .. Total :
               /\ results'[i] \in Result
               /\ results'[i].index = i
               /\ results'[i].verdict # Cancelled
        BY <2>3, <3>3, SuccessIsComplete
      <4>2. v \in [1 .. Total -> Verdicts \ {Cancelled}]
        BY <4>1 DEF Result
      <4>3. results' = W
        <5>1. \A i \in 1 .. Total : results'[i] = W[i]
          BY <4>1 DEF Result
        <5>2. DOMAIN results' = 1 .. Total
          BY <2>3, <3>3, SuccessIsComplete
        <5>3. results' = [i \in DOMAIN results' |-> results'[i]]
          BY <2>3, <3>3 DEF Conclude, InPlanOrder
        <5> QED
          BY <5>1, <5>2, <5>3
      <4>4. outcome = "running" /\ UNCHANGED interrupted
        BY <2>3 DEF Conclude
      <4> QED
        BY <3>3, <4>2, <4>3, <4>4 DEF Contract!Next, Contract!Decide, Contract!Succeed
    <3> QED
      BY <2>3, <3>1, <3>2, <3>3 DEF Conclude
  <2>4. CASE UNCHANGED vars
    BY <2>4 DEF vars, Contract!vars
  <2> QED
    BY <2>1, <2>2, <2>3, <2>4 DEF Next
<1> QED
  BY <1>1, <1>2, Invariance, PTL DEF Spec, Contract!Spec
=============================================================================
