-------------------------- MODULE Surroundings_proofs --------------------------
(*************************************************************************)
(* Proofs about what surrounds the workers of a run.                     *)
(*                                                                       *)
(* RunSession, for every set of threads and of controls: the run that    *)
(* holds the lock is the only one that touches the flag and the SIGINT   *)
(* handler, and it leaves the handler as it found it.                    *)
(*                                                                       *)
(* Progress, for every list of counted states and every number of mutants: *)
(* what is left on the terminal, and what the line may say.              *)
(*                                                                       *)
(* TemporaryAreas, for every set of threads and processes, any clash of  *)
(* process numbers and any number of killed processes: whose a directory *)
(* is, who may remove it, and why one is left.                           *)
(*                                                                       *)
(* WorkspaceCopy, for every disk: what is found of a workspace is enough to *)
(* build it, and a workspace with all it needs is not turned away.       *)
(*                                                                       *)
(* WarmClones, for every set of crates and of workers: the tests of a worker *)
(* run what that worker built.                                           *)
(*                                                                       *)
(* CargoTargets, for all configurations on every disk: which of them are *)
(* refused, and which targets discovery asks the compiler about.         *)
(*************************************************************************)
EXTENDS RunSession, Progress, TemporaryAreas, WorkspaceCopy, WarmClones, CargoTargets, ListFacts

-----------------------------------------------------------------------------
(* The lock, the flag and the handler of a run.                            *)

\* The stages of a run that holds MUTATION_RUN_LOCK.
Holding == {"clear", "install", "unlock"} \cup Guarded

\* A run holds the lock from the moment it has it until it released it.
HolderHolds == \A c \in Callers : stage[c] \in Holding <=> holder = c

\* The recorder is installed exactly while a run is in its guarded stages.
RecorderMeansRun == handler = "recorder" <=> \E c \in Callers : stage[c] \in Guarded

\* The handler a guarded run will put back is the program's own.
SavedIsProgram == \A c \in Callers : previous[c] = "program"

SInv ==
    /\ TypeOK
    /\ HolderHolds
    /\ RecorderMeansRun
    /\ SavedIsProgram

-----------------------------------------------------------------------------
\* The actions of a run that leave the lock, the flag and the handler alone.
Quiet(c) ==
    \/ LoadDiff(c) \/ Plan(c) \/ CheckFlag(c) \/ Decide(c) \/ CollectCoverage(c)
    \/ TestCleanWorkspaces(c) \/ TestCandidates(c) \/ Panic(c)

\* A quiet step moves one guarded run to another guarded stage.
LEMMA QuietStep ==
    ASSUME TypeOK, NEW c \in Callers, Quiet(c)
    PROVE  /\ stage[c] \in Guarded
           /\ \E s \in Guarded : stage' = [stage EXCEPT ![c] = s]
           /\ \/ outcome' = outcome
              \/ \E o \in {"ok", "error", "interrupted", "panicked"} :
                    outcome' = [outcome EXCEPT ![c] = o]
           /\ planned' \in [Callers -> BOOLEAN]
           /\ UNCHANGED <<mode, holder, poisoned, flag, handler, previous>>
<1>1. CASE LoadDiff(c)
  BY <1>1 DEF TypeOK, LoadDiff, Leaves, Ends, GoTo, Guarded, run, signals
<1>2. CASE Plan(c)
  BY <1>2 DEF TypeOK, Plan, Leaves, Ends, GoTo, Guarded, run, signals
<1>3. CASE CheckFlag(c)
  BY <1>3 DEF TypeOK, CheckFlag, Leaves, Ends, GoTo, Guarded, run, signals
<1>4. CASE Decide(c)
  BY <1>4 DEF TypeOK, Decide, Leaves, Ends, GoTo, Guarded, run, signals
<1>5. CASE CollectCoverage(c)
  BY <1>5 DEF TypeOK, CollectCoverage, RunsCommands, Leaves, Ends, GoTo, Guarded, run, signals
<1>6. CASE TestCleanWorkspaces(c)
  BY <1>6 DEF TypeOK, TestCleanWorkspaces, RunsCommands, Leaves, Ends, GoTo, Guarded, run, signals
<1>7. CASE TestCandidates(c)
  BY <1>7 DEF TypeOK, TestCandidates, Leaves, Ends, GoTo, Guarded, run, signals
<1>8. CASE Panic(c)
  BY <1>8 DEF TypeOK, Panic, Leaves, Ends, GoTo, Guarded, run, signals
<1> QED
  BY <1>1, <1>2, <1>3, <1>4, <1>5, <1>6, <1>7, <1>8 DEF Quiet

LEMMA StepCases ==
    ASSUME NEW c \in Callers, Step(c)
    PROVE  Validate(c) \/ Lock(c) \/ ClearFlag(c) \/ Install(c) \/ Quiet(c)
             \/ Restore(c) \/ Unlock(c)
BY DEF Step, Quiet

LEMMA SInit == Init => SInv
BY ModesAssumption, CallersAssumption
   DEF Init, SInv, TypeOK, HolderHolds, RecorderMeansRun, SavedIsProgram, Holding, Guarded

LEMMA SStep == SInv /\ [Next]_vars => SInv'
<1> SUFFICES ASSUME SInv, [Next]_vars PROVE SInv'
  OBVIOUS
<1> USE CallersAssumption DEF SInv
<1>1. ASSUME NEW c \in Callers, Step(c), UNCHANGED alive PROVE SInv'
  <2>1. CASE Validate(c)
    BY <1>1, <2>1 DEF Validate, Ends, GoTo, run, signals, TypeOK, HolderHolds,
       RecorderMeansRun, SavedIsProgram, Holding, Guarded
  <2>2. CASE Lock(c)
    BY <1>1, <2>2 DEF Lock, Ends, GoTo, run, signals, TypeOK, HolderHolds,
       RecorderMeansRun, SavedIsProgram, Holding, Guarded
  <2>3. CASE ClearFlag(c)
    BY <1>1, <2>3 DEF ClearFlag, GoTo, run, TypeOK, HolderHolds,
       RecorderMeansRun, SavedIsProgram, Holding, Guarded
  <2>4. CASE Install(c)
    BY <1>1, <2>4 DEF Install, Ends, GoTo, run, TypeOK, HolderHolds,
       RecorderMeansRun, SavedIsProgram, Holding, Guarded
  <2>5. CASE Quiet(c)
    BY <1>1, <2>5, QuietStep DEF TypeOK, HolderHolds,
       RecorderMeansRun, SavedIsProgram, Holding, Guarded
  <2>6. CASE Restore(c)
    BY <1>1, <2>6 DEF Restore, GoTo, run, TypeOK, HolderHolds,
       RecorderMeansRun, SavedIsProgram, Holding, Guarded
  <2>7. CASE Unlock(c)
    BY <1>1, <2>7 DEF Unlock, GoTo, run, signals, TypeOK, HolderHolds,
       RecorderMeansRun, SavedIsProgram, Holding, Guarded
  <2> QED
    BY <1>1, <2>1, <2>2, <2>3, <2>4, <2>5, <2>6, <2>7, StepCases
<1>2. CASE Signal
  BY <1>2 DEF Signal, TypeOK, HolderHolds, RecorderMeansRun, SavedIsProgram
<1>3. CASE UNCHANGED vars
  BY <1>3 DEF vars, TypeOK, HolderHolds, RecorderMeansRun, SavedIsProgram
<1> QED
  BY <1>1, <1>2, <1>3 DEF Next

LEMMA SInvariance == Spec => []SInv
BY SInit, SStep, PTL DEF Spec

-----------------------------------------------------------------------------
\* Stages, outcomes, the lock and the handler keep their types, whatever panics.
THEOREM TypeCorrect == Spec => []TypeOK
<1>1. SInv => TypeOK
  BY DEF SInv
<1> QED
  BY <1>1, SInvariance, PTL

\* While a run is in its guarded stages the recorder receives SIGINT.
THEOREM RunsAreGuarded == Spec => []RunIsGuarded
<1>1. SInv => RunIsGuarded
  BY DEF SInv, RecorderMeansRun, RunIsGuarded
<1> QED
  BY <1>1, SInvariance, PTL

\* With no run under way the program has its own SIGINT handler.
THEOREM HandlersAreRestored == Spec => []HandlerIsRestored
<1>1. SInv => HandlerIsRestored
  BY DEF SInv, TypeOK, RecorderMeansRun, HandlerIsRestored, Guarded
<1> QED
  BY <1>1, SInvariance, PTL

\* A step that clears the flag is ClearFlag of the run that holds the lock, and
\* then no run is in its guarded stages.
THEOREM InterruptsAreKept == Spec => InterruptIsKept
<1>1. SInv /\ [Next]_vars =>
        \A c \in Callers : stage[c] \in Guarded /\ stage'[c] \in Guarded /\ flag => flag'
  <2> SUFFICES ASSUME SInv, [Next]_vars, NEW c \in Callers,
                      stage[c] \in Guarded, flag
               PROVE  flag'
    OBVIOUS
  <2>1. ASSUME NEW d \in Callers, Step(d) PROVE flag'
    <3>1. CASE ClearFlag(d)
      <4>1. holder = c /\ holder = d /\ stage[d] = "clear"
        BY <3>1 DEF SInv, HolderHolds, Holding, ClearFlag
      <4> QED
        BY <4>1 DEF Guarded
    <3>2. CASE Quiet(d)
      BY <3>2, QuietStep DEF SInv
    <3>3. CASE Validate(d) \/ Lock(d) \/ Install(d) \/ Restore(d) \/ Unlock(d)
      BY <3>3 DEF Validate, Lock, Install, Restore, Unlock, signals
    <3> QED
      BY <2>1, <3>1, <3>2, <3>3, StepCases
  <2>2. CASE Signal
    BY <2>2 DEF Signal
  <2>3. CASE UNCHANGED vars
    BY <2>3 DEF vars
  <2> QED
    BY <2>1, <2>2, <2>3 DEF Next
<1> QED
  BY <1>1, SInvariance, PTL DEF Spec, InterruptIsKept

AllStates == CountedStates \cup {Generated}

-----------------------------------------------------------------------------
(* The terminal after the run.                                             *)

\* The monitor goes after the ticker, and the ticker after the line.
LeavesInOrder ==
    /\ monitor = "dropped" => ticker = "gone"
    /\ ticker = "gone" => line = Clear

LEMMA LeavesStep == LeavesInOrder /\ [ProgressNext]_progressVars => LeavesInOrder'
<1> SUFFICES ASSUME LeavesInOrder, [ProgressNext]_progressVars PROVE LeavesInOrder'
  OBVIOUS
<1> USE DEF LeavesInOrder, thread
<1>1. CASE StartMonitor
  BY <1>1 DEF StartMonitor
<1>2. ASSUME NEW s \in AllStates, RecordState(s) PROVE LeavesInOrder'
  BY <1>2 DEF RecordState
<1>3. CASE Wake
  BY <1>3 DEF Wake
<1>4. CASE ReadCounter
  BY <1>4 DEF ReadCounter
<1>5. CASE Draw
  BY <1>5 DEF Draw
<1>6. CASE ClearLine
  BY <1>6 DEF ClearLine
<1>7. CASE StopMonitor
  BY <1>7 DEF StopMonitor
<1>8. CASE JoinTicker
  BY <1>8 DEF JoinTicker
<1>9. CASE UNCHANGED progressVars
  BY <1>9 DEF progressVars
<1> QED
  BY <1>1, <1>2, <1>3, <1>4, <1>5, <1>6, <1>7, <1>8, <1>9 DEF ProgressNext, AllStates

\* When the drop of the monitor has returned, the terminal is clean and the
\* thread that could draw on it is gone.
THEOREM OutputStaysClean == ProgressSpec => []OutputIsClean
<1>1. ProgressInit => LeavesInOrder
  BY DEF ProgressInit, LeavesInOrder
<1>2. LeavesInOrder => OutputIsClean
  BY DEF LeavesInOrder, OutputIsClean
<1> QED
  BY <1>1, <1>2, LeavesStep, PTL DEF ProgressSpec

-----------------------------------------------------------------------------
(* The counts.                                                             *)

CountsTyped ==
    /\ counter \in [CountedStates -> Nat]
    /\ snapshot \in [CountedStates -> Nat]
    /\ finished \in [AllStates -> Nat]
    /\ line # Clear => line \in [CountedStates -> Nat]

\* A snapshot is behind the counters, and these are behind the mutants.
CountsFollow ==
    \A s \in CountedStates : snapshot[s] <= counter[s] /\ counter[s] <= finished[s]

CountsInv == CountsTyped /\ CountsFollow /\ LineShowsFinished

LEMMA RecordKeepsCounts ==
    ASSUME CountsInv, NEW s \in AllStates, RecordState(s)
    PROVE  CountsInv'
<1>1. finished' = [finished EXCEPT ![s] = @ + 1]
  BY DEF RecordState
<1>2. counter' = [t \in CountedStates |-> counter[t] + (IF t = s THEN 1 ELSE 0)]
  BY DEF RecordState
<1>3. snapshot' = snapshot /\ line' = line
  BY DEF RecordState, thread
<1>4. CountsTyped'
  BY <1>1, <1>2, <1>3 DEF CountsInv, CountsTyped
<1>5. ASSUME NEW t \in CountedStates
      PROVE  /\ snapshot'[t] <= counter'[t]
             /\ counter'[t] <= finished'[t]
             /\ finished[t] <= finished'[t]
  <2>1. t \in AllStates
    BY DEF AllStates
  <2> QED
    BY <1>1, <1>2, <1>3, <2>1 DEF CountsInv, CountsTyped, CountsFollow
<1>6. CountsFollow'
  BY <1>5 DEF CountsFollow
<1>7. LineShowsFinished'
  <2> SUFFICES ASSUME line' # Clear, NEW t \in CountedStates PROVE line'[t] <= finished'[t]
    BY DEF LineShowsFinished
  <2>1. line[t] <= finished[t]
    BY <1>3 DEF CountsInv, LineShowsFinished
  <2>2. line[t] \in Nat /\ finished[t] \in Nat /\ finished'[t] \in Nat
    BY <1>3, <1>4 DEF CountsInv, CountsTyped, AllStates
  <2> QED
    BY <1>3, <1>5, <2>1, <2>2
<1> QED
  BY <1>4, <1>6, <1>7 DEF CountsInv

LEMMA ReadKeepsCounts ==
    ASSUME CountsInv, ReadCounter
    PROVE  CountsInv'
<1> DEFINE state == Counted[index]
<1>1. PICK v \in snapshot[state] .. counter[state] : snapshot' = [snapshot EXCEPT ![state] = v]
  BY DEF ReadCounter
<1>2. UNCHANGED <<counter, finished, line>>
  BY DEF ReadCounter
<1>3. ASSUME NEW t \in CountedStates
      PROVE  snapshot'[t] \in Nat /\ snapshot'[t] <= counter[t]
  BY <1>1 DEF CountsInv, CountsTyped, CountsFollow
<1>4. snapshot' \in [CountedStates -> Nat]
  BY <1>1, <1>3 DEF CountsInv, CountsTyped
<1> QED
  BY <1>2, <1>3, <1>4 DEF CountsInv, CountsTyped, CountsFollow, LineShowsFinished

LEMMA DrawKeepsCounts ==
    ASSUME CountsInv, Draw
    PROVE  CountsInv'
<1>1. line' = snapshot /\ UNCHANGED <<counter, finished, snapshot>>
  BY DEF Draw
<1>2. CountsTyped' /\ CountsFollow'
  BY <1>1 DEF CountsInv, CountsTyped, CountsFollow
<1>3. ASSUME NEW t \in CountedStates PROVE snapshot[t] <= finished[t]
  <2>1. snapshot[t] \in Nat /\ counter[t] \in Nat /\ finished[t] \in Nat
    BY DEF CountsInv, CountsTyped, AllStates
  <2> QED
    BY <2>1 DEF CountsInv, CountsFollow
<1>4. LineShowsFinished'
  BY <1>1, <1>3 DEF LineShowsFinished
<1> QED
  BY <1>2, <1>4 DEF CountsInv

LEMMA CountsStep == CountsInv /\ [ProgressNext]_progressVars => CountsInv'
<1> SUFFICES ASSUME CountsInv, [ProgressNext]_progressVars PROVE CountsInv'
  OBVIOUS
<1> USE DEF CountsInv, CountsTyped, CountsFollow, LineShowsFinished, thread
<1>1. CASE StartMonitor
  BY <1>1 DEF StartMonitor
<1>2. ASSUME NEW s \in AllStates, RecordState(s) PROVE CountsInv'
  BY <1>2, RecordKeepsCounts
<1>3. CASE Wake
  BY <1>3 DEF Wake
<1>4. CASE ReadCounter
  BY <1>4, ReadKeepsCounts
<1>5. CASE Draw
  BY <1>5, DrawKeepsCounts
<1>6. CASE ClearLine
  BY <1>6 DEF ClearLine
<1>7. CASE StopMonitor
  BY <1>7 DEF StopMonitor
<1>8. CASE JoinTicker
  BY <1>8 DEF JoinTicker
<1>9. CASE UNCHANGED progressVars
  BY <1>9 DEF progressVars
<1> QED
  BY <1>1, <1>2, <1>3, <1>4, <1>5, <1>6, <1>7, <1>8, <1>9 DEF ProgressNext, AllStates

\* However old the counts are that a snapshot finds, and however many mutants
\* finish while it is taken, the line claims none that is not finished.
THEOREM LinesShowFinished == ProgressSpec => []LineShowsFinished
<1>1. ProgressInit => CountsInv
  <2> SUFFICES ASSUME ProgressInit PROVE CountsInv
    OBVIOUS
  <2>1. CountsTyped
    BY DEF ProgressInit, CountsTyped, AllStates
  <2>2. CountsFollow
    BY DEF ProgressInit, CountsFollow
  <2>3. LineShowsFinished
    BY DEF ProgressInit, LineShowsFinished
  <2> QED
    BY <2>1, <2>2, <2>3 DEF CountsInv
<1>2. CountsInv => LineShowsFinished
  BY DEF CountsInv
<1> QED
  BY <1>1, <1>2, CountsStep, PTL DEF ProgressSpec
-----------------------------------------------------------------------------
(* Temporary areas.                                                        *)

\* A count of a process starts with one, so no name is NoName.
Names == {<<NumberOf(p), n>> : p \in Processes, n \in Nat \ {0}}

AreasTyped ==
    /\ used \in [Processes -> Nat]
    /\ doing \in [Threads -> {"idle", "retry", "using", "dropping", "failed"}]
    /\ held \in [Threads -> Names \cup {NoName}]
    /\ DOMAIN maker \subseteq Names

\* A thread holds a name from create to finish or drop.
HoldsWhileUsing ==
    \A t \in Threads : held[t] # NoName <=> doing[t] \in {"using", "dropping"}

\* The directory a thread holds is one it made and did not keep.
HoldsOwn ==
    \A t \in Threads : held[t] # NoName =>
        held[t] \in DOMAIN maker /\ maker[held[t]] = t /\ held[t] \notin kept

KeptStay == kept \subseteq DOMAIN maker

AInv == AreasTyped /\ HoldsWhileUsing /\ HoldsOwn /\ KeptStay /\ LeftoversAreExplained

LEMMA NamesAreReal == NoName \notin Names
BY DEF Names, NoName

LEMMA AInit == TempInit => AInv
<1> SUFFICES ASSUME TempInit PROVE AInv
  OBVIOUS
<1> QED
  BY DEF TempInit, AInv, AreasTyped, HoldsWhileUsing, HoldsOwn, KeptStay, LeftoversAreExplained

-----------------------------------------------------------------------------
(* The steps that change which directories exist or who holds one.         *)

\* A thread that holds nothing makes a directory under a free name.
LEMMA MakingKeeps ==
    ASSUME AInv, NEW t \in Threads, held[t] = NoName, NEW name \in Names,
           name \notin DOMAIN maker,
           used' \in [Processes -> Nat],
           maker' = [n \in DOMAIN maker \cup {name} |-> IF n = name THEN t ELSE maker[n]],
           held' = [held EXCEPT ![t] = name],
           doing' = [doing EXCEPT ![t] = "using"],
           UNCHANGED <<kept, stuck, orphans>>
    PROVE  AInv'
<1> USE NamesAreReal DEF AInv
<1>1. AreasTyped'
  BY DEF AreasTyped
<1>2. HoldsWhileUsing'
  BY DEF AreasTyped, HoldsWhileUsing
<1>3. HoldsOwn'
  <2> SUFFICES ASSUME NEW u \in Threads, held'[u] # NoName
               PROVE  held'[u] \in DOMAIN maker' /\ maker'[held'[u]] = u /\ held'[u] \notin kept'
    BY DEF HoldsOwn
  <2>1. CASE u = t
    BY <2>1 DEF AreasTyped, KeptStay
  <2>2. CASE u # t
    <3>1. held'[u] = held[u] /\ held[u] # name
      BY <2>2 DEF AreasTyped, HoldsOwn
    <3> QED
      BY <3>1 DEF HoldsOwn
  <2> QED
    BY <2>1, <2>2
<1>4. KeptStay'
  BY DEF KeptStay
<1>5. LeftoversAreExplained'
  <2> SUFFICES ASSUME NEW n \in DOMAIN maker'
               PROVE  n \in {held'[u] : u \in Threads} \cup kept \cup stuck \cup orphans
    BY DEF LeftoversAreExplained
  <2>1. CASE n = name
    BY <2>1 DEF AreasTyped
  <2>2. CASE \E u \in Threads : held[u] = n /\ n \in DOMAIN maker /\ n # name
    <3>1. PICK u \in Threads : held[u] = n /\ n # name
      BY <2>2
    <3>2. u # t
      BY <2>2, <3>1 DEF AreasTyped
    <3> QED
      BY <3>1, <3>2 DEF AreasTyped
  <2> QED
    BY <2>1, <2>2 DEF LeftoversAreExplained
<1> QED
  BY <1>1, <1>2, <1>3, <1>4, <1>5

\* A thread removes the directory it holds.
LEMMA RemovingKeeps ==
    ASSUME AInv, NEW t \in Threads, held[t] # NoName,
           NEW next \in {"idle", "failed"},
           maker' = Without(held[t]),
           held' = [held EXCEPT ![t] = NoName],
           doing' = [doing EXCEPT ![t] = next],
           UNCHANGED <<used, kept, stuck, orphans>>
    PROVE  AInv'
<1> USE NamesAreReal DEF AInv, Without
<1>1. AreasTyped'
  BY DEF AreasTyped
<1>2. HoldsWhileUsing'
  BY DEF AreasTyped, HoldsWhileUsing
<1>3. HoldsOwn'
  <2> SUFFICES ASSUME NEW u \in Threads, held'[u] # NoName
               PROVE  held'[u] \in DOMAIN maker' /\ maker'[held'[u]] = u /\ held'[u] \notin kept'
    BY DEF HoldsOwn
  <2>1. u # t /\ held'[u] = held[u]
    BY DEF AreasTyped
  <2>2. held[u] # held[t]
    BY <2>1 DEF HoldsOwn
  <2> QED
    BY <2>1, <2>2 DEF HoldsOwn
<1>4. KeptStay'
  BY DEF KeptStay, HoldsOwn
<1>5. LeftoversAreExplained'
  <2> SUFFICES ASSUME NEW n \in DOMAIN maker'
               PROVE  n \in {held'[u] : u \in Threads} \cup kept \cup stuck \cup orphans
    BY DEF LeftoversAreExplained
  <2>1. n \in DOMAIN maker /\ n # held[t]
    OBVIOUS
  <2>2. CASE \E u \in Threads : held[u] = n
    <3>1. PICK u \in Threads : held[u] = n
      BY <2>2
    <3>2. u # t
      BY <2>1, <3>1
    <3> QED
      BY <3>1, <3>2 DEF AreasTyped
  <2> QED
    BY <2>1, <2>2 DEF LeftoversAreExplained
<1> QED
  BY <1>1, <1>2, <1>3, <1>4, <1>5

\* A thread gives a directory up that stays, as one that is kept or stuck.
LEMMA GivingUpKeeps ==
    ASSUME AInv, NEW t \in Threads, held[t] # NoName,
           NEW next \in {"idle", "failed"},
           held' = [held EXCEPT ![t] = NoName],
           doing' = [doing EXCEPT ![t] = next],
           kept' \in {kept, kept \cup {held[t]}},
           held[t] \in kept' \cup stuck',
           stuck \subseteq stuck',
           UNCHANGED <<used, maker, orphans>>
    PROVE  AInv'
<1> USE NamesAreReal DEF AInv
<1>1. AreasTyped'
  BY DEF AreasTyped
<1>2. HoldsWhileUsing'
  BY DEF AreasTyped, HoldsWhileUsing
<1>3. HoldsOwn'
  <2> SUFFICES ASSUME NEW u \in Threads, held'[u] # NoName
               PROVE  held'[u] \in DOMAIN maker' /\ maker'[held'[u]] = u /\ held'[u] \notin kept'
    BY DEF HoldsOwn
  <2>1. u # t /\ held'[u] = held[u]
    BY DEF AreasTyped
  <2>2. held[u] # held[t]
    BY <2>1 DEF HoldsOwn
  <2> QED
    BY <2>1, <2>2 DEF HoldsOwn
<1>4. KeptStay'
  BY DEF KeptStay, HoldsOwn
<1>5. LeftoversAreExplained'
  <2> SUFFICES ASSUME NEW n \in DOMAIN maker
               PROVE  n \in {held'[u] : u \in Threads} \cup kept' \cup stuck' \cup orphans
    BY DEF LeftoversAreExplained
  <2>1. CASE \E u \in Threads : u # t /\ held[u] = n
    BY <2>1 DEF AreasTyped
  <2> QED
    BY <2>1 DEF LeftoversAreExplained
<1> QED
  BY <1>1, <1>2, <1>3, <1>4, <1>5

\* A thread goes on with what it has, or without anything.
LEMMA GoingOnKeeps ==
    ASSUME AInv, NEW t \in Threads,
           NEW next \in {"idle", "retry", "using", "dropping", "failed"},
           held[t] # NoName <=> next \in {"using", "dropping"},
           used' \in [Processes -> Nat],
           doing' = [doing EXCEPT ![t] = next],
           UNCHANGED <<held, maker, kept, stuck, orphans>>
    PROVE  AInv'
BY DEF AInv, AreasTyped, HoldsWhileUsing, HoldsOwn, KeptStay, LeftoversAreExplained

\* The threads of a killed process lose what they hold to the orphans.
LEMMA KillingKeeps ==
    ASSUME AInv, NEW p \in Processes, KillProcess(p)
    PROVE  AInv'
<1> DEFINE lost == {t \in Threads : ProcessOf(t) = p}
<1> USE NamesAreReal DEF AInv
<1>1. /\ orphans' = orphans \cup ({held[t] : t \in lost} \ {NoName})
      /\ used' = [used EXCEPT ![p] = 0]
      /\ doing' = [t \in Threads |-> IF t \in lost THEN "idle" ELSE doing[t]]
      /\ held' = [t \in Threads |-> IF t \in lost THEN NoName ELSE held[t]]
      /\ UNCHANGED <<maker, kept, stuck>>
  BY DEF KillProcess
<1> HIDE DEF lost
<1>2. AreasTyped'
  BY <1>1 DEF AreasTyped
<1>3. HoldsWhileUsing'
  BY <1>1 DEF AreasTyped, HoldsWhileUsing
<1>4. HoldsOwn' /\ KeptStay'
  BY <1>1 DEF HoldsOwn, KeptStay
<1>5. LeftoversAreExplained'
  <2> SUFFICES ASSUME NEW n \in DOMAIN maker
               PROVE  n \in {held'[u] : u \in Threads} \cup kept \cup stuck \cup orphans'
    BY <1>1 DEF LeftoversAreExplained
  <2>1. CASE \E u \in Threads : held[u] = n
    <3>1. PICK u \in Threads : held[u] = n
      BY <2>1
    <3>2. CASE u \in lost
      <4>1. n # NoName
        BY DEF AreasTyped
      <4> QED
        BY <1>1, <3>1, <3>2, <4>1
    <3>3. CASE u \notin lost
      BY <1>1, <3>1, <3>3
    <3> QED
      BY <3>2, <3>3
  <2> QED
    BY <1>1, <2>1 DEF LeftoversAreExplained
<1> QED
  BY <1>2, <1>3, <1>4, <1>5

-----------------------------------------------------------------------------
LEMMA TryNameKeeps ==
    ASSUME AInv, NEW t \in Threads, TryName(t)
    PROVE  AInv'
<1> DEFINE p == ProcessOf(t)
           name == <<NumberOf(p), used[p] + 1>>
<1>1. p \in Processes /\ used[p] \in Nat
  BY DEF AInv, AreasTyped, Processes
<1>2. name \in Names
  BY <1>1 DEF Names
<1>3. used' \in [Processes -> Nat]
  BY <1>1 DEF AInv, AreasTyped, TryName
<1>4. held[t] = NoName
  BY DEF AInv, HoldsWhileUsing, TryName
<1>5. CASE /\ name \notin DOMAIN maker
           /\ maker' = [n \in DOMAIN maker \cup {name} |-> IF n = name THEN t ELSE maker[n]]
           /\ held' = [held EXCEPT ![t] = name]
           /\ Goes(t, "using")
  <2> HIDE DEF name
  <2>1. UNCHANGED <<kept, stuck, orphans>>
    BY DEF TryName, leftovers
  <2> QED
    BY <1>2, <1>3, <1>4, <1>5, <2>1, MakingKeeps DEF Goes
<1>6. CASE \E next \in {"retry", "failed"} : Goes(t, next) /\ UNCHANGED <<maker, held>>
  <2>1. PICK next \in {"retry", "failed"} : Goes(t, next) /\ UNCHANGED <<maker, held>>
    BY <1>6
  <2>2. UNCHANGED <<kept, stuck, orphans>>
    BY DEF TryName, leftovers
  <2> QED
    BY <1>3, <1>4, <2>1, <2>2, GoingOnKeeps DEF Goes
<1> QED
  BY <1>5, <1>6 DEF TryName, IsTaken

LEMMA AStep == AInv /\ [TempNext]_tempVars => AInv'
<1> SUFFICES ASSUME AInv, [TempNext]_tempVars PROVE AInv'
  OBVIOUS
<1>1. ASSUME NEW t \in Threads, TryName(t) PROVE AInv'
  BY <1>1, TryNameKeeps
<1>2. ASSUME NEW t \in Threads, doing[t] \in {"using", "dropping"} PROVE held[t] # NoName
  BY <1>2 DEF AInv, HoldsWhileUsing
<1>3. ASSUME NEW t \in Threads, Keep(t) PROVE AInv'
  BY <1>2, <1>3, GivingUpKeeps DEF Keep, Goes
<1>4. ASSUME NEW t \in Threads, Finish(t) PROVE AInv'
  <2>1. CASE maker' = Without(held[t]) /\ held' = [held EXCEPT ![t] = NoName] /\ Goes(t, "idle")
    BY <1>2, <1>4, <2>1, RemovingKeeps DEF Finish, Goes, leftovers
  <2>2. CASE Goes(t, "dropping") /\ UNCHANGED <<maker, held>>
    BY <1>2, <1>4, <2>2, GoingOnKeeps DEF Finish, Goes, leftovers, AInv, AreasTyped
  <2> QED
    BY <1>4, <2>1, <2>2 DEF Finish
<1>5. ASSUME NEW t \in Threads, Abandon(t) PROVE AInv'
  BY <1>2, <1>5, GoingOnKeeps DEF Abandon, Goes, leftovers, AInv, AreasTyped
<1>6. ASSUME NEW t \in Threads, Drop(t) PROVE AInv'
  <2>1. CASE maker' = Without(held[t]) /\ UNCHANGED stuck
    BY <1>2, <1>6, <2>1, RemovingKeeps DEF Drop, Goes
  <2>2. CASE stuck' = stuck \cup {held[t]} /\ UNCHANGED maker
    BY <1>2, <1>6, <2>2, GivingUpKeeps DEF Drop, Goes
  <2> QED
    BY <1>6, <2>1, <2>2 DEF Drop
<1>7. ASSUME NEW t \in Threads, Restart(t) PROVE AInv'
  <2>1. held[t] = NoName
    BY <1>7 DEF Restart, AInv, HoldsWhileUsing
  <2> QED
    BY <1>7, <2>1, GoingOnKeeps DEF Restart, Goes, leftovers, AInv, AreasTyped
<1>8. ASSUME NEW p \in Processes, KillProcess(p) PROVE AInv'
  BY <1>8, KillingKeeps
<1>9. CASE UNCHANGED tempVars
  BY <1>9 DEF tempVars, AInv, AreasTyped, HoldsWhileUsing, HoldsOwn, KeptStay, LeftoversAreExplained
<1> QED
  BY <1>1, <1>3, <1>4, <1>5, <1>6, <1>7, <1>8, <1>9 DEF TempNext

LEMMA AInvariance == TempSpec => []AInv
BY AInit, AStep, PTL DEF TempSpec

-----------------------------------------------------------------------------
\* An area in use is a directory that its thread made and nobody else holds,
\* although process numbers may clash and killed processes leave directories.
THEOREM AreasHaveOneHolder == TempSpec => []AreaHasOneHolder
<1>1. AInv => AreaHasOneHolder
  BY DEF AInv, HoldsWhileUsing, HoldsOwn, AreaHasOneHolder, IsTaken
<1> QED
  BY <1>1, AInvariance, PTL

\* A directory that is left was kept, was orphaned by a kill, or could not be
\* removed: create, finish and drop forget none.
THEOREM LeftoversHaveReasons == TempSpec => []LeftoversAreExplained
<1>1. AInv => LeftoversAreExplained
  BY DEF AInv
<1> QED
  BY <1>1, AInvariance, PTL

\* A directory goes only by the hand of the thread that made it and holds it,
\* and a kept one never goes.
THEOREM OnlyOwnersRemove == TempSpec => OnlyOwnAreasRemoved
<1> DEFINE Removals ==
             \A n \in DOMAIN maker \ DOMAIN maker' :
                 n \notin kept /\ \E t \in Threads : held[t] = n /\ maker[n] = t
<1>1. AInv /\ [TempNext]_tempVars => [Removals]_tempVars
  <2> SUFFICES ASSUME AInv, TempNext,
                      NEW n \in DOMAIN maker, n \notin DOMAIN maker'
               PROVE  n \notin kept /\ \E t \in Threads : held[t] = n /\ maker[n] = t
    OBVIOUS
  <2>1. ASSUME NEW t \in Threads, Finish(t) \/ Drop(t)
        PROVE  n \notin kept /\ held[t] = n /\ maker[n] = t
    <3>1. maker' = Without(held[t])
      BY <2>1 DEF Finish, Drop
    <3>2. held[t] = n
      BY <3>1 DEF Without
    <3>3. held[t] # NoName
      BY <2>1 DEF Finish, Drop, AInv, HoldsWhileUsing
    <3> QED
      BY <3>2, <3>3 DEF AInv, HoldsOwn
  <2>2. ASSUME NEW t \in Threads, TryName(t) PROVE FALSE
    BY <2>2 DEF TryName
  <2>3. ASSUME NEW t \in Threads, Keep(t) \/ Abandon(t) \/ Restart(t) PROVE FALSE
    BY <2>3 DEF Keep, Abandon, Restart
  <2>4. ASSUME NEW p \in Processes, KillProcess(p) PROVE FALSE
    BY <2>4 DEF KillProcess
  <2> QED
    BY <2>1, <2>2, <2>3, <2>4 DEF TempNext
<1> QED
  BY <1>1, AInvariance, PTL DEF TempSpec, OnlyOwnAreasRemoved

-----------------------------------------------------------------------------
(* Paths and what lies under them.                                         *)

Paths == Seq(STRING)

LEMMA UnderIsPrefix ==
    ASSUME NEW a \in Paths, NEW b \in Paths
    PROVE  Under(a, b) <=> Len(b) <= Len(a) /\ \A i \in 1 .. Len(b) : b[i] = a[i]
<1> DEFINE n == Len(b)
<1>0. Len(a) \in Nat /\ Len(b) \in Nat
  BY DEF Paths
<1>1. SubSeq(b, 1, n) = b
  BY SubSeqFull DEF Paths
<1>2. ASSUME n <= Len(a)
      PROVE  /\ SubSeq(a, 1, n) \in Paths /\ Len(SubSeq(a, 1, n)) = n
             /\ \A i \in 1 .. n : SubSeq(a, 1, n)[i] = a[i]
  BY <1>0, <1>2, SubSeqProperties DEF Paths
<1>3. n <= Len(a) => (b = SubSeq(a, 1, n) <=> \A i \in 1 .. n : b[i] = a[i])
  BY <1>2, SeqEqual DEF Paths
<1>4. QED BY <1>1, <1>3 DEF Under, IsPrefix

LEMMA UnderItself == \A a \in Paths : Under(a, a)
  BY UnderIsPrefix DEF Paths

LEMMA UnderTransitive ==
    ASSUME NEW a \in Paths, NEW b \in Paths, NEW c \in Paths, Under(a, b), Under(b, c)
    PROVE  Under(a, c)
<1>1. Len(a) \in Nat /\ Len(b) \in Nat /\ Len(c) \in Nat
  BY DEF Paths
<1>2. QED BY <1>1, UnderIsPrefix

\* Two directories above one path lie one in the other.
LEMMA UnderComparable ==
    ASSUME NEW a \in Paths, NEW b \in Paths, NEW c \in Paths, Under(c, a), Under(c, b)
    PROVE  Under(a, b) \/ Under(b, a)
<1>1. Len(a) \in Nat /\ Len(b) \in Nat /\ Len(c) \in Nat
  BY DEF Paths
<1>2. /\ Len(a) <= Len(c) /\ \A i \in 1 .. Len(a) : a[i] = c[i]
      /\ Len(b) <= Len(c) /\ \A i \in 1 .. Len(b) : b[i] = c[i]
  BY UnderIsPrefix
<1>3. CASE Len(a) <= Len(b)
  BY <1>1, <1>2, <1>3, UnderIsPrefix
<1>4. CASE Len(b) <= Len(a)
  BY <1>1, <1>2, <1>4, UnderIsPrefix
<1>5. QED BY <1>1, <1>3, <1>4

LEMMA UnderLongerSame ==
    ASSUME NEW a \in Paths, NEW b \in Paths, Under(a, b), Len(a) <= Len(b)
    PROVE  a = b
<1>1. Len(a) \in Nat /\ Len(b) \in Nat
  BY DEF Paths
<1>2. Len(a) = Len(b) /\ \A i \in 1 .. Len(b) : b[i] = a[i]
  BY <1>1, UnderIsPrefix
<1>3. QED BY <1>2, SeqEqual DEF Paths

LEMMA ManifestUnder ==
    ASSUME NEW d \in Paths, Manifest(d) \in Paths
    PROVE  Under(Manifest(d), d)
<1>1. Len(d) \in Nat /\ Len(Manifest(d)) = Len(d) + 1 /\ \A i \in 1 .. Len(d) : Manifest(d)[i] = d[i]
  BY DEF Paths, Manifest
<1>2. QED BY <1>1, UnderIsPrefix

\* Of nested paths the outermost is kept, and covers the others.
LEMMA OutermostCovers ==
    ASSUME NEW S \in SUBSET Paths, NEW p \in S
    PROVE  \E q \in OutermostOf(S) : Under(p, q)
<1> DEFINE above == {q \in S : Under(p, q)}
           lengths == {Len(q) : q \in above}
<1>1. p \in above
  BY UnderItself
<1>2. lengths \subseteq Nat /\ lengths # {}
  <2>1. \A q \in Paths : Len(q) \in Nat
    BY DEF Paths
  <2>2. QED BY <1>1, <2>1
<1>3. PICK n \in lengths : \A k \in lengths : n <= k
  BY <1>2, LeastNatural
<1>4. PICK q \in above : Len(q) = n
  BY <1>3
<1>5. ASSUME NEW o \in S, Under(q, o) PROVE o = q
  <2>1. Under(p, o)
    BY <1>5, UnderTransitive
  <2>2. Len(q) <= Len(o)
    BY <1>3, <1>4, <2>1
  <2>3. QED BY <1>5, <2>2, UnderLongerSame
<1>6. QED BY <1>4, <1>5 DEF OutermostOf
-----------------------------------------------------------------------------
(* What a disk holds.                                                      *)

LEMMA FrontOfManifest ==
    ASSUME NEW d \in Paths
    PROVE  Front(Manifest(d)) = d /\ Last(Manifest(d)) = "Cargo.toml"
<1> DEFINE m == Manifest(d)
           S == STRING \cup {"Cargo.toml"}
<1>1. d \in Seq(S) /\ "Cargo.toml" \in S
  BY SeqMonotonic DEF Paths
<1>2. /\ m \in Seq(S) /\ Len(m) = Len(d) + 1 /\ Len(d) \in Nat
      /\ m[Len(m)] = "Cargo.toml" /\ \A i \in 1 .. Len(d) : m[i] = d[i]
  BY <1>1, AppendProperties DEF Manifest
<1>3. /\ SubSeq(m, 1, Len(d)) \in Seq(S) /\ Len(SubSeq(m, 1, Len(d))) = Len(d)
      /\ \A i \in 1 .. Len(d) : SubSeq(m, 1, Len(d))[i] = d[i]
  BY <1>2, SubSeqProperties
<1>4. SubSeq(m, 1, Len(d)) = d
  BY <1>1, <1>3, SeqEqual
<1>5. QED BY <1>2, <1>4 DEF Front, Last

LEMMA TargetsArePaths ==
    ASSUME disk \in Worlds, NEW files, NEW kinds
    PROVE  Targets(files, kinds) \subseteq Paths /\ IsFiniteSet(Targets(files, kinds))
<1> DEFINE paths == {r.to : r \in UNION {disk.refs[f] : f \in DOMAIN disk.refs}}
<1>1. IsFiniteSet(paths) /\ paths \subseteq Paths
  BY WorldsAssumption DEF IsWorld, Paths
<1>2. Targets(files, kinds) \subseteq paths
  BY DEF Targets, RefsOf
<1>3. QED BY <1>1, <1>2, FS_Subset

LEMMA TargetsOf ==
    ASSUME NEW files, NEW kinds, NEW f \in files, NEW r \in RefsOf(f, kinds)
    PROVE  r.to \in Targets(files, kinds)
  BY DEF Targets

LEMMA PathsOnDisk ==
    ASSUME disk \in Worlds
    PROVE  /\ disk.files \subseteq Paths /\ disk.root \in Paths /\ HasFile(disk.source)
           /\ \A f : HasFile(f) => f \in Paths /\ OnDisk(f)
  BY WorldsAssumption, UnderItself DEF IsWorld, Paths, HasFile, OnDisk

\* `cargo metadata` answers with packages whose manifests are there.
LEMMA MembersHaveManifests ==
    ASSUME disk \in Worlds, NEW d \in Paths, d = disk.root \/ HasFile(Manifest(d))
    PROVE  /\ \A q \in disk.members[d] : q \in Paths /\ HasFile(Manifest(q))
           /\ disk.buildOf[d] \in Paths
<1>1. IsWorld(disk)
  BY WorldsAssumption
<1>2. d \in {disk.root} \cup {Front(f) : f \in {m \in disk.files : Last(m) = "Cargo.toml"}}
  BY FrontOfManifest DEF HasFile
<1>3. /\ disk.members[d] \subseteq {q \in Seq(STRING) : Manifest(q) \in disk.files}
      /\ disk.buildOf[d] \in Seq(STRING)
  BY <1>1, <1>2, Zenon DEF IsWorld
<1>4. QED BY <1>3 DEF Paths, HasFile

LEMMA DiskStays ==
    ASSUME disk' = disk
    PROVE  /\ \A f : HasFile(f)' <=> HasFile(f)
           /\ \A f : OnDisk(f)' <=> OnDisk(f)
           /\ \A f, kinds : RefsOf(f, kinds)' = RefsOf(f, kinds)
           /\ \A files, kinds : Targets(files, kinds)' = Targets(files, kinds)
           /\ \A r : IsStrayInclude(r)' <=> IsStrayInclude(r)
  BY DEF HasFile, OnDisk, RefsOf, Targets, IsStrayInclude

-----------------------------------------------------------------------------
(* The inductive invariant.                                                *)

DependencyPaths == Targets(DOMAIN disk.refs, {"dependency"})

Inspected == {"inspected", "copy", "rewrite configurations", "rewrite manifests", "done"}
Copied == {"rewrite configurations", "rewrite manifests", "done"}

CopyTyped ==
    /\ disk \in Worlds
    /\ roots \in SUBSET Paths
    /\ pending \in Seq(DependencyPaths)
    /\ builds \in SUBSET Paths

\* Every manifest found lies beside a path that will be copied.
ManifestsOfRoots == \A m \in manifests : HasFile(m) /\ \E d \in roots : m = Manifest(d)

\* What an inspected manifest leads to will be copied.
PathsOf(d) == Targets({Manifest(d)}, ManifestKinds)

InspectionsFollowed ==
    \A d \in inspected : /\ Manifest(d) \in manifests
                         /\ \A t \in PathsOf(d) : OnDisk(t) => t \in roots

MembersFound ==
    copying \in {"dependencies"} \cup Inspected =>
        \A p \in disk.members[disk.root] : Manifest(p) \in manifests

\* When inspection ends, no manifest found was left uninspected, and none that
\* lies beside a path found was missed.
AllInspected ==
    copying \in Inspected =>
        /\ \A m \in manifests : \E d \in inspected : m = Manifest(d)
        /\ \A d \in inspected : \A t \in PathsOf(d) :
              HasFile(Manifest(t)) /\ OnDisk(t) => Manifest(t) \in manifests
        /\ disk.source \in roots

IncludesFollowed ==
    /\ \A c \in configs : \A r \in RefsOf(c, {"include"}) :
          HasFile(r.to) => r.to \in configs \cup toRead
    /\ copying \in {"dependencies"} \cup Inspected => toRead = {}
    /\ copying = "find configurations" => configs = {}

ConfigurationPathsAdded ==
    copying \in {"copy"} \cup Copied =>
        \A t \in Targets(configs, ConfigKinds) : OnDisk(t) => t \in roots

AreaHolds == copying \in Copied => area = {f \in disk.files : IsCopied(f)} \cup configs

Rewritten ==
    /\ copying \in {"rewrite manifests", "done"} => configs \subseteq rewritten
    /\ copying = "done" => manifests \subseteq area \cap rewritten

CopyInv ==
    /\ CopyTyped /\ ManifestsOfRoots /\ InspectionsFollowed /\ MembersFound /\ AllInspected
    /\ IncludesFollowed /\ ConfigurationPathsAdded /\ AreaHolds /\ Rewritten
    /\ SoundWorkspaceIsCopied

LEMMA CopyStarts == CopyInit => CopyInv
<1> SUFFICES ASSUME CopyInit PROVE CopyInv
  OBVIOUS
<1> USE DEF CopyInit
<1>1. CopyTyped
  <2>1. <<>> \in Seq(DependencyPaths)
    BY EmptySeq
  <2>2. QED BY <2>1 DEF CopyTyped
<1>2. /\ ManifestsOfRoots /\ InspectionsFollowed /\ IncludesFollowed
      /\ SoundWorkspaceIsCopied
  BY DEF ManifestsOfRoots, InspectionsFollowed, IncludesFollowed, SoundWorkspaceIsCopied, Inspected
<1>3. /\ MembersFound /\ AllInspected /\ ConfigurationPathsAdded /\ AreaHolds /\ Rewritten
  BY DEF MembersFound, AllInspected, ConfigurationPathsAdded, AreaHolds, Rewritten, Inspected, Copied
<1>4. QED BY <1>1, <1>2, <1>3 DEF CopyInv

\* The parts of the invariant that are about what was found of the workspace.
Found == CopyTyped /\ ManifestsOfRoots /\ InspectionsFollowed

LEMMA FoundStays ==
    ASSUME Found, disk' = disk, roots' = roots, manifests' = manifests, builds' = builds,
           pending' = pending, inspected' = inspected
    PROVE  Found'
<1>1. CopyTyped'
  BY DiskStays DEF Found, CopyTyped, DependencyPaths
<1>2. ManifestsOfRoots'
  BY DiskStays DEF Found, ManifestsOfRoots, Manifest
<1>3. InspectionsFollowed'
  BY DiskStays DEF Found, InspectionsFollowed, PathsOf
<1>4. QED BY <1>1, <1>2, <1>3 DEF Found

LEMMA FindConfigurationsKeeps == CopyInv /\ FindConfigurations => CopyInv'
<1> SUFFICES ASSUME CopyInv, FindConfigurations PROVE CopyInv'
  OBVIOUS
<1> USE DEF FindConfigurations, packageVars, areaVars
<1>1. Found'
  BY FoundStays DEF CopyInv, Found
<1>2. IncludesFollowed' /\ SoundWorkspaceIsCopied'
  BY DEF IncludesFollowed, SoundWorkspaceIsCopied, CopyInv, Inspected
<1>3. QED BY <1>1, <1>2 DEF CopyInv, Found, MembersFound, AllInspected, ConfigurationPathsAdded,
             AreaHolds, Rewritten, Inspected, Copied

LEMMA ReadConfigurationKeeps == CopyInv /\ ReadConfiguration => CopyInv'
<1> SUFFICES ASSUME CopyInv, ReadConfiguration PROVE CopyInv'
  OBVIOUS
<1> USE DEF packageVars, areaVars
<1>1. Found'
  BY FoundStays DEF CopyInv, Found, ReadConfiguration
<1>2. PICK c \in toRead :
        /\ configs' = configs \cup {c}
        /\ copying' = IF \E r \in RefsOf(c, {"include"}) : DanglingInclude(r) THEN "failed" ELSE copying
        /\ toRead' = (toRead \cup {r.to : r \in {i \in RefsOf(c, {"include"}) : HasFile(i.to)}})
                     \ configs'
  BY Zenon DEF ReadConfiguration
<1>3. disk' = disk /\ copying = "read configurations" /\ broken' = broken
  BY DEF ReadConfiguration
<1>4. IncludesFollowed'
  <2> SUFFICES ASSUME NEW d \in configs', NEW r \in RefsOf(d, {"include"}), HasFile(r.to)
               PROVE  r.to \in configs' \cup toRead'
    BY <1>2, <1>3, DiskStays DEF IncludesFollowed, Inspected
  <2>1. CASE d = c
    BY <1>2, <2>1
  <2>2. CASE d \in configs
    BY <1>2, <2>2 DEF CopyInv, IncludesFollowed
  <2>3. QED BY <1>2, <2>1, <2>2
<1>5. SoundWorkspaceIsCopied'
  <2> SUFFICES ASSUME copying' = "failed"
               PROVE  \E r \in UNION {RefsOf(d, {"include"}) : d \in configs'} : IsStrayInclude(r)
    BY <1>3, DiskStays DEF SoundWorkspaceIsCopied
  <2>1. PICK r \in RefsOf(c, {"include"}) : DanglingInclude(r)
    BY <1>2, <1>3
  <2>2. IsStrayInclude(r) /\ c \in configs'
    BY <1>2, <2>1 DEF DanglingInclude, IsStrayInclude
  <2>3. QED BY <2>1, <2>2
<1>6. copying' \in {"read configurations", "failed"}
  BY <1>2, <1>3
<1>7. QED BY <1>1, <1>4, <1>5, <1>6 DEF CopyInv, Found, MembersFound, AllInspected,
             ConfigurationPathsAdded, AreaHolds, Rewritten, Inspected, Copied

\* The answer of `cargo metadata` for a directory, with what is kept of it.
LEMMA AddMetadataKeeps ==
    ASSUME CopyInv, NEW d \in Paths, d = disk.root \/ HasFile(Manifest(d)),
           NEW paths \in SUBSET Paths, NEW files, NEW rest \in Seq(DependencyPaths),
           \A m \in files : HasFile(m) /\ \E p \in paths : m = Manifest(p),
           AddMetadata(d, paths, files, rest), disk' = disk, inspected' = inspected
    PROVE  /\ Found'
           /\ manifests' = manifests \cup files \cup {Manifest(p) : p \in disk.members[d]}
           /\ copying' \in {"dependencies", "failed"}
           /\ copying' = "failed" => \E t \in DependencyPaths : ~OnDisk(t)
<1> DEFINE packages == disk.members[d]
           listed == {Manifest(p) : p \in packages}
           local == Targets(listed, {"dependency"})
           targets == Targets(listed, {"target"})
<1>1. /\ builds' = builds \cup {disk.buildOf[d]}
      /\ manifests' = manifests \cup files \cup listed
      /\ roots' = roots \cup paths \cup packages \cup {Front(t) : t \in targets}
      /\ pending' = rest \o SetToSeq(local)
      /\ copying' = IF \A p \in local : OnDisk(p) THEN "dependencies" ELSE "failed"
  BY DEF AddMetadata
<1> HIDE DEF listed, local, targets
<1>2. disk \in Worlds
  BY DEF CopyInv, CopyTyped
<1>3. (\A q \in packages : q \in Paths /\ HasFile(Manifest(q))) /\ disk.buildOf[d] \in Paths
  BY <1>2, MembersHaveManifests
<1>4. local \subseteq DependencyPaths
  BY DEF local, DependencyPaths, Targets, RefsOf
<1>5. CopyTyped'
  <2>1. targets \subseteq Paths /\ IsFiniteSet(local)
    BY <1>2, TargetsArePaths DEF local, targets
  <2>2. \A t \in Paths : Front(t) \in Paths
    BY FrontIsSeq DEF Paths
  <2>3. SetToSeq(local) \in Seq(DependencyPaths)
    <3>1. SetToSeq(local) \in Seq(local)
      BY <2>1, ListOfSet
    <3>2. QED BY <3>1, <1>4, SeqMonotonic
  <2>4. pending' \in Seq(DependencyPaths)
    BY <1>1, <2>3, ConcatProperties
  <2>5. roots' \in SUBSET Paths
    BY <1>1, <1>3, <2>1, <2>2 DEF CopyInv, CopyTyped
  <2>6. DependencyPaths' = DependencyPaths
    BY DiskStays DEF DependencyPaths
  <2>7. builds' \in SUBSET Paths
    BY <1>1, <1>3 DEF CopyInv, CopyTyped
  <2>8. QED BY <1>2, <2>4, <2>5, <2>6, <2>7 DEF CopyTyped
<1>6. ManifestsOfRoots'
  BY <1>1, <1>3, DiskStays DEF CopyInv, ManifestsOfRoots, listed
<1>7. InspectionsFollowed'
  BY <1>1, DiskStays DEF CopyInv, InspectionsFollowed, PathsOf
<1>8. QED BY <1>1, <1>4, <1>5, <1>6, <1>7 DEF Found, listed

\* A reference that no workspace with all it needs would have.
BadReference ==
    \E r \in UNION {RefsOf(f, ManifestKinds \cup ConfigKinds) : f \in DOMAIN disk.refs} :
        ~OnDisk(r.to) \/ (r.kind = "dependency" /\ ~HasFile(Manifest(r.to)))

LEMMA MissingDependency ==
    ASSUME NEW t \in DependencyPaths, ~OnDisk(t) \/ ~HasFile(Manifest(t))
    PROVE  BadReference
<1>0. PICK f \in DOMAIN disk.refs : \E r \in RefsOf(f, {"dependency"}) : t = r.to
  BY DEF DependencyPaths, Targets
<1>1. PICK r \in RefsOf(f, {"dependency"}) : t = r.to
  BY <1>0
<1>2. r \in RefsOf(f, ManifestKinds \cup ConfigKinds) /\ r.kind = "dependency"
  BY <1>1 DEF RefsOf, ManifestKinds
<1>3. r \in UNION {RefsOf(g, ManifestKinds \cup ConfigKinds) : g \in DOMAIN disk.refs}
  BY <1>2
<1>4. ~OnDisk(r.to) \/ (r.kind = "dependency" /\ ~HasFile(Manifest(r.to)))
  BY <1>1, <1>2
<1>5. QED BY <1>3, <1>4 DEF BadReference

LEMMA BadReferenceExplains ==
    ASSUME BadReference, disk' = disk
    PROVE  SoundWorkspaceIsCopied'
<1>1. BadReference'
  BY DiskStays DEF BadReference, Manifest
<1>2. QED BY <1>1 DEF SoundWorkspaceIsCopied, BadReference

LEMMA ReadPackagesKeeps == CopyInv /\ ReadPackages => CopyInv'
<1> SUFFICES ASSUME CopyInv, ReadPackages PROVE CopyInv'
  OBVIOUS
<1> USE DEF configVars, areaVars
<1> DEFINE files == {Manifest(disk.root)} \cap disk.files
<1>1. /\ AddMetadata(disk.root, {disk.root}, files, <<>>)
      /\ disk' = disk /\ inspected' = inspected /\ toRead = {} /\ toRead' = {} /\ configs' = configs
      /\ area' = area /\ rewritten' = rewritten /\ broken' = broken
  BY DEF ReadPackages
<1>2. disk \in Worlds /\ disk.root \in Paths
  BY PathsOnDisk DEF CopyInv, CopyTyped
<1>3. \A m \in files : HasFile(m) /\ \E p \in {disk.root} : m = Manifest(p)
  BY DEF HasFile
<1>4. <<>> \in Seq(DependencyPaths) /\ {disk.root} \in SUBSET Paths
  BY <1>2
<1>5. /\ Found'
      /\ manifests' = manifests \cup files \cup {Manifest(p) : p \in disk.members[disk.root]}
      /\ copying' \in {"dependencies", "failed"}
      /\ copying' = "failed" => \E t \in DependencyPaths : ~OnDisk(t)
  <2> HIDE DEF files
  <2>1. QED BY <1>1, <1>2, <1>3, <1>4, AddMetadataKeeps
<1>6. SoundWorkspaceIsCopied'
  <2>1. CASE copying' = "failed"
    BY <1>1, <1>5, <2>1, MissingDependency, BadReferenceExplains
  <2>2. CASE copying' # "failed"
    BY <2>2 DEF SoundWorkspaceIsCopied
  <2>3. QED BY <2>1, <2>2
<1>7. MembersFound' /\ IncludesFollowed'
  BY <1>1, <1>5, DiskStays DEF MembersFound, IncludesFollowed, CopyInv, Manifest
<1>8. QED BY <1>5, <1>6, <1>7 DEF CopyInv, Found, AllInspected, ConfigurationPathsAdded, AreaHolds,
             Rewritten, Inspected, Copied

LEMMA PopDependencyKeeps == CopyInv /\ PopDependency => CopyInv'
<1> SUFFICES ASSUME CopyInv, PopDependency PROVE CopyInv'
  OBVIOUS
<1> USE DEF configVars, areaVars
<1> DEFINE path == Last(pending)
<1>1. /\ copying = "dependencies" /\ pending # <<>>
      /\ disk' = disk /\ inspected' = inspected /\ toRead' = toRead /\ configs' = configs
      /\ area' = area /\ rewritten' = rewritten /\ broken' = broken
  BY DEF PopDependency
<1>2. disk \in Worlds /\ pending \in Seq(DependencyPaths)
  BY DEF CopyInv, CopyTyped
<1>3. path \in DependencyPaths /\ Front(pending) \in Seq(DependencyPaths)
  <2>1. Len(pending) \in Nat \ {0}
    BY <1>1, <1>2, EmptySeq
  <2>2. path \in DependencyPaths
    BY <1>2, <2>1, ElementOfSeq DEF Last
  <2>3. Front(pending) \in Seq(DependencyPaths)
    BY <1>2, <2>1, FrontIsSeq
  <2>4. QED BY <2>2, <2>3
<1>4. path \in Paths
  BY <1>2, <1>3, TargetsArePaths DEF DependencyPaths
<1>5. /\ Found' /\ manifests \subseteq manifests'
      /\ copying' \in {"dependencies", "failed"}
      /\ copying' = "failed" =>
            \E t \in DependencyPaths : ~OnDisk(t) \/ ~HasFile(Manifest(t))
  <2>1. CASE path \in roots
    <3>1. /\ pending' = Front(pending) /\ copying' = copying
          /\ roots' = roots /\ manifests' = manifests /\ builds' = builds
      BY <2>1 DEF PopDependency
    <3>2. CopyTyped'
      BY <1>1, <1>2, <1>3, <3>1, DiskStays DEF CopyInv, CopyTyped, DependencyPaths
    <3>3. ManifestsOfRoots' /\ InspectionsFollowed'
      BY <1>1, <3>1, DiskStays DEF CopyInv, ManifestsOfRoots, InspectionsFollowed, PathsOf, Manifest
    <3>4. QED BY <1>1, <3>1, <3>2, <3>3 DEF Found
  <2>2. CASE path \notin roots /\ ~HasFile(Manifest(path))
    <3>1. /\ pending' = pending /\ copying' = "failed"
          /\ roots' = roots /\ manifests' = manifests /\ builds' = builds
      BY <2>2 DEF PopDependency
    <3>2. QED BY <1>1, <1>3, <2>2, <3>1, FoundStays DEF CopyInv, Found
  <2>3. CASE path \notin roots /\ HasFile(Manifest(path))
    <3>1. AddMetadata(path, {}, {}, Front(pending))
      BY <2>3 DEF PopDependency
    <3> DEFINE none == {}
    <3>2. /\ none \in SUBSET Paths /\ AddMetadata(path, none, none, Front(pending))
          /\ \A m \in none : HasFile(m) /\ \E p \in none : m = Manifest(p)
      BY <3>1
    <3> HIDE DEF path, none
    <3>3. /\ Found' /\ copying' \in {"dependencies", "failed"}
          /\ manifests' = manifests \cup none \cup {Manifest(p) : p \in disk.members[path]}
          /\ copying' = "failed" => \E t \in DependencyPaths : ~OnDisk(t)
      BY <1>1, <1>3, <1>4, <2>3, <3>2, AddMetadataKeeps
    <3>4. QED BY <3>3
  <2>4. QED BY <2>1, <2>2, <2>3
<1>6. SoundWorkspaceIsCopied'
  <2>1. CASE copying' = "failed"
    BY <1>1, <1>5, <2>1, MissingDependency, BadReferenceExplains
  <2>2. CASE copying' # "failed"
    BY <2>2 DEF SoundWorkspaceIsCopied
  <2>3. QED BY <2>1, <2>2
<1>7. MembersFound' /\ IncludesFollowed'
  BY <1>1, <1>5, DiskStays DEF MembersFound, IncludesFollowed, CopyInv, Manifest
<1>8. QED BY <1>5, <1>6, <1>7 DEF CopyInv, Found, AllInspected, ConfigurationPathsAdded, AreaHolds,
             Rewritten, Inspected, Copied

LEMMA InspectManifestsKeeps == CopyInv /\ InspectManifests => CopyInv'
<1> SUFFICES ASSUME CopyInv, InspectManifests PROVE CopyInv'
  OBVIOUS
<1> USE DEF configVars, areaVars
<1> DEFINE new == Uninspected
           found == {Manifest(d) : d \in new}
           led == Targets(found, ManifestKinds)
<1>1. /\ copying = "dependencies" /\ pending = <<>> /\ disk' = disk /\ pending' = pending
      /\ toRead' = toRead /\ configs' = configs /\ area' = area /\ rewritten' = rewritten
      /\ builds' = builds /\ manifests' = manifests \cup found
      /\ inspected' = inspected \cup new
      /\ roots' = roots \cup {t \in led : OnDisk(t)}
                  \cup (IF found = {} THEN {disk.source} ELSE {})
      /\ copying' = IF found = {} THEN "inspected" ELSE copying
  BY DEF InspectManifests
<1>2. disk \in Worlds /\ roots \subseteq Paths /\ disk.source \in Paths /\ led \subseteq Paths
  <2> HIDE DEF led
  <2>1. disk \in Worlds /\ roots \subseteq Paths
    BY DEF CopyInv, CopyTyped
  <2>2. disk.source \in Paths
    BY <2>1, PathsOnDisk
  <2> USE DEF led
  <2>3. led \subseteq Paths
    BY <2>1, TargetsArePaths
  <2>4. QED BY <2>1, <2>2, <2>3
<1>3. \A d \in new : d \in roots /\ HasFile(Manifest(d))
  BY DEF Uninspected
<1> HIDE DEF new
<1>4. CopyTyped'
  <2> HIDE DEF led
  <2>1. roots' \in SUBSET Paths
    BY <1>1, <1>2
  <2>2. DependencyPaths' = DependencyPaths
    BY <1>1, DiskStays DEF DependencyPaths
  <2>3. QED BY <1>1, <1>2, <2>1, <2>2 DEF CopyTyped, CopyInv
<1>5. ManifestsOfRoots'
  <2> HIDE DEF led
  <2>1. QED BY <1>1, <1>3, DiskStays DEF CopyInv, ManifestsOfRoots, Manifest
<1>6. InspectionsFollowed'
  <2> SUFFICES ASSUME NEW d \in inspected'
               PROVE  Manifest(d) \in manifests' /\ \A t \in PathsOf(d) : OnDisk(t) => t \in roots'
    BY <1>1, DiskStays DEF InspectionsFollowed, PathsOf, Manifest
  <2>1. CASE d \in inspected
    BY <1>1, <2>1 DEF CopyInv, InspectionsFollowed
  <2>2. CASE d \in new
    <3>1. Manifest(d) \in found /\ PathsOf(d) \subseteq led
      BY <2>2 DEF PathsOf, Targets
    <3>2. QED BY <1>1, <3>1
  <2>3. QED BY <1>1, <2>1, <2>2
<1>7. AllInspected'
  <2> SUFFICES ASSUME found = {}
               PROVE  /\ \A m \in manifests : \E d \in inspected : m = Manifest(d)
                      /\ \A d \in inspected : \A t \in PathsOf(d) :
                            HasFile(Manifest(t)) /\ OnDisk(t) => Manifest(t) \in manifests
                      /\ disk.source \in roots'
    <3>1. copying' \in Inspected => found = {}
      BY <1>1 DEF Inspected
    <3>2. found = {} => manifests' = manifests /\ inspected' = inspected
      BY <1>1
    <3> HIDE DEF found
    <3>3. ASSUME copying' \in Inspected
          PROVE  /\ \A m \in manifests' : \E d \in inspected' : m = Manifest(d)
                 /\ \A d \in inspected' : \A t \in PathsOf(d)' :
                        (HasFile(Manifest(t)) /\ OnDisk(t))' => Manifest(t) \in manifests'
                 /\ disk'.source \in roots'
      <4>1. \A d : PathsOf(d)' = PathsOf(d)
        BY <1>1, DiskStays DEF PathsOf
      <4>2. QED BY <1>1, <3>1, <3>2, <3>3, <4>1, DiskStays
    <3>4. QED BY <3>3 DEF AllInspected
  <2>1. \A d \in roots : HasFile(Manifest(d)) => d \in inspected
    BY DEF new, Uninspected
  <2>2. QED BY <1>1, <2>1 DEF CopyInv, ManifestsOfRoots, InspectionsFollowed
<1>8. SoundWorkspaceIsCopied' /\ MembersFound' /\ IncludesFollowed'
  <2>1. copying' \in {"dependencies", "inspected"}
    BY <1>1
  <2>2. manifests \subseteq manifests'
    BY <1>1
  <2>3. QED BY <1>1, <2>1, <2>2, DiskStays
            DEF MembersFound, IncludesFollowed, CopyInv, Manifest, SoundWorkspaceIsCopied, Inspected
<1>9. copying' \in {"dependencies", "inspected"}
  BY <1>1
<1>10. QED BY <1>4, <1>5, <1>6, <1>7, <1>8, <1>9 DEF CopyInv, ConfigurationPathsAdded, AreaHolds,
             Rewritten, Copied

LEMMA AddConfigurationPathsKeeps == CopyInv /\ AddConfigurationPaths => CopyInv'
<1> SUFFICES ASSUME CopyInv, AddConfigurationPaths PROVE CopyInv'
  OBVIOUS
<1> USE DEF packageVars, configVars, areaVars
<1> DEFINE led == {t \in Targets(configs, ConfigKinds) : OnDisk(t)}
<1>1. /\ copying = "inspected" /\ copying' = "copy" /\ roots' = roots \cup led
      /\ disk' = disk /\ manifests' = manifests /\ builds' = builds /\ pending' = pending
      /\ inspected' = inspected /\ toRead' = toRead /\ configs' = configs
  BY DEF AddConfigurationPaths
<1>2. CopyTyped'
  <2>1. led \subseteq Paths
    BY TargetsArePaths DEF CopyInv, CopyTyped
  <2>2. DependencyPaths' = DependencyPaths
    BY <1>1, DiskStays DEF DependencyPaths
  <2> HIDE DEF led
  <2>3. QED BY <1>1, <2>1, <2>2 DEF CopyInv, CopyTyped
<1>3. ManifestsOfRoots' /\ InspectionsFollowed'
  <2> HIDE DEF led
  <2>1. QED BY <1>1, DiskStays DEF CopyInv, ManifestsOfRoots, InspectionsFollowed, PathsOf, Manifest
<1>4. MembersFound' /\ AllInspected' /\ IncludesFollowed'
  <2> HIDE DEF led
  <2>1. QED BY <1>1, DiskStays DEF CopyInv, MembersFound, AllInspected, IncludesFollowed, PathsOf,
               Manifest, Inspected
<1>5. ConfigurationPathsAdded'
  BY <1>1, DiskStays DEF ConfigurationPathsAdded
<1>6. QED BY <1>1, <1>2, <1>3, <1>4, <1>5 DEF CopyInv, AreaHolds, Rewritten, Copied,
             SoundWorkspaceIsCopied

\* The steps after the search leave what was found as it is.
Searched == Found /\ MembersFound /\ AllInspected /\ IncludesFollowed

LEMMA SearchedStays ==
    ASSUME Searched, disk' = disk, roots' = roots, manifests' = manifests, builds' = builds,
           pending' = pending, inspected' = inspected, toRead' = toRead, configs' = configs,
           copying \in Inspected \/ copying' = "failed", copying' \in Inspected \cup {"failed"}
    PROVE  Searched'
<1>1. Found'
  BY FoundStays DEF Searched
<1>2. MembersFound'
  BY DiskStays DEF Searched, MembersFound, Manifest, Inspected
<1>3. AllInspected'
  BY DiskStays DEF Searched, AllInspected, PathsOf, Manifest, Inspected
<1>4. IncludesFollowed'
  <2>1. copying' # "find configurations"
    BY DEF Inspected
  <2>2. QED BY <2>1, DiskStays DEF Searched, IncludesFollowed, Inspected
<1>5. QED BY <1>1, <1>2, <1>3, <1>4 DEF Searched

LEMMA CopiedStays ==
    ASSUME disk' = disk, roots' = roots, manifests' = manifests, builds' = builds
    PROVE  /\ \A f : IsCopied(f)' <=> IsCopied(f)
           /\ \A f : StaysBehind(f)' <=> StaysBehind(f)
           /\ CopyPaths' = CopyPaths
<1>1. ExcludedRoots' = ExcludedRoots /\ CopyPaths' = CopyPaths
  BY DEF CopyPaths, OutermostOf, ExcludedRoots, OnDisk
<1>2. QED BY <1>1 DEF IsCopied, StaysBehind, LeftOutOf

LEMMA CopyFilesKeeps == CopyInv /\ CopyFiles => CopyInv'
<1> SUFFICES ASSUME CopyInv, CopyFiles PROVE CopyInv'
  OBVIOUS
<1> USE DEF CopyFiles, packageVars, configVars
<1>1. copying = "copy" /\ copying' = "rewrite configurations"
  OBVIOUS
<1>2. Searched'
  BY <1>1, SearchedStays DEF CopyInv, Found, Searched, Inspected
<1>3. ConfigurationPathsAdded'
  BY DiskStays DEF CopyInv, ConfigurationPathsAdded, Copied
<1>4. AreaHolds'
  BY CopiedStays DEF AreaHolds
<1>5. QED BY <1>1, <1>2, <1>3, <1>4 DEF CopyInv, Searched, Found, Rewritten, SoundWorkspaceIsCopied

\* A path that was found is in the copy.
LEMMA FoundIsCovered ==
    ASSUME CopyTyped, NEW p \in roots
    PROVE  \E q \in CopyPaths : q \in Paths /\ Under(p, q)
<1>1. PICK q \in OutermostOf(roots) : Under(p, q)
  BY OutermostCovers DEF CopyTyped
<1>2. QED BY <1>1 DEF CopyPaths, OutermostOf, CopyTyped

LEMMA FoundCanBeRewritten ==
    ASSUME CopyTyped, NEW r, r.to \in roots, OnDisk(r.to)
    PROVE  CanRewrite(r)
  BY FoundIsCovered DEF CanRewrite

LEMMA FoundIsCopied ==
    ASSUME CopyTyped, NEW p \in roots, NEW f \in disk.files, Under(f, p), ~StaysBehind(f)
    PROVE  IsCopied(f)
<1>1. PICK q \in CopyPaths : q \in Paths /\ Under(p, q)
  BY FoundIsCovered
<1>2. f \in Paths /\ p \in Paths
  BY PathsOnDisk DEF CopyTyped, HasFile
<1>3. Under(f, q)
  BY <1>1, <1>2, UnderTransitive
<1>4. QED BY <1>1, <1>3 DEF IsCopied, StaysBehind

LEMMA OnDiskIsPath ==
    ASSUME disk \in Worlds, NEW S, NEW p \in Seq(S), OnDisk(p)
    PROVE  p \in Paths
<1>1. PICK f \in disk.files : Under(f, p)
  BY DEF OnDisk
<1>2. f \in Paths /\ Len(f) \in Nat
  BY PathsOnDisk DEF HasFile, Paths
<1>3. SubSeq(p, 1, Len(p)) = p /\ Len(p) \in Nat
  BY SubSeqFull
<1>4. Len(p) <= Len(f) /\ p = SubSeq(f, 1, Len(p))
  BY <1>1, <1>3 DEF Under, IsPrefix
<1>5. SubSeq(f, 1, Len(p)) \in Seq(STRING)
  BY <1>2, <1>3, <1>4, SubSeqProperties DEF Paths
<1>6. QED BY <1>4, <1>5 DEF Paths

LEMMA ExcludedArePaths == CopyTyped /\ ManifestsOfRoots => ExcludedRoots \subseteq Paths
<1> SUFFICES ASSUME CopyTyped, ManifestsOfRoots, NEW e \in ExcludedRoots
             PROVE  e \in Paths
  OBVIOUS
<1>1. CASE e \in builds
  BY <1>1 DEF CopyTyped
<1>2. CASE e \notin builds
  <2>1. PICK m \in manifests : \E n \in {".cargo", ".git"} : e = Append(Front(m), n)
    BY <1>2 DEF ExcludedRoots
  <2>2. PICK n \in {".cargo", ".git"} : e = Append(Front(m), n)
    BY <2>1
  <2>3. PICK d \in roots : m = Manifest(d)
    BY DEF ManifestsOfRoots
  <2> DEFINE S == STRING \cup {n}
  <2>4. Front(m) = d /\ d \in Seq(S)
    BY <2>3, FrontOfManifest, SeqMonotonic DEF CopyTyped, Paths
  <2>5. e \in Seq(S)
    BY <2>2, <2>4, AppendProperties
  <2>6. OnDisk(e) /\ disk \in Worlds
    BY DEF ExcludedRoots, CopyTyped
  <2> HIDE DEF S
  <2>7. QED BY <2>5, <2>6, OnDiskIsPath
<1>3. QED BY <1>1, <1>2

\* Of what a path leads to, only what is left out inside it is not in the copy,
\* when the path lies below one that is copied and does not itself stay behind.
LEMMA LedToIsCopied ==
    ASSUME CopyTyped, ManifestsOfRoots, NEW t \in Paths, ~StaysBehind(t),
           NEW p \in roots, Under(t, p),
           NEW f \in disk.files, Under(f, t), ~LeftOutOf(f, t)
    PROVE  IsCopied(f)
<1>1. f \in Paths /\ p \in Paths
  BY PathsOnDisk DEF CopyTyped, HasFile
<1>2. Under(f, p)
  BY <1>1, UnderTransitive
<1>3. ASSUME NEW r \in CopyPaths, NEW d \in ExcludedRoots, Under(d, r), Under(f, d)
      PROVE  FALSE
  <2>1. d \in Paths
    BY ExcludedArePaths
  <2>2. Under(t, d) \/ Under(d, t)
    BY <1>1, <1>3, <2>1, UnderComparable
  <2>3. QED BY <1>3, <2>2 DEF StaysBehind, LeftOutOf
<1>4. ~StaysBehind(f)
  BY <1>3 DEF StaysBehind, LeftOutOf
<1>5. QED BY <1>2, <1>4, FoundIsCopied

LEMMA MissingPath ==
    ASSUME NEW f, NEW r \in RefsOf(f, ManifestKinds \cup ConfigKinds), ~OnDisk(r.to)
    PROVE  BadReference
<1>1. f \in DOMAIN disk.refs
  BY DEF RefsOf
<1>2. r \in UNION {RefsOf(g, ManifestKinds \cup ConfigKinds) : g \in DOMAIN disk.refs}
  BY <1>1
<1>3. QED BY <1>2 DEF BadReference

LEMMA RewriteConfigurationsKeeps == CopyInv /\ RewriteConfigurations => CopyInv'
<1> SUFFICES ASSUME CopyInv, RewriteConfigurations PROVE CopyInv'
  OBVIOUS
<1> USE DEF packageVars, configVars
<1> DEFINE kinds == ConfigKinds \cup {"include"}
           Can(r) == IF r.kind = "include" THEN CanRewriteInclude(r) ELSE CanRewrite(r)
           all == \A c \in configs : \A r \in RefsOf(c, kinds) : r.absolute => Can(r)
<1>1. /\ copying = "rewrite configurations"
      /\ disk' = disk /\ roots' = roots /\ manifests' = manifests /\ builds' = builds
      /\ pending' = pending /\ inspected' = inspected /\ toRead' = toRead /\ configs' = configs
      /\ area' = area /\ broken' = broken
      /\ all => rewritten' = rewritten \cup configs /\ copying' = "rewrite manifests"
      /\ ~all => rewritten' = rewritten /\ copying' = "failed"
  BY DEF RewriteConfigurations, Rewrite
<1>2. copying' \in {"rewrite manifests", "failed"}
  BY <1>1
<1>3. Searched'
  BY <1>1, <1>2, SearchedStays DEF CopyInv, Found, Searched, Inspected
<1>4. ConfigurationPathsAdded' /\ AreaHolds' /\ Rewritten'
  <2> HIDE DEF all
  <2>1. ConfigurationPathsAdded'
    BY <1>1, DiskStays DEF CopyInv, ConfigurationPathsAdded, Copied
  <2>2. AreaHolds'
    BY <1>1, CopiedStays DEF CopyInv, AreaHolds, Copied
  <2>3. Rewritten'
    BY <1>1 DEF Rewritten
  <2>4. QED BY <2>1, <2>2, <2>3
<1>5. SoundWorkspaceIsCopied'
  <2>1. CASE all
    BY <1>1, <2>1 DEF SoundWorkspaceIsCopied
  <2>2. CASE ~all
    <3>1. PICK c \in configs : \E r \in RefsOf(c, kinds) : r.absolute /\ ~Can(r)
      BY <2>2
    <3>2. PICK r \in RefsOf(c, kinds) : ~Can(r)
      BY <3>1
    <3>3. CASE r.kind = "include"
      <4>1. r \in RefsOf(c, {"include"}) /\ ~CanRewrite(r) /\ (r.optional => OnDisk(r.to))
        BY <3>2, <3>3 DEF RefsOf, CanRewriteInclude
      <4>2. ~HasFile(r.to)
        <5> SUFFICES ASSUME HasFile(r.to) PROVE FALSE
          OBVIOUS
        <5>1. r.to \in configs
          BY <1>1, <4>1 DEF CopyInv, IncludesFollowed, Inspected
        <5>2. OnDisk(r.to)
          BY PathsOnDisk DEF CopyInv, CopyTyped
        <5>3. QED BY <4>1, <5>1, <5>2 DEF CanRewrite
      <4>3. IsStrayInclude(r)
        BY <4>1, <4>2 DEF IsStrayInclude
      <4>4. c \in configs' /\ r \in RefsOf(c, {"include"})' /\ IsStrayInclude(r)'
        BY <1>1, <4>1, <4>3, DiskStays
      <4>5. \E i \in UNION {RefsOf(d, {"include"})' : d \in configs'} : IsStrayInclude(i)'
        BY <4>4
      <4>6. QED BY <4>5 DEF SoundWorkspaceIsCopied
    <3>4. CASE r.kind # "include"
      <4>1. r \in RefsOf(c, ConfigKinds) /\ ~CanRewrite(r)
        BY <3>2, <3>4 DEF RefsOf
      <4>2. ~OnDisk(r.to)
        <5> SUFFICES ASSUME OnDisk(r.to) PROVE FALSE
          OBVIOUS
        <5>1. r.to \in roots
          BY <1>1, <4>1, TargetsOf DEF CopyInv, ConfigurationPathsAdded, Copied
        <5>2. QED BY <4>1, <5>1, FoundCanBeRewritten DEF CopyInv
      <4>3. r \in RefsOf(c, ManifestKinds \cup ConfigKinds)
        BY <4>1 DEF RefsOf
      <4>4. QED BY <1>1, <4>2, <4>3, MissingPath, BadReferenceExplains
    <3>5. QED BY <3>3, <3>4
  <2>3. QED BY <2>1, <2>2
<1>6. QED BY <1>3, <1>4, <1>5 DEF CopyInv, Searched, Found

LEMMA RewriteManifestsKeeps == CopyInv /\ RewriteManifests => CopyInv'
<1> SUFFICES ASSUME CopyInv, RewriteManifests PROVE CopyInv'
  OBVIOUS
<1> USE DEF packageVars, configVars
<1> DEFINE Can(r) == IF r.kind = "include" THEN CanRewriteInclude(r) ELSE CanRewrite(r)
           all == /\ manifests \subseteq area
                  /\ \A m \in manifests : \A r \in RefsOf(m, ManifestKinds) : r.absolute => Can(r)
<1>1. /\ copying = "rewrite manifests"
      /\ disk' = disk /\ roots' = roots /\ manifests' = manifests /\ builds' = builds
      /\ pending' = pending /\ inspected' = inspected /\ toRead' = toRead /\ configs' = configs
      /\ area' = area /\ broken' = broken
      /\ all => rewritten' = rewritten \cup manifests /\ copying' = "done"
      /\ ~all => rewritten' = rewritten /\ copying' = "failed"
  BY DEF RewriteManifests, Rewrite
<1>2. copying' \in {"done", "failed"} /\ (copying' = "done" => manifests \subseteq area)
  BY <1>1
<1>3. Searched'
  BY <1>1, <1>2, SearchedStays DEF CopyInv, Found, Searched, Inspected
<1>4. ConfigurationPathsAdded' /\ AreaHolds' /\ Rewritten'
  <2> HIDE DEF all
  <2>1. ConfigurationPathsAdded'
    BY <1>1, DiskStays DEF CopyInv, ConfigurationPathsAdded, Copied
  <2>2. AreaHolds'
    BY <1>1, CopiedStays DEF CopyInv, AreaHolds, Copied
  <2>3. Rewritten'
    BY <1>1, <1>2 DEF CopyInv, Rewritten
  <2>4. QED BY <2>1, <2>2, <2>3
<1>5. SoundWorkspaceIsCopied'
  <2>1. CASE all
    BY <1>1, <2>1 DEF SoundWorkspaceIsCopied
  <2>2. CASE ~(manifests \subseteq area)
    <3>1. PICK m \in manifests : m \notin area
      BY <2>2
    <3>2. PICK d \in roots : m = Manifest(d)
      BY DEF CopyInv, ManifestsOfRoots
    <3>3. HasFile(m) /\ m \in Paths /\ d \in Paths
      BY PathsOnDisk DEF CopyInv, CopyTyped, ManifestsOfRoots
    <3>4. Under(m, d)
      BY <3>2, <3>3, ManifestUnder
    <3>5. ~IsCopied(m)
      BY <1>1, <3>1, <3>3 DEF CopyInv, AreaHolds, Copied, HasFile
    <3>6. StaysBehind(m)
      BY <3>3, <3>4, <3>5, FoundIsCopied DEF CopyInv, HasFile
    <3>7. (\E n \in manifests : StaysBehind(n))'
      BY <1>1, <3>6, CopiedStays
    <3>8. QED BY <3>7 DEF SoundWorkspaceIsCopied
  <2>3. CASE manifests \subseteq area /\ ~all
    <3>1. PICK m \in manifests : \E r \in RefsOf(m, ManifestKinds) : ~Can(r)
      BY <2>3
    <3>2. PICK r \in RefsOf(m, ManifestKinds) : ~Can(r)
      BY <3>1
    <3>3. ~CanRewrite(r)
      BY <3>2 DEF RefsOf, ManifestKinds
    <3>4. ~OnDisk(r.to)
      <4> SUFFICES ASSUME OnDisk(r.to) PROVE FALSE
        OBVIOUS
      <4>1. PICK d \in inspected : m = Manifest(d)
        BY <1>1 DEF CopyInv, AllInspected, Inspected
      <4>2. r.to \in PathsOf(d)
        BY <4>1, TargetsOf DEF PathsOf
      <4>3. r.to \in roots
        BY <4>1, <4>2 DEF CopyInv, InspectionsFollowed
      <4>4. QED BY <3>3, <4>3, FoundCanBeRewritten DEF CopyInv
    <3>5. r \in RefsOf(m, ManifestKinds \cup ConfigKinds)
      BY DEF RefsOf
    <3>6. QED BY <1>1, <3>4, <3>5, MissingPath, BadReferenceExplains
  <2>4. QED BY <2>1, <2>2, <2>3
<1>6. QED BY <1>3, <1>4, <1>5 DEF CopyInv, Searched, Found

LEMMA CopyBreaksKeeps == CopyInv /\ CopyBreaks => CopyInv'
<1> SUFFICES ASSUME CopyInv, CopyBreaks PROVE CopyInv'
  OBVIOUS
<1> USE DEF CopyBreaks, packageVars, configVars, areaVars
<1>1. Searched'
  BY SearchedStays DEF CopyInv, Found, Searched
<1>2. QED BY <1>1 DEF CopyInv, Searched, Found, ConfigurationPathsAdded, AreaHolds, Rewritten,
             Copied, SoundWorkspaceIsCopied

LEMMA CopyStep == CopyInv /\ [CopyNext]_copyVars => CopyInv'
<1>1. CopyInv /\ UNCHANGED copyVars => CopyInv'
  <2> SUFFICES ASSUME CopyInv, UNCHANGED copyVars PROVE CopyInv'
    OBVIOUS
  <2> USE DEF copyVars
  <2>1. Found'
    BY FoundStays DEF CopyInv, Found
  <2>2. MembersFound' /\ AllInspected' /\ IncludesFollowed' /\ ConfigurationPathsAdded'
    BY DiskStays DEF CopyInv, MembersFound, AllInspected, IncludesFollowed,
       ConfigurationPathsAdded, PathsOf
  <2>3. AreaHolds' /\ Rewritten'
    BY CopiedStays DEF CopyInv, AreaHolds, Rewritten
  <2>4. SoundWorkspaceIsCopied'
    BY DiskStays, CopiedStays DEF CopyInv, SoundWorkspaceIsCopied
  <2>5. QED BY <2>1, <2>2, <2>3, <2>4 DEF CopyInv, Found
<1>2. QED BY <1>1, FindConfigurationsKeeps, ReadConfigurationKeeps, ReadPackagesKeeps,
             PopDependencyKeeps, InspectManifestsKeeps, AddConfigurationPathsKeeps,
             CopyFilesKeeps, RewriteConfigurationsKeeps, RewriteManifestsKeeps, CopyBreaksKeeps
             DEF CopyNext

LEMMA CopyInvariant == CopySpec => []CopyInv
  BY CopyStarts, CopyStep, PTL DEF CopySpec

\* Whatever the disk, a workspace that has what its manifests and its
\* configurations name is copied, unless a file operation fails.
THEOREM SoundIsCopied == CopySpec => []SoundWorkspaceIsCopied
<1>1. CopyInv => SoundWorkspaceIsCopied
  BY DEF CopyInv
<1>2. QED BY <1>1, CopyInvariant, PTL

\* The manifests found are closed under references, so they hold those a build reads.
LEMMA ReachedAreFound ==
    ASSUME CopyInv, copying \in Inspected
    PROVE  ReachedManifests \subseteq manifests
<1>1. manifests \subseteq ManifestsOnDisk
  <2> SUFFICES ASSUME NEW m \in manifests PROVE m \in ManifestsOnDisk
    OBVIOUS
  <2>1. PICK d \in roots : m = Manifest(d) /\ HasFile(m)
    BY DEF CopyInv, ManifestsOfRoots
  <2>2. QED BY <2>1, FrontOfManifest DEF CopyInv, CopyTyped, ManifestsOnDisk, HasFile
<1>2. Stays(manifests)
  <2> SUFFICES ASSUME NEW t \in Targets(manifests, {"dependency", "patch"}), HasFile(Manifest(t))
               PROVE  Manifest(t) \in manifests
    BY DEF Stays
  <2>1. PICK m \in manifests : t \in Targets({m}, ManifestKinds)
    BY DEF Targets, RefsOf, ManifestKinds
  <2>2. PICK d \in inspected : m = Manifest(d)
    BY DEF CopyInv, AllInspected
  <2>3. t \in Paths /\ Manifest(t) \in Paths
    BY TargetsArePaths, PathsOnDisk DEF CopyInv, CopyTyped
  <2>4. OnDisk(t)
    BY <2>3, ManifestUnder DEF OnDisk, HasFile
  <2>5. QED BY <2>1, <2>2, <2>4 DEF CopyInv, AllInspected, PathsOf
<1>3. \A p \in disk.members[disk.root] : Manifest(p) \in manifests
  BY DEF CopyInv, MembersFound
<1>4. QED BY <1>1, <1>2, <1>3 DEF ReachedManifests

\* Whatever the disk, what a build of the copy reads leads out of it only by the
\* paths that the copy overlooks.
THEOREM CopyHoldsWhatItReads == CopySpec => []CopyIsClosed
<1>1. ASSUME CopyInv PROVE CopyIsClosed
  <2> SUFFICES ASSUME copying = "done"
               PROVE  /\ ~StaysBehind(disk.source) => disk.source \in area
                      /\ configs \cup ReachedManifests \subseteq area
                      /\ \A file \in configs :
                            \A r \in RefsOf(file, ConfigKinds \cup {"include"}) :
                                ~IsOverlooked(r) => LeadsIntoCopy(file, r)
                      /\ \A file \in ReachedManifests :
                            \A r \in RefsOf(file, ManifestKinds \cup WorkspaceKinds) :
                                ~IsOverlooked(r) => LeadsIntoCopy(file, r)
    BY DEF CopyIsClosed
  <2>1. area = {f \in disk.files : IsCopied(f)} \cup configs /\ configs \subseteq rewritten
    BY <1>1 DEF CopyInv, AreaHolds, Rewritten, Copied
  <2>2. ReachedManifests \subseteq manifests /\ manifests \subseteq area \cap rewritten
    BY <1>1, ReachedAreFound DEF CopyInv, Rewritten, Inspected
  <2>3. ASSUME NEW file \in DOMAIN disk.refs, NEW r \in disk.refs[file], ~StaysBehind(r.to),
               OnDisk(r.to) => \E p \in roots : Under(r.to, p),
               NEW f \in disk.files, Under(f, r.to), ~LeftOutOf(f, r.to)
        PROVE  f \in area
    <3>1. r.to \in Targets({file}, {r.kind})
      BY DEF Targets, RefsOf
    <3>2. r.to \in Paths
      BY <1>1, <3>1, TargetsArePaths DEF CopyInv, CopyTyped
    <3>3. PICK p \in roots : Under(r.to, p)
      BY <2>3 DEF OnDisk
    <3>4. IsCopied(f)
      BY <1>1, <2>3, <3>2, <3>3, LedToIsCopied DEF CopyInv
    <3>5. QED BY <2>1, <3>4
  <2>4. ~StaysBehind(disk.source) => disk.source \in area
    <3>1. disk.source \in roots
      BY <1>1 DEF CopyInv, AllInspected, Inspected
    <3>2. disk.source \in disk.files /\ Under(disk.source, disk.source)
      BY <1>1, PathsOnDisk, UnderItself DEF CopyInv, CopyTyped, HasFile
    <3>3. QED BY <1>1, <2>1, <3>1, <3>2, FoundIsCopied DEF CopyInv
  <2>5. ASSUME NEW file \in configs, NEW r \in RefsOf(file, ConfigKinds \cup {"include"}),
               ~IsOverlooked(r)
        PROVE  LeadsIntoCopy(file, r)
    <3>1. CASE r.kind = "include"
      <4>1. HasFile(r.to) => r.to \in configs
        BY <1>1, <2>5, <3>1 DEF CopyInv, IncludesFollowed, Inspected, RefsOf
      <4>2. QED BY <2>1, <3>1, <4>1 DEF LeadsIntoCopy, WorkspaceKinds
    <3>2. CASE r.kind # "include"
      <4>1. r \in RefsOf(file, ConfigKinds) /\ ~StaysBehind(r.to) /\ r.kind \notin WorkspaceKinds
        BY <2>5, <3>2 DEF RefsOf, IsOverlooked, ConfigKinds, WorkspaceKinds
      <4>2. OnDisk(r.to) => r.to \in roots
        BY <1>1, <4>1, TargetsOf DEF CopyInv, ConfigurationPathsAdded, Copied
      <4>3. OnDisk(r.to) => \E p \in roots : Under(r.to, p)
        BY <1>1, <4>2, UnderItself DEF CopyInv, CopyTyped
      <4>4. file \in DOMAIN disk.refs /\ r \in disk.refs[file]
        BY DEF RefsOf
      <4>5. QED BY <2>1, <2>3, <3>2, <4>1, <4>3, <4>4 DEF LeadsIntoCopy
    <3>3. QED BY <3>1, <3>2
  <2>6. ASSUME NEW file \in ReachedManifests,
               NEW r \in RefsOf(file, ManifestKinds \cup WorkspaceKinds), ~IsOverlooked(r)
        PROVE  LeadsIntoCopy(file, r)
    <3>1. /\ file \in DOMAIN disk.refs /\ r \in disk.refs[file]
          /\ r.kind # "include" /\ file \in rewritten /\ ~StaysBehind(r.to)
          /\ r.kind \in WorkspaceKinds => ~r.absolute
      BY <2>2, <2>6 DEF RefsOf, ManifestKinds, WorkspaceKinds, IsOverlooked
    <3>2. OnDisk(r.to) => \E p \in roots : Under(r.to, p)
      <4>1. CASE r.kind \in WorkspaceKinds
        BY <2>6, <4>1 DEF IsOverlooked, CopyPaths, OutermostOf
      <4>2. CASE r.kind \in ManifestKinds
        <5>1. PICK d \in inspected : file = Manifest(d)
          BY <1>1, <2>2 DEF CopyInv, AllInspected, Inspected
        <5>2. r \in RefsOf(file, ManifestKinds)
          BY <4>2 DEF RefsOf
        <5>3. r.to \in PathsOf(d)
          BY <5>1, <5>2, TargetsOf DEF PathsOf
        <5>4. OnDisk(r.to) => r.to \in roots
          BY <1>1, <5>1, <5>3 DEF CopyInv, InspectionsFollowed
        <5>5. QED BY <1>1, <5>4, UnderItself DEF CopyInv, CopyTyped
      <4>3. QED BY <4>1, <4>2 DEF RefsOf
    <3>3. QED BY <2>3, <3>1, <3>2 DEF LeadsIntoCopy
  <2>7. QED BY <2>1, <2>2, <2>4, <2>5, <2>6
<1>2. QED BY <1>1, CopyInvariant, PTL

-----------------------------------------------------------------------------
(* The products that tests use are copied into a worker's own area.        *)

CrateWords == {"lib", "_", "-", ".", "hash", "rlib"}
         \cup UNION {Range(c.package) \cup Range(c.name) : c \in Crates}

LEMMA NamesAreWords ==
    /\ \A c \in Crates : c.package \in Seq(CrateWords) /\ c.name \in Seq(CrateWords)
    /\ {"lib", "_", "-", ".", "hash", "rlib"} \subseteq CrateWords
<1>1. \A c \in Crates : c.package \in Seq(CrateWords) /\ c.name \in Seq(CrateWords)
  <2> SUFFICES ASSUME NEW c \in Crates
               PROVE  c.package \in Seq(CrateWords) /\ c.name \in Seq(CrateWords)
    OBVIOUS
  <2>1. Range(c.package) \subseteq CrateWords /\ Range(c.name) \subseteq CrateWords
    BY DEF CrateWords
  <2>2. QED BY <2>1, CloneAssumption, SeqMonotonic
<1>2. {"lib", "_", "-", ".", "hash", "rlib"} \subseteq CrateWords
  BY DEF CrateWords
<1>3. QED BY <1>1, <1>2

LEMMA RespelledIsName ==
    ASSUME NEW name \in Seq(CrateWords), NEW from, NEW to \in CrateWords
    PROVE  [i \in DOMAIN name |-> IF name[i] = from THEN to ELSE name[i]] \in Seq(CrateWords)
<1> DEFINE f == [i \in 1 .. Len(name) |-> IF name[i] = from THEN to ELSE name[i]]
<1>1. DOMAIN name = 1 .. Len(name) /\ Len(name) \in Nat
  OBVIOUS
<1>2. f \in Seq(CrateWords)
  <2>1. \A i \in 1 .. Len(name) : f[i] \in CrateWords
    OBVIOUS
  <2>2. f \in [1 .. Len(name) -> CrateWords]
    BY <2>1, Zenon
  <2>3. QED BY <1>1, <2>2, SeqDef
<1>3. QED BY <1>1, <1>2

LEMMA PrefixOfLonger ==
    ASSUME NEW p \in Seq(CrateWords), NEW x \in CrateWords, NEW tail \in Seq(CrateWords)
    PROVE  LET name == p \o (<<x>> \o tail)
           IN  IsPrefix(p, name) /\ name[Len(p) + 1] = x
  BY DEF IsPrefix

\* The compiler's spelling of a name, with a hash and an extension or without,
\* is recognised for every crate; so is a program named as in its manifest.
LEMMA ProductsAreCrateEntries ==
    ASSUME layout = "host", NEW c \in Crates, c.kind # "example", NEW e \in Products(c)
    PROVE  IsCloned(e)
<1> DEFINE n == CrateName(c.name)
           lib == <<"lib">> \o n
<1>1. c.name \in Seq(CrateWords) /\ c.package \in Seq(CrateWords)
  BY NamesAreWords
<1>2. n \in Seq(CrateWords) /\ lib \in Seq(CrateWords)
  <2>1. n \in Seq(CrateWords)
    BY <1>1, NamesAreWords, RespelledIsName DEF CrateName
  <2>2. <<"lib">> \in Seq(CrateWords)
    <3>1. ASSUME NEW x \in CrateWords PROVE <<x>> \in Seq(CrateWords)
      OBVIOUS
    <3>2. QED BY <3>1, NamesAreWords
  <2>3. QED BY <2>1, <2>2, ConcatProperties
<1>3. {c.name, c.package, n, lib} \subseteq CratePrefixes
  <2>1. {c.name, c.package} \subseteq WorkspaceNames
    BY DEF WorkspaceNames
  <2>2. QED BY <2>1 DEF CratePrefixes
<1>4. ASSUME NEW p \in CratePrefixes, p \in Seq(CrateWords) 
      PROVE  /\ IsCrateEntry(p)
             /\ IsCrateEntry(Hashed(p))
             /\ IsCrateEntry(p \o <<".", "rlib">>)
             /\ IsCrateEntry(Hashed(p) \o <<".", "rlib">>)
  <2>1. ASSUME NEW x \in Separators, NEW tail \in Seq(CrateWords)
        PROVE  IsCrateEntry(p \o (<<x>> \o tail))
    <3>1. x \in CrateWords
      BY NamesAreWords DEF Separators
    <3>2. LET name == p \o (<<x>> \o tail)
          IN  IsPrefix(p, name) /\ name[Len(p) + 1] = x
      BY <3>1, <1>4, PrefixOfLonger
    <3>3. QED BY <3>2, <1>4 DEF IsCrateEntry
  <2>2. IsCrateEntry(p)
    BY <1>4 DEF IsCrateEntry, IsPrefix
  <2>3. Hashed(p) = p \o (<<"-">> \o <<"hash">>)
    BY DEF Hashed
  <2>4. p \o <<".", "rlib">> = p \o (<<".">> \o <<"rlib">>)
    OBVIOUS
  <2>5. Hashed(p) \o <<".", "rlib">> = p \o (<<"-">> \o <<"hash", ".", "rlib">>)
    BY <1>4 DEF Hashed
  <2>6. <<"hash">> \in Seq(CrateWords) /\ <<"rlib">> \in Seq(CrateWords) /\ <<"hash", ".", "rlib">> \in Seq(CrateWords)
    <3>1. ASSUME NEW x \in CrateWords, NEW y \in CrateWords, NEW z \in CrateWords
          PROVE  <<x>> \in Seq(CrateWords) /\ <<x, y, z>> \in Seq(CrateWords)
      OBVIOUS
    <3>2. QED BY <3>1, NamesAreWords
  <2>7. "-" \in Separators /\ "." \in Separators
    BY DEF Separators
  <2>8. QED BY <2>1, <2>2, <2>3, <2>4, <2>5, <2>6, <2>7
<1>5. \A p \in {c.name, c.package, n, lib} :
           /\ IsCrateEntry(p)
           /\ IsCrateEntry(Hashed(p))
           /\ IsCrateEntry(p \o <<".", "rlib">>)
           /\ IsCrateEntry(Hashed(p) \o <<".", "rlib">>)
  BY <1>1, <1>2, <1>3, <1>4
<1>6. e.dir # "target" /\ IsCrateEntry(e.name)
  <2>1. CASE c.kind = "lib"
    <3>1. Products(c) =
            {[dir |-> "deps", name |-> Hashed(lib) \o <<".", "rlib">>],
             [dir |-> "deps", name |-> Hashed(n)],
             [dir |-> "profile", name |-> lib \o <<".", "rlib">>],
             [dir |-> "units", name |-> Hashed(c.package)],
             [dir |-> "units", name |-> Hashed(n)]}
      BY <2>1, Zenon DEF Products
    <3> HIDE DEF n, lib
    <3>2. /\ e.dir \in {"deps", "profile", "units"}
          /\ e.name \in {Hashed(lib) \o <<".", "rlib">>, Hashed(n), lib \o <<".", "rlib">>,
                        Hashed(c.package)}
      BY <3>1
    <3>3. QED BY <1>5, <3>2
  <2>2. CASE c.kind = "bin"
    <3>1. Products(c) =
            {[dir |-> "deps", name |-> Hashed(n)],
             [dir |-> "profile", name |-> c.name],
             [dir |-> "units", name |-> Hashed(c.package)]}
      BY <2>2 DEF Products
    <3> HIDE DEF n, lib
    <3>2. QED BY <1>5, <3>1
  <2>3. CASE c.kind = "test"
    <3>1. Products(c) = {[dir |-> "deps", name |-> Hashed(n)]}
      BY <2>3 DEF Products
    <3> HIDE DEF n, lib
    <3>2. QED BY <1>5, <3>1
  <2>4. QED BY <2>1, <2>2, <2>3, CloneAssumption
<1>7. QED BY <1>6 DEF IsCloned

LEMMA UsedIsCloned == \A e \in UsedByTests : e \in Entries /\ (layout = "host" => IsCloned(e))
  BY ProductsAreCrateEntries DEF UsedByTests, Entries

-----------------------------------------------------------------------------
(* Whose build a worker's tests run.                                       *)

CloneTyped ==
    /\ cloning \in [Cloners -> {"none", "cloned", "ready", "waiting", "building", "testing"}]
    /\ place \in [Cloners -> [Entries -> BuildAreas]]
    /\ names \in [Cloners -> BuildAreas]
    /\ builder \in [BuildAreas -> [Entries -> BuildAreas]]

\* An entry is a worker's own or a link to the template, and where Cargo builds
\* for the host, what tests use is never a link.
LinksLeadToTemplate ==
    \A w \in Cloners :
        /\ \A e \in Entries : place[w][e] \in {w, Template}
        /\ layout = "host" => \A e \in UsedByTests : place[w][e] = w

\* A worker builds after its paths were led to its own area.
BuildsAfterRemap ==
    \A w \in Cloners : cloning[w] \notin {"none", "cloned"} => names[w] = w

\* While tests run, their area holds what their worker built last.
OwnBuildInPlace ==
    layout = "host" => \A w \in Cloners : cloning[w] = "testing" =>
                           \A e \in UsedByTests : builder[w][e] = w

CloneInv == CloneTyped /\ LinksLeadToTemplate /\ BuildsAfterRemap /\ OwnBuildInPlace

LEMMA CloneStarts == CloneInit => CloneInv
<1> SUFFICES ASSUME CloneInit PROVE CloneInv
  OBVIOUS
<1>1. CloneTyped
  BY DEF CloneInit, CloneTyped, BuildAreas
<1>2. LinksLeadToTemplate /\ BuildsAfterRemap /\ OwnBuildInPlace
  BY UsedIsCloned DEF CloneInit, LinksLeadToTemplate, BuildsAfterRemap, OwnBuildInPlace
<1>3. QED BY <1>1, <1>2 DEF CloneInv

LEMMA CloneKeeps ==
    ASSUME CloneInv, NEW w \in Cloners, Clone(w)
    PROVE  CloneInv'
<1>1. PICK linksWork \in BOOLEAN :
        place' = [place EXCEPT ![w] =
            [e \in Entries |-> IF IsCloned(e) \/ ~linksWork THEN w ELSE Template]]
  BY DEF Clone
<1>2. CloneTyped'
  BY <1>1 DEF CloneInv, CloneTyped, Clone, BuildAreas
<1>3. LinksLeadToTemplate'
  BY <1>1, UsedIsCloned DEF CloneInv, CloneTyped, LinksLeadToTemplate, Clone
<1>4. BuildsAfterRemap'
  BY DEF CloneInv, CloneTyped, BuildsAfterRemap, Clone
<1>5. OwnBuildInPlace'
  BY CloneAssumption DEF CloneInv, CloneTyped, OwnBuildInPlace, Clone, BuildAreas
<1>6. QED BY <1>2, <1>3, <1>4, <1>5 DEF CloneInv

LEMMA FinishBuildKeeps ==
    ASSUME CloneInv, NEW w \in Cloners, FinishBuild(w)
    PROVE  CloneInv'
<1> DEFINE built == UNION {Products(c) : c \in Crates}
<1>1. UsedByTests \subseteq built
  BY DEF UsedByTests
<1>2. CloneTyped'
  BY DEF CloneInv, CloneTyped, FinishBuild, BuildAreas
<1>3. LinksLeadToTemplate' /\ BuildsAfterRemap'
  BY DEF CloneInv, CloneTyped, LinksLeadToTemplate, BuildsAfterRemap, FinishBuild
<1>4. ASSUME layout' = "host", NEW u \in Cloners, cloning'[u] = "testing", NEW e \in UsedByTests
      PROVE  builder'[u][e] = u
  <2>1. e \in Entries /\ e \in built /\ u \in BuildAreas /\ layout = "host"
    BY <1>1, <1>4, UsedIsCloned DEF BuildAreas, FinishBuild
  <2>2. builder'[u][e] = IF place[w][e] = u THEN names[w] ELSE builder[u][e]
    BY <2>1 DEF FinishBuild
  <2>3. CASE u = w
    BY <2>1, <2>2, <2>3 DEF CloneInv, LinksLeadToTemplate, BuildsAfterRemap, FinishBuild
  <2>4. CASE u # w
    <3>1. place[w][e] = w /\ cloning[u] = "testing"
      BY <1>4, <2>1, <2>4 DEF CloneInv, CloneTyped, LinksLeadToTemplate, FinishBuild
    <3>2. QED BY <2>1, <2>2, <2>4, <3>1 DEF CloneInv, OwnBuildInPlace
  <2>5. QED BY <2>3, <2>4
<1>5. QED BY <1>2, <1>3, <1>4 DEF CloneInv, OwnBuildInPlace

LEMMA CloneStep == CloneInv /\ [CloneNext]_cloneVars => CloneInv'
<1> SUFFICES ASSUME CloneInv, [CloneNext]_cloneVars PROVE CloneInv'
  OBVIOUS
<1> USE DEF CloneInv, CloneTyped, LinksLeadToTemplate, BuildsAfterRemap, OwnBuildInPlace, BuildAreas
<1>1. ASSUME NEW w \in Cloners, Remap(w) PROVE CloneInv'
  BY <1>1 DEF Remap
<1>2. ASSUME NEW w \in Cloners, StartBuild(w) PROVE CloneInv'
  BY <1>2 DEF StartBuild
<1>3. ASSUME NEW w \in Cloners, WaitForLock(w) PROVE CloneInv'
  BY <1>3 DEF WaitForLock
<1>4. ASSUME NEW w \in Cloners, FinishTests(w) PROVE CloneInv'
  BY <1>4 DEF FinishTests
<1>5. CASE UNCHANGED cloneVars
  BY <1>5 DEF cloneVars
<1>6. QED BY <1>1, <1>2, <1>3, <1>4, <1>5, CloneKeeps, FinishBuildKeeps DEF CloneNext

\* For any number of workers and any crates, where Cargo builds for the host:
\* what the tests of a worker run was built from its own tree, however the
\* builds of the others interleave.
THEOREM OwnBuild == CloneSpec => []TestsRunOwnBuild
<1>1. CloneInv => TestsRunOwnBuild
  BY DEF CloneInv, LinksLeadToTemplate, OwnBuildInPlace, TestsRunOwnBuild
<1>2. QED BY <1>1, CloneStarts, CloneStep, PTL DEF CloneSpec

-----------------------------------------------------------------------------
(* Merging.                                                                 *)

MergeValues == [many : BOOLEAN, of : Seq(Triples)] \cup {NoTarget}

AllOf(list) == FlattenSeq([i \in 1 .. Len(list) |-> list[i].of])

\* What is left of a list of configured targets: an error when two are of
\* different kinds, else all the arrays or the last single target.
IsMergeOf(v, list) ==
    \/ list = <<>> /\ v = NoTarget
    \/ /\ list # <<>>
       /\ \/ /\ \E i, j \in 1 .. Len(list) : list[i].many = TRUE /\ list[j].many = FALSE
             /\ v = Refused
          \/ /\ \A i \in 1 .. Len(list) : list[i].many = TRUE
             /\ v = [many |-> TRUE, of |-> AllOf(list)]
          \/ /\ \A i \in 1 .. Len(list) : list[i].many = FALSE
             /\ v = list[Len(list)]

LEMMA ConfiguredFacts ==
    ASSUME NEW v \in Configured
    PROVE  /\ v \in [many : BOOLEAN, of : Seq(Triples)]
           /\ v # NoTarget /\ v # Refused /\ v \in MergeValues
           /\ v.of \in Seq(Triples) /\ v.many \in BOOLEAN
<1>1. CASE v \in [many : {TRUE}, of : Seq(Triples)]
  <2>1. v.many = TRUE /\ v.of \in Seq(Triples) /\ v \in [many : BOOLEAN, of : Seq(Triples)]
    BY <1>1
  <2>2. Refused.many = FALSE
    BY DEF Refused
  <2>3. v # Refused
    BY <2>1, <2>2
  <2>4. v # NoTarget
    BY <2>1, NoTargetAssumption
  <2>5. QED BY <2>1, <2>3, <2>4 DEF MergeValues
<1>2. CASE v \in [many : {FALSE}, of : {<<t>> : t \in Triples}]
  <2>1. PICK t \in Triples : v = [many |-> FALSE, of |-> <<t>>]
    BY <1>2
  <2>2. <<t>> \in Seq(Triples) /\ <<t>> # <<>>
    OBVIOUS
  <2>3. v \in [many : BOOLEAN, of : Seq(Triples)] /\ v.of = <<t>> /\ v.many = FALSE
    BY <2>1, <2>2
  <2>4. v # Refused
    BY <2>2, <2>3 DEF Refused
  <2>5. QED BY <2>2, <2>3, <2>4, NoTargetAssumption DEF MergeValues
<1>3. QED BY <1>1, <1>2 DEF Configured

LEMMA AllOfBoth ==
    ASSUME NEW list \in Seq(Configured), NEW more \in Seq(Configured)
    PROVE  /\ AllOf(list) \in Seq(Triples)
           /\ AllOf(list \o more) = AllOf(list) \o AllOf(more)
<1> DEFINE ofs(l) == [i \in 1 .. Len(l) |-> l[i].of]
<1>1. \A l \in Seq(Configured) : ofs(l) \in Seq(Seq(Triples)) /\ Len(ofs(l)) = Len(l)
  <2> SUFFICES ASSUME NEW l \in Seq(Configured)
               PROVE  ofs(l) \in Seq(Seq(Triples)) /\ Len(ofs(l)) = Len(l)
    OBVIOUS
  <2>1. Len(l) \in Nat /\ \A i \in 1 .. Len(l) : l[i].of \in Seq(Triples)
    BY LenProperties, ElementOfSeq, ConfiguredFacts
  <2>2. QED BY <2>1
<1>2. ofs(list \o more) = ofs(list) \o ofs(more)
  <2> DEFINE both == list \o more
  <2>1. /\ both \in Seq(Configured) /\ Len(both) = Len(list) + Len(more)
        /\ Len(list) \in Nat /\ Len(more) \in Nat
        /\ \A i \in 1 .. Len(both) :
             both[i] = IF i <= Len(list) THEN list[i] ELSE more[i - Len(list)]
    BY ConcatProperties, LenProperties
  <2> DEFINE a == ofs(list)
             b == ofs(more)
             c == ofs(both)
  <2>2. /\ a \in Seq(Seq(Triples)) /\ Len(a) = Len(list)
        /\ b \in Seq(Seq(Triples)) /\ Len(b) = Len(more)
        /\ c \in Seq(Seq(Triples)) /\ Len(c) = Len(both)
    BY <1>1, <2>1
  <2>3. /\ \A i \in 1 .. Len(list) : a[i] = list[i].of
        /\ \A i \in 1 .. Len(more) : b[i] = more[i].of
        /\ \A i \in 1 .. Len(both) : c[i] = both[i].of
    OBVIOUS
  <2> HIDE DEF a, b, c, both
  <2>4. /\ a \o b \in Seq(Seq(Triples)) /\ Len(a \o b) = Len(both)
        /\ \A i \in 1 .. Len(both) : (a \o b)[i] = IF i <= Len(list) THEN a[i] ELSE b[i - Len(list)]
    BY <2>1, <2>2, ConcatProperties
  <2>5. ASSUME NEW i \in 1 .. Len(both) PROVE c[i] = (a \o b)[i]
    <3>1. CASE i <= Len(list)
      <4>1. i \in 1 .. Len(list)
        BY <2>1, <3>1
      <4>2. QED BY <2>1, <2>3, <2>4, <3>1, <4>1
    <3>2. CASE ~(i <= Len(list))
      <4>1. i - Len(list) \in 1 .. Len(more)
        BY <2>1, <3>2
      <4>2. QED BY <2>1, <2>3, <2>4, <3>2, <4>1
    <3>3. QED BY <3>1, <3>2
  <2>6. c = a \o b
    BY <2>2, <2>4, <2>5, SeqEqual
  <2>7. QED BY <2>6 DEF a, b, c, both
<1>3. AllOf(list) = FlattenSeq(ofs(list)) /\ AllOf(more) = FlattenSeq(ofs(more))
      /\ AllOf(list \o more) = FlattenSeq(ofs(list \o more))
  BY DEF AllOf
<1> DEFINE a == ofs(list)
           b == ofs(more)
<1>4. a \in Seq(Seq(Triples)) /\ b \in Seq(Seq(Triples))
  <2> HIDE DEF ofs
  <2>1. QED BY <1>1
<1>5. AllOf(list) = FlattenSeq(a) /\ AllOf(more) = FlattenSeq(b)
      /\ AllOf(list \o more) = FlattenSeq(a \o b)
  <2> HIDE DEF ofs
  <2>1. QED BY <1>2, <1>3
<1> HIDE DEF a, b, ofs
<1>6. FlattenSeq(a \o b) = FlattenSeq(a) \o FlattenSeq(b) /\ FlattenSeq(a) \in Seq(Triples)
  BY <1>4, FlattenBoth, FlattenPlaces
<1>7. QED BY <1>5, <1>6

LEMMA MergesAreValues ==
    ASSUME NEW list \in Seq(Configured), NEW v, IsMergeOf(v, list)
    PROVE  /\ v \in MergeValues
           /\ list # <<>> => v \in [many : BOOLEAN, of : Seq(Triples)] /\ v # NoTarget
<1>1. Len(list) \in Nat /\ \A i \in 1 .. Len(list) : list[i] \in Configured
  BY LenProperties, ElementOfSeq
<1>2. AllOf(list) \in Seq(Triples)
  BY AllOfBoth
<1>3. Refused \in [many : BOOLEAN, of : Seq(Triples)]
  BY DEF Refused
<1>4. CASE list = <<>>
  BY <1>4 DEF IsMergeOf, MergeValues
<1>5. CASE list # <<>>
  <2>1. Len(list) \in 1 .. Len(list)
    BY <1>1, <1>5, EmptySeq
  <2>2. v \in [many : BOOLEAN, of : Seq(Triples)]
    <3>1. list[Len(list)] \in [many : BOOLEAN, of : Seq(Triples)]
      BY <1>1, <2>1, ConfiguredFacts
    <3>2. [many |-> TRUE, of |-> AllOf(list)] \in [many : BOOLEAN, of : Seq(Triples)]
      BY <1>2
    <3>3. v \in {Refused, [many |-> TRUE, of |-> AllOf(list)], list[Len(list)]}
      BY <1>5 DEF IsMergeOf
    <3>4. QED BY <1>3, <3>1, <3>2, <3>3
  <2>3. QED BY <2>2, NoTargetAssumption DEF MergeValues
<1>6. QED BY <1>4, <1>5

\* What two lists come to is what the one after the other comes to.
LEMMA MergedIsMerge ==
    ASSUME NEW list \in Seq(Configured), NEW more \in Seq(Configured),
           NEW v, NEW w, IsMergeOf(v, list), IsMergeOf(w, more)
    PROVE  IsMergeOf(Merged(v, w), list \o more)
<1> DEFINE both == list \o more
           m == Len(list)
           n == Len(more)
<1>1. m \in Nat /\ n \in Nat /\ (m = 0 <=> list = <<>>) /\ (n = 0 <=> more = <<>>)
  BY LenProperties, EmptySeq
<1>2. /\ both \in Seq(Configured) /\ Len(both) = m + n
      /\ \A i \in 1 .. m : i \in 1 .. m + n /\ both[i] = list[i]
      /\ \A i \in 1 .. n : m + i \in 1 .. m + n /\ both[m + i] = more[i]
      /\ \A i \in 1 .. m + n : i \in 1 .. m \/ \E j \in 1 .. n : i = m + j
  <2>1. /\ both \in Seq(Configured) /\ Len(both) = m + n
        /\ \A i \in 1 .. m + n : both[i] = IF i <= m THEN list[i] ELSE more[i - m]
    BY ConcatProperties
  <2> HIDE DEF both, m, n
  <2>2. \A i \in 1 .. m : i \in 1 .. m + n /\ i <= m
    BY <1>1
  <2>3. \A i \in 1 .. n : m + i \in 1 .. m + n /\ ~(m + i <= m) /\ (m + i) - m = i
    BY <1>1
  <2>4. ASSUME NEW i \in 1 .. m + n PROVE i \in 1 .. m \/ \E j \in 1 .. n : i = m + j
    <3>1. CASE i <= m
      BY <1>1, <3>1
    <3>2. CASE ~(i <= m)
      <4>1. i - m \in 1 .. n /\ i = m + (i - m)
        BY <1>1, <3>2
      <4>2. QED BY <4>1
    <3>3. QED BY <3>1, <3>2
  <2>5. QED BY <2>1, <2>2, <2>3, <2>4
<1>3. \A i \in 1 .. m : list[i].many \in BOOLEAN /\ list[i] # Refused /\ list[i] # NoTarget
  BY ElementOfSeq, ConfiguredFacts
<1>4. \A i \in 1 .. n : more[i].many \in BOOLEAN /\ more[i] # Refused /\ more[i] # NoTarget
  BY ElementOfSeq, ConfiguredFacts
<1>5. CASE n = 0
  <2>1. w = NoTarget /\ both = list
    BY <1>1, <1>5, ConcatEmptySeq DEF IsMergeOf
  <2>2. Merged(v, w) = v
    BY <2>1 DEF Merged
  <2>3. QED BY <2>1, <2>2
<1>6. CASE n # 0 /\ m = 0
  <2>1. v = NoTarget /\ both = more
    BY <1>1, <1>6, ConcatEmptySeq DEF IsMergeOf
  <2>2. Merged(v, w) = w
    BY <2>1 DEF Merged
  <2>3. QED BY <2>1, <2>2
<1>7. CASE n # 0 /\ m # 0
  <2>1. /\ v \in [many : BOOLEAN, of : Seq(Triples)] /\ v # NoTarget
        /\ w \in [many : BOOLEAN, of : Seq(Triples)] /\ w # NoTarget
    BY <1>1, <1>7, MergesAreValues
  <2>2. 1 \in 1 .. m /\ m \in 1 .. m /\ 1 \in 1 .. n /\ n \in 1 .. n /\ both # <<>>
    <3>1. Len(both) # 0
      BY <1>1, <1>2, <1>7
    <3>2. QED BY <1>1, <1>2, <1>7, <3>1, EmptySeq
  <2> DEFINE Differ(l) == \E i, j \in 1 .. Len(l) : l[i].many = TRUE /\ l[j].many = FALSE
             Arrays(l) == \A i \in 1 .. Len(l) : l[i].many = TRUE
             Singles(l) == \A i \in 1 .. Len(l) : l[i].many = FALSE
  <2>3. /\ \/ Differ(list) /\ v = Refused
           \/ Arrays(list) /\ v = [many |-> TRUE, of |-> AllOf(list)]
           \/ Singles(list) /\ v = list[m]
        /\ \/ Differ(more) /\ w = Refused
           \/ Arrays(more) /\ w = [many |-> TRUE, of |-> AllOf(more)]
           \/ Singles(more) /\ w = more[n]
    BY <1>1, <1>7 DEF IsMergeOf
  <2>4. Differ(list) \/ Differ(more) => Differ(both)
    <3>1. ASSUME NEW i \in 1 .. m, NEW j \in 1 .. m, list[i].many = TRUE, list[j].many = FALSE
          PROVE  Differ(both)
      <4>1. i \in 1 .. Len(both) /\ j \in 1 .. Len(both) /\ both[i] = list[i] /\ both[j] = list[j]
        BY <1>2
      <4> HIDE DEF both
      <4>2. QED BY <3>1, <4>1
    <3>2. ASSUME NEW i \in 1 .. n, NEW j \in 1 .. n, more[i].many = TRUE, more[j].many = FALSE
          PROVE  Differ(both)
      <4>1. /\ m + i \in 1 .. Len(both) /\ m + j \in 1 .. Len(both)
            /\ both[m + i] = more[i] /\ both[m + j] = more[j]
        BY <1>2
      <4> HIDE DEF both, m
      <4>2. QED BY <3>2, <4>1
    <3> HIDE DEF both
    <3>3. QED BY <3>1, <3>2
  <2>5. Arrays(list) /\ Singles(more) => Differ(both)
    <3>1. list[1].many = TRUE /\ more[1].many = FALSE => both[1].many = TRUE /\ both[m + 1].many = FALSE
      BY <1>2, <2>2
    <3>2. 1 \in 1 .. Len(both) /\ m + 1 \in 1 .. Len(both)
      BY <1>2, <2>2
    <3>3. QED BY <2>2, <3>1, <3>2
  <2>6. Singles(list) /\ Arrays(more) => Differ(both)
    <3>1. list[1].many = FALSE /\ more[1].many = TRUE => both[1].many = FALSE /\ both[m + 1].many = TRUE
      BY <1>2, <2>2
    <3>2. 1 \in 1 .. Len(both) /\ m + 1 \in 1 .. Len(both)
      BY <1>2, <2>2
    <3>3. QED BY <2>2, <3>1, <3>2
  <2>p. ASSUME NEW i \in 1 .. Len(both)
        PROVE  \/ i \in 1 .. m /\ both[i] = list[i]
               \/ i - m \in 1 .. n /\ both[i] = more[i - m]
    <3>1. i \in 1 .. m \/ (i - m \in 1 .. n /\ i = m + (i - m))
      BY <1>2
    <3>2. i \in 1 .. m => both[i] = list[i]
      BY <1>2
    <3>3. i - m \in 1 .. n => both[m + (i - m)] = more[i - m]
      BY <1>2
    <3> HIDE DEF both, m, n
    <3>4. QED BY <3>1, <3>2, <3>3
  <2>7. Arrays(list) /\ Arrays(more) => Arrays(both)
    <3> HIDE DEF both, m, n
    <3>1. QED BY <2>p DEF m, n
  <2>8. Singles(list) /\ Singles(more) => Singles(both) /\ both[Len(both)] = more[n]
    <3>1. both[Len(both)] = more[n]
      BY <1>2, <2>2
    <3> HIDE DEF both, m, n
    <3>2. QED BY <2>p, <3>1 DEF m, n
  <2>9. Refused.many = FALSE /\ Refused # NoTarget
    <3>1. Refused \in [many : BOOLEAN, of : Seq(Triples)]
      BY DEF Refused
    <3>2. QED BY <3>1, NoTargetAssumption DEF Refused
  <2>10. Singles(list) => list[m].many = FALSE /\ list[m] # Refused
    BY <1>3, <2>2
  <2>11. Singles(more) => more[n].many = FALSE /\ more[n] # Refused
    BY <1>4, <2>2
  <2>12. IsMergeOf(Merged(v, w), both) <=>
            \/ Differ(both) /\ Merged(v, w) = Refused
            \/ Arrays(both) /\ Merged(v, w) = [many |-> TRUE, of |-> AllOf(both)]
            \/ Singles(both) /\ Merged(v, w) = both[Len(both)]
    BY <2>2 DEF IsMergeOf
  <2>13. AllOf(both) = AllOf(list) \o AllOf(more)
    BY AllOfBoth
  <2> HIDE DEF Differ, Arrays, Singles, both, m, n
  <2>14. CASE v = Refused \/ w = Refused
    <3>1. Merged(v, w) = Refused
      BY <2>1, <2>14 DEF Merged
    <3>2. Differ(both)
      <4>1. v = Refused => Differ(list)
        <5>1. [many |-> TRUE, of |-> AllOf(list)].many = TRUE
          OBVIOUS
        <5>2. QED BY <2>3, <2>9, <2>10, <5>1
      <4>2. w = Refused => Differ(more)
        <5>1. [many |-> TRUE, of |-> AllOf(more)].many = TRUE
          OBVIOUS
        <5>2. QED BY <2>3, <2>9, <2>11, <5>1
      <4>3. QED BY <2>4, <2>14, <4>1, <4>2
    <3>3. QED BY <2>12, <3>1, <3>2 DEF both
  <2>15. CASE v # Refused /\ w # Refused /\ Arrays(list) /\ v = [many |-> TRUE, of |-> AllOf(list)]
    <3>1. v.many = TRUE /\ v.of = AllOf(list)
      BY <2>15
    <3>2. CASE Arrays(more) /\ w = [many |-> TRUE, of |-> AllOf(more)]
      <4>1. w.many = TRUE /\ w.of = AllOf(more)
        BY <3>2
      <4>2. Merged(v, w) = [many |-> TRUE, of |-> v.of \o w.of]
        BY <2>1, <2>15, <3>1, <4>1 DEF Merged
      <4>3. QED BY <2>7, <2>12, <2>13, <2>15, <3>1, <3>2, <4>1, <4>2 DEF both
    <3>3. CASE Singles(more) /\ w = more[n]
      <4>1. w.many = FALSE
        BY <2>11, <3>3
      <4>2. Merged(v, w) = Refused
        BY <2>1, <2>15, <3>1, <4>1 DEF Merged
      <4>3. QED BY <2>5, <2>12, <2>15, <3>3, <4>2 DEF both
    <3>4. QED BY <2>3, <2>15, <3>2, <3>3
  <2>16. CASE v # Refused /\ w # Refused /\ Singles(list) /\ v = list[m]
    <3>1. v.many = FALSE
      BY <2>10, <2>16
    <3>2. CASE Arrays(more) /\ w = [many |-> TRUE, of |-> AllOf(more)]
      <4>1. w.many = TRUE
        BY <3>2
      <4>2. Merged(v, w) = Refused
        BY <2>1, <2>16, <3>1, <4>1 DEF Merged
      <4>3. QED BY <2>6, <2>12, <2>16, <3>2, <4>2 DEF both
    <3>3. CASE Singles(more) /\ w = more[n]
      <4>1. w.many = FALSE
        BY <2>11, <3>3
      <4>2. Merged(v, w) = w
        BY <2>1, <2>16, <3>1, <4>1 DEF Merged
      <4>3. QED BY <2>8, <2>12, <2>16, <3>3, <4>2 DEF both
    <3>4. QED BY <2>3, <2>16, <3>2, <3>3
  <2>17. QED BY <2>3, <2>14, <2>15, <2>16
<1>8. QED BY <1>5, <1>6, <1>7

LEMMA MergedType ==
    ASSUME NEW v \in MergeValues, NEW w \in MergeValues
    PROVE  Merged(v, w) \in MergeValues
<1>1. Refused \in MergeValues
  BY DEF Refused, MergeValues
<1>2. CASE v # NoTarget /\ w # NoTarget
  <2>1. v.of \in Seq(Triples) /\ w.of \in Seq(Triples)
    BY <1>2 DEF MergeValues
  <2>2. v.of \o w.of \in Seq(Triples)
    <3> DEFINE a == v.of
               b == w.of
    <3> HIDE DEF a, b
    <3>1. a \in Seq(Triples) /\ b \in Seq(Triples) => a \o b \in Seq(Triples)
      BY ConcatProperties
    <3>2. QED BY <2>1, <3>1 DEF a, b
  <2>3. [many |-> TRUE, of |-> v.of \o w.of] \in MergeValues
    BY <2>2 DEF MergeValues
  <2>4. QED BY <1>1, <1>2, <2>3 DEF Merged
<1>3. CASE v = NoTarget \/ w = NoTarget
  BY <1>3 DEF Merged
<1>4. QED BY <1>2, <1>3

\* The function that merges a list, one value after another.
MergesUpTo(list, m) ==
    m = [n \in 0 .. Len(list) |-> IF n = 0 THEN NoTarget ELSE Merged(m[n - 1], list[n])]

LEMMA MergesExist ==
    ASSUME NEW list \in Seq(MergeValues)
    PROVE  \E m : MergesUpTo(list, m)
<1> DEFINE D == 0 .. Len(list)
           V == MergeValues
           needs == {xy \in D \X D : xy[2] = xy[1] - 1}
           F == [gx \in [D -> V] \X D |->
                   IF gx[2] = 0 THEN NoTarget ELSE Merged(gx[1][gx[2] - 1], list[gx[2]])]
<1>1. Len(list) \in Nat /\ \A i \in 1 .. Len(list) : list[i] \in V
  BY LenProperties, ElementOfSeq
<1>2. IsFiniteSet(D)
  BY <1>1, FS_Interval
<1>3. NoTarget \in V
  BY DEF MergeValues
<1>4. ASSUME NEW g \in [D -> V], NEW x \in D
      PROVE  /\ F[<<g, x>>] = IF x = 0 THEN NoTarget ELSE Merged(g[x - 1], list[x])
             /\ F[<<g, x>>] \in V
             /\ x # 0 => x - 1 \in D /\ <<x, x - 1>> \in needs
  <2>1. <<g, x>> \in [D -> V] \X D
    OBVIOUS
  <2>2. F[<<g, x>>] = IF x = 0 THEN NoTarget ELSE Merged(g[x - 1], list[x])
    BY <2>1
  <2>3. x # 0 => x \in 1 .. Len(list) /\ x - 1 \in D
    BY <1>1
  <2> HIDE DEF F, V
  <2>4. x # 0 => g[x - 1] \in V /\ list[x] \in V
    BY <1>1, <2>3
  <2>5. x # 0 => Merged(g[x - 1], list[x]) \in V
    BY <2>4, MergedType DEF V
  <2>6. x # 0 => <<x, x - 1>> \in needs
    BY <2>3
  <2>7. QED BY <1>3, <2>2, <2>3, <2>5, <2>6
<1>5. F \in [[D -> V] \X D -> V]
  <2>1. ASSUME NEW gx \in [D -> V] \X D PROVE F[gx] \in V
    <3>1. PICK g \in [D -> V], x \in D : gx = <<g, x>>
      OBVIOUS
    <3> HIDE DEF F
    <3>2. QED BY <1>4, <3>1
  <2>2. F = [gx \in [D -> V] \X D |-> F[gx]]
    OBVIOUS
  <2> HIDE DEF F
  <2>3. QED BY <2>1, <2>2
<1>6. ASSUME NEW R \in SUBSET D, R # {} PROVE \E x \in R : \A y \in R : <<x, y>> \notin needs
  <2>1. PICK x \in R : \A y \in R : y # x - 1
    BY <1>1, <1>6, StepsGoDown
  <2>2. \A y \in R : <<x, y>> \notin needs
    BY <2>1
  <2>3. QED BY <2>2
<1>7. ASSUME NEW g \in [D -> V], NEW h \in [D -> V], NEW x \in D,
             \A y \in D : <<x, y>> \in needs => g[y] = h[y]
      PROVE  F[<<g, x>>] = F[<<h, x>>]
  <2>1. x # 0 => x - 1 \in D /\ <<x, x - 1>> \in needs
    BY <1>4
  <2>2. x # 0 => g[x - 1] = h[x - 1]
    BY <1>7, <2>1
  <2>3. QED BY <1>4, <2>2
<1> HIDE DEF F, needs, D
<1>8. \E f : SolutionOf(D, V, F, f)
  <2> HIDE DEF V
  <2>1. V # {}
    BY <1>3
  <2>2. Grounded(D, needs)
    BY <1>6 DEF Grounded
  <2>3. Determined(D, V, needs, F)
    BY <1>5, <1>7 DEF Determined
  <2>4. QED BY <1>2, <2>1, <2>2, <2>3, RecursionExists
<1>9. PICK f \in [D -> V] : \A x \in D : f[x] = F[<<f, x>>]
  BY <1>8 DEF SolutionOf
<1>10. \A x \in D : f[x] = IF x = 0 THEN NoTarget ELSE Merged(f[x - 1], list[x])
  BY <1>4, <1>9
<1>11. f = [x \in D |-> IF x = 0 THEN NoTarget ELSE Merged(f[x - 1], list[x])]
  BY <1>10
<1>12. QED BY <1>11 DEF MergesUpTo, D

LEMMA MergedAllSteps ==
    ASSUME NEW list \in Seq(MergeValues)
    PROVE  \E m : /\ MergedAll(list) = m[Len(list)] /\ m[0] = NoTarget
                  /\ \A n \in 0 .. Len(list) : m[n] \in MergeValues
                  /\ \A n \in 1 .. Len(list) : m[n] = Merged(m[n - 1], list[n])
<1> DEFINE m == CHOOSE f : MergesUpTo(list, f)
           k == Len(list)
<1>1. k \in Nat /\ \A i \in 1 .. k : list[i] \in MergeValues
  BY LenProperties, ElementOfSeq
<1>2. MergesUpTo(list, m)
  BY MergesExist
<1>3. MergedAll(list) = m[k]
  BY DEF MergedAll, MergesUpTo
<1> HIDE DEF m, k
<1>4. \A n \in 0 .. k : m[n] = IF n = 0 THEN NoTarget ELSE Merged(m[n - 1], list[n])
  BY <1>2, Zenon DEF MergesUpTo, k
<1>5. m[0] = NoTarget /\ \A n \in 1 .. k : m[n] = Merged(m[n - 1], list[n])
  BY <1>1, <1>4
<1>6. \A n \in 0 .. k : m[n] \in MergeValues
  <2> DEFINE T == {n \in 0 .. k : m[n] \notin MergeValues}
  <2> SUFFICES ASSUME T # {} PROVE FALSE
    OBVIOUS
  <2>1. PICK n \in T : \A y \in T : n <= y
    <3>1. T \in SUBSET Nat
      BY <1>1
    <3> HIDE DEF T
    <3>2. QED BY <3>1, LeastNatural
  <2>2. n \in 0 .. k /\ m[n] \notin MergeValues
    OBVIOUS
  <2>3. n # 0
    BY <1>5, <2>2 DEF MergeValues
  <2>4. n \in 1 .. k /\ n - 1 \in 0 .. k
    BY <1>1, <2>2, <2>3
  <2>5. n - 1 \notin T
    <3> HIDE DEF T
    <3>1. n - 1 \in T => n <= n - 1
      BY <2>1
    <3>2. QED BY <1>1, <2>2, <3>1
  <2>6. m[n - 1] \in MergeValues
    BY <2>4, <2>5
  <2>7. QED BY <1>1, <1>5, <2>2, <2>4, <2>6, MergedType
<1>7. QED BY <1>3, <1>5, <1>6 DEF k

LEMMA MergedAllType ==
    ASSUME NEW list \in Seq(MergeValues)
    PROVE  MergedAll(list) \in MergeValues
<1>1. Len(list) \in Nat /\ Len(list) \in 0 .. Len(list)
  <2>1. Len(list) \in Nat
    BY LenProperties
  <2>2. QED BY <2>1
<1>2. QED BY <1>1, MergedAllSteps

LEMMA MergedAllIsMerge ==
    ASSUME NEW list \in Seq(MergeValues), NEW lists \in Seq(Seq(Configured)),
           Len(lists) = Len(list), \A i \in 1 .. Len(list) : IsMergeOf(list[i], lists[i])
    PROVE  IsMergeOf(MergedAll(list), FlattenSeq(lists))
<1> DEFINE k == Len(list)
           first(n) == [i \in 1 .. n |-> lists[i]]
<1>1. k \in Nat /\ k = Len(lists)
  BY LenProperties
<1>2. PICK m : /\ MergedAll(list) = m[k] /\ m[0] = NoTarget
               /\ \A n \in 1 .. k : m[n] = Merged(m[n - 1], list[n])
  BY MergedAllSteps
<1> DEFINE T == {n \in 0 .. k : ~IsMergeOf(m[n], FlattenSeq(first(n)))}
<1>3. T = {}
  <2> SUFFICES ASSUME T # {} PROVE FALSE
    OBVIOUS
  <2>1. PICK n \in T : \A y \in T : n <= y
    <3>1. T \in SUBSET Nat
      BY <1>1
    <3> HIDE DEF T
    <3>2. QED BY <3>1, LeastNatural
  <2>2. n \in 0 .. k /\ ~IsMergeOf(m[n], FlattenSeq(first(n)))
    OBVIOUS
  <2>3. n # 0
    <3>1. first(0) = <<>>
      OBVIOUS
    <3>2. FlattenSeq(<<>>) = <<>>
      BY EmptySeq DEF FlattenSeq
    <3>3. IsMergeOf(m[0], FlattenSeq(first(0)))
      BY <1>2, <3>1, <3>2 DEF IsMergeOf
    <3>4. QED BY <2>2, <3>3
  <2>4. n \in 1 .. k /\ n - 1 \in 0 .. k
    BY <1>1, <2>2, <2>3
  <2>5. n - 1 \notin T
    <3> HIDE DEF T
    <3>1. n - 1 \in T => n <= n - 1
      BY <2>1
    <3>2. QED BY <1>1, <2>2, <3>1
  <2>6. IsMergeOf(m[n - 1], FlattenSeq(first(n - 1)))
    BY <2>4, <2>5
  <2>7. /\ first(n - 1) \in Seq(Seq(Configured)) /\ lists[n] \in Seq(Configured)
        /\ first(n) = Append(first(n - 1), lists[n])
    BY <1>1, <2>4, FirstOnes
  <2> DEFINE a == first(n - 1)
             x == lists[n]
  <2>8. FlattenSeq(first(n)) = FlattenSeq(a) \o x /\ FlattenSeq(a) \in Seq(Configured)
    <3>1. a \in Seq(Seq(Configured)) /\ x \in Seq(Configured) /\ first(n) = Append(a, x)
      BY <2>7
    <3> HIDE DEF a, x, first
    <3>2. QED BY <3>1, FlattenLast, FlattenPlaces
  <2>9. IsMergeOf(list[n], x)
    BY <2>4
  <2> HIDE DEF first, T, a
  <2>10. IsMergeOf(Merged(m[n - 1], list[n]), FlattenSeq(a) \o x)
    BY <2>6, <2>7, <2>8, <2>9, MergedIsMerge DEF a
  <2>11. QED BY <1>2, <2>2, <2>4, <2>8, <2>10
<1>4. k \in 0 .. k /\ first(k) = lists
  <2>1. lists = [i \in 1 .. Len(lists) |-> lists[i]]
    OBVIOUS
  <2>2. QED BY <1>1, <2>1
<1> HIDE DEF first
<1>5. IsMergeOf(m[k], FlattenSeq(first(k)))
  BY <1>3, <1>4
<1>6. QED BY <1>2, <1>4, <1>5

-----------------------------------------------------------------------------
(* A file and the files it is checked or read for.                          *)

Pairs == Present \X SUBSET Present

Deeper(p, q) == p[1] \notin p[2] /\ q[2] = p[2] \cup {p[1]}

Below == {pq \in Pairs \X Pairs : Deeper(pq[1], pq[2])}

LEMMA DiskFacts ==
    ASSUME cargo \in CargoTrees
    PROVE  /\ IsFiniteSet(Present) /\ NoConfiguration \notin Present
           /\ \A f \in Present :
                /\ Contents(f).includes \in Seq(ToSet(Contents(f).includes))
                /\ \A i \in DOMAIN Contents(f).includes :
                     Contents(f).includes[i].optional \in BOOLEAN /\ Contents(f).includes[i].toml \in BOOLEAN
                /\ Contents(f).target \in Configured \cup {NoTarget}
                /\ Contents(f).readable \in BOOLEAN
           /\ cargo.directories \in Seq(ToSet(cargo.directories))
BY DisksAssumption DEF IsDisk, Present, Contents

\* The files that are being checked become more with every include.
LEMMA PairsAreGrounded ==
    ASSUME cargo \in CargoTrees
    PROVE  IsFiniteSet(Pairs) /\ Grounded(Pairs, Below)
<1>1. IsFiniteSet(Present)
  BY DiskFacts
<1>2. IsFiniteSet(Pairs)
  BY <1>1, FS_SUBSET, FS_Product DEF Pairs
<1>3. ASSUME NEW R \in SUBSET Pairs, R # {} PROVE \E x \in R : \A y \in R : <<x, y>> \notin Below
  <2> DEFINE Rest(p) == Cardinality(Present \ p[2])
             Sizes == {Rest(p) : p \in R}
  <2>1. \A p \in R : p[1] \in Present /\ p[2] \in SUBSET Present
    BY DEF Pairs
  <2>2. \A p \in R : Rest(p) \in Nat /\ IsFiniteSet(Present \ p[2])
    BY <1>1, FS_Difference, FS_CardinalityType
  <2>3. Sizes \in SUBSET Nat /\ Sizes # {}
    <3> HIDE DEF Rest
    <3>1. QED BY <1>3, <2>2
  <2>4. PICK m \in Sizes : \A n \in Sizes : m <= n
    <3> HIDE DEF Sizes
    <3>1. QED BY <2>3, LeastNatural
  <2>5. PICK x \in R : m = Rest(x)
    <3> HIDE DEF Rest
    <3>1. QED OBVIOUS
  <2>6. ASSUME NEW y \in R, <<x, y>> \in Below PROVE FALSE
    <3>1. x[1] \notin x[2] /\ y[2] = x[2] \cup {x[1]} /\ x[1] \in Present
      BY <2>1, <2>6 DEF Below, Deeper
    <3> DEFINE rest == Present \ x[2]
    <3>2. Present \ y[2] = rest \ {x[1]} /\ x[1] \in rest /\ IsFiniteSet(rest)
      BY <2>2, <3>1
    <3> HIDE DEF rest
    <3>3. Cardinality(rest \ {x[1]}) = Cardinality(rest) - 1 /\ Cardinality(rest) \in Nat
      BY <3>2, FS_RemoveElement, FS_CardinalityType
    <3>4. Rest(y) = Rest(x) - 1 /\ Rest(x) \in Nat
      BY <3>2, <3>3 DEF rest
    <3>5. Rest(y) \in Sizes
      <4> HIDE DEF Rest
      <4>1. QED OBVIOUS
    <3>6. m <= Rest(y)
      <4> HIDE DEF Rest, Sizes
      <4>1. QED BY <2>4, <3>5
    <3> HIDE DEF Rest
    <3>7. QED BY <2>5, <3>4, <3>6
  <2>7. QED BY <2>6
<1>4. QED BY <1>2, <1>3 DEF Grounded

CheckBody(g, p) ==
    /\ p[1] \notin p[2]
    /\ Contents(p[1]).readable
    /\ \A i \in DOMAIN Contents(p[1]).includes :
        /\ Contents(p[1]).includes[i].toml
        /\ IF Exists(Contents(p[1]).includes[i].to)
           THEN g[<<Contents(p[1]).includes[i].to, p[2] \cup {p[1]}>>]
           ELSE Contents(p[1]).includes[i].optional

Checks(c) == c = [p \in Pairs |-> CheckBody(c, p)]

LEMMA ChecksExist ==
    ASSUME cargo \in CargoTrees
    PROVE  \E c : Checks(c)
<1> DEFINE D == Pairs
           V == BOOLEAN
           F == [gp \in [D -> V] \X D |-> CheckBody(gp[1], gp[2])]
<1>1. IsFiniteSet(D) /\ Grounded(D, Below)
  BY PairsAreGrounded
<1>2. \A g, p : CheckBody(g, p) \in BOOLEAN
  BY DEF CheckBody
<1>3. ASSUME NEW g \in [D -> V], NEW p \in D PROVE F[<<g, p>>] = CheckBody(g, p)
  <2>1. <<g, p>> \in [D -> V] \X D
    OBVIOUS
  <2> HIDE DEF D, V
  <2>2. QED BY <2>1
<1>4. F \in [[D -> V] \X D -> V]
  BY <1>2
<1>5. ASSUME NEW g \in [D -> V], NEW h \in [D -> V], NEW p \in D,
             \A q \in D : <<p, q>> \in Below => g[q] = h[q]
      PROVE  CheckBody(g, p) = CheckBody(h, p)
  <2>1. CASE p[1] \in p[2]
    BY <2>1 DEF CheckBody
  <2>2. CASE p[1] \notin p[2]
    <3>1. ASSUME NEW i \in DOMAIN Contents(p[1]).includes, Exists(Contents(p[1]).includes[i].to)
          PROVE  g[<<Contents(p[1]).includes[i].to, p[2] \cup {p[1]}>>]
                 = h[<<Contents(p[1]).includes[i].to, p[2] \cup {p[1]}>>]
      <4> DEFINE q == <<Contents(p[1]).includes[i].to, p[2] \cup {p[1]}>>
      <4>1. q \in D /\ <<p, q>> \in Below
        BY <2>2, <3>1 DEF Pairs, Below, Deeper, Exists
      <4>2. QED BY <1>5, <4>1
    <3>2. QED BY <3>1 DEF CheckBody
  <2>3. QED BY <2>1, <2>2
<1>6. Determined(D, V, Below, F)
  <2>1. \A g, h \in [D -> V] : \A p \in D :
           (\A q \in D : <<p, q>> \in Below => g[q] = h[q]) => F[<<g, p>>] = F[<<h, p>>]
    <3> HIDE DEF D, V, F
    <3>1. QED BY <1>3, <1>5
  <2> HIDE DEF D, V, F
  <2>2. QED BY <1>4, <2>1 DEF Determined
<1>7. V # {}
  OBVIOUS
<1> HIDE DEF D, V, F
<1>8. \E c : SolutionOf(D, V, F, c)
  BY <1>1, <1>6, <1>7, RecursionExists
<1>p. PICK c \in [D -> V] : \A p \in D : c[p] = F[<<c, p>>]
  BY <1>8 DEF SolutionOf
<1>9. c = [p \in D |-> CheckBody(c, p)]
  BY <1>3, <1>p
<1>10. QED BY <1>9 DEF Checks, D

\* What the check says of a file is what it says of its includes.
LEMMA CheckedFollows ==
    ASSUME cargo \in CargoTrees, NEW f \in Present, NEW A \in SUBSET Present
    PROVE  /\ Checked(f, A) \in BOOLEAN
           /\ Checked(f, A) <=>
                /\ f \notin A /\ Contents(f).readable
                /\ \A i \in DOMAIN Contents(f).includes :
                    /\ Contents(f).includes[i].toml
                    /\ IF Exists(Contents(f).includes[i].to)
                       THEN Checked(Contents(f).includes[i].to, A \cup {f})
                       ELSE Contents(f).includes[i].optional
<1> DEFINE c == CHOOSE g : Checks(g)
<1>1. Checks(c)
  BY ChecksExist
<1>2. \A g, B : Checked(g, B) <=> Exists(g) /\ c[<<g, B>>]
  BY DEF Checked, Checks, CheckBody, Pairs
<1> HIDE DEF c
<1>3. \A p \in Pairs : c[p] = CheckBody(c, p)
  BY <1>1, Zenon DEF Checks
<1>4. <<f, A>> \in Pairs /\ Exists(f)
  BY DEF Pairs, Exists
<1>5. c[<<f, A>>] = CheckBody(c, <<f, A>>)
  BY <1>3, <1>4
<1>6. Checked(f, A) <=> CheckBody(c, <<f, A>>)
  BY <1>2, <1>4, <1>5
<1>7. \A i \in DOMAIN Contents(f).includes :
        Exists(Contents(f).includes[i].to) =>
          (Checked(Contents(f).includes[i].to, A \cup {f}) <=> c[<<Contents(f).includes[i].to, A \cup {f}>>])
  BY <1>2
<1>8. CheckBody(c, <<f, A>>) <=>
        /\ f \notin A /\ Contents(f).readable
        /\ \A i \in DOMAIN Contents(f).includes :
            /\ Contents(f).includes[i].toml
            /\ IF Exists(Contents(f).includes[i].to)
               THEN c[<<Contents(f).includes[i].to, A \cup {f}>>]
               ELSE Contents(f).includes[i].optional
  <2> DEFINE p == <<f, A>>
  <2>1. p[1] = f /\ p[2] = A
    OBVIOUS
  <2> HIDE DEF p
  <2>2. QED BY <2>1 DEF CheckBody, p
<1>9. Checked(f, A) \in BOOLEAN
  BY DEF Checked
<1>10. QED BY <1>6, <1>7, <1>8, <1>9

IncludedBy(g, p) ==
    [i \in 1 .. Len(Contents(p[1]).includes) |->
        IF ~Contents(p[1]).includes[i].toml \/ ~Exists(Contents(p[1]).includes[i].to) THEN NoTarget
        ELSE g[<<Contents(p[1]).includes[i].to, p[2] \cup {p[1]}>>]]

ReadBody(g, p) ==
    IF p[1] \in p[2] \/ ~Contents(p[1]).readable THEN Refused
    ELSE Merged(MergedAll(IncludedBy(g, p)), Contents(p[1]).target)

Reads(c) == c = [p \in Pairs |-> ReadBody(c, p)]

LEMMA IncludedType ==
    ASSUME cargo \in CargoTrees, NEW g \in [Pairs -> MergeValues], NEW p \in Pairs, p[1] \notin p[2]
    PROVE  IncludedBy(g, p) \in Seq(MergeValues)
<1>1. Contents(p[1]).includes \in Seq(ToSet(Contents(p[1]).includes))
  BY DiskFacts DEF Pairs
<1> DEFINE n == Len(Contents(p[1]).includes)
           list == IncludedBy(g, p)
<1>2. n \in Nat
  BY <1>1, LenProperties
<1>3. ASSUME NEW i \in 1 .. n PROVE list[i] \in MergeValues
  <2>1. list[i] = IF ~Contents(p[1]).includes[i].toml \/ ~Exists(Contents(p[1]).includes[i].to)
                  THEN NoTarget
                  ELSE g[<<Contents(p[1]).includes[i].to, p[2] \cup {p[1]}>>]
    BY DEF IncludedBy
  <2>2. Exists(Contents(p[1]).includes[i].to)
        => <<Contents(p[1]).includes[i].to, p[2] \cup {p[1]}>> \in Pairs
    BY DEF Pairs, Exists
  <2>3. NoTarget \in MergeValues
    BY DEF MergeValues
  <2> HIDE DEF list
  <2>4. QED BY <2>1, <2>2, <2>3
<1>4. list = [i \in 1 .. n |-> list[i]]
  BY DEF IncludedBy
<1> HIDE DEF list, n
<1>5. list \in [1 .. n -> MergeValues]
  BY <1>3, <1>4
<1>6. QED BY <1>2, <1>5, SeqDef DEF list

LEMMA ReadsExist ==
    ASSUME cargo \in CargoTrees
    PROVE  \E c : Reads(c)
<1> DEFINE D == Pairs
           V == MergeValues
           F == [gp \in [D -> V] \X D |-> ReadBody(gp[1], gp[2])]
<1>1. IsFiniteSet(D) /\ Grounded(D, Below)
  BY PairsAreGrounded
<1>2. ASSUME NEW g \in [D -> V], NEW p \in D PROVE ReadBody(g, p) \in V
  <2>1. Refused \in V
    BY DEF Refused, MergeValues
  <2>2. CASE p[1] \in p[2]
    BY <2>1, <2>2 DEF ReadBody
  <2>3. CASE p[1] \notin p[2]
    <3>1. MergedAll(IncludedBy(g, p)) \in MergeValues
      BY <2>3, IncludedType, MergedAllType
    <3>2. Contents(p[1]).target \in MergeValues
      BY DiskFacts, ConfiguredFacts DEF Pairs, MergeValues
    <3>3. QED BY <2>1, <3>1, <3>2, MergedType DEF ReadBody
  <2>4. QED BY <2>2, <2>3
<1>3. ASSUME NEW g \in [D -> V], NEW p \in D PROVE F[<<g, p>>] = ReadBody(g, p)
  <2>1. <<g, p>> \in [D -> V] \X D
    OBVIOUS
  <2> HIDE DEF D, V
  <2>2. QED BY <2>1
<1>4. F \in [[D -> V] \X D -> V]
  <2>1. ASSUME NEW gp \in [D -> V] \X D PROVE ReadBody(gp[1], gp[2]) \in V
    BY <1>2
  <2> HIDE DEF V, D
  <2>2. QED BY <2>1
<1>5. ASSUME NEW g \in [D -> V], NEW h \in [D -> V], NEW p \in D,
             \A q \in D : <<p, q>> \in Below => g[q] = h[q]
      PROVE  ReadBody(g, p) = ReadBody(h, p)
  <2>1. CASE p[1] \in p[2]
    BY <2>1 DEF ReadBody
  <2>2. CASE p[1] \notin p[2]
    <3>1. ASSUME NEW i \in 1 .. Len(Contents(p[1]).includes), Exists(Contents(p[1]).includes[i].to)
          PROVE  g[<<Contents(p[1]).includes[i].to, p[2] \cup {p[1]}>>]
                 = h[<<Contents(p[1]).includes[i].to, p[2] \cup {p[1]}>>]
      <4> DEFINE q == <<Contents(p[1]).includes[i].to, p[2] \cup {p[1]}>>
      <4>1. q \in D /\ <<p, q>> \in Below
        BY <2>2, <3>1 DEF Pairs, Below, Deeper, Exists
      <4>2. QED BY <1>5, <4>1
    <3>2. IncludedBy(g, p) = IncludedBy(h, p)
      BY <3>1 DEF IncludedBy
    <3>3. QED BY <3>2 DEF ReadBody
  <2>3. QED BY <2>1, <2>2
<1>6. Determined(D, V, Below, F)
  <2>1. \A g, h \in [D -> V] : \A p \in D :
           (\A q \in D : <<p, q>> \in Below => g[q] = h[q]) => F[<<g, p>>] = F[<<h, p>>]
    <3> HIDE DEF D, V, F
    <3>1. QED BY <1>3, <1>5
  <2> HIDE DEF D, V, F
  <2>2. QED BY <1>4, <2>1 DEF Determined
<1>7. V # {}
  BY DEF MergeValues
<1> HIDE DEF D, V, F
<1>8. \E c : SolutionOf(D, V, F, c)
  BY <1>1, <1>6, <1>7, RecursionExists
<1>9. PICK c \in [D -> V] : \A p \in D : c[p] = F[<<c, p>>]
  BY <1>8 DEF SolutionOf
<1>10. c = [p \in D |-> ReadBody(c, p)]
  BY <1>3, <1>9
<1>11. QED BY <1>10 DEF Reads, D

\* What a file comes to is what its includes come to and its own target.
LEMMA ReadFollows ==
    ASSUME cargo \in CargoTrees, NEW f \in Present, NEW A \in SUBSET Present
    PROVE  ReadTarget(f, A) =
             IF f \in A \/ ~Contents(f).readable THEN Refused
             ELSE Merged(MergedAll([i \in 1 .. Len(Contents(f).includes) |->
                             IF ~Contents(f).includes[i].toml \/ ~Exists(Contents(f).includes[i].to)
                             THEN NoTarget
                             ELSE ReadTarget(Contents(f).includes[i].to, A \cup {f})]),
                         Contents(f).target)
<1> DEFINE c == CHOOSE g : Reads(g)
           p == <<f, A>>
           list == [i \in 1 .. Len(Contents(f).includes) |->
                       IF ~Contents(f).includes[i].toml \/ ~Exists(Contents(f).includes[i].to)
                       THEN NoTarget
                       ELSE ReadTarget(Contents(f).includes[i].to, A \cup {f})]
<1>1. Reads(c)
  BY ReadsExist
<1>2. \A g, B : ReadTarget(g, B) = IF Exists(g) THEN c[<<g, B>>] ELSE NoTarget
  BY DEF ReadTarget, Reads, ReadBody, IncludedBy, Pairs
<1> HIDE DEF c
<1>3. \A q \in Pairs : c[q] = ReadBody(c, q)
  BY <1>1, Zenon DEF Reads
<1>4. p \in Pairs /\ Exists(f) /\ p[1] = f /\ p[2] = A
  BY DEF Pairs, Exists
<1>5. ReadTarget(f, A) = ReadBody(c, p)
  BY <1>2, <1>3, <1>4
<1>6. IncludedBy(c, p) = list
  <2> HIDE DEF p
  <2>1. \A i \in 1 .. Len(Contents(f).includes) :
           Exists(Contents(f).includes[i].to) =>
             ReadTarget(Contents(f).includes[i].to, A \cup {f}) = c[<<Contents(f).includes[i].to, A \cup {f}>>]
    BY <1>2
  <2>2. QED BY <1>4, <2>1 DEF IncludedBy
<1> HIDE DEF p, list
<1>7. ReadBody(c, p) = IF f \in A \/ ~Contents(f).readable THEN Refused
                       ELSE Merged(MergedAll(list), Contents(f).target)
  BY <1>4, <1>6 DEF ReadBody
<1>8. QED BY <1>5, <1>7 DEF list

-----------------------------------------------------------------------------
(* What the configurations reach.                                           *)

Read == Reached \cap Present

Links == {fg \in Read \X Read : fg[2] \in IncludesOf(fg[1])}

LEMMA IncludesAreNamed ==
    ASSUME cargo \in CargoTrees, NEW f \in Present
    PROVE  /\ IncludesOf(f) = {Contents(f).includes[i].to : i \in DOMAIN Contents(f).includes}
           /\ DOMAIN Contents(f).includes = 1 .. Len(Contents(f).includes)
           /\ Len(Contents(f).includes) \in Nat
<1>1. Contents(f).includes \in Seq(ToSet(Contents(f).includes))
  BY DiskFacts
<1>2. DOMAIN Contents(f).includes = 1 .. Len(Contents(f).includes) /\ Len(Contents(f).includes) \in Nat
  BY <1>1
<1>3. QED BY <1>2 DEF IncludesOf, Exists, ToSet

LEMMA ReachedHolds ==
    ASSUME cargo \in CargoTrees
    PROVE  /\ Roots \subseteq Reached
           /\ \A f \in Reached : IncludesOf(f) \subseteq Reached
           /\ \A files \in SUBSET Mentioned :
                Roots \subseteq files /\ (\A f \in files : IncludesOf(f) \subseteq files) => Reached \subseteq files
<1>1. \A f \in Mentioned : IncludesOf(f) \subseteq Mentioned
  BY DEF IncludesOf, Mentioned, Exists
<1>2. Roots \subseteq Mentioned
  BY DEF Mentioned
<1>3. \A f : f \in Reached <=>
        /\ f \in Mentioned
        /\ \A files \in SUBSET Mentioned :
             Roots \subseteq files /\ (\A g \in files : IncludesOf(g) \subseteq files) => f \in files
  BY DEF Reached
<1>4. Roots \subseteq Reached
  BY <1>2, <1>3
<1>5. ASSUME NEW f \in Reached, NEW g \in IncludesOf(f) PROVE g \in Reached
  <2>1. g \in Mentioned
    BY <1>1, <1>3
  <2>2. ASSUME NEW files \in SUBSET Mentioned, Roots \subseteq files,
               \A h \in files : IncludesOf(h) \subseteq files
        PROVE  g \in files
    <3>1. f \in files
      BY <1>3, <2>2
    <3>2. QED BY <2>2, <3>1
  <2>3. QED BY <1>3, <2>1, <2>2
<1>6. ASSUME NEW files \in SUBSET Mentioned, Roots \subseteq files,
             \A f \in files : IncludesOf(f) \subseteq files
      PROVE  Reached \subseteq files
  BY <1>3, <1>6
<1>7. QED BY <1>4, <1>5, <1>6

LEMMA UsableFacts ==
    ASSUME cargo \in CargoTrees, ~Unusable
    PROVE  /\ Roots \subseteq Read
           /\ \A files \in SUBSET Reached : ~GoesRound(files)
           /\ \A f \in Read :
                /\ Contents(f).readable
                /\ \A i \in DOMAIN Contents(f).includes :
                     /\ Contents(f).includes[i].toml
                     /\ Contents(f).includes[i].optional \/ Exists(Contents(f).includes[i].to)
                     /\ Exists(Contents(f).includes[i].to) => Contents(f).includes[i].to \in Read
<1>1. Roots \subseteq Read
  BY ReachedHolds DEF Unusable, Read
<1>2. \A files \in SUBSET Reached : ~GoesRound(files)
  BY DEF Unusable
<1>3. ASSUME NEW f \in Read
      PROVE  /\ Contents(f).readable
             /\ \A i \in DOMAIN Contents(f).includes :
                  /\ Contents(f).includes[i].toml
                  /\ Contents(f).includes[i].optional \/ Exists(Contents(f).includes[i].to)
  BY DEF Unusable, Read
<1>4. ASSUME NEW f \in Read, NEW i \in DOMAIN Contents(f).includes, Exists(Contents(f).includes[i].to)
      PROVE  Contents(f).includes[i].to \in Read
  <2>1. Contents(f).includes[i].to \in IncludesOf(f)
    BY IncludesAreNamed DEF Read
  <2>2. IncludesOf(f) \subseteq Reached
    BY ReachedHolds DEF Read
  <2>3. QED BY <1>4, <2>1, <2>2 DEF Exists, Read
<1>5. QED BY <1>1, <1>2, <1>3, <1>4

\* What is read goes round nowhere: of every set of files one includes no
\* other of the set.
LEMMA ReadIsGrounded ==
    ASSUME cargo \in CargoTrees, ~Unusable
    PROVE  /\ IsFiniteSet(Read)
           /\ \A R \in SUBSET Read : R # {} => \E f \in R : IncludesOf(f) \cap R = {}
           /\ Grounded(Read, Links)
<1>1. IsFiniteSet(Read)
  BY DiskFacts, FS_Subset DEF Read
<1>2. ASSUME NEW R \in SUBSET Read, R # {} PROVE \E f \in R : IncludesOf(f) \cap R = {}
  BY <1>2, UsableFacts DEF Read, GoesRound
<1>3. Grounded(Read, Links)
  BY <1>2 DEF Grounded, Links
<1>4. QED BY <1>1, <1>2, <1>3

Own(f) == IF Contents(f).target = NoTarget THEN <<>> ELSE <<Contents(f).target>>

LEMMA OwnIsMerge ==
    ASSUME cargo \in CargoTrees, NEW f \in Present
    PROVE  Own(f) \in Seq(Configured) /\ IsMergeOf(Contents(f).target, Own(f))
<1> DEFINE t == Contents(f).target
<1>1. t \in Configured \cup {NoTarget}
  BY DiskFacts
<1> HIDE DEF t
<1>2. CASE t = NoTarget
  BY <1>2 DEF Own, IsMergeOf, t
<1>3. CASE t # NoTarget
  <2>1. t \in Configured /\ t.many \in BOOLEAN /\ t.of \in Seq(Triples) /\ Own(f) = <<t>>
    BY <1>1, <1>3, ConfiguredFacts DEF Own, t
  <2>2. <<t>> \in Seq(Configured) /\ <<t>> # <<>> /\ Len(<<t>>) = 1 /\ <<t>>[1] = t
    BY <2>1
  <2>3. CASE t.many = FALSE
    <3>1. IsMergeOf(t, <<t>>)
      BY <2>2, <2>3 DEF IsMergeOf
    <3>2. QED BY <2>1, <2>2, <3>1 DEF t
  <2>4. CASE t.many = TRUE
    <3>1. AllOf(<<t>>) = t.of
      <4>1. [i \in 1 .. Len(<<t>>) |-> <<t>>[i].of] = Append(<<>>, t.of)
        OBVIOUS
      <4>2. <<>> \in Seq(Seq(Triples)) /\ FlattenSeq(<<>>) = <<>>
        BY EmptySeq DEF FlattenSeq
      <4>3. FlattenSeq(Append(<<>>, t.of)) = <<>> \o t.of
        BY <2>1, <4>2, FlattenLast
      <4>4. <<>> \o t.of = t.of
        BY <2>1, ConcatEmptySeq
      <4>5. QED BY <4>1, <4>3, <4>4 DEF AllOf
    <3>2. t = [many |-> TRUE, of |-> t.of]
      BY <2>1, <2>4, ConfiguredFacts
    <3>3. IsMergeOf(t, <<t>>)
      BY <2>2, <2>4, <3>1, <3>2 DEF IsMergeOf
    <3>4. QED BY <2>1, <2>2, <3>3 DEF t
  <2>5. QED BY <2>1, <2>3, <2>4
<1>4. QED BY <1>2, <1>3

IncludedValues(g, f) ==
    [i \in 1 .. Len(Contents(f).includes) |->
        IF Exists(Contents(f).includes[i].to) THEN g[Contents(f).includes[i].to] ELSE <<>>]

ValuesBody(g, f) == FlattenSeq(IncludedValues(g, f)) \o Own(f)

Says(v) == v = [f \in Read |-> ValuesBody(v, f)]

LEMMA IncludedValuesType ==
    ASSUME cargo \in CargoTrees, ~Unusable, NEW f \in Read, NEW g,
           \A h \in Read \cap IncludesOf(f) : g[h] \in Seq(Configured)
    PROVE  /\ IncludedValues(g, f) \in Seq(Seq(Configured))
           /\ Len(IncludedValues(g, f)) = Len(Contents(f).includes)
           /\ ValuesBody(g, f) \in Seq(Configured)
<1> DEFINE list == IncludedValues(g, f)
           n == Len(Contents(f).includes)
<1>1. /\ f \in Present /\ n \in Nat /\ DOMAIN Contents(f).includes = 1 .. n
      /\ IncludesOf(f) = {Contents(f).includes[i].to : i \in DOMAIN Contents(f).includes}
  BY IncludesAreNamed DEF Read
<1>2. ASSUME NEW i \in 1 .. n PROVE list[i] \in Seq(Configured)
  <2>1. CASE Exists(Contents(f).includes[i].to)
    <3>1. Contents(f).includes[i].to \in Read \cap IncludesOf(f)
      BY <1>1, <2>1, UsableFacts
    <3>2. QED BY <2>1, <3>1 DEF IncludedValues
  <2>2. CASE ~Exists(Contents(f).includes[i].to)
    BY <2>2 DEF IncludedValues
  <2>3. QED BY <2>1, <2>2
<1>3. list \in Seq(Seq(Configured)) /\ Len(list) = n
  <2>1. list = [i \in 1 .. n |-> list[i]]
    BY DEF IncludedValues
  <2> HIDE DEF list, n
  <2>2. QED BY <1>1, <1>2, <2>1
<1>4. ValuesBody(g, f) \in Seq(Configured)
  <2> DEFINE a == FlattenSeq(list)
             b == Own(f)
  <2>1. a \in Seq(Configured) /\ b \in Seq(Configured)
    <3>1. b \in Seq(Configured)
      BY <1>1, OwnIsMerge
    <3> HIDE DEF list
    <3>2. QED BY <1>3, <3>1, FlattenPlaces
  <2>2. ValuesBody(g, f) = a \o b
    BY DEF ValuesBody
  <2> HIDE DEF a, b
  <2>3. QED BY <2>1, <2>2, ConcatProperties
<1>5. QED BY <1>3, <1>4

LEMMA SaysExist ==
    ASSUME cargo \in CargoTrees, ~Unusable
    PROVE  \E v : Says(v)
<1> DEFINE D == Read
           V == Seq(Configured)
           F == [gf \in [D -> V] \X D |-> ValuesBody(gf[1], gf[2])]
<1>1. IsFiniteSet(D) /\ Grounded(D, Links)
  BY ReadIsGrounded
<1>2. ASSUME NEW g \in [D -> V], NEW f \in D PROVE ValuesBody(g, f) \in V
  <2>1. \A h \in Read \cap IncludesOf(f) : g[h] \in Seq(Configured)
    OBVIOUS
  <2>2. QED BY <2>1, IncludedValuesType
<1>3. ASSUME NEW g \in [D -> V], NEW f \in D PROVE F[<<g, f>>] = ValuesBody(g, f)
  <2>1. <<g, f>> \in [D -> V] \X D
    OBVIOUS
  <2> HIDE DEF D, V
  <2>2. QED BY <2>1
<1>4. F \in [[D -> V] \X D -> V]
  <2>1. ASSUME NEW gf \in [D -> V] \X D PROVE ValuesBody(gf[1], gf[2]) \in V
    BY <1>2
  <2> HIDE DEF V, D
  <2>2. QED BY <2>1
<1>5. ASSUME NEW g \in [D -> V], NEW h \in [D -> V], NEW f \in D,
             \A q \in D : <<f, q>> \in Links => g[q] = h[q]
      PROVE  ValuesBody(g, f) = ValuesBody(h, f)
  <2>1. ASSUME NEW i \in 1 .. Len(Contents(f).includes), Exists(Contents(f).includes[i].to)
        PROVE  g[Contents(f).includes[i].to] = h[Contents(f).includes[i].to]
    <3>1. /\ i \in DOMAIN Contents(f).includes
          /\ Contents(f).includes[i].to \in IncludesOf(f)
      BY IncludesAreNamed DEF Read
    <3>2. Contents(f).includes[i].to \in Read
      BY <2>1, <3>1, UsableFacts
    <3>3. <<f, Contents(f).includes[i].to>> \in Links
      BY <3>1, <3>2 DEF Links
    <3>4. QED BY <1>5, <3>2, <3>3
  <2>2. IncludedValues(g, f) = IncludedValues(h, f)
    BY <2>1 DEF IncludedValues
  <2>3. QED BY <2>2 DEF ValuesBody
<1>6. Determined(D, V, Links, F)
  <2>1. \A g, h \in [D -> V] : \A p \in D :
           (\A q \in D : <<p, q>> \in Links => g[q] = h[q]) => F[<<g, p>>] = F[<<h, p>>]
    <3> HIDE DEF D, V, F
    <3>1. QED BY <1>3, <1>5
  <2> HIDE DEF D, V, F
  <2>2. QED BY <1>4, <2>1 DEF Determined
<1>7. V # {}
  <2>1. <<>> \in V
    OBVIOUS
  <2>2. QED BY <2>1
<1> HIDE DEF D, V, F
<1>8. \E c : SolutionOf(D, V, F, c)
  BY <1>1, <1>6, <1>7, RecursionExists
<1>9. PICK c \in [D -> V] : \A p \in D : c[p] = F[<<c, p>>]
  BY <1>8 DEF SolutionOf
<1>10. c = [p \in D |-> ValuesBody(c, p)]
  BY <1>3, <1>9
<1>11. QED BY <1>10 DEF Says, D

LEMMA ValuesFollow ==
    ASSUME cargo \in CargoTrees, ~Unusable
    PROVE  /\ \A f : ~Exists(f) => ValuesOf(f) = <<>>
           /\ \A f \in Read :
                /\ ValuesOf(f) \in Seq(Configured)
                /\ ValuesOf(f) = FlattenSeq([i \in 1 .. Len(Contents(f).includes) |->
                                                ValuesOf(Contents(f).includes[i].to)]) \o Own(f)
<1> DEFINE v == CHOOSE g : Says(g)
<1>1. Says(v)
  BY SaysExist
<1>2. \A f : ValuesOf(f) = IF Exists(f) THEN v[f] ELSE <<>>
  BY DEF ValuesOf, Says, ValuesBody, IncludedValues, Own, Read
<1> HIDE DEF v
<1>3. \A f \in Read : v[f] = ValuesBody(v, f)
  BY <1>1, Zenon DEF Says
<1>4. \A f \in Read : v[f] \in Seq(Configured)
  <2> DEFINE R == {f \in Read : v[f] \notin Seq(Configured)}
  <2> SUFFICES ASSUME R # {} PROVE FALSE
    OBVIOUS
  <2>1. PICK f \in R : IncludesOf(f) \cap R = {}
    BY ReadIsGrounded
  <2>2. f \in Read /\ \A h \in Read \cap IncludesOf(f) : v[h] \in Seq(Configured)
    BY <2>1
  <2>3. ValuesBody(v, f) \in Seq(Configured)
    BY <2>2, IncludedValuesType
  <2>4. QED BY <1>3, <2>2, <2>3
<1>5. ASSUME NEW f \in Read
      PROVE  ValuesOf(f) = FlattenSeq([i \in 1 .. Len(Contents(f).includes) |->
                                         ValuesOf(Contents(f).includes[i].to)]) \o Own(f)
  <2>1. IncludedValues(v, f) = [i \in 1 .. Len(Contents(f).includes) |-> ValuesOf(Contents(f).includes[i].to)]
    BY <1>2 DEF IncludedValues
  <2>2. Exists(f)
    BY DEF Read, Exists
  <2>3. QED BY <1>2, <1>3, <2>1, <2>2 DEF ValuesBody
<1>6. \A f \in Read : Exists(f)
  BY DEF Read, Exists
<1>7. QED BY <1>2, <1>4, <1>5, <1>6

-----------------------------------------------------------------------------
(* The check and the reading, from the files they begin with.               *)

\* Each of the files A on the way to f includes the next of them, or f.
OnTheWay(A, f) == A \subseteq Read /\ \A a \in A : IncludesOf(a) \cap (A \cup {f}) # {}

LEMMA WaysGoOn ==
    ASSUME cargo \in CargoTrees, ~Unusable, NEW f \in Read, NEW A, OnTheWay(A, f)
    PROVE  /\ f \notin A /\ A \in SUBSET Present
           /\ \A i \in DOMAIN Contents(f).includes : OnTheWay(A \cup {f}, Contents(f).includes[i].to)
<1>1. f \notin A
  <2> SUFFICES ASSUME f \in A PROVE FALSE
    OBVIOUS
  <2>1. A \cup {f} = A /\ A # {} /\ A \in SUBSET Reached
    BY DEF OnTheWay, Read
  <2>2. GoesRound(A)
    BY <2>1 DEF GoesRound, OnTheWay
  <2>3. QED BY <2>1, <2>2, UsableFacts
<1>2. ASSUME NEW i \in DOMAIN Contents(f).includes PROVE OnTheWay(A \cup {f}, Contents(f).includes[i].to)
  <2>1. Contents(f).includes[i].to \in IncludesOf(f)
    BY IncludesAreNamed DEF Read
  <2>2. QED BY <2>1 DEF OnTheWay
<1>3. QED BY <1>1, <1>2 DEF OnTheWay, Read

LEMMA UsableIsChecked ==
    ASSUME cargo \in CargoTrees, ~Unusable
    PROVE  \A f \in Read : \A A : OnTheWay(A, f) => Checked(f, A)
<1> DEFINE R == {f \in Read : \E A : OnTheWay(A, f) /\ ~Checked(f, A)}
<1> SUFFICES ASSUME R # {} PROVE FALSE
  OBVIOUS
<1>1. PICK f \in R : IncludesOf(f) \cap R = {}
  BY ReadIsGrounded
<1>2. f \in Read /\ f \in Present
  BY DEF Read
<1>3. PICK A : OnTheWay(A, f) /\ ~Checked(f, A)
  OBVIOUS
<1>4. /\ f \notin A /\ A \in SUBSET Present
      /\ \A i \in DOMAIN Contents(f).includes : OnTheWay(A \cup {f}, Contents(f).includes[i].to)
  BY <1>2, <1>3, WaysGoOn
<1>5. ASSUME NEW i \in DOMAIN Contents(f).includes, Exists(Contents(f).includes[i].to)
      PROVE  Checked(Contents(f).includes[i].to, A \cup {f})
  <2>1. Contents(f).includes[i].to \in Read
    BY <1>2, <1>5, UsableFacts
  <2>2. Contents(f).includes[i].to \in IncludesOf(f)
    BY <1>2, IncludesAreNamed
  <2>3. Contents(f).includes[i].to \notin R
    BY <1>1, <2>2
  <2>4. QED BY <1>4, <2>1, <2>3
<1>6. /\ Contents(f).readable
      /\ \A i \in DOMAIN Contents(f).includes :
           Contents(f).includes[i].toml /\ (Contents(f).includes[i].optional \/ Exists(Contents(f).includes[i].to))
  BY <1>2, UsableFacts
<1> HIDE DEF R
<1>7. Checked(f, A)
  BY <1>2, <1>4, <1>5, <1>6, CheckedFollows
<1>8. QED BY <1>3, <1>7

\* Where every configuration was checked, what they reach can be used.
LEMMA CheckedIsUsable ==
    ASSUME cargo \in CargoTrees, \A r \in Roots : Checked(r, {})
    PROVE  ~Unusable
<1> DEFINE good == {f \in Present : \E A \in SUBSET Present : Checked(f, A)}
           files == good \cup (Mentioned \ Present)
<1>1. \A r \in Roots : r \in good
  <2>1. \A r \in Roots : Exists(r)
    BY DEF Checked
  <2>2. QED BY <2>1 DEF Exists
<1>2. ASSUME NEW f \in good
      PROVE  /\ Contents(f).readable
             /\ \A i \in DOMAIN Contents(f).includes :
                  /\ Contents(f).includes[i].toml
                  /\ IF Exists(Contents(f).includes[i].to) THEN Contents(f).includes[i].to \in good
                     ELSE Contents(f).includes[i].optional
  <2>1. PICK A \in SUBSET Present : Checked(f, A)
    OBVIOUS
  <2>2. f \in Present /\ A \cup {f} \in SUBSET Present
    OBVIOUS
  <2>3. /\ Contents(f).readable
        /\ \A i \in DOMAIN Contents(f).includes :
             /\ Contents(f).includes[i].toml
             /\ IF Exists(Contents(f).includes[i].to) THEN Checked(Contents(f).includes[i].to, A \cup {f})
                ELSE Contents(f).includes[i].optional
    <3> HIDE DEF good
    <3>1. QED BY <2>1, <2>2, CheckedFollows
  <2>4. ASSUME NEW i \in DOMAIN Contents(f).includes, Exists(Contents(f).includes[i].to)
        PROVE  Contents(f).includes[i].to \in good
    BY <2>2, <2>3, <2>4 DEF Exists
  <2> HIDE DEF good
  <2>5. QED BY <2>3, <2>4
<1>3. files \in SUBSET Mentioned /\ Roots \subseteq files
  <2>1. good \subseteq Mentioned
    BY DEF Mentioned
  <2> HIDE DEF good
  <2>2. QED BY <1>1, <2>1
<1>4. ASSUME NEW f \in files PROVE IncludesOf(f) \subseteq files
  <2>1. CASE f \in good
    <3>1. f \in Present
      BY <2>1
    <3> HIDE DEF good
    <3>2. ASSUME NEW g \in IncludesOf(f) PROVE g \in files
      <4>1. PICK i \in DOMAIN Contents(f).includes : g = Contents(f).includes[i].to
        BY <3>1, IncludesAreNamed
      <4>2. g \in Mentioned
        BY <3>1 DEF Mentioned
      <4>3. CASE Exists(g)
        BY <1>2, <2>1, <4>1, <4>3
      <4>4. CASE ~Exists(g)
        BY <4>2, <4>4 DEF Exists
      <4>5. QED BY <4>3, <4>4
    <3>3. QED BY <3>2
  <2>2. CASE f \notin Present
    BY <2>2 DEF IncludesOf, Exists
  <2>3. QED BY <2>1, <2>2
<1>5. Reached \subseteq files
  <2> HIDE DEF files
  <2>1. QED BY <1>3, <1>4, ReachedHolds
<1>6. Reached \cap Present \subseteq good
  BY <1>5
<1>7. ASSUME NEW R \in SUBSET Reached, GoesRound(R) PROVE FALSE
  <2>1. R # {} /\ \A f \in R : IncludesOf(f) \cap R # {}
    BY <1>7 DEF GoesRound
  <2>2. R \subseteq good
    <3>1. \A f \in R : f \in Present
      BY <2>1 DEF IncludesOf, Exists
    <3> HIDE DEF good
    <3>2. QED BY <1>6, <3>1
  <2> DEFINE P == {p \in Pairs : p[1] \in R /\ Checked(p[1], p[2])}
  <2>3. P \in SUBSET Pairs /\ P # {}
    <3>1. PICK f \in R : TRUE
      BY <2>1
    <3>2. PICK A \in SUBSET Present : f \in Present /\ Checked(f, A)
      BY <2>2
    <3>3. <<f, A>> \in P
      BY <3>2 DEF Pairs
    <3>4. QED BY <3>3
  <2>4. PICK p \in P : \A q \in P : <<p, q>> \notin Below
    <3> HIDE DEF P
    <3>1. QED BY <2>3, PairsAreGrounded DEF Grounded
  <2>5. PICK f \in Present, A \in SUBSET Present : p = <<f, A>> /\ f \in R /\ Checked(f, A)
    BY DEF Pairs
  <2>6. PICK g \in R : g \in IncludesOf(f)
    BY <2>1, <2>5
  <2>7. PICK i \in DOMAIN Contents(f).includes : g = Contents(f).includes[i].to
    BY <2>6, IncludesAreNamed
  <2>8. Exists(g)
    BY <2>2 DEF Exists
  <2>9. f \notin A /\ Checked(g, A \cup {f})
    BY <2>5, <2>7, <2>8, CheckedFollows
  <2> DEFINE q == <<g, A \cup {f}>>
  <2>10. q \in P
    BY <2>5, <2>8, <2>9 DEF Pairs, Exists
  <2>11. <<p, q>> \in Below
    <3>1. p \in Pairs /\ q \in Pairs
      BY <2>10
    <3>2. p[1] = f /\ p[2] = A /\ q[2] = A \cup {f}
      BY <2>5
    <3> HIDE DEF q, P
    <3>3. QED BY <2>9, <3>1, <3>2 DEF Below, Deeper
  <2> HIDE DEF P, q
  <2>12. QED BY <2>4, <2>10, <2>11
<1>8. ASSUME NEW f \in Reached \cap Present
      PROVE  /\ Contents(f).readable
             /\ \A i \in DOMAIN Contents(f).includes :
                  Contents(f).includes[i].toml
                  /\ (Contents(f).includes[i].optional \/ Exists(Contents(f).includes[i].to))
  <2> HIDE DEF good
  <2>1. QED BY <1>2, <1>6
<1>9. Roots \subseteq Present
  BY <1>1
<1> HIDE DEF good, files
<1>10. QED BY <1>7, <1>8, <1>9 DEF Unusable

LEMMA ReadIsMerge ==
    ASSUME cargo \in CargoTrees, ~Unusable
    PROVE  \A f \in Read : \A A : OnTheWay(A, f) => IsMergeOf(ReadTarget(f, A), ValuesOf(f))
<1> DEFINE R == {f \in Read : \E A : OnTheWay(A, f) /\ ~IsMergeOf(ReadTarget(f, A), ValuesOf(f))}
<1> SUFFICES ASSUME R # {} PROVE FALSE
  OBVIOUS
<1>1. PICK f \in R : IncludesOf(f) \cap R = {}
  BY ReadIsGrounded
<1>2. f \in Read /\ f \in Present
  BY DEF Read
<1>3. PICK A : OnTheWay(A, f) /\ ~IsMergeOf(ReadTarget(f, A), ValuesOf(f))
  OBVIOUS
<1>4. /\ f \notin A /\ A \in SUBSET Present
      /\ \A i \in DOMAIN Contents(f).includes : OnTheWay(A \cup {f}, Contents(f).includes[i].to)
  BY <1>2, <1>3, WaysGoOn
<1> DEFINE n == Len(Contents(f).includes)
           to(i) == Contents(f).includes[i].to
           list == [i \in 1 .. n |->
                       IF ~Contents(f).includes[i].toml \/ ~Exists(to(i)) THEN NoTarget
                       ELSE ReadTarget(to(i), A \cup {f})]
           lists == [i \in 1 .. n |-> ValuesOf(to(i))]
<1>5. n \in Nat /\ DOMAIN Contents(f).includes = 1 .. n
  BY <1>2, IncludesAreNamed
<1>6. Contents(f).readable /\ \A i \in 1 .. n : Contents(f).includes[i].toml
  BY <1>2, <1>5, UsableFacts
<1>7. ReadTarget(f, A) = Merged(MergedAll(list), Contents(f).target)
  <2> HIDE DEF R
  <2>1. QED BY <1>2, <1>4, <1>6, ReadFollows
<1>8. ValuesOf(f) = FlattenSeq(lists) \o Own(f)
  BY <1>2, ValuesFollow
<1>9. ASSUME NEW i \in 1 .. n
      PROVE  lists[i] \in Seq(Configured) /\ IsMergeOf(list[i], lists[i])
  <2>1. list[i] = IF ~Exists(to(i)) THEN NoTarget ELSE ReadTarget(to(i), A \cup {f})
    BY <1>6
  <2>2. lists[i] = ValuesOf(to(i))
    OBVIOUS
  <2>3. CASE ~Exists(to(i))
    <3>1. ValuesOf(to(i)) = <<>>
      BY <2>3, ValuesFollow
    <3> HIDE DEF list, lists, to
    <3>2. QED BY <2>1, <2>2, <2>3, <3>1 DEF IsMergeOf
  <2>4. CASE Exists(to(i))
    <3>1. to(i) \in Read
      BY <1>2, <1>5, <2>4, UsableFacts
    <3>2. to(i) \in IncludesOf(f)
      BY <1>2, <1>5, IncludesAreNamed
    <3>3. to(i) \notin R
      <4> HIDE DEF R
      <4>1. QED BY <1>1, <3>2
    <3>4. OnTheWay(A \cup {f}, to(i))
      BY <1>4, <1>5
    <3>5. ValuesOf(to(i)) \in Seq(Configured)
      BY <3>1, ValuesFollow
    <3> HIDE DEF list, lists, to
    <3>6. IsMergeOf(ReadTarget(to(i), A \cup {f}), ValuesOf(to(i)))
      BY <3>1, <3>3, <3>4
    <3>7. QED BY <2>1, <2>2, <2>4, <3>5, <3>6
  <2>5. QED BY <2>3, <2>4
<1>10. /\ Len(list) = n /\ Len(lists) = n
       /\ list = [i \in 1 .. n |-> list[i]] /\ lists = [i \in 1 .. n |-> lists[i]]
  BY <1>5
<1> HIDE DEF list, lists, to, n, R
<1>11. \A i \in 1 .. n : list[i] \in MergeValues
  BY <1>9, MergesAreValues
<1>12. list \in Seq(MergeValues) /\ lists \in Seq(Seq(Configured))
  <2>1. list \in [1 .. n -> MergeValues]
    BY <1>10, <1>11
  <2>2. lists \in [1 .. n -> Seq(Configured)]
    BY <1>9, <1>10
  <2>3. QED BY <1>5, <2>1, <2>2, SeqDef
<1>13. IsMergeOf(MergedAll(list), FlattenSeq(lists))
  BY <1>9, <1>10, <1>12, MergedAllIsMerge
<1>14. FlattenSeq(lists) \in Seq(Configured)
  BY <1>12, FlattenPlaces
<1>15. Own(f) \in Seq(Configured) /\ IsMergeOf(Contents(f).target, Own(f))
  BY <1>2, OwnIsMerge
<1>16. IsMergeOf(Merged(MergedAll(list), Contents(f).target), FlattenSeq(lists) \o Own(f))
  BY <1>13, <1>14, <1>15, MergedIsMerge
<1>17. QED BY <1>3, <1>7, <1>8, <1>16

-----------------------------------------------------------------------------
(* The steps of discovery.                                                  *)

\* What the first n directories say.
SaidBy(n) == FlattenSeq([i \in 1 .. n |-> ValuesOf(cargo.directories[i])])

CargoTyped ==
    /\ cargo \in CargoTrees
    /\ phase \in {"check", "read", "ask", "answered", "error"}
    /\ directory \in 0 .. Len(cargo.directories)

\* The directories gone through were all found in order.
CheckedSoFar ==
    phase = "check" =>
        /\ target = NoTarget
        /\ \A i \in 1 .. directory :
             cargo.directories[i] = NoConfiguration \/ Checked(cargo.directories[i], {})

ReadSoFar ==
    phase = "read" => ~Unusable /\ target # Refused /\ IsMergeOf(target, SaidBy(directory))

TargetIsKnown ==
    phase \in {"ask", "answered"} =>
        /\ ~Unusable
        /\ IF cargo.environment # NoTarget THEN target = cargo.environment
           ELSE target # Refused /\ IsMergeOf(target, Values)

AnswersAreTargets ==
    phase = "answered" => settings = <<Host>> \/ (target # NoTarget /\ settings = target.of)

TwoKinds == \E i, j \in DOMAIN Values : Values[i].many # Values[j].many

ErrorIsFault ==
    phase = "error" => Unusable \/ TwoKinds \/ (target # NoTarget /\ ~(ToSet(target.of) \subseteq cargo.known))

CargoInv ==
    CargoTyped /\ CheckedSoFar /\ ReadSoFar /\ TargetIsKnown /\ AnswersAreTargets /\ ErrorIsFault

\* A step leaves what is on disk as it is.
LEMMA CargoStays ==
    ASSUME cargo' = cargo
    PROVE  /\ \A f, A : Checked(f, A)' <=> Checked(f, A)
           /\ \A f : ValuesOf(f)' = ValuesOf(f)
           /\ Roots' = Roots /\ (Unusable' <=> Unusable)
<1>1. /\ Present' = Present /\ \A f : Exists(f)' <=> Exists(f)
      /\ \A f : Contents(f)' = Contents(f)
  BY DEF Present, Exists, Contents
<1>2. Pairs' = Pairs
  BY <1>1 DEF Pairs
<1>3. \A c : Checks(c)' <=> Checks(c)
  <2>1. \A c, p : CheckBody(c, p)' <=> CheckBody(c, p)
    BY <1>1 DEF CheckBody
  <2>2. QED BY <1>2, <2>1 DEF Checks
<1>4. (CHOOSE c : Checks(c))' = CHOOSE c : Checks(c)
  BY <1>3, Zenon
<1>5. \A f, A : Checked(f, A) <=> Exists(f) /\ (CHOOSE c : Checks(c))[<<f, A>>]
  BY DEF Checked, Checks, CheckBody, Pairs
<1>6. \A f, A : Checked(f, A)' <=> Exists(f)' /\ (CHOOSE c : Checks(c))'[<<f, A>>]
  BY DEF Checked, Checks, CheckBody, Pairs
<1>7. \A f, A : Checked(f, A)' <=> Checked(f, A)
  BY <1>1, <1>4, <1>5, <1>6
<1>8. Roots' = Roots /\ \A f : IncludesOf(f)' = IncludesOf(f)
  BY <1>1 DEF Roots, IncludesOf
<1>9. Mentioned' = Mentioned
  BY <1>1, <1>8 DEF Mentioned
<1>10. Reached' = Reached
  BY <1>8, <1>9 DEF Reached
<1>11. Unusable' <=> Unusable
  BY <1>1, <1>8, <1>10 DEF Unusable, GoesRound
<1>12. \A f : Own(f)' = Own(f)
  BY <1>1 DEF Own
<1>13. \A v : Says(v)' <=> Says(v)
  <2>1. \A g, f : IncludedValues(g, f)' = IncludedValues(g, f)
    BY <1>1 DEF IncludedValues
  <2>2. \A g, f : ValuesBody(g, f)' = ValuesBody(g, f)
    BY <1>12, <2>1 DEF ValuesBody
  <2>3. Read' = Read
    BY <1>1, <1>10 DEF Read
  <2>4. QED BY <2>2, <2>3 DEF Says
<1>14. (CHOOSE v : Says(v))' = CHOOSE v : Says(v)
  BY <1>13, Zenon
<1>15. \A f : ValuesOf(f) = IF Exists(f) THEN (CHOOSE v : Says(v))[f] ELSE <<>>
  BY DEF ValuesOf, Says, ValuesBody, IncludedValues, Own, Read
<1>16. \A f : ValuesOf(f)' = IF Exists(f)' THEN (CHOOSE v : Says(v))'[f] ELSE <<>>
  BY DEF ValuesOf, Says, ValuesBody, IncludedValues, Own, Read
<1>17. \A f : ValuesOf(f)' = ValuesOf(f)
  BY <1>1, <1>14, <1>15, <1>16
<1>18. QED BY <1>7, <1>8, <1>11, <1>17

LEMMA DirectoryFacts ==
    ASSUME cargo \in CargoTrees
    PROVE  /\ Len(cargo.directories) \in Nat
           /\ \A i \in 1 .. Len(cargo.directories) :
                cargo.directories[i] # NoConfiguration => cargo.directories[i] \in Roots
           /\ \A r \in Roots : \E i \in 1 .. Len(cargo.directories) : r = cargo.directories[i]
           /\ NoConfiguration \notin Present
           /\ cargo.environment \in Configured \cup {NoTarget}
<1>1. cargo.directories \in Seq(ToSet(cargo.directories))
  BY DisksAssumption DEF IsDisk
<1>2. DOMAIN cargo.directories = 1 .. Len(cargo.directories) /\ Len(cargo.directories) \in Nat
  BY <1>1
<1>3. Roots = {cargo.directories[i] : i \in 1 .. Len(cargo.directories)} \ {NoConfiguration}
  BY <1>2 DEF Roots, ToSet
<1>4. NoConfiguration \notin Present /\ cargo.environment \in Configured \cup {NoTarget}
  BY DisksAssumption DEF IsDisk, Present
<1>5. QED BY <1>2, <1>3, <1>4

LEMMA SaidFacts ==
    ASSUME cargo \in CargoTrees, ~Unusable
    PROVE  /\ \A n \in 0 .. Len(cargo.directories) : SaidBy(n) \in Seq(Configured)
           /\ SaidBy(0) = <<>> /\ Values = SaidBy(Len(cargo.directories))
           /\ \A n \in 1 .. Len(cargo.directories) :
                SaidBy(n) = SaidBy(n - 1) \o ValuesOf(cargo.directories[n])
<1> DEFINE k == Len(cargo.directories)
           all == [i \in 1 .. k |-> ValuesOf(cargo.directories[i])]
<1>1. k \in Nat
  BY DirectoryFacts
<1>2. ASSUME NEW i \in 1 .. k PROVE ValuesOf(cargo.directories[i]) \in Seq(Configured)
  <2>1. CASE cargo.directories[i] = NoConfiguration
    <3>1. ~Exists(cargo.directories[i])
      BY <2>1, DirectoryFacts DEF Exists
    <3>2. ValuesOf(cargo.directories[i]) = <<>>
      BY <3>1, ValuesFollow
    <3>3. QED BY <3>2
  <2>2. CASE cargo.directories[i] # NoConfiguration
    <3>1. cargo.directories[i] \in Read
      BY <2>2, DirectoryFacts, UsableFacts
    <3>2. QED BY <3>1, ValuesFollow
  <2>3. QED BY <2>1, <2>2
<1>3. all \in Seq(Seq(Configured)) /\ Len(all) = k
  <2>1. all \in [1 .. k -> Seq(Configured)]
    BY <1>2
  <2> HIDE DEF all
  <2>2. QED BY <1>1, <2>1, SeqDef
<1>4. ASSUME NEW n \in 1 .. k
      PROVE  /\ SaidBy(n - 1) \in Seq(Configured) /\ SaidBy(n) \in Seq(Configured)
             /\ SaidBy(n) = SaidBy(n - 1) \o ValuesOf(cargo.directories[n])
  <2> DEFINE a == [i \in 1 .. n - 1 |-> all[i]]
             b == [i \in 1 .. n |-> all[i]]
  <2>1. /\ SaidBy(n - 1) = FlattenSeq(a) /\ SaidBy(n) = FlattenSeq(b)
        /\ all[n] = ValuesOf(cargo.directories[n])
    <3>1. a = [i \in 1 .. n - 1 |-> ValuesOf(cargo.directories[i])]
      BY <1>1
    <3>2. b = [i \in 1 .. n |-> ValuesOf(cargo.directories[i])]
      BY <1>1
    <3>3. QED BY <3>1, <3>2 DEF SaidBy
  <2> HIDE DEF all
  <2>2. a \in Seq(Seq(Configured)) /\ all[n] \in Seq(Configured) /\ b = Append(a, all[n])
    BY <1>3, FirstOnes
  <2> HIDE DEF a, b
  <2>3. FlattenSeq(a) \in Seq(Configured) /\ FlattenSeq(b) = FlattenSeq(a) \o all[n]
    BY <2>2, FlattenLast, FlattenPlaces
  <2>4. FlattenSeq(b) \in Seq(Configured)
    BY <2>2, <2>3, ConcatProperties
  <2>5. QED BY <2>1, <2>3, <2>4
<1>5. SaidBy(0) = <<>> /\ SaidBy(0) \in Seq(Configured)
  <2> DEFINE none == [i \in 1 .. 0 |-> ValuesOf(cargo.directories[i])]
  <2>1. none = <<>>
    OBVIOUS
  <2>2. FlattenSeq(<<>>) = <<>>
    BY EmptySeq DEF FlattenSeq
  <2>3. SaidBy(0) = FlattenSeq(none)
    BY DEF SaidBy
  <2> HIDE DEF none
  <2>4. SaidBy(0) = <<>>
    BY <2>1, <2>2, <2>3
  <2>5. <<>> \in Seq(Configured)
    OBVIOUS
  <2>6. QED BY <2>4, <2>5
<1>6. Values = SaidBy(k)
  BY DEF Values, SaidBy
<1>7. QED BY <1>1, <1>4, <1>5, <1>6

KindsDiffer(list) == \E i, j \in 1 .. Len(list) : list[i].many = TRUE /\ list[j].many = FALSE

\* Two kinds among the first directories are two kinds among all.
LEMMA KindsGoOn ==
    ASSUME cargo \in CargoTrees, ~Unusable, NEW n \in 0 .. Len(cargo.directories), KindsDiffer(SaidBy(n))
    PROVE  TwoKinds
<1> DEFINE k == Len(cargo.directories)
           T == {m \in n .. k : ~KindsDiffer(SaidBy(m))}
<1>1. k \in Nat /\ n \in Nat
  BY DirectoryFacts
<1>2. T = {}
  <2> SUFFICES ASSUME T # {} PROVE FALSE
    OBVIOUS
  <2>1. PICK m \in T : \A y \in T : m <= y
    <3>1. T \in SUBSET Nat
      BY <1>1
    <3> HIDE DEF T
    <3>2. QED BY <3>1, LeastNatural
  <2>2. m \in n .. k /\ ~KindsDiffer(SaidBy(m)) /\ m # n
    OBVIOUS
  <2>3. m \in 1 .. k /\ m - 1 \in n .. k /\ m - 1 \in 0 .. k
    BY <1>1, <2>2
  <2>4. m - 1 \notin T
    <3> HIDE DEF T
    <3>1. m - 1 \in T => m <= m - 1
      BY <2>1
    <3>2. QED BY <1>1, <2>2, <3>1
  <2>5. KindsDiffer(SaidBy(m - 1))
    BY <2>3, <2>4
  <2> DEFINE a == SaidBy(m - 1)
             b == ValuesOf(cargo.directories[m])
             c == SaidBy(m)
  <2>6. a \in Seq(Configured) /\ c = a \o b
    BY <2>3, SaidFacts
  <2>7. b \in Seq(Configured)
    <3>1. CASE cargo.directories[m] = NoConfiguration
      <4>1. b = <<>>
        BY <3>1, DirectoryFacts, ValuesFollow DEF Exists
      <4>2. QED BY <4>1
    <3>2. CASE cargo.directories[m] # NoConfiguration
      BY <2>3, <3>2, DirectoryFacts, UsableFacts, ValuesFollow
    <3>3. QED BY <3>1, <3>2
  <2> HIDE DEF a, b, c, T
  <2>8. Len(c) = Len(a) + Len(b) /\ Len(a) \in Nat /\ Len(b) \in Nat /\ \A i \in 1 .. Len(a) : c[i] = a[i]
    BY <2>6, <2>7, ConcatProperties, LenProperties
  <2>9. KindsDiffer(c)
    <3>1. PICK i, j \in 1 .. Len(a) : a[i].many = TRUE /\ a[j].many = FALSE
      BY <2>5 DEF KindsDiffer, a
    <3>2. i \in 1 .. Len(c) /\ j \in 1 .. Len(c) /\ c[i] = a[i] /\ c[j] = a[j]
      BY <2>8
    <3>3. QED BY <3>1, <3>2 DEF KindsDiffer
  <2>10. QED BY <2>2, <2>9 DEF c
<1>3. KindsDiffer(Values)
  <2>1. k \in n .. k
    BY <1>1
  <2>2. KindsDiffer(SaidBy(k))
    BY <1>2, <2>1
  <2>3. QED BY <2>2, SaidFacts
<1>4. DOMAIN Values = 1 .. Len(Values)
  <2>1. k \in 0 .. k
    BY <1>1
  <2>2. Values \in Seq(Configured)
    BY <2>1, SaidFacts
  <2>3. QED BY <2>2
<1>5. QED BY <1>3, <1>4 DEF KindsDiffer, TwoKinds

\* A merge that fails met two kinds.
LEMMA RefusedForKinds ==
    ASSUME NEW list \in Seq(Configured), IsMergeOf(Refused, list)
    PROVE  KindsDiffer(list)
<1>1. Len(list) \in Nat /\ \A i \in 1 .. Len(list) : list[i] \in Configured
  BY LenProperties, ElementOfSeq
<1>2. Refused # NoTarget
  <2>1. Refused \in [many : BOOLEAN, of : Seq(Triples)]
    BY DEF Refused
  <2>2. QED BY <2>1, NoTargetAssumption
<1>3. list # <<>> => Len(list) \in 1 .. Len(list)
  BY <1>1, EmptySeq
<1>4. list # <<>> => list[Len(list)] # Refused
  BY <1>1, <1>3, ConfiguredFacts
<1>5. Refused # [many |-> TRUE, of |-> AllOf(list)]
  <2>1. Refused.many = FALSE /\ [many |-> TRUE, of |-> AllOf(list)].many = TRUE
    BY DEF Refused
  <2>2. QED BY <2>1
<1>6. QED BY <1>2, <1>4, <1>5 DEF IsMergeOf, KindsDiffer

-----------------------------------------------------------------------------
(* The properties.                                                          *)

\* What the last one of the answers says is what Cargo's rules say.
LEMMA MergeOfValues ==
    ASSUME NEW list \in Seq(Configured), NEW v, IsMergeOf(v, list), v # NoTarget, v # Refused
    PROVE  v.of = IF Last(list).many THEN FlattenSeq([i \in DOMAIN list |-> list[i].of])
                  ELSE Last(list).of
<1>1. Len(list) \in Nat /\ DOMAIN list = 1 .. Len(list) /\ \A i \in 1 .. Len(list) : list[i] \in Configured
  BY LenProperties, ElementOfSeq
<1>2. list # <<>> /\ Len(list) \in 1 .. Len(list) /\ Last(list) = list[Len(list)]
  BY <1>1, EmptySeq DEF IsMergeOf, Last
<1>3. CASE \A i \in 1 .. Len(list) : list[i].many = TRUE
  <2>1. v = [many |-> TRUE, of |-> AllOf(list)]
    BY <1>2, <1>3 DEF IsMergeOf
  <2>2. v.of = AllOf(list)
    BY <2>1
  <2>3. AllOf(list) = FlattenSeq([i \in DOMAIN list |-> list[i].of])
    BY <1>1 DEF AllOf
  <2>4. Last(list).many = TRUE
    BY <1>2, <1>3
  <2>5. QED BY <2>2, <2>3, <2>4
<1>4. CASE ~\A i \in 1 .. Len(list) : list[i].many = TRUE
  <2>1. (\A i \in 1 .. Len(list) : list[i].many = FALSE) /\ v = list[Len(list)]
    BY <1>2, <1>4 DEF IsMergeOf
  <2>2. Last(list).many = FALSE /\ v.of = Last(list).of
    BY <1>2, <2>1
  <2>3. QED BY <2>2
<1>5. QED BY <1>3, <1>4

LEMMA InvMeansFollowed ==
    ASSUME CargoInv
    PROVE  OnlyFaultsAreRefused /\ TargetsFollowCargo
<1>1. OnlyFaultsAreRefused
  BY DEF CargoInv, CargoTyped, ReadSoFar, TargetIsKnown, ErrorIsFault, TwoKinds, OnlyFaultsAreRefused
<1>2. TargetsFollowCargo
  <2> SUFFICES ASSUME phase = "answered", settings # <<Host>>
               PROVE  settings = IF cargo.environment # NoTarget THEN cargo.environment.of
                                 ELSE IF Last(Values).many
                                      THEN FlattenSeq([i \in DOMAIN Values |-> Values[i].of])
                                      ELSE Last(Values).of
    BY DEF TargetsFollowCargo
  <2>1. target # NoTarget /\ settings = target.of /\ ~Unusable /\ cargo \in CargoTrees
    BY DEF CargoInv, CargoTyped, TargetIsKnown, AnswersAreTargets
  <2>2. CASE cargo.environment # NoTarget
    BY <2>1, <2>2 DEF CargoInv, TargetIsKnown
  <2>3. CASE cargo.environment = NoTarget
    <3>1. target # Refused /\ IsMergeOf(target, Values)
      BY <2>3 DEF CargoInv, TargetIsKnown
    <3>2. Values \in Seq(Configured)
      <4>1. Len(cargo.directories) \in 0 .. Len(cargo.directories)
        BY <2>1, DirectoryFacts
      <4>2. QED BY <2>1, <4>1, SaidFacts
    <3> HIDE DEF CargoInv
    <3>3. target.of = IF Last(Values).many THEN FlattenSeq([i \in DOMAIN Values |-> Values[i].of])
                      ELSE Last(Values).of
      BY <2>1, <3>1, <3>2, MergeOfValues
    <3>4. QED BY <2>1, <2>3, <3>3
  <2>4. QED BY <2>2, <2>3
<1>3. QED BY <1>1, <1>2

LEMMA CargoBegins == CargoInit => CargoInv
<1> SUFFICES ASSUME CargoInit PROVE CargoInv
  OBVIOUS
<1>1. CargoTyped
  BY DirectoryFacts DEF CargoInit, CargoTyped
<1>2. CheckedSoFar /\ ReadSoFar /\ TargetIsKnown /\ AnswersAreTargets /\ ErrorIsFault
  BY DEF CargoInit, CheckedSoFar, ReadSoFar, TargetIsKnown, AnswersAreTargets, ErrorIsFault
<1>3. QED BY <1>1, <1>2 DEF CargoInv

LEMMA CheckDirectoryKeeps ==
    ASSUME CargoInv, CheckDirectory
    PROVE  CargoInv'
<1>1. /\ phase = "check" /\ directory \in 0 .. Len(cargo.directories) /\ cargo \in CargoTrees
      /\ directory < Len(cargo.directories) /\ UNCHANGED <<cargo, target, settings>>
      /\ target = NoTarget
      /\ \A i \in 1 .. directory : cargo.directories[i] = NoConfiguration \/ Checked(cargo.directories[i], {})
  BY DEF CargoInv, CargoTyped, CheckedSoFar, CheckDirectory, HasDirectory
<1>2. Len(cargo.directories) \in Nat /\ directory + 1 \in 1 .. Len(cargo.directories)
  BY <1>1, DirectoryFacts
<1>3. CASE Current = NoConfiguration \/ Checked(Current, {})
  <2>1. directory' = directory + 1 /\ phase' = "check"
    BY <1>1, <1>3 DEF CheckDirectory
  <2>2. CargoTyped'
    BY <1>1, <1>2, <2>1 DEF CargoTyped
  <2>3. \A i \in 1 .. directory + 1 : cargo.directories[i] = NoConfiguration \/ Checked(cargo.directories[i], {})
    <3>1. cargo.directories[directory + 1] = NoConfiguration \/ Checked(cargo.directories[directory + 1], {})
      BY <1>3 DEF Current
    <3>2. \A i \in 1 .. directory + 1 : i \in 1 .. directory \/ i = directory + 1
      BY <1>1
    <3>3. QED BY <1>1, <3>1, <3>2
  <2>4. CheckedSoFar'
    BY <1>1, <2>1, <2>3, CargoStays DEF CheckedSoFar
  <2>5. (ReadSoFar /\ TargetIsKnown /\ AnswersAreTargets /\ ErrorIsFault)'
    BY <2>1 DEF ReadSoFar, TargetIsKnown, AnswersAreTargets, ErrorIsFault
  <2>6. QED BY <2>2, <2>4, <2>5 DEF CargoInv
<1>4. CASE ~(Current = NoConfiguration \/ Checked(Current, {}))
  <2>1. directory' = directory /\ phase' = "error"
    BY <1>4 DEF CheckDirectory
  <2>2. Unusable
    <3> SUFFICES ASSUME ~Unusable PROVE FALSE
      OBVIOUS
    <3>1. Current \in Roots
      BY <1>1, <1>2, <1>4, DirectoryFacts DEF Current
    <3>2. Current \in Read
      BY <1>1, <3>1, UsableFacts
    <3>3. OnTheWay({}, Current)
      BY DEF OnTheWay
    <3>4. QED BY <1>1, <1>4, <3>2, <3>3, UsableIsChecked
  <2>3. Unusable'
    BY <1>1, <2>2, CargoStays
  <2>4. CargoTyped'
    BY <1>1, <2>1 DEF CargoTyped
  <2>5. (CheckedSoFar /\ ReadSoFar /\ TargetIsKnown /\ AnswersAreTargets /\ ErrorIsFault)'
    BY <2>1, <2>3 DEF CheckedSoFar, ReadSoFar, TargetIsKnown, AnswersAreTargets, ErrorIsFault
  <2>6. QED BY <2>4, <2>5 DEF CargoInv
<1>5. QED BY <1>3, <1>4

LEMMA StartReadingKeeps ==
    ASSUME CargoInv, StartReading
    PROVE  CargoInv'
<1>1. /\ phase = "check" /\ directory \in 0 .. Len(cargo.directories) /\ cargo \in CargoTrees
      /\ ~(directory < Len(cargo.directories)) /\ UNCHANGED <<cargo, target, settings>>
      /\ target = NoTarget /\ phase' = "read" /\ directory' = 0
      /\ \A i \in 1 .. directory : cargo.directories[i] = NoConfiguration \/ Checked(cargo.directories[i], {})
  BY DEF CargoInv, CargoTyped, CheckedSoFar, StartReading, HasDirectory
<1>2. Len(cargo.directories) \in Nat /\ directory = Len(cargo.directories)
  BY <1>1, DirectoryFacts
<1>3. ~Unusable
  <2>1. ASSUME NEW r \in Roots PROVE Checked(r, {})
    <3>1. PICK i \in 1 .. Len(cargo.directories) : r = cargo.directories[i]
      BY <1>1, DirectoryFacts
    <3>2. r # NoConfiguration
      BY DEF Roots
    <3>3. QED BY <1>1, <1>2, <3>1, <3>2
  <2>2. QED BY <1>1, <2>1, CheckedIsUsable
<1>4. IsMergeOf(NoTarget, <<>>) /\ SaidBy(0) = <<>>
  BY <1>1, <1>3, SaidFacts DEF IsMergeOf
<1>5. SaidBy(0)' = SaidBy(0) /\ ~Unusable'
  BY <1>1, <1>3, CargoStays DEF SaidBy
<1>6. NoTarget # Refused
  <2>1. Refused \in [many : BOOLEAN, of : Seq(Triples)]
    BY DEF Refused
  <2>2. QED BY <2>1, NoTargetAssumption
<1>7. ReadSoFar'
  <2>1. SaidBy(directory)' = SaidBy(0)'
    BY <1>1 DEF SaidBy
  <2>2. IsMergeOf(target, SaidBy(directory))'
    BY <1>1, <1>4, <1>5, <2>1 DEF IsMergeOf
  <2>3. QED BY <1>1, <1>5, <1>6, <2>2 DEF ReadSoFar, Refused
<1>8. CargoTyped'
  BY <1>1, <1>2 DEF CargoTyped
<1>9. (CheckedSoFar /\ TargetIsKnown /\ AnswersAreTargets /\ ErrorIsFault)'
  BY <1>1 DEF CheckedSoFar, TargetIsKnown, AnswersAreTargets, ErrorIsFault
<1>10. QED BY <1>7, <1>8, <1>9 DEF CargoInv

LEMMA ValuesStay ==
    ASSUME cargo' = cargo
    PROVE  Values' = Values /\ \A n \in 0 .. Len(cargo.directories) : SaidBy(n)' = SaidBy(n)
<1>1. \A f : ValuesOf(f)' = ValuesOf(f)
  BY CargoStays
<1>2. Values' = Values
  BY <1>1 DEF Values
<1>3. QED BY <1>1, <1>2 DEF SaidBy

LEMMA ReadDirectoryKeeps ==
    ASSUME CargoInv, ReadDirectory
    PROVE  CargoInv'
<1>1. /\ phase = "read" /\ directory \in 0 .. Len(cargo.directories) /\ cargo \in CargoTrees
      /\ directory < Len(cargo.directories) /\ UNCHANGED <<cargo, settings>>
      /\ ~Unusable /\ target # Refused /\ IsMergeOf(target, SaidBy(directory))
      /\ directory' = directory + 1
      /\ target' = IF Current = NoConfiguration THEN target ELSE Merged(target, ReadTarget(Current, {}))
      /\ phase' = IF target' = Refused THEN "error" ELSE "read"
  BY DEF CargoInv, CargoTyped, ReadSoFar, ReadDirectory, HasDirectory
<1>n. PICK n \in Nat : n = directory + 1
  BY <1>1, DirectoryFacts
<1>2. /\ Len(cargo.directories) \in Nat /\ n \in 1 .. Len(cargo.directories) /\ n - 1 = directory
      /\ n \in 0 .. Len(cargo.directories)
  BY <1>1, <1>n, DirectoryFacts
<1>3. /\ SaidBy(directory) \in Seq(Configured) /\ SaidBy(n) \in Seq(Configured)
      /\ SaidBy(n) = SaidBy(directory) \o ValuesOf(Current)
  <2>1. SaidBy(n) = SaidBy(n - 1) \o ValuesOf(cargo.directories[n])
    BY <1>1, <1>2, SaidFacts
  <2>2. SaidBy(directory) \in Seq(Configured) /\ SaidBy(n) \in Seq(Configured)
    BY <1>1, <1>2, SaidFacts
  <2>3. QED BY <1>2, <1>n, <2>1, <2>2 DEF Current
<1>4. IsMergeOf(target', SaidBy(n))
  <2>1. CASE Current = NoConfiguration
    <3>1. ValuesOf(Current) = <<>>
      BY <1>1, <2>1, DirectoryFacts, ValuesFollow DEF Exists
    <3>2. SaidBy(n) = SaidBy(directory)
      BY <1>3, <3>1, ConcatEmptySeq
    <3>3. QED BY <1>1, <2>1, <3>2
  <2>2. CASE Current # NoConfiguration
    <3>1. Current \in Roots
      <4>1. Current = cargo.directories[n]
        BY <1>n DEF Current
      <4>2. QED BY <1>1, <1>2, <2>2, <4>1, DirectoryFacts
    <3>2. Current \in Read
      BY <1>1, <3>1, UsableFacts
    <3>3. OnTheWay({}, Current)
      BY DEF OnTheWay
    <3>4. IsMergeOf(ReadTarget(Current, {}), ValuesOf(Current)) /\ ValuesOf(Current) \in Seq(Configured)
      BY <1>1, <3>2, <3>3, ReadIsMerge, ValuesFollow
    <3>5. IsMergeOf(Merged(target, ReadTarget(Current, {})), SaidBy(directory) \o ValuesOf(Current))
      BY <1>1, <1>3, <3>4, MergedIsMerge
    <3>6. QED BY <1>1, <1>3, <2>2, <3>5
  <2>3. QED BY <2>1, <2>2
<1>5. ~Unusable' /\ SaidBy(directory)' = SaidBy(n)
  <2>1. \A f : ValuesOf(f)' = ValuesOf(f)
    BY <1>1, CargoStays
  <2>2. QED BY <1>1, <1>n, <2>1, CargoStays DEF SaidBy
<1>6. CargoTyped'
  BY <1>1, <1>2, <1>n DEF CargoTyped
<1>7. (CheckedSoFar /\ TargetIsKnown /\ AnswersAreTargets)'
  BY <1>1 DEF CheckedSoFar, TargetIsKnown, AnswersAreTargets
<1>8. CASE target' # Refused
  <2>1. IsMergeOf(target, SaidBy(directory))'
    BY <1>4, <1>5 DEF IsMergeOf, Refused, AllOf
  <2>2. ReadSoFar'
    BY <1>5, <1>8, <2>1 DEF ReadSoFar, Refused
  <2>3. ErrorIsFault'
    BY <1>1, <1>8 DEF ErrorIsFault
  <2>4. QED BY <1>6, <1>7, <2>2, <2>3 DEF CargoInv
<1>9. CASE target' = Refused
  <2>1. TwoKinds
    BY <1>1, <1>2, <1>3, <1>4, <1>9, RefusedForKinds, KindsGoOn
  <2>2. TwoKinds'
    BY <1>1, <2>1, ValuesStay DEF TwoKinds
  <2>3. ReadSoFar' /\ ErrorIsFault'
    BY <1>1, <1>9, <2>2 DEF ReadSoFar, ErrorIsFault
  <2>4. QED BY <1>6, <1>7, <2>3 DEF CargoInv
<1>10. QED BY <1>8, <1>9

LEMMA UseEnvironmentKeeps ==
    ASSUME CargoInv, UseEnvironment
    PROVE  CargoInv'
<1>1. /\ phase = "read" /\ directory \in 0 .. Len(cargo.directories) /\ cargo \in CargoTrees
      /\ ~(directory < Len(cargo.directories)) /\ UNCHANGED <<cargo, directory, settings>>
      /\ ~Unusable /\ target # Refused /\ IsMergeOf(target, SaidBy(directory))
      /\ target' = IF cargo.environment = NoTarget THEN target ELSE cargo.environment
      /\ phase' = "ask"
  BY DEF CargoInv, CargoTyped, ReadSoFar, UseEnvironment, HasDirectory
<1>2. directory = Len(cargo.directories)
  BY <1>1, DirectoryFacts
<1>3. IsMergeOf(target, Values)
  BY <1>1, <1>2, SaidFacts
<1>4. ~Unusable' /\ Values' = Values /\ cargo' = cargo
  BY <1>1, CargoStays, ValuesStay
<1>5. cargo.environment = NoTarget => IsMergeOf(target, Values)' /\ target' # Refused
  BY <1>1, <1>3, <1>4 DEF IsMergeOf
<1>6. TargetIsKnown'
  BY <1>1, <1>4, <1>5 DEF TargetIsKnown, Refused
<1>7. (CargoTyped /\ CheckedSoFar /\ ReadSoFar /\ AnswersAreTargets /\ ErrorIsFault)'
  BY <1>1 DEF CargoTyped, CheckedSoFar, ReadSoFar, AnswersAreTargets, ErrorIsFault
<1>8. QED BY <1>6, <1>7 DEF CargoInv

LEMMA AskingKeeps ==
    ASSUME CargoInv, AskHost \/ AskTargets
    PROVE  CargoInv'
<1>1. /\ phase = "ask" /\ directory \in 0 .. Len(cargo.directories) /\ cargo \in CargoTrees
      /\ UNCHANGED <<cargo, directory, target>> /\ ~Unusable
      /\ phase' \in {"answered", "error"} /\ TargetIsKnown
  BY DEF CargoInv, CargoTyped, TargetIsKnown, AskHost, AskTargets
<1>2. ~Unusable' /\ Values' = Values /\ cargo' = cargo /\ target' = target
  BY <1>1, CargoStays, ValuesStay
<1>3. IsMergeOf(target, Values)' <=> IsMergeOf(target, Values)
  BY <1>2 DEF IsMergeOf
<1>4. TargetIsKnown'
  BY <1>1, <1>2, <1>3 DEF TargetIsKnown, Refused
<1>5. AnswersAreTargets' /\ ErrorIsFault'
  <2>1. CASE AskHost
    BY <1>2, <2>1 DEF AskHost, AnswersAreTargets, ErrorIsFault
  <2>2. CASE AskTargets
    <3>1. target # NoTarget
      BY <2>2 DEF AskTargets, AsksHost
    <3>2. CASE \A i \in DOMAIN target.of : target.of[i] \in cargo.known
      BY <1>2, <2>2, <3>1, <3>2 DEF AskTargets, AnswersAreTargets, ErrorIsFault
    <3>3. CASE ~\A i \in DOMAIN target.of : target.of[i] \in cargo.known
      <4>1. ~(ToSet(target.of) \subseteq cargo.known)
        BY <3>3 DEF ToSet
      <4>2. phase' = "error"
        BY <2>2, <3>3 DEF AskTargets
      <4>3. ErrorIsFault'
        BY <1>2, <3>1, <4>1 DEF ErrorIsFault, ToSet
      <4>4. QED BY <4>2, <4>3 DEF AnswersAreTargets
    <3>4. QED BY <3>2, <3>3
  <2>3. QED BY <2>1, <2>2
<1>6. (CargoTyped /\ CheckedSoFar /\ ReadSoFar)'
  BY <1>1 DEF CargoTyped, CheckedSoFar, ReadSoFar
<1>7. QED BY <1>4, <1>5, <1>6 DEF CargoInv

LEMMA NothingMovesCargo ==
    ASSUME CargoInv, UNCHANGED cargoVars
    PROVE  CargoInv'
<1>1. /\ cargo' = cargo /\ phase' = phase /\ directory' = directory /\ target' = target
      /\ settings' = settings /\ directory \in 0 .. Len(cargo.directories)
  BY DEF cargoVars, CargoInv, CargoTyped
<1>2. /\ Values' = Values /\ (Unusable' <=> Unusable)
      /\ \A f, A : Checked(f, A)' <=> Checked(f, A)
      /\ SaidBy(directory)' = SaidBy(directory)
  BY <1>1, CargoStays, ValuesStay DEF SaidBy
<1>3. /\ IsMergeOf(target, SaidBy(directory))' <=> IsMergeOf(target, SaidBy(directory))
      /\ IsMergeOf(target, Values)' <=> IsMergeOf(target, Values)
  BY <1>1, <1>2 DEF IsMergeOf
<1>4. CheckedSoFar'
  BY <1>1, <1>2 DEF CargoInv, CheckedSoFar
<1>5. ReadSoFar' /\ TargetIsKnown'
  BY <1>1, <1>2, <1>3 DEF CargoInv, ReadSoFar, TargetIsKnown, Refused
<1>6. (CargoTyped /\ AnswersAreTargets)'
  BY <1>1 DEF CargoInv, CargoTyped, AnswersAreTargets
<1>7. ErrorIsFault'
  BY <1>1, <1>2 DEF CargoInv, ErrorIsFault, TwoKinds, ToSet
<1>8. QED BY <1>4, <1>5, <1>6, <1>7 DEF CargoInv

LEMMA CargoInvHolds == CargoSpec => []CargoInv
<1>1. CargoInit => CargoInv
  BY CargoBegins
<1>2. CargoInv /\ [CargoNext]_cargoVars => CargoInv'
  <2> SUFFICES ASSUME CargoInv, [CargoNext]_cargoVars PROVE CargoInv'
    OBVIOUS
  <2>1. CASE CheckDirectory
    BY <2>1, CheckDirectoryKeeps
  <2>2. CASE StartReading
    BY <2>2, StartReadingKeeps
  <2>3. CASE ReadDirectory
    BY <2>3, ReadDirectoryKeeps
  <2>4. CASE UseEnvironment
    BY <2>4, UseEnvironmentKeeps
  <2>5. CASE AskHost \/ AskTargets
    BY <2>5, AskingKeeps
  <2>6. CASE UNCHANGED cargoVars
    BY <2>6, NothingMovesCargo
  <2>7. QED BY <2>1, <2>2, <2>3, <2>4, <2>5, <2>6 DEF CargoNext
<1>3. QED BY <1>1, <1>2, PTL DEF CargoSpec

\* A configuration that cannot be used (one that is missing, includes that go
\* round, a file that does not parse, a required include that is missing) is
\* always reported before a target is read, and one that can be used is refused
\* only for targets of two kinds or a target nobody knows: two files that
\* include a third are no cycle (rustc_configurations).
THEOREM OnlyFaultsRefuse == CargoSpec => []OnlyFaultsAreRefused
<1>1. CargoInv => OnlyFaultsAreRefused
  BY InvMeansFollowed
<1>2. QED BY CargoInvHolds, <1>1, PTL

\* Discovery asks the compiler about the targets that Cargo would build for:
\* CARGO_BUILD_TARGET, else the strongest single target or all the targets of
\* the arrays, in their order (cargo_configuration_target_from_with_includes,
\* merge_cargo_target_configurations).
THEOREM TargetsAreCargos == CargoSpec => []TargetsFollowCargo
<1>1. CargoInv => TargetsFollowCargo
  BY InvMeansFollowed
<1>2. QED BY CargoInvHolds, <1>1, PTL
=============================================================================
