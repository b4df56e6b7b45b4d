-------------------------- MODULE ProcessWait_proofs --------------------------
(***************************************************************************)
(* Proofs about ProcessWait for every timeout, poll interval and number of *)
(* failing system calls.                                                   *)
(***************************************************************************)
EXTENDS ProcessWait, TLAPS

\* TypeOK in two parts: the Boolean variables, and the others.
Flags ==
    /\ stopFailed \in BOOLEAN
    /\ active \in BOOLEAN
    /\ others \in BOOLEAN
    /\ interrupted \in BOOLEAN

Numbers ==
    /\ now \in 0 .. Horizon
    /\ pc \in Places
    /\ interval \in 1 .. MaxInterval
    /\ until \in 0 .. Timeout
    /\ polledAt \in 0 .. Horizon
    /\ reason \in Reasons
    /\ result \in Results
    /\ leader \in {"unborn", "running", "zombie", "reaped"}
    /\ endedAt \in Nat \cup {Never}
    /\ sleeps \in Nat
    /\ faults \in 0 .. MaxFaults

\* ProcessChild::active says whether the command still has to be reaped.
ActiveIsUnreaped ==
    /\ pc # "done" => (active <=> leader \in {"running", "zombie"})
    /\ pc = "spawn" => leader = "unborn"
    /\ leader = "unborn" => pc \in {"spawn", "done"} /\ ~others

\* While the thread waits, the command is not reaped and nothing is returned.
Waiting ==
    /\ pc \in {"poll", "flag", "clock", "asleep", "stop", "reap"} => active
    /\ pc \in {"spawn", "poll", "flag", "clock", "asleep", "stop", "reap"} => result = "none"
    /\ pc = "dropWait" => active

\* A stop that did not fail killed the whole group.
StoppedIsDead == pc = "reap" /\ ~stopFailed => leader = "zombie" /\ ~others

\* The thread looked for the command's end after its last sleep, and the command
\* had not ended then.
LookedLast == polledAt >= until /\ (endedAt # Never => endedAt >= polledAt)

\* Between a look for the end and the next sleep, and when the thread stops the
\* command for a timeout.
LooksLast ==
    /\ polledAt <= now
    /\ pc \in {"spawn", "poll"} => until <= now
    /\ pc \in {"flag", "clock"} => LookedLast
    /\ pc \in {"stop", "reap"} /\ reason = "timedOut" => LookedLast
    /\ result = "timedOut" => LookedLast

\* A command that has not ended by itself has no end time.
RunningHasNoEnd == leader \in {"unborn", "running"} => endedAt = Never

\* What the thread knows about the processes.
Processes ==
    /\ Flags
    /\ ActiveIsUnreaped
    /\ Waiting
    /\ StoppedIsDead
    /\ NothingSurvivesAStop

\* What the clock allows.
Times ==
    /\ Numbers
    /\ LooksLast
    /\ RunningHasNoEnd

PInv == Processes /\ Times

\* A command that is dropped before it is reaped has seen a call fail.
DroppedAfterFault ==
    /\ pc = "drop" /\ active => faults >= 1
    /\ pc = "dropWait" => faults >= 1
    /\ CommandIsReaped

\* The thread goes to the clock with the flag clear, and from there to its only
\* sleep after the interrupt.
OneSleep ==
    /\ ~interrupted \/ pc = "clock" => sleeps = 0
    /\ sleeps <= 1

-----------------------------------------------------------------------------
LEMMA PInit == Init => PInv
<1> SUFFICES ASSUME Init PROVE PInv
  OBVIOUS
<1> USE DEF Init
<1>1. Numbers
  BY TimeoutAssumption, MaxIntervalAssumption, HorizonAssumption, MaxFaultsAssumption
     DEF Numbers, Places, Reasons, Results
<1>2. Flags /\ ActiveIsUnreaped /\ Waiting /\ StoppedIsDead /\ NothingSurvivesAStop
  BY DEF Flags, ActiveIsUnreaped, Waiting, StoppedIsDead, NothingSurvivesAStop
<1>3. LooksLast /\ RunningHasNoEnd
  BY DEF LooksLast, RunningHasNoEnd
<1> QED
  BY <1>1, <1>2, <1>3 DEF PInv, Processes, Times

LEMMA ProcessesStep == PInv /\ [Next]_vars => Processes'
<1> SUFFICES ASSUME PInv, [Next]_vars PROVE Processes'
  OBVIOUS
<1> USE DEF PInv, Processes, Flags, ActiveIsUnreaped, Waiting, StoppedIsDead, NothingSurvivesAStop,
        GoTo, Fault, thread, group
<1>1. CASE Spawn
  BY <1>1 DEF Spawn
<1>2. CASE Poll
  BY <1>2 DEF Poll, ReturnWith
<1>3. CASE CheckFlag
  BY <1>3 DEF CheckFlag
<1>4. CASE CheckClock
  BY <1>4 DEF CheckClock, Lesser
<1>5. CASE Wake
  BY <1>5 DEF Wake
<1>6. CASE Stop
  BY <1>6 DEF Stop, KillGroup, KillLeader
<1>7. CASE Reap
  BY <1>7 DEF Reap, ReturnWith
<1>8. CASE Drop
  BY <1>8 DEF Drop, KillGroup, KillLeader
<1>9. CASE DropWait
  BY <1>9 DEF DropWait
<1>10. CASE Tick
  BY <1>10 DEF Tick
<1>11. CASE CommandEnds
  BY <1>11 DEF CommandEnds
<1>12. CASE Fork
  BY <1>12 DEF Fork
<1>13. CASE OthersEnd
  BY <1>13 DEF OthersEnd
<1>14. CASE Interrupt
  BY <1>14 DEF Interrupt
<1>15. CASE UNCHANGED vars
  BY <1>15 DEF vars
<1> QED
  BY <1>1, <1>2, <1>3, <1>4, <1>5, <1>6, <1>7, <1>8, <1>9, <1>10, <1>11, <1>12, <1>13, <1>14, <1>15 DEF Next, Step

LEMMA TimesStep == PInv /\ [Next]_vars => Times'
<1> SUFFICES ASSUME PInv, [Next]_vars PROVE Times'
  OBVIOUS
<1> USE TimeoutAssumption, MaxIntervalAssumption, HorizonAssumption, MaxFaultsAssumption, NeverAssumption
    DEF PInv, Times, Numbers, Places, Reasons, Results, LooksLast, LookedLast, RunningHasNoEnd,
        GoTo, Fault, thread, group
<1>1. CASE Spawn
  BY <1>1 DEF Spawn, Processes, ActiveIsUnreaped, Waiting
<1>2. CASE Poll
  <2>1. Numbers'
    BY <1>2 DEF Poll, ReturnWith
  <2>2. polledAt' = now /\ now' = now /\ until' = until /\ endedAt' = endedAt
    BY <1>2 DEF Poll
  <2>3. LooksLast' /\ RunningHasNoEnd'
    <3>1. CASE leader = "zombie" /\ leader' = "reaped" /\ ReturnWith("exited")
      BY <1>2, <2>2, <3>1 DEF Poll, ReturnWith
    <3>2. CASE leader = "running" /\ GoTo("flag") /\ UNCHANGED <<leader, result, reason>>
      BY <1>2, <2>2, <3>2 DEF Poll, Processes, Waiting
    <3>3. CASE reason' = "waitError" /\ GoTo("stop") /\ UNCHANGED <<leader, result>>
      BY <1>2, <2>2, <3>3 DEF Poll, Processes, Waiting
    <3> QED
      BY <1>2, <3>1, <3>2, <3>3 DEF Poll
  <2> QED
    BY <2>1, <2>3
<1>3. CASE CheckFlag
  BY <1>3 DEF CheckFlag, Processes, Waiting
<1>4. CASE CheckClock
  <2>1. CASE now >= Timeout
    BY <1>4, <2>1 DEF CheckClock, Processes, Waiting
  <2>2. CASE ~(now >= Timeout)
    <3>1. /\ until' = now + Lesser(interval, Timeout - now)
          /\ interval' = Lesser(2 * interval, MaxInterval)
          /\ sleeps' = IF interrupted THEN sleeps + 1 ELSE sleeps
          /\ pc' = "asleep" /\ result = "none"
          /\ UNCHANGED <<reason, now, polledAt, result, leader, endedAt, faults>>
      BY <1>4, <2>2 DEF CheckClock, Processes, Waiting
    <3>2. until' \in 0 .. Timeout /\ interval' \in 1 .. MaxInterval /\ sleeps' \in Nat
      BY <2>2, <3>1 DEF Lesser
    <3>3. Numbers'
      BY <3>1, <3>2
    <3>4. LooksLast' /\ RunningHasNoEnd'
      BY <3>1
    <3> QED
      BY <3>3, <3>4
  <2> QED
    BY <2>1, <2>2
<1>5. CASE Wake
  BY <1>5 DEF Wake
<1>6. CASE Stop
  BY <1>6 DEF Stop, KillGroup, KillLeader
<1>7. CASE Reap
  BY <1>7 DEF Reap, ReturnWith
<1>8. CASE Drop
  BY <1>8 DEF Drop, KillGroup, KillLeader
<1>9. CASE DropWait
  BY <1>9 DEF DropWait
<1>10. CASE Tick
  BY <1>10 DEF Tick
<1>11. CASE CommandEnds
  BY <1>11 DEF CommandEnds, Processes, NothingSurvivesAStop
<1>12. CASE Fork
  BY <1>12 DEF Fork
<1>13. CASE OthersEnd
  BY <1>13 DEF OthersEnd
<1>14. CASE Interrupt
  BY <1>14 DEF Interrupt
<1>15. CASE UNCHANGED vars
  BY <1>15 DEF vars
<1> QED
  BY <1>1, <1>2, <1>3, <1>4, <1>5, <1>6, <1>7, <1>8, <1>9, <1>10, <1>11, <1>12, <1>13, <1>14, <1>15 DEF Next, Step

LEMMA PInvariance == Spec => []PInv
BY PInit, ProcessesStep, TimesStep, PTL DEF Spec, PInv

LEMMA DroppedStep == PInv /\ DroppedAfterFault /\ [Next]_vars => DroppedAfterFault'
<1> SUFFICES ASSUME PInv, DroppedAfterFault, [Next]_vars PROVE DroppedAfterFault'
  OBVIOUS
<1> USE MaxFaultsAssumption
    DEF PInv, Processes, Flags, ActiveIsUnreaped, Waiting, Times, Numbers, DroppedAfterFault,
        CommandIsReaped, GoTo, Fault, thread, group
<1>1. CASE Spawn
  BY <1>1 DEF Spawn
<1>2. CASE Poll
  BY <1>2 DEF Poll, ReturnWith
<1>3. CASE CheckFlag
  BY <1>3 DEF CheckFlag
<1>4. CASE CheckClock
  BY <1>4 DEF CheckClock, Lesser
<1>5. CASE Wake
  BY <1>5 DEF Wake
<1>6. CASE Stop
  BY <1>6 DEF Stop, KillGroup, KillLeader
<1>7. CASE Reap
  <2>1. pc' = "drop"
    BY <1>7 DEF Reap, ReturnWith
  <2>2. ~active' \/ faults' >= 1
    <3>1. CASE leader = "zombie" /\ active' = FALSE
      BY <3>1
    <3>2. CASE Fault
      BY <3>2 DEF Fault
    <3> QED
      BY <1>7, <3>1, <3>2 DEF Reap
  <2> QED
    BY <2>1, <2>2
<1>8. CASE Drop
  BY <1>8 DEF Drop, KillGroup, KillLeader
<1>9. CASE DropWait
  BY <1>9 DEF DropWait
<1>10. CASE Tick
  BY <1>10 DEF Tick
<1>11. CASE CommandEnds
  BY <1>11 DEF CommandEnds
<1>12. CASE Fork
  BY <1>12 DEF Fork
<1>13. CASE OthersEnd
  BY <1>13 DEF OthersEnd
<1>14. CASE Interrupt
  BY <1>14 DEF Interrupt
<1>15. CASE UNCHANGED vars
  BY <1>15 DEF vars
<1> QED
  BY <1>1, <1>2, <1>3, <1>4, <1>5, <1>6, <1>7, <1>8, <1>9, <1>10, <1>11, <1>12, <1>13, <1>14, <1>15 DEF Next, Step

LEMMA OneSleepStep == PInv /\ OneSleep /\ [Next]_vars => OneSleep'
<1> SUFFICES ASSUME PInv, OneSleep, [Next]_vars PROVE OneSleep'
  OBVIOUS
<1> USE DEF PInv, Times, Numbers, OneSleep, GoTo, thread, group
<1>1. CASE Spawn
  BY <1>1 DEF Spawn
<1>2. CASE Poll
  BY <1>2 DEF Poll, ReturnWith
<1>3. CASE CheckFlag
  BY <1>3 DEF CheckFlag
<1>4. CASE CheckClock
  BY <1>4 DEF CheckClock, Lesser
<1>5. CASE Wake
  BY <1>5 DEF Wake
<1>6. CASE Stop
  BY <1>6 DEF Stop, KillGroup, KillLeader
<1>7. CASE Reap
  BY <1>7 DEF Reap, ReturnWith
<1>8. CASE Drop
  BY <1>8 DEF Drop, KillGroup, KillLeader
<1>9. CASE DropWait
  BY <1>9 DEF DropWait
<1>10. CASE Tick
  BY <1>10 DEF Tick
<1>11. CASE CommandEnds
  BY <1>11 DEF CommandEnds
<1>12. CASE Fork
  BY <1>12 DEF Fork
<1>13. CASE OthersEnd
  BY <1>13 DEF OthersEnd
<1>14. CASE Interrupt
  BY <1>14 DEF Interrupt
<1>15. CASE UNCHANGED vars
  BY <1>15 DEF vars
<1> QED
  BY <1>1, <1>2, <1>3, <1>4, <1>5, <1>6, <1>7, <1>8, <1>9, <1>10, <1>11, <1>12, <1>13, <1>14, <1>15 DEF Next, Step

\* A reported timeout or interrupt means that the command and its children are
\* gone, for every schedule of the failing calls.
THEOREM StoppedCommandsAreGone == Spec => []NothingSurvivesAStop
<1>1. PInv => NothingSurvivesAStop
  BY DEF PInv, Processes
<1> QED
  BY <1>1, PInvariance, PTL

\* No signal goes to a process number the command no longer owns.
THEOREM SignalsReachOnlyTheCommand == Spec => []NoSignalAfterReap
<1>1. PInv => NoSignalAfterReap
  BY DEF PInv, Processes, ActiveIsUnreaped, Waiting, NoSignalAfterReap
<1> QED
  BY <1>1, PInvariance, PTL

\* A command reported as timed out was still running when the thread looked for
\* its end after the last sleep, however long the sleeps were and wherever the
\* thread was held up.
THEOREM TimeoutsAreReal == Spec => []NoFalseTimeout
<1>1. PInv => NoFalseTimeout
  BY DEF PInv, Times, LooksLast, LookedLast, NoFalseTimeout
<1> QED
  BY <1>1, PInvariance, PTL

\* The variables of the wait keep their types; no sleep is asked to last beyond
\* the deadline.
THEOREM TypeCorrect == Spec => []TypeOK
<1>1. PInv => TypeOK
  BY DEF PInv, Processes, Times, Flags, Numbers, TypeOK
<1> QED
  BY <1>1, PInvariance, PTL

\* With at most one failing call the command is reaped when the wait is over:
\* a failing poll or wait leaves it to the drop, which a second failure would
\* have to spoil.
THEOREM CommandsAreReaped == Spec => []CommandIsReaped
<1>1. Init => DroppedAfterFault
  BY DEF Init, DroppedAfterFault, CommandIsReaped
<1>2. DroppedAfterFault => CommandIsReaped
  BY DEF DroppedAfterFault
<1> QED
  BY <1>1, <1>2, DroppedStep, PInvariance, PTL DEF Spec

\* After an interrupt the thread begins at most one more sleep, wherever it was
\* when the flag was set.
THEOREM InterruptsArePrompt == Spec => []InterruptIsPrompt
<1>1. Init => OneSleep
  BY DEF Init, OneSleep
<1>2. OneSleep => InterruptIsPrompt
  BY DEF OneSleep, InterruptIsPrompt
<1> QED
  BY <1>1, <1>2, OneSleepStep, PInvariance, PTL DEF Spec
=============================================================================
