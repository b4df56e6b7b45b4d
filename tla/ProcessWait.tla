----------------------------- MODULE ProcessWait -----------------------------
(***************************************************************************)
(* One test command and the thread that waits for it: run_cargo_command or *)
(* run_custom_command, wait_for_process, ProcessChild and stop_process     *)
(* (unix) in src/execution.rs.  The command leads a process group of its   *)
(* own; it starts other processes and may end before them.  The thread     *)
(* polls with a growing interval, and kills the group when it sees the     *)
(* interrupt flag or the deadline.                                         *)
(*                                                                         *)
(* A unit of time is the first poll interval (5 ms).  Time passes between  *)
(* any two steps of the thread, for it may have to wait for a processor,   *)
(* and a sleep may last longer than asked.  The clock is followed up to    *)
(* Horizon, and at most MaxFaults system calls fail.                       *)
(***************************************************************************)
EXTENDS Naturals

CONSTANTS
    Timeout,      \* the budget of the command
    MaxInterval,  \* the longest sleep between two polls
    Horizon,      \* bound on the clock
    MaxFaults,    \* bound on the system calls that fail
    Never         \* a time that has not come

ASSUME TimeoutAssumption == Timeout \in Nat
ASSUME MaxIntervalAssumption == MaxInterval \in Nat \ {0}
ASSUME HorizonAssumption == Horizon \in Nat /\ Horizon >= Timeout
ASSUME MaxFaultsAssumption == MaxFaults \in Nat
ASSUME NeverAssumption == Never \notin Nat

VARIABLES
    now,          \* time since the wait started
    pc,           \* where the waiting thread is
    interval,     \* the next sleep
    until,        \* the earliest end of the last sleep
    polledAt,     \* when the thread last looked for the command's end
    reason,       \* why the thread stops the command, or "none"
    stopFailed,   \* stop_process returned an error in stop_and_reap
    active,       \* ProcessChild::active
    result,       \* what wait_for_process returned, "none" before
    leader,       \* the command: "unborn", "running", "zombie" or "reaped"
    others,       \* other processes of its group are alive
    endedAt,      \* when the command ended by itself
    interrupted,  \* MUTATION_RUN_INTERRUPTED
    sleeps,       \* the sleeps the thread began since it was set
    faults        \* the system calls that failed so far

thread == <<pc, interval, until, polledAt, reason, stopFailed, active, result, sleeps>>
group == <<leader, others, endedAt>>
vars == <<now, pc, interval, until, polledAt, reason, stopFailed, active, result,
          leader, others, endedAt, interrupted, sleeps, faults>>

Lesser(a, b) == IF a < b THEN a ELSE b

Init ==
    /\ now = 0
    /\ pc = "spawn"
    /\ interval = 1
    /\ until = 0
    /\ polledAt = 0
    /\ reason = "none"
    /\ stopFailed = FALSE
    /\ active = FALSE
    /\ result = "none"
    /\ leader = "unborn"
    /\ others = FALSE
    /\ endedAt = Never
    /\ interrupted = FALSE
    /\ sleeps = 0
    /\ faults = 0

Fault == faults < MaxFaults /\ faults' = faults + 1

GoTo(place) == pc' = place

\* A return drops the ProcessChild.
ReturnWith(r) == result' = r /\ GoTo("drop")

-----------------------------------------------------------------------------
(* The waiting thread.                                                     *)

\* stop_if_interrupted, configure_process_group, spawn, ProcessChild::new.
Spawn ==
    /\ pc = "spawn"
    /\ \/ /\ interrupted
          /\ result' = "interrupted" /\ GoTo("done")
          /\ UNCHANGED <<active, leader, faults>>
       \/ /\ ~interrupted
          /\ Fault
          /\ result' = "error" /\ GoTo("done")
          /\ UNCHANGED <<active, leader>>
       \/ /\ ~interrupted
          /\ leader' = "running"
          /\ active' = TRUE
          /\ GoTo("poll")
          /\ UNCHANGED <<result, faults>>
    /\ UNCHANGED <<now, interval, until, polledAt, reason, stopFailed, others, endedAt,
                   interrupted, sleeps>>

\* Mistake: the child that try_wait reaped still counts as active.
PollKeepsActive ==
    /\ pc = "poll"
    /\ \/ /\ leader = "zombie"
          /\ leader' = "reaped"
          /\ ReturnWith("exited")
       \/ /\ leader = "running"
          /\ GoTo("flag")
          /\ UNCHANGED <<leader, result>>
    /\ polledAt' = now
    /\ UNCHANGED <<now, interval, until, reason, stopFailed, active, others, endedAt,
                   interrupted, sleeps, faults>>

\* try_wait.
Poll ==
    /\ pc = "poll"
    /\ \/ /\ leader = "zombie"
          /\ leader' = "reaped"
          /\ active' = FALSE
          /\ ReturnWith("exited")
          /\ UNCHANGED <<reason, faults>>
       \/ /\ leader = "running"
          /\ GoTo("flag")
          /\ UNCHANGED <<leader, active, result, reason, faults>>
       \/ /\ Fault
          /\ reason' = "waitError"
          /\ GoTo("stop")
          /\ UNCHANGED <<leader, active, result>>
    /\ polledAt' = now
    /\ UNCHANGED <<now, interval, until, stopFailed, others, endedAt, interrupted, sleeps>>

CheckFlag ==
    /\ pc = "flag"
    /\ IF interrupted
       THEN reason' = "interrupted" /\ GoTo("stop")
       ELSE GoTo("clock") /\ UNCHANGED reason
    /\ UNCHANGED <<now, interval, until, polledAt, stopFailed, active, result, group,
                   interrupted, sleeps, faults>>

\* elapsed, then the sleep: never beyond the deadline, as of that look at the
\* clock.
CheckClock ==
    /\ pc = "clock"
    /\ IF now >= Timeout
       THEN /\ reason' = "timedOut"
            /\ GoTo("stop")
            /\ UNCHANGED <<interval, until, sleeps>>
       ELSE /\ until' = now + Lesser(interval, Timeout - now)
            /\ interval' = Lesser(2 * interval, MaxInterval)
            /\ sleeps' = IF interrupted THEN sleeps + 1 ELSE sleeps
            /\ GoTo("asleep")
            /\ UNCHANGED reason
    /\ UNCHANGED <<now, polledAt, stopFailed, active, result, group, interrupted, faults>>

\* Mistake: the clock is read before the command's end is looked for.
WakeToClock ==
    /\ pc = "asleep"
    /\ now >= until
    /\ GoTo("clock")
    /\ UNCHANGED <<now, interval, until, polledAt, reason, stopFailed, active, result, group,
                   interrupted, sleeps, faults>>

Wake ==
    /\ pc = "asleep"
    /\ now >= until
    /\ GoTo("poll")
    /\ UNCHANGED <<now, interval, until, polledAt, reason, stopFailed, active, result, group,
                   interrupted, sleeps, faults>>

\* Mistake: child.kill() alone, which signals one process.
KillOneProcess ==
    /\ leader' = IF leader = "running" THEN "zombie" ELSE leader
    /\ UNCHANGED others

\* SIGKILL to the group, or only to the command when the first call fails.
KillGroup ==
    /\ leader' = IF leader = "running" THEN "zombie" ELSE leader
    /\ others' = FALSE

KillLeader ==
    /\ leader' = IF leader = "running" THEN "zombie" ELSE leader
    /\ UNCHANGED others

\* Mistake: when the group cannot be killed, the command is not tried alone.
StopGroupOnly ==
    /\ pc = "stop"
    /\ \/ KillGroup /\ UNCHANGED <<stopFailed, faults>>
       \/ Fault /\ stopFailed' = TRUE /\ UNCHANGED <<leader, others>>
    /\ GoTo("reap")
    /\ UNCHANGED <<now, interval, until, polledAt, reason, active, result, endedAt,
                   interrupted, sleeps>>

Stop ==
    /\ pc = "stop"
    /\ \/ KillGroup /\ UNCHANGED <<stopFailed, faults>>
       \/ Fault /\ stopFailed' = TRUE /\ KillLeader
       \* both calls fail
       \/ /\ faults + 2 <= MaxFaults
          /\ faults' = faults + 2
          /\ stopFailed' = TRUE
          /\ UNCHANGED <<leader, others>>
    /\ GoTo("reap")
    /\ UNCHANGED <<now, interval, until, polledAt, reason, active, result, endedAt,
                   interrupted, sleeps>>

\* wait blocks until the command ended.
Reap ==
    /\ pc = "reap"
    /\ \/ /\ leader = "zombie"
          /\ leader' = "reaped"
          /\ active' = FALSE
          /\ ReturnWith(IF stopFailed \/ reason = "waitError" THEN "error" ELSE reason)
          /\ UNCHANGED faults
       \/ /\ Fault
          /\ ReturnWith("error")
          /\ UNCHANGED <<leader, active>>
    /\ UNCHANGED <<now, interval, until, polledAt, reason, stopFailed, others, endedAt,
                   interrupted, sleeps>>

\* ProcessChild::drop: a child that is not reaped is stopped once more.
Drop ==
    /\ pc = "drop"
    /\ IF active
       THEN /\ \/ KillGroup /\ UNCHANGED faults
               \/ Fault /\ KillLeader
            /\ GoTo("dropWait")
       ELSE GoTo("done") /\ UNCHANGED <<leader, others, faults>>
    /\ UNCHANGED <<now, interval, until, polledAt, reason, stopFailed, active, result, endedAt,
                   interrupted, sleeps>>

DropWait ==
    /\ pc = "dropWait"
    /\ \/ leader = "zombie" /\ leader' = "reaped" /\ UNCHANGED faults
       \/ Fault /\ UNCHANGED leader
    /\ GoTo("done")
    /\ UNCHANGED <<now, interval, until, polledAt, reason, stopFailed, active, result,
                   others, endedAt, interrupted, sleeps>>

-----------------------------------------------------------------------------
(* The command, the user and the clock.                                    *)

CommandEnds ==
    /\ leader = "running"
    /\ leader' = "zombie"
    /\ endedAt' = now
    /\ UNCHANGED <<now, thread, others, interrupted, faults>>

\* A live process of the group starts another one.
Fork ==
    /\ leader = "running"
    /\ others' = TRUE
    /\ UNCHANGED <<now, thread, leader, endedAt, interrupted, faults>>

OthersEnd ==
    /\ others
    /\ others' = FALSE
    /\ UNCHANGED <<now, thread, leader, endedAt, interrupted, faults>>

\* SIGINT (record_interrupt).
Interrupt ==
    /\ ~interrupted
    /\ interrupted' = TRUE
    /\ UNCHANGED <<now, thread, group, faults>>

\* Nothing the thread does keeps the time from passing.
Tick ==
    /\ pc \notin {"spawn", "done"}
    /\ now < Horizon
    /\ now' = now + 1
    /\ UNCHANGED <<thread, group, interrupted, faults>>

Step == Spawn \/ Poll \/ CheckFlag \/ CheckClock \/ Wake \/ Stop \/ Reap \/ Drop \/ DropWait

Next == Step \/ Tick \/ CommandEnds \/ Fork \/ OthersEnd \/ Interrupt

Spec == Init /\ [][Next]_vars

\* The thread goes on whenever its next call can succeed, and time passes; no
\* call need fail, and the command need not end by itself.
FairSpec == Spec /\ WF_vars(Step /\ UNCHANGED faults) /\ WF_vars(Tick)

-----------------------------------------------------------------------------
Places == {"spawn", "poll", "flag", "clock", "asleep", "stop", "reap", "drop",
           "dropWait", "done"}
Reasons == {"none", "waitError", "interrupted", "timedOut"}
Results == {"none", "exited", "interrupted", "timedOut", "error"}

TypeOK ==
    /\ now \in 0 .. Horizon
    /\ pc \in Places
    /\ interval \in 1 .. MaxInterval
    /\ until \in 0 .. Timeout
    /\ polledAt \in 0 .. Horizon
    /\ reason \in Reasons
    /\ stopFailed \in BOOLEAN
    /\ active \in BOOLEAN
    /\ result \in Results
    /\ leader \in {"unborn", "running", "zombie", "reaped"}
    /\ others \in BOOLEAN
    /\ endedAt \in Nat \cup {Never}
    /\ interrupted \in BOOLEAN
    /\ sleeps \in Nat
    /\ faults \in 0 .. MaxFaults

\* A run that reports a timeout or an interrupt left no process of the command
\* behind: the command and its children were stopped, whatever calls failed.
NothingSurvivesAStop ==
    result \in {"timedOut", "interrupted"} => leader \in {"unborn", "reaped"} /\ ~others

\* A signal is sent only while the command is not reaped; after that its number
\* may belong to an unrelated process group.
NoSignalAfterReap == (pc \in {"stop", "dropWait"} \/ (pc = "drop" /\ active)) =>
    leader \in {"running", "zombie"}

\* One failed call does not leave the command running or a zombie.
CommandIsReaped ==
    pc = "done" /\ faults <= 1 => leader \in {"unborn", "reaped"}

\* A command reported as timed out was still running when the thread last
\* looked, and it looked after its last sleep: an end during a sleep, however
\* long the sleep was, is never taken for a timeout.  The limit: an end between
\* that look and the look at the clock (execution.rs:3418 and 3425) may be, even
\* one before the deadline, if the deadline passes in between.
NoFalseTimeout ==
    result = "timedOut" /\ endedAt # Never => endedAt >= polledAt /\ polledAt >= until

\* An interrupted thread begins at most one more sleep, of MaxInterval at most,
\* before it stops the command.
InterruptIsPrompt == interrupted => sleeps <= 1

\* Whatever the command does, the thread returns: the step a worker waits for.
\* (With a second failing call it may wait as long as the command runs.)
WaitEnds == <>(pc = "done" \/ faults > 1)
=============================================================================
