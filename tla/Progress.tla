------------------------------- MODULE Progress -------------------------------
(***************************************************************************)
(* The live progress line of src/progress.rs.  Workers count the mutants   *)
(* they finish; a ticker thread reads the counters, one after the other,   *)
(* and draws the line again and again until the monitor is dropped, which  *)
(* the run does before anything else is printed.                           *)
(***************************************************************************)
EXTENDS Naturals, Sequences

CONSTANTS
    Counted,      \* the states with a counter, in the order they are read
    Generated,    \* the state of a mutant that was written and not tested
    MaxFinished   \* bound on the mutants a run finishes

VARIABLES
    counter,      \* ProgressCounters
    finished,     \* the mutants finished, by state
    snapshot,     \* ProgressSnapshot: the counts read last
    index,        \* the counter a snapshot reads next
    line,         \* the counts on the terminal, or Clear
    ticker,       \* what the ticker thread does
    monitor       \* what the run does with its ProgressMonitor

progressVars == <<counter, finished, snapshot, index, line, ticker, monitor>>

Clear == <<>>

CountedStates == {Counted[i] : i \in DOMAIN Counted}

ProgressInit ==
    /\ counter = [s \in CountedStates |-> 0]
    /\ finished = [s \in CountedStates \cup {Generated} |-> 0]
    /\ snapshot = counter
    /\ index = 1
    /\ line = Clear
    /\ ticker = "none"
    /\ monitor = "none"

thread == <<snapshot, index, line>>

\* ProgressMonitor::start
StartMonitor ==
    /\ monitor = "none"
    /\ monitor' = "running"
    /\ ticker' = "sleeping"
    /\ UNCHANGED <<counter, finished, thread>>

\* ProgressCounters::record, by a worker: generated mutants have no counter.
RecordState(s) ==
    /\ monitor = "running"
    /\ \A t \in DOMAIN finished : finished[t] < MaxFinished
    /\ finished' = [finished EXCEPT ![s] = @ + 1]
    /\ counter' = [t \in CountedStates |-> counter[t] + (IF t = s THEN 1 ELSE 0)]
    /\ UNCHANGED <<thread, ticker, monitor>>

\* run_ticker after its sleep: stop is looked at again.
Wake ==
    /\ ticker = "sleeping"
    /\ ticker' = IF monitor = "running" THEN "reading" ELSE "clearing"
    /\ index' = 1
    /\ UNCHANGED <<counter, finished, snapshot, line, monitor>>

\* ProgressCounters::snapshot: one relaxed load, which may find any value
\* since the one that this thread found last.
ReadCounter ==
    /\ ticker = "reading"
    /\ \E v \in snapshot[Counted[index]] .. counter[Counted[index]] :
        snapshot' = [snapshot EXCEPT ![Counted[index]] = v]
    /\ index' = index + 1
    /\ ticker' = IF index = Len(Counted) THEN "drawing" ELSE ticker
    /\ UNCHANGED <<counter, finished, line, monitor>>

\* write_progress_line, and the test of stop before the next sleep.
Draw ==
    /\ ticker = "drawing"
    /\ line' = snapshot
    /\ ticker' = IF monitor = "running" THEN "sleeping" ELSE "clearing"
    /\ UNCHANGED <<counter, finished, snapshot, index, monitor>>

ClearLine ==
    /\ ticker = "clearing"
    /\ line' = Clear
    /\ ticker' = "gone"
    /\ UNCHANGED <<counter, finished, snapshot, index, monitor>>

\* The run is over, with results or an error: stop is set.
StopMonitor ==
    /\ monitor = "running"
    /\ monitor' = "stopping"
    /\ UNCHANGED <<counter, finished, thread, ticker>>

\* Mistake: the ticker is not waited for.
DropUnjoined ==
    /\ monitor = "stopping"
    /\ monitor' = "dropped"
    /\ UNCHANGED <<counter, finished, thread, ticker>>

\* ProgressMonitor::drop: the ticker is waited for.
JoinTicker ==
    /\ monitor = "stopping"
    /\ ticker = "gone"
    /\ monitor' = "dropped"
    /\ UNCHANGED <<counter, finished, thread, ticker>>

ProgressNext ==
    \/ StartMonitor
    \/ \E s \in CountedStates \cup {Generated} : RecordState(s)
    \/ Wake
    \/ ReadCounter
    \/ Draw
    \/ ClearLine
    \/ StopMonitor
    \/ JoinTicker

ProgressSpec == ProgressInit /\ [][ProgressNext]_progressVars

\* "Dropping the monitor stops the thread and clears the line so later output
\* starts on a clean row" (src/progress.rs:67): once the drop has returned,
\* the terminal shows no line, and no thread is left that could draw one.
OutputIsClean == monitor = "dropped" => line = Clear /\ ticker = "gone"

\* The line never shows a mutant that is not finished, or one that was not
\* tested, although its counts are read at different times.
LineShowsFinished ==
    line # Clear => \A s \in CountedStates : line[s] <= finished[s]
=============================================================================
