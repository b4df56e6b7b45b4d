---------------------------- MODULE TemporaryAreas ----------------------------
(***************************************************************************)
(* Temporary workspaces: TemporaryWorkspace in src/execution.rs.  Threads  *)
(* of several mutarust processes make, use and remove directories in one   *)
(* directory for temporary files.  A name is the process number and the    *)
(* process's own count; two processes may have the same number at the same *)
(* time (in containers that share the directory) or one after the other,   *)
(* and a process that is killed leaves its directories behind.             *)
(***************************************************************************)
EXTENDS Integers, FiniteSets

CONSTANTS
    Threads,       \* all threads, of all processes
    ProcessOf(_),  \* the process a thread belongs to
    NumberOf(_),   \* the process number of a process
    Attempts,      \* names tried for one area (100 in the code)
    MaxCount,      \* bound on the names one process uses
    MaxKills,      \* bound on the processes killed
    MaxFailures    \* bound on file operations that fail

VARIABLES
    used,      \* NEXT_TEMPORARY_WORKSPACE of each process
    doing,     \* what each thread does
    tries,     \* names it has tried for the area it makes
    held,      \* the name its TemporaryWorkspace holds, or NoName
    maker,     \* the directories that exist, with the thread that made each
    kept,      \* directories a run was asked to keep
    stuck,     \* directories whose removal failed
    orphans,   \* directories of killed processes
    kills,     \* processes killed so far
    failures   \* file operations that failed so far

tempVars == <<used, doing, tries, held, maker, kept, stuck, orphans, kills, failures>>

NoName == <<0, 0>>

Processes == {ProcessOf(t) : t \in Threads}

IsTaken(name) == name \in DOMAIN maker

Without(name) == [n \in DOMAIN maker \ {name} |-> maker[n]]

Goes(t, what) == doing' = [doing EXCEPT ![t] = what]

MayFail == failures < MaxFailures /\ failures' = failures + 1

TempInit ==
    /\ used = [p \in Processes |-> 0]
    /\ doing = [t \in Threads |-> "idle"]
    /\ tries = [t \in Threads |-> 0]
    /\ held = [t \in Threads |-> NoName]
    /\ maker = [n \in {} |-> "nobody"]
    /\ kept = {}
    /\ stuck = {}
    /\ orphans = {}
    /\ kills = 0
    /\ failures = 0

leftovers == <<kept, stuck, orphans, kills>>

\* Mistake: create_dir_all, which takes a directory that is there already.
TryNameTakesAny(t) ==
    /\ doing[t] \in {"idle", "retry"}
    /\ used[ProcessOf(t)] < MaxCount
    /\ used' = [used EXCEPT ![ProcessOf(t)] = @ + 1]
    /\ LET name == <<NumberOf(ProcessOf(t)), used[ProcessOf(t)] + 1>>
       IN  /\ maker' = [n \in DOMAIN maker \cup {name} |->
                            IF n \in DOMAIN maker THEN maker[n] ELSE t]
           /\ held' = [held EXCEPT ![t] = name]
           /\ Goes(t, "using")
           /\ tries' = [tries EXCEPT ![t] = 0]
    /\ UNCHANGED <<leftovers, failures>>

\* TemporaryWorkspace::create, one name: the count is taken and advanced in
\* one step, and the directory is made only where nothing has its name.
TryName(t) ==
    /\ doing[t] \in {"idle", "retry"}
    /\ used[ProcessOf(t)] < MaxCount
    /\ used' = [used EXCEPT ![ProcessOf(t)] = @ + 1]
    /\ LET name == <<NumberOf(ProcessOf(t)), used[ProcessOf(t)] + 1>>
       IN  \/ /\ ~IsTaken(name)
              /\ maker' = [n \in DOMAIN maker \cup {name} |->
                               IF n = name THEN t ELSE maker[n]]
              /\ held' = [held EXCEPT ![t] = name]
              /\ Goes(t, "using")
              /\ tries' = [tries EXCEPT ![t] = 0]
              /\ UNCHANGED failures
           \/ /\ IsTaken(name)
              /\ tries' = [tries EXCEPT ![t] = IF @ + 1 < Attempts THEN @ + 1 ELSE 0]
              /\ Goes(t, IF tries[t] + 1 < Attempts THEN "retry" ELSE "failed")
              /\ UNCHANGED <<maker, held, failures>>
           \/ /\ ~IsTaken(name)
              /\ MayFail
              /\ tries' = [tries EXCEPT ![t] = 0]
              /\ Goes(t, "failed")
              /\ UNCHANGED <<maker, held>>
    /\ UNCHANGED leftovers

\* finish with keep: the area is given up and its directory stays.
Keep(t) ==
    /\ doing[t] = "using"
    /\ kept' = kept \cup {held[t]}
    /\ held' = [held EXCEPT ![t] = NoName]
    /\ Goes(t, "idle")
    /\ UNCHANGED <<used, tries, maker, stuck, orphans, kills, failures>>

\* Mistake: the path is given up before the directory is removed.
FinishForgets(t) ==
    /\ doing[t] = "using"
    /\ held' = [held EXCEPT ![t] = NoName]
    /\ Goes(t, "idle")
    /\ \/ maker' = Without(held[t]) /\ UNCHANGED failures
       \/ MayFail /\ UNCHANGED maker
    /\ UNCHANGED <<used, tries, leftovers>>

\* finish without keep: the directory is removed, or the removal fails and the
\* area keeps its path until it is dropped.
Finish(t) ==
    /\ doing[t] = "using"
    /\ \/ /\ maker' = Without(held[t])
          /\ held' = [held EXCEPT ![t] = NoName]
          /\ Goes(t, "idle")
          /\ UNCHANGED failures
       \/ MayFail /\ Goes(t, "dropping") /\ UNCHANGED <<maker, held>>
    /\ UNCHANGED <<used, tries, leftovers>>

\* An error or a panic while the area is in use drops it.
Abandon(t) ==
    /\ doing[t] = "using"
    /\ Goes(t, "dropping")
    /\ UNCHANGED <<used, tries, held, maker, leftovers, failures>>

\* Drop: the directory is removed; a failure is not told.
Drop(t) ==
    /\ doing[t] = "dropping"
    /\ held' = [held EXCEPT ![t] = NoName]
    /\ Goes(t, "failed")
    /\ \/ maker' = Without(held[t]) /\ UNCHANGED <<stuck, failures>>
       \/ MayFail /\ stuck' = stuck \cup {held[t]} /\ UNCHANGED maker
    /\ UNCHANGED <<used, tries, kept, orphans, kills>>

\* A failed thread's run ends; the same process starts another.
Restart(t) ==
    /\ doing[t] = "failed"
    /\ Goes(t, "idle")
    /\ UNCHANGED <<used, tries, held, maker, leftovers, failures>>

\* A process is killed, and one with the same number starts from nothing.
KillProcess(p) ==
    LET lost == {t \in Threads : ProcessOf(t) = p}
    IN  /\ kills < MaxKills
        /\ kills' = kills + 1
        /\ orphans' = orphans \cup ({held[t] : t \in lost} \ {NoName})
        /\ used' = [used EXCEPT ![p] = 0]
        /\ doing' = [t \in Threads |-> IF t \in lost THEN "idle" ELSE doing[t]]
        /\ tries' = [t \in Threads |-> IF t \in lost THEN 0 ELSE tries[t]]
        /\ held' = [t \in Threads |-> IF t \in lost THEN NoName ELSE held[t]]
        /\ UNCHANGED <<maker, kept, stuck, failures>>

TempNext ==
    \/ \E t \in Threads : TryName(t) \/ Keep(t) \/ Finish(t) \/ Abandon(t) \/ Drop(t) \/ Restart(t)
    \/ \E p \in Processes : KillProcess(p)

TempSpec == TempInit /\ [][TempNext]_tempVars

-----------------------------------------------------------------------------

\* Every area in use is a directory of its own: it exists, the thread that uses
\* it made it, and no other thread uses it, whichever process numbers meet and
\* whatever killed processes left.
AreaHasOneHolder ==
    /\ \A t \in Threads : doing[t] \in {"using", "dropping"} =>
           IsTaken(held[t]) /\ maker[held[t]] = t
    /\ \A t, u \in Threads : t # u /\ held[t] # NoName => held[t] # held[u]

\* A directory that no thread holds was kept on request, belonged to a killed
\* process, or could not be removed: no path through create, finish and drop
\* forgets one.
LeftoversAreExplained ==
    DOMAIN maker \subseteq {held[t] : t \in Threads} \cup kept \cup stuck \cup orphans

\* Only the thread that made a directory removes it, and none that was kept is
\* ever removed.
OnlyOwnAreasRemoved ==
    [][\A n \in DOMAIN maker \ DOMAIN maker' :
          n \notin kept /\ \E t \in Threads : held[t] = n /\ maker[n] = t]_tempVars
=============================================================================
