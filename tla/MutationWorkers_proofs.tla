------------------------ MODULE MutationWorkers_proofs ------------------------
(***************************************************************************)
(* Proofs about MutationWorkers: whatever its file operations do, the      *)
(* threads work as WorkerPool says.  If at most one of them fails, for     *)
(* every number of threads, candidates, sources and workspaces, no test    *)
(* sees two mutations and only an area that could not be removed is left;  *)
(* if none fails, the tests of a mutant see that mutant alone.             *)
(***************************************************************************)
EXTENDS MutationWorkers, WorkerPool_proofs

-----------------------------------------------------------------------------
(* The steps with files are steps of the pool.                             *)

LEMMA WorkAreaIsWork ==
    ASSUME NEW t \in Threads, WorkArea(t)
    PROVE  Work(t) \/ UNCHANGED vars
<1>1. CASE TakeCandidate(t) \/ LeaveExhausted(t) \/ StartCandidate(t) \/ RecheckFlag(t)
           \/ PanicInTest(t)
  BY <1>1 DEF TakeCandidate, LeaveExhausted, StartCandidate, RecheckFlag, PanicInTest, Work
<1>2. ASSUME NEW v, Return(t, v) PROVE Work(t)
  BY <1>2 DEF Return, FinishWith, Finish, Work
<1>3. CASE ReturnEarly(t)
  BY <1>2, <1>3 DEF ReturnEarly
<1>4. ReturnError(t) => Work(t)
  BY <1>2 DEF ReturnError
<1>5. CASE ClaimFails(t)
  BY <1>4, <1>5 DEF ClaimFails
<1>6. CASE ResetFails(t)
  BY <1>4, <1>6 DEF ResetFails
<1>7. CASE RestoreFails(t) \/ ReadFails(t) \/ ApplyOrWriteFails(t) \/ ResetArea(t)
  BY <1>2, <1>7 DEF RestoreFails, ReadFails, ApplyOrWriteFails, ResetArea
<1>8. CASE Reuse(t) \/ Claim(t)
  BY <1>8 DEF Reuse, Claim, Continues, vars
<1>9. CASE WriteMutant(t) \/ RunTests(t)
  BY <1>9 DEF WriteMutant, RunTests, vars
<1> QED
  BY <1>1, <1>3, <1>5, <1>6, <1>7, <1>8, <1>9 DEF WorkArea

LEMMA AreaNextIsNext == [AreaNext]_allVars => [Next]_vars
BY WorkAreaIsWork
   DEF AreaNext, Next, InterruptRun, ConcludeRun, allVars, vars

\* Every step of the threads on their areas is a step of the pool or leaves
\* the pool as it is: the safety part of ImplementsPool, for any number of
\* failing file operations.
THEOREM ImplementsPoolSafety == AreaSafety => Spec
<1>1. AreaInit => Init
  BY DEF AreaInit
<1> QED
  BY <1>1, AreaNextIsNext, PTL DEF AreaSafety, Spec

-----------------------------------------------------------------------------
(* Who holds which area.                                                   *)

Texts == (SUBSET Candidates) \cup {Absent, Broken, Shared}

\* What is in a file that is there and no link.
Whole == (SUBSET Candidates) \cup {Broken}

\* The supposition of the theorems below.
AtMostOneFault == MaxFaults \in {0, 1}

Phases == {"idle", "prepare", "write", "run", "reset"}
Dirties == [path : Sources \cup {NoArea}, original : Whole]

AreasTyped ==
    /\ phase \in [Threads -> Phases]
    /\ scratch \in [Threads -> [area : Areas \cup {NoArea}, root : Roots \cup {NoArea},
                                dirty : Dirties]]
    /\ warm \in [Roots -> Areas \cup {NoArea}]
    /\ tree \in [Areas -> Contents \cup {NoArea}]
    /\ stuck \in SUBSET Areas
    /\ faults \in 0 .. MaxFaults

\* No area is held twice, by two threads, two builds, or a thread and a build.
HoldersDiffer ==
    /\ \A t, u \in Threads : t # u /\ scratch[t].area # NoArea
                                => scratch[t].area # scratch[u].area
    /\ \A t \in Threads, r \in Roots : warm[r] # NoArea => warm[r] # scratch[t].area
    /\ \A r, q \in Roots : r # q /\ warm[r] # NoArea => warm[r] # warm[q]

\* Private sources are no links.
OwnsPrivate(c) == \A s \in Private : c.files[s] # Shared

\* Area content c is as copy_workspace left it for root r, as far as it is
\* private.
CleanFor(c, r) ==
    /\ c.litter \subseteq {"target"}
    /\ \A s \in Private : c.files[s] = Clean(r).files[s]

\* What a clean-suite build holds while clones have links to it.
IsBuild(c, r) ==
    c \in Contents /\ CleanFor(c, r) /\ \A s \in Sources : c.files[s] # Shared

\* The area of a thread exists, and so does a clean-suite build.
HeldExist ==
    /\ \A t \in Threads : scratch[t].area # NoArea =>
          tree[scratch[t].area] \in Contents /\ OwnsPrivate(tree[scratch[t].area])
    /\ \A t \in Threads : scratch[t].area = NoArea <=> scratch[t].root = NoArea
    /\ \A r \in Roots : warm[r] # NoArea => IsBuild(tree[warm[r]], r)

\* Of the areas nobody holds only those exist whose removal failed.
OthersGone ==
    \A a \in Areas : tree[a] # NoArea =>
        \/ \E t \in Threads : scratch[t].area = a
        \/ \E r \in Roots : warm[r] = a
        \/ a \in stuck

\* There is one at most, and it used up the fault.
StuckIsFault == \E left \in Areas \cup {NoArea} : (left # NoArea => faults = 1) /\ stuck \subseteq {left}

Owned == AreasTyped /\ HoldersDiffer /\ HeldExist /\ OthersGone /\ StuckIsFault

\* A step leaves the area of thread u alone.
AreaStays(u) ==
    /\ scratch'[u] = scratch[u]
    /\ scratch[u].area # NoArea => tree'[scratch[u].area] = tree[scratch[u].area]

LEMMA PrivateIsSource == Private \subseteq Sources /\ (Sequential => Private = Sources)
                         /\ NoArea \notin Private
BY NoAreaAssumption DEF Private

LEMMA TextsDiffer ==
    /\ Original \in SUBSET Candidates /\ Original \in Whole
    /\ Original # Absent /\ Original # Broken /\ Original # Shared
    /\ Absent # Shared /\ Broken # Shared /\ Absent # Broken
    /\ Whole \subseteq Texts /\ Shared \notin Whole /\ Absent \notin Whole
BY TextAssumption DEF Original, Whole, Texts

LEMMA CleanIsContents ==
    ASSUME NEW r PROVE Clean(r) \in Contents /\ Clean(r) # NoArea /\ CleanFor(Clean(r), r)
                       /\ \A s \in Sources : Clean(r).files[s] \in {Original, Absent}
                                            /\ Clean(r).files[s] # Shared
BY NoAreaAssumption, TextsDiffer, PrivateIsSource DEF Clean, Contents, Original, CleanFor

LEMMA ContentsNotNoArea == NoArea \notin Contents
BY NoAreaAssumption

LEMMA NoScratchTyped ==
    /\ NoScratch.area = NoArea /\ NoScratch.root = NoArea
    /\ NoDirty \in Dirties /\ NoDirty.path \notin Private /\ NoDirty.original = Original
    /\ NoScratch \in [area : Areas \cup {NoArea}, root : Roots \cup {NoArea}, dirty : Dirties]
BY PrivateIsSource, TextsDiffer DEF NoScratch, NoDirty, Dirties

\* A faulty operation uses up the fault.
LEMMA FaultFacts ==
    ASSUME AtMostOneFault, faults \in 0 .. MaxFaults, Fault
    PROVE  faults = 0 /\ faults' = 1 /\ faults' \in 0 .. MaxFaults
BY DEF AtMostOneFault, Fault

\* Dropping an area removes it, or uses up the one fault.
LEMMA DropFacts ==
    ASSUME AtMostOneFault, faults \in 0 .. MaxFaults, StuckIsFault, stuck \in SUBSET Areas,
           NEW T \in [Areas -> Contents \cup {NoArea}], NEW a \in Areas \cup {NoArea},
           Drop(a, T)
    PROVE  /\ faults' \in 0 .. MaxFaults /\ (faults' = 0 => faults = 0)
           /\ StuckIsFault' /\ stuck' \in SUBSET Areas /\ stuck \subseteq stuck'
           /\ tree' \in [Areas -> Contents \cup {NoArea}]
           /\ \A b \in Areas : b # a => tree'[b] = T[b]
           /\ a # NoArea => tree'[a] = NoArea \/ a \in stuck'
<1>1. CASE a = NoArea /\ tree' = T /\ UNCHANGED <<stuck, faults>>
  BY <1>1 DEF StuckIsFault
<1>2. CASE a # NoArea /\ tree' = [T EXCEPT ![a] = NoArea] /\ UNCHANGED <<stuck, faults>>
  BY <1>2 DEF StuckIsFault
<1>3. CASE a # NoArea /\ Fault /\ tree' = T /\ stuck' = stuck \cup {a}
  <2>1. faults = 0 /\ faults' = 1 /\ faults' \in 0 .. MaxFaults
    BY <1>3, FaultFacts
  <2>2. stuck = {}
    BY <2>1, NoAreaAssumption DEF StuckIsFault
  <2>3. StuckIsFault'
    BY <1>3, <2>1, <2>2 DEF StuckIsFault
  <2> QED
    BY <1>3, <2>1, <2>3
<1> QED
  BY <1>1, <1>2, <1>3 DEF Drop

\* A thread that drops its scratch takes its area with it, unless the removal
\* fails, and disturbs nobody.
LEMMA DropKeeps ==
    ASSUME AtMostOneFault, Owned, NEW t \in Threads, DropScratch(t), warm' = warm,
           phase' \in [Threads -> Phases]
    PROVE  /\ Owned' /\ scratch'[t] = NoScratch
           /\ faults' = 0 => faults = 0
           /\ \A u \in Threads \ {t} : AreaStays(u)
<1> DEFINE old == scratch[t].area
<1>1. /\ scratch' = [scratch EXCEPT ![t] = NoScratch]
      /\ scratch'[t] = NoScratch
      /\ \A u \in Threads \ {t} : scratch'[u] = scratch[u]
  BY DEF DropScratch, Owned, AreasTyped
<1>2. /\ old \in Areas \cup {NoArea} /\ Drop(old, tree)
      /\ tree \in [Areas -> Contents \cup {NoArea}] /\ faults \in 0 .. MaxFaults
      /\ StuckIsFault /\ stuck \in SUBSET Areas
  BY DEF DropScratch, Owned, AreasTyped
<1> HIDE DEF old
<1>3. /\ faults' \in 0 .. MaxFaults /\ (faults' = 0 => faults = 0)
      /\ StuckIsFault' /\ stuck' \in SUBSET Areas /\ stuck \subseteq stuck'
      /\ tree' \in [Areas -> Contents \cup {NoArea}]
      /\ \A b \in Areas : b # old => tree'[b] = tree[b]
      /\ old # NoArea => tree'[old] = NoArea \/ old \in stuck'
  BY <1>2, DropFacts
<1>4. \A u \in Threads \ {t} : AreaStays(u)
  BY <1>1, <1>3 DEF old, AreaStays, Owned, AreasTyped, HoldersDiffer
<1>5. AreasTyped'
  <2>1. scratch' \in [Threads -> [area : Areas \cup {NoArea}, root : Roots \cup {NoArea},
                                  dirty : Dirties]]
    BY <1>1, NoScratchTyped DEF Owned, AreasTyped
  <2> QED
    BY <1>3, <2>1 DEF Owned, AreasTyped
<1>6. HoldersDiffer'
  BY <1>1, NoScratchTyped DEF Owned, AreasTyped, HoldersDiffer
<1>7. HeldExist'
  <2>1. \A u \in Threads : scratch'[u].area # NoArea =>
            tree'[scratch'[u].area] \in Contents /\ OwnsPrivate(tree'[scratch'[u].area])
    BY <1>1, <1>4, NoScratchTyped DEF AreaStays, Owned, HeldExist
  <2>2. \A u \in Threads : scratch'[u].area = NoArea <=> scratch'[u].root = NoArea
    BY <1>1, NoScratchTyped DEF Owned, HeldExist
  <2>3. \A r \in Roots : warm[r] # NoArea => warm[r] \in Areas /\ warm[r] # old
    BY DEF old, Owned, AreasTyped, HoldersDiffer
  <2>4. \A r \in Roots : warm[r] # NoArea => IsBuild(tree'[warm[r]], r)
    BY <1>3, <2>3 DEF Owned, HeldExist
  <2> QED
    BY <2>1, <2>2, <2>4 DEF HeldExist
<1>8. OthersGone'
  <2>1. ASSUME NEW b \in Areas, tree'[b] # NoArea
        PROVE  \/ \E u \in Threads : scratch'[u].area = b
               \/ \E r \in Roots : warm'[r] = b
               \/ b \in stuck'
    <3>1. CASE b = old
      BY <1>3, <2>1, <3>1, NoAreaAssumption
    <3>2. CASE b # old
      <4>1. \/ \E u \in Threads : scratch[u].area = b
            \/ \E r \in Roots : warm[r] = b
            \/ b \in stuck
        BY <1>3, <2>1, <3>2 DEF Owned, OthersGone
      <4> QED
        BY <1>1, <1>3, <3>2, <4>1 DEF old
    <3> QED
      BY <3>1, <3>2
  <2> QED
    BY <2>1 DEF OthersGone
<1> QED
  BY <1>1, <1>3, <1>4, <1>5, <1>6, <1>7, <1>8 DEF Owned

\* A thread that installs an area no thread holds gives up the one it had; a
\* clean-suite build it takes over leaves the map.
LEMMA InstallKeeps ==
    ASSUME AtMostOneFault, Owned, NEW t \in Threads, NEW a \in Areas, NEW c \in Contents,
           RootOfCandidate(current[t]) \in Roots, OwnsPrivate(c),
           Install(t, a, c),
           \A u \in Threads : scratch[u].area # a,
           warm' \in [Roots -> Areas \cup {NoArea}],
           \A r \in Roots : warm'[r] = IF warm[r] = a THEN NoArea ELSE warm[r]
    PROVE  /\ Owned'
           /\ scratch'[t] = [area |-> a, root |-> RootOfCandidate(current[t]), dirty |-> NoDirty]
           /\ tree'[a] = c
           /\ faults' = 0 => faults = 0
           /\ \A u \in Threads \ {t} : AreaStays(u)
<1> DEFINE old == scratch[t].area
           T == [tree EXCEPT ![a] = c]
           new == [area |-> a, root |-> RootOfCandidate(current[t]), dirty |-> NoDirty]
<1>1. /\ scratch' = [scratch EXCEPT ![t] = new]
      /\ scratch'[t] = new
      /\ \A u \in Threads \ {t} : scratch'[u] = scratch[u]
  BY DEF Install, Owned, AreasTyped
<1>2. new.area = a /\ new.root = RootOfCandidate(current[t]) /\ new.dirty = NoDirty
      /\ new.area # NoArea /\ new.root # NoArea
  BY NoAreaAssumption
<1>3. /\ old \in Areas \cup {NoArea} /\ Drop(old, T) /\ old # a
      /\ T \in [Areas -> Contents \cup {NoArea}] /\ faults \in 0 .. MaxFaults
      /\ StuckIsFault /\ stuck \in SUBSET Areas
      /\ T[a] = c /\ \A b \in Areas \ {a} : T[b] = tree[b]
  BY DEF Install, Owned, AreasTyped
<1> HIDE DEF old, T
<1>4. /\ faults' \in 0 .. MaxFaults /\ (faults' = 0 => faults = 0)
      /\ StuckIsFault' /\ stuck' \in SUBSET Areas /\ stuck \subseteq stuck'
      /\ tree' \in [Areas -> Contents \cup {NoArea}]
      /\ tree'[a] = c
      /\ \A b \in Areas \ {a} : b # old => tree'[b] = tree[b]
      /\ old # NoArea => tree'[old] = NoArea \/ old \in stuck'
  BY <1>3, DropFacts
<1>5. \A u \in Threads \ {t} : AreaStays(u)
  BY <1>1, <1>4 DEF old, AreaStays, Owned, AreasTyped, HoldersDiffer
<1>6. AreasTyped'
  <2>1. new \in [area : Areas \cup {NoArea}, root : Roots \cup {NoArea}, dirty : Dirties]
    BY NoScratchTyped
  <2>2. scratch' \in [Threads -> [area : Areas \cup {NoArea}, root : Roots \cup {NoArea},
                                  dirty : Dirties]]
    BY <1>1, <2>1 DEF Owned, AreasTyped
  <2>3. phase' \in [Threads -> Phases]
    BY DEF Install, Owned, AreasTyped, Phases
  <2> QED
    BY <1>4, <2>2, <2>3 DEF AreasTyped
<1>7. HoldersDiffer'
  BY <1>1, <1>2 DEF Owned, AreasTyped, HoldersDiffer
<1>8. HeldExist'
  <2>1. \A u \in Threads : scratch'[u].area # NoArea =>
            tree'[scratch'[u].area] \in Contents /\ OwnsPrivate(tree'[scratch'[u].area])
    BY <1>1, <1>2, <1>4, <1>5 DEF AreaStays, Owned, HeldExist
  <2>2. \A u \in Threads : scratch'[u].area = NoArea <=> scratch'[u].root = NoArea
    BY <1>1, <1>2 DEF Owned, HeldExist
  <2>3. \A r \in Roots : warm'[r] # NoArea =>
            warm'[r] = warm[r] /\ warm[r] \in Areas \ {a} /\ warm[r] # old
    BY DEF old, Owned, AreasTyped, HoldersDiffer
  <2>4. \A r \in Roots : warm'[r] # NoArea => IsBuild(tree'[warm'[r]], r)
    BY <1>4, <2>3 DEF Owned, HeldExist
  <2> QED
    BY <2>1, <2>2, <2>4 DEF HeldExist
<1>9. OthersGone'
  <2>1. ASSUME NEW b \in Areas, tree'[b] # NoArea, b # a
        PROVE  \/ \E u \in Threads : scratch'[u].area = b
               \/ \E r \in Roots : warm'[r] = b
               \/ b \in stuck'
    <3>1. CASE b = old
      BY <1>4, <2>1, <3>1, NoAreaAssumption
    <3>2. CASE b # old
      <4>1. tree[b] # NoArea
        BY <1>4, <2>1, <3>2
      <4>2. \/ \E u \in Threads : scratch[u].area = b
            \/ \E r \in Roots : warm[r] = b
            \/ b \in stuck
        BY <2>1, <4>1 DEF Owned, OthersGone
      <4> QED
        BY <1>1, <1>4, <2>1, <3>2, <4>2 DEF old
    <3> QED
      BY <3>1, <3>2
  <2> QED
    BY <1>1, <1>2, <2>1 DEF OthersGone
<1> QED
  BY <1>1, <1>2, <1>4, <1>5, <1>6, <1>7, <1>8, <1>9 DEF Owned

\* Two contents of a clean-suite build of which links can have made the second
\* out of the first.
Alike(c, e) ==
    /\ e \in Contents /\ e.litter = c.litter
    /\ \A s \in Private : e.files[s] = c.files[s]
    /\ \A s \in Sources : e.files[s] # Shared

\* Areas T differ from what there is in thread t's own area, and behind links.
Touched(t, T) ==
    /\ T \in [Areas -> Contents \cup {NoArea}]
    /\ T[scratch[t].area] \in Contents /\ OwnsPrivate(T[scratch[t].area])
    /\ \A a \in Areas \ {scratch[t].area} :
          T[a] = tree[a] \/ (\E r \in Roots : warm[r] = a /\ Alike(tree[a], T[a]))

\* A thread that writes in its own area, or through its links, disturbs nobody.
LEMMA WriteKeeps ==
    ASSUME Owned, NEW t \in Threads, NEW d \in Dirties,
           scratch[t].area # NoArea,
           Touched(t, tree'), scratch' = [scratch EXCEPT ![t].dirty = d],
           warm' = warm, stuck' = stuck, phase' \in [Threads -> Phases],
           AtMostOneFault, faults' \in 0 .. MaxFaults, faults' = 0 => faults = 0
    PROVE  /\ Owned'
           /\ scratch'[t].area = scratch[t].area /\ scratch'[t].root = scratch[t].root
           /\ scratch'[t].dirty = d
           /\ Tree(t)' = tree'[scratch[t].area]
           /\ \A u \in Threads \ {t} : AreaStays(u)
<1> DEFINE old == scratch[t].area
<1>1. /\ scratch'[t].area = old /\ scratch'[t].root = scratch[t].root
      /\ scratch'[t].dirty = d
      /\ scratch' \in [Threads -> [area : Areas \cup {NoArea}, root : Roots \cup {NoArea},
                                   dirty : Dirties]]
      /\ \A u \in Threads \ {t} : scratch'[u] = scratch[u]
  BY DEF Owned, AreasTyped
<1>2. /\ old \in Areas
      /\ tree' \in [Areas -> Contents \cup {NoArea}]
      /\ tree'[old] \in Contents /\ OwnsPrivate(tree'[old])
      /\ \A a \in Areas \ {old} :
            tree'[a] = tree[a] \/ (\E r \in Roots : warm[r] = a /\ Alike(tree[a], tree'[a]))
  BY DEF Touched, Owned, AreasTyped
<1>3. \A u \in Threads \ {t} : AreaStays(u)
  <2> SUFFICES ASSUME NEW u \in Threads \ {t}, scratch[u].area # NoArea
               PROVE  tree'[scratch[u].area] = tree[scratch[u].area]
    BY <1>1 DEF AreaStays
  <2>1. scratch[u].area \in Areas \ {old} /\ \A r \in Roots : warm[r] # scratch[u].area
    BY DEF Owned, AreasTyped, HoldersDiffer
  <2> QED
    BY <1>2, <2>1
<1>4. AreasTyped'
  BY <1>1, <1>2 DEF Owned, AreasTyped
<1>5. HoldersDiffer'
  BY <1>1 DEF Owned, AreasTyped, HoldersDiffer
<1>6. HeldExist'
  <2>1. \A u \in Threads : scratch'[u].area # NoArea =>
            tree'[scratch'[u].area] \in Contents /\ OwnsPrivate(tree'[scratch'[u].area])
    BY <1>1, <1>2, <1>3 DEF AreaStays, Owned, HeldExist
  <2>2. \A u \in Threads : scratch'[u].area = NoArea <=> scratch'[u].root = NoArea
    BY <1>1 DEF Owned, HeldExist
  <2>3. ASSUME NEW r \in Roots, warm[r] # NoArea PROVE IsBuild(tree'[warm[r]], r)
    <3>1. warm[r] \in Areas \ {old} /\ IsBuild(tree[warm[r]], r)
      BY <2>3 DEF Owned, AreasTyped, HoldersDiffer, HeldExist
    <3>2. tree'[warm[r]] = tree[warm[r]] \/ Alike(tree[warm[r]], tree'[warm[r]])
      BY <1>2, <3>1
    <3> QED
      BY <3>1, <3>2 DEF IsBuild, CleanFor, Alike
  <2> QED
    BY <2>1, <2>2, <2>3 DEF HeldExist
<1>7. OthersGone'
  <2>1. ASSUME NEW a \in Areas, tree'[a] # NoArea, a # old
        PROVE  \/ \E u \in Threads : scratch'[u].area = a
               \/ \E r \in Roots : warm[r] = a
               \/ a \in stuck
    BY <1>1, <1>2, <2>1 DEF Owned, OthersGone
  <2> QED
    BY <1>1, <2>1 DEF OthersGone
<1>8. StuckIsFault'
  <2>1. faults = 1 => faults' = 1
    <3>1. MaxFaults \in {0, 1} /\ faults \in 0 .. MaxFaults
      BY DEF Owned, AreasTyped, AtMostOneFault
    <3> QED
      BY <3>1
  <2> QED
    BY <2>1 DEF Owned, StuckIsFault
<1> QED
  BY <1>1, <1>2, <1>3, <1>4, <1>5, <1>6, <1>7, <1>8 DEF Owned, Tree

LEMMA RestKeeps ==
    ASSUME AtMostOneFault, Owned, UNCHANGED <<tree, scratch, warm, stuck>>,
           phase' \in [Threads -> Phases], faults' \in 0 .. MaxFaults, faults' = 0 => faults = 0
    PROVE  Owned' /\ \A u \in Threads : AreaStays(u)
<1>1. AreasTyped' /\ HoldersDiffer' /\ OthersGone'
  BY DEF Owned, AreasTyped, HoldersDiffer, OthersGone
<1>2. HeldExist'
  <2>1. \A u \in Threads : scratch'[u].area # NoArea =>
            tree'[scratch'[u].area] \in Contents /\ OwnsPrivate(tree'[scratch'[u].area])
    BY DEF Owned, HeldExist
  <2>2. \A u \in Threads : scratch'[u].area = NoArea <=> scratch'[u].root = NoArea
    BY DEF Owned, HeldExist
  <2>3. \A r \in Roots : warm'[r] # NoArea => IsBuild(tree'[warm'[r]], r)
    BY DEF Owned, HeldExist
  <2> QED
    BY <2>1, <2>2, <2>3 DEF HeldExist
<1>3. StuckIsFault'
  BY DEF Owned, AreasTyped, StuckIsFault, AtMostOneFault
<1> QED
  BY <1>1, <1>2, <1>3 DEF Owned, AreaStays

-----------------------------------------------------------------------------
(* What a thread knows about its own area.                                 *)

Unmutated == {Original, Absent, Broken}

\* Where a thread is in its work, and that it works in an area of the right
\* workspace.
Placed(t) ==
    /\ phase[t] = "idle" <=> pc[t] # "testing"
    /\ pc[t] \in Left => scratch[t].area = NoArea
    /\ phase[t] \in {"write", "run", "reset"} =>
          scratch[t].area # NoArea /\ scratch[t].root = RootOfCandidate(current[t])

\* Whatever failed: of the private sources only that of the dirty record may
\* hold a mutation, and the text that record keeps holds none.
Tracked(t) ==
    /\ scratch[t].area # NoArea =>
          /\ scratch[t].dirty.path \in Private => scratch[t].dirty.original \in Unmutated
          /\ \A s \in Private : s # scratch[t].dirty.path => Tree(t).files[s] \in Unmutated
    /\ phase[t] = "run" =>
          /\ scratch[t].dirty.path = Target(t)
          /\ Target(t) \in Private => Tree(t).files[Target(t)] \in {{current[t]}, Broken}

\* The area, if there is one, is as copy_workspace left it, as far as it is private.
AreaIsClean(t) ==
    scratch[t].area # NoArea =>
        CleanFor(Tree(t), scratch[t].root) /\ scratch[t].dirty.path \notin Private

\* The area has the mutation under test and no other, as far as it is private.
HasOneMutant(t) ==
    /\ Tree(t).litter \subseteq {"target"}
    /\ \A s \in Private :
          Tree(t).files[s] = IF s = Target(t) THEN {current[t]}
                             ELSE Clean(RootOfCandidate(current[t])).files[s]

\* As long as nothing failed, a thread that goes on has a clean area whenever
\* it is not testing a mutant in it.
CleanSoFar(t) ==
    faults = 0 =>
        /\ \/ pc[t] \in {"loop", "taken"}
           \/ phase[t] \in {"prepare", "write"}
           \/ pc[t] = "tested" /\ ~interrupted
           => AreaIsClean(t)
        /\ phase[t] = "run" => HasOneMutant(t)

Local(t) == Placed(t) /\ Tracked(t) /\ CleanSoFar(t)

BuildsDropped == outcome # "running" => \A r \in Roots : warm[r] = NoArea

\* The builds that links lead to stay while parallel workers run.
BuildsStay == outcome = "running" /\ ~Sequential => \A r \in Roots : warm[r] # NoArea

AreaInv == IInv /\ Owned /\ (\A t \in Threads : Local(t)) /\ BuildsDropped /\ BuildsStay

LEMMA CleanStays ==
    ASSUME NEW t \in Threads, AreaStays(t), AreaIsClean(t) PROVE AreaIsClean(t)'
<1>1. CASE scratch[t].area = NoArea
  BY <1>1 DEF AreaStays, AreaIsClean
<1>2. CASE scratch[t].area # NoArea
  BY <1>2 DEF AreaStays, AreaIsClean, CleanFor, Clean, Tree
<1> QED
  BY <1>1, <1>2

LEMMA MutantStays ==
    ASSUME NEW t \in Threads, AreaStays(t), HasOneMutant(t), scratch[t].area # NoArea,
           current'[t] = current[t]
    PROVE  HasOneMutant(t)'
<1>1. /\ Target(t)' = Target(t) /\ RootOfCandidate(current'[t]) = RootOfCandidate(current[t])
      /\ Tree(t)' = Tree(t)
  BY DEF AreaStays, Target, RootOfCandidate, Tree
<1> QED
  BY <1>1 DEF HasOneMutant, Clean, RootOfCandidate

LEMMA OthersKeepLocal ==
    ASSUME NEW u \in Threads, Local(u), AreaStays(u),
           pc'[u] = pc[u], phase'[u] = phase[u], current'[u] = current[u],
           interrupted => interrupted', faults' = 0 => faults = 0
    PROVE  Local(u)'
<1>1. Placed(u)'
  BY DEF Local, Placed, AreaStays, RootOfCandidate
<1>2. Tracked(u)'
  BY <1>1 DEF Local, Placed, Tracked, AreaStays, Tree, Target
<1>3. CleanSoFar(u)'
  BY <1>1, CleanStays, MutantStays DEF Local, Placed, CleanSoFar
<1> QED
  BY <1>1, <1>2, <1>3 DEF Local

LEMMA TestingFacts ==
    ASSUME IInv, NEW t \in Threads, pc[t] = "testing"
    PROVE  /\ current[t] \in Candidates
           /\ Target(t) \in Sources
           /\ RootOfCandidate(current[t]) = RootOf[Target(t)]
           /\ RootOfCandidate(current[t]) \in Roots
<1>1. current[t] \in Candidates
  BY DEF IInv, TypeOK, Busy
<1> QED
  BY <1>1, SourceOfAssumption, RootOfAssumption DEF Target, RootOfCandidate

LEMMA ReturnFacts ==
    ASSUME IInv, AreasTyped, NEW t \in Threads, NEW v, Return(t, v)
    PROVE  /\ pc'[t] = "tested" /\ phase'[t] = "idle" /\ interrupted' = interrupted
           /\ phase' \in [Threads -> Phases]
           /\ \A u \in Threads \ {t} :
                 pc'[u] = pc[u] /\ phase'[u] = phase[u] /\ current'[u] = current[u]
BY DEF Return, FinishWith, AreasTyped, Phases, IInv, TypeOK

\* What is left to show of a thread whose mutant has its verdict.
LEMMA ReturnedLocal ==
    ASSUME NEW t \in Threads, pc'[t] = "tested", phase'[t] = "idle",
           Tracked(t)', faults' = 0 /\ ~interrupted' => AreaIsClean(t)'
    PROVE  Local(t)'
BY DEF Local, Placed, CleanSoFar, Left

LEMMA ErrorFacts ==
    ASSUME AtMostOneFault, Owned, NEW t \in Threads, ReturnError(t)
    PROVE  /\ \E v : Return(t, v)
           /\ interrupted \/ faults' # 0
           /\ faults' \in 0 .. MaxFaults /\ (faults' = 0 => faults = 0)
BY FaultFacts DEF ReturnError, Owned, AreasTyped

\* What one step of thread t does: it keeps who owns what, it keeps what the
\* thread knows, and it leaves the other threads alone.
GoodStep(t) ==
    /\ Owned' /\ Local(t)'
    /\ interrupted' = interrupted
    /\ faults' = 0 => faults = 0
    /\ \A u \in Threads \ {t} :
          AreaStays(u) /\ pc'[u] = pc[u] /\ phase'[u] = phase[u] /\ current'[u] = current[u]

LEMMA GoneLocal ==
    ASSUME NEW t \in Threads, scratch'[t] = NoScratch, phase'[t] = "idle", pc'[t] # "testing"
    PROVE  Local(t)'
BY NoScratchTyped DEF Local, Placed, Tracked, CleanSoFar, AreaIsClean

LEMMA TakeAndLeave ==
    ASSUME AtMostOneFault, AreaInv, NEW t \in Threads,
           TakeCandidate(t) \/ LeaveExhausted(t) \/ StartCandidate(t) \/ RecheckFlag(t)
              \/ PanicInTest(t)
    PROVE  GoodStep(t)
<1> USE DEF AreaInv
<1>1. /\ pc \in [Threads -> Places] /\ current \in [Threads -> Candidates \cup {NoCandidate}]
      /\ phase \in [Threads -> Phases] /\ faults \in 0 .. MaxFaults /\ Local(t)
  BY DEF IInv, TypeOK, Owned, AreasTyped
<1>2. CASE TakeCandidate(t)
  <2>1. Owned' /\ \A u \in Threads : AreaStays(u)
    BY <1>2, RestKeeps, <1>1 DEF TakeCandidate, areaVars
  <2>2. pc[t] = "loop" /\ pc'[t] = "taken" /\ phase' = phase
        /\ scratch' = scratch /\ tree' = tree /\ faults' = faults
    BY <1>1, <1>2 DEF TakeCandidate, Take, areaVars
  <2>3. Local(t)'
    BY <1>1, <2>1, <2>2, CleanStays DEF Local, Placed, Tracked, CleanSoFar, Tree, Left
  <2> QED
    BY <1>1, <1>2, <2>1, <2>2, <2>3 DEF TakeCandidate, Take, GoodStep
<1>3. CASE LeaveExhausted(t)
  <2>1. Owned' /\ scratch'[t] = NoScratch /\ (faults' = 0 => faults = 0)
        /\ \A u \in Threads \ {t} : AreaStays(u)
    BY <1>1, <1>3, DropKeeps DEF LeaveExhausted
  <2>2. pc[t] = "loop" /\ pc'[t] = "exhausted" /\ phase' = phase
    BY <1>1, <1>3 DEF LeaveExhausted, Exhaust
  <2>3. Local(t)'
    BY <1>1, <2>1, <2>2, GoneLocal DEF Local, Placed
  <2> QED
    BY <1>1, <1>3, <2>1, <2>2, <2>3 DEF LeaveExhausted, Exhaust, GoodStep
<1>4. CASE StartCandidate(t) /\ interrupted
  <2>1. Owned' /\ scratch'[t] = NoScratch /\ (faults' = 0 => faults = 0)
        /\ \A u \in Threads \ {t} : AreaStays(u)
    BY <1>1, <1>4, DropKeeps DEF StartCandidate
  <2>2. pc[t] = "taken" /\ pc'[t] = "broke" /\ phase' = phase
    BY <1>1, <1>4 DEF StartCandidate, Start
  <2>3. Local(t)'
    BY <1>1, <2>1, <2>2, GoneLocal DEF Local, Placed
  <2> QED
    BY <1>1, <1>4, <2>1, <2>2, <2>3 DEF StartCandidate, Start, GoodStep
<1>5. CASE StartCandidate(t) /\ ~interrupted
  <2>1. phase' \in [Threads -> Phases]
    BY <1>1, <1>5 DEF StartCandidate, Phases
  <2>2. Owned' /\ \A u \in Threads : AreaStays(u)
    BY <1>1, <1>5, <2>1, RestKeeps DEF StartCandidate
  <2>3. pc[t] = "taken" /\ pc'[t] = "testing" /\ phase'[t] = "prepare"
        /\ scratch' = scratch /\ tree' = tree /\ faults' = faults
    BY <1>1, <1>5 DEF StartCandidate, Start
  <2>4. Local(t)'
    BY <1>1, <2>2, <2>3, CleanStays DEF Local, Placed, Tracked, CleanSoFar, Tree, Left
  <2> QED
    BY <1>1, <1>5, <2>2, <2>3, <2>4 DEF StartCandidate, Start, GoodStep
<1>6. CASE RecheckFlag(t) /\ interrupted
  <2>1. Owned' /\ scratch'[t] = NoScratch /\ (faults' = 0 => faults = 0)
        /\ \A u \in Threads \ {t} : AreaStays(u)
    BY <1>1, <1>6, DropKeeps DEF RecheckFlag
  <2>2. pc[t] = "tested" /\ pc'[t] = "broke" /\ phase' = phase
    BY <1>1, <1>6 DEF RecheckFlag, Recheck
  <2>3. Local(t)'
    BY <1>1, <2>1, <2>2, GoneLocal DEF Local, Placed
  <2> QED
    BY <1>1, <1>6, <2>1, <2>2, <2>3 DEF RecheckFlag, Recheck, GoodStep
<1>7. CASE RecheckFlag(t) /\ ~interrupted
  <2>1. Owned' /\ \A u \in Threads : AreaStays(u)
    BY <1>1, <1>7, RestKeeps DEF RecheckFlag
  <2>2. pc[t] = "tested" /\ pc'[t] = "loop" /\ phase' = phase
        /\ scratch' = scratch /\ tree' = tree /\ faults' = faults
    BY <1>1, <1>7 DEF RecheckFlag, Recheck
  <2>3. Local(t)'
    BY <1>1, <1>7, <2>1, <2>2, CleanStays DEF Local, Placed, Tracked, CleanSoFar, Tree, Left
  <2> QED
    BY <1>1, <1>7, <2>1, <2>2, <2>3 DEF RecheckFlag, Recheck, GoodStep
<1>8. CASE PanicInTest(t)
  <2>1. phase' \in [Threads -> Phases]
    BY <1>1, <1>8 DEF PanicInTest, Phases
  <2>2. Owned' /\ scratch'[t] = NoScratch /\ (faults' = 0 => faults = 0)
        /\ \A u \in Threads \ {t} : AreaStays(u)
    BY <1>8, <2>1, DropKeeps DEF PanicInTest
  <2>3. pc'[t] = "panicked" /\ phase'[t] = "idle"
    BY <1>1, <1>8 DEF PanicInTest, Panic
  <2>4. Local(t)'
    BY <2>2, <2>3, GoneLocal
  <2> QED
    BY <1>1, <1>8, <2>2, <2>4 DEF PanicInTest, Panic, GoodStep
<1> QED
  BY <1>2, <1>3, <1>4, <1>5, <1>6, <1>7, <1>8

LEMMA Prepare ==
    ASSUME AtMostOneFault, AreaInv, NEW t \in Threads,
           ReturnEarly(t) \/ Reuse(t) \/ ClaimFails(t)
    PROVE  GoodStep(t)
<1> USE DEF AreaInv
<1>1. /\ pc \in [Threads -> Places] /\ phase \in [Threads -> Phases] /\ Local(t) /\ AreasTyped
      /\ faults \in 0 .. MaxFaults /\ phase[t] = "prepare"
  BY DEF IInv, TypeOK, Owned, AreasTyped, ReturnEarly, Reuse, Continues, ClaimFails
<1>2. pc[t] = "testing"
  BY <1>1 DEF Local, Placed
<1>3. ASSUME NEW v, Return(t, v), UNCHANGED <<tree, scratch, warm, stuck>>,
             faults' \in 0 .. MaxFaults, faults' = 0 => faults = 0
      PROVE  GoodStep(t)
  <2>1. Owned' /\ \A u \in Threads : AreaStays(u)
    BY <1>1, <1>3, ReturnFacts, RestKeeps
  <2>2. pc'[t] = "tested" /\ phase'[t] = "idle" /\ scratch' = scratch /\ tree' = tree
    BY <1>1, <1>3, ReturnFacts
  <2>3. Tracked(t)'
    BY <1>1, <2>2 DEF Local, Tracked, Tree
  <2>4. faults' = 0 => AreaIsClean(t)'
    BY <1>1, <1>3, <2>1, CleanStays DEF Local, CleanSoFar
  <2>5. Local(t)'
    BY <2>2, <2>3, <2>4, ReturnedLocal
  <2> QED
    BY <1>1, <1>3, <2>1, <2>5, ReturnFacts DEF GoodStep
<1>4. CASE ReturnEarly(t)
  BY <1>1, <1>3, <1>4 DEF ReturnEarly
<1>5. CASE ClaimFails(t)
  BY <1>3, <1>5, ErrorFacts DEF ClaimFails
<1>6. CASE Reuse(t)
  <2>1. phase'[t] = "write" /\ phase' \in [Threads -> Phases]
    BY <1>1, <1>6 DEF Reuse, Phases
  <2>2. Owned' /\ \A u \in Threads : AreaStays(u)
    BY <1>1, <1>6, <2>1, RestKeeps DEF Reuse
  <2>3. /\ pc' = pc /\ current' = current /\ scratch' = scratch /\ tree' = tree
        /\ interrupted' = interrupted /\ faults' = faults
        /\ scratch[t].root = RootOfCandidate(current[t])
    BY <1>6 DEF Reuse, Continues
  <2>4. scratch[t].area # NoArea
    BY <1>2, <2>3, TestingFacts, NoAreaAssumption DEF Owned, HeldExist
  <2>5. Local(t)'
    BY <1>1, <1>2, <2>1, <2>2, <2>3, <2>4, CleanStays
       DEF Local, Placed, Tracked, CleanSoFar, Tree, Left, RootOfCandidate
  <2> QED
    BY <1>1, <1>6, <2>2, <2>3, <2>5 DEF Reuse, GoodStep
<1> QED
  BY <1>4, <1>5, <1>6

\* A directory that is not there can always be found, and nobody holds it.
LEMMA FreshIsFree ==
    ASSUME Owned
    PROVE  /\ Fresh \in Areas /\ tree[Fresh] = NoArea
           /\ \A u \in Threads : scratch[u].area # Fresh
           /\ \A r \in Roots : warm[r] # Fresh
<1> DEFINE f == [u \in Threads |-> scratch[u].area]
<1>1. /\ f \in [Threads -> Areas \cup {NoArea}] /\ warm \in [Roots -> Areas \cup {NoArea}]
      /\ \A u \in Threads : f[u] = scratch[u].area
  BY DEF Owned, AreasTyped
<1> HIDE DEF f
<1>2. PICK one \in Areas \cup {NoArea} : stuck \subseteq {one}
  BY DEF Owned, StuckIsFault
<1>3. PICK a \in Areas : /\ \A u \in Threads : f[u] # a
                         /\ \A r \in Roots : warm[r] # a
                         /\ one # a
  <2>1. \A h \in [Threads -> Areas \cup {NoArea}], g \in [Roots -> Areas \cup {NoArea}],
           b \in Areas \cup {NoArea} :
           \E a \in Areas : /\ \A u \in Threads : h[u] # a
                            /\ \A r \in Roots : g[r] # a
                            /\ b # a
    BY AreasAssumption
  <2> QED
    BY <1>1, <2>1
<1>4. tree[a] = NoArea
  BY <1>1, <1>2, <1>3 DEF Owned, OthersGone
<1>5. Fresh \in Areas /\ tree[Fresh] = NoArea
  BY <1>4 DEF Fresh
<1>6. \A u \in Threads : scratch[u].area # Fresh
  BY <1>5, ContentsNotNoArea, NoAreaAssumption DEF Owned, HeldExist
<1>7. ASSUME NEW r \in Roots PROVE warm[r] # Fresh
  <2>1. warm[r] # NoArea => tree[warm[r]] \in Contents
    BY DEF Owned, HeldExist, IsBuild
  <2> QED
    BY <1>5, <2>1, ContentsNotNoArea, NoAreaAssumption
<1> QED
  BY <1>5, <1>6, <1>7

\* A clone of a build has the build's own files where it is private.
LEMMA CloneFacts ==
    ASSUME NEW r \in Roots, NEW c, IsBuild(c, r)
    PROVE  /\ CloneOf(r, c) \in Contents
           /\ ~Sequential => OwnsPrivate(CloneOf(r, c)) /\ CleanFor(CloneOf(r, c), r)
           /\ OwnsPrivate(c)
<1>1. c \in Contents /\ c.litter \subseteq {"target"}
      /\ (\A s \in Private : c.files[s] = Clean(r).files[s])
      /\ (\A s \in Sources : c.files[s] # Shared)
  BY DEF IsBuild, CleanFor
<1> DEFINE F == [s \in Sources |->
                    IF s \in BelowTarget /\ RootOf[s] = r THEN Shared ELSE c.files[s]]
<1>2. F \in [Sources -> (SUBSET Candidates) \cup {Absent, Broken, Shared}]
  BY <1>1 DEF Contents
<1>3. CloneOf(r, c) \in Contents /\ CloneOf(r, c).files = F /\ CloneOf(r, c).litter = c.litter
  <2>1. CloneOf(r, c) = [c EXCEPT !.files = F]
    BY DEF CloneOf
  <2> HIDE DEF F
  <2> QED
    BY <1>1, <1>2, <2>1 DEF Contents
<1>4. ~Sequential => \A s \in Private : F[s] = c.files[s]
  BY DEF Private
<1> QED
  BY <1>1, <1>3, <1>4, PrivateIsSource DEF OwnsPrivate, CleanFor

\* A thread that claims an area has a clean one of the right workspace.
LEMMA ClaimIsGood ==
    ASSUME AtMostOneFault, AreaInv, NEW t \in Threads, Claim(t)
    PROVE  GoodStep(t)
<1> USE DEF AreaInv
<1> DEFINE r == RootOfCandidate(current[t])
<1>1. /\ phase \in [Threads -> Phases] /\ warm \in [Roots -> Areas \cup {NoArea}]
      /\ scratch \in [Threads -> [area : Areas \cup {NoArea}, root : Roots \cup {NoArea},
                                  dirty : Dirties]]
      /\ Local(t)
      /\ phase[t] = "prepare"
      /\ pc' = pc /\ current' = current /\ interrupted' = interrupted
  BY DEF Owned, AreasTyped, Claim, Continues
<1>2. pc[t] = "testing" /\ r \in Roots
  BY <1>1, TestingFacts DEF Local, Placed
<1>3. ASSUME NEW a \in Areas, NEW c \in Contents, OwnsPrivate(c), CleanFor(c, r),
             Install(t, a, c),
             \A u \in Threads : scratch[u].area # a,
             warm' \in [Roots -> Areas \cup {NoArea}],
             \A q \in Roots : warm'[q] = IF warm[q] = a THEN NoArea ELSE warm[q]
      PROVE  GoodStep(t)
  <2>1. /\ Owned'
        /\ scratch'[t] = [area |-> a, root |-> r, dirty |-> NoDirty]
        /\ tree'[a] = c
        /\ faults' = 0 => faults = 0
        /\ \A u \in Threads \ {t} : AreaStays(u)
    BY <1>2, <1>3, InstallKeeps
  <2>2. phase'[t] = "write" /\ \A u \in Threads \ {t} : phase'[u] = phase[u]
    BY <1>1, <1>3 DEF Install
  <2>3. scratch'[t].area = a /\ scratch'[t].root = r /\ scratch'[t].dirty = NoDirty /\ a # NoArea
    BY <2>1, NoAreaAssumption
  <2>4. Placed(t)'
    BY <1>1, <1>2, <2>2, <2>3 DEF Placed, Left, RootOfCandidate
  <2>5. \A s \in Private : c.files[s] \in Unmutated
    BY <1>3, CleanIsContents, PrivateIsSource DEF CleanFor, Unmutated
  <2>6. Tracked(t)'
    BY <2>1, <2>2, <2>3, <2>5, NoScratchTyped DEF Tracked, Tree, Unmutated
  <2>7. CleanSoFar(t)'
    BY <1>3, <2>1, <2>2, <2>3, NoScratchTyped DEF CleanSoFar, AreaIsClean, CleanFor, Tree, Clean
  <2> QED
    BY <1>1, <2>1, <2>2, <2>4, <2>6, <2>7 DEF GoodStep, Local
<1>4. CASE warm[r] # NoArea /\ Sequential
  <2>1. Install(t, warm[r], tree[warm[r]]) /\ warm' = [warm EXCEPT ![r] = NoArea]
    BY <1>4 DEF Claim
  <2>2. warm[r] \in Areas /\ IsBuild(tree[warm[r]], r)
    BY <1>1, <1>2, <1>4 DEF Owned, HeldExist
  <2>3. /\ tree[warm[r]] \in Contents /\ CleanFor(tree[warm[r]], r)
        /\ OwnsPrivate(tree[warm[r]])
    BY <1>2, <2>2, CloneFacts DEF IsBuild
  <2>4. \A u \in Threads : scratch[u].area # warm[r]
    BY <1>2, <1>4 DEF Owned, HoldersDiffer
  <2>5. /\ warm' \in [Roots -> Areas \cup {NoArea}]
        /\ \A q \in Roots : warm'[q] = IF warm[q] = warm[r] THEN NoArea ELSE warm[q]
    BY <1>1, <1>2, <1>4, <2>1 DEF Owned, HoldersDiffer
  <2> HIDE DEF r
  <2> QED
    BY <1>3, <2>1, <2>2, <2>3, <2>4, <2>5
<1>5. ASSUME warm' = warm PROVE
        /\ warm' \in [Roots -> Areas \cup {NoArea}]
        /\ \A q \in Roots : warm'[q] = IF warm[q] = Fresh THEN NoArea ELSE warm[q]
  BY <1>1, <1>5, FreshIsFree
<1>6. CASE warm[r] # NoArea /\ ~Sequential
  <2>1. Install(t, Fresh, CloneOf(r, tree[warm[r]])) /\ warm' = warm
    BY <1>6 DEF Claim
  <2>2. IsBuild(tree[warm[r]], r)
    BY <1>2, <1>6 DEF Owned, HeldExist
  <2>3. /\ CloneOf(r, tree[warm[r]]) \in Contents /\ OwnsPrivate(CloneOf(r, tree[warm[r]]))
        /\ CleanFor(CloneOf(r, tree[warm[r]]), r)
    BY <1>2, <1>6, <2>2, CloneFacts
  <2> HIDE DEF r
  <2> QED
    BY <1>3, <1>5, <2>1, <2>3, FreshIsFree
<1>7. CASE warm[r] = NoArea
  <2>1. Install(t, Fresh, Clean(r)) /\ warm' = warm
    BY <1>7 DEF Claim
  <2>2. Clean(r) \in Contents /\ CleanFor(Clean(r), r) /\ OwnsPrivate(Clean(r))
    BY CleanIsContents, PrivateIsSource DEF OwnsPrivate
  <2> HIDE DEF r
  <2> QED
    BY <1>3, <1>5, <2>1, <2>2, FreshIsFree
<1> QED
  BY <1>4, <1>6, <1>7

-----------------------------------------------------------------------------
(* Writing, in the thread's own area or through its links.                 *)

LEMMA SetFile ==
    ASSUME NEW c \in Contents, NEW s \in Sources, NEW x \in Texts
    PROVE  LET e == [c EXCEPT !.files[s] = x]
           IN  /\ e \in Contents /\ e.files[s] = x /\ e.litter = c.litter
               /\ \A q \in Sources : q # s => e.files[q] = c.files[q]
BY DEF Contents, Texts

\* A thread finds its private sources in its own area, and behind the links the
\* clean-suite build of its workspace.
LEMMA LinkFacts ==
    ASSUME AreaInv, NEW t \in Threads, pc[t] = "testing", scratch[t].area # NoArea,
           NEW s \in Sources
    PROVE  /\ scratch[t].area \in Areas /\ Tree(t) \in Contents /\ OwnsPrivate(Tree(t))
           /\ PlaceOf(t, s) \in Areas
           /\ s \in Private => PlaceOf(t, s) = scratch[t].area /\ Text(t, s) = Tree(t).files[s]
           /\ PlaceOf(t, s) # scratch[t].area =>
                 s \notin Private /\ \E r \in Roots : /\ warm[r] = PlaceOf(t, s)
                                                      /\ IsBuild(tree[PlaceOf(t, s)], r)
           /\ Text(t, s) \in Whole \cup {Absent}
<1> USE DEF AreaInv
<1>1. scratch[t].area \in Areas /\ Tree(t) \in Contents /\ OwnsPrivate(Tree(t))
  BY DEF Owned, AreasTyped, HeldExist, Tree
<1>2. Tree(t).files[s] \in Texts
  BY <1>1 DEF Contents, Texts
<1>3. CASE Tree(t).files[s] # Shared
  <2>1. PlaceOf(t, s) = scratch[t].area /\ Text(t, s) = Tree(t).files[s]
    BY <1>3 DEF PlaceOf, Text, Tree
  <2> QED
    BY <1>1, <1>2, <1>3, <2>1 DEF Texts, Whole
<1>4. CASE Tree(t).files[s] = Shared
  <2>1. s \notin Private /\ ~Sequential
    BY <1>1, <1>4, PrivateIsSource DEF OwnsPrivate
  <2>2. outcome = "running"
    BY DEF IInv, DecidedLast, Left
  <2>3. scratch[t].root \in Roots /\ warm[scratch[t].root] # NoArea
    BY <2>1, <2>2 DEF Owned, AreasTyped, HeldExist, BuildsStay
  <2>4. PlaceOf(t, s) = warm[scratch[t].root] /\ warm[scratch[t].root] \in Areas
    BY <1>4, <2>3 DEF PlaceOf, Owned, AreasTyped
  <2>5. IsBuild(tree[PlaceOf(t, s)], scratch[t].root)
    BY <2>3, <2>4 DEF Owned, HeldExist
  <2>6. Text(t, s) \in Texts /\ Text(t, s) # Shared
    BY <2>5 DEF Text, IsBuild, Contents, Texts
  <2> QED
    BY <1>1, <2>1, <2>3, <2>4, <2>5, <2>6 DEF Texts, Whole
<1> QED
  BY <1>3, <1>4

\* Nothing done is no harm.
LEMMA TouchedNow ==
    ASSUME Owned, NEW t \in Threads, scratch[t].area # NoArea
    PROVE  Touched(t, tree)
BY DEF Touched, Owned, AreasTyped, HeldExist

\* A thread that fills its own area anew touches nothing else.
LEMMA SetTouches ==
    ASSUME Owned, NEW t \in Threads, scratch[t].area # NoArea,
           NEW c \in Contents, OwnsPrivate(c), SetTree(t, c)
    PROVE  Touched(t, tree') /\ tree'[scratch[t].area] = c
<1>1. scratch[t].area \in Areas /\ tree \in [Areas -> Contents \cup {NoArea}]
  BY DEF Owned, AreasTyped
<1>2. /\ tree' \in [Areas -> Contents \cup {NoArea}] /\ tree'[scratch[t].area] = c
      /\ \A a \in Areas \ {scratch[t].area} : tree'[a] = tree[a]
  BY <1>1 DEF SetTree
<1> QED
  BY <1>2 DEF Touched

\* What is written to one source changes no other one, and no private source of
\* any other area.
LEMMA WrittenFacts ==
    ASSUME AreaInv, NEW t \in Threads, pc[t] = "testing", scratch[t].area # NoArea,
           NEW T, Touched(t, T), NEW s \in Sources, NEW x \in Whole
    PROVE  /\ Touched(t, Written(t, T, s, x))
           /\ Written(t, T, s, x)[scratch[t].area].litter = T[scratch[t].area].litter
           /\ \A q \in Private : q # s =>
                 Written(t, T, s, x)[scratch[t].area].files[q] = T[scratch[t].area].files[q]
           /\ s \in Private => Written(t, T, s, x)[scratch[t].area].files[s] = x
<1> DEFINE own == scratch[t].area
           p == PlaceOf(t, s)
           W == Written(t, T, s, x)
           new == [T[p] EXCEPT !.files[s] = x]
<1>1. /\ own \in Areas /\ p \in Areas
      /\ s \in Private => p = own
      /\ p # own => s \notin Private /\ \E r \in Roots : warm[r] = p /\ IsBuild(tree[p], r)
  BY LinkFacts
<1>2. /\ T \in [Areas -> Contents \cup {NoArea}]
      /\ T[own] \in Contents /\ OwnsPrivate(T[own])
      /\ \A a \in Areas \ {own} :
            T[a] = tree[a] \/ (\E r \in Roots : warm[r] = a /\ Alike(tree[a], T[a]))
  BY DEF Touched
<1>3. x \in Texts /\ x # Shared
  BY TextsDiffer
<1>4. W = [T EXCEPT ![p] = new]
  BY <1>1, <1>2 DEF Written
<1> HIDE DEF own, p, W, new
<1>5. T[p] \in Contents
  <2>1. CASE p = own
    BY <1>2, <2>1
  <2>2. CASE p # own
    BY <1>1, <1>2, <2>2 DEF Alike, IsBuild
  <2> QED
    BY <2>1, <2>2
<1>6. /\ new \in Contents /\ new.files[s] = x /\ new.litter = T[p].litter
      /\ \A q \in Sources : q # s => new.files[q] = T[p].files[q]
  BY <1>3, <1>5, SetFile DEF new
<1>7. /\ W \in [Areas -> Contents \cup {NoArea}] /\ W[p] = new
      /\ \A a \in Areas \ {p} : W[a] = T[a]
  BY <1>1, <1>2, <1>4, <1>6
<1>8. CASE p = own
  <2>1. W[own] \in Contents /\ OwnsPrivate(W[own])
    BY <1>2, <1>3, <1>6, <1>7, <1>8, PrivateIsSource DEF OwnsPrivate
  <2>2. Touched(t, W)
    BY <1>2, <1>7, <1>8, <2>1 DEF Touched, own
  <2> QED
    BY <1>6, <1>7, <1>8, <2>2, PrivateIsSource DEF own, W
<1>9. CASE p # own
  <2>1. s \notin Private /\ W[own] = T[own]
    BY <1>1, <1>7, <1>9
  <2>2. PICK r \in Roots : warm[r] = p /\ IsBuild(tree[p], r)
    BY <1>1, <1>9
  <2>3. T[p] = tree[p] \/ Alike(tree[p], T[p])
    BY <1>1, <1>2, <1>9
  <2>4. Alike(tree[p], new)
    BY <1>3, <1>6, <2>1, <2>2, <2>3, PrivateIsSource DEF Alike, IsBuild
  <2>5. Touched(t, W)
    BY <1>2, <1>7, <2>1, <2>2, <2>4 DEF Touched, own
  <2> QED
    BY <2>1, <2>5 DEF own, W
<1> QED
  BY <1>8, <1>9

\* In the phase "write" the mutation of an earlier mutant is gone once the
\* dirty source is restored, and the original text at hand holds none.
LEMMA WritingFacts ==
    ASSUME AreaInv, NEW t \in Threads, phase[t] = "write"
    PROVE  /\ pc[t] = "testing" /\ current[t] \in Candidates /\ Target(t) \in Sources
           /\ scratch[t].area \in Areas /\ scratch[t].area # NoArea
           /\ scratch[t].root = RootOfCandidate(current[t])
           /\ Dirty(t) \in Dirties /\ (Dirty(t).path \in Private => Dirty(t).original \in Unmutated)
           /\ MustRestore(t) => Dirty(t).path \in Sources
           /\ Touched(t, tree) /\ Touched(t, Restored(t))
           /\ \A s \in Private : s # Target(t) => Restored(t)[scratch[t].area].files[s] \in Unmutated
           /\ ~InMemory(t) /\ Target(t) \in Private =>
                 Restored(t)[scratch[t].area].files[Target(t)] \in Unmutated
           /\ OriginalText(t) \in Whole \cup {Absent}
           /\ Target(t) \in Private => OriginalText(t) \in Unmutated
<1> USE DEF AreaInv
<1> DEFINE own == scratch[t].area
<1>1. /\ pc[t] = "testing" /\ own # NoArea /\ scratch[t].root = RootOfCandidate(current[t])
      /\ Dirty(t).path \in Private => Dirty(t).original \in Unmutated
      /\ \A s \in Private : s # Dirty(t).path => Tree(t).files[s] \in Unmutated
  BY DEF Local, Placed, Tracked, Dirty
<1>2. current[t] \in Candidates /\ Target(t) \in Sources
  BY <1>1, TestingFacts
<1>3. own \in Areas /\ Dirty(t) \in Dirties /\ Touched(t, tree) /\ tree[own] = Tree(t)
  BY <1>1, TouchedNow DEF Owned, AreasTyped, Tree, Dirty
<1>4. Dirty(t).path \in Sources \cup {NoArea} /\ Dirty(t).original \in Whole
  BY <1>3 DEF Dirties
<1>5. /\ Text(t, Target(t)) \in Whole \cup {Absent}
      /\ Target(t) \in Private => Text(t, Target(t)) = Tree(t).files[Target(t)]
  BY <1>1, <1>2, LinkFacts
<1>6. CASE MustRestore(t)
  <2>1. Dirty(t).path \in Sources /\ Dirty(t).path # Target(t)
    BY <1>4, <1>6 DEF MustRestore
  <2>2. Restored(t) = Written(t, tree, Dirty(t).path, Dirty(t).original)
    BY <1>6 DEF Restored
  <2>3. /\ Touched(t, Restored(t))
        /\ \A q \in Private : q # Dirty(t).path => Restored(t)[own].files[q] = Tree(t).files[q]
        /\ Dirty(t).path \in Private => Restored(t)[own].files[Dirty(t).path] = Dirty(t).original
    BY <1>1, <1>3, <1>4, <2>1, <2>2, WrittenFacts
  <2>4. \A s \in Private : Restored(t)[own].files[s] \in Unmutated
    BY <1>1, <2>3
  <2>5. /\ OriginalText(t) = Text(t, Target(t))
        /\ Target(t) \in Private => OriginalText(t) \in Unmutated
    BY <1>1, <1>5, <2>1 DEF OriginalText, InMemory
  <2> QED
    BY <1>1, <1>2, <1>3, <1>5, <2>1, <2>3, <2>4, <2>5
<1>7. CASE ~MustRestore(t)
  <2>1. Restored(t) = tree
    BY <1>7 DEF Restored
  <2>2. Dirty(t).path = NoArea \/ Dirty(t).path = Target(t)
    BY <1>7 DEF MustRestore
  <2>3. \A s \in Private : s # Target(t) => tree[own].files[s] \in Unmutated
    BY <1>1, <1>3, <2>2, PrivateIsSource
  <2>4. ~InMemory(t) /\ Target(t) \in Private => tree[own].files[Target(t)] \in Unmutated
    BY <1>1, <1>3, <2>2, PrivateIsSource DEF InMemory
  <2>5. /\ OriginalText(t) \in Whole \cup {Absent}
        /\ Target(t) \in Private => OriginalText(t) \in Unmutated
    <3>1. CASE InMemory(t)
      BY <1>1, <1>4, <3>1 DEF OriginalText, InMemory
    <3>2. CASE ~InMemory(t)
      BY <1>3, <1>5, <2>4, <3>2 DEF OriginalText
    <3> QED
      BY <3>1, <3>2
  <2> QED
    BY <1>1, <1>2, <1>3, <1>7, <2>1, <2>3, <2>4, <2>5
<1> QED
  BY <1>6, <1>7

\* If nothing failed so far, the area is clean then as far as it is private, and
\* a private original at hand.
LEMMA CleanWriting ==
    ASSUME AreaInv, NEW t \in Threads, phase[t] = "write", faults = 0
    PROVE  /\ Dirty(t).path \notin Private
           /\ CleanFor(Tree(t), RootOfCandidate(current[t]))
           /\ CleanFor(Restored(t)[scratch[t].area], RootOfCandidate(current[t]))
           /\ Target(t) \in Private => /\ ~InMemory(t)
                                       /\ OriginalText(t) = Original
                                       /\ Text(t, Target(t)) = Original
<1> USE DEF AreaInv
<1> DEFINE r == RootOfCandidate(current[t])
<1>1. /\ pc[t] = "testing" /\ scratch[t].area # NoArea /\ scratch[t].root = r
      /\ CleanFor(Tree(t), r) /\ Dirty(t).path \notin Private
  BY DEF Local, Placed, CleanSoFar, AreaIsClean, Dirty
<1>2. Target(t) \in Sources /\ r = RootOf[Target(t)]
  BY <1>1, TestingFacts
<1>3. CleanFor(Restored(t)[scratch[t].area], r)
  <2>1. CASE MustRestore(t)
    <3>1. Dirty(t).path \in Sources /\ Dirty(t).original \in Whole /\ Touched(t, tree)
      BY <2>1, WritingFacts DEF Dirties
    <3>2. Restored(t) = Written(t, tree, Dirty(t).path, Dirty(t).original)
      BY <2>1 DEF Restored
    <3>3. /\ Restored(t)[scratch[t].area].litter = Tree(t).litter
          /\ \A q \in Private : Restored(t)[scratch[t].area].files[q] = Tree(t).files[q]
      BY <1>1, <3>1, <3>2, WrittenFacts DEF Tree
    <3> QED
      BY <1>1, <3>3 DEF CleanFor
  <2>2. CASE ~MustRestore(t)
    BY <1>1, <2>2 DEF Restored, Tree
  <2> QED
    BY <2>1, <2>2
<1>4. ASSUME Target(t) \in Private
      PROVE  ~InMemory(t) /\ OriginalText(t) = Original /\ Text(t, Target(t)) = Original
  <2>1. Clean(r).files[Target(t)] = Original
    BY <1>2 DEF Clean
  <2>2. Text(t, Target(t)) = Tree(t).files[Target(t)]
    BY <1>1, <1>2, <1>4, LinkFacts
  <2>3. ~InMemory(t)
    BY <1>1, <1>4 DEF InMemory
  <2> QED
    BY <1>1, <1>4, <2>1, <2>2, <2>3 DEF CleanFor, OriginalText
<1> QED
  BY <1>1, <1>3, <1>4

LEMMA WriteIsGood ==
    ASSUME AtMostOneFault, AreaInv, NEW t \in Threads, WriteMutant(t)
    PROVE  GoodStep(t)
<1> USE DEF AreaInv
<1> DEFINE own == scratch[t].area
           mutant == IF OriginalText(t) = Broken THEN Broken ELSE OriginalText(t) \cup {current[t]}
           W == Written(t, Restored(t), Target(t), mutant)
           d == [path |-> Target(t), original |-> OriginalText(t)]
<1>1. /\ phase[t] = "write" /\ phase \in [Threads -> Phases] /\ Local(t)
      /\ scratch \in [Threads -> [area : Areas \cup {NoArea}, root : Roots \cup {NoArea},
                                  dirty : Dirties]]
      /\ faults \in 0 .. MaxFaults
  BY DEF WriteMutant, Owned, AreasTyped
<1>2. /\ pc[t] = "testing" /\ current[t] \in Candidates /\ Target(t) \in Sources
      /\ own \in Areas /\ own # NoArea
      /\ Touched(t, Restored(t))
      /\ \A s \in Private : s # Target(t) => Restored(t)[own].files[s] \in Unmutated
      /\ OriginalText(t) \in Whole
      /\ Target(t) \in Private => OriginalText(t) \in Unmutated
      /\ scratch[t].root = RootOfCandidate(current[t])
  BY <1>1, WritingFacts DEF WriteMutant
<1>3. mutant \in Whole /\ (Target(t) \in Private => mutant \in {{current[t]}, Broken})
  <2>1. OriginalText(t) # Broken => OriginalText(t) \cup {current[t]} \in SUBSET Candidates
    BY <1>2 DEF Whole
  <2>2. Target(t) \in Private => OriginalText(t) = Original \/ OriginalText(t) = Broken
    BY <1>2, TextsDiffer DEF Unmutated
  <2>3. Original \cup {current[t]} = {current[t]}
    BY DEF Original
  <2> QED
    BY <2>1, <2>2, <2>3 DEF Whole
<1>4. /\ Touched(t, W) /\ W[own].litter = Restored(t)[own].litter
      /\ \A q \in Private : q # Target(t) => W[own].files[q] = Restored(t)[own].files[q]
      /\ Target(t) \in Private => W[own].files[Target(t)] = mutant
  <2> HIDE DEF mutant
  <2> QED
    BY <1>2, <1>3, WrittenFacts
<1>5. d \in Dirties /\ d.path = Target(t) /\ d.original = OriginalText(t)
  BY <1>2 DEF Dirties
<1>6. /\ tree' = W /\ scratch' = [scratch EXCEPT ![t].dirty = d]
      /\ phase' = [phase EXCEPT ![t] = "run"]
      /\ pc' = pc /\ current' = current /\ interrupted' = interrupted
      /\ warm' = warm /\ faults' = faults /\ stuck' = stuck
  BY DEF WriteMutant, SetDirty
<1>7. phase' \in [Threads -> Phases] /\ phase'[t] = "run"
      /\ \A u \in Threads \ {t} : phase'[u] = phase[u]
  BY <1>1, <1>6 DEF Phases
<1>8. /\ Owned'
      /\ scratch'[t].area = own /\ scratch'[t].root = scratch[t].root
      /\ scratch'[t].dirty = d
      /\ Tree(t)' = tree'[own]
      /\ \A u \in Threads \ {t} : AreaStays(u)
  <2>1. Touched(t, tree') /\ faults' \in 0 .. MaxFaults /\ (faults' = 0 => faults = 0)
    BY <1>1, <1>4, <1>6
  <2> HIDE DEF W, d
  <2> QED
    BY <1>2, <1>5, <1>6, <1>7, <2>1, WriteKeeps
<1> HIDE DEF W, d, mutant
<1>9. Placed(t)'
  BY <1>2, <1>6, <1>7, <1>8 DEF Placed, Left, RootOfCandidate
<1>10. Target(t)' = Target(t)
  BY <1>6 DEF Target
<1>11. Tracked(t)'
  BY <1>2, <1>3, <1>4, <1>5, <1>6, <1>8, <1>10 DEF Tracked
<1>12. CleanSoFar(t)'
  <2> SUFFICES ASSUME faults = 0 PROVE HasOneMutant(t)'
    BY <1>2, <1>6, <1>7 DEF CleanSoFar
  <2>1. /\ CleanFor(Restored(t)[own], RootOfCandidate(current[t]))
        /\ Target(t) \in Private => OriginalText(t) = Original
    BY <1>1, CleanWriting
  <2>2. Target(t) \in Private => mutant = {current[t]}
    BY <2>1, TextsDiffer DEF mutant, Original
  <2>3. /\ Tree(t)'.litter \subseteq {"target"}
        /\ \A s \in Private :
              Tree(t)'.files[s] = IF s = Target(t) THEN {current[t]}
                                  ELSE Clean(RootOfCandidate(current[t])).files[s]
    BY <1>4, <1>6, <1>8, <2>1, <2>2 DEF CleanFor
  <2>4. RootOfCandidate(current[t])' = RootOfCandidate(current[t])
    BY <1>6 DEF RootOfCandidate
  <2> QED
    BY <1>6, <1>10, <2>3, <2>4 DEF HasOneMutant, Clean
<1> QED
  BY <1>6, <1>7, <1>8, <1>9, <1>11, <1>12 DEF GoodStep, Local

\* A write that fails ends the test of the mutant; no private source is left
\* with a mutation, and either the fault is used up or the area stays clean.
LEMMA FailedWriteIsGood ==
    ASSUME AtMostOneFault, AreaInv, NEW t \in Threads, phase[t] = "write",
           NEW d \in Dirties, Touched(t, tree'),
           SetDirty(t, d), Return(t, "Errored"), warm' = warm, stuck' = stuck,
           d.path \in Private => d.original \in Unmutated,
           \A s \in Private : s # d.path => tree'[scratch[t].area].files[s] \in Unmutated,
           \/ faults' = 1 /\ 1 \in 0 .. MaxFaults
           \/ faults' = faults /\ (faults = 0 => /\ d.path \notin Private
                                                 /\ CleanFor(tree'[scratch[t].area], scratch[t].root))
    PROVE  GoodStep(t)
<1> USE DEF AreaInv
<1>1. AreasTyped /\ scratch[t].area # NoArea
      /\ scratch' = [scratch EXCEPT ![t].dirty = d]
  BY WritingFacts DEF Owned, SetDirty
<1>2. pc'[t] = "tested" /\ phase'[t] = "idle" /\ phase' \in [Threads -> Phases]
  BY <1>1, ReturnFacts
<1>3. /\ Owned'
      /\ scratch'[t].area = scratch[t].area /\ scratch'[t].root = scratch[t].root
      /\ scratch'[t].dirty = d
      /\ Tree(t)' = tree'[scratch[t].area]
      /\ \A u \in Threads \ {t} : AreaStays(u)
  <2>1. faults' \in 0 .. MaxFaults /\ (faults' = 0 => faults = 0)
    BY <1>1 DEF AreasTyped
  <2> QED
    BY <1>1, <1>2, <2>1, WriteKeeps
<1>4. Tracked(t)'
  BY <1>2, <1>3 DEF Tracked
<1>5. faults' = 0 => AreaIsClean(t)'
  BY <1>3 DEF AreaIsClean, CleanFor, Clean
<1>6. Local(t)'
  BY <1>2, <1>4, <1>5, ReturnedLocal
<1>7. faults' = 0 => faults = 0
  OBVIOUS
<1> QED
  BY <1>1, <1>3, <1>6, <1>7, ReturnFacts DEF GoodStep

LEMMA FailuresAreGood ==
    ASSUME AtMostOneFault, AreaInv, NEW t \in Threads,
           RestoreFails(t) \/ ReadFails(t) \/ ApplyOrWriteFails(t)
    PROVE  GoodStep(t)
<1> USE DEF AreaInv
<1> DEFINE own == scratch[t].area
           r == RootOfCandidate(current[t])
<1>1. /\ phase[t] = "write" /\ Return(t, "Errored") /\ warm' = warm /\ stuck' = stuck
      /\ faults \in 0 .. MaxFaults
  BY DEF RestoreFails, ReadFails, ApplyOrWriteFails, Owned, AreasTyped
<1>2. /\ pc[t] = "testing" /\ own # NoArea /\ Target(t) \in Sources /\ scratch[t].root = r
      /\ Dirty(t) \in Dirties /\ (Dirty(t).path \in Private => Dirty(t).original \in Unmutated)
      /\ MustRestore(t) => Dirty(t).path \in Sources
      /\ Touched(t, tree) /\ Touched(t, Restored(t))
      /\ \A s \in Private : s # Target(t) => Restored(t)[own].files[s] \in Unmutated
      /\ ~InMemory(t) /\ Target(t) \in Private => Restored(t)[own].files[Target(t)] \in Unmutated
      /\ OriginalText(t) \in Whole \cup {Absent}
      /\ Target(t) \in Private => OriginalText(t) \in Unmutated
  BY <1>1, WritingFacts
<1>3. NoDirty \in Dirties /\ NoDirty.path \notin Private /\ NoDirty.original \in Unmutated
      /\ Broken \in Whole /\ Broken \in Unmutated
  BY NoScratchTyped DEF Unmutated, Whole
<1>4. Fault => faults = 0 /\ faults' = 1 /\ 1 \in 0 .. MaxFaults
  BY <1>1, FaultFacts
<1>5. \A s \in Private : s # Dirty(t).path => tree[own].files[s] \in Unmutated
  BY <1>2 DEF Local, Tracked, Dirty, Tree
<1>6. faults = 0 => /\ Dirty(t).path \notin Private
                    /\ CleanFor(tree[own], r) /\ CleanFor(Restored(t)[own], r)
                    /\ Target(t) \in Private => /\ OriginalText(t) = Original
                                                /\ Text(t, Target(t)) = Original
  BY <1>1, CleanWriting DEF Tree
<1>7. CASE RestoreFails(t)
  <2> DEFINE p == Dirty(t).path
             broken == Written(t, tree, p, Broken)
  <2>1. /\ p \in Sources /\ SetDirty(t, NoDirty)
        /\ tree' \in AfterFailedWrite(t, tree, p)
        /\ Fault \/ (Text(t, p) = Absent /\ faults' = faults)
    BY <1>2, <1>7 DEF RestoreFails, WriteFault
  <2>2. /\ Touched(t, broken) /\ broken[own].litter = tree[own].litter
        /\ \A q \in Private : q # p => broken[own].files[q] = tree[own].files[q]
        /\ p \in Private => broken[own].files[p] = Broken
    BY <1>2, <1>3, <2>1, WrittenFacts
  <2>3. tree' = tree \/ tree' = broken
    BY <2>1 DEF AfterFailedWrite
  <2>4. p \in Private => faults # 0 /\ tree' = tree /\ tree[own].files[p] \in Unmutated
    <3> SUFFICES ASSUME p \in Private
                 PROVE  faults # 0 /\ tree' = tree /\ tree[own].files[p] \in Unmutated
      OBVIOUS
    <3>1. faults # 0 /\ ~Fault
      BY <1>4, <1>6
    <3>2. Text(t, p) = Absent
      BY <2>1, <3>1
    <3>3. tree' = tree
      BY <2>1, <3>2 DEF AfterFailedWrite
    <3>4. Text(t, p) = tree[own].files[p]
      BY <1>2, <2>1, LinkFacts DEF Tree
    <3> QED
      BY <3>1, <3>2, <3>3, <3>4 DEF Unmutated
  <2> HIDE DEF broken, p, own, r
  <2>5. Touched(t, tree')
    BY <1>2, <2>2, <2>3
  <2>6. \A s \in Private : tree'[own].files[s] \in Unmutated
    BY <1>5, <2>2, <2>3, <2>4 DEF p
  <2>7. faults = 0 => CleanFor(tree'[own], r)
    BY <1>6, <2>2, <2>3, <2>4 DEF CleanFor
  <2> QED
    BY <1>1, <1>2, <1>3, <1>4, <2>1, <2>5, <2>6, <2>7, FailedWriteIsGood DEF own, r
<1>8. CASE ReadFails(t)
  <2>1. tree' = Restored(t) /\ SetDirty(t, NoDirty)
        /\ (\A s \in Private : Restored(t)[own].files[s] \in Unmutated)
        /\ (Fault \/ faults' = faults)
    BY <1>2, <1>8 DEF ReadFails
  <2> QED
    BY <1>1, <1>2, <1>3, <1>4, <1>6, <2>1, FailedWriteIsGood
<1>9. CASE ApplyOrWriteFails(t)
  <2> DEFINE d == [path |-> Target(t), original |-> OriginalText(t)]
             broken == Written(t, Restored(t), Target(t), Broken)
  <2>1. d \in Dirties /\ d.path = Target(t) /\ d.original = OriginalText(t)
    BY <1>2, <1>9 DEF Dirties, ApplyOrWriteFails
  <2>2. /\ Touched(t, broken) /\ broken[own].litter = Restored(t)[own].litter
        /\ \A q \in Private : q # Target(t) => broken[own].files[q] = Restored(t)[own].files[q]
    BY <1>2, <1>3, WrittenFacts
  <2>3. /\ tree' = Restored(t) \/ tree' = broken
        /\ SetDirty(t, d)
        /\ \/ Fault
           \/ OriginalText(t) # Original /\ faults' = faults
           \/ Text(t, Target(t)) = Absent /\ faults' = faults
    BY <1>9 DEF ApplyOrWriteFails, AfterFailedWrite, WriteFault
  <2>4. ~Fault /\ faults = 0 => Target(t) \notin Private
    BY <1>6, <2>3, TextsDiffer
  <2> HIDE DEF broken, d, own, r
  <2>5. Touched(t, tree')
    BY <1>2, <2>2, <2>3
  <2>6. \A s \in Private : s # d.path => tree'[own].files[s] \in Unmutated
    BY <1>2, <2>1, <2>2, <2>3
  <2>7. ~Fault /\ faults = 0 => CleanFor(tree'[own], r)
    BY <1>6, <2>2, <2>3, <2>4 DEF CleanFor
  <2> QED
    BY <1>1, <1>2, <1>4, <2>1, <2>3, <2>4, <2>5, <2>6, <2>7, FailedWriteIsGood DEF own, r
<1> QED
  BY <1>7, <1>8, <1>9

LEMMA RunIsGood ==
    ASSUME AtMostOneFault, AreaInv, NEW t \in Threads, RunTests(t)
    PROVE  GoodStep(t)
<1> USE DEF AreaInv
<1> DEFINE own == scratch[t].area
<1>1. phase[t] = "run" /\ phase \in [Threads -> Phases] /\ Local(t)
      /\ scratch \in [Threads -> [area : Areas \cup {NoArea}, root : Roots \cup {NoArea},
                                  dirty : Dirties]]
      /\ faults \in 0 .. MaxFaults
  BY DEF RunTests, Owned, AreasTyped
<1>2. pc[t] = "testing" /\ current[t] \in Candidates
      /\ own # NoArea /\ scratch[t].root = RootOfCandidate(current[t])
  BY <1>1, TestingFacts DEF Local, Placed
<1>3. Touched(t, tree) /\ own \in Areas /\ Tree(t) = tree[own]
  BY <1>2, TouchedNow DEF Owned, AreasTyped, Tree
<1>4. PICK T \in {tree} \cup {Written(t, tree, s, Broken) : s \in OwnSources(t)},
           left \in {{"target"}, LitterPlaces} :
          tree' = [T EXCEPT ![own].litter = @ \cup left]
  BY DEF RunTests
<1>5. /\ Touched(t, T)
      /\ \A s \in Private : T[own].files[s] \in {Broken, Tree(t).files[s]}
  <2>1. CASE T = tree
    BY <1>3, <2>1
  <2>2. ASSUME NEW s \in OwnSources(t), T = Written(t, tree, s, Broken)
        PROVE  /\ Touched(t, T)
               /\ \A q \in Private : T[own].files[q] \in {Broken, Tree(t).files[q]}
    BY <1>2, <1>3, <2>2, WrittenFacts DEF OwnSources, Whole
  <2> QED
    BY <1>4, <2>1, <2>2
<1>6. /\ tree' \in [Areas -> Contents \cup {NoArea}]
      /\ tree'[own] \in Contents /\ tree'[own].files = T[own].files
      /\ \A a \in Areas \ {own} : tree'[a] = T[a]
  <2>1. T \in [Areas -> Contents \cup {NoArea}] /\ T[own] \in Contents
    BY <1>5 DEF Touched
  <2>2. [T[own] EXCEPT !.litter = @ \cup left] \in Contents
        /\ [T[own] EXCEPT !.litter = @ \cup left].files = T[own].files
    BY <1>4, <2>1 DEF Contents, LitterPlaces
  <2> HIDE DEF own
  <2>3. tree' = [T EXCEPT ![own] = [T[own] EXCEPT !.litter = @ \cup left]]
    BY <1>3, <1>4, <2>1
  <2> QED
    BY <1>3, <2>1, <2>2, <2>3
<1>7. Touched(t, tree')
  BY <1>5, <1>6 DEF Touched, OwnsPrivate
<1>8. /\ phase' = [phase EXCEPT ![t] = "reset"]
      /\ pc' = pc /\ current' = current /\ interrupted' = interrupted
      /\ scratch' = scratch /\ warm' = warm /\ faults' = faults /\ stuck' = stuck
  BY DEF RunTests
<1>9. phase' \in [Threads -> Phases] /\ phase'[t] = "reset"
      /\ \A u \in Threads \ {t} : phase'[u] = phase[u]
  BY <1>1, <1>8 DEF Phases
<1>10. Owned' /\ Tree(t)' = tree'[own] /\ \A u \in Threads \ {t} : AreaStays(u)
  <2>1. PICK d \in Dirties : scratch' = [scratch EXCEPT ![t].dirty = d]
    <3>1. scratch' = [scratch EXCEPT ![t].dirty = scratch[t].dirty] /\ scratch[t].dirty \in Dirties
      BY <1>1, <1>8
    <3> QED
      BY <3>1
  <2>2. faults' \in 0 .. MaxFaults /\ (faults' = 0 => faults = 0)
    BY <1>1, <1>8
  <2> QED
    BY <1>2, <1>7, <1>8, <1>9, <2>1, <2>2, WriteKeeps
<1>11. Tracked(t)'
  <2>1. \A s \in Private : Tree(t)'.files[s] \in {Broken, Tree(t).files[s]}
    BY <1>5, <1>6, <1>10
  <2> QED
    BY <1>1, <1>2, <1>8, <1>9, <2>1 DEF Local, Tracked, Unmutated
<1>12. Placed(t)' /\ CleanSoFar(t)'
  BY <1>2, <1>8, <1>9 DEF Placed, CleanSoFar, Left, RootOfCandidate
<1> QED
  BY <1>8, <1>9, <1>10, <1>11, <1>12 DEF GoodStep, Local

LEMMA ResetIsGood ==
    ASSUME AtMostOneFault, AreaInv, NEW t \in Threads, ResetArea(t) \/ ResetFails(t)
    PROVE  GoodStep(t)
<1> USE DEF AreaInv
<1>1. phase[t] = "reset" /\ phase \in [Threads -> Phases] /\ Local(t) /\ AreasTyped
      /\ scratch \in [Threads -> [area : Areas \cup {NoArea}, root : Roots \cup {NoArea},
                                  dirty : Dirties]]
      /\ faults \in 0 .. MaxFaults
  BY DEF ResetArea, ResetFails, Owned, AreasTyped
<1>2. scratch[t].area # NoArea
  BY <1>1 DEF Local, Placed
<1>3. Tree(t) \in Contents /\ OwnsPrivate(Tree(t)) /\ Kept(t) \subseteq {"target"}
      /\ Kept(t) \in SUBSET LitterPlaces
  BY <1>2 DEF Tree, Owned, HeldExist, Kept, LitterPlaces
<1>4. CASE ResetArea(t)
  <2> DEFINE c == [Clean(scratch[t].root) EXCEPT !.litter = Kept(t)]
             r == scratch[t].root
  <2>1. /\ SetTree(t, c) /\ scratch' = [scratch EXCEPT ![t].dirty = NoDirty]
        /\ warm' = warm /\ faults' = faults /\ stuck' = stuck
        /\ Return(t, verdict[t])
    BY <1>4 DEF ResetArea, SetDirty
  <2>2. c \in Contents /\ c.files = Clean(r).files /\ c.litter = Kept(t)
    BY <1>3, CleanIsContents DEF Contents
  <2>3. /\ NoDirty \in Dirties /\ NoDirty.path \notin Private
        /\ \A s \in Sources : c.files[s] \in Unmutated /\ c.files[s] # Shared
    BY <2>2, CleanIsContents, NoScratchTyped DEF Unmutated
  <2>4. OwnsPrivate(c) /\ CleanFor(c, r)
    BY <1>3, <2>2, <2>3, PrivateIsSource DEF OwnsPrivate, CleanFor
  <2>5. phase' \in [Threads -> Phases] /\ pc'[t] = "tested" /\ phase'[t] = "idle"
    BY <1>1, <2>1, ReturnFacts
  <2> HIDE DEF c
  <2>6. Touched(t, tree') /\ tree'[scratch[t].area] = c
    BY <1>2, <2>1, <2>2, <2>4, SetTouches
  <2>7. /\ Owned'
        /\ scratch'[t].area = scratch[t].area /\ scratch'[t].root = r
        /\ scratch'[t].dirty = NoDirty
        /\ Tree(t)' = c
        /\ \A u \in Threads \ {t} : AreaStays(u)
    BY <1>1, <1>2, <2>1, <2>3, <2>5, <2>6, WriteKeeps
  <2>8. Tracked(t)'
    BY <2>3, <2>5, <2>7, PrivateIsSource DEF Tracked
  <2>9. AreaIsClean(t)'
    BY <2>3, <2>4, <2>7 DEF AreaIsClean, CleanFor, Clean
  <2> QED
    BY <1>1, <2>1, <2>5, <2>7, <2>8, <2>9, ReturnFacts, ReturnedLocal DEF GoodStep
<1>5. CASE ResetFails(t)
  <2>1. PICK c \in HalfRemoved(t) \cup HalfCopied(t) : SetTree(t, c)
    BY <1>5 DEF ResetFails
  <2>2. c \in Contents /\ \A s \in Sources : c.files[s] \in {Absent, Original, Tree(t).files[s]}
    BY <1>3, <2>1 DEF HalfRemoved, HalfCopied, Contents, Original
  <2>3. OwnsPrivate(c)
    BY <1>3, <2>2, TextsDiffer, PrivateIsSource DEF OwnsPrivate
  <2>4. PICK v : Return(t, v)
    BY <1>5, ErrorFacts DEF ResetFails
  <2>5. /\ interrupted \/ faults' # 0
        /\ faults' \in 0 .. MaxFaults /\ (faults' = 0 => faults = 0)
    BY <1>5, ErrorFacts DEF ResetFails
  <2>6. phase' \in [Threads -> Phases] /\ pc'[t] = "tested" /\ phase'[t] = "idle"
        /\ interrupted' = interrupted
    BY <1>1, <2>4, ReturnFacts
  <2>7. scratch' = [scratch EXCEPT ![t].dirty = scratch[t].dirty] /\ scratch[t].dirty \in Dirties
        /\ scratch' = scratch /\ warm' = warm /\ stuck' = stuck
    BY <1>1, <1>5 DEF ResetFails
  <2>8. Touched(t, tree') /\ tree'[scratch[t].area] = c
    BY <1>2, <2>1, <2>2, <2>3, SetTouches
  <2>9. Owned' /\ Tree(t)' = c /\ \A u \in Threads \ {t} : AreaStays(u)
    BY <1>2, <2>5, <2>6, <2>7, <2>8, WriteKeeps
  <2>10. Tracked(t)'
    BY <1>1, <1>2, <2>2, <2>6, <2>7, <2>9, PrivateIsSource DEF Local, Tracked, Unmutated
  <2>11. Local(t)'
    BY <2>5, <2>6, <2>10, ReturnedLocal
  <2> QED
    BY <1>1, <2>4, <2>5, <2>9, <2>11, ReturnFacts DEF GoodStep
<1> QED
  BY <1>4, <1>5

-----------------------------------------------------------------------------
(* The invariant of a run with at most one failing file operation.         *)

LEMMA AreaInvInit == AtMostOneFault /\ AreaInit => AreaInv
<1> SUFFICES ASSUME AtMostOneFault, AreaInit PROVE AreaInv
  OBVIOUS
<1>1. IInv /\ (\A t \in Threads : pc[t] = "loop") /\ outcome = "running"
  BY InvInit DEF AreaInit, Init
<1>2. warm \in [Roots -> Areas] /\ IsInjective(warm)
  BY AreasAssumption DEF AreaInit
<1>3. \A r, q \in Roots : warm[r] = warm[q] => r = q
  BY <1>2 DEF IsInjective
<1> DEFINE Built(r) == [Clean(r) EXCEPT !.litter = {"target"}]
<1>4. /\ phase = [t \in Threads |-> "idle"]
      /\ scratch = [t \in Threads |-> NoScratch]
      /\ faults = 0 /\ stuck = {}
      /\ tree = [a \in Areas |-> IF \E r \in Roots : warm[r] = a
                                 THEN Built(CHOOSE r \in Roots : warm[r] = a) ELSE NoArea]
  BY DEF AreaInit
<1>5. \A r \in Roots : Built(r) \in Contents /\ IsBuild(Built(r), r)
  <2> SUFFICES ASSUME NEW r \in Roots PROVE Built(r) \in Contents /\ IsBuild(Built(r), r)
    OBVIOUS
  <2>1. /\ Built(r) \in Contents /\ Built(r).files = Clean(r).files
        /\ Built(r).litter = {"target"}
    BY CleanIsContents DEF Contents, LitterPlaces
  <2> QED
    BY <2>1, CleanIsContents DEF IsBuild, CleanFor
<1> HIDE DEF Built
<1>6. \A r \in Roots : tree[warm[r]] = Built(r)
  BY <1>2, <1>3, <1>4
<1>7. \A a \in Areas : tree[a] # NoArea => \E r \in Roots : warm[r] = a
  BY <1>4
<1>8. AreasTyped
  <2>1. tree \in [Areas -> Contents \cup {NoArea}]
    BY <1>4, <1>5
  <2>2. scratch \in [Threads -> [area : Areas \cup {NoArea}, root : Roots \cup {NoArea},
                                 dirty : Dirties]]
    BY <1>4, NoScratchTyped
  <2>3. faults \in 0 .. MaxFaults
    BY <1>4 DEF AtMostOneFault
  <2> QED
    BY <1>2, <1>4, <2>1, <2>2, <2>3 DEF AreasTyped, Phases
<1>9. \A t \in Threads : scratch[t] = NoScratch /\ scratch[t].area = NoArea
                            /\ scratch[t].root = NoArea /\ phase[t] = "idle"
  BY <1>4, NoScratchTyped
<1>10. \A r \in Roots : warm[r] # NoArea
  BY <1>2, NoAreaAssumption
<1>11. HoldersDiffer
  BY <1>3, <1>9, <1>10 DEF HoldersDiffer
<1>12. HeldExist
  BY <1>5, <1>6, <1>9 DEF HeldExist
<1>13. OthersGone /\ StuckIsFault
  BY <1>4, <1>7 DEF OthersGone, StuckIsFault
<1>14. \A t \in Threads : Local(t)
  BY <1>1, <1>9 DEF Local, Placed, Tracked, CleanSoFar, AreaIsClean, Left
<1> QED
  BY <1>1, <1>8, <1>10, <1>11, <1>12, <1>13, <1>14
     DEF AreaInv, Owned, BuildsDropped, BuildsStay

LEMMA WorkIsGood ==
    ASSUME AtMostOneFault, AreaInv, NEW t \in Threads, WorkArea(t)
    PROVE  GoodStep(t)
BY TakeAndLeave, Prepare, ClaimIsGood, WriteIsGood, FailuresAreGood, RunIsGood, ResetIsGood
   DEF WorkArea

\* A thread never ends the run, and gives no build back to the map; parallel
\* threads take none from it.
LEMMA WorkKeepsBuilds ==
    ASSUME NEW t \in Threads, WorkArea(t), warm \in [Roots -> Areas \cup {NoArea}]
    PROVE  /\ outcome' = outcome
           /\ \A r \in Roots : warm[r] = NoArea => warm'[r] = NoArea
           /\ Sequential \/ warm' = warm
<1>1. outcome' = outcome
  BY WorkAreaIsWork DEF Work, Take, Exhaust, Start, Finish, FinishWith, Recheck, Panic, vars
<1>2. CASE Claim(t)
  BY <1>1, <1>2 DEF Claim
<1>3. CASE ~Claim(t)
  <2>1. warm' = warm
    BY <1>3 DEF WorkArea, areaVars, TakeCandidate, LeaveExhausted, StartCandidate, RecheckFlag,
                PanicInTest, ReturnEarly, Reuse, ClaimFails, WriteMutant, RestoreFails, ReadFails,
                ApplyOrWriteFails, RunTests, ResetArea, ResetFails
  <2> QED
    BY <1>1, <2>1
<1> QED
  BY <1>2, <1>3

\* The builds nobody claimed are dropped; the removal of one of them may fail.
LEMMA ConcludeIsGood ==
    ASSUME AtMostOneFault, AreaInv, ConcludeRun
    PROVE  Owned' /\ (\A t \in Threads : Local(t)') /\ BuildsDropped' /\ BuildsStay'
<1> USE DEF AreaInv
<1> DEFINE unclaimed == {warm[r] : r \in Roots} \ {NoArea}
           Dropped(stays) == [a \in Areas |->
               IF a \in unclaimed \ stays THEN NoArea ELSE tree[a]]
<1>1. \A t \in Threads : pc[t] \in Left /\ scratch[t].area = NoArea /\ scratch[t].root = NoArea
  BY DEF ConcludeRun, Conclude, Local, Placed, Owned, HeldExist
<1>2. /\ warm' = [r \in Roots |-> NoArea]
      /\ UNCHANGED <<pc, current, interrupted, phase, scratch>>
      /\ outcome' # "running"
  BY DEF ConcludeRun, Conclude
<1>3. /\ faults \in 0 .. MaxFaults /\ tree \in [Areas -> Contents \cup {NoArea}]
      /\ unclaimed \subseteq Areas /\ stuck \in SUBSET Areas /\ StuckIsFault
  BY DEF Owned, AreasTyped
<1>4. \A a \in Areas : tree[a] # NoArea => a \in unclaimed \/ a \in stuck
  BY <1>1, NoAreaAssumption DEF Owned, OthersGone
<1>5. /\ faults' \in 0 .. MaxFaults /\ (faults' = 0 => faults = 0)
      /\ tree' \in [Areas -> Contents \cup {NoArea}]
      /\ stuck' \in SUBSET Areas /\ StuckIsFault'
      /\ \A a \in Areas : tree'[a] # NoArea => a \in stuck'
  <2>1. CASE tree' = Dropped({}) /\ UNCHANGED <<stuck, faults>>
    BY <1>3, <1>4, <2>1 DEF StuckIsFault
  <2>2. ASSUME Fault, NEW b \in unclaimed, tree' = Dropped({b}), stuck' = stuck \cup {b}
        PROVE  <1>5!:
    <3>1. faults = 0 /\ faults' = 1 /\ faults' \in 0 .. MaxFaults
      BY <1>3, <2>2, FaultFacts
    <3>2. stuck = {}
      BY <1>3, <3>1, NoAreaAssumption DEF StuckIsFault
    <3>3. StuckIsFault'
      BY <1>3, <2>2, <3>1, <3>2 DEF StuckIsFault
    <3>4. \A a \in Areas : tree'[a] # NoArea => a \in stuck'
      BY <1>4, <2>2
    <3> QED
      BY <1>3, <2>2, <3>1, <3>3, <3>4
  <2> QED
    BY <2>1, <2>2 DEF ConcludeRun
<1>6. AreasTyped'
  BY <1>2, <1>5 DEF Owned, AreasTyped
<1>7. HoldersDiffer' /\ HeldExist'
  BY <1>1, <1>2 DEF HoldersDiffer, HeldExist
<1>8. OthersGone' /\ StuckIsFault'
  BY <1>5 DEF OthersGone
<1>9. \A t \in Threads : Local(t)'
  BY <1>1, <1>2 DEF Local, Placed, Tracked, CleanSoFar, AreaIsClean, Left, Busy, IInv, TypeOK
<1>10. BuildsDropped' /\ BuildsStay'
  BY <1>2 DEF BuildsDropped, BuildsStay
<1> QED
  BY <1>6, <1>7, <1>8, <1>9, <1>10 DEF Owned

LEMMA AreaInvStep == AtMostOneFault /\ AreaInv /\ [AreaNext]_allVars => AreaInv'
<1> SUFFICES ASSUME AtMostOneFault, AreaInv, [AreaNext]_allVars PROVE AreaInv'
  OBVIOUS
<1>1. IInv'
  BY AreaNextIsNext, InvStep DEF AreaInv
<1>2. CASE InterruptRun \/ UNCHANGED allVars
  <2>1. UNCHANGED <<pc, current, outcome, phase, tree, scratch, warm, stuck, faults>>
        /\ (interrupted => interrupted')
    BY <1>2 DEF InterruptRun, Interrupt, areaVars, allVars
  <2>2. Owned' /\ \A t \in Threads : AreaStays(t)
    BY <2>1, RestKeeps DEF AreaInv, Owned, AreasTyped
  <2>3. \A t \in Threads : Local(t)'
    BY <2>1, <2>2, OthersKeepLocal DEF AreaInv
  <2>4. BuildsDropped' /\ BuildsStay'
    BY <2>1 DEF AreaInv, BuildsDropped, BuildsStay
  <2> QED
    BY <1>1, <2>2, <2>3, <2>4 DEF AreaInv
<1>3. CASE \E t \in Threads : WorkArea(t)
  <2>1. PICK t \in Threads : WorkArea(t)
    BY <1>3
  <2>2. GoodStep(t)
    BY <2>1, WorkIsGood
  <2>3. \A u \in Threads : Local(u)'
    BY <2>2, OthersKeepLocal DEF GoodStep, AreaInv
  <2>4. BuildsDropped' /\ BuildsStay'
    BY <2>1, WorkKeepsBuilds DEF AreaInv, BuildsDropped, BuildsStay, Owned, AreasTyped
  <2> QED
    BY <1>1, <2>2, <2>3, <2>4 DEF GoodStep, AreaInv
<1>4. CASE ConcludeRun
  BY <1>1, <1>4, ConcludeIsGood DEF AreaInv
<1> QED
  BY <1>2, <1>3, <1>4 DEF AreaNext

LEMMA AreaInvariance == AtMostOneFault => (AreaSafety => []AreaInv)
<1> SUFFICES ASSUME AtMostOneFault PROVE AreaSafety => []AreaInv
  OBVIOUS
<1>1. AreaInit => AreaInv
  BY AreaInvInit
<1>2. AreaInv /\ [AreaNext]_allVars => AreaInv'
  BY AreaInvStep
<1> QED
  BY <1>1, <1>2, PTL DEF AreaSafety

-----------------------------------------------------------------------------
(* The properties of the areas.                                            *)

\* As long as no file operation fails, and whenever the interrupt comes, the
\* tests of a mutant find its workspace with that one mutation: nothing an
\* earlier mutant, its tests or another worker did.  The limits are those of
\* the property: Cargo's target directory stays, and parallel workers share the
\* sources below any other directory of that name.
THEOREM TestsAreIsolated == MaxFaults = 0 => (AreaSafety => []TestsSeeOneMutant)
<1> SUFFICES ASSUME MaxFaults = 0 PROVE AreaSafety => []TestsSeeOneMutant
  OBVIOUS
<1>1. AtMostOneFault
  BY DEF AtMostOneFault
<1>2. AreaInv => TestsSeeOneMutant
  <2> SUFFICES ASSUME AreaInv, NEW t \in Threads, phase[t] = "run"
               PROVE  /\ \A s \in Private :
                            Text(t, s) = IF s = Target(t) THEN {current[t]}
                                         ELSE Clean(RootOfCandidate(current[t])).files[s]
                      /\ "elsewhere" \notin Tree(t).litter
    BY DEF TestsSeeOneMutant
  <2>1. faults = 0
    BY DEF AreaInv, Owned, AreasTyped
  <2>2. HasOneMutant(t) /\ pc[t] = "testing" /\ scratch[t].area # NoArea
    BY <2>1 DEF AreaInv, Local, Placed, CleanSoFar
  <2>3. \A s \in Private : Text(t, s) = Tree(t).files[s]
    BY <2>2, LinkFacts, PrivateIsSource
  <2> QED
    BY <2>2, <2>3 DEF HasOneMutant
<1> QED
  BY <1>1, <1>2, AreaInvariance, PTL

\* One file operation may fail, anywhere: the area of a thread may then be
\* damaged, and still no test runs with two mutations in a private source.
THEOREM MutationsStayApart == AtMostOneFault => (AreaSafety => []MutationsNeverMix)
<1>1. AreaInv => MutationsNeverMix
  <2> SUFFICES ASSUME AreaInv, NEW t \in Threads, phase[t] = "run", NEW s \in Private,
                      Text(t, s) \notin {Absent, Broken}
               PROVE  Text(t, s) \subseteq {current[t]}
    BY DEF MutationsNeverMix
  <2>1. /\ pc[t] = "testing" /\ scratch[t].area # NoArea
        /\ \A q \in Private : q # Target(t) => Tree(t).files[q] \in Unmutated
        /\ Target(t) \in Private => Tree(t).files[Target(t)] \in {{current[t]}, Broken}
    BY DEF AreaInv, Local, Placed, Tracked
  <2>2. Text(t, s) = Tree(t).files[s]
    BY <2>1, LinkFacts, PrivateIsSource
  <2> QED
    BY <2>1, <2>2 DEF Unmutated, Original
<1> QED
  BY <1>1, AreaInvariance, PTL

\* When the run returns, by whichever way its threads left, no area is left
\* but one whose own removal failed.
THEOREM AreasAreRemoved == AtMostOneFault => (AreaSafety => []NoAreaLeft)
<1>1. AreaInv => NoAreaLeft
  <2> SUFFICES ASSUME AreaInv, outcome # "running", NEW a \in Areas, tree[a] # NoArea
               PROVE  a \in stuck
    BY DEF NoAreaLeft
  <2>1. \A t \in Threads : scratch[t].area = NoArea
    BY DEF AreaInv, IInv, DecidedLast, Local, Placed
  <2>2. \A r \in Roots : warm[r] = NoArea
    BY DEF AreaInv, BuildsDropped
  <2> QED
    BY <2>1, <2>2, NoAreaAssumption DEF AreaInv, Owned, OthersGone
<1> QED
  BY <1>1, AreaInvariance, PTL

=============================================================================
