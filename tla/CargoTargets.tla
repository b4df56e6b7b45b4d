------------------------------ MODULE CargoTargets ------------------------------
(***************************************************************************)
(* The compiler targets that source discovery asks about:                  *)
(* rustc_configurations in src/discovery.rs.  Every Cargo configuration    *)
(* that applies is first checked with its includes, then read again for    *)
(* build.target, from Cargo's home down to the directory itself; what is   *)
(* read later goes before what was read earlier.                           *)
(*                                                                         *)
(* A target configuration is a sequence of targets, with many = TRUE when  *)
(* it was written as an array.                                             *)
(***************************************************************************)
EXTENDS Integers, FiniteSets, SequencesExt

CONSTANTS
    CargoTrees,   \* the configurations on disk that a run may meet
    Triples,      \* what a target can be: the name of one, or its specification
    NoTarget,     \* no build.target, and no CARGO_BUILD_TARGET
    NoConfiguration,       \* a directory without a configuration
    Host          \* what `rustc --print cfg` answers without a target

\* What a file can say of build.target: one target, or an array.
Configured == [many : {FALSE}, of : {<<t>> : t \in Triples}] \cup [many : {TRUE}, of : Seq(Triples)]

\* On a disk are finitely many files, each with its includes in an order.
IsDisk(tree) ==
    /\ IsFiniteSet(DOMAIN tree.files)
    /\ NoConfiguration \notin DOMAIN tree.files
    /\ \A f \in DOMAIN tree.files :
        /\ tree.files[f].includes \in Seq(ToSet(tree.files[f].includes))
        /\ \A i \in DOMAIN tree.files[f].includes :
            /\ tree.files[f].includes[i].optional \in BOOLEAN
            /\ tree.files[f].includes[i].toml \in BOOLEAN
        /\ tree.files[f].target \in Configured \cup {NoTarget}
        /\ tree.files[f].readable \in BOOLEAN
    /\ tree.directories \in Seq(ToSet(tree.directories))
    /\ tree.environment \in Configured \cup {NoTarget}

ASSUME DisksAssumption == \A tree \in CargoTrees : IsDisk(tree)

ASSUME NoTargetAssumption == NoTarget \notin [many : BOOLEAN, of : Seq(Triples)]

VARIABLES
    cargo,       \* what is on disk and in the environment
    phase,       \* "check", "read", "ask", "answered" or "error"
    directory,   \* how many directories the phase has gone through
    target,      \* the merged build.target
    settings     \* the answers of the compiler, one for each target

cargoVars == <<cargo, phase, directory, target, settings>>

Present == DOMAIN cargo.files

Exists(file) == file \in Present

Contents(file) == cargo.files[file]

\* Mistake: a file is remembered after it was checked.
CheckedOnce(file, active) ==
    LET checked[p \in Present \X SUBSET Present] ==
            LET includes == Contents(p[1]).includes
                before(i) == {includes[j].to : j \in 1 .. i - 1} \cap Present
            IN  /\ p[1] \notin p[2]
                /\ Contents(p[1]).readable
                /\ \A i \in DOMAIN includes :
                    /\ includes[i].toml
                    /\ IF Exists(includes[i].to)
                       THEN checked[<<includes[i].to, p[2] \cup before(i) \cup {p[1]}>>]
                       ELSE includes[i].optional
    IN  Exists(file) /\ checked[<<file, active>>]

\* validate_cargo_configuration_file, for a file and the files it is being
\* checked for: every include must exist unless it is optional, end in .toml,
\* and not lead back to a file that is being checked.
Checked(file, active) ==
    LET checked[p \in Present \X SUBSET Present] ==
            LET includes == Contents(p[1]).includes
            IN  /\ p[1] \notin p[2]
                /\ Contents(p[1]).readable
                /\ \A i \in DOMAIN includes :
                    /\ includes[i].toml
                    /\ IF Exists(includes[i].to)
                       THEN checked[<<includes[i].to, p[2] \cup {p[1]}>>]
                       ELSE includes[i].optional
    IN  Exists(file) /\ checked[<<file, active>>]

\* No value: an error.
Refused == [many |-> FALSE, of |-> <<>>]

\* merge_cargo_target_configurations: a single target replaces one, an array
\* goes after an array, and the two kinds do not mix.
Merged(current, added) ==
    IF added = NoTarget THEN current
    ELSE IF current = NoTarget THEN added
    ELSE IF Refused \in {current, added} \/ current.many # added.many THEN Refused
    ELSE IF added.many THEN [many |-> TRUE, of |-> current.of \o added.of]
    ELSE added

\* The values of a list, merged one after another.
MergedAll(list) ==
    LET merged[n \in 0 .. Len(list)] ==
            IF n = 0 THEN NoTarget ELSE Merged(merged[n - 1], list[n])
    IN  merged[Len(list)]

\* Mistake: the includes of a file come after its own table.
ReadOwnFirst(file, active) ==
    LET read[p \in Present \X SUBSET Present] ==
            LET includes == Contents(p[1]).includes
                included == [i \in 1 .. Len(includes) |->
                    IF ~includes[i].toml \/ ~Exists(includes[i].to) THEN NoTarget
                    ELSE read[<<includes[i].to, p[2] \cup {p[1]}>>]]
            IN  IF p[1] \in p[2] \/ ~Contents(p[1]).readable THEN Refused
                ELSE Merged(Contents(p[1]).target, MergedAll(included))
    IN  IF Exists(file) THEN read[<<file, active>>] ELSE NoTarget

\* cargo_configuration_target_from_with_includes, again for a file and the
\* files it is being read for: the includes in their order, then the file
\* itself.
ReadTarget(file, active) ==
    LET read[p \in Present \X SUBSET Present] ==
            LET includes == Contents(p[1]).includes
                included == [i \in 1 .. Len(includes) |->
                    IF ~includes[i].toml \/ ~Exists(includes[i].to) THEN NoTarget
                    ELSE read[<<includes[i].to, p[2] \cup {p[1]}>>]]
            IN  IF p[1] \in p[2] \/ ~Contents(p[1]).readable THEN Refused
                ELSE Merged(MergedAll(included), Contents(p[1]).target)
    IN  IF Exists(file) THEN read[<<file, active>>] ELSE NoTarget

-----------------------------------------------------------------------------

CargoInit ==
    /\ cargo \in CargoTrees
    /\ phase = "check"
    /\ directory = 0
    /\ target = NoTarget
    /\ settings = <<>>

\* Cargo's home, then the directories from the root down to the target:
\* each has `config`, else `config.toml`, or neither.
Current == cargo.directories[directory + 1]

HasDirectory == directory < Len(cargo.directories)

CheckDirectory ==
    /\ phase = "check" /\ HasDirectory
    /\ IF Current = NoConfiguration \/ Checked(Current, {})
       THEN directory' = directory + 1 /\ UNCHANGED phase
       ELSE phase' = "error" /\ UNCHANGED directory
    /\ UNCHANGED <<cargo, target, settings>>

StartReading ==
    /\ phase = "check" /\ ~HasDirectory
    /\ phase' = "read"
    /\ directory' = 0
    /\ UNCHANGED <<cargo, target, settings>>

ReadDirectory ==
    /\ phase = "read" /\ HasDirectory
    /\ target' = IF Current = NoConfiguration THEN target ELSE Merged(target, ReadTarget(Current, {}))
    /\ directory' = directory + 1
    /\ phase' = IF target' = Refused THEN "error" ELSE phase
    /\ UNCHANGED <<cargo, settings>>

\* CARGO_BUILD_TARGET replaces what the configurations say, once they were
\* all read.
UseEnvironment ==
    /\ phase = "read" /\ ~HasDirectory
    /\ target' = IF cargo.environment = NoTarget THEN target ELSE cargo.environment
    /\ phase' = "ask"
    /\ UNCHANGED <<cargo, directory, settings>>

\* direct_rustc_configurations, no target or an empty array: the host, with a
\* default when there is no compiler.
AsksHost == IF target = NoTarget THEN TRUE ELSE target.of = <<>>

AskHost ==
    /\ phase = "ask"
    /\ AsksHost
    /\ settings' = <<Host>>
    /\ phase' = "answered"
    /\ UNCHANGED <<cargo, directory, target>>

\* A target specification is read from its file, every other target is asked
\* of the compiler; one that neither knows is an error.
AskTargets ==
    /\ phase = "ask"
    /\ ~AsksHost
    /\ IF \A i \in DOMAIN target.of : target.of[i] \in cargo.known
       THEN settings' = target.of /\ phase' = "answered"
       ELSE phase' = "error" /\ UNCHANGED settings
    /\ UNCHANGED <<cargo, directory, target>>

CargoNext ==
    \/ CheckDirectory \/ StartReading \/ ReadDirectory \/ UseEnvironment
    \/ AskHost \/ AskTargets

CargoSpec == CargoInit /\ [][CargoNext]_cargoVars

-----------------------------------------------------------------------------
\* Cargo's own rules, as a reference.

Roots == ToSet(cargo.directories) \ {NoConfiguration}

IncludesOf(file) ==
    IF Exists(file) THEN {include.to : include \in ToSet(Contents(file).includes)} ELSE {}

Mentioned == Roots \cup Present \cup UNION {IncludesOf(f) : f \in Present}

\* The configurations and what they include: the smallest set that holds the
\* first and that no include leaves.
Reached ==
    LET closed == {files \in SUBSET Mentioned :
                      Roots \subseteq files /\ \A f \in files : IncludesOf(f) \subseteq files}
    IN  {f \in Mentioned : \A files \in closed : f \in files}

\* Each of these files includes one of them: some of them go round in a ring.
GoesRound(files) == files # {} /\ \A f \in files : IncludesOf(f) \cap files # {}

\* A configuration nobody can use: one that is missing, includes that go
\* round, a file that cannot be parsed, an include that is missing and
\* required or has another extension.
Unusable ==
    LET reached == Reached
    IN  \/ ~(Roots \subseteq Present)
        \/ \E files \in SUBSET reached : GoesRound(files)
        \/ \E f \in reached \cap Present :
            \/ ~Contents(f).readable
            \/ \E i \in DOMAIN Contents(f).includes :
                LET include == Contents(f).includes[i]
                IN  ~include.toml \/ (~include.optional /\ ~Exists(include.to))

\* What a configuration and its includes say, in the order of precedence, the
\* strongest last.
ValuesOf(file) ==
    LET values[f \in Reached \cap Present] ==
            FlattenSeq([i \in 1 .. Len(Contents(f).includes) |->
                           IF Exists(Contents(f).includes[i].to)
                           THEN values[Contents(f).includes[i].to] ELSE <<>>])
            \o IF Contents(f).target = NoTarget THEN <<>> ELSE <<Contents(f).target>>
    IN  IF Exists(file) THEN values[file] ELSE <<>>

Values == FlattenSeq([i \in 1 .. Len(cargo.directories) |-> ValuesOf(cargo.directories[i])])

\* An unusable configuration is always reported, and one that can be used is
\* refused only for targets of two kinds or a target nobody knows: an include
\* that two files share is no cycle.
OnlyFaultsAreRefused ==
    /\ phase \in {"read", "ask", "answered"} => ~Unusable
    /\ phase = "error" =>
        \/ Unusable
        \/ LET values == Values
           IN  \E i, j \in DOMAIN values : values[i].many # values[j].many
        \/ target # NoTarget /\ ~(ToSet(target.of) \subseteq cargo.known)

\* Discovery asks about the targets Cargo would build for: the environment's,
\* else the single target of the strongest configuration or all the targets
\* of the arrays, in their order.
TargetsFollowCargo ==
    (phase = "answered" /\ settings # <<Host>>) =>
        settings = IF cargo.environment # NoTarget THEN cargo.environment.of
                   ELSE LET values == Values
                        IN  IF Last(values).many
                            THEN FlattenSeq([i \in DOMAIN values |-> values[i].of])
                            ELSE Last(values).of
=============================================================================
