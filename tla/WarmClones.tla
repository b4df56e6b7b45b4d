------------------------------ MODULE WarmClones ------------------------------
(***************************************************************************)
(* Private clones of a warm build: clone_tree_with_shared_dependencies,    *)
(* target_artifact_prefixes and the remapping of paths in                  *)
(* src/execution.rs.  Each parallel worker gets a clone of the clean-suite *)
(* area in which entries of Cargo's target directory that belong to the    *)
(* mutated crates are copied and all others are links to the template.     *)
(* Then the workers build and test mutants at the same time.               *)
(*                                                                         *)
(* A name is a sequence of words and separators, so that the code's prefix *)
(* test can be asked of it.  Crates are what Cargo builds: its naming of   *)
(* build products is external to the code and modelled as the code's       *)
(* comments and tests show it.                                             *)
(***************************************************************************)
EXTENDS SequencesExt

CONSTANTS
    Cloners,    \* the workers
    Template,   \* the clean-suite area
    Crates,     \* Cargo targets of the workspace: [package, name, kind]
    Foreign     \* entries of other packages, and files of Cargo itself

\* A worker's area is its own; names are words and separators in a row.
ASSUME CloneAssumption ==
    /\ Template \notin Cloners
    /\ \A c \in Crates : /\ c.kind \in {"lib", "bin", "test", "example"}
                         /\ c.package \in Seq(Range(c.package))
                         /\ c.name \in Seq(Range(c.name))

VARIABLES
    layout,     \* where Cargo builds: "host" or "triple", chosen once
    cloning,    \* what each worker does
    place,      \* where an entry of a worker's target directory really is
    names,      \* the area the absolute paths in a worker's files lead to
    builder,    \* whose tree the products in an area were last built from
    lock        \* the worker that holds the build lock of an area

cloneVars == <<layout, cloning, place, names, builder, lock>>

BuildAreas == Cloners \cup {Template}

Nobody == "nobody"

\* A separator, as is_crate_target_entry knows them.
Separators == {"-", ".", "_"}

CrateName(name) == [i \in DOMAIN name |-> IF name[i] = "-" THEN "_" ELSE name[i]]

WorkspaceNames == UNION {{c.package, c.name} : c \in Crates}

\* Mistake: the names are taken as they are in the manifest.
PrefixesAsWritten == WorkspaceNames \cup {<<"lib">> \o n : n \in WorkspaceNames}

\* target_artifact_prefixes: names of the packages and of their targets, as
\* written and as the compiler writes them, with and without `lib`.
CratePrefixes ==
    LET spelled == WorkspaceNames \cup {CrateName(n) : n \in WorkspaceNames}
    IN  spelled \cup {<<"lib">> \o n : n \in spelled}

IsCrateEntry(name) ==
    \E p \in CratePrefixes :
        /\ IsPrefix(p, name)
        /\ Len(name) > Len(p) => name[Len(p) + 1] \in Separators

\* What Cargo writes for a target: [dir, name] for the directory of the entry
\* in target/ and its name there.  `profile` is target/debug itself, or with
\* build.target or --target target/<triple>/debug; `units` stands for its
\* .fingerprint, build and incremental.
Hashed(name) == name \o <<"-", "hash">>

Products(c) ==
    CASE c.kind = "lib" ->
            {[dir |-> "deps", name |-> Hashed(<<"lib">> \o CrateName(c.name)) \o <<".", "rlib">>],
             [dir |-> "deps", name |-> Hashed(CrateName(c.name))],
             [dir |-> "profile", name |-> <<"lib">> \o CrateName(c.name) \o <<".", "rlib">>],
             [dir |-> "units", name |-> Hashed(c.package)],
             [dir |-> "units", name |-> Hashed(CrateName(c.name))]}
      [] c.kind = "bin" ->
            {[dir |-> "deps", name |-> Hashed(CrateName(c.name))],
             [dir |-> "profile", name |-> c.name],
             [dir |-> "units", name |-> Hashed(c.package)]}
      [] c.kind = "test" ->
            {[dir |-> "deps", name |-> Hashed(CrateName(c.name))]}
      [] c.kind = "example" ->
            {[dir |-> "profile", name |-> <<"examples">>]}

\* `cargo test` builds examples and runs what else it builds.  (The directory
\* of the examples is one for all workers, so a test that runs an example by
\* its path may meet that of another.)
UsedByTests == UNION {Products(c) : c \in {k \in Crates : k.kind # "example"}}

LockFile == [dir |-> "profile", name |-> <<".cargo", "-", "lock">>]

Entries == UNION {Products(c) : c \in Crates} \cup Foreign \cup {LockFile}

\* clone_target_directory, clone_target_profile, clone_profile_subdirectory,
\* clone_deps_directory and clone_named_subdirectories.  They take each
\* directory of target/ for a profile, that of a triple too: there `debug` is an
\* entry like another, cloned or linked as a whole.
IsCloned(e) ==
    /\ e.dir # "target"
    /\ IF layout = "host" THEN IsCrateEntry(e.name) ELSE IsCrateEntry(<<"debug">>)

CloneInit ==
    /\ layout \in {"host", "triple"}
    /\ cloning = [w \in Cloners |-> "none"]
    /\ place = [w \in Cloners |-> [e \in Entries |-> w]]
    /\ names = [w \in Cloners |-> Template]
    /\ builder = [a \in BuildAreas |-> [e \in Entries |-> Template]]
    /\ lock = [a \in BuildAreas |-> Nobody]

\* clone_from_template up to the copy: link_or_copy copies an entry where the
\* system makes no links.  Copied files still hold the template's paths.
Clone(w) ==
    /\ cloning[w] = "none"
    /\ cloning' = [cloning EXCEPT ![w] = "cloned"]
    /\ \E linksWork \in BOOLEAN :
        place' = [place EXCEPT ![w] =
            [e \in Entries |-> IF IsCloned(e) \/ ~linksWork THEN w ELSE Template]]
    /\ builder' = [builder EXCEPT ![w] = builder[Template]]
    /\ UNCHANGED <<layout, names, lock>>

\* remap_path_prefix_in_tree.
Remap(w) ==
    /\ cloning[w] = "cloned"
    /\ cloning' = [cloning EXCEPT ![w] = "ready"]
    /\ names' = [names EXCEPT ![w] = w]
    /\ UNCHANGED <<layout, place, builder, lock>>

LockOf(w) == place[w][LockFile]

\* Cargo takes the build lock, or waits for it: in both states the time of
\* the worker's command runs.
StartBuild(w) ==
    /\ cloning[w] \in {"ready", "waiting"}
    /\ lock[LockOf(w)] = Nobody
    /\ lock' = [lock EXCEPT ![LockOf(w)] = w]
    /\ cloning' = [cloning EXCEPT ![w] = "building"]
    /\ UNCHANGED <<layout, place, names, builder>>

WaitForLock(w) ==
    /\ cloning[w] = "ready"
    /\ lock[LockOf(w)] # Nobody
    /\ cloning' = [cloning EXCEPT ![w] = "waiting"]
    /\ UNCHANGED <<layout, place, names, builder, lock>>

\* The build writes the products of every target, through links too.
FinishBuild(w) ==
    /\ cloning[w] = "building"
    /\ cloning' = [cloning EXCEPT ![w] = "testing"]
    /\ builder' = [a \in BuildAreas |-> [e \in Entries |->
            IF e \in UNION {Products(c) : c \in Crates} /\ place[w][e] = a
            THEN names[w] ELSE builder[a][e]]]
    /\ lock' = [lock EXCEPT ![LockOf(w)] = Nobody]
    /\ UNCHANGED <<layout, place, names>>

FinishTests(w) ==
    /\ cloning[w] = "testing"
    /\ cloning' = [cloning EXCEPT ![w] = "ready"]
    /\ UNCHANGED <<layout, place, names, builder, lock>>

CloneNext ==
    \E w \in Cloners :
        \/ Clone(w)
        \/ Remap(w)
        \/ StartBuild(w)
        \/ WaitForLock(w)
        \/ FinishBuild(w)
        \/ FinishTests(w)

CloneSpec == CloneInit /\ [][CloneNext]_cloneVars

\* Where Cargo builds for the host: while a worker's tests run, every product
\* `cargo test` runs was built from that worker's own tree, with its mutant,
\* whatever the other workers build.  (Where it builds for a triple, workers
\* whose clones are links all build in the template's directory, and a test may
\* run what another worker built.)
TestsRunOwnBuild ==
    layout = "host" => \A w \in Cloners : cloning[w] = "testing" =>
        \A e \in UsedByTests : builder[place[w][e]][e] = w

\* "Parallel workers each receive a private clone so no two workers share a
\* writable target dir" (src/execution.rs:4298): no worker's command spends
\* its time waiting for the build of another.
WorkersBuildApart == \A w \in Cloners : cloning[w] # "waiting"
=============================================================================
