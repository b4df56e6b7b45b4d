------------------------------- MODULE Discovery -------------------------------
(***************************************************************************)
(* Which Rust sources a run mutates: find_rust_sources in                  *)
(* src/discovery.rs.  A target names a file, a directory or a package; a   *)
(* package or workspace is followed through the module trees of its Cargo  *)
(* targets, and the sources that only tests or inactive configurations     *)
(* use are kept out of the walk over its directories.                      *)
(*                                                                         *)
(* A path is the directories it lies in, as a sequence of names, and a     *)
(* stem; every file of a tree is Rust except those with rust = FALSE.  The *)
(* modules and includes of a file are listed flat, each with the inline    *)
(* modules around it.                                                      *)
(***************************************************************************)
EXTENDS Integers, FiniteSets, SequencesExt, CfgConditions

CONSTANTS
    Trees,      \* the packages on disk that a run may meet
    Nowhere,    \* no path
    Hidden,     \* names that start with a dot
    TestNames   \* stems that end in _test

VARIABLES
    tree,    \* what is on disk and what `cargo metadata` answers
    asked,   \* the targets of the run
    taken,   \* how many of them were collected
    collected,   \* the sources collected so far
    ended    \* "no", "found" or "failed"

sourceVars == <<tree, asked, taken, collected, ended>>

IsFile(path) == path \in DOMAIN tree.files

IsRust(path) == tree.files[path].rust

TestDirectories == {"tests", "benches", "examples", "fixtures", "testdata"}

ExcludedDirectories == TestDirectories \cup {"vendor", "generated", "gen"}

SkippedDirectories == ExcludedDirectories \cup {"target"} \cup Hidden

-----------------------------------------------------------------------------
\* Where a module or an include of a file leads.

\* A place of a walk: a file, the directory its child modules are looked up
\* in, the walk, and the settings of the compiler's target.
Place(file, root, walk, settings) ==
    [file |-> file, root |-> root, walk |-> walk, settings |-> settings]

ModuleDirectory(file) == IF file.stem = "mod" THEN file.dir ELSE Append(file.dir, file.stem)

\* The directory of an item's child modules: one level for each inline module.
RootOf(place, item) == place.root \o [i \in DOMAIN item.within |-> item.within[i].name]

PathBase(place, item) == IF item.within = <<>> THEN place.file.dir ELSE RootOf(place, item)

\* canonical_path of a relative path, when there is such a file.
Existing(base, relative) ==
    SelectSeq(<<[dir |-> base \o relative.dir, stem |-> relative.stem]>>, IsFile)

\* module_source_by_name: name.rs before name/mod.rs.
ByName(place, item) ==
    LET root == RootOf(place, item)
        files == SelectSeq(<<[dir |-> root, stem |-> item.name],
                             [dir |-> Append(root, item.name), stem |-> "mod"]>>, IsFile)
    IN  SubSeq(files, 1, IF files = <<>> THEN 0 ELSE 1)

\* external_module_source: the `path` attribute, else the module's name.
ExternalSource(place, item) ==
    IF item.path # Nowhere THEN Existing(PathBase(place, item), item.path)
    ELSE ByName(place, item)

IncludedSource(place, item) == Existing(place.file.dir, item.path)

\* The files that some of the item's paths lead to, in their order.
AttributePaths(place, item, paths) ==
    FlattenSeq([i \in DOMAIN paths |-> Existing(PathBase(place, item), paths[i].to)])

\* Only the first of them counts, and it may lead nowhere.
FirstAttributePath(place, item, paths) ==
    IF paths = <<>> THEN <<>> ELSE Existing(PathBase(place, item), paths[1].to)

\* test_path_attribute, production_path_attribute.
TestPaths(item) == SelectSeq(item.paths, LAMBDA p : RequiresTest(p.if))
ProductionPaths(item) == SelectSeq(item.paths, LAMBDA p : CanBeTrue(p.if))
ActivePaths(item, features, settings) ==
    SelectSeq(item.paths, LAMBDA p : IsActive(p.if, FALSE, features, settings))

OrElse(first, second) == IF first = <<>> THEN second ELSE first

TestSource(place, item) ==
    OrElse(FirstAttributePath(place, item, TestPaths(item)), ExternalSource(place, item))

ProductionSource(place, item) ==
    OrElse(FirstAttributePath(place, item, ProductionPaths(item)), ExternalSource(place, item))

\* active_production_module_sources.
ActiveSources(place, item, features) ==
    OrElse(AttributePaths(place, item, ActivePaths(item, features, place.settings)),
           ExternalSource(place, item))

\* collect_module_source_candidates: the default file and every `cfg_attr`
\* path, whatever its condition.
Candidates(place, item) ==
    ExternalSource(place, item) \o AttributePaths(place, item, item.paths)

-----------------------------------------------------------------------------
\* The four walks over a module tree.

ModulePlaces(files, walk, settings) ==
    [i \in DOMAIN files |-> Place(files[i], ModuleDirectory(files[i]), walk, settings)]

\* An included file keeps the module directory of the file that includes it.
IncludePlaces(place, item, walk) ==
    LET files == IncludedSource(place, item)
    IN  [i \in DOMAIN files |-> Place(files[i], RootOf(place, item), walk, place.settings)]

\* collect_item_source_tree: every module and include, whatever its gates.
WholePlaces(place, item) ==
    CASE item.kind = "include" -> IncludePlaces(place, item, "whole")
      [] item.kind = "mod" -> ModulePlaces(ExternalSource(place, item), "whole", place.settings)
      [] OTHER -> <<>>

ChainIsOpen(place, item, features) ==
    \A i \in DOMAIN item.within :
        GateIsOpen(item.within[i].gate, FALSE, features, place.settings)

IsOpen(place, item, features) ==
    /\ ChainIsOpen(place, item, features)
    /\ GateIsOpen(item.gate, FALSE, features, place.settings)

\* collect_production_item_source_tree.
ProductionPlaces(place, item, features) ==
    IF IsOpen(place, item, features)
    THEN CASE item.kind = "include" -> IncludePlaces(place, item, "production")
           [] item.kind = "mod" ->
                ModulePlaces(ActiveSources(place, item, features), "production", place.settings)
           [] OTHER -> <<>>
    ELSE <<>>

\* collect_inactive_item_source_tree: below an inactive item everything is
\* inactive; an active module is searched further, and what its `cfg_attr`
\* paths may lead to counts as inactive too.
InactivePlaces(place, item, features) ==
    LET candidates == ModulePlaces(Candidates(place, item), "whole", place.settings)
    IN  IF ~ChainIsOpen(place, item, features) THEN WholePlaces(place, item)
        ELSE IF item.kind = "include"
        THEN IF IsOpen(place, item, features) THEN <<>> ELSE IncludePlaces(place, item, "whole")
        ELSE IF ~IsOpen(place, item, features) THEN candidates
        ELSE (IF item.paths = <<>> THEN <<>> ELSE candidates) \o
             (IF item.kind = "mod"
              THEN ModulePlaces(ActiveSources(place, item, features), "inactive", place.settings)
              ELSE <<>>)

\* Mistake: an included file is not searched for tests.
TestOnlyBesideIncludes(place, item) ==
    LET inTests == \E i \in DOMAIN item.within : HasTestCfg(item.within[i].gate)
        asksTest == HasTestCfg(item.gate)
    IN  IF inTests THEN WholePlaces(place, item)
        ELSE CASE item.kind = "include" /\ asksTest -> IncludePlaces(place, item, "whole")
               [] item.kind = "mod" /\ asksTest ->
                    ModulePlaces(TestSource(place, item), "whole", place.settings)
               [] item.kind = "mod" /\ ~asksTest ->
                    ModulePlaces(FirstAttributePath(place, item, TestPaths(item)),
                                 "whole", place.settings)
                    \o ModulePlaces(ProductionSource(place, item), "test", place.settings)
               [] OTHER -> <<>>

\* collect_test_only_item_source_tree: the same for what asks for a test build.
TestOnlyPlaces(place, item) ==
    LET inTests == \E i \in DOMAIN item.within : HasTestCfg(item.within[i].gate)
        asksTest == HasTestCfg(item.gate)
    IN  IF inTests THEN WholePlaces(place, item)
        ELSE CASE item.kind = "include" ->
                    IncludePlaces(place, item, IF asksTest THEN "whole" ELSE "test")
               [] item.kind = "mod" /\ asksTest ->
                    ModulePlaces(TestSource(place, item), "whole", place.settings)
               [] item.kind = "mod" /\ ~asksTest ->
                    ModulePlaces(FirstAttributePath(place, item, TestPaths(item)),
                                 "whole", place.settings)
                    \o ModulePlaces(ProductionSource(place, item), "test", place.settings)
               [] OTHER -> <<>>

Children(place, features) ==
    LET items == tree.files[place.file].items
        Of(item) == CASE place.walk = "whole" -> WholePlaces(place, item)
                      [] place.walk = "production" -> ProductionPlaces(place, item, features)
                      [] place.walk = "inactive" -> InactivePlaces(place, item, features)
                      [] place.walk = "test" -> TestOnlyPlaces(place, item)
    IN  FlattenSeq([i \in DOMAIN items |-> Of(items[i])])

Collects(walk) == walk \in {"whole", "production"}

\* The depth-first walks: a walk that collects enters a file once, the two
\* searches enter it as often as it is reached.
RECURSIVE Walked(_, _, _)
Walked(places, features, seen) ==
    IF places = <<>> THEN seen
    ELSE LET place == Head(places)
         IN  IF Collects(place.walk) /\ place.file \in seen
             THEN Walked(Tail(places), features, seen)
             ELSE Walked(Children(place, features) \o Tail(places), features,
                         IF Collects(place.walk) THEN seen \cup {place.file} ELSE seen)

WalkOf(file, walk, settings, features) ==
    Walked(<<Place(file, file.dir, walk, settings)>>, features, {})

-----------------------------------------------------------------------------
\* The sources of a package.

IsActiveTarget(package, target) == target.requires \subseteq package.features

ProductionTargets(package) ==
    {t \in package.targets : t.production /\ IsActiveTarget(package, t)}

\* The union of a walk over the production targets, for every target the
\* compiler builds for.
OverTargets(package, walk) ==
    UNION {WalkOf(t.src, walk, settings, package.features) :
              t \in ProductionTargets(package), settings \in tree.settings}

ProductionSources(package) == OverTargets(package, "production")

\* Mistake: what a test or an inactive item uses is left out even when
\* production uses it too.
ExcludedAnyway(package) ==
    UNION {WalkOf(t.src, "whole", {}, package.features) :
              t \in package.targets \ ProductionTargets(package)}
    \cup OverTargets(package, "test") \cup OverTargets(package, "inactive")

\* non_production_package_sources.
NonProductionSources(package) ==
    (UNION {WalkOf(t.src, "whole", {}, package.features) :
              t \in package.targets \ ProductionTargets(package)}
     \cup OverTargets(package, "test") \cup OverTargets(package, "inactive"))
    \ ProductionSources(package)

\* collect_directory_from_root and add_source_file_from_root.
DirectorySources(directory, recursive, excluded, all, package) ==
    LET Below(file) == SubSeq(file.dir, Len(directory) + 1, Len(file.dir))
        Walks(file) ==
            /\ IsPrefix(directory, file.dir)
            /\ recursive \/ file.dir = directory
            /\ all \/ \A name \in ToSet(Below(file)) : name \notin SkippedDirectories
            /\ file.stem \notin Hidden
        InTestArea ==
            /\ package # Nowhere
            /\ IsPrefix(package, directory)
            /\ \E i \in DOMAIN directory :
                i > Len(package) /\ directory[i] \in TestDirectories
        IsSource(file) == file.stem # "build" /\ file.stem \notin TestNames
    IN  {file \in DOMAIN tree.files :
            /\ Walks(file)
            /\ IsRust(file)
            /\ all \/ (IsSource(file) /\ ~InTestArea)
            /\ file \notin excluded}

\* collect_package_sources: the production module trees, and what lies
\* beside each target's root and is not excluded.
PackageSources(package, recursive) ==
    {f \in ProductionSources(package) : IsRust(f)}
    \cup UNION {{t.src} \cup
                DirectorySources(t.src.dir, recursive, NonProductionSources(package), FALSE,
                                 package.dir) :
                    t \in ProductionTargets(package)}

-----------------------------------------------------------------------------
\* One action for each way a target is collected.

DiscoveryInit ==
    /\ tree \in Trees
    /\ asked \in tree.targets
    /\ taken = 0
    /\ collected = {}
    /\ ended = "no"

Target == asked[taken + 1]

Collecting == ended = "no" /\ taken < Len(asked)

Collect(files) ==
    /\ collected' = collected \cup files
    /\ taken' = taken + 1
    /\ UNCHANGED <<tree, asked, ended>>

Failed ==
    /\ ended' = "failed"
    /\ UNCHANGED <<tree, asked, taken, collected>>

\* collect_package: the members of the workspace are known by name.  An
\* unreadable compiler or Cargo configuration is an error.
NamedPackages == {p \in tree.packages : tree.answers /\ p.name = Target.name}

PackageIsReadable == NamedPackages # {} /\ tree.settings # {}

IsPathTarget == Target.pathLike \/ IsFile(Target.path)

CollectPackage ==
    /\ Collecting
    /\ ~IsPathTarget
    /\ PackageIsReadable
    /\ \E p \in NamedPackages : Collect(PackageSources(p, Target.recursive))

\* What is collected by its path: a path, or a name that is no package.
TakenAsPath ==
    /\ Collecting
    /\ IsPathTarget \/ ~PackageIsReadable

CollectFile ==
    /\ TakenAsPath
    /\ IsFile(Target.path)
    /\ Collect({f \in {Target.path} : IsRust(f)})

\* Any directory above the target counts, those above the workspace too.
InExcludedArea ==
    \E name \in ToSet(tree.above \o Target.path.dir) : name \in ExcludedDirectories

IsDirectory == Target.path.stem = "" /\ \E f \in DOMAIN tree.files : IsPrefix(Target.path.dir, f.dir)

CollectExcludedDirectory ==
    /\ TakenAsPath
    /\ IsDirectory
    /\ InExcludedArea
    /\ Collect(DirectorySources(Target.path.dir, Target.recursive, {}, TRUE, Nowhere))

\* The packages a directory stands for: every member for the workspace's
\* root, one for the directory of a package.
PackagesAt ==
    IF ~tree.answers THEN {}
    ELSE IF Target.path.dir = tree.root THEN tree.packages
    ELSE {p \in tree.packages : p.dir = Target.path.dir}

CollectPackageDirectory ==
    /\ TakenAsPath
    /\ IsDirectory
    /\ ~InExcludedArea
    /\ PackagesAt # {}
    /\ tree.settings # {}
    /\ Collect(UNION {PackageSources(p, Target.recursive) : p \in PackagesAt})

\* Below a manifest, what the workspace does not build is left out, if Cargo
\* answers at all.
InWorkspace ==
    tree.answers /\ \E p \in tree.packages :
        IsStrictPrefix(p.dir, Target.path.dir) \/ IsStrictPrefix(tree.root, Target.path.dir)

CollectDirectory ==
    /\ TakenAsPath
    /\ IsDirectory
    /\ ~InExcludedArea
    /\ PackagesAt = {}
    /\ InWorkspace => tree.settings # {}
    /\ LET excluded == IF InWorkspace
                       THEN UNION {NonProductionSources(p) : p \in tree.packages} ELSE {}
       IN  Collect(DirectorySources(Target.path.dir, Target.recursive, excluded, FALSE, Nowhere))

\* A path that is not there, a name that is neither, or an unreadable
\* configuration ends the whole discovery.
CollectNothing ==
    /\ TakenAsPath
    /\ IF IsFile(Target.path) THEN FALSE
       ELSE IF ~IsDirectory THEN TRUE
       ELSE /\ ~InExcludedArea
            /\ PackagesAt # {} \/ InWorkspace
            /\ tree.settings = {}
    /\ Failed

FinishDiscovery ==
    /\ ended = "no" /\ taken = Len(asked)
    /\ ended' = "found"
    /\ UNCHANGED <<tree, asked, taken, collected>>

DiscoveryNext ==
    \/ CollectPackage
    \/ CollectFile
    \/ CollectExcludedDirectory
    \/ CollectPackageDirectory
    \/ CollectDirectory
    \/ CollectNothing
    \/ FinishDiscovery

DiscoverySpec == DiscoveryInit /\ [][DiscoveryNext]_sourceVars

-----------------------------------------------------------------------------
\* What the compiler builds, as a reference for the walks.

\* The files an item stands for in a build of the production code.
Compiled(place, item, features) ==
    IF ~IsOpen(place, item, features) THEN {}
    ELSE CASE item.kind = "include" -> ToSet(IncludePlaces(place, item, "production"))
           [] item.kind = "mod" ->
                ToSet(ModulePlaces(ActiveSources(place, item, features), "production",
                                   place.settings))
           [] OTHER -> {}

\* Every file a module tree names, in whatever build.
Named(place, item) ==
    ToSet(CASE item.kind = "include" -> IncludePlaces(place, item, "whole")
            [] item.kind = "mod" -> ModulePlaces(Candidates(place, item), "whole", {})
            [] OTHER -> <<>>)

RECURSIVE Closure(_, _)
Closure(places, features) ==
    LET Next(p) == UNION {IF p.walk = "whole" THEN Named(p, item) ELSE Compiled(p, item, features) :
                             item \in ToSet(tree.files[p.file].items)}
        more == places \cup UNION {Next(p) : p \in places}
    IN  IF more = places THEN places ELSE Closure(more, features)

FilesIn(places) == {p.file : p \in places}

BuiltPlaces(package) ==
    Closure({Place(t.src, t.src.dir, "production", settings) :
                t \in ProductionTargets(package), settings \in tree.settings}, package.features)

NamedPlaces(package) ==
    Closure({Place(t.src, t.src.dir, "whole", {}) : t \in package.targets}, {})

BuiltBy(package) == FilesIn(BuiltPlaces(package))

NamedIn(package) == FilesIn(NamedPlaces(package))

ItemsOf(place) == ToSet(tree.files[place.file].items)

-----------------------------------------------------------------------------
\* Shapes of a tree in which the walks miss something.

\* A file with two directories for its modules, as one that two modules
\* include: a walk that collects enters it once, in the first of them.
HasTwoRoots(package) ==
    \E p, q \in NamedPlaces(package) : p.file = q.file /\ p.root # q.root

\* The search for inactive items does not go into a file that is included.
HidesInactive(package) ==
    LET built == BuiltPlaces(package)
        Included(p) == UNION {ToSet(IncludePlaces(p, item, "production")) :
                                item \in {i \in ItemsOf(p) :
                                            i.kind = "include" /\ IsOpen(p, i, package.features)}}
        below == Closure(UNION {Included(p) : p \in built}, package.features)
        AsksTest(item) == \/ HasTestCfg(item.gate)
                          \/ \E i \in DOMAIN item.within : HasTestCfg(item.within[i].gate)
    IN  \E p \in below : \E item \in ItemsOf(p) :
            \/ item.paths # <<>>
            \/ ~IsOpen(p, item, package.features) /\ ~AsksTest(item)

\* Below what is not built, the conditional paths of a module are not followed.
HidesPaths(package) ==
    \E p \in NamedPlaces(package) : \E item \in ItemsOf(p) :
        /\ item.paths # <<>>
        /\ ~\E q \in BuiltPlaces(package) :
                q.file = p.file /\ ChainIsOpen(q, item, package.features)

IsPlain(package) ==
    ~HasTwoRoots(package) /\ ~HidesInactive(package) /\ ~HidesPaths(package)

-----------------------------------------------------------------------------
Requested == ToSet(asked)

PackagesOf(target) ==
    {p \in tree.packages : ~target.pathLike /\ p.name = target.name}
    \cup {p \in tree.packages :
            target.path.stem = "" /\ (target.path.dir = tree.root \/ target.path.dir = p.dir)}

\* A package names the file without building it, as for its tests.
IsBorrowed(file) == \E p \in tree.packages : file \in NamedIn(p) \ BuiltBy(p)

\* A run over a package or a workspace selects every Rust source the compiler
\* builds for it: none is lost because tests or an inactive item use it too.
\* A run over a directory below it does so for the sources that no name keeps
\* out and no package names without building them.  Packages in which a file has two
\* directories for its modules are not meant.
ProductionIsCollected ==
    (ended = "found" /\ tree.answers) =>
        \A target \in Requested, p \in {q \in tree.packages : ~HasTwoRoots(q)} :
            \A f \in {g \in BuiltBy(p) : IsRust(g)} :
                (\/ p \in PackagesOf(target)
                 \/ /\ target.recursive /\ target.path.stem = ""
                    /\ IsPrefix(target.path.dir, f.dir)
                    /\ f \in DirectorySources(target.path.dir, TRUE, {}, FALSE, Nowhere)
                    /\ ~IsBorrowed(f))
                => f \in collected

\* The packages that take what lies beside the roots of their targets.
BesideRootsOf(file) ==
    {p \in tree.packages : \E t \in ProductionTargets(p) : IsPrefix(t.src.dir, file.dir)}

\* The sources of test modules and of inactive items are not mutated unless a
\* target names them: of the files that module trees of plain shape name, only
\* those of a production build are selected.  (A file that only the tests of
\* another package name is to the package it lies in one that nobody names.)
OnlyBuiltModulesAreCollected ==
    (tree.answers /\ \A t \in Requested : t.path.stem = "") =>
        LET named == [p \in tree.packages |-> NamedIn(p)]
            plain == {p \in tree.packages : IsPlain(p)}
        IN  \A f \in collected \cap UNION {named[p] : p \in plain} :
                (\A p \in tree.packages : /\ f \in named[p] => p \in plain
                                          /\ p \in BesideRootsOf(f) => f \in named[p])
                => \E p \in tree.packages : f \in BuiltBy(p)

\* A package, workspace or directory target leaves out the sources of tests,
\* examples and vendored code, wherever the user keeps the workspace.
BroadTargetsLeaveTestsOut ==
    (\A t \in Requested : PackagesOf(t) # {}) =>
        \A f \in collected :
            \/ \A name \in ToSet(f.dir) : name \notin ExcludedDirectories
            \/ \E p \in tree.packages : f \in BuiltBy(p)
=============================================================================
