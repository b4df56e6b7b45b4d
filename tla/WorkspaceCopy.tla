----------------------------- MODULE WorkspaceCopy -----------------------------
(***************************************************************************)
(* The copy of a Cargo workspace that mutants are tested in:               *)
(* workspace_from_metadata and copy_workspace in src/execution.rs.  The    *)
(* code finds every directory and file a build of the workspace needs,     *)
(* copies them with their layout, and rewrites the absolute paths in the   *)
(* copied manifests and configurations.                                    *)
(*                                                                         *)
(* A path is a sequence of names.  A disk holds files, the answers of      *)
(* `cargo metadata` about them, and the references each manifest and       *)
(* configuration holds, each with the path it leads to.                    *)
(***************************************************************************)
EXTENDS Integers, FiniteSets, SequencesExt

CONSTANT Worlds   \* the disks the copy is tried on

VARIABLES
    disk,        \* what is on disk, chosen once
    copying,     \* where workspace_from_metadata and copy_workspace stand
    roots,       \* paths found to be needed
    manifests,   \* manifests found
    builds,      \* build directories of the metadata read
    pending,     \* local dependencies whose metadata is to be read
    inspected,   \* directories whose manifest was read for paths
    toRead,      \* Cargo configurations to be read
    configs,     \* Cargo configurations read
    area,        \* the original paths of the files in the copy
    rewritten,   \* the files whose absolute paths were rewritten
    broken       \* a file operation failed, or the run was interrupted

copyVars == <<disk, copying, roots, manifests, builds, pending, inspected, toRead,
              configs, area, rewritten, broken>>

packageVars == <<manifests, builds, pending, inspected>>
configVars == <<toRead, configs>>
areaVars == <<area, rewritten>>

Under(path, directory) == IsPrefix(directory, path)

HasFile(path) == path \in disk.files

OnDisk(path) == \E f \in disk.files : Under(f, path)

Ancestors(path) == {SubSeq(path, 1, n) : n \in 0..Len(path)}

Manifest(directory) == Append(directory, "Cargo.toml")

\* Paths are sequences of names; what is on a disk is finite; `cargo metadata`
\* answers for every directory with a manifest, and lists packages by theirs.
IsWorld(d) ==
    /\ d.files \subseteq Seq(STRING)
    /\ d.root \in Seq(STRING) /\ d.source \in d.files
    /\ LET paths == {r.to : r \in UNION {d.refs[f] : f \in DOMAIN d.refs}}
       IN  IsFiniteSet(paths) /\ paths \subseteq Seq(STRING)
    /\ \A p \in {d.root} \cup {Front(f) : f \in {m \in d.files : Last(m) = "Cargo.toml"}} :
        /\ p \in DOMAIN d.members
        /\ d.members[p] \subseteq {q \in Seq(STRING) : Manifest(q) \in d.files}
        /\ d.buildOf[p] \in Seq(STRING)

ASSUME WorldsAssumption == \A d \in Worlds : IsWorld(d)

RefsOf(file, kinds) ==
    IF file \in DOMAIN disk.refs THEN {r \in disk.refs[file] : r.kind \in kinds} ELSE {}

Targets(files, kinds) == {r.to : r \in UNION {RefsOf(f, kinds) : f \in files}}

\* is_manifest_path_value: the paths of dependencies, of [patch] and
\* [replace], of targets, and of the build script.
ManifestKinds == {"dependency", "patch", "target"}

\* Other paths Cargo takes from a manifest, workspace.members and
\* package.workspace: the code neither follows nor rewrites them.
WorkspaceKinds == {"workspace"}

\* The paths of a Cargo configuration besides its includes: `paths`,
\* build.target, runners, linkers, [patch] and [replace].
ConfigKinds == {"path", "program", "configPatch"}

\* Mistake: the innermost paths are kept.
InnermostOf(paths) == {p \in paths : \A q \in paths : p # q => ~Under(q, p)}

\* copy_roots: of nested paths, only the outermost.
OutermostOf(paths) == {p \in paths : \A q \in paths : p # q => ~Under(p, q)}

\* excluded_copy_roots: build directories, and what Cargo and Git keep
\* beside each manifest.
ExcludedRoots ==
    {p \in builds \cup {Append(Front(m), n) : m \in manifests, n \in {".cargo", ".git"}} :
        OnDisk(p)}

\* active_cargo_configuration: `config` hides `config.toml`.
ActiveConfigurations(directory) ==
    LET plain == Append(directory, "config")
        toml == Append(directory, "config.toml")
    IN  IF HasFile(plain) THEN {plain} ELSE {toml} \cap disk.files

Homes == {disk.home} \ {<<>>}

CopyInit ==
    /\ disk \in Worlds
    /\ copying = "find configurations"
    /\ roots = {}
    /\ manifests = {}
    /\ builds = {}
    /\ pending = <<>>
    /\ inspected = {}
    /\ toRead = {}
    /\ configs = {}
    /\ area = {}
    /\ rewritten = {}
    /\ broken = FALSE

\* cargo_configurations: the active one of each directory above the root,
\* and of Cargo's home.
FindConfigurations ==
    /\ copying = "find configurations"
    /\ toRead' = UNION {ActiveConfigurations(Append(d, ".cargo")) : d \in Ancestors(disk.root)}
                 \cup UNION {ActiveConfigurations(h) : h \in Homes}
    /\ copying' = "read configurations"
    /\ UNCHANGED <<disk, roots, packageVars, configs, areaVars, broken>>

DanglingInclude(r) == ~HasFile(r.to) /\ ~r.optional

\* One turn of the loop over configurations: each is read once, whatever
\* includes it, and an include that is missing must be optional.
ReadConfiguration ==
    /\ copying = "read configurations"
    /\ \E c \in toRead :
        /\ configs' = configs \cup {c}
        /\ LET includes == RefsOf(c, {"include"})
           IN  /\ copying' = IF \E r \in includes : DanglingInclude(r) THEN "failed" ELSE copying
               /\ toRead' = (toRead \cup {r.to : r \in {i \in includes : HasFile(i.to)}})
                            \ configs'
    /\ UNCHANGED <<disk, roots, packageVars, areaVars, broken>>

\* add_metadata_paths: the packages `cargo metadata` lists for a directory,
\* the directories of their targets, and their local dependencies, which
\* must all be there.
AddMetadata(directory, paths, files, rest) ==
    LET packages == disk.members[directory]
        listed == {Manifest(p) : p \in packages}
        local == Targets(listed, {"dependency"})
    IN  /\ builds' = builds \cup {disk.buildOf[directory]}
        /\ manifests' = manifests \cup files \cup listed
        /\ roots' = roots \cup paths \cup packages
                    \cup {Front(t) : t \in Targets(listed, {"target"})}
        /\ pending' = rest \o SetToSeq(local)
        /\ copying' = IF \A d \in local : OnDisk(d) THEN "dependencies" ELSE "failed"

ReadPackages ==
    /\ copying = "read configurations"
    /\ toRead = {}
    /\ AddMetadata(disk.root, {disk.root}, {Manifest(disk.root)} \cap disk.files, <<>>)
    /\ UNCHANGED <<disk, inspected, configVars, areaVars, broken>>

\* One turn of the loop over dependencies in copy_paths_for.
PopDependency ==
    /\ copying = "dependencies"
    /\ pending # <<>>
    /\ LET path == Last(pending)
       IN  IF path \in roots
           THEN /\ pending' = Front(pending)
                /\ UNCHANGED <<copying, roots, manifests, builds>>
           ELSE IF ~HasFile(Manifest(path))
                THEN /\ copying' = "failed"
                     /\ UNCHANGED <<roots, manifests, builds, pending>>
                ELSE AddMetadata(path, {}, {}, Front(pending))
    /\ UNCHANGED <<disk, inspected, configVars, areaVars, broken>>

Uninspected == {d \in roots \ inspected : HasFile(Manifest(d))}

\* Mistake: manifests are read for paths in one round only.
InspectOnce ==
    /\ copying = "dependencies"
    /\ pending = <<>>
    /\ LET found == {Manifest(d) : d \in Uninspected}
       IN  /\ manifests' = manifests \cup found
           /\ inspected' = inspected \cup Uninspected
           /\ roots' = roots \cup {t \in Targets(found, ManifestKinds) : OnDisk(t)}
                       \cup {disk.source}
           /\ copying' = "inspected"
    /\ UNCHANGED <<disk, builds, pending, configVars, areaVars, broken>>

\* add_manifest_paths: rounds of reading the manifests of the paths found so
\* far, for paths that metadata does not list, until a round finds none.
InspectManifests ==
    /\ copying = "dependencies"
    /\ pending = <<>>
    /\ LET found == {Manifest(d) : d \in Uninspected}
       IN  /\ manifests' = manifests \cup found
           /\ inspected' = inspected \cup Uninspected
           /\ roots' = roots \cup {t \in Targets(found, ManifestKinds) : OnDisk(t)}
                       \cup (IF found = {} THEN {disk.source} ELSE {})
           /\ copying' = IF found = {} THEN "inspected" ELSE copying
    /\ UNCHANGED <<disk, builds, pending, configVars, areaVars, broken>>

\* configuration_paths, and the last lines of workspace_from_metadata.
AddConfigurationPaths ==
    /\ copying = "inspected"
    /\ roots' = roots \cup {t \in Targets(configs, ConfigKinds) : OnDisk(t)}
    /\ copying' = "copy"
    /\ UNCHANGED <<disk, packageVars, configVars, areaVars, broken>>

CopyPaths == OutermostOf(roots)

\* copy_directory and copy_entry leave out excluded directories, at the top
\* of a copied path and inside it.
LeftOutOf(path, directory) ==
    \E d \in ExcludedRoots : Under(d, directory) /\ Under(path, d)

IsCopied(file) == \E r \in CopyPaths : Under(file, r) /\ ~LeftOutOf(file, r)

\* copy_workspace: the files, then the configurations one by one, wherever
\* they are.
CopyFiles ==
    /\ copying = "copy"
    /\ area' = {f \in disk.files : IsCopied(f)} \cup configs
    /\ copying' = "rewrite configurations"
    /\ UNCHANGED <<disk, roots, packageVars, configVars, rewritten, broken>>

\* rewrite_absolute_path: the path must be there and be part of the copy.
CanRewrite(r) ==
    /\ OnDisk(r.to)
    /\ \/ \E p \in CopyPaths : Under(r.to, p)
       \/ r.to \in configs

\* rewrite_configuration_include: an optional include that is missing is
\* led to a place where nothing is.
CanRewriteInclude(r) == CanRewrite(r) \/ (r.optional /\ ~OnDisk(r.to))

Rewrite(files, kinds, next) ==
    IF \A f \in files : \A r \in RefsOf(f, kinds) :
        r.absolute => IF r.kind = "include" THEN CanRewriteInclude(r) ELSE CanRewrite(r)
    THEN rewritten' = rewritten \cup files /\ copying' = next
    ELSE rewritten' = rewritten /\ copying' = "failed"

RewriteConfigurations ==
    /\ copying = "rewrite configurations"
    /\ Rewrite(configs, ConfigKinds \cup {"include"}, "rewrite manifests")
    /\ UNCHANGED <<disk, roots, packageVars, configVars, area, broken>>

RewriteManifests ==
    /\ copying = "rewrite manifests"
    /\ IF manifests \subseteq area
       THEN Rewrite(manifests, ManifestKinds, "done")
       ELSE rewritten' = rewritten /\ copying' = "failed"
    /\ UNCHANGED <<disk, roots, packageVars, configVars, area, broken>>

\* Any read or write can fail, and stop_if_interrupted may find a signal.
CopyBreaks ==
    /\ copying \notin {"done", "failed"}
    /\ copying' = "failed"
    /\ broken' = TRUE
    /\ UNCHANGED <<disk, roots, packageVars, configVars, areaVars>>

CopyNext ==
    \/ FindConfigurations
    \/ ReadConfiguration
    \/ ReadPackages
    \/ PopDependency
    \/ InspectManifests
    \/ AddConfigurationPaths
    \/ CopyFiles
    \/ RewriteConfigurations
    \/ RewriteManifests
    \/ CopyBreaks

CopySpec == CopyInit /\ [][CopyNext]_copyVars

(***************************************************************************)
(* What a build in the copy reads: the configurations, and the manifests   *)
(* that references lead to from those of the workspace, through any number *)
(* of them: the smallest set of manifests that the references never leave. *)
(***************************************************************************)
ManifestsOnDisk == {f \in disk.files : Last(f) = "Cargo.toml"}

Stays(S) ==
    \A t \in Targets(S, {"dependency", "patch"}) : HasFile(Manifest(t)) => Manifest(t) \in S

ReachedManifests ==
    LET closed == {S \in SUBSET ManifestsOnDisk :
                       Stays(S) /\ \A p \in disk.members[disk.root] : Manifest(p) \in S}
    IN  {m \in ManifestsOnDisk : \A S \in closed : m \in S}

\* What a copied path holds in a build directory, or in what Cargo and Git keep
\* beside a manifest, stays behind.
StaysBehind(path) == \E r \in CopyPaths : LeftOutOf(path, r)

\* An include that is there leads to a copied configuration; any other path to
\* a copy of all that is there, but for the directories inside it that are left
\* out.  An absolute one is rewritten, unless the code does not look at its kind.
LeadsIntoCopy(file, r) ==
    /\ r.kind = "include" /\ HasFile(r.to) => r.to \in area
    /\ r.kind # "include" =>
           \A f \in disk.files : Under(f, r.to) /\ ~LeftOutOf(f, r.to) => f \in area
    /\ r.absolute => file \in rewritten /\ r.kind \notin WorkspaceKinds

\* The paths the copy does not provide for: one that leads into a directory
\* that stays behind, as that of a runner in a package's own .cargo does; and
\* one of a workspace that is absolute, or leads to where nothing else does.
IsOverlooked(r) ==
    \/ r.kind # "include" /\ StaysBehind(r.to)
    \/ r.kind \in WorkspaceKinds /\ (r.absolute \/ ~\E p \in CopyPaths : Under(r.to, p))

\* When the copy is complete, it holds the mutated source, unless that is in a
\* directory that stays behind, and every manifest and configuration Cargo reads; and
\* every path in those leads into the copy, save the overlooked ones.  (Of a
\* package that only a configuration leads to, the files are copied but its
\* paths not followed.)
CopyIsClosed ==
    copying = "done" =>
        /\ ~StaysBehind(disk.source) => disk.source \in area
        /\ configs \cup ReachedManifests \subseteq area
        /\ \A file \in configs : \A r \in RefsOf(file, ConfigKinds \cup {"include"}) :
                ~IsOverlooked(r) => LeadsIntoCopy(file, r)
        /\ \A file \in ReachedManifests : \A r \in RefsOf(file, ManifestKinds \cup WorkspaceKinds) :
                ~IsOverlooked(r) => LeadsIntoCopy(file, r)

IsStrayInclude(r) == ~HasFile(r.to) /\ (r.optional => OnDisk(r.to))

\* A workspace whose dependencies and includes are all there is copied: no
\* rule of the code turns it away unless a file operation fails, or one of
\* its manifests is in a directory that stays behind.
SoundWorkspaceIsCopied ==
    (copying = "failed" /\ ~broken) =>
        \/ \E r \in UNION {RefsOf(c, {"include"}) : c \in configs} : IsStrayInclude(r)
        \/ \E r \in UNION {RefsOf(f, ManifestKinds \cup ConfigKinds) : f \in DOMAIN disk.refs} :
            \/ ~OnDisk(r.to)
            \/ r.kind = "dependency" /\ ~HasFile(Manifest(r.to))
        \/ \E m \in manifests : StaysBehind(m)
=============================================================================
