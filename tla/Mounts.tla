------------------------------- MODULE Mounts -------------------------------
(***************************************************************************)
(* What one notebook pod gets from the launch context of its user: the     *)
(* pure part of OIDCAuthenticator.pre_spawn_start and mount_dataset.       *)
(*                                                                         *)
(* A launch context is the sequence of group records the GraphQL backend   *)
(* returned for the user.  A dataset's name, its path and its variables    *)
(* are one value; a path is a pair of a mount root and a name.             *)
(***************************************************************************)
EXTENDS Integers, Sequences, FiniteSets

CONSTANTS
    Group,          \* names of the groups
    Project,        \* names of shared volumes, '_' replaced, lower case
    Dataset,        \* names of the datasets
    ProjectOf,      \* ProjectOf[g]: the shared volume name of group g
    Cr,             \* Cr[d]: the custom resource of dataset d
    PhfsEnabled,    \* primehub-store: mount /phfs
    StartNotebook   \* a start-notebook config map is configured

DatasetType == {"env", "git", "pv", "hostPath", "nfs", "other"}

\* complete: the spec holds what its type needs (path, server, volumeName).
CrType == [type: DatasetType, launchGroupOnly: BOOLEAN,
           homeSymlink: BOOLEAN, complete: BOOLEAN]

\* A dataset as a group refers to it in the launch context.
Policy == [global: BOOLEAN, writable: BOOLEAN]

\* capacity = 0 stands for a missing sharedVolumeCapacity.
GroupRecord == [name: Group, enabledSharedVolume: BOOLEAN, capacity: Nat,
                homeSymlink: BOOLEAN, launchGroupOnly: BOOLEAN,
                datasets: UNION {[D -> Policy] : D \in SUBSET Dataset}]

ASSUME MountsAssumption ==
    /\ ProjectOf \in [Group -> Project]
    /\ Cr \in [Dataset -> CrType]
    /\ PhfsEnabled \in BOOLEAN
    /\ StartNotebook \in BOOLEAN

-----------------------------------------------------------------------------
(* Paths and volumes.                                                      *)

DatasetPath(d) == <<"/datasets", d>>
GitsyncPath(d) == <<"/gitsync", d>>
ProjectPath(p) == <<"/project", p>>
HomePath       == <<"/home", "jovyan">>
PhfsPath       == <<"/", "phfs">>
ScriptsPath    == <<"/opt", "primehub-start-notebook">>
HooksPath      == <<"/usr/local/bin", "start-notebook.d">>
ExamplesPath   == <<"/", "primehub-examples">>
DatasetsRoot   == <<"/", "datasets">>

Path == {DatasetPath(d) : d \in Dataset} \cup {GitsyncPath(d) : d \in Dataset}
        \cup {ProjectPath(p) : p \in Project}
        \cup {HomePath, PhfsPath, ScriptsPath, HooksPath, ExamplesPath,
              DatasetsRoot}

\* A volume is named after the path it is mounted at (volumes and mounts are
\* appended in pairs), a mount is a path and its readOnly flag.
Mount == [path: Path, readOnly: BOOLEAN]

ReadWrite(S) == {[path |-> p, readOnly |-> FALSE] : p \in S}

-----------------------------------------------------------------------------
(* Which datasets, and how.                                                *)

Referring(groups, d) ==
    {i \in DOMAIN groups : d \in DOMAIN groups[i].datasets}

Global(groups, d) ==
    \E i \in Referring(groups, d) : groups[i].datasets[d].global

\* The policies are collected in a dict: the last global one wins.
GlobalWritable(groups, d) ==
    \E i \in Referring(groups, d) :
        /\ groups[i].datasets[d].global
        /\ groups[i].datasets[d].writable
        /\ \A j \in Referring(groups, d) :
              groups[j].datasets[d].global => j <= i

\* get_datasets_in_launch_group looks at the first group of that name.
LaunchIndex(groups, g) ==
    {i \in DOMAIN groups :
        /\ groups[i].name = g
        /\ \A j \in DOMAIN groups : groups[j].name = g => i <= j}

InLaunchGroup(groups, g, d) ==
    \E i \in LaunchIndex(groups, g) : d \in DOMAIN groups[i].datasets

LaunchGroupWritable(groups, g, d) ==
    \E i \in LaunchIndex(groups, g) :
        /\ d \in DOMAIN groups[i].datasets
        /\ groups[i].datasets[d].writable

\* pre_spawn_start wants a role for the dataset, mount_dataset then leaves out
\* the launch-group-only datasets of other groups unless they are global.
Mounted(groups, g, roles, listed) ==
    {d \in listed \cap roles :
        \/ Global(groups, d)
        \/ ~Cr[d].launchGroupOnly
        \/ InLaunchGroup(groups, g, d)}

Writable(groups, g, d) ==
    \/ LaunchGroupWritable(groups, g, d)
    \/ Global(groups, d) /\ GlobalWritable(groups, d)

\* The datasets of S that end up as a volume of their own.
AsVolume(S) == {d \in S : \/ Cr[d].type = "pv"
                          \/ Cr[d].type \in {"hostPath", "nfs"} /\ Cr[d].complete}

DatasetMounts(groups, g, S) ==
    {[path |-> DatasetPath(d), readOnly |-> ~Writable(groups, g, d)] :
        d \in AsVolume(S)}
    \cup {[path |-> GitsyncPath(d), readOnly |-> TRUE] :
        d \in {e \in S : Cr[e].type = "git"}}

\* Mutated form of DatasetChowns: a path that is not the mount path.
DatasetChownsMisrooted(groups, g, S) ==
    {<<"/dataset", e>> : e \in {d \in AsVolume(S) : Writable(groups, g, d)}}

DatasetChowns(groups, g, S) ==
    {DatasetPath(d) : d \in {e \in AsVolume(S) : Writable(groups, g, e)}}

\* A link is the target it points to (git also links its mount path).
DatasetLinks(S) ==
    {DatasetPath(d) : d \in {e \in S : Cr[e].type # "env" /\ Cr[e].homeSymlink}}
    \cup {GitsyncPath(d) : d \in {e \in S : Cr[e].type = "git"}}

\* A pv without volumeName raises, after its mount has been appended.
BadDatasets(S) == {d \in S : Cr[d].type = "pv" /\ ~Cr[d].complete}

-----------------------------------------------------------------------------
(* Shared volumes of the groups.                                           *)

\* enabledSharedVolume without sharedVolumeCapacity raises.
BadGroups(groups) ==
    {i \in DOMAIN groups :
        groups[i].enabledSharedVolume /\ groups[i].capacity = 0}

\* The groups the loop has attached when it stops before index n.
Attached(groups, g, n) ==
    {i \in DOMAIN groups :
        /\ i < n
        /\ groups[i].enabledSharedVolume
        /\ ~groups[i].launchGroupOnly \/ groups[i].name = g}

ProjectPaths(groups, I) == {ProjectPath(ProjectOf[groups[i].name]) : i \in I}

ProjectLinks(groups, I) ==
    ProjectPaths(groups, {i \in I : groups[i].homeSymlink})

-----------------------------------------------------------------------------
(* The whole of a pod, for a user with these groups and roles, launching   *)
(* group g, when the API listed these datasets.                            *)

AllGroups(groups, g) == Attached(groups, g, Len(groups) + 1)

OptionalPhfs  == IF PhfsEnabled THEN {PhfsPath} ELSE {}
OptionalHooks == IF StartNotebook THEN {HooksPath} ELSE {}

EnvDatasets(groups, g, roles, listed) ==
    {d \in Mounted(groups, g, roles, listed) : Cr[d].type = "env"}

MountsOf(groups, g, roles, listed) ==
    DatasetMounts(groups, g, Mounted(groups, g, roles, listed))
    \cup ReadWrite(ProjectPaths(groups, AllGroups(groups, g)) \cup OptionalPhfs)

\* With the scripts and hooks every pod has.
PodMounts(groups, g, roles, listed) ==
    MountsOf(groups, g, roles, listed) \cup ReadWrite({ScriptsPath} \cup OptionalHooks)

\* How often a volume of that name is appended: Kubernetes wants it once.
VolumeCount(groups, g, roles, listed, p) ==
    LET own == {m.path : m \in DatasetMounts(groups, g,
                                   Mounted(groups, g, roles, listed))}
               \cup OptionalPhfs \cup {ScriptsPath}
    IN  Cardinality({i \in AllGroups(groups, g) :
                        ProjectPath(ProjectOf[groups[i].name]) = p})
        + IF p \in own THEN 1 ELSE 0

LinksOf(groups, g, roles, listed) ==
    {DatasetsRoot, ExamplesPath} \cup OptionalPhfs
    \cup DatasetLinks(Mounted(groups, g, roles, listed))
    \cup ProjectLinks(groups, AllGroups(groups, g))

ChownOf(groups, g, roles, listed) ==
    {HomePath} \cup OptionalPhfs
    \cup DatasetChowns(groups, g, Mounted(groups, g, roles, listed))
    \cup ProjectPaths(groups, AllGroups(groups, g))
=============================================================================
