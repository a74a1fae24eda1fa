--------------------------- MODULE PreSpawnProofs ---------------------------
(***************************************************************************)
(* Proofs about PreSpawn, for every set of users, groups and datasets and  *)
(* every launch context.                                                   *)
(***************************************************************************)
EXTENDS PreSpawn, FiniteSetTheorems, TLAPS

-----------------------------------------------------------------------------
(* The pure part: what the operators of Mounts return.                     *)

LEMMA PathFacts ==
    /\ {HomePath, PhfsPath, ScriptsPath, HooksPath, ExamplesPath, DatasetsRoot}
         \subseteq Path
    /\ \A d \in Dataset : DatasetPath(d) \in Path /\ GitsyncPath(d) \in Path
    /\ \A p \in Project : ProjectPath(p) \in Path
    /\ OptionalPhfs \subseteq Path
  BY DEF Path, OptionalPhfs

LEMMA ReadWriteType ==
    ASSUME NEW S \in SUBSET Path
    PROVE  ReadWrite(S) \subseteq Mount
  <1>1. ASSUME NEW p \in S
        PROVE  [path |-> p, readOnly |-> FALSE] \in Mount
    BY DEF Mount
  <1>. QED  BY <1>1 DEF ReadWrite

LEMMA GroupsType ==
    ASSUME NEW u \in User
    PROVE  /\ Groups[u] \in Seq(GroupRecord)
           /\ Len(Groups[u]) \in Nat
           /\ DOMAIN Groups[u] = 1..Len(Groups[u])
           /\ \A i \in DOMAIN Groups[u] :
                /\ Groups[u][i].name \in Group
                /\ Groups[u][i] \in GroupRecord
           /\ Names(u) \subseteq Group
           /\ Roles[u] \subseteq Dataset
  <1>1. Groups[u] \in Seq(GroupRecord) /\ Roles[u] \subseteq Dataset
    BY PreSpawnAssumption
  <1>2. Len(Groups[u]) \in Nat /\ DOMAIN Groups[u] = 1..Len(Groups[u])
    BY <1>1
  <1>3. ASSUME NEW i \in DOMAIN Groups[u]
        PROVE  Groups[u][i] \in GroupRecord /\ Groups[u][i].name \in Group
    <2>1. Groups[u][i] \in GroupRecord
      BY <1>1, <1>2
    <2>. QED  BY <2>1 DEF GroupRecord
  <1>4. Names(u) \subseteq Group
    BY <1>3 DEF Names
  <1>. QED  BY <1>1, <1>2, <1>3, <1>4

LEMMA MountedType ==
    ASSUME NEW u \in User, NEW g, NEW crs \in SUBSET Dataset
    PROVE  Mounted(Groups[u], g, Roles[u], crs) \subseteq Dataset
  BY DEF Mounted

LEMMA DatasetChownsType ==
    ASSUME NEW gs, NEW g, NEW S \in SUBSET Dataset
    PROVE  DatasetChowns(gs, g, S) \subseteq Path
  BY PathFacts DEF DatasetChowns, AsVolume

LEMMA DatasetLinksType ==
    ASSUME NEW S \in SUBSET Dataset
    PROVE  DatasetLinks(S) \subseteq Path
  BY PathFacts DEF DatasetLinks

LEMMA DatasetMountsType ==
    ASSUME NEW gs, NEW g, NEW S \in SUBSET Dataset
    PROVE  DatasetMounts(gs, g, S) \subseteq Mount
  <1>1. \A d : Writable(gs, g, d) \in BOOLEAN
    BY DEF Writable, LaunchGroupWritable, Global, GlobalWritable
  <1>2. ASSUME NEW d \in AsVolume(S)
        PROVE  [path |-> DatasetPath(d), readOnly |-> ~Writable(gs, g, d)] \in Mount
    BY <1>1, PathFacts DEF AsVolume, Mount
  <1>3. ASSUME NEW d \in S
        PROVE  [path |-> GitsyncPath(d), readOnly |-> TRUE] \in Mount
    BY PathFacts DEF Mount
  <1>. QED  BY <1>2, <1>3 DEF DatasetMounts

LEMMA ProjectPathsType ==
    ASSUME NEW u \in User, NEW I \in SUBSET DOMAIN Groups[u]
    PROVE  ProjectPaths(Groups[u], I) \subseteq Path
  <1>1. \A i \in I : ProjectOf[Groups[u][i].name] \in Project
    BY GroupsType, MountsAssumption
  <1>. QED  BY <1>1, PathFacts DEF ProjectPaths

LEMMA AttachedType ==
    ASSUME NEW u \in User, NEW g, NEW n
    PROVE  Attached(Groups[u], g, n) \subseteq DOMAIN Groups[u]
  BY DEF Attached

LEMMA ProjectLinksType ==
    ASSUME NEW u \in User, NEW I \in SUBSET DOMAIN Groups[u]
    PROVE  ProjectLinks(Groups[u], I) \subseteq Path
  BY ProjectPathsType DEF ProjectLinks

LEMMA PodPartsType ==
    ASSUME NEW u \in User, NEW g, NEW crs \in SUBSET Dataset
    PROVE  /\ MountsOf(Groups[u], g, Roles[u], crs) \subseteq Mount
           /\ LinksOf(Groups[u], g, Roles[u], crs) \subseteq Path
           /\ ChownOf(Groups[u], g, Roles[u], crs) \subseteq Path
           /\ EnvDatasets(Groups[u], g, Roles[u], crs) \subseteq Dataset
  <1> DEFINE M == Mounted(Groups[u], g, Roles[u], crs)
             I == AllGroups(Groups[u], g)
  <1>1. M \subseteq Dataset
    BY MountedType
  <1>2. I \subseteq DOMAIN Groups[u]
    BY AttachedType DEF AllGroups
  <1>3. ProjectPaths(Groups[u], I) \subseteq Path
    BY <1>2, ProjectPathsType
  <1>4. MountsOf(Groups[u], g, Roles[u], crs) \subseteq Mount
    <2>1. DatasetMounts(Groups[u], g, M) \subseteq Mount
      BY <1>1, DatasetMountsType
    <2>2. ReadWrite(ProjectPaths(Groups[u], I) \cup OptionalPhfs) \subseteq Mount
      BY <1>3, PathFacts, ReadWriteType
    <2>. QED  BY <2>1, <2>2 DEF MountsOf
  <1>5. LinksOf(Groups[u], g, Roles[u], crs) \subseteq Path
    BY <1>1, <1>2, DatasetLinksType, ProjectLinksType, PathFacts DEF LinksOf
  <1>6. ChownOf(Groups[u], g, Roles[u], crs) \subseteq Path
    BY <1>1, <1>3, DatasetChownsType, PathFacts DEF ChownOf
  <1>7. EnvDatasets(Groups[u], g, Roles[u], crs) \subseteq Dataset
    BY <1>1 DEF EnvDatasets
  <1>. QED  BY <1>4, <1>5, <1>6, <1>7

\* How often the volumes of the shared projects are appended.
LEMMA ProjectCount ==
    ASSUME NEW u \in User, NEW g, NEW p
    PROVE  LET I == {i \in AllGroups(Groups[u], g) :
                        ProjectPath(ProjectOf[Groups[u][i].name]) = p}
           IN  IsFiniteSet(I) /\ Cardinality(I) \in Nat
  <1> DEFINE I == {i \in AllGroups(Groups[u], g) :
                     ProjectPath(ProjectOf[Groups[u][i].name]) = p}
  <1>1. I \subseteq 1..Len(Groups[u])
    BY AttachedType, GroupsType DEF AllGroups
  <1>2. IsFiniteSet(1..Len(Groups[u]))
    <2>1. Len(Groups[u]) \in Int
      BY GroupsType
    <2>. QED  BY <2>1, FS_Interval
  <1>3. IsFiniteSet(I)
    BY <1>1, <1>2, FS_Subset
  <1>. QED  BY <1>3, FS_CardinalityType

LEMMA VolumeCountType ==
    ASSUME NEW u \in User, NEW g, NEW crs, NEW p
    PROVE  VolumeCount(Groups[u], g, Roles[u], crs, p) \in Nat
  <1> DEFINE N == Cardinality({i \in AllGroups(Groups[u], g) :
                       ProjectPath(ProjectOf[Groups[u][i].name]) = p})
             own == {m.path : m \in DatasetMounts(Groups[u], g,
                                       Mounted(Groups[u], g, Roles[u], crs))}
                    \cup OptionalPhfs \cup {ScriptsPath}
  <1>1. N \in Nat
    BY ProjectCount
  <1>2. VolumeCount(Groups[u], g, Roles[u], crs, p)
          = N + IF p \in own THEN 1 ELSE 0
    BY DEF VolumeCount
  <1> HIDE DEF N, own
  <1>. QED  BY <1>1, <1>2

-----------------------------------------------------------------------------
(* Type correctness.                                                       *)

LEMMA NewSpawnerType == NewSpawner \in Spawner /\ NoForm \in Form
  BY PreSpawnAssumption DEF NewSpawner, Spawner, NoForm, Form

LEMMA DiscardType ==
    ASSUME TypeOK, NEW u \in User, Discard(u)
    PROVE  /\ spawner' \in [User -> Spawner]
           /\ pod' \in [User -> Spawner \cup {NoPod}]
           /\ form' \in [User -> Form]
           /\ listed' \in [User -> SUBSET Dataset]
           /\ overwritten' \in [User -> BOOLEAN]
  BY NewSpawnerType DEF TypeOK, Discard

LEMMA OverheardType ==
    ASSUME TypeOK, NEW u \in User, NEW S \in SUBSET Path
    PROVE  Overheard(u, S) \in [User -> SUBSET Path]
  BY DEF TypeOK, Overheard

LEMMA StartedType ==
    ASSUME TypeOK, NEW s \in Spawner
    PROVE  Started(s) \in Spawner
  <1>1. [p \in Path |-> s.volumes[p] + IF p \in OptionalHooks THEN 1 ELSE 0]
          \in [Path -> Nat]
    BY DEF Spawner
  <1>2. s.mounts \cup ReadWrite(OptionalHooks) \in SUBSET Mount
    BY ReadWriteType, PathFacts DEF Spawner, OptionalHooks
  <1>3. (s.ssh \/ ssh_enabled) \in BOOLEAN
    OBVIOUS
  <1>. QED  BY <1>1, <1>2, <1>3 DEF Started, Spawner

LEMMA PreparedType ==
    ASSUME TypeOK, NEW s \in Spawner, NEW u \in User, NEW crs \in SUBSET Dataset,
           symlinks' \in SUBSET Path, chown_extra' \in SUBSET Path
    PROVE  Prepared(s, u, crs) \in Spawner
  <1> DEFINE g == form[u].group
  <1>1. [p \in Path |-> s.volumes[p] + VolumeCount(Groups[u], g, Roles[u], crs, p)]
          \in [Path -> Nat]
    BY VolumeCountType DEF Spawner
  <1>2. s.mounts \cup MountsOf(Groups[u], g, Roles[u], crs)
          \cup ReadWrite({ScriptsPath}) \in SUBSET Mount
    BY ReadWriteType, PathFacts, PodPartsType DEF Spawner
  <1>3. s.env \cup EnvDatasets(Groups[u], g, Roles[u], crs) \in SUBSET Dataset
    BY PodPartsType DEF Spawner
  <1>. QED  BY <1>1, <1>2, <1>3 DEF Prepared, Spawner

LEMMA RaiseType ==
    ASSUME TypeOK, NEW u \in User, NEW S \in SUBSET Path, RaiseAfter(u, S)
    PROVE  /\ chown_extra' \in SUBSET Path
           /\ appended' \in [User -> SUBSET Path]
  BY OverheardType DEF RaiseAfter, TypeOK

LEMMA MoveType ==
    ASSUME TypeOK, NEW u \in User, NEW from, NEW to \in Phase, Move(u, from, to)
    PROVE  phase' \in [User -> Phase]
  BY DEF Move, TypeOK

LEMMA TypeStep == TypeOK /\ [Next]_vars => TypeOK'
  <1> SUFFICES ASSUME TypeOK, [Next]_vars
               PROVE  TypeOK'
    OBVIOUS
  <1> USE DEF authenticatorVars, historyVars
  <1>1. CASE UNCHANGED vars
    BY <1>1 DEF vars, TypeOK
  <1>2. ASSUME NEW u \in User, NEW g \in Group, NEW ssh \in BOOLEAN,
               SubmitForm(u, g, ssh)
        PROVE  TypeOK'
    BY <1>2, MoveType DEF SubmitForm, WriteSsh, TypeOK, Phase, Form
  <1>3. ASSUME NEW u \in User, NEW ssh \in BOOLEAN, RejectForm(u, ssh)
        PROVE  TypeOK'
    BY <1>3 DEF RejectForm, WriteSsh, TypeOK
  <1>4. ASSUME NEW u \in User, StartListing(u)
        PROVE  TypeOK'
    BY <1>4, MoveType, StartedType DEF StartListing, TypeOK, Phase
  <1>5. ASSUME NEW u \in User, RefuseSpawn(u)
        PROVE  TypeOK'
    BY <1>5, MoveType, DiscardType DEF RefuseSpawn, TypeOK, Phase
  <1>6. ASSUME NEW u \in User, NEW crs \in SUBSET Dataset, Prepare(u, crs)
        PROVE  TypeOK'
    <2>1. symlinks' \in SUBSET Path
      BY <1>6, PodPartsType DEF Prepare, Relinked
    <2>2. /\ chown_extra' \in SUBSET Path
          /\ appended' \in [User -> SUBSET Path]
      BY <1>6, PodPartsType, OverheardType DEF Prepare, TypeOK
    <2>3. spawner' \in [User -> Spawner]
      BY <1>6, <2>1, <2>2, PreparedType DEF Prepare, TypeOK
    <2>4. phase' \in [User -> Phase]
      BY <1>6, MoveType DEF Prepare, Phase
    <2>. QED  BY <1>6, <2>1, <2>2, <2>3, <2>4 DEF Prepare, TypeOK
  <1>7. ASSUME NEW u \in User, NEW crs \in SUBSET Dataset, NEW S \in SUBSET crs,
               NEW b \in crs, RaiseAtDataset(u, crs, S, b)
        PROVE  TypeOK'
    <2> DEFINE T == DatasetChowns(Groups[u], form[u].group, S \cup {b})
    <2>1. T \subseteq Path /\ symlinks' \subseteq Path
      BY <1>7, DatasetChownsType, DatasetLinksType, PathFacts DEF RaiseAtDataset, Relinked
    <2>2. RaiseAfter(u, T) /\ Discard(u) /\ Move(u, {"listing"}, "idle")
      BY <1>7 DEF RaiseAtDataset, RaiseAfter
    <2>. QED  BY <1>7, <2>1, <2>2, RaiseType, DiscardType, MoveType
              DEF RaiseAtDataset, TypeOK, Phase
  <1>8. ASSUME NEW u \in User, NEW crs \in SUBSET Dataset,
               NEW n \in DOMAIN Groups[u], RaiseAtGroup(u, crs, n)
        PROVE  TypeOK'
    <2> DEFINE g == form[u].group
               M == Mounted(Groups[u], g, Roles[u], crs)
               I == Attached(Groups[u], g, n)
               T == DatasetChowns(Groups[u], g, M) \cup ProjectPaths(Groups[u], I)
    <2>1. T \subseteq Path
      BY MountedType, AttachedType, DatasetChownsType, ProjectPathsType
    <2>2. symlinks' \subseteq Path
      BY <1>8, MountedType, AttachedType, DatasetLinksType, ProjectLinksType,
         PathFacts DEF RaiseAtGroup, Relinked
    <2>3. RaiseAfter(u, T) /\ Discard(u) /\ Move(u, {"listing"}, "idle")
      BY <1>8 DEF RaiseAtGroup, RaiseAfter
    <2>. QED  BY <1>8, <2>1, <2>2, <2>3, RaiseType, DiscardType, MoveType
              DEF RaiseAtGroup, TypeOK, Phase
  <1>9. ASSUME NEW u \in User, FailListing(u)
        PROVE  TypeOK'
    BY <1>9, MoveType, DiscardType DEF FailListing, TypeOK, Phase
  <1>10. ASSUME NEW u \in User, CreatePod(u)
         PROVE  TypeOK'
    BY <1>10, MoveType DEF CreatePod, TypeOK, Phase
  <1>11. ASSUME NEW u \in User, Boot(u) \/ AbortBoot(u)
         PROVE  TypeOK'
    BY <1>11, MoveType DEF Boot, AbortBoot, TypeOK, Phase
  <1>12. ASSUME NEW u \in User, Stop(u)
         PROVE  TypeOK'
    BY <1>12, MoveType, DiscardType DEF Stop, TypeOK, Phase
  <1>. QED
    BY <1>1, <1>2, <1>3, <1>4, <1>5, <1>6, <1>7, <1>8, <1>9, <1>10, <1>11, <1>12
       DEF Next, Submit, Listed, Run

\* The shared lists hold paths, every spawner object is well formed.
THEOREM TypeCorrect == Spec => []TypeOK
  <1>1. Init => TypeOK
    BY NewSpawnerType, PreSpawnAssumption DEF Init, TypeOK, Phase
  <1>. QED  BY <1>1, TypeStep, PTL DEF Spec

-----------------------------------------------------------------------------
(* The inductive invariant.  Up to the reset of the list a spawner object   *)
(* is new; while the dataset list is awaited chown_extra holds nothing but  *)
(* what others appended since; afterwards the object holds what the user's  *)
(* own request entitles it to, and the pod is a copy of it.                 *)

Assembled == {"prepared", "booting", "serving", "aborted"}
WithPod   == {"booting", "serving", "aborted"}

HookVolumes == [p \in Path |-> IF p \in OptionalHooks THEN 1 ELSE 0]

OwnVolumes(u) ==
    [p \in Path |-> HookVolumes[p]
        + VolumeCount(Groups[u], form[u].group, Roles[u], listed[u], p)]

OwnMounts(u) ==
    PodMounts(Groups[u], form[u].group, Roles[u], listed[u])

OwnEnv(u) == EnvDatasets(Groups[u], form[u].group, Roles[u], listed[u])

FreshInv(u) ==
    phase[u] \in {"idle", "submitted"} => spawner[u] = NewSpawner

ListingInv(u) ==
    phase[u] = "listing" =>
        /\ spawner[u].volumes = HookVolumes
        /\ spawner[u].mounts = ReadWrite(OptionalHooks)
        /\ spawner[u].env = {}
        /\ chown_extra \subseteq appended[u]

AssembledInv(u) ==
    phase[u] \in Assembled =>
        /\ spawner[u].volumes = OwnVolumes(u)
        /\ spawner[u].mounts = OwnMounts(u)
        /\ spawner[u].env = OwnEnv(u)
        /\ spawner[u].links = OwnLinks(u)
        /\ OwnChowns(u) \subseteq spawner[u].chown
        /\ spawner[u].chown \subseteq OwnChowns(u) \cup appended[u]
        /\ BadDatasets(Mounted(Groups[u], form[u].group, Roles[u], listed[u])) = {}
        /\ BadGroups(Groups[u]) = {}

RequestInv(u) ==
    /\ phase[u] # "idle" => form[u].group \in Names(u) \ {Everyone}
    /\ SshFeature /\ ~overwritten[u] =>
         /\ phase[u] = "submitted" => ssh_enabled = form[u].ssh
         /\ phase[u] \in Assembled \cup {"listing"} => spawner[u].ssh = form[u].ssh

PodInv(u) ==
    /\ pod[u] = IF phase[u] \in WithPod THEN spawner[u] ELSE NoPod
    /\ phase[u] = "aborted" => ~(pod[u].chown \subseteq Exists(pod[u]))

UserInv(u) == /\ FreshInv(u) /\ ListingInv(u) /\ AssembledInv(u)
              /\ RequestInv(u) /\ PodInv(u)

Inv == TypeOK /\ \A u \in User : UserInv(u)

\* A step of u leaves the parts of another user v alone, but for the shared
\* list and the shared flag.
LEMMA OtherUser ==
    ASSUME Inv, NEW u \in User, NEW v \in User, v # u,
           phase'[v] = phase[v], form'[v] = form[v], spawner'[v] = spawner[v],
           pod'[v] = pod[v], listed'[v] = listed[v],
           appended[v] \subseteq appended'[v],
           phase[v] = "listing" => chown_extra' \subseteq appended'[v],
           \/ ssh_enabled' = ssh_enabled /\ overwritten'[v] = overwritten[v]
           \/ overwritten'[v] = (overwritten[v] \/ phase[v] = "submitted")
    PROVE  UserInv(v)'
  <1> USE DEF Inv, UserInv
  <1>1. FreshInv(v)'
    BY DEF FreshInv
  <1>2. ListingInv(v)'
    BY DEF ListingInv
  <1>3. AssembledInv(v)'
    BY DEF AssembledInv, OwnVolumes, OwnMounts, OwnEnv, OwnLinks, OwnChowns
  <1>4. RequestInv(v)'
    BY DEF RequestInv, Assembled, TypeOK
  <1>5. PodInv(v)'
    BY DEF PodInv
  <1>. QED  BY <1>1, <1>2, <1>3, <1>4, <1>5

\* A spawn that ends leaves its user as at the start.
LEMMA DiscardedUser ==
    ASSUME Inv, NEW u \in User, Discard(u), phase' = [phase EXCEPT ![u] = "idle"]
    PROVE  UserInv(u)'
  <1>1. /\ phase'[u] = "idle" /\ spawner'[u] = NewSpawner /\ pod'[u] = NoPod
    BY DEF Discard, Inv, TypeOK
  <1>. QED
    BY <1>1 DEF UserInv, FreshInv, ListingInv, AssembledInv, RequestInv, PodInv,
                Assembled, WithPod

LEMMA DiscardOthers ==
    ASSUME Inv, NEW u \in User, NEW v \in User, v # u, Discard(u),
           phase' = [phase EXCEPT ![u] = "idle"]
    PROVE  /\ phase'[v] = phase[v] /\ form'[v] = form[v]
           /\ spawner'[v] = spawner[v] /\ pod'[v] = pod[v]
           /\ listed'[v] = listed[v] /\ overwritten'[v] = overwritten[v]
  BY DEF Discard, Inv, TypeOK

\* The paths u appends are overheard by whoever is in the list's window.
LEMMA OverheardBy ==
    ASSUME Inv, NEW u \in User, NEW v \in User, v # u, NEW S
    PROVE  /\ appended[v] \subseteq Overheard(u, S)[v]
           /\ phase[v] = "listing" => chown_extra \cup S \subseteq Overheard(u, S)[v]
  BY DEF Inv, TypeOK, Overheard, UserInv, ListingInv

LEMMA RaiseKeepsUsers ==
    ASSUME Inv, NEW u \in User, NEW v \in User, NEW S, RaiseAfter(u, S),
           phase' = [phase EXCEPT ![u] = "idle"], UNCHANGED ssh_enabled
    PROVE  UserInv(v)'
  <1>1. CASE v = u
    BY <1>1, DiscardedUser DEF RaiseAfter
  <1>2. CASE v # u
    <2>1. Discard(u)
      BY DEF RaiseAfter
    <2>2. appended'[v] = Overheard(u, S)[v] /\ chown_extra' = chown_extra \cup S
      BY <1>2 DEF RaiseAfter, Overheard, Inv, TypeOK
    <2>3. /\ appended[v] \subseteq appended'[v]
          /\ phase[v] = "listing" => chown_extra' \subseteq appended'[v]
      BY <1>2, <2>2, OverheardBy
    <2>4. /\ phase'[v] = phase[v] /\ form'[v] = form[v]
          /\ spawner'[v] = spawner[v] /\ pod'[v] = pod[v]
          /\ listed'[v] = listed[v] /\ overwritten'[v] = overwritten[v]
      BY <1>2, <2>1, DiscardOthers
    <2>. QED  BY <1>2, <2>3, <2>4, OtherUser
  <1>. QED  BY <1>1, <1>2

LEMMA EndKeepsUsers ==
    ASSUME Inv, NEW u \in User, NEW v \in User, Discard(u),
           phase' = [phase EXCEPT ![u] = "idle"],
           appended' = [appended EXCEPT ![u] = {}],
           UNCHANGED <<chown_extra, ssh_enabled>>
    PROVE  UserInv(v)'
  <1>1. CASE v = u
    BY <1>1, DiscardedUser
  <1>2. CASE v # u
    <2>1. appended'[v] = appended[v]
      BY <1>2 DEF Inv, TypeOK
    <2>2. phase[v] = "listing" => chown_extra' \subseteq appended'[v]
      BY <2>1 DEF Inv, UserInv, ListingInv
    <2>. QED  BY <1>2, <2>1, <2>2, DiscardOthers, OtherUser
  <1>. QED  BY <1>1, <1>2

LEMMA SubmitKeepsUsers ==
    ASSUME Inv, NEW u \in User, NEW v \in User, NEW g \in Group,
           NEW ssh \in BOOLEAN, SubmitForm(u, g, ssh)
    PROVE  UserInv(v)'
  <1>1. CASE v = u
    <2>1. /\ phase[u] = "idle" /\ phase'[u] = "submitted"
          /\ form'[u] = [group |-> g, ssh |-> ssh] /\ g \in Names(u) \ {Everyone}
          /\ spawner'[u] = spawner[u] /\ pod'[u] = pod[u]
          /\ SshFeature => ssh_enabled' = ssh
      BY DEF SubmitForm, WriteSsh, Move, Inv, TypeOK
    <2>2. spawner[u] = NewSpawner /\ pod[u] = NoPod
      BY <2>1 DEF Inv, UserInv, FreshInv, PodInv, WithPod
    <2>3. FreshInv(u)' /\ ListingInv(u)' /\ AssembledInv(u)' /\ PodInv(u)'
      BY <2>1, <2>2 DEF FreshInv, ListingInv, AssembledInv, PodInv, Assembled, WithPod
    <2>4. RequestInv(u)'
      BY <2>1 DEF RequestInv, Assembled, Names
    <2>. QED  BY <1>1, <2>3, <2>4 DEF UserInv
  <1>2. CASE v # u
    <2>1. /\ phase'[v] = phase[v] /\ form'[v] = form[v]
          /\ overwritten'[v] = (overwritten[v] \/ phase[v] = "submitted")
          /\ UNCHANGED <<chown_extra, appended, spawner, pod, listed>>
      BY <1>2 DEF SubmitForm, WriteSsh, Move, Inv, TypeOK, authenticatorVars
    <2>2. phase[v] = "listing" => chown_extra' \subseteq appended'[v]
      BY <2>1 DEF Inv, UserInv, ListingInv
    <2>. QED  BY <1>2, <2>1, <2>2, OtherUser
  <1>. QED  BY <1>1, <1>2

LEMMA RejectKeepsUsers ==
    ASSUME Inv, NEW u \in User, NEW v \in User, NEW ssh \in BOOLEAN,
           RejectForm(u, ssh)
    PROVE  UserInv(v)'
  <1>1. CASE v = u
    <2>1. phase[u] = "idle" /\ UNCHANGED <<phase, spawner, pod>>
      BY DEF RejectForm
    <2>. QED
      BY <1>1, <2>1 DEF Inv, UserInv, FreshInv, ListingInv, AssembledInv,
         RequestInv, PodInv, Assembled, WithPod
  <1>2. CASE v # u
    <2>1. /\ overwritten'[v] = (overwritten[v] \/ phase[v] = "submitted")
          /\ UNCHANGED <<phase, form, chown_extra, appended, spawner, pod, listed>>
      BY <1>2 DEF RejectForm, WriteSsh, Inv, TypeOK, authenticatorVars
    <2>2. phase[v] = "listing" => chown_extra' \subseteq appended'[v]
      BY <2>1 DEF Inv, UserInv, ListingInv
    <2>. QED  BY <1>2, <2>1, <2>2, OtherUser
  <1>. QED  BY <1>1, <1>2

LEMMA StartKeepsUsers ==
    ASSUME Inv, NEW u \in User, NEW v \in User, StartListing(u)
    PROVE  UserInv(v)'
  <1>1. CASE v = u
    <2>1. /\ phase[u] = "submitted" /\ phase'[u] = "listing"
          /\ spawner'[u] = Started(NewSpawner)
          /\ UNCHANGED <<ssh_enabled, form, pod, overwritten>> /\ chown_extra' = {}
      BY DEF StartListing, Move, Inv, TypeOK, UserInv, FreshInv
    <2>2. /\ spawner'[u].volumes = HookVolumes
          /\ spawner'[u].mounts = ReadWrite(OptionalHooks)
          /\ spawner'[u].env = {}
          /\ spawner'[u].ssh = ssh_enabled
      BY <2>1 DEF Started, NewSpawner, HookVolumes, Inv, TypeOK
    <2>. QED
      BY <1>1, <2>1, <2>2 DEF Inv, UserInv, FreshInv, ListingInv, AssembledInv,
         RequestInv, PodInv, Assembled, WithPod
  <1>2. CASE v # u
    <2>1. /\ phase'[v] = phase[v] /\ spawner'[v] = spawner[v]
          /\ appended'[v] = appended[v] /\ chown_extra' = {}
          /\ UNCHANGED <<ssh_enabled, form, pod, listed, overwritten>>
      BY <1>2 DEF StartListing, Move, Inv, TypeOK
    <2>. QED  BY <1>2, <2>1, OtherUser
  <1>. QED  BY <1>1, <1>2

LEMMA PrepareKeepsUsers ==
    ASSUME Inv, NEW u \in User, NEW v \in User, NEW crs \in SUBSET Dataset,
           Prepare(u, crs)
    PROVE  UserInv(v)'
  <1> DEFINE g == form[u].group
             own == ChownOf(Groups[u], g, Roles[u], crs)
  <1>1. /\ phase[u] = "listing" /\ phase'[u] = "prepared"
        /\ symlinks' = LinksOf(Groups[u], g, Roles[u], crs)
        /\ chown_extra' = chown_extra \cup own
        /\ appended' = Overheard(u, own)
        /\ spawner'[u] = Prepared(spawner[u], u, crs)
        /\ listed'[u] = crs
        /\ BadDatasets(Mounted(Groups[u], g, Roles[u], crs)) = {}
        /\ BadGroups(Groups[u]) = {}
        /\ UNCHANGED <<ssh_enabled, form, pod, overwritten>>
    BY DEF Prepare, Relinked, Move, Inv, TypeOK
  <1>2. CASE v = u
    <2>1. /\ spawner[u].volumes = HookVolumes
          /\ spawner[u].mounts = ReadWrite(OptionalHooks)
          /\ spawner[u].env = {} /\ spawner[u] \in Spawner
          /\ chown_extra \subseteq appended[u]
      BY <1>1 DEF Inv, UserInv, ListingInv, TypeOK
    <2>2. appended'[u] = appended[u]
      BY <1>1 DEF Overheard, Inv, TypeOK
    <2>3. /\ spawner'[u].mounts = ReadWrite(OptionalHooks)
                 \cup MountsOf(Groups[u], g, Roles[u], crs) \cup ReadWrite({ScriptsPath})
          /\ spawner'[u].env = EnvDatasets(Groups[u], g, Roles[u], crs)
          /\ spawner'[u].links = symlinks'
          /\ spawner'[u].chown = chown_extra'
          /\ spawner'[u].ssh = spawner[u].ssh
          /\ spawner'[u].volumes = [p \in Path |-> HookVolumes[p]
                 + VolumeCount(Groups[u], g, Roles[u], crs, p)]
      BY <1>1, <2>1 DEF Prepared, Spawner
    <2>4. spawner'[u].mounts = OwnMounts(u)'
      <3>1. OwnMounts(u)' = PodMounts(Groups[u], g, Roles[u], crs)
        BY <1>1 DEF OwnMounts
      <3>2. ReadWrite({ScriptsPath} \cup OptionalHooks)
              = ReadWrite({ScriptsPath}) \cup ReadWrite(OptionalHooks)
        BY DEF ReadWrite
      <3>. QED  BY <2>3, <3>1, <3>2 DEF PodMounts
    <2>5. AssembledInv(u)'
      BY <1>1, <2>1, <2>2, <2>3, <2>4
         DEF AssembledInv, OwnVolumes, OwnEnv, OwnLinks, OwnChowns
    <2>6. FreshInv(u)' /\ ListingInv(u)' /\ PodInv(u)'
      BY <1>1 DEF FreshInv, ListingInv, PodInv, WithPod, Inv, UserInv
    <2>7. RequestInv(u)'
      BY <1>1, <2>3 DEF RequestInv, Assembled, Names, Inv, UserInv
    <2>. QED  BY <1>2, <2>5, <2>6, <2>7 DEF UserInv
  <1>3. CASE v # u
    <2>1. /\ appended[v] \subseteq appended'[v]
          /\ phase[v] = "listing" => chown_extra' \subseteq appended'[v]
      BY <1>1, <1>3, OverheardBy
    <2>2. /\ phase'[v] = phase[v] /\ spawner'[v] = spawner[v]
          /\ listed'[v] = listed[v]
      BY <1>3 DEF Prepare, Move, Inv, TypeOK
    <2>. QED  BY <1>1, <1>3, <2>1, <2>2, OtherUser
  <1>. QED  BY <1>2, <1>3

LEMMA PodKeepsUsers ==
    ASSUME Inv, NEW u \in User, NEW v \in User,
           CreatePod(u) \/ Boot(u) \/ AbortBoot(u)
    PROVE  UserInv(v)'
  <1> USE DEF authenticatorVars, historyVars
  <1>1. UNCHANGED <<chown_extra, ssh_enabled, form, spawner, listed, appended,
                    overwritten>>
    BY DEF CreatePod, Boot, AbortBoot
  <1>2. CASE v = u
    <2>1. /\ phase[u] \in Assembled /\ phase'[u] \in WithPod
          /\ pod'[u] = spawner[u]
          /\ phase'[u] = "aborted" => ~(pod'[u].chown \subseteq Exists(pod'[u]))
      BY DEF CreatePod, Boot, AbortBoot, Move, Inv, TypeOK, UserInv, PodInv,
             Assembled, WithPod
    <2>2. AssembledInv(u)'
      BY <1>1, <2>1 DEF Inv, UserInv, AssembledInv, OwnVolumes, OwnMounts, OwnEnv,
                        OwnLinks, OwnChowns
    <2>3. FreshInv(u)' /\ ListingInv(u)' /\ PodInv(u)'
      BY <1>1, <2>1 DEF FreshInv, ListingInv, PodInv, WithPod
    <2>4. RequestInv(u)'
      BY <1>1, <2>1 DEF Inv, UserInv, RequestInv, Assembled, WithPod
    <2>. QED  BY <1>2, <2>2, <2>3, <2>4 DEF UserInv
  <1>3. CASE v # u
    <2>1. phase'[v] = phase[v] /\ pod'[v] = pod[v]
      BY <1>3 DEF CreatePod, Boot, AbortBoot, Move, Inv, TypeOK
    <2>2. phase[v] = "listing" => chown_extra' \subseteq appended'[v]
      BY <1>1 DEF Inv, UserInv, ListingInv
    <2>. QED  BY <1>1, <1>3, <2>1, <2>2, OtherUser
  <1>. QED  BY <1>2, <1>3

LEMMA StutterKeepsUsers ==
    ASSUME Inv, NEW v \in User, UNCHANGED vars
    PROVE  UserInv(v)'
  BY DEF vars, Inv, UserInv, FreshInv, ListingInv, AssembledInv, RequestInv,
         PodInv, OwnVolumes, OwnMounts, OwnEnv, OwnLinks, OwnChowns

LEMMA InvInit == Init => Inv
  <1> SUFFICES ASSUME Init PROVE Inv
    OBVIOUS
  <1>1. TypeOK
    BY NewSpawnerType, PreSpawnAssumption DEF Init, TypeOK, Phase
  <1>2. ASSUME NEW u \in User
        PROVE  UserInv(u)
    BY DEF Init, UserInv, FreshInv, ListingInv, AssembledInv, RequestInv, PodInv,
           Assembled, WithPod
  <1>. QED  BY <1>1, <1>2 DEF Inv

LEMMA InvStep == Inv /\ [Next]_vars => Inv'
  <1> SUFFICES ASSUME Inv, [Next]_vars
               PROVE  Inv'
    OBVIOUS
  <1>1. TypeOK'
    BY TypeStep DEF Inv
  <1>2. ASSUME NEW v \in User
        PROVE  UserInv(v)'
    <2> USE DEF Move, authenticatorVars, historyVars
    <2>1. CASE UNCHANGED vars
      BY <2>1, StutterKeepsUsers
    <2>2. ASSUME NEW u \in User, Submit(u)
          PROVE  UserInv(v)'
      BY <2>2, SubmitKeepsUsers, RejectKeepsUsers DEF Submit
    <2>3. ASSUME NEW u \in User, StartListing(u)
          PROVE  UserInv(v)'
      BY <2>3, StartKeepsUsers
    <2>4. ASSUME NEW u \in User, RefuseSpawn(u) \/ FailListing(u) \/ Stop(u)
          PROVE  UserInv(v)'
      <3>1. /\ Discard(u) /\ phase' = [phase EXCEPT ![u] = "idle"]
            /\ appended' = [appended EXCEPT ![u] = {}]
            /\ UNCHANGED <<chown_extra, ssh_enabled>>
        BY <2>4 DEF RefuseSpawn, FailListing, Stop
      <3>. QED  BY <3>1, EndKeepsUsers
    <2>5. ASSUME NEW u \in User, NEW crs \in SUBSET Dataset, Prepare(u, crs)
          PROVE  UserInv(v)'
      BY <2>5, PrepareKeepsUsers
    <2>6. ASSUME NEW u \in User, NEW crs \in SUBSET Dataset, NEW S \in SUBSET crs,
                 NEW b \in crs, RaiseAtDataset(u, crs, S, b)
          PROVE  UserInv(v)'
      BY <2>6, RaiseKeepsUsers DEF RaiseAtDataset
    <2>7. ASSUME NEW u \in User, NEW crs \in SUBSET Dataset,
                 NEW n \in DOMAIN Groups[u], RaiseAtGroup(u, crs, n)
          PROVE  UserInv(v)'
      BY <2>7, RaiseKeepsUsers DEF RaiseAtGroup
    <2>8. ASSUME NEW u \in User, CreatePod(u) \/ Boot(u) \/ AbortBoot(u)
          PROVE  UserInv(v)'
      BY <2>8, PodKeepsUsers
    <2>. QED  BY <2>1, <2>2, <2>3, <2>4, <2>5, <2>6, <2>7, <2>8
              DEF Next, Listed, Run
  <1>. QED  BY <1>1, <1>2 DEF Inv

\* The inductive invariant of every behaviour: pre_spawn_start keeps each spawn's
\* own data apart from what the shared lists and the shared flag hold.
THEOREM Invariance == Spec => []Inv
  BY InvInit, InvStep, PTL DEF Spec

-----------------------------------------------------------------------------
(* The properties of PreSpawn.                                             *)

LEMMA PodHolds ==
    ASSUME Inv, NEW u \in User, HasPod(u)
    PROVE  /\ phase[u] \in WithPod /\ pod[u] = spawner[u]
           /\ phase[u] \in Assembled /\ AssembledInv(u)
  BY DEF Inv, UserInv, PodInv, HasPod, WithPod, Assembled

\* The postStart hook of a pod makes the links of its own user only.
THEOREM LinksOwn == Spec => []LinksAreOwn
  <1>1. Inv => LinksAreOwn
    BY PodHolds DEF LinksAreOwn, AssembledInv
  <1>. QED  BY <1>1, Invariance, PTL

\* A path that is not the pod's own comes from a spawn in its window.
THEOREM ForeignChowns == Spec => []ForeignChownsOnlyByOverlap
  <1>1. Inv => ForeignChownsOnlyByOverlap
    BY PodHolds DEF ForeignChownsOnlyByOverlap, AssembledInv
  <1>. QED  BY <1>1, Invariance, PTL

LEMMA ProjectMounts ==
    ASSUME NEW u \in User, NEW g, NEW crs
    PROVE  \A p \in ProjectPaths(Groups[u], AllGroups(Groups[u], g)) \cup OptionalPhfs :
              [path |-> p, readOnly |-> FALSE] \in MountsOf(Groups[u], g, Roles[u], crs)
  BY DEF MountsOf, ReadWrite

\* Every path a request entitles its pod to chown is mounted in the pod.
LEMMA ChownsExist ==
    ASSUME NEW u \in User, NEW g, NEW crs
    PROVE  ChownOf(Groups[u], g, Roles[u], crs) \subseteq
              {HomePath} \cup {m.path : m \in MountsOf(Groups[u], g, Roles[u], crs)}
  <1> DEFINE M == Mounted(Groups[u], g, Roles[u], crs)
             P == ProjectPaths(Groups[u], AllGroups(Groups[u], g)) \cup OptionalPhfs
             paths == {m.path : m \in MountsOf(Groups[u], g, Roles[u], crs)}
  <1>1. ASSUME NEW p \in P
        PROVE  p \in paths
    <2>1. [path |-> p, readOnly |-> FALSE] \in MountsOf(Groups[u], g, Roles[u], crs)
      BY ProjectMounts
    <2>2. [path |-> p, readOnly |-> FALSE].path = p
      OBVIOUS
    <2>. QED  BY <2>1, <2>2
  <1>2. ASSUME NEW p \in DatasetChowns(Groups[u], g, M)
        PROVE  p \in paths
    <2>1. PICK d \in AsVolume(M) : p = DatasetPath(d)
      BY DEF DatasetChowns
    <2> DEFINE m == [path |-> DatasetPath(d), readOnly |-> ~Writable(Groups[u], g, d)]
    <2>2. m \in MountsOf(Groups[u], g, Roles[u], crs)
      BY DEF MountsOf, DatasetMounts
    <2>3. m.path = p
      BY <2>1
    <2>. QED  BY <2>2, <2>3
  <1>. QED  BY <1>1, <1>2 DEF ChownOf

\* Every writable data mount of a request is among the paths it chowns.
LEMMA WritableChowned ==
    ASSUME NEW u \in User, NEW g, NEW crs,
           NEW m \in PodMounts(Groups[u], g, Roles[u], crs)
    PROVE  m.readOnly \/ m.path \in ChownOf(Groups[u], g, Roles[u], crs)
                                    \cup {ScriptsPath, HooksPath}
  <1> DEFINE M == Mounted(Groups[u], g, Roles[u], crs)
             P == ProjectPaths(Groups[u], AllGroups(Groups[u], g)) \cup OptionalPhfs
  <1>1. CASE m \in DatasetMounts(Groups[u], g, M)
    <2>1. CASE m.readOnly
      BY <2>1
    <2>2. CASE ~m.readOnly
      <3>1. PICK d \in AsVolume(M) :
               m = [path |-> DatasetPath(d), readOnly |-> ~Writable(Groups[u], g, d)]
        BY <1>1, <2>2 DEF DatasetMounts
      <3>2. Writable(Groups[u], g, d) /\ m.path = DatasetPath(d)
        BY <2>2, <3>1
      <3>. QED  BY <3>2 DEF ChownOf, DatasetChowns
    <2>. QED  BY <2>1, <2>2
  <1>2. CASE m \in ReadWrite(P)
    <2>1. m.path \in P
      BY <1>2 DEF ReadWrite
    <2>. QED  BY <2>1 DEF ChownOf
  <1>3. CASE m \in ReadWrite({ScriptsPath} \cup OptionalHooks)
    <2>1. m.path \in {ScriptsPath} \cup OptionalHooks
      BY <1>3 DEF ReadWrite
    <2>. QED  BY <2>1 DEF OptionalHooks
  <1>. QED  BY <1>1, <1>2, <1>3 DEF PodMounts, MountsOf

\* However the spawns interleave, CHOWN_EXTRA misses no path of its own pod.
THEOREM ChownsCover == Spec => []ChownsCoverOwn
  <1>1. ASSUME Inv
        PROVE  ChownsCoverOwn
    <2>1. ASSUME NEW u \in User, HasPod(u)
          PROVE  /\ OwnChowns(u) \subseteq pod[u].chown
                 /\ pod[u].mounts = OwnMounts(u)
      BY <1>1, <2>1, PodHolds DEF AssembledInv
    <2>2. ASSUME NEW u \in User, HasPod(u), NEW m \in pod[u].mounts
          PROVE  m.readOnly \/ m.path \in pod[u].chown \cup {ScriptsPath, HooksPath}
      <3>1. m.readOnly \/ m.path \in OwnChowns(u) \cup {ScriptsPath, HooksPath}
        BY <2>1, <2>2, WritableChowned DEF OwnMounts, OwnChowns
      <3>. QED  BY <2>1, <2>2, <3>1
    <2>. QED  BY <2>1, <2>2 DEF ChownsCoverOwn
  <1>. QED  BY <1>1, Invariance, PTL

\* start.sh aborts on a foreign path only.
THEOREM AbortsOnlyByOverlap == Spec => []AbortOnlyByOverlap
  <1>1. ASSUME Inv, NEW u \in User, phase[u] = "aborted",
               appended[u] \subseteq Exists(pod[u])
        PROVE  FALSE
    <2>1. /\ pod[u] = spawner[u] /\ phase[u] \in Assembled
          /\ ~(pod[u].chown \subseteq Exists(pod[u]))
      BY <1>1 DEF Inv, UserInv, PodInv, WithPod, Assembled
    <2>2. /\ pod[u].chown \subseteq OwnChowns(u) \cup appended[u]
          /\ pod[u].mounts = OwnMounts(u)
      BY <1>1, <2>1 DEF Inv, UserInv, AssembledInv
    <2>3. OwnChowns(u) \subseteq Exists(pod[u])
      BY <2>2, ChownsExist DEF Exists, OwnChowns, OwnMounts, PodMounts
    <2>. QED  BY <1>1, <2>1, <2>2, <2>3
  <1>2. Inv => AbortOnlyByOverlap
    BY <1>1 DEF AbortOnlyByOverlap
  <1>. QED  BY <1>2, Invariance, PTL

\* Without another form in between a pod has the SSH server it was asked for.
THEOREM SshAsAsked == Spec => []SshAsAskedUnlessOverwritten
  <1>1. Inv => SshAsAskedUnlessOverwritten
    BY PodHolds DEF SshAsAskedUnlessOverwritten, Inv, UserInv, RequestInv
  <1>. QED  BY <1>1, Invariance, PTL

-----------------------------------------------------------------------------
(* Volumes.  Two groups of one user may have names that differ only in case *)
(* or in '_' and '-'; the code does not exclude it, so it is a hypothesis.  *)

DistinctProjects ==
    \A u \in User : \A i, j \in DOMAIN Groups[u] :
        ProjectOf[Groups[u][i].name] = ProjectOf[Groups[u][j].name] => i = j

LEMMA PathsDiffer ==
    ASSUME NEW p
    PROVE  /\ \A d : /\ ProjectPath(p) # DatasetPath(d)
                     /\ ProjectPath(p) # GitsyncPath(d)
           /\ ProjectPath(p) \notin {HomePath, PhfsPath, ScriptsPath, HooksPath}
           /\ ScriptsPath # HooksPath /\ PhfsPath # HooksPath
           /\ \A d : DatasetPath(d) # HooksPath /\ GitsyncPath(d) # HooksPath
  BY DEF ProjectPath, DatasetPath, GitsyncPath, HomePath, PhfsPath, ScriptsPath,
         HooksPath

\* The paths that are mounted beside the shared projects.
Others(u, g, crs) ==
    {m.path : m \in DatasetMounts(Groups[u], g, Mounted(Groups[u], g, Roles[u], crs))}
    \cup OptionalPhfs \cup {ScriptsPath}

LEMMA OthersDiffer ==
    ASSUME NEW u \in User, NEW g, NEW crs
    PROVE  /\ \A p : ProjectPath(p) \notin Others(u, g, crs)
           /\ HooksPath \notin Others(u, g, crs)
  <1> DEFINE M == Mounted(Groups[u], g, Roles[u], crs)
  <1>1. ASSUME NEW m \in DatasetMounts(Groups[u], g, M)
        PROVE  \E d : m.path = DatasetPath(d) \/ m.path = GitsyncPath(d)
    BY DEF DatasetMounts
  <1>. QED  BY <1>1, PathsDiffer DEF Others, OptionalPhfs

LEMMA ProjectCountIs ==
    ASSUME DistinctProjects, NEW u \in User, NEW g, NEW p
    PROVE  LET I == {i \in AllGroups(Groups[u], g) :
                        ProjectPath(ProjectOf[Groups[u][i].name]) = p}
           IN  /\ Cardinality(I) \in {0, 1}
               /\ I # {} => Cardinality(I) = 1
               /\ I = {} => Cardinality(I) = 0
  <1> DEFINE I == {i \in AllGroups(Groups[u], g) :
                     ProjectPath(ProjectOf[Groups[u][i].name]) = p}
  <1>1. CASE I = {}
    BY <1>1, FS_EmptySet
  <1>2. CASE I # {}
    <2>1. PICK i \in I : TRUE
      BY <1>2
    <2>2. \A j \in I : ProjectOf[Groups[u][j].name] = ProjectOf[Groups[u][i].name]
      BY <2>1 DEF ProjectPath
    <2>3. I \subseteq DOMAIN Groups[u]
      BY AttachedType DEF AllGroups
    <2>4. I = {i}
      BY <2>1, <2>2, <2>3 DEF DistinctProjects
    <2>. QED  BY <2>4, FS_Singleton
  <1>. QED  BY <1>1, <1>2

LEMMA VolumeCounts ==
    ASSUME DistinctProjects, NEW u \in User, NEW g, NEW crs, NEW p
    PROVE  /\ VolumeCount(Groups[u], g, Roles[u], crs, p) \in {0, 1}
           /\ p = HooksPath => VolumeCount(Groups[u], g, Roles[u], crs, p) = 0
           /\ p \in Others(u, g, crs)
                \cup ProjectPaths(Groups[u], AllGroups(Groups[u], g))
              => VolumeCount(Groups[u], g, Roles[u], crs, p) = 1
  <1> DEFINE I == {i \in AllGroups(Groups[u], g) :
                     ProjectPath(ProjectOf[Groups[u][i].name]) = p}
             own == Others(u, g, crs)
  <1>1. VolumeCount(Groups[u], g, Roles[u], crs, p)
          = Cardinality(I) + IF p \in own THEN 1 ELSE 0
    BY DEF VolumeCount, Others
  <1>2. I # {} <=> p \in ProjectPaths(Groups[u], AllGroups(Groups[u], g))
    BY DEF ProjectPaths
  <1>3. p \in own => I = {}
    BY OthersDiffer
  <1>4. p = HooksPath => I = {} /\ p \notin own
    BY OthersDiffer, PathsDiffer
  <1>5. /\ Cardinality(I) \in {0, 1}
        /\ I # {} => Cardinality(I) = 1
        /\ I = {} => Cardinality(I) = 0
    BY ProjectCountIs
  <1> HIDE DEF I, own
  <1>. QED  BY <1>1, <1>2, <1>3, <1>4, <1>5 DEF own

\* If the names of a user's groups stay apart as volume names, no pod names a
\* volume twice or mounts one it has not got: a spawner object is used once.
THEOREM PodAdmissible ==
    ASSUME DistinctProjects
    PROVE  Spec => []PodIsAdmissible
  <1>1. ASSUME Inv, NEW u \in User, HasPod(u)
        PROVE  /\ \A p \in Path : pod[u].volumes[p] <= 1
               /\ \A m \in pod[u].mounts : pod[u].volumes[m.path] = 1
    <2> DEFINE g == form[u].group
               crs == listed[u]
               P == ProjectPaths(Groups[u], AllGroups(Groups[u], g))
               count(p) == VolumeCount(Groups[u], g, Roles[u], crs, p)
    <2>1. /\ pod[u].volumes = OwnVolumes(u)
          /\ pod[u].mounts = OwnMounts(u)
          /\ pod[u].mounts \subseteq Mount
      BY <1>1, PodHolds DEF AssembledInv, Inv, TypeOK, Spawner
    <2>2. ASSUME NEW p \in Path
          PROVE  pod[u].volumes[p] = (IF p \in OptionalHooks THEN 1 ELSE 0) + count(p)
      BY <2>1 DEF OwnVolumes, HookVolumes
    <2>3. ASSUME NEW p \in Path
          PROVE  /\ count(p) \in {0, 1}
                 /\ p \in OptionalHooks => count(p) = 0
                 /\ p \in Others(u, g, crs) \cup P => count(p) = 1
                 /\ p \in Others(u, g, crs) \cup P => p # HooksPath
      BY VolumeCounts, OthersDiffer, PathsDiffer DEF OptionalHooks, ProjectPaths
    <2>4. ASSUME NEW p \in Path
          PROVE  pod[u].volumes[p] <= 1
      BY <2>2, <2>3
    <2>5. ASSUME NEW m \in pod[u].mounts
          PROVE  m.path \in Path /\ m.path \in Others(u, g, crs) \cup P \cup OptionalHooks
      <3>1. m.path \in Path
        BY <2>1, <2>5 DEF Mount
      <3>2. m \in PodMounts(Groups[u], g, Roles[u], crs)
        BY <2>1, <2>5 DEF OwnMounts
      <3>3. CASE m \in DatasetMounts(Groups[u], g, Mounted(Groups[u], g, Roles[u], crs))
        BY <3>1, <3>3 DEF Others
      <3>4. ASSUME NEW S, m \in ReadWrite(S)
            PROVE  m.path \in S
        BY <3>4 DEF ReadWrite
      <3>. QED  BY <3>1, <3>2, <3>3, <3>4 DEF PodMounts, MountsOf, Others
    <2>6. ASSUME NEW m \in pod[u].mounts
          PROVE  pod[u].volumes[m.path] = 1
      <3>1. CASE m.path \in OptionalHooks
        BY <2>2, <2>3, <2>5, <3>1
      <3>2. CASE m.path \in Others(u, g, crs) \cup P
        BY <2>2, <2>3, <2>5, <3>2 DEF OptionalHooks
      <3>. QED  BY <2>5, <2>6, <3>1, <3>2
    <2>. QED  BY <2>4, <2>6
  <1>2. Inv => PodIsAdmissible
    BY <1>1 DEF PodIsAdmissible
  <1>. QED  BY <1>2, Invariance, PTL

-----------------------------------------------------------------------------
(* The refinement: PreSpawn implements IsolatedSpawn.                      *)

LEMMA SpawnersArePods == NoPod \notin Spawner
  <1>1. \A s \in Spawner : "volumes" \in DOMAIN s
    BY DEF Spawner
  <1>2. "volumes" \notin DOMAIN NoPod
    BY DEF NoPod
  <1>. QED  BY <1>1, <1>2

\* The pod that CreatePod makes is one the user's own request allows.
LEMMA CreatedPodIsOwn ==
    ASSUME Inv, NEW u \in User, CreatePod(u)
    PROVE  /\ VisiblePod(u) = NoPod
           /\ VisiblePod(u)' \in OwnPods(u)
           /\ pod' = [pod EXCEPT ![u] = pod'[u]]
  <1>1. /\ phase[u] = "prepared" /\ pod' = [pod EXCEPT ![u] = spawner[u]]
        /\ pod'[u] = spawner[u] /\ pod[u] = NoPod
        /\ spawner[u] \in Spawner /\ listed[u] \in SUBSET Dataset
        /\ form[u].group \in Names(u) \ {Everyone}
        /\ AssembledInv(u)
    BY DEF CreatePod, Move, Inv, TypeOK, UserInv, PodInv, RequestInv, WithPod
  <1> DEFINE p == [mounts |-> spawner[u].mounts, env |-> spawner[u].env,
                   links |-> spawner[u].links]
             q == [group |-> form[u].group, crs |-> listed[u]]
  <1>2. VisiblePod(u)' = p
    BY <1>1, SpawnersArePods DEF VisiblePod, HasPod
  <1>3. /\ q \in [group: Names(u) \ {Everyone}, crs: SUBSET Dataset]
        /\ q.group = form[u].group /\ q.crs = listed[u]
    BY <1>1
  <1>4. /\ BadDatasets(Mounted(Groups[u], q.group, Roles[u], q.crs)) = {}
        /\ BadGroups(Groups[u]) = {}
        /\ p = [mounts |-> PodMounts(Groups[u], q.group, Roles[u], q.crs),
                env |-> EnvDatasets(Groups[u], q.group, Roles[u], q.crs),
                links |-> LinksOf(Groups[u], q.group, Roles[u], q.crs)]
    BY <1>1 DEF AssembledInv, Assembled, OwnMounts, OwnEnv, OwnLinks
  <1>5. p \in OwnPods(u)
    BY <1>3, <1>4 DEF OwnPods
  <1>6. VisiblePod(u) = NoPod
    BY <1>1 DEF VisiblePod, HasPod
  <1>. QED  BY <1>1, <1>2, <1>5, <1>6

\* Every other step leaves the pods alone or takes one away.
LEMMA OtherSteps ==
    ASSUME Inv, NEW u \in User,
           \/ Submit(u) \/ StartListing(u) \/ RefuseSpawn(u)
           \/ Listed(u) \/ FailListing(u) \/ Boot(u) \/ AbortBoot(u) \/ Stop(u)
    PROVE  pod' = pod \/ pod' = [pod EXCEPT ![u] = NoPod]
  BY DEF Submit, SubmitForm, RejectForm, StartListing, RefuseSpawn, Listed,
         Prepare, RaiseAtDataset, RaiseAtGroup, RaiseAfter, FailListing, Boot,
         AbortBoot, Stop, Discard

LEMMA StepIsolated ==
    Inv /\ [Next]_vars => [Isolated!Next]_[u \in User |-> VisiblePod(u)]
  <1> DEFINE pods == [u \in User |-> VisiblePod(u)]
  <1> SUFFICES ASSUME Inv, [Next]_vars
               PROVE  Isolated!Next \/ pods' = pods
    OBVIOUS
  <1>1. ASSUME NEW u \in User, NEW x, pod' = [pod EXCEPT ![u] = x]
        PROVE  pods' = [pods EXCEPT ![u] = VisiblePod(u)']
    <2>1. \A v \in User : v # u => pod'[v] = pod[v]
      BY <1>1 DEF Inv, TypeOK
    <2>2. \A v \in User : v # u => VisiblePod(v)' = VisiblePod(v)
      BY <2>1 DEF VisiblePod, HasPod
    <2>. QED  BY <2>2
  <1>2. CASE pod' = pod
    BY <1>2 DEF VisiblePod, HasPod
  <1>3. ASSUME NEW u \in User, pod' = [pod EXCEPT ![u] = NoPod]
        PROVE  Isolated!Next
    <2>1. pod'[u] = NoPod
      BY <1>3 DEF Inv, TypeOK
    <2>2. VisiblePod(u)' = NoPod
      BY <2>1 DEF VisiblePod, HasPod
    <2>3. Isolated!Retire(u)
      BY <1>1, <1>3, <2>2 DEF Isolated!Retire
    <2>. QED  BY <2>3 DEF Isolated!Next
  <1>4. ASSUME NEW u \in User, CreatePod(u)
        PROVE  Isolated!Next
    <2>1. Isolated!Launch(u)
      <3>1. /\ pods[u] = NoPod
            /\ pods' = [pods EXCEPT ![u] = VisiblePod(u)']
            /\ VisiblePod(u)' \in OwnPods(u)
        BY <1>1, <1>4, CreatedPodIsOwn
      <3>. QED  BY <3>1 DEF Isolated!Launch
    <2>. QED  BY <2>1 DEF Isolated!Next
  <1>5. UNCHANGED vars => pod' = pod
    BY DEF vars
  <1>. QED  BY <1>2, <1>3, <1>4, <1>5, OtherSteps DEF Next, Run

\* However the spawns interleave, the mounts, env datasets and links of every
\* pod are those of a spawn that had the authenticator for itself.
THEOREM Refinement == Spec => SpawnsAreIsolated
  <1>1. Init => Isolated!Init
    BY DEF Init, Isolated!Init, VisiblePod, HasPod
  <1>. QED
    BY <1>1, StepIsolated, Invariance, PTL DEF Spec, SpawnsAreIsolated, Isolated!Spec
=============================================================================
