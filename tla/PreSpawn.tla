------------------------------ MODULE PreSpawn ------------------------------
(***************************************************************************)
(* The spawns of several users through the one OIDCAuthenticator of the    *)
(* hub.  The hub is a single-threaded event loop, so a handler runs        *)
(* without interruption from one await to the next; between two awaits of  *)
(* one user's spawn any step of another user's may happen.                 *)
(*                                                                         *)
(* Shared by all users: the lists chown_extra and symlinks, attributes of  *)
(* the authenticator, and ssh_config, a dict of the class PrimeHubSpawner. *)
(* Of its own: every user's spawner object, filled step by step and turned *)
(* into a pod.                                                             *)
(***************************************************************************)
EXTENDS Mounts

CONSTANTS
    User,
    Groups,       \* Groups[u]: launch_context.groups of user u
    Roles,        \* Roles[u]: the datasets u's token has a role for
    Everyone,     \* the group that is never launched
    SshFeature    \* sshServer.enabled

VARIABLES
    chown_extra,  \* OIDCAuthenticator.chown_extra
    symlinks,     \* OIDCAuthenticator.symlinks
    ssh_enabled,  \* PrimeHubSpawner.ssh_config['enabled']
    phase,        \* phase[u]: where the spawn of u is
    form,         \* form[u]: what u asked for
    spawner,      \* spawner[u]: the PrimeHubSpawner object of u
    pod,          \* pod[u]: the spec of u's pod, or NoPod
    listed,       \* listed[u]: the datasets the API returned for this spawn
    appended,     \* history: paths others appended since u's reset
    overwritten   \* history: another form came after u's form, before its read

authenticatorVars == <<chown_extra, symlinks>>
historyVars == <<appended, overwritten>>
vars == <<chown_extra, symlinks, ssh_enabled, phase, form, spawner, pod,
          listed, appended, overwritten>>

NoPod == [none |-> TRUE]

\* submitted: refresh_pre_spawn is awaited; listing: the dataset list is
\* awaited; prepared: pre_spawn_start is done; booting: the pod exists.
Phase == {"idle", "submitted", "listing", "prepared", "booting", "serving",
          "aborted"}

Names(u) == {Groups[u][i].name : i \in DOMAIN Groups[u]}

ASSUME PreSpawnAssumption ==
    /\ Groups \in [User -> Seq(GroupRecord)]
    /\ Roles \in [User -> SUBSET Dataset]
    /\ Everyone \in Group
    /\ SshFeature \in BOOLEAN

Form == [group: Group, ssh: BOOLEAN]

Spawner == [volumes: [Path -> Nat], mounts: SUBSET Mount, env: SUBSET Dataset,
            links: SUBSET Path, chown: SUBSET Path, ssh: BOOLEAN]

\* A new PrimeHubSpawner: get_spawner makes one when the dict has none.
NewSpawner ==
    [volumes |-> [p \in Path |-> 0], mounts |-> {}, env |-> {}, links |-> {},
     chown |-> {}, ssh |-> FALSE]

NoForm == [group |-> Everyone, ssh |-> FALSE]

Init ==
    /\ chown_extra = {}
    /\ symlinks = {}
    /\ ssh_enabled = FALSE
    /\ phase = [u \in User |-> "idle"]
    /\ form = [u \in User |-> NoForm]
    /\ spawner = [u \in User |-> NewSpawner]
    /\ pod = [u \in User |-> NoPod]
    /\ listed = [u \in User |-> {}]
    /\ appended = [u \in User |-> {}]
    /\ overwritten = [u \in User |-> FALSE]

Move(u, from, to) ==
    /\ phase[u] \in from
    /\ phase' = [phase EXCEPT ![u] = to]

\* Mutated form of Discard: post_spawn_stop without user.spawners.pop.
DiscardKeepingSpawner(u) ==
    /\ spawner' = spawner
    /\ pod' = [pod EXCEPT ![u] = NoPod]
    /\ form' = [form EXCEPT ![u] = NoForm]
    /\ listed' = [listed EXCEPT ![u] = {}]
    /\ overwritten' = [overwritten EXCEPT ![u] = FALSE]

\* The hub stops a spawn that raised and any server: post_spawn_stop pops the
\* spawner object with its user_options, the next spawn gets a new one.
Discard(u) ==
    /\ spawner' = [spawner EXCEPT ![u] = NewSpawner]
    /\ pod' = [pod EXCEPT ![u] = NoPod]
    /\ form' = [form EXCEPT ![u] = NoForm]
    /\ listed' = [listed EXCEPT ![u] = {}]
    /\ overwritten' = [overwritten EXCEPT ![u] = FALSE]

-----------------------------------------------------------------------------
(* options_from_form.                                                      *)

\* Mutated form of WriteSsh: the flag is switched on and never off.
WriteSshOnlyOn(u, ssh) ==
    /\ ssh_enabled' = (ssh_enabled \/ (SshFeature /\ ssh))
    /\ overwritten' = [v \in User |->
                         IF v = u THEN FALSE
                         ELSE overwritten[v] \/ phase[v] = "submitted"]

WriteSsh(u, ssh) ==
    /\ ssh_enabled' = IF SshFeature THEN ssh ELSE ssh_enabled
    /\ overwritten' = [v \in User |->
                         IF v = u THEN FALSE
                         ELSE overwritten[v] \/ phase[v] = "submitted"]

SubmitForm(u, g, ssh) ==
    /\ Move(u, {"idle"}, "submitted")
    /\ g \in Names(u) \ {Everyone}
    /\ WriteSsh(u, ssh)
    /\ form' = [form EXCEPT ![u] = [group |-> g, ssh |-> ssh]]
    /\ UNCHANGED <<authenticatorVars, spawner, pod, listed, appended>>

\* The flag is written before the group, instance type and image are looked
\* up: a form the lookup refuses has written it.
RejectForm(u, ssh) ==
    /\ phase[u] = "idle"
    /\ WriteSsh(u, ssh)
    /\ UNCHANGED <<authenticatorVars, phase, form, spawner, pod, listed,
                   appended>>

-----------------------------------------------------------------------------
(* pre_spawn_start.                                                        *)

\* Up to the await of get_custom_resources.
Started(s) ==
    [s EXCEPT !.ssh = s.ssh \/ ssh_enabled,
              !.volumes = [p \in Path |->
                 s.volumes[p] + IF p \in OptionalHooks THEN 1 ELSE 0],
              !.mounts = s.mounts \cup ReadWrite(OptionalHooks)]

\* Mutated form of StartListing: the list is not reset.
StartListingKeepingList(u) ==
    /\ Move(u, {"submitted"}, "listing")
    /\ spawner' = [spawner EXCEPT ![u] = Started(spawner[u])]
    /\ appended' = [appended EXCEPT ![u] = {}]
    /\ UNCHANGED <<authenticatorVars, ssh_enabled, form, pod, listed,
                   overwritten>>

StartListing(u) ==
    /\ Move(u, {"submitted"}, "listing")
    /\ chown_extra' = {}
    /\ spawner' = [spawner EXCEPT ![u] = Started(spawner[u])]
    /\ appended' = [appended EXCEPT ![u] = {}]
    /\ UNCHANGED <<symlinks, ssh_enabled, form, pod, listed, overwritten>>

\* No auth state, or a refused refresh: nothing has been touched yet.
RefuseSpawn(u) ==
    /\ Move(u, {"submitted"}, "idle")
    /\ Discard(u)
    /\ appended' = [appended EXCEPT ![u] = {}]
    /\ UNCHANGED <<authenticatorVars, ssh_enabled>>

\* The others that await the list see what u appends: S.
Overheard(u, S) ==
    [v \in User |-> IF v # u /\ phase[v] = "listing" THEN appended[v] \cup S
                    ELSE appended[v]]

\* symlinks is reset after the await, chown_extra was before it.
\* Mutated form of Relinked: symlinks is only reset when the hub starts.
RelinkedWithoutReset(links) == symlinks \cup links

Relinked(links) == links

\* Mutated form of Prepared: CHOWN_EXTRA is joined before the list is filled.
PreparedEarly(s, u, crs) ==
    LET g == form[u].group
    IN  [s EXCEPT
           !.volumes = [p \in Path |->
              s.volumes[p] + VolumeCount(Groups[u], g, Roles[u], crs, p)],
           !.mounts = s.mounts \cup MountsOf(Groups[u], g, Roles[u], crs)
                               \cup ReadWrite({ScriptsPath}),
           !.env = s.env \cup EnvDatasets(Groups[u], g, Roles[u], crs),
           !.links = symlinks',
           !.chown = chown_extra]

\* The rest of pre_spawn_start, without an await: the lists are filled and
\* copied into the spawner.
Prepared(s, u, crs) ==
    LET g == form[u].group
    IN  [s EXCEPT
           !.volumes = [p \in Path |->
              s.volumes[p] + VolumeCount(Groups[u], g, Roles[u], crs, p)],
           !.mounts = s.mounts \cup MountsOf(Groups[u], g, Roles[u], crs)
                               \cup ReadWrite({ScriptsPath}),
           !.env = s.env \cup EnvDatasets(Groups[u], g, Roles[u], crs),
           !.links = symlinks',
           !.chown = chown_extra']

Prepare(u, crs) ==
    LET g == form[u].group
        own == ChownOf(Groups[u], g, Roles[u], crs)
    IN  /\ Move(u, {"listing"}, "prepared")
        /\ BadDatasets(Mounted(Groups[u], g, Roles[u], crs)) = {}
        /\ BadGroups(Groups[u]) = {}
        /\ symlinks' = Relinked(LinksOf(Groups[u], g, Roles[u], crs))
        /\ chown_extra' = chown_extra \cup own
        /\ appended' = Overheard(u, own)
        /\ spawner' = [spawner EXCEPT ![u] = Prepared(spawner[u], u, crs)]
        /\ listed' = [listed EXCEPT ![u] = crs]
        /\ UNCHANGED <<ssh_enabled, form, pod, overwritten>>

\* An exception leaves what it appended in the shared list.
RaiseAfter(u, S) ==
    /\ chown_extra' = chown_extra \cup S
    /\ Discard(u)
    /\ appended' = [Overheard(u, S) EXCEPT ![u] = {}]

\* Mutated form of RaiseAtDataset: the spawner is kept for the next spawn, and with
\* it the mount of b, whose volume has not been appended.
RaiseAtDatasetKeepingSpawner(u, crs, S, b) ==
    LET g == form[u].group
        mounted == Mounted(Groups[u], g, Roles[u], crs)
        mount == [path |-> DatasetPath(b), readOnly |-> ~Writable(Groups[u], g, b)]
        own == DatasetChowns(Groups[u], g, S \cup {b})
    IN  /\ Move(u, {"listing"}, "idle")
        /\ b \in BadDatasets(mounted)
        /\ S \subseteq mounted \ BadDatasets(mounted)
        /\ symlinks' = Relinked({DatasetsRoot} \cup DatasetLinks(S))
        /\ chown_extra' = chown_extra \cup own
        /\ spawner' = [spawner EXCEPT ![u].mounts = @ \cup {mount}]
        /\ appended' = [Overheard(u, own) EXCEPT ![u] = {}]
        /\ UNCHANGED <<ssh_enabled, form, pod, listed, overwritten>>

\* It raises in the middle of the datasets, S done and b at fault ...
RaiseAtDataset(u, crs, S, b) ==
    LET mounted == Mounted(Groups[u], form[u].group, Roles[u], crs)
    IN  /\ Move(u, {"listing"}, "idle")
        /\ b \in BadDatasets(mounted)
        /\ S \subseteq mounted \ BadDatasets(mounted)
        /\ symlinks' = Relinked({DatasetsRoot} \cup DatasetLinks(S))
        /\ RaiseAfter(u, DatasetChowns(Groups[u], form[u].group, S \cup {b}))
        /\ UNCHANGED ssh_enabled

\* ... or at the first group whose shared volume has no capacity.
RaiseAtGroup(u, crs, n) ==
    LET groups == Groups[u]
        g == form[u].group
        mounted == Mounted(groups, g, Roles[u], crs)
    IN  /\ Move(u, {"listing"}, "idle")
        /\ BadDatasets(mounted) = {}
        /\ n \in BadGroups(groups)
        /\ \A m \in BadGroups(groups) : n <= m
        /\ symlinks' = Relinked({DatasetsRoot} \cup DatasetLinks(mounted)
                       \cup ProjectLinks(groups, Attached(groups, g, n)))
        /\ RaiseAfter(u, DatasetChowns(groups, g, mounted)
                         \cup ProjectPaths(groups, Attached(groups, g, n)))
        /\ UNCHANGED ssh_enabled

\* The list call raises; print_tb() without its argument raises again in the
\* handler, and the spawn fails with an empty list.
FailListing(u) ==
    /\ Move(u, {"listing"}, "idle")
    /\ Discard(u)
    /\ appended' = [appended EXCEPT ![u] = {}]
    /\ UNCHANGED <<authenticatorVars, ssh_enabled>>

-----------------------------------------------------------------------------
(* The pod.                                                                *)

CreatePod(u) ==
    /\ Move(u, {"prepared"}, "booting")
    /\ pod' = [pod EXCEPT ![u] = spawner[u]]
    /\ UNCHANGED <<authenticatorVars, ssh_enabled, form, spawner, listed,
                   historyVars>>

Exists(p) == {HomePath} \cup {m.path : m \in p.mounts}

\* start.sh, which the container runs as root (singleuser.uid is 0), changes
\* the owner of every path in $CHOWN_EXTRA under set -e.
Boot(u) ==
    /\ Move(u, {"booting"}, "serving")
    /\ pod[u].chown \subseteq Exists(pod[u])
    /\ UNCHANGED <<authenticatorVars, ssh_enabled, form, spawner, pod, listed,
                   historyVars>>

AbortBoot(u) ==
    /\ Move(u, {"booting"}, "aborted")
    /\ ~(pod[u].chown \subseteq Exists(pod[u]))
    /\ UNCHANGED <<authenticatorVars, ssh_enabled, form, spawner, pod, listed,
                   historyVars>>

\* Stopped by its user, by the culler, or by a start that failed or timed out.
Stop(u) ==
    /\ Move(u, {"prepared", "booting", "serving", "aborted"}, "idle")
    /\ Discard(u)
    /\ appended' = [appended EXCEPT ![u] = {}]
    /\ UNCHANGED <<authenticatorVars, ssh_enabled>>

-----------------------------------------------------------------------------

Submit(u) == \/ \E g \in Group, ssh \in BOOLEAN : SubmitForm(u, g, ssh)
             \/ \E ssh \in BOOLEAN : RejectForm(u, ssh)

Listed(u) ==
    \E crs \in SUBSET Dataset :
        \/ Prepare(u, crs)
        \/ \E S \in SUBSET crs, b \in crs : RaiseAtDataset(u, crs, S, b)
        \/ \E n \in DOMAIN Groups[u] : RaiseAtGroup(u, crs, n)

Run(u) == CreatePod(u) \/ Boot(u) \/ AbortBoot(u) \/ Stop(u)

Next == \E u \in User : \/ Submit(u) \/ StartListing(u) \/ RefuseSpawn(u)
                        \/ Listed(u) \/ FailListing(u) \/ Run(u)

Spec == Init /\ [][Next]_vars

-----------------------------------------------------------------------------
(* Properties.                                                             *)

TypeOK ==
    /\ chown_extra \in SUBSET Path
    /\ symlinks \in SUBSET Path
    /\ ssh_enabled \in BOOLEAN
    /\ phase \in [User -> Phase]
    /\ form \in [User -> Form]
    /\ spawner \in [User -> Spawner]
    /\ pod \in [User -> Spawner \cup {NoPod}]
    /\ listed \in [User -> SUBSET Dataset]
    /\ appended \in [User -> SUBSET Path]
    /\ overwritten \in [User -> BOOLEAN]

\* What u's own request entitles its pod to.
OwnLinks(u) == LinksOf(Groups[u], form[u].group, Roles[u], listed[u])
OwnChowns(u) == ChownOf(Groups[u], form[u].group, Roles[u], listed[u])

HasPod(u) == pod[u] # NoPod

\* The postStart hook of a pod makes exactly the links of its own user's
\* groups and datasets, however the spawns interleave: symlinks is reset after
\* the await of pre_spawn_start.
LinksAreOwn == \A u \in User : HasPod(u) => pod[u].links = OwnLinks(u)

\* Whatever another spawn did to the shared list meanwhile, CHOWN_EXTRA names
\* every path of the pod's own request, and with it every data volume the pod
\* mounts writable.
ChownsCoverOwn ==
    \A u \in User : HasPod(u) =>
        /\ OwnChowns(u) \subseteq pod[u].chown
        /\ \A m \in pod[u].mounts :
              m.readOnly \/ m.path \in pod[u].chown \cup {ScriptsPath, HooksPath}

\* A path of someone else gets into CHOWN_EXTRA only from a spawn that resumed
\* between this spawn's reset of the list and its use.
ForeignChownsOnlyByOverlap ==
    \A u \in User : HasPod(u) =>
        pod[u].chown \subseteq OwnChowns(u) \cup appended[u]

\* A notebook that nobody overlapped with finds every path it has to chown:
\* start.sh aborts only on a path another spawn left in the list.
AbortOnlyByOverlap ==
    \A u \in User : phase[u] = "aborted" =>
        ~(appended[u] \subseteq Exists(pod[u]))

\* Kubernetes refuses a pod that names a volume twice or mounts one it has
\* not got: a spawner object must not be used for two spawns.
PodIsAdmissible ==
    \A u \in User : HasPod(u) =>
        /\ \A p \in Path : pod[u].volumes[p] <= 1
        /\ \A m \in pod[u].mounts : pod[u].volumes[m.path] = 1

\* The pod runs an SSH server as its form asked, unless another form was
\* submitted before the class-wide flag was read.
SshAsAskedUnlessOverwritten ==
    \A u \in User : HasPod(u) /\ SshFeature /\ ~overwritten[u] =>
        pod[u].ssh = form[u].ssh

\* The pods a user is entitled to, as far as links, mounts and env go.
OwnPods(u) ==
    {[mounts |-> PodMounts(Groups[u], r.group, Roles[u], r.crs),
      env |-> EnvDatasets(Groups[u], r.group, Roles[u], r.crs),
      links |-> LinksOf(Groups[u], r.group, Roles[u], r.crs)] :
        r \in {q \in [group: Names(u) \ {Everyone}, crs: SUBSET Dataset] :
                /\ BadDatasets(Mounted(Groups[u], q.group, Roles[u], q.crs)) = {}
                /\ BadGroups(Groups[u]) = {}}}

VisiblePod(u) ==
    IF HasPod(u) THEN [mounts |-> pod[u].mounts, env |-> pod[u].env,
                       links |-> pod[u].links]
    ELSE NoPod

Isolated == INSTANCE IsolatedSpawn WITH PodsOf <- OwnPods,
                                        pods <- [u \in User |-> VisiblePod(u)]

\* Every behaviour is one of IsolatedSpawn: the mounts, env datasets and links
\* of a pod are those of a spawn that had the hub for itself.
SpawnsAreIsolated == Isolated!Spec

\* CHANGELOG: "chown_extra.sh should not break notebook when fail".
ChownNeverBreaksNotebook == \A u \in User : phase[u] # "aborted"
=============================================================================
