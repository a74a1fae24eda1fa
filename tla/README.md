# PrimeHub in TLA+

Specifications, model checks and proofs about the parts of PrimeHub whose behaviour lives in
this repository: the JupyterHub configuration that prepares notebooks
(`chart/scripts/jupyterhub/config/jupyterhub_profiles.py`, below *profiles*), the start script of
a notebook (`chart/scripts/primehub-start-notebook/start.sh`), the bootstrap job
(`chart/scripts/bootstrap/bootstrap.sh`, `keycloak.inc`), and the tools around the system whose
success others rely on (the images of a release, the post-flight check, the model downloader, the
example notebooks that deploy models).

`PROJECT.json` lists the runs, the mutants, the lines every definition stands for, the hazards and
the theorems. A model is checked with `tlc -config X.cfg M`, a proof with `tlapm M.tla`.

## 1. Inventory

| component | state it keeps | operations | what is hard | what makes it correct |
|---|---|---|---|---|
| preparation of a spawn (profiles: `pre_spawn_start`, `mount_dataset`, `post_spawn_stop`) | the spawner object of each user; the lists `chown_extra` and `symlinks` of the one authenticator; `ssh_config`, one dict for all spawners | form posted, refresh, list of datasets, assembly, pod, stop | spawns of several users interleave at the awaits and share the lists; exceptions half way; spawner objects used again | a pod has the links, mounts and variables of its own user; CHOWN_EXTRA names at least the own paths; a volume appears once |
| user settings (`authenticate`, `refresh_user`, `verify_access_token`) | the auth_state record of a user in the hub's database | login, refresh before every request and spawn | read, await, write back of a whole record: lost updates; errors of two services | a spawn uses settings no older than its start; the last login's token is kept |
| spawn form (`options_from_form`, `instance_type_to_override`, `image_to_override`, `_groups`) | attributes of the spawner, the groups rendered last | render, post, failing post, launch, stop, restart of the hub | two tabs; overrides written before an await; attributes that are only ever set | the pod is what one form asked for and what the group offered |
| bootstrap job | realm, group, clients, users and roles in Keycloak; secrets in the cluster | some forty calls in order, run again on every upgrade | runs that end anywhere; failures the shell hides | what a completed run guarantees; a rerun always completes; a changed password stays |
| start of the container (`start.sh`) | the container | user, owner of the paths, exec | `set -e` on paths that another spawn added | the notebook starts |
| stop of a pending spawn, hub restart (`StopSpawningHandler`, `get_state`, `load_state`) | the hub's spawners | stop, remove, restore | the spawner is popped while its spawn awaits | no pod without a spawner |
| limits and usage (`primehub_utils.py`, `get_container_resource_usage`) | the pods of the reflector | pods come, move on and go; the usage of a group is read | suffixes of quantities; labels made of names; one pod that cannot be read | what is shown of a group is its own, and never too little memory |
| admin page (`Pagination`, `MyAdminHandler`) | none; the list of users is JupyterHub's | a page by its address, by a link, by the arrow | boundaries; links that forget size and order; users and servers that change during a walk | a walk sees everyone once; no link leads to an empty page |
| images of a release (`install/airgap/image-cache.py`, `ci/check_airgap_images.py`) | a bucket: the cache and the releases | check of a commit; look up, save, upload, copy | statuses that are not looked at, killed runs, one cache for all releases | a finished release is whole; what the charts use is in it |
| post-flight check (`install/postflight-check`) | errors of a run; a dataset, a job and an app in the cluster | lists, entries, Grafana, job, dataset, GPU, app, report | what a test does not catch; leftovers; two runs | OK hides nothing, an alarm has a cause |
| model downloader (`apps/mlflow-model-downloader`) | the volume of a deployment | download, wait, exit | the entry point exits with 0 whatever happened | the server has all of its model |
| example notebooks (deployments by the SDK) | deployments of the group; variables of a kernel | delete, create, endpoint, clean up | `list()[0]`, ids that are a folder, cells in any order | a student tests their own deployment and leaves none |
| telemetry, home and usage pages, logout | none of their own | - | - | - |
| metacontroller hooks (gitsync, groupvolume, dataset-upload, ssh-bastion-server) | none: attachments are a function of a resource | sync | names and labels that must agree | the volume of a group finds its server |
| git synchronisation, dataset upload, job runner, custom images | directories | clean-up; move and unzip; artifacts; build and push | two uploads of a name; failures that are not looked at | what was uploaded is there |
| Keycloak, GraphQL backend, console, controller, watcher, admission, MinIO | - | - | code in images outside the repository | - |
| chart templates, CRDs, installation scripts, CI, vendored charts, other example apps | - | - | no behaviour of their own | - |

How they interact: the browser posts the form to the hub; the hub calls `refresh_user` (Keycloak,
then the GraphQL backend), `options_from_form`, then `pre_spawn_start`, which lists the Dataset
resources of the Kubernetes API, and creates the pod; the pod's `postStart` hook makes the links and
`start.sh` changes the owners. The hub is one event loop: a handler runs without interruption between two
awaits, so an action of the models is the code from one await to the next. The bootstrap job runs
beside all that, after an install or an upgrade, against Keycloak and the cluster.

Every hazard found is in `PROJECT.json` at its line, with the properties that watch it, or the
reason why none does. Six of those without a property are in the models all the same, as what a property
excepts: the links that forget size and order, the failures `image-cache.py` only prints, the two things
`check_airgap_images.py` does not look at, the log of the GPU test, the downloader's exit 0, and
`list()[0]` of the notebooks. Of these the code does what the exception says, so no property of it can be
broken by them; the properties say that there is nothing else.

## 2. Modules

| module | what it is | proofs |
|---|---|---|
| `Mounts` | pure part of a spawn: which datasets and shared volumes a user's launch context gives, the mounts, links, chown paths and volume names they become | used by `PreSpawnProofs` |
| `PreSpawn` | spawns of several users through the shared authenticator | `PreSpawnProofs` |
| `IsolatedSpawn` | abstract: a user's pod appears in one step and is one the user is entitled to | refinement in `PreSpawnProofs` |
| `AuthState` | logins and refreshes of one user over one record | `AuthStateProofs` |
| `SpawnForm` | two tabs, one spawner | `SpawnFormProofs` |
| `Bootstrap` | the bootstrap script, run again and again | `BootstrapProofs` |
| `Pagination` | pure: pages, windows and links | `PaginationProofs` |
| `AdminPage` | an administrator walks through the pages of a changing list | `AdminPageProofs` |
| `GroupUsage` | the pods of the reflector and the usage of a group | `GroupUsageProofs` |
| `ImageCache` | releases over one cache of images, and the check of a commit | `ToolsProofs`, I |
| `Postflight` | runs of the post-flight check over one cluster | `ToolsProofs`, II |
| `ModelDownload` | the downloader and the server that follows it | `ToolsProofs`, III |
| `Quickstart` | students of one group run the example notebooks | `ToolsProofs`, IV |
| `MC*` | constants and symmetry for the runs; `MCTools` and `MCHubPages` put modules side by side | `MCTools`: `ToolsProofs`, V |

**Mounts and PreSpawn.** `phase[u]` is the await at which the spawn of u stands: `submitted` (the
refresh is awaited), `listing` (the dataset list), then `prepared`, `booting`, `serving` or
`aborted`. `StartListing` is `pre_spawn_start` up to `await self.get_custom_resources`, with the reset of
`chown_extra`; `Prepare` is the rest, with the reset of `symlinks`, both lists filled and copied into
the spawner; `RaiseAtDataset`, `RaiseAtGroup` and `FailListing` are its exceptions, with what was
appended by then; `Discard` is `post_spawn_stop`; `Boot` and `AbortBoot` are the chown loop of `start.sh`,
which a container runs that starts as root (`start.sh:42`), as the chart has it, under the `set -e` of its line 5.
`appended[u]` and `overwritten[u]` are history variables: what other spawns put into the list since
u's reset, and whether another form wrote the ssh flag before u's read. A path is a root and a name, a
launch context is a sequence of group records; sizes, labels, annotations and affinities are left out,
since no decision depends on them.

**AuthState.** What the administrator has set up is a version number; the roles in Keycloak and the
launch context of the backend are views of it. `Arrive`, `ReadToken`, `TokenAccepted`, `RefreshChanged`,
`SaveRefresh` are the awaits of `refresh_user` (with the second read in `verify_access_token`);
`LoginStart`, `LoginContext`, `SaveLogin` those of `authenticate`. A backend that is down answers nothing;
one that is up may still answer with errors, which `LoginWithout` stores and a refresh drops (`RefreshFails`), or without a user:
that is a `KeyError` outside of the `try`, and the request ends (`RefreshRaises`). `since`, `answered`,
`overtaken`, `lastLogin` and `clobbered` are history.

**SpawnForm.** An attribute of the spawner is represented by what its override sets it to. `Post` is
`options_from_form` up to the await of `_get_env_options`, `Launch` its return and the pod;
`PostUnknown` raises before the overrides, `Drop` after them; the overrides of a dropped form stay.
`load_state` restores none of these attributes (`HubRestart`).

**Bootstrap.** A step is a pair of an operation and its object; `Script` is the sequence of
`bootstrap.sh`, `made` the set of the steps whose effect is there. Failures are as in the shell: most
calls end the run (`Halt`, with the effect done or not), some are tolerated (`|| true`), and those inside
`local x=$(...)` are hidden (`SecretHidden`, `CountHidden`, `LookupHidden`, `UserHidden`).
Taken as given: the group file of the default `PH_GROUP` is there, and the mode is `deploy`, which
has one step more than the others. `InstanceTypes` and `Images` are the two lists whose roles are made and
bound, each followed by its `kubectl apply`. Not steps of their own: a second login (part of `frontendUrl`), the look
for a theme (part of `theme`) and for a secret's client. Left out: `requiredActions` of phadmin, which an option asks for that is
off by default, and the loop over protocol mappers of `kc_apply_client`: it adds what a client lacks, every client here is
created from the file that has them all, and a failure of it is hidden.

**Pagination and AdminPage.** `Pagination` has the arithmetic of the class of that name; `IsWindow` says
what `before_page = after_page = 2` are for, without the cases the code makes: the first page, the last, two on each
side. The docstring of `calculate_pages_window` promises another window (the current page and five next ones, the last two
and the first); this is listed as a finding, on the run which shows that the code makes the former. `Open` is `MyAdminHandler.get` for an address
with page, size, sort and order as they come (missing, too large, bad, bad twice: `sorts.remove` takes one of
two bad values away, and the page is an error); `Follow` and `Jump` are the same handler behind a link, which
has the page alone. `PageArgs` cuts a size to the maximum, the default one too. `Join`, `Leave` and `Toggle` are JupyterHub's. `walk` is history: who has been
seen since page one. A server that starts moves its user in a list sorted by `running`, not in the default
order, which is that of the links. (The code sorts by `Spawner.server_id`, an id or nothing; the model by whether there is
one.) Left out: named servers and the order by last activity.

**GroupUsage.** `Added`, `Moved` and `Deleted` are what the reflector hears; `Usage` is
`get_container_resource_usage` with its `except` (nothing, where a suffix cannot be read). Names are
sequences of bytes, because the property is about their escaping: `Safe` are the bytes a label may have, `Hex` the two
digits that follow the dash for any other. (Control characters, which the escaping writes with one digit, are
taken to be in no name.) Numbers keep their
suffix. `Binary` and `Decimal` stand for 1024 and 1000: TLC's integers end at 2^31, and its run has 4 and 3.

**ImageCache.** `work[r]` is where the run for release r stands: `stat` (`cache_present`), `save`, `txt`, `tgz`
(the generated script), `copy`, `copyTxt` (`copy_tarballs`). `Unseen` is a command that fails: its output is
printed and the run goes on, so `hidden` keeps its image. `Killed` is the end of the machine. `Inside` says which
image's text is within which other's: that is what `img in all_images` looks for.

**Postflight.** One action per test, or per call of a test where something is left behind. `jobs` are what
`jobs_testing` and `gpu_testing` submit: no call of theirs deletes a job, so every run that is not of a community edition leaves
one, and `OkMeansAllWell` says that it leaves nothing else. `Proceed`
puts an error down, `Abort` is an exception no test catches; `gpu_testing` always ends so, since it joins
a log of bytes as strings and decodes the result. `blame[r]` is history: what may excuse the outcome of r. The
kinds of entries are those of the admin tests; that a name that is not there gives an answer without
it, and not an exception of another type, is taken as given.

**ModelDownload.** The container of `docker-entrypoint.sh`: `Declines`, `FetchFails` (badly, with exit 0), `Fetched`,
`Slept`. `Serve` is Kubernetes, which starts the server after a container that has
exited with 0; it starts a killed container again on the same volume and a new pod on a new one.

**Quickstart.** A record per notebook: what the id of its deployment is made of and which cell follows
which. Cells may be run again in any order (`Rerun`), a kernel may be restarted. `ph.deployments.list()[0]`
is any deployment of the group, since nothing orders the list. The cell that waits for a deployment changes nothing and is
part of the one before it. A call of the SDK that fails leaves its cell to be run again, which changes nothing either; one whose answer is lost has
been done, and of a creation nobody knows the id then (`CreateUnanswered`).

## 3. Runs

| run | what it asks | bounds | result |
|---|---|---|---|
| `spawns` | what leaks from one spawn into another's pod, and only when | two users, one in two groups with a shared dataset, one in one of them; two datasets (pv, git), every answer of the API | holds |
| `failing_spawns` | the same where spawns raise half way: nothing of a spawn that came to nothing is in a later pod of the same user or of another; every pod is one of a spawn with the hub to itself (refinement of `IsolatedSpawn`) | two users: cyd's spawns raise at a broken dataset whenever the list has it, and go through when it has not; dan's raise at a group without capacity, after a shared volume has been attached | holds |
| `chown_breaks_notebook` | CHANGELOG: `chown_extra.sh` should not break a notebook | as `spawns` | violated: two overlapping spawns |
| `auth_state` | what a lost update can do to the record | two requests, two versions, two logins | holds |
| `roles_stay` | CHANGELOG: a refresh makes new settings visible | as above | violated: roles stay those of the login |
| `block_stays` | the form is blocked while the API is down | as above | violated: the error of one login stays |
| `spawn_form` | what of one form ends up in the pod of another | two tabs, two groups and everyone, two types (one with GPU and selector), two images (one private) | holds |
| `bootstrap` | what a completed run guarantees; every run completes at last | an instance type and an image, two faults | holds |
| `everyone_not_default` | "Idempotent update the keycloak" | as above | violated: a run that ends at the wrong place is never repaired |
| `defaults_twice` | "only triggered when no user in the realm" | as above | violated: a hidden failure of the count |
| `hub_pages` | does a walk through the admin page see everyone once; do links lead to users; is a group's usage its own and never too little | fifteen users of whom one comes and goes, two to a page (eight pages, the last with one user, or seven full ones), ten addresses; three group names, two pods of two containers, memory in M, G, Gi and Ti; the two pods interchangeable (symmetry) | holds |
| `tools` | what is a finished release, an OK, an exit 0 and a last cell worth | two releases with one fault; two runs of the check with one failure and one change; two deployments with two losses; three students, two of them with one folder | holds |

Why the bounds are enough for what is asked: every hazard in these components is between two actors
(two spawns, two requests, two tabs, one run and the next), and each user, request or tab can go
through its life again and again, so a third one adds nothing a second life does not. Two versions make a
stale value, two logins a lost one. Two faults are one that spoils a run and one that spoils the
repair; one role of each list is enough, as those of a list are made by the same two calls in turn. The proofs have no such bounds.

Eight pages are the first number at which a window leaves pages out on either side; with the last one full or
not, both remainders occur, and the addresses go beyond the last page. Three names are those an escaping
could confuse: a capital, its small letter and its escape. In `tools` two releases share an entry of the cache,
and an image is in one group twice and in two groups, so that each release meets the other's half-done work;
one fault is enough for a hole, since everything after it goes by what it left. Of the students two run
the notebook of one folder, so that one meets the deployment of the other (a creation that finds its id taken, the exception of
`EndpointIsOwn`), and one that with the random id, who may create twice; two students with random ids add nothing to
the run, whose ids are new ones, and the proof covers them. The modules of these two
runs share no state: a behaviour of the run is one of one module, chosen at the start.

The bounds by name: `MaxVersion` (changes of the administrator), `MaxLogins` (access tokens),
`MaxFaults` (answers lost or runs killed), `MaxTroubles` and `MaxEdits` (failing calls of a check, changes of
its cluster), `MaxLosses` (downloads that fail or are killed), `MaxRounds` (creations by a student). The other constants are sets of model values or small
records in the `MC*` modules. Symmetry is used over requests, tabs, pods, runs of the check and the two students of one folder, whose
names nothing distinguishes, and not in the run with liveness.

**The "unless" in the properties.** Several properties have the form "it is right, unless another
spawn (request, tab, run) came in between", with the exception recorded as history. The first part alone is
false: the shared lists and whole-record writes do leak. The properties say that nothing else
does, and the runs that expect a violation show the cases in which the exception contradicts what the
repository says of itself.

**Fairness.** Only `Bootstrap` has liveness (`NeverWedged`). `WF(Advance)`: the shell goes on to the
next command when the last has answered. `WF(Begin)`: the Job starts another pod when one fails
(its default limit of six is above `MaxFaults`), and administrators upgrade. Nothing is assumed of
the other modules: users may leave a form unsubmitted and a hub may never get an answer.

## 4. Proofs

All of these hold for every value of the constants under their named assumptions. Most only type the constants
(`AuthStateAssumption` and its kin in each module); those that say more are `DistinctProjects`, `ListsAssumption`,
`AdminPageAssumption` (the users are finitely many, and ordered by their names) and `GroupUsageAssumption` (no two bytes have
the same two digits, a dash is no digit), all described below. Every invariant that a run checks is a theorem.

* `PreSpawnProofs`: `Inv == TypeOK /\ \A u : UserInv(u)`. The properties are about pods, so by
  themselves they are not inductive: a step that creates a pod must know that the spawner it comes from is right. `UserInv`
  says so for every phase: a spawner is new while a form is submitted; while the list is awaited the
  shared list holds only what `appended[u]` recorded; once prepared the spawner has the user's own links,
  mounts and variables, and chown paths between the own ones and the own with `appended[u]`. One
  lemma says that a step of one user leaves another's part intact (the shared list can only grow by what
  the other overhears), one lemma per action does its own user. From it: `LinksOwn`, `ForeignChowns`, `ChownsCover`,
  `AbortsOnlyByOverlap`, `SshAsAsked`, `PodAdmissible` and `Refinement`, that `PreSpawn` implements
  `IsolatedSpawn`: creating a pod maps to `Launch`, `Discard` to `Retire`, the rest to a stutter.
* `PodAdmissible` needs `DistinctProjects`: the groups of a user have different volume names. The code turns
  `_` into `-` and upper into lower case, so two names may collide; then the pod lists a volume twice.
* `AuthStateProofs`: `AuthInv` adds to the types that the stored record, and the copy each
  handler carries, have a launch context at least as new as their roles and no newer than the
  version; that what a handler has read is what is stored until another request saves; and that what a
  refresh saves is as new as its start. From it: `ContextFollowsRoles`, `StaleContextOnly`, `LoginLostOnly`.
* `SpawnFormProofs`: `FormInv` says of every waiting post that was not overtaken that the
  spawner's attributes are those of its form and were offered, and of every spawner no form has dirtied that it
  has no selector and no secret. From it: `PodAsAsked`, `OnlyFormsLeave`, `PodOffered`, `GpuWithGpu`.
* `BootstrapProofs`: four invariants over the place in the script, on top of the types. `SecretsInv`: once a
  run has passed the place of a client's secret, and when it is complete, that secret is the right one or the client is in
  `unread`. `EveryoneInv`: a group everyone that is there is a default one, or some run was interrupted at it, or this
  run is just about to make it so; past that place one of the first two. `AdminInv`: if phadmin is there, its group and roles are, or
  a run was interrupted among them, or this run is between them and has made what it has passed. `PasswordInv`: who
  has a password is there, and a run at the creation of phadmin or at its password was blind if there was a password. From it:
  the theorems `SecretsAreUsable` and `ChosenPasswordIsKept` and those about everyone and the administrator. The places hold
  whatever instance types and images there are, since their steps come last.
* `ToolsProofs`, I (`ImageCache`): `CacheInv` has two parts. `CacheSound`: what is in the cache has its text file and is not
  broken, or a failure of its image was printed; this is why the text is uploaded first: a run that is killed between the
  two leaves a text without a tarball, which the next run repairs, and not the reverse. `RunSound`: a run has dealt with the
  entries before the one it is at, so that all it copies is ready, and all it has copied is whole or hidden. That an entry left
  out because it comes twice in its group is cached by its first occurrence is the lemma the argument turns on.
* `ToolsProofs`, II (`Postflight`): `RunInv` goes with a run from test to test. `ClusterPart`: as long as nobody edits the
  cluster, a run without an error has seen that what it looked at is as listed, and at the end of the lists that is all of it:
  a set of as many names with all of the list among them is the list. `DatasetPart`: a dataset that is in the way, or not there
  any more, is an error or due to another run. `ErrorPart`: whatever puts an error down is among the excuses, and the other way
  round for failed calls. `JobPart` is for the jobs: behind a run that has passed `jobs_testing` without an error there is its job (none in a community edition) and no other, but while the log of the GPU job is awaited. One lemma says that a step of one run leaves the part of another intact, since two that work at
  once each have the other as an excuse. `ListsAssumption`: no list names an entry twice, else its length would not be what the
  cluster must count.
* `ToolsProofs`, III and IV: for the downloader, a container past its download has a whole volume or is in `unseen`; for the
  notebooks (`LabInv`), the id of a deployment and the one a kernel holds are own ids, two students have one own id only when
  they run the notebook of one folder, and what a student owns is in the variable or forgotten, be it by a lost answer.
* `ToolsProofs`, V: `MCSpec` implies the specification of each of the four tools, since a step of the one leaves the
  variables of the others alone; so whatever is proved of a tool holds of what is model-checked, its types first (`ToolsTypes`).
* `PaginationProofs`: for every length of list and page, every place is on exactly one page, the line below the list
  names the places that are shown, the links of a page lead to other pages that exist, and the bar is what it is meant to
  be (`WindowIsRight`): by the three parts the code puts it together from, in the cases of a page near the front, near the
  end, and between.
* `AdminPageProofs`: the slices of `PaginationProofs` are about places, the properties about users. Between them is
  rank: in a strict total order of a finite set the ranks are the numbers from one to its size, each once
  (`RanksAreAll`), so as many users have their rank in a slice as the slice has places (`RanksOfSlice`). That the columns of a
  request which does not fail give such an order needs that `name` is always among them (`SortsAre`, through what `sorts.remove`
  leaves). `AdminInv` then says that the page on the screen is right for its request, and of a walk that nobody has
  disturbed that `seen` is exactly the users at the places up to the end of the present page, in the default order, and that
  nobody was seen twice. The order is the one without `running`: that is why servers may start and stop (`PlainOrderIs`).
  From it: `WalkComplete`, `LinksLead`, `PageTrue`, `AdminTypes`.
* `GroupUsageProofs`: `LabelInjective`, that no two names have one label, by reading a label from its end: the last code of it
  begins at its last byte, or at the dash two before, and no dash is among the last two bytes of what is before
  (`CodeDash`). So the pods counted for a group are its own that live (`ExistingAreOwn`), which is `UsageOwn`. For `MemoryKept`:
  each suffix is taken for no less than it is (`UnitNeverLess`), a sum of greater numbers is greater (`SumMonotone`), and
  so is its rounding (`TenthsMonotone`).

Each inductive invariant was checked by TLC on the instances of the runs before it was proved.

The sums, the labels and the ranks are recursions over sets and sequences. What is proved about them goes by two
lemmas of `PaginationProofs`: a set of numbers that is not empty has a least one (`LeastNumber`, from the library's theorem
that the strict subsets of a finite set are well-founded), and hence a set that has 0 and with each number the next is
`Nat` (`SetInduction`). The set is that of the numbers up to which the recursion has been followed; that the function
it defines exists is proved by the same lemmas (`SumExists`, `FlattenExists`, `CodeExists`), before anything is said about its values.

Only model-checked: `NeverWedged`, since liveness is out of the prover's reach, and the violations of the properties that
do not hold. No module uses a recursive operator.

## 5. Not modelled, and why

* What the repository only deploys (Keycloak, backend, controller and so on): their answers are
  modelled where the code in it uses them.
* Telemetry: the coroutine is created and never awaited.
* `StopSpawningHandler` beside a pending spawn: whether the old `pre_spawn_start` is cancelled is decided in
  JupyterHub, whose code is not here.
* Metacontroller hooks: functions of one resource, in jsonnet; who applies them is outside.
* Dataset upload, job runner, git clean-up and image build: short scripts whose behaviour is that of `mv`, `unzip`,
  a user's command, git-sync or a builder. Their hazards are listed, with no property.
* Training in the example notebooks, dry runs of the release, manifests, installation scripts, templates, example
  images, vendored charts.
* Wording, labels, sizes and annotations of a pod; parsing of environment variables of the form.
* The functions of `keycloak.inc` that the script does not call.
