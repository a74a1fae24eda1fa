----------------------------- MODULE ImageCache -----------------------------
(***************************************************************************)
(* The images of an air-gapped release.  A check of every commit looks for *)
(* the images that the charts use in the list of images                    *)
(* (check_airgap_images.py).  A release saves the images that are not in   *)
(* the cache and copies all of them to its own place (image-cache.py); all *)
(* releases share the cache.  A command of gsutil or of the generated      *)
(* script that fails is printed, and the run goes on.                      *)
(***************************************************************************)
EXTENDS Integers, Sequences

CONSTANTS
    Image,
    Latest,      \* images with the tag latest
    Ported,      \* images whose registry has a port: they do not split in two
    List,        \* images.yaml: a sequence of [group, image], group by group
    Commit,      \* commits: used, the images of the charts, and tagged
    Inside,      \* pairs of images: the text of the first is in the second's
    Release,     \* releases, by their places in the bucket
    Selected,    \* --copy-groups of each release
    MaxFaults    \* bound: commands that fail, runs that are killed

Entry == {List[k] : k \in DOMAIN List}

ASSUME ImageCacheAssumption ==
    /\ MaxFaults \in Nat
    /\ List \in Seq([group : {e.group : e \in Entry}, image : Image])
    /\ \A i \in Image : <<i, i>> \in Inside

VARIABLES
    commit,     \* what the check has looked at
    cached,     \* the tarball of each image in the cache
    labelled,   \* the images whose text file is there
    released,   \* the tarball of each entry in each release
    named,      \* the entries of each release whose text file is there
    work,       \* the run for each release: its step, entry, local tarball
    faults,
    hidden      \* history: the images of a command that failed, printed only

bucket == <<cached, labelled, released, named>>
cacheVars == <<commit, bucket, work, faults, hidden>>

Tarball == {"absent", "good", "broken"}
CacheSteps == {"idle", "stat", "save", "txt", "tgz", "copy", "copyTxt", "done", "failed"}

-----------------------------------------------------------------------------
(* The check of a commit.                                                  *)

\* Mutated form of Found: an image without a fixed version is not looked for.
FoundOrLatest(i) == i \in Latest \/ \E e \in Entry : <<i, e.image>> \in Inside

\* img in all_images: a search in the text of the list.
Found(i) == \E e \in Entry : <<i, e.image>> \in Inside

VersionsLocked == commit.tagged => \A e \in Entry : e.image \notin Latest

Checked == VersionsLocked /\ \A i \in commit.used : Found(i)

-----------------------------------------------------------------------------
(* The work of a run.                                                      *)

First(S) == CHOOSE n \in S : \A m \in S : n <= m

\* The entries that are copied: the groups that were asked for, no latest tag.
ToCopy(r, k) == List[k].group \in Selected[r] /\ List[k].image \notin Latest

\* Mutated form of ToCache: the groups are filtered by the copy alone.
ToCacheAnyGroup(r, k) ==
    \A j \in 1..(k - 1) : List[j].group = List[k].group => List[j].image # List[k].image

\* cache_urls: within a group an image is looked for once.
ToCache(r, k) ==
    /\ ToCopy(r, k)
    /\ \A j \in 1..(k - 1) : List[j].group = List[k].group => List[j].image # List[k].image

\* A group with an image that does not split is an error before its first one.
Refused(r, k) ==
    /\ List[k].group \in Selected[r]
    /\ \E e \in Entry : e.group = List[k].group /\ e.image \in Ported

Here(r) == List[work[r].at].image
At(r, step) == work[r].step = step

Go(r, step, k) == work' = [work EXCEPT ![r].step = step, ![r].at = k]

\* The first entry from k on that is to be copied.
Copying(r, k) ==
    LET rest == {n \in DOMAIN List : n >= k /\ ToCopy(r, n)}
    IN  IF rest = {} THEN Go(r, "done", 1) ELSE Go(r, "copy", First(rest))

\* The first entry from k on that is to be cached.
Caching(r, k) ==
    LET rest == {n \in DOMAIN List : n >= k /\ (ToCache(r, n) \/ Refused(r, n))}
    IN  IF rest = {} THEN Copying(r, 1)
        ELSE IF Refused(r, First(rest)) THEN Go(r, "failed", 1)
        ELSE Go(r, "stat", First(rest))

\* A command has failed, and nobody looks at its status.
Unseen(r) ==
    /\ faults < MaxFaults /\ faults' = faults + 1
    /\ hidden' = hidden \cup {Here(r)}

Fine == UNCHANGED <<faults, hidden>>

CacheInit ==
    /\ commit \in Commit
    /\ cached = [i \in Image |-> "absent"] /\ labelled = {}
    /\ released = [r \in Release |-> [k \in DOMAIN List |-> "absent"]]
    /\ named = [r \in Release |-> {}]
    /\ work = [r \in Release |-> [step |-> "idle", at |-> 1, local |-> "absent"]]
    /\ faults = 0 /\ hidden = {}

\* main, verify_tools.  A release may be run again.
Begin(r) ==
    /\ work[r].step \in {"idle", "failed", "done"}
    /\ Caching(r, 1)
    /\ Fine /\ UNCHANGED <<commit, bucket>>

\* Mutated form of Stat: the text file is looked for.
StatByText(r) ==
    /\ At(r, "stat")
    /\ IF Here(r) \notin labelled THEN Go(r, "save", work[r].at)
                                  ELSE Caching(r, work[r].at + 1)
    /\ Fine /\ UNCHANGED <<commit, bucket>>

\* cache_present: any other error than a missing object reads as present.
Stat(r) ==
    /\ At(r, "stat")
    /\ IF cached[Here(r)] = "absent" THEN Go(r, "save", work[r].at)
                                     ELSE Caching(r, work[r].at + 1)
    /\ Fine /\ UNCHANGED <<commit, bucket>>

StatFails(r) ==
    /\ At(r, "stat")
    /\ Caching(r, work[r].at + 1)
    /\ Unseen(r) /\ UNCHANGED <<commit, bucket>>

\* docker pull, docker save | gzip: without set -e what comes out is taken.
Save(r) ==
    /\ At(r, "save")
    /\ \/ work' = [work EXCEPT ![r].step = "txt", ![r].local = "good"] /\ Fine
       \/ work' = [work EXCEPT ![r].step = "txt", ![r].local = "broken"] /\ Unseen(r)
    /\ UNCHANGED <<commit, bucket>>

\* gsutil cp of the text file, then of the tarball.
UploadTxt(r) ==
    /\ At(r, "txt")
    /\ \/ labelled' = labelled \cup {Here(r)} /\ Fine
       \/ UNCHANGED labelled /\ Unseen(r)
    /\ Go(r, "tgz", work[r].at)
    /\ UNCHANGED <<commit, cached, released, named>>

UploadTgz(r) ==
    /\ At(r, "tgz")
    /\ \/ cached' = [cached EXCEPT ![Here(r)] = work[r].local] /\ Fine
       \/ UNCHANGED cached /\ Unseen(r)
    /\ Caching(r, work[r].at + 1)
    /\ UNCHANGED <<commit, labelled, released, named>>

\* copy_tarballs: what is not in the cache leaves the release as it was.
Copy(r) ==
    /\ At(r, "copy")
    /\ LET k == work[r].at
       IN  /\ \/ /\ released' = [released EXCEPT ![r][k] =
                       IF cached[Here(r)] = "absent" THEN @ ELSE cached[Here(r)]]
                 /\ Fine
              \/ UNCHANGED released /\ Unseen(r)
           /\ Go(r, "copyTxt", k)
    /\ UNCHANGED <<commit, cached, labelled, named>>

CopyTxt(r) ==
    /\ At(r, "copyTxt")
    /\ \/ /\ named' = [named EXCEPT ![r] =
                @ \cup (IF Here(r) \in labelled THEN {work[r].at} ELSE {})]
          /\ Fine
       \/ UNCHANGED named /\ Unseen(r)
    /\ Copying(r, work[r].at + 1)
    /\ UNCHANGED <<commit, cached, labelled, released>>

\* The machine is gone.
Killed(r) ==
    /\ work[r].step \notin {"idle", "done", "failed"}
    /\ faults < MaxFaults /\ faults' = faults + 1
    /\ Go(r, "failed", 1)
    /\ UNCHANGED <<commit, bucket, hidden>>

CacheNext ==
    \E r \in Release :
        \/ Begin(r) \/ Killed(r)
        \/ Stat(r) \/ StatFails(r) \/ Save(r) \/ UploadTxt(r) \/ UploadTgz(r)
        \/ Copy(r) \/ CopyTxt(r)

CacheSpec == CacheInit /\ [][CacheNext]_cacheVars

-----------------------------------------------------------------------------
(* Properties.                                                             *)

CacheTypeOK ==
    /\ commit \in Commit
    /\ cached \in [Image -> Tarball] /\ labelled \subseteq Image
    /\ released \in [Release -> [DOMAIN List -> Tarball]]
    /\ named \in [Release -> SUBSET DOMAIN List]
    /\ work \in [Release -> [step : CacheSteps, at : Nat, local : Tarball]]
    /\ \A r \in Release : work[r].step \notin {"idle", "done", "failed"} =>
          work[r].at \in DOMAIN List /\ ToCopy(r, work[r].at)
    /\ faults \in 0..MaxFaults /\ hidden \subseteq Image

InRelease(r, k) == released[r][k] = "good" /\ k \in named[r]

\* A run that came to its end has every image it was asked for in its release,
\* tarball and text file, whichever run put it in the cache and whatever runs
\* were killed on the way; only a failure that was printed may hide a hole.
ReleaseWhole ==
    \A r \in Release : At(r, "done") =>
        \A k \in DOMAIN List : ToCopy(r, k) => InRelease(r, k) \/ List[k].image \in hidden

OnlyInside(i) == \A e \in Entry : e.image # i
OnlyElsewhere(r, i) == \A e \in Entry : e.image = i => e.group \notin Selected[r]

\* The images that a checked, tagged commit uses are in the finished release.
\* It takes the name of the image, not just a longer one around it, and one of
\* the groups that are released: the check looks at neither.
UsedIsReleased ==
    \A r \in Release : At(r, "done") /\ Checked /\ commit.tagged =>
        \A i \in commit.used :
            \/ \E k \in DOMAIN List : List[k].image = i /\ InRelease(r, k)
            \/ i \in hidden
            \/ OnlyInside(i) /\ \E e \in Entry : <<i, e.image>> \in Inside
            \/ ~OnlyInside(i) /\ OnlyElsewhere(r, i)
=============================================================================
