---------------------------- MODULE ToolsProofs -----------------------------
(***************************************************************************)
(* What the tools around the system hide behind their success, and what    *)
(* they never do: the images of a release, the post-flight check, the      *)
(* downloader of a model and the example notebooks, each for every value   *)
(* of its constants, and at the end all of them side by side as they are   *)
(* model-checked.                                                          *)
(***************************************************************************)
EXTENDS MCTools, FiniteSetTheorems, WellFoundedInduction, TLAPS

-----------------------------------------------------------------------------
(***************************************************************************)
(* I. THE IMAGES OF A RELEASE                                              *)
(* Every finished release is whole, for every list of images, every set of *)
(* releases and of their groups, and any number of failures. The argument  *)
(* has two halves: what is in the cache is fit to be copied, or hidden by  *)
(* a failure (CacheSound), and each run has dealt with the entries before  *)
(* the one it is at (RunSound).                                            *)
(***************************************************************************)

\* An image is in the cache, or a failure hid that it is not.
Ready(i) == cached[i] # "absent" \/ i \in hidden
\* An entry is in the release, or a failure hid that it is not.
Whole(r, k) == InRelease(r, k) \/ List[k].image \in hidden

\* The steps of a run that fill the cache and the release, and the entries.
CachingSteps == {"stat", "save", "txt", "tgz"}
CopyingSteps == {"copy", "copyTxt"}
Entries == DOMAIN List

\* What is in the cache has its text file and is no wreck, or a failure hid it.
CacheSound ==
    \A i \in Image :
        /\ cached[i] # "absent" => i \in labelled \/ i \in hidden
        /\ cached[i] = "broken" => i \in hidden

\* What a run has behind it, and what it holds at its entry.
RunSound(r) ==
    /\ work[r].step \in CachingSteps =>
          \A j \in Entries : j < work[r].at /\ ToCache(r, j) => Ready(List[j].image)
    /\ work[r].step \in {"txt", "tgz"} =>
          /\ work[r].local # "absent"
          /\ work[r].local = "broken" => Here(r) \in hidden
    /\ work[r].step = "tgz" => Here(r) \in labelled \cup hidden
    /\ work[r].step \in CopyingSteps =>
          /\ \A k \in Entries : ToCopy(r, k) => Ready(List[k].image)
          /\ \A k \in Entries : k < work[r].at /\ ToCopy(r, k) => Whole(r, k)
    /\ work[r].step = "copyTxt" => released[r][work[r].at] = "good" \/ Here(r) \in hidden
    /\ work[r].step = "done" => \A k \in Entries : ToCopy(r, k) => Whole(r, k)

\* The inductive invariant.
CacheInv ==
    /\ CacheTypeOK
    /\ CacheSound
    /\ \A r \in Release : RunSound(r)

-----------------------------------------------------------------------------
(* The least of some numbers, and the entries of the list.                 *)

\* What a release looks at next, the first of the rest, exists.
LEMMA FirstIsLeast ==
    ASSUME NEW S, S \subseteq Nat, S # {}
    PROVE  First(S) \in S /\ \A m \in S : First(S) <= m
<1> DEFINE R == {ss \in Nat \X Nat : ss[1] < ss[2]}
<1>1. IsWellFoundedOn(R, Nat)
  <2>1. IsWellFoundedOn(OpToRel(<, Nat), Nat)
    BY NatLessThanWellFounded
  <2> QED
    BY <2>1 DEF OpToRel
<1> HIDE DEF R
<1>2. PICK x \in S : \A y \in S : ~(<<y, x>> \in R)
  BY <1>1, WFMin
<1>3. ASSUME NEW y \in S, y < x
      PROVE  FALSE
  <2>1. <<y, x>> \in Nat \X Nat /\ <<y, x>>[1] < <<y, x>>[2]
    BY <1>3
  <2>2. <<y, x>> \in R
    BY <2>1, Zenon DEF R
  <2> QED
    BY <2>2, <1>2
<1>4. \A y \in S : x <= y
  BY <1>3
<1> QED
  BY <1>4 DEF First

LEMMA EntryFacts ==
    ASSUME NEW k \in Entries
    PROVE  /\ k \in Nat \ {0}
           /\ List[k].image \in Image
           /\ \A j \in 1..(k - 1) : j \in Entries
<1> DEFINE E == [group : {e.group : e \in Entry}, image : Image]
<1>1. List \in Seq(E)
  BY ImageCacheAssumption
<1> HIDE DEF E
<1>2. Entries = 1..Len(List) /\ Len(List) \in Nat /\ List[k] \in E
  BY <1>1 DEF Entries
<1>3. k \in Nat \ {0} /\ \A j \in 1..(k - 1) : j \in Entries
  BY <1>2
<1>4. List[k].image \in Image
  BY <1>2 DEF E
<1> QED
  BY <1>3, <1>4

\* An entry that is copied has an entry before it, or is one, that was cached.
LEMMA CopiedIsCached ==
    ASSUME NEW r \in Release, NEW k \in Entries, ToCopy(r, k)
    PROVE  \E j \in Entries : ToCache(r, j) /\ List[j].image = List[k].image
<1> DEFINE Same == {j \in Entries : List[j].group = List[k].group /\ List[j].image = List[k].image}
           f == First(Same)
<1>1. Same \subseteq Nat /\ k \in Same
  BY EntryFacts
<1>2. f \in Same /\ \A m \in Same : f <= m
  BY <1>1, FirstIsLeast
<1>3. ToCopy(r, f)
  BY <1>2 DEF ToCopy
<1>4. ASSUME NEW j \in 1..(f - 1), List[j].group = List[f].group
      PROVE  List[j].image # List[f].image
  <2>1. f \in Nat \ {0} /\ j \in Entries
    BY <1>2, <1>4, EntryFacts
  <2>2. j \notin Same
    <3> HIDE DEF f
    <3> QED
      BY <1>2, <2>1
  <2> QED
    BY <1>2, <1>4, <2>1, <2>2
<1>5. ToCache(r, f)
  BY <1>3, <1>4 DEF ToCache
<1> QED
  BY <1>2, <1>5

-----------------------------------------------------------------------------
(* Where a run goes next.                                                  *)

NoneToCopy(r, k) == \A n \in Entries : n >= k => ~ToCopy(r, n)

\* The next entry that is copied, or the end.
LEMMA CopyingGoes ==
    ASSUME NEW r \in Release, NEW k \in Nat, Copying(r, k)
    PROVE  \/ Go(r, "done", 1) /\ NoneToCopy(r, k)
           \/ \E n \in Entries :
                 /\ n >= k /\ ToCopy(r, n) /\ Go(r, "copy", n)
                 /\ \A j \in Entries : j >= k /\ j < n => ~ToCopy(r, j)
<1> DEFINE rest == {n \in Entries : n >= k /\ ToCopy(r, n)}
<1>1. CASE rest = {}
  BY <1>1 DEF Copying, NoneToCopy, Entries
<1>2. CASE rest # {}
  <2>1. rest \subseteq Nat
    BY EntryFacts
  <2>2. First(rest) \in rest /\ \A m \in rest : First(rest) <= m
    BY <1>2, <2>1, FirstIsLeast
  <2>3. Go(r, "copy", First(rest))
    BY <1>2 DEF Copying, Entries
  <2>4. ASSUME NEW j \in Entries, j >= k, j < First(rest)
        PROVE  ~ToCopy(r, j)
    <3>1. First(rest) \in Nat /\ j \in Nat
      BY <2>1, <2>2, EntryFacts
    <3>2. j \notin rest
      BY <2>2, <2>4, <3>1
    <3> QED
      BY <2>4, <3>2
  <2> QED
    BY <2>2, <2>3, <2>4
<1> QED
  BY <1>1, <1>2

\* The next entry that is cached, an error, or the copying.
LEMMA CachingGoes ==
    ASSUME NEW r \in Release, NEW k \in Nat, Caching(r, k)
    PROVE  \/ Go(r, "failed", 1)
           \/ Copying(r, 1) /\ \A j \in Entries : j >= k => ~ToCache(r, j)
           \/ \E n \in Entries :
                 /\ ToCache(r, n) /\ Go(r, "stat", n)
                 /\ \A j \in Entries : j >= k /\ j < n => ~ToCache(r, j)
<1> DEFINE rest == {n \in Entries : n >= k /\ (ToCache(r, n) \/ Refused(r, n))}
<1>1. CASE rest = {}
  BY <1>1 DEF Caching, Entries
<1>2. CASE rest # {}
  <2>1. rest \subseteq Nat
    BY EntryFacts
  <2>2. First(rest) \in rest /\ \A m \in rest : First(rest) <= m
    BY <1>2, <2>1, FirstIsLeast
  <2>3. IF Refused(r, First(rest)) THEN Go(r, "failed", 1) ELSE Go(r, "stat", First(rest))
    BY <1>2 DEF Caching, Entries
  <2>4. ASSUME NEW j \in Entries, j >= k, j < First(rest)
        PROVE  ~ToCache(r, j)
    <3>1. First(rest) \in Nat /\ j \in Nat
      BY <2>1, <2>2, EntryFacts
    <3>2. j \notin rest
      BY <2>2, <2>4, <3>1
    <3> QED
      BY <2>4, <3>2
  <2> QED
    BY <2>2, <2>3, <2>4
<1> QED
  BY <1>1, <1>2

-----------------------------------------------------------------------------
(* Types.                                                                  *)

\* Where a run is: at an entry that is copied, while it works.
Placed(w, r) ==
    /\ w \in [step : CacheSteps, at : Nat, local : Tarball]
    /\ w.step \notin {"idle", "done", "failed"} => w.at \in Entries /\ ToCopy(r, w.at)

LEMMA GoPlaces ==
    ASSUME CacheTypeOK, NEW r \in Release, NEW s \in CacheSteps, NEW k \in Nat, Go(r, s, k),
           s \in {"idle", "done", "failed"} \/ (k \in Entries /\ ToCopy(r, k))
    PROVE  /\ work' \in [Release -> [step : CacheSteps, at : Nat, local : Tarball]]
           /\ \A q \in Release : Placed(work'[q], q)
           /\ work'[r].step = s /\ work'[r].at = k /\ work'[r].local = work[r].local
           /\ \A q \in Release \ {r} : work'[q] = work[q]
BY DEF CacheTypeOK, Go, Placed, Entries

LEMMA CopyingPlaces ==
    ASSUME CacheTypeOK, NEW r \in Release, NEW k \in Nat, Copying(r, k)
    PROVE  /\ work' \in [Release -> [step : CacheSteps, at : Nat, local : Tarball]]
           /\ \A q \in Release : Placed(work'[q], q)
           /\ \A q \in Release \ {r} : work'[q] = work[q]
<1>1. CASE Go(r, "done", 1)
  <2>1. "done" \in CacheSteps
    BY DEF CacheSteps
  <2> QED
    BY <1>1, <2>1, GoPlaces
<1>2. CASE \E n \in Entries : ToCopy(r, n) /\ Go(r, "copy", n)
  <2>1. PICK n \in Entries : ToCopy(r, n) /\ Go(r, "copy", n)
    BY <1>2
  <2>2. n \in Nat /\ "copy" \in CacheSteps
    BY EntryFacts DEF CacheSteps
  <2> QED
    BY <2>1, <2>2, GoPlaces
<1> QED
  BY <1>1, <1>2, CopyingGoes

LEMMA CachingPlaces ==
    ASSUME CacheTypeOK, NEW r \in Release, NEW k \in Nat, Caching(r, k)
    PROVE  /\ work' \in [Release -> [step : CacheSteps, at : Nat, local : Tarball]]
           /\ \A q \in Release : Placed(work'[q], q)
           /\ \A q \in Release \ {r} : work'[q] = work[q]
<1>1. CASE Go(r, "failed", 1)
  <2>1. "failed" \in CacheSteps
    BY DEF CacheSteps
  <2> QED
    BY <1>1, <2>1, GoPlaces
<1>2. CASE Copying(r, 1)
  BY <1>2, CopyingPlaces
<1>3. CASE \E n \in Entries : ToCache(r, n) /\ Go(r, "stat", n)
  <2>1. PICK n \in Entries : ToCache(r, n) /\ Go(r, "stat", n)
    BY <1>3
  <2>2. n \in Nat /\ "stat" \in CacheSteps /\ ToCopy(r, n)
    BY <2>1, EntryFacts DEF CacheSteps, ToCache
  <2> QED
    BY <2>1, <2>2, GoPlaces
<1> QED
  BY <1>1, <1>2, <1>3, CachingGoes

LEMMA HereIsImage ==
    ASSUME CacheTypeOK, NEW r \in Release, work[r].step \notin {"idle", "done", "failed"}
    PROVE  /\ Here(r) \in Image
           /\ work[r].at \in Entries /\ work[r].at \in Nat \ {0} /\ ToCopy(r, work[r].at)
BY EntryFacts DEF CacheTypeOK, Here, Entries

\* The type invariant but for the place of each run.
LEMMA RestOfTypes ==
    ASSUME CacheTypeOK, UNCHANGED commit,
           work' \in [Release -> [step : CacheSteps, at : Nat, local : Tarball]],
           \A q \in Release : Placed(work'[q], q),
           cached' \in [Image -> Tarball], labelled' \subseteq Image,
           released' \in [Release -> [DOMAIN List -> Tarball]],
           named' \in [Release -> SUBSET DOMAIN List],
           faults' \in 0..MaxFaults, hidden' \subseteq Image
    PROVE  CacheTypeOK'
BY DEF CacheTypeOK, Placed, Entries

LEMMA EntryUpdate ==
    ASSUME NEW A, NEW B, NEW C, NEW f \in [A -> [B -> C]],
           NEW a \in A, NEW b \in B, NEW x \in C
    PROVE  [f EXCEPT ![a][b] = x] \in [A -> [B -> C]]
<1>1. f[a] \in [B -> C]
  OBVIOUS
<1>2. [f[a] EXCEPT ![b] = x] \in [B -> C]
  BY <1>1
<1>3. [f EXCEPT ![a][b] = x] = [f EXCEPT ![a] = [f[a] EXCEPT ![b] = x]]
  OBVIOUS
<1> QED
  BY <1>2, <1>3

\* A step keeps the types.
LEMMA StepTypes ==
    ASSUME CacheTypeOK, [CacheNext]_cacheVars
    PROVE  CacheTypeOK'
<1> USE ImageCacheAssumption
<1>1. CASE UNCHANGED cacheVars
  BY <1>1 DEF CacheTypeOK, cacheVars, bucket
<1> SUFFICES ASSUME NEW r \in Release,
                    \/ Begin(r) \/ Killed(r)
                    \/ Stat(r) \/ StatFails(r) \/ Save(r) \/ UploadTxt(r) \/ UploadTgz(r)
                    \/ Copy(r) \/ CopyTxt(r)
             PROVE  CacheTypeOK'
  BY <1>1 DEF CacheNext
<1>2. ASSUME Fine \/ Unseen(r), work[r].step \notin {"idle", "done", "failed"}
      PROVE  faults' \in 0..MaxFaults /\ hidden' \subseteq Image
  BY <1>2, HereIsImage DEF Fine, Unseen, CacheTypeOK
<1>3. work[r].at \in Nat
  BY DEF CacheTypeOK
<1>4. CASE Begin(r)
  <2>1. faults' \in 0..MaxFaults /\ hidden' \subseteq Image
    BY <1>4 DEF Begin, Fine, CacheTypeOK
  <2> QED
    BY <1>4, <2>1, CachingPlaces, RestOfTypes DEF Begin, bucket, CacheTypeOK
<1>5. CASE Killed(r)
  <2>1. faults' \in 0..MaxFaults /\ hidden' \subseteq Image
    BY <1>5 DEF Killed, CacheTypeOK
  <2>2. "failed" \in CacheSteps
    BY DEF CacheSteps
  <2> QED
    BY <1>5, <2>1, <2>2, GoPlaces, RestOfTypes DEF Killed, bucket, CacheTypeOK
<1>6. CASE Stat(r) \/ StatFails(r)
  <2>1. faults' \in 0..MaxFaults /\ hidden' \subseteq Image
    BY <1>6, <1>2 DEF Stat, StatFails, At
  <2>2. /\ work' \in [Release -> [step : CacheSteps, at : Nat, local : Tarball]]
        /\ \A q \in Release : Placed(work'[q], q)
    <3>1. CASE Go(r, "save", work[r].at) /\ At(r, "stat")
      <4>1. "save" \in CacheSteps
        BY DEF CacheSteps
      <4> QED
        BY <3>1, <4>1, HereIsImage, GoPlaces DEF At
    <3>2. CASE Caching(r, work[r].at + 1)
      BY <1>3, <3>2, CachingPlaces
    <3> QED
      BY <1>6, <3>1, <3>2 DEF Stat, StatFails
  <2> QED
    BY <1>6, <2>1, <2>2, RestOfTypes DEF Stat, StatFails, bucket, CacheTypeOK
<1>7. CASE Save(r)
  <2>1. faults' \in 0..MaxFaults /\ hidden' \subseteq Image
    BY <1>7, <1>2 DEF Save, At
  <2>2. /\ work' \in [Release -> [step : CacheSteps, at : Nat, local : Tarball]]
        /\ \A q \in Release : Placed(work'[q], q)
    <3>1. PICK l \in Tarball : work' = [work EXCEPT ![r].step = "txt", ![r].local = l]
      BY <1>7 DEF Save, Tarball
    <3>2. "txt" \in CacheSteps /\ work[r].at \in Entries /\ ToCopy(r, work[r].at)
      BY <1>7, HereIsImage DEF Save, At, CacheSteps
    <3>3. /\ work \in [Release -> [step : CacheSteps, at : Nat, local : Tarball]]
          /\ \A q \in Release : Placed(work[q], q)
      BY DEF CacheTypeOK, Placed, Entries
    <3>4. \A q \in Release \ {r} : work'[q] = work[q]
      BY <3>1, <3>3
    <3>5. work'[r] = [step |-> "txt", at |-> work[r].at, local |-> l]
      BY <3>1, <3>3
    <3> QED
      BY <3>1, <3>2, <3>3, <3>4, <3>5 DEF Placed
  <2> QED
    BY <1>7, <2>1, <2>2, RestOfTypes DEF Save, bucket, CacheTypeOK
<1>8. CASE UploadTxt(r)
  <2>1. faults' \in 0..MaxFaults /\ hidden' \subseteq Image
    BY <1>8, <1>2 DEF UploadTxt, At
  <2>2. "tgz" \in CacheSteps /\ labelled' \subseteq Image
    BY <1>8, HereIsImage DEF CacheSteps, UploadTxt, At, CacheTypeOK
  <2>3. /\ work' \in [Release -> [step : CacheSteps, at : Nat, local : Tarball]]
        /\ \A q \in Release : Placed(work'[q], q)
    BY <1>8, <2>2, HereIsImage, GoPlaces DEF UploadTxt, At
  <2> QED
    BY <1>8, <2>1, <2>2, <2>3, RestOfTypes DEF UploadTxt, CacheTypeOK
<1>9. CASE UploadTgz(r)
  <2>1. faults' \in 0..MaxFaults /\ hidden' \subseteq Image
    BY <1>9, <1>2 DEF UploadTgz, At
  <2>2. cached' \in [Image -> Tarball]
    BY <1>9, HereIsImage DEF UploadTgz, At, CacheTypeOK
  <2>3. Caching(r, work[r].at + 1)
    BY <1>9 DEF UploadTgz
  <2>4. /\ work' \in [Release -> [step : CacheSteps, at : Nat, local : Tarball]]
        /\ \A q \in Release : Placed(work'[q], q)
    BY <1>3, <2>3, CachingPlaces
  <2> QED
    BY <1>9, <2>1, <2>2, <2>4, RestOfTypes DEF UploadTgz, CacheTypeOK
<1>10. CASE Copy(r)
  <2>1. faults' \in 0..MaxFaults /\ hidden' \subseteq Image
    BY <1>10, <1>2 DEF Copy, At
  <2>2. "copyTxt" \in CacheSteps
    BY DEF CacheSteps
  <2>3. cached[Here(r)] \in Tarball /\ work[r].at \in DOMAIN List
    BY <1>10, HereIsImage DEF Copy, At, CacheTypeOK, Entries
  <2>4. released' \in [Release -> [DOMAIN List -> Tarball]]
    <3> DEFINE x == IF cached[Here(r)] = "absent" THEN released[r][work[r].at]
                                                  ELSE cached[Here(r)]
    <3>1. released' = [released EXCEPT ![r][work[r].at] = x] \/ UNCHANGED released
      BY <1>10, Zenon DEF Copy
    <3>2. released \in [Release -> [DOMAIN List -> Tarball]]
      BY DEF CacheTypeOK
    <3>3. x \in Tarball
      BY <2>3, <3>2
    <3> HIDE DEF x
    <3>4. CASE UNCHANGED released
      BY <3>2, <3>4
    <3>5. CASE released' = [released EXCEPT ![r][work[r].at] = x]
      <4>1. work[r].at \in DOMAIN List
        BY <2>3
      <4> HIDE DEF Tarball
      <4> QED
        BY <4>1, <3>2, <3>3, <3>5, EntryUpdate
    <3> QED
      BY <3>1, <3>4, <3>5
  <2>5. /\ work' \in [Release -> [step : CacheSteps, at : Nat, local : Tarball]]
        /\ \A q \in Release : Placed(work'[q], q)
    BY <1>10, <2>2, HereIsImage, GoPlaces DEF Copy, At
  <2> QED
    BY <1>10, <2>1, <2>4, <2>5, RestOfTypes DEF Copy, CacheTypeOK
<1>11. CASE CopyTxt(r)
  <2>1. faults' \in 0..MaxFaults /\ hidden' \subseteq Image
    BY <1>11, <1>2 DEF CopyTxt, At
  <2>2. work[r].at \in DOMAIN List
    BY <1>11, HereIsImage DEF CopyTxt, At, Entries
  <2>3. named' \in [Release -> SUBSET DOMAIN List]
    BY <1>11, <2>2 DEF CopyTxt, CacheTypeOK
  <2>4. Copying(r, work[r].at + 1)
    BY <1>11 DEF CopyTxt
  <2>5. /\ work' \in [Release -> [step : CacheSteps, at : Nat, local : Tarball]]
        /\ \A q \in Release : Placed(work'[q], q)
    BY <1>3, <2>4, CopyingPlaces
  <2> QED
    BY <1>11, <2>1, <2>3, <2>5, RestOfTypes DEF CopyTxt, CacheTypeOK
<1> QED
  BY <1>4, <1>5, <1>6, <1>7, <1>8, <1>9, <1>10, <1>11

-----------------------------------------------------------------------------
(* The invariant.                                                          *)

\* What no step of a run takes back, and what it leaves to the others.
Keeps(r) ==
    /\ hidden \subseteq hidden' /\ labelled \subseteq labelled'
    /\ \A i \in Image : cached[i] # "absent" => cached'[i] # "absent"
    /\ \A q \in Release : named[q] \subseteq named'[q]
    /\ \A q \in Release \ {r} : work'[q] = work[q] /\ released'[q] = released[q]

LEMMA ReadyStays ==
    ASSUME NEW r, Keeps(r), NEW i \in Image, Ready(i)
    PROVE  Ready(i)'
BY DEF Keeps, Ready

\* Other runs go on where they are.
LEMMA OthersSound ==
    ASSUME CacheInv, NEW r \in Release, Keeps(r), NEW q \in Release, q # r
    PROVE  RunSound(q)'
<1>1. work'[q] = work[q] /\ released'[q] = released[q] /\ named[q] \subseteq named'[q]
  BY DEF Keeps
<1>2. hidden \subseteq hidden' /\ labelled \subseteq labelled'
  BY DEF Keeps
<1>3. \A k \in Entries : Ready(List[k].image) => Ready(List[k].image)'
  BY ReadyStays, EntryFacts
<1>4. \A k \in Entries : Whole(q, k) => Whole(q, k)'
  BY <1>1, <1>2 DEF Whole, InRelease
<1>5. Here(q)' = Here(q)
  BY <1>1 DEF Here
<1>6. RunSound(q)
  BY DEF CacheInv
<1> QED
  BY <1>1, <1>2, <1>3, <1>4, <1>5, <1>6 DEF RunSound

\* A run that has copied all before k goes on with the copying.
LEMMA CopyingSound ==
    ASSUME CacheTypeOK, NEW r \in Release, NEW k \in Nat, Copying(r, k),
           \A n \in Entries : ToCopy(r, n) => Ready(List[n].image)',
           \A n \in Entries : n < k /\ ToCopy(r, n) => Whole(r, n)'
    PROVE  RunSound(r)'
<1>1. CASE Go(r, "done", 1) /\ NoneToCopy(r, k)
  <2>1. work'[r].step = "done"
    BY <1>1 DEF CacheTypeOK, Go
  <2>2. \A n \in Entries : ToCopy(r, n) => n < k
    BY <1>1, EntryFacts DEF NoneToCopy
  <2> QED
    BY <2>1, <2>2 DEF RunSound, CachingSteps, CopyingSteps
<1>2. CASE \E n \in Entries :
              /\ n >= k /\ ToCopy(r, n) /\ Go(r, "copy", n)
              /\ \A j \in Entries : j >= k /\ j < n => ~ToCopy(r, j)
  <2>1. PICK n \in Entries :
              /\ n >= k /\ ToCopy(r, n) /\ Go(r, "copy", n)
              /\ \A j \in Entries : j >= k /\ j < n => ~ToCopy(r, j)
    BY <1>2
  <2>2. work'[r].step = "copy" /\ work'[r].at = n
    BY <2>1 DEF CacheTypeOK, Go
  <2>3. \A j \in Entries : j < n /\ ToCopy(r, j) => j < k
    BY <2>1, EntryFacts
  <2> QED
    BY <2>2, <2>3 DEF RunSound, CachingSteps, CopyingSteps
<1> QED
  BY <1>1, <1>2, CopyingGoes

\* A run that has cached all before k goes on with the caching, or turns to the
\* copying of what is then all there.
LEMMA CachingSound ==
    ASSUME CacheTypeOK, NEW r \in Release, NEW k \in Nat, Caching(r, k),
           \A j \in Entries : j < k /\ ToCache(r, j) => Ready(List[j].image)'
    PROVE  RunSound(r)'
<1>1. CASE Go(r, "failed", 1)
  <2>1. work'[r].step = "failed"
    BY <1>1 DEF CacheTypeOK, Go
  <2> QED
    BY <2>1 DEF RunSound, CachingSteps, CopyingSteps
<1>2. CASE Copying(r, 1) /\ \A j \in Entries : j >= k => ~ToCache(r, j)
  <2>1. \A j \in Entries : ToCache(r, j) => Ready(List[j].image)'
    BY <1>2, EntryFacts
  <2>2. ASSUME NEW n \in Entries, ToCopy(r, n)
        PROVE  Ready(List[n].image)'
    <3>1. PICK j \in Entries : ToCache(r, j) /\ List[j].image = List[n].image
      BY <2>2, CopiedIsCached
    <3>2. Ready(List[j].image)'
      BY <2>1, <3>1
    <3> QED
      BY <3>1, <3>2
  <2>3. \A n \in Entries : ~(n < 1)
    BY EntryFacts
  <2> QED
    BY <1>2, <2>2, <2>3, CopyingSound
<1>3. CASE \E n \in Entries :
              /\ ToCache(r, n) /\ Go(r, "stat", n)
              /\ \A j \in Entries : j >= k /\ j < n => ~ToCache(r, j)
  <2>1. PICK n \in Entries :
              /\ ToCache(r, n) /\ Go(r, "stat", n)
              /\ \A j \in Entries : j >= k /\ j < n => ~ToCache(r, j)
    BY <1>3
  <2>2. work'[r].step = "stat" /\ work'[r].at = n
    BY <2>1 DEF CacheTypeOK, Go
  <2>3. \A j \in Entries : j < n /\ ToCache(r, j) => j < k
    BY <2>1, EntryFacts
  <2> QED
    BY <2>2, <2>3 DEF RunSound, CachingSteps, CopyingSteps
<1> QED
  BY <1>1, <1>2, <1>3, CachingGoes

\* Once its entry is ready, all up to it are.
LEMMA ReadyUpTo ==
    ASSUME CacheInv, NEW r \in Release, Keeps(r), work[r].step \in CachingSteps,
           NEW i \in Image, i = Here(r), Ready(i)'
    PROVE  \A j \in Entries : j < work[r].at + 1 /\ ToCache(r, j) => Ready(List[j].image)'
<1>0. work[r].step \notin {"idle", "done", "failed"} /\ CacheTypeOK
  BY DEF CachingSteps, CacheInv
<1>1. work[r].at \in Nat \ {0}
  BY <1>0, HereIsImage
<1> SUFFICES ASSUME NEW j \in Entries, j < work[r].at + 1, ToCache(r, j)
             PROVE  Ready(List[j].image)'
  OBVIOUS
<1>2. j \in Nat
  BY EntryFacts
<1>3. CASE j < work[r].at
  <2>1. Ready(List[j].image)
    BY <1>3 DEF CacheInv, RunSound
  <2> QED
    BY <2>1, ReadyStays, EntryFacts
<1>4. CASE j = work[r].at
  BY <1>4 DEF Here
<1> QED
  BY <1>1, <1>2, <1>3, <1>4

\* The start of a run, and a run that is killed.
LEMMA BeginSound ==
    ASSUME CacheInv, NEW r \in Release, Begin(r)
    PROVE  Keeps(r) /\ CacheSound' /\ RunSound(r)'
<1>0. CacheTypeOK /\ CacheSound
  BY DEF CacheInv
<1>1. Caching(r, 1) /\ UNCHANGED <<bucket, hidden>>
  BY DEF Begin, Fine
<1>2. Keeps(r)
  BY <1>0, <1>1, CachingPlaces DEF Keeps, bucket
<1>3. CacheSound'
  BY <1>0, <1>1 DEF CacheSound, bucket
<1>4. \A j \in Entries : ~(j < 1)
  BY EntryFacts
<1> QED
  BY <1>0, <1>1, <1>2, <1>3, <1>4, CachingSound

LEMMA KilledSound ==
    ASSUME CacheInv, NEW r \in Release, Killed(r)
    PROVE  Keeps(r) /\ CacheSound' /\ RunSound(r)'
<1>0. CacheTypeOK /\ CacheSound
  BY DEF CacheInv
<1>1. Go(r, "failed", 1) /\ UNCHANGED <<bucket, hidden>>
  BY DEF Killed
<1>2. work'[r].step = "failed" /\ \A q \in Release \ {r} : work'[q] = work[q]
  BY <1>0, <1>1 DEF Go, CacheTypeOK
<1> QED
  BY <1>0, <1>1, <1>2 DEF Keeps, CacheSound, RunSound, bucket, CachingSteps, CopyingSteps

\* An image that is there is not fetched, one that nobody could ask for is hidden.
LEMMA StatSound ==
    ASSUME CacheInv, NEW r \in Release, Stat(r) \/ StatFails(r)
    PROVE  Keeps(r) /\ CacheSound' /\ RunSound(r)'
<1>0. CacheTypeOK /\ CacheSound
  BY DEF CacheInv
<1>1. work[r].step = "stat" /\ UNCHANGED bucket /\ hidden \subseteq hidden'
  BY DEF Stat, StatFails, At, Fine, Unseen
<1>2. work[r].at \in Nat /\ Here(r) \in Image
  BY <1>0, <1>1, HereIsImage
<1>3. CacheSound'
  BY <1>0, <1>1 DEF CacheSound, bucket
<1>4. CASE Go(r, "save", work[r].at)
  <2>1. /\ work'[r].step = "save" /\ work'[r].at = work[r].at
        /\ \A q \in Release \ {r} : work'[q] = work[q]
    BY <1>0, <1>4 DEF Go, CacheTypeOK
  <2>2. Keeps(r)
    BY <1>1, <2>1 DEF Keeps, bucket
  <2>3. \A j \in Entries : j < work[r].at /\ ToCache(r, j) => Ready(List[j].image)
    BY <1>1 DEF CacheInv, RunSound, CachingSteps
  <2>4. \A j \in Entries : j < work[r].at /\ ToCache(r, j) => Ready(List[j].image)'
    BY <2>2, <2>3, ReadyStays, EntryFacts
  <2> QED
    BY <1>3, <2>1, <2>2, <2>4 DEF RunSound, CopyingSteps
<1>5. CASE Caching(r, work[r].at + 1)
           /\ (cached[Here(r)] # "absent" \/ Here(r) \in hidden')
  <2>1. \A q \in Release \ {r} : work'[q] = work[q]
    BY <1>0, <1>2, <1>5, CachingPlaces
  <2>2. Keeps(r)
    BY <1>1, <2>1 DEF Keeps, bucket
  <2>3. PICK i \in Image : i = Here(r)
    BY <1>2
  <2>4. Ready(i)'
    BY <1>1, <1>5, <2>3 DEF Ready, bucket
  <2>5. \A j \in Entries : j < work[r].at + 1 /\ ToCache(r, j) => Ready(List[j].image)'
    BY <1>1, <2>2, <2>3, <2>4, ReadyUpTo DEF CachingSteps
  <2>6. PICK n \in Nat : n = work[r].at + 1
    BY <1>2
  <2> QED
    BY <1>0, <1>3, <1>5, <2>2, <2>5, <2>6, CachingSound
<1> QED
  BY <1>4, <1>5 DEF Stat, StatFails, Unseen

\* What comes out of the script is whole, or its failure hides it.
LEMMA SaveSound ==
    ASSUME CacheInv, NEW r \in Release, Save(r)
    PROVE  Keeps(r) /\ CacheSound' /\ RunSound(r)'
<1>0. CacheTypeOK /\ CacheSound
  BY DEF CacheInv
<1>1. work[r].step = "save" /\ UNCHANGED bucket /\ hidden \subseteq hidden'
  BY DEF Save, At, Fine, Unseen
<1>2. /\ work'[r].step = "txt" /\ work'[r].at = work[r].at
      /\ \A q \in Release \ {r} : work'[q] = work[q]
      /\ \/ work'[r].local = "good"
         \/ work'[r].local = "broken" /\ Here(r) \in hidden'
  BY <1>0 DEF Save, Unseen, CacheTypeOK
<1>3. Keeps(r)
  BY <1>1, <1>2 DEF Keeps, bucket
<1>4. CacheSound'
  BY <1>0, <1>1 DEF CacheSound, bucket
<1>5. \A j \in Entries : j < work[r].at /\ ToCache(r, j) => Ready(List[j].image)
  BY <1>1 DEF CacheInv, RunSound, CachingSteps
<1>6. \A j \in Entries : j < work[r].at /\ ToCache(r, j) => Ready(List[j].image)'
  BY <1>3, <1>5, ReadyStays, EntryFacts
<1>7. Here(r)' = Here(r)
  BY <1>2 DEF Here
<1> QED
  BY <1>2, <1>3, <1>4, <1>6, <1>7 DEF RunSound, CopyingSteps

\* The text file comes first: the tarball is never there alone.
LEMMA UploadTxtSound ==
    ASSUME CacheInv, NEW r \in Release, UploadTxt(r)
    PROVE  Keeps(r) /\ CacheSound' /\ RunSound(r)'
<1>0. CacheTypeOK /\ CacheSound
  BY DEF CacheInv
<1>1. /\ work[r].step = "txt" /\ hidden \subseteq hidden' /\ labelled \subseteq labelled'
      /\ UNCHANGED <<cached, released, named>> /\ Go(r, "tgz", work[r].at)
      /\ Here(r) \in labelled' \cup hidden'
  BY DEF UploadTxt, At, Fine, Unseen
<1>2. /\ work'[r].step = "tgz" /\ work'[r].at = work[r].at /\ work'[r].local = work[r].local
      /\ \A q \in Release \ {r} : work'[q] = work[q]
  BY <1>0, <1>1 DEF Go, CacheTypeOK
<1>3. Keeps(r)
  BY <1>1, <1>2 DEF Keeps
<1>4. CacheSound'
  BY <1>0, <1>1 DEF CacheSound
<1>5. /\ \A j \in Entries : j < work[r].at /\ ToCache(r, j) => Ready(List[j].image)
      /\ work[r].local # "absent"
      /\ work[r].local = "broken" => Here(r) \in hidden
  BY <1>1 DEF CacheInv, RunSound, CachingSteps
<1>6. \A j \in Entries : j < work[r].at /\ ToCache(r, j) => Ready(List[j].image)'
  BY <1>3, <1>5, ReadyStays, EntryFacts
<1>7. Here(r)' = Here(r)
  BY <1>2 DEF Here
<1> QED
  BY <1>1, <1>2, <1>3, <1>4, <1>5, <1>6, <1>7 DEF RunSound, CopyingSteps

LEMMA UploadTgzSound ==
    ASSUME CacheInv, NEW r \in Release, UploadTgz(r)
    PROVE  Keeps(r) /\ CacheSound' /\ RunSound(r)'
<1>0. CacheTypeOK /\ CacheSound
  BY DEF CacheInv
<1>1. /\ work[r].step = "tgz" /\ hidden \subseteq hidden'
      /\ UNCHANGED <<labelled, released, named>> /\ Caching(r, work[r].at + 1)
      /\ \/ cached' = [cached EXCEPT ![Here(r)] = work[r].local]
         \/ UNCHANGED cached /\ Here(r) \in hidden'
  BY DEF UploadTgz, At, Fine, Unseen
<1>2. work[r].at \in Nat /\ Here(r) \in Image
  BY <1>0, <1>1, HereIsImage
<1>3. /\ work[r].local # "absent"
      /\ work[r].local = "broken" => Here(r) \in hidden
      /\ Here(r) \in labelled \cup hidden
  BY <1>1 DEF CacheInv, RunSound
<1>4. \A q \in Release \ {r} : work'[q] = work[q]
  BY <1>0, <1>1, <1>2, CachingPlaces
<1>5. \A i \in Image : cached[i] # "absent" => cached'[i] # "absent"
  BY <1>0, <1>1, <1>3 DEF CacheTypeOK
<1>6. Keeps(r)
  BY <1>1, <1>4, <1>5 DEF Keeps
<1>7. CacheSound'
  BY <1>0, <1>1, <1>2, <1>3 DEF CacheSound, CacheTypeOK
<1>8. PICK i \in Image : i = Here(r)
  BY <1>2
<1>9. Ready(i)'
  BY <1>0, <1>1, <1>3, <1>8 DEF Ready, CacheTypeOK
<1>10. \A j \in Entries : j < work[r].at + 1 /\ ToCache(r, j) => Ready(List[j].image)'
  BY <1>1, <1>6, <1>8, <1>9, ReadyUpTo DEF CachingSteps
<1>11. PICK n \in Nat : n = work[r].at + 1
  BY <1>2
<1> QED
  BY <1>0, <1>1, <1>6, <1>7, <1>10, <1>11, CachingSound

-----------------------------------------------------------------------------
(* The copies.                                                             *)

\* What one copy does to the release.
LEMMA CopyDoes ==
    ASSUME CacheInv, NEW r \in Release, Copy(r)
    PROVE  /\ \A k \in Entries \ {work[r].at} : released'[r][k] = released[r][k]
           /\ \A q \in Release \ {r} : released'[q] = released[q]
           /\ released'[r][work[r].at] = "good" \/ Here(r) \in hidden'
<1> DEFINE x == IF cached[Here(r)] = "absent" THEN released[r][work[r].at]
                                              ELSE cached[Here(r)]
<1>0. CacheTypeOK /\ CacheSound /\ RunSound(r) /\ work[r].step = "copy"
  BY DEF CacheInv, Copy, At
<1>1. /\ hidden \subseteq hidden'
      /\ \/ released' = [released EXCEPT ![r][work[r].at] = x]
         \/ UNCHANGED released /\ Here(r) \in hidden'
  BY Zenon DEF Copy, Fine, Unseen
<1>2. Here(r) \in Image /\ work[r].at \in Entries /\ ToCopy(r, work[r].at)
  BY <1>0, HereIsImage
<1>3. Ready(Here(r))
  BY <1>0, <1>2 DEF RunSound, CopyingSteps, Here
<1>4. x = "good" \/ Here(r) \in hidden
  BY <1>0, <1>2, <1>3 DEF Ready, CacheSound, CacheTypeOK, Tarball
<1>5. released \in [Release -> [Entries -> Tarball]]
  BY <1>0 DEF CacheTypeOK, Entries
<1> HIDE DEF x
<1> QED
  BY <1>1, <1>2, <1>4, <1>5

LEMMA CopySound ==
    ASSUME CacheInv, NEW r \in Release, Copy(r)
    PROVE  Keeps(r) /\ CacheSound' /\ RunSound(r)'
<1>0. CacheTypeOK /\ CacheSound /\ RunSound(r) /\ work[r].step = "copy"
  BY DEF CacheInv, Copy, At
<1>1. hidden \subseteq hidden' /\ UNCHANGED <<cached, labelled, named>>
      /\ Go(r, "copyTxt", work[r].at)
  BY DEF Copy, Fine, Unseen
<1>2. /\ work'[r].step = "copyTxt" /\ work'[r].at = work[r].at
      /\ \A q \in Release \ {r} : work'[q] = work[q]
  BY <1>0, <1>1 DEF Go, CacheTypeOK
<1>3. Keeps(r)
  BY <1>1, <1>2, CopyDoes DEF Keeps
<1>4. CacheSound'
  BY <1>0, <1>1 DEF CacheSound
<1>5. \A k \in Entries : ToCopy(r, k) => Ready(List[k].image)'
  BY <1>0, <1>3, ReadyStays, EntryFacts DEF RunSound, CopyingSteps
<1>6. \A k \in Entries : k < work[r].at /\ ToCopy(r, k) => Whole(r, k)'
  <2>1. \A k \in Entries : k < work[r].at /\ ToCopy(r, k) =>
            Whole(r, k) /\ k # work[r].at
    BY <1>0, HereIsImage, EntryFacts DEF RunSound, CopyingSteps
  <2> QED
    BY <1>1, <2>1, CopyDoes DEF Whole, InRelease
<1>7. released'[r][work'[r].at] = "good" \/ Here(r)' \in hidden'
  BY <1>2, CopyDoes DEF Here
<1> QED
  BY <1>2, <1>3, <1>4, <1>5, <1>6, <1>7 DEF RunSound, CachingSteps

LEMMA CopyTxtSound ==
    ASSUME CacheInv, NEW r \in Release, CopyTxt(r)
    PROVE  Keeps(r) /\ CacheSound' /\ RunSound(r)'
<1>0. CacheTypeOK /\ CacheSound /\ RunSound(r) /\ work[r].step = "copyTxt"
  BY DEF CacheInv, CopyTxt, At
<1>1. /\ hidden \subseteq hidden' /\ UNCHANGED <<cached, labelled, released>>
      /\ Copying(r, work[r].at + 1)
      /\ \/ named' = [named EXCEPT ![r] =
                    @ \cup (IF Here(r) \in labelled THEN {work[r].at} ELSE {})]
         \/ UNCHANGED named /\ Here(r) \in hidden'
  BY DEF CopyTxt, Fine, Unseen
<1>2. Here(r) \in Image /\ work[r].at \in Entries /\ work[r].at \in Nat /\ ToCopy(r, work[r].at)
  BY <1>0, HereIsImage
<1>3. \A q \in Release : named[q] \subseteq named'[q]
  BY <1>0, <1>1 DEF CacheTypeOK
<1>4. Keeps(r)
  BY <1>0, <1>1, <1>2, <1>3, CopyingPlaces DEF Keeps
<1>5. CacheSound'
  BY <1>0, <1>1 DEF CacheSound
<1>6. \A k \in Entries : ToCopy(r, k) => Ready(List[k].image)'
  BY <1>0, <1>4, ReadyStays, EntryFacts DEF RunSound, CopyingSteps
<1>7. PICK m \in Entries : m = work[r].at
  BY <1>2
<1>8. Whole(r, m)'
  <2>1. Ready(Here(r)) /\ (released[r][m] = "good" \/ Here(r) \in hidden)
    BY <1>0, <1>2, <1>7 DEF RunSound, CopyingSteps, Here
  <2>2. Here(r) \in labelled \/ Here(r) \in hidden
    BY <1>0, <1>2, <2>1 DEF Ready, CacheSound
  <2>3. Here(r) \notin hidden' => m \in named'[r]
    BY <1>0, <1>1, <1>7, <2>2 DEF CacheTypeOK
  <2> QED
    BY <1>1, <1>7, <2>1, <2>3 DEF Whole, InRelease, Here
<1>9. ASSUME NEW k \in Entries, k < work[r].at + 1, ToCopy(r, k)
      PROVE  Whole(r, k)'
  <2>1. k = m \/ k < work[r].at
    BY <1>2, <1>7, <1>9, EntryFacts
  <2>2. CASE k < work[r].at
    <3>1. Whole(r, k)
      BY <1>0, <1>9, <2>2 DEF RunSound, CopyingSteps
    <3> QED
      BY <1>1, <1>3, <3>1 DEF Whole, InRelease
  <2> QED
    BY <1>8, <2>1, <2>2
<1>10. PICK n \in Nat : n = work[r].at + 1
  BY <1>2
<1> QED
  BY <1>0, <1>1, <1>4, <1>5, <1>6, <1>9, <1>10, CopyingSound

-----------------------------------------------------------------------------
(* The theorems.                                                           *)

\* Nothing is cached at first, and no run has begun.
LEMMA CacheInvInit == CacheInit => CacheInv
<1> SUFFICES ASSUME CacheInit PROVE CacheInv
  OBVIOUS
<1>1. CacheTypeOK
  BY ImageCacheAssumption DEF CacheInit, CacheTypeOK, Tarball, CacheSteps
<1>2. CacheSound
  BY DEF CacheInit, CacheSound
<1>3. \A r \in Release : RunSound(r)
  BY DEF CacheInit, RunSound, CachingSteps, CopyingSteps
<1> QED
  BY <1>1, <1>2, <1>3 DEF CacheInv

\* Every step of a run keeps the invariant.
LEMMA CacheInvNext == CacheInv /\ [CacheNext]_cacheVars => CacheInv'
<1> SUFFICES ASSUME CacheInv, [CacheNext]_cacheVars PROVE CacheInv'
  OBVIOUS
<1>1. CacheTypeOK'
  BY StepTypes DEF CacheInv
<1>2. CASE UNCHANGED cacheVars
  <2>1. CacheSound'
    BY <1>2 DEF CacheInv, CacheSound, cacheVars, bucket
  <2>2. \A r \in Release : RunSound(r)'
    BY <1>2 DEF CacheInv, RunSound, Ready, Whole, InRelease, Here, cacheVars, bucket
  <2> QED
    BY <1>1, <2>1, <2>2 DEF CacheInv
<1>3. CASE CacheNext
  <2>1. PICK r \in Release :
            \/ Begin(r) \/ Killed(r)
            \/ Stat(r) \/ StatFails(r) \/ Save(r) \/ UploadTxt(r) \/ UploadTgz(r)
            \/ Copy(r) \/ CopyTxt(r)
    BY <1>3 DEF CacheNext
  <2>2. Keeps(r) /\ CacheSound' /\ RunSound(r)'
    BY <2>1, BeginSound, KilledSound, StatSound, SaveSound, UploadTxtSound, UploadTgzSound,
       CopySound, CopyTxtSound
  <2>3. \A q \in Release : RunSound(q)'
    BY <2>2, OthersSound
  <2> QED
    BY <1>1, <2>2, <2>3 DEF CacheInv
<1> QED
  BY <1>2, <1>3

\* The cache, the releases and the runs keep their types, and a run that works is
\* at an entry that its release copies.
THEOREM CacheTypesHold == CacheSpec => []CacheTypeOK
<1>1. CacheInv => CacheTypeOK
  BY DEF CacheInv
<1> QED
  BY <1>1, CacheInvInit, CacheInvNext, PTL DEF CacheSpec

\* A run that came to its end has all it was asked for in its release, whatever
\* runs were killed and however many share the cache; only a failure that was
\* printed and not acted on hides a hole.
THEOREM FinishedReleaseIsWhole == CacheSpec => []ReleaseWhole
<1>1. CacheInv => ReleaseWhole
  BY DEF CacheInv, RunSound, ReleaseWhole, Whole, At, Entries
<1> QED
  BY <1>1, CacheInvInit, CacheInvNext, PTL DEF CacheSpec

\* A tarball in the cache that is not what was pulled has had its failure: the
\* upload, by itself, never spoils one.
THEOREM BrokenWasPrinted ==
    CacheSpec => [](\A i \in Image : cached[i] = "broken" => i \in hidden)
<1>1. CacheInv => \A i \in Image : cached[i] = "broken" => i \in hidden
  BY DEF CacheInv, CacheSound
<1> QED
  BY <1>1, CacheInvInit, CacheInvNext, PTL DEF CacheSpec

\* What a checked commit uses is in the finished release, unless its name is only
\* within a longer one, or its groups are not the ones that were asked for.
THEOREM CheckedImagesAreReleased == CacheSpec => []UsedIsReleased
<1>1. ReleaseWhole => UsedIsReleased
  <2> SUFFICES ASSUME ReleaseWhole, NEW r \in Release, At(r, "done"), Checked, commit.tagged,
                      NEW i \in commit.used, ~OnlyInside(i), ~OnlyElsewhere(r, i), i \notin hidden
               PROVE  \E k \in DOMAIN List : List[k].image = i /\ InRelease(r, k)
    BY DEF UsedIsReleased, Checked, Found
  <2>1. PICK k \in DOMAIN List : List[k].image = i /\ List[k].group \in Selected[r]
    BY DEF OnlyElsewhere, Entry
  <2>2. ToCopy(r, k)
    BY <2>1 DEF ToCopy, Checked, VersionsLocked, Entry
  <2> QED
    BY <2>1, <2>2 DEF ReleaseWhole
<1> QED
  BY <1>1, FinishedReleaseIsWhole, PTL

-----------------------------------------------------------------------------
(***************************************************************************)
(* II. THE POST-FLIGHT CHECK                                               *)
(* What its report is worth, for any lists, any number of runs and of      *)
(* failures. The argument goes with a run from test to test: what it has   *)
(* passed is well, or it has put an error down, and whatever made it put   *)
(* one down is among its excuses.                                          *)
(***************************************************************************)

Before == {"list", "get", "grafana", "job", "jobLog", "create"}
Within == {"upload", "read", "delete"}
Beyond == {"gpu", "gpuLog", "appCreate", "appRead", "appDelete"}
Active == Before \cup Within \cup Beyond

\* The steps after jobs_testing has been gone through or left out.
Settled == {"create"} \cup Within \cup Beyond

Passed(K) ==
    /\ Cardinality(cluster[K]) = Len(Basic[K])
    /\ K \in Named => Goal(K) \subseteq cluster[K]

\* The kinds a run has looked at.
Looked(r) ==
    /\ On(r, "list") => \A j \in DOMAIN Kinds : j < check[r].kind => Passed(Kinds[j])
    /\ On(r, "get") =>
          LET K == Kinds[check[r].kind]
          IN  /\ \A j \in DOMAIN Kinds : j < check[r].kind => Passed(Kinds[j])
              /\ Cardinality(cluster[K]) = Len(Basic[K])
              /\ \A i \in DOMAIN Basic[K] : i < check[r].at => Basic[K][i] \in cluster[K]
    /\ check[r].step \notin {"list", "get"} => AsExpected

\* The cluster as a run knows it.
ClusterPart(r) ==
    /\ Working(r) /\ "edit" \notin blame[r] =>
          /\ "cluster" \in blame[r] <=> ~AsExpected
          /\ ~check[r].errors => Looked(r)
    /\ On(r, "ok") /\ "cluster" \in blame[r] => "edit" \in blame[r]

\* The dataset, which runs share.
DatasetPart(r) ==
    /\ check[r].step \in Before =>
          /\ dataset # <<>> => blame[r] \cap {"left dataset", "other run"} # {}
          /\ "left dataset" \in blame[r] => dataset # <<>> \/ "other run" \in blame[r]
    /\ check[r].step \in Within /\ dataset = <<>> =>
          blame[r] \cap {"call", "other run"} # {}
    /\ check[r].step \in Within \cup Beyond \cup {"ok"} /\ "left dataset" \in blame[r] =>
          check[r].errors \/ "other run" \in blame[r]
    /\ check[r].step \in Beyond \cup {"ok"} => dataset # <<r>> \/ check[r].errors

\* The errors that are put down.
ErrorPart(r) ==
    /\ check[r].errors => blame[r] # {}
    /\ "call" \in blame[r] => check[r].errors \/ On(r, "aborted")
    /\ On(r, "ok") => ~check[r].errors
    /\ On(r, "alarm") => check[r].errors
    /\ On(r, "aborted") => blame[r] \cap {"call", "gpu", "other run"} # {}
    /\ r \in apps => check[r].errors \/ check[r].step \in {"appRead", "appDelete", "aborted"}

\* The jobs of a run: that of jobs_testing once it is submitted, unless it is a
\* community edition.
LeftJobs(r) == IF check[r].answers.ce THEN {} ELSE {"job"}

JobPart(r) ==
    /\ check[r].step \in {"list", "get", "grafana", "job"} => jobs[r] = {}
    /\ check[r].step \in {"job", "jobLog"} => ~check[r].answers.ce
    /\ check[r].step \in {"jobLog", "ok"} \cup (Settled \ {"gpuLog"}) =>
          jobs[r] = LeftJobs(r) \/ check[r].errors

RunInv(r) ==
    /\ On(r, "get") => Kinds[check[r].kind] \in Named
    /\ \A q \in Runner \ {r} : Working(r) /\ Working(q) => "other run" \in blame[r]
    /\ ClusterPart(r) /\ DatasetPart(r) /\ ErrorPart(r) /\ JobPart(r)

CheckInv == CheckTypeOK /\ \A r \in Runner : RunInv(r)

-----------------------------------------------------------------------------
(* The lists.                                                              *)

LEMMA KindFacts ==
    ASSUME CheckTypeOK, NEW r \in Runner
    PROVE  /\ check[r].kind \in 1..Len(Kinds) /\ Len(Kinds) \in Nat
           /\ DOMAIN Kinds = 1..Len(Kinds)
           /\ \A j \in DOMAIN Kinds : Kinds[j] \in Kind
           /\ \A K \in Kind : Len(Basic[K]) \in Nat /\ DOMAIN Basic[K] = 1..Len(Basic[K])
BY PostflightAssumption DEF CheckTypeOK

\* In a cluster as the lists say every kind passes.
LEMMA ExpectedPasses ==
    ASSUME CheckTypeOK, AsExpected, NEW K \in Kind
    PROVE  Passed(K) /\ ~Miscounted(K)
<1>1. Cardinality(cluster[K]) = Cardinality(Goal(K))
  BY DEF AsExpected, Kind
<1> QED
  BY <1>1, ListsAssumption DEF AsExpected, Passed, Miscounted

\* And the other way round: of as many names, and all of the list among them,
\* none is another one.
LEMMA PassesExpected ==
    ASSUME CheckTypeOK, \A j \in DOMAIN Kinds : Passed(Kinds[j])
    PROVE  AsExpected
<1>1. \A K \in Kind : Passed(K)
  BY ListsAssumption
<1>2. \A K \in Kind : Cardinality(cluster[K]) = Cardinality(Goal(K))
  BY <1>1, ListsAssumption DEF Passed
<1>3. ASSUME NEW K \in Named
      PROVE  cluster[K] = Goal(K)
  <2>1. K \in Kind
    BY DEF Kind
  <2>2. Goal(K) \subseteq cluster[K]
    BY <1>1, <2>1 DEF Passed
  <2>3. IsFiniteSet(cluster[K])
    <3>1. cluster[K] \in SUBSET Name
      BY <2>1 DEF CheckTypeOK
    <3> QED
      BY <3>1, ListsAssumption, FS_Subset
  <2> QED
    BY <1>2, <2>1, <2>2, <2>3, FS_Subset
<1> QED
  BY <1>2, <1>3 DEF AsExpected, Kind

-----------------------------------------------------------------------------
(* One step of a run.                                                      *)

Checks == [Runner -> [step : CheckSteps, kind : DOMAIN Kinds, at : Nat,
                      errors : BOOLEAN, answers : Answer]]

\* Run r is at step s afterwards, with errors e.
Goes(r, s, e) ==
    /\ check' \in Checks
    /\ check'[r].step = s /\ check'[r].errors = e
    /\ check'[r].answers = check[r].answers
    /\ \A q \in Runner \ {r} : check'[q] = check[q]

\* The jobs of the others are left alone.
JobsOf(r) ==
    /\ jobs' \in [Runner -> SUBSET {"job", "gpu"}]
    /\ \A q \in Runner \ {r} : jobs'[q] = jobs[q]

\* It has the excuses x in addition.
Excused(r, x) ==
    /\ blame' \in [Runner -> SUBSET Excuses] /\ blame'[r] = blame[r] \cup x
    /\ \A q \in Runner \ {r} : blame'[q] = blame[q]
    /\ troubles' \in 0..MaxTroubles

LEMMA Excusing ==
    ASSUME CheckTypeOK, NEW r \in Runner
    PROVE  /\ Smooth => Excused(r, {})
           /\ Trouble(r) => Excused(r, {"call"})
           /\ Blame(r, "gpu") /\ UNCHANGED troubles => Excused(r, {"gpu"})
<1>1. MaxTroubles \in Nat /\ troubles \in 0..MaxTroubles /\ blame \in [Runner -> SUBSET Excuses]
  BY PostflightAssumption DEF CheckTypeOK
<1>2. "call" \in Excuses /\ "gpu" \in Excuses
  BY DEF Excuses
<1>3. Smooth => Excused(r, {})
  BY <1>1 DEF Smooth, Excused
<1>4. ASSUME Trouble(r) PROVE Excused(r, {"call"})
  <2>1. troubles' \in 0..MaxTroubles
    BY <1>1, <1>4 DEF Trouble
  <2>2. blame' = [blame EXCEPT ![r] = @ \cup {"call"}]
    BY <1>4 DEF Trouble, Blame
  <2> QED
    BY <1>1, <1>2, <2>1, <2>2 DEF Excused
<1>5. Blame(r, "gpu") /\ UNCHANGED troubles => Excused(r, {"gpu"})
  BY <1>1, <1>2 DEF Blame, Excused
<1> QED
  BY <1>3, <1>4, <1>5

LEMMA Proceeding ==
    ASSUME CheckTypeOK, NEW r \in Runner, NEW step \in CheckSteps \cup {"report"},
           NEW wrong \in BOOLEAN, Proceed(r, step, wrong)
    PROVE  LET e == check[r].errors \/ wrong
           IN  Goes(r, IF step # "report" THEN step ELSE IF e THEN "alarm" ELSE "ok", e)
<1> DEFINE e == check[r].errors \/ wrong
           s == IF step # "report" THEN step ELSE IF e THEN "alarm" ELSE "ok"
<1>1. check \in Checks
  BY DEF CheckTypeOK, Checks
<1>2. e \in BOOLEAN /\ s \in CheckSteps
  BY DEF CheckSteps
<1>3. check' = [check EXCEPT ![r].errors = e, ![r].step = s]
  BY DEF Proceed
<1> HIDE DEF e, s
<1>4. Goes(r, s, e)
  BY <1>1, <1>2, <1>3 DEF Goes, Checks
<1> QED
  BY <1>4 DEF e, s

LEMMA Aborting ==
    ASSUME CheckTypeOK, NEW r \in Runner, Abort(r)
    PROVE  Goes(r, "aborted", check[r].errors)
<1>1. check \in Checks
  BY DEF CheckTypeOK, Checks
<1>2. "aborted" \in CheckSteps
  BY DEF CheckSteps
<1> QED
  BY <1>1, <1>2 DEF Goes, Checks, Abort

LEMMA Steps ==
    ASSUME NEW r \in Runner
    PROVE  /\ After(r, "list") \in {"grafana", "job", "create"}
           /\ After(r, "list") \in {"grafana", IF check[r].answers.ce THEN "create" ELSE "job"}
           /\ After(r, "grafana") \in {"job", "create"}
           /\ After(r, "grafana") = IF check[r].answers.ce THEN "create" ELSE "job"
           /\ After(r, "delete") \in {"gpu", "appCreate", "report"}
           /\ After(r, "gpu") \in {"appCreate", "report"}
BY DEF After

\* The three ways to go on in the lists.
LEMMA NextNameIs ==
    ASSUME CheckTypeOK, NEW r \in Runner, NEW i \in Nat, NEW wrong \in BOOLEAN,
           NextName(r, i, wrong)
    PROVE  LET K == Kinds[check[r].kind]
               e == check[r].errors \/ wrong
           IN  \/ /\ K \in Named /\ i <= Len(Basic[K])
                  /\ Goes(r, "get", e)
                  /\ check'[r].at = i /\ check'[r].kind = check[r].kind
               \/ /\ K \notin Named \/ i > Len(Basic[K])
                  /\ check[r].kind < Len(Kinds)
                  /\ Goes(r, "list", e) /\ check'[r].kind = check[r].kind + 1
               \/ /\ K \notin Named \/ i > Len(Basic[K])
                  /\ check[r].kind = Len(Kinds)
                  /\ Goes(r, After(r, "list"), e)
<1> DEFINE K == Kinds[check[r].kind]
           e == check[r].errors \/ wrong
<1>1. check \in Checks
  BY DEF CheckTypeOK, Checks
<1>2. e \in BOOLEAN /\ "get" \in CheckSteps /\ "list" \in CheckSteps
  BY DEF CheckSteps
<1>3. /\ check[r].kind \in 1..Len(Kinds) /\ Len(Kinds) \in Nat /\ DOMAIN Kinds = 1..Len(Kinds)
      /\ Len(Basic[K]) \in Nat
  BY KindFacts
<1>4. CASE K \in Named /\ i <= Len(Basic[K])
  <2>1. check' = [check EXCEPT ![r].step = "get", ![r].at = i, ![r].errors = e]
    BY <1>4 DEF NextName
  <2> HIDE DEF e
  <2>2. Goes(r, "get", e) /\ check'[r].at = i /\ check'[r].kind = check[r].kind
    BY <1>1, <1>2, <2>1 DEF Goes, Checks
  <2> QED
    BY <1>4, <2>2 DEF e
<1>5. CASE ~(K \in Named /\ i <= Len(Basic[K]))
  <2>1. NextKind(r, wrong) /\ (K \notin Named \/ i > Len(Basic[K]))
    BY <1>3, <1>5 DEF NextName
  <2>2. CASE check[r].kind < Len(Kinds)
    <3>1. check' = [check EXCEPT ![r].step = "list", ![r].kind = check[r].kind + 1,
                                 ![r].errors = e]
      BY <2>1, <2>2 DEF NextKind
    <3>2. check[r].kind + 1 \in DOMAIN Kinds
      BY <1>3, <2>2
    <3> HIDE DEF e
    <3>3. Goes(r, "list", e) /\ check'[r].kind = check[r].kind + 1
      BY <1>1, <1>2, <3>1, <3>2 DEF Goes, Checks
    <3> QED
      BY <2>1, <2>2, <3>3 DEF e
  <2>3. CASE ~(check[r].kind < Len(Kinds))
    <3>1. Proceed(r, After(r, "list"), wrong) /\ check[r].kind = Len(Kinds)
      BY <1>3, <2>1, <2>3 DEF NextKind
    <3>2. After(r, "list") \in {"grafana", "job", "create"}
      BY Steps
    <3>3. After(r, "list") \in CheckSteps \cup {"report"} /\ After(r, "list") # "report"
      BY <3>2 DEF CheckSteps
    <3>4. Goes(r, After(r, "list"), e)
      BY <3>1, <3>3, Proceeding
    <3> QED
      BY <2>1, <3>1, <3>4
  <2> QED
    BY <2>2, <2>3
<1> QED
  BY <1>4, <1>5

-----------------------------------------------------------------------------
(* What a step of one run leaves to the others, and keeps of its own.      *)

LEMMA ActiveWorks ==
    ASSUME CheckTypeOK, NEW r \in Runner
    PROVE  Working(r) <=> check[r].step \in Active
<1>1. check[r].step \in CheckSteps
  BY DEF CheckTypeOK
<1> QED
  BY <1>1 DEF Working, Active, Before, Within, Beyond, Ended, CheckSteps

LEMMA OthersKeep ==
    ASSUME CheckInv, NEW r \in Runner, NEW s, NEW e, NEW x,
           Working(r), Goes(r, s, e), Excused(r, x), cluster' = cluster,
           dataset' \in {dataset, <<>>, <<r>>}, apps' \subseteq apps \cup {r}, JobsOf(r),
           NEW q \in Runner \ {r}
    PROVE  RunInv(q)'
<1>1. RunInv(q) /\ check'[q] = check[q] /\ blame'[q] = blame[q]
  BY DEF CheckInv, Goes, Excused
<1>2. On(q, "get")' => (Kinds[check[q].kind] \in Named)'
  BY <1>1 DEF RunInv, On
<1>3. \A p \in Runner \ {q} : (Working(q) /\ Working(p))' => "other run" \in blame'[q]
  BY <1>1 DEF RunInv, Working, Goes
<1>4. AsExpected' <=> AsExpected
  BY DEF AsExpected
<1>5. Looked(q)' <=> Looked(q)
  BY <1>1, <1>4 DEF Looked, Passed, On
<1>6. ClusterPart(q)'
  BY <1>1, <1>4, <1>5 DEF RunInv, ClusterPart, Working, On
<1>7. ErrorPart(q)'
  BY <1>1 DEF RunInv, ErrorPart, On
<1>8. DatasetPart(q)'
  <2>1. DatasetPart(q)
    BY <1>1 DEF RunInv
  <2>2. check[q].step \in Active => "other run" \in blame[q]
    BY <1>1, ActiveWorks DEF CheckInv, RunInv
  <2>3. <<r>> # <<q>> /\ <<>> # <<q>>
    OBVIOUS
  <2> QED
    BY <1>1, <2>1, <2>2, <2>3 DEF DatasetPart, Active
<1>9. JobPart(q)'
  BY <1>1 DEF RunInv, JobPart, LeftJobs, JobsOf
<1> QED
  BY <1>2, <1>3, <1>6, <1>7, <1>8, <1>9 DEF RunInv

\* A step of a run is a legal one, and the rest of the invariant about the run
\* itself is enough.
LEMMA RunKeeps ==
    ASSUME CheckInv, NEW r \in Runner, NEW s, NEW e, NEW x,
           Working(r), Goes(r, s, e), Excused(r, x), UNCHANGED <<cluster, edits>>,
           dataset' \in {dataset, <<>>, <<r>>}, apps' \subseteq apps \cup {r}, JobsOf(r),
           s = "get" => /\ Kinds[check'[r].kind] \in Named
                        /\ check'[r].at \in DOMAIN Basic[Kinds[check'[r].kind]],
           ClusterPart(r)', DatasetPart(r)', ErrorPart(r)', JobPart(r)'
    PROVE  CheckInv'
<1>1. CheckTypeOK'
  <2>1. \A q \in Runner \ {r} : check'[q] = check[q]
    BY DEF Goes
  <2>2. \A q \in Runner : On(q, "get")' =>
            check'[q].at \in DOMAIN Basic[Kinds[check'[q].kind]]
    BY <2>1 DEF CheckInv, CheckTypeOK, On, Goes
  <2>3. dataset' = <<>> \/ \E q \in Runner : dataset' = <<q>>
    BY DEF CheckInv, CheckTypeOK
  <2>4. check' \in Checks /\ blame' \in [Runner -> SUBSET Excuses] /\ troubles' \in 0..MaxTroubles
    BY DEF Goes, Excused
  <2> QED
    BY <2>2, <2>3, <2>4 DEF CheckInv, CheckTypeOK, Checks, JobsOf
<1>2. \A q \in Runner \ {r} : RunInv(q)'
  BY OthersKeep
<1>3. On(r, "get")' => (Kinds[check[r].kind] \in Named)'
  BY DEF On, Goes
<1>4. \A q \in Runner \ {r} : (Working(r) /\ Working(q))' => "other run" \in blame'[r]
  BY DEF CheckInv, RunInv, Working, Goes, Excused
<1>5. RunInv(r)'
  BY <1>3, <1>4 DEF RunInv
<1> QED
  BY <1>1, <1>2, <1>5 DEF CheckInv

\* Run r goes on to test s, with errors e and the excuses x in addition: an error
\* has an excuse, a failed call is an error, and what is not OK is not said to be.
Onward(r, s, e, x) ==
    /\ Goes(r, s, e) /\ Excused(r, x)
    /\ UNCHANGED <<cluster, edits>>
    /\ x \subseteq {"call", "gpu"}
    /\ s \in CheckSteps \ {"list", "get", "idle"}
    /\ check[r].errors => e
    /\ e => check[r].errors \/ blame[r] # {} \/ x # {}
    /\ "call" \in x => e \/ s = "aborted"
    /\ s = "ok" => ~e
    /\ s = "alarm" => e
    /\ s = "aborted" => blame'[r] \cap {"call", "gpu", "other run"} # {}

LEMMA OnwardKeeps ==
    ASSUME CheckInv, NEW r \in Runner, NEW s, NEW e \in BOOLEAN, NEW x,
           Working(r), Onward(r, s, e, x),
           dataset' \in {dataset, <<>>, <<r>>}, apps' \subseteq apps \cup {r}, JobsOf(r),
           check[r].step \in {"list", "get"} /\ "edit" \notin blame[r] /\ ~e =>
               s = "aborted" \/ AsExpected,
           r \in apps' => e \/ s \in {"appRead", "appDelete", "aborted"},
           DatasetPart(r)', JobPart(r)'
    PROVE  CheckInv'
<1>1. /\ Goes(r, s, e) /\ Excused(r, x) /\ UNCHANGED <<cluster, edits>>
      /\ x \subseteq {"call", "gpu"} /\ s \notin {"list", "get"}
  BY DEF Onward
<1>2. check'[r].step = s /\ check'[r].errors = e /\ blame'[r] = blame[r] \cup x
  BY <1>1 DEF Goes, Excused
<1>3. RunInv(r) /\ check[r].step \notin {"aborted", "ok", "alarm", "idle"}
  BY DEF CheckInv, Working, Ended
<1>4. "edit" \notin blame[r] /\ ~e => s = "aborted" \/ AsExpected
  BY <1>3 DEF RunInv, ClusterPart, Looked, Onward
<1>5. /\ "edit" \in blame'[r] <=> "edit" \in blame[r]
      /\ "cluster" \in blame'[r] <=> "cluster" \in blame[r]
      /\ AsExpected' <=> AsExpected
  BY <1>1, <1>2 DEF AsExpected
<1>6. ClusterPart(r)'
  <2>1. "edit" \notin blame[r] => ("cluster" \in blame[r] <=> ~AsExpected)
    BY <1>3 DEF RunInv, ClusterPart
  <2>2. "edit" \notin blame[r] /\ ~e => s = "aborted" \/ Looked(r)'
    BY <1>1, <1>2, <1>4, <1>5 DEF Looked, On
  <2>3. s = "ok" => ~e
    BY DEF Onward
  <2> QED
    BY <1>2, <1>4, <1>5, <2>1, <2>2, <2>3 DEF ClusterPart, On, Working, Ended
<1>7. ErrorPart(r)'
  <2>1. /\ check[r].errors => blame[r] # {}
        /\ "call" \in blame[r] => check[r].errors
    BY <1>3 DEF RunInv, ErrorPart, On
  <2> QED
    BY <1>2, <2>1 DEF ErrorPart, On, Onward
<1> QED
  BY <1>1, <1>6, <1>7, RunKeeps

\* A step within one part of the run that leaves the dataset alone.
LEMMA DatasetStays ==
    ASSUME CheckInv, NEW r \in Runner, NEW s, NEW e \in BOOLEAN, NEW x,
           Goes(r, s, e), Excused(r, x), x \subseteq {"call", "gpu"}, UNCHANGED dataset,
           check[r].errors => e,
           \/ s \in {"aborted", "alarm"}
           \/ check[r].step \in Before /\ s \in Before
           \/ check[r].step \in Within /\ s \in Within
           \/ check[r].step \in Beyond /\ s \in Beyond \cup {"ok"}
    PROVE  DatasetPart(r)'
<1>1. /\ check'[r].step = s /\ (check[r].errors => check'[r].errors)
      /\ blame'[r] = blame[r] \cup x /\ dataset' = dataset
  BY DEF Goes, Excused
<1>2. /\ \A E : blame[r] \cap E # {} => blame'[r] \cap E # {}
      /\ "left dataset" \in blame'[r] <=> "left dataset" \in blame[r]
      /\ "other run" \in blame[r] => "other run" \in blame'[r]
  BY <1>1
<1>3. DatasetPart(r)
  BY DEF CheckInv, RunInv
<1>4. CASE s \in {"aborted", "alarm"}
  BY <1>1, <1>4 DEF DatasetPart, Before, Within, Beyond
<1>5. CASE check[r].step \in Before /\ s \in Before
  BY <1>1, <1>2, <1>3, <1>5 DEF DatasetPart, Before, Within, Beyond
<1>6. CASE check[r].step \in Within /\ s \in Within
  BY <1>1, <1>2, <1>3, <1>6 DEF DatasetPart, Before, Within, Beyond
<1>7. CASE check[r].step \in Beyond /\ s \in Beyond \cup {"ok"}
  BY <1>1, <1>2, <1>3, <1>7 DEF DatasetPart, Before, Within, Beyond
<1> QED
  BY <1>4, <1>5, <1>6, <1>7

\* The tests that a run can be sent to after its lists.
Tests == Active \ {"list", "get"}

LEMMA ProceedsOnward ==
    ASSUME CheckInv, NEW r \in Runner, NEW t \in Tests \cup {"report"},
           NEW wrong \in BOOLEAN, NEW x \in {{}, {"call"}},
           Working(r), Proceed(r, t, wrong), Excused(r, x), UNCHANGED <<cluster, edits>>,
           x # {} => wrong, wrong => x # {} \/ blame[r] # {}
    PROVE  LET e == check[r].errors \/ wrong
               s == IF t # "report" THEN t ELSE IF e THEN "alarm" ELSE "ok"
           IN  Onward(r, s, e, x) /\ e \in BOOLEAN
<1> DEFINE e == check[r].errors \/ wrong
           s == IF t # "report" THEN t ELSE IF e THEN "alarm" ELSE "ok"
<1>1. t \in CheckSteps \cup {"report"}
  BY DEF Tests, Active, Before, Within, Beyond, CheckSteps
<1>2. Goes(r, s, e)
  BY <1>1, Proceeding DEF CheckInv
<1>3. s \in CheckSteps \ {"list", "get", "idle", "aborted"}
  BY DEF Tests, Active, Before, Within, Beyond, CheckSteps
<1>4. /\ check[r].errors => e
      /\ e => check[r].errors \/ blame[r] # {} \/ x # {}
      /\ "call" \in x => e
      /\ s = "ok" => ~e
      /\ s = "alarm" => e
      /\ e \in BOOLEAN
  BY DEF Tests, Active, Before, Within, Beyond
<1> HIDE DEF s, e
<1>5. Onward(r, s, e, x) /\ e \in BOOLEAN
  BY <1>2, <1>3, <1>4 DEF Onward
<1> QED
  BY <1>5 DEF s, e

\* A step of a run from one test to another, wrong or not, as far as jobs go: one
\* is submitted by the step to its log, or with an error.
JobStep(r, t, wrong) ==
    /\ JobsOf(r)
    /\ \/ jobs' = jobs /\ check[r].step = "grafana" /\ t = After(r, "grafana")
       \/ jobs'[r] = {"job"} /\ check[r].step = "job" /\ t = "jobLog"
       \/ /\ jobs' = jobs /\ check[r].step \in {"jobLog"} \cup (Settled \ {"gpuLog"})
          /\ t \in Settled \cup {"report"}
       \/ wrong /\ t \in Settled \cup {"report"}
       \/ check[r].step = "gpu" /\ t = "gpuLog"

LEMMA JobStepKeeps ==
    ASSUME CheckInv, NEW r \in Runner, NEW t, NEW wrong \in BOOLEAN, JobStep(r, t, wrong),
           NEW s, s = IF t # "report" THEN t
                      ELSE IF check[r].errors \/ wrong THEN "alarm" ELSE "ok",
           Goes(r, s, check[r].errors \/ wrong)
    PROVE  JobPart(r)'
<1>1. /\ check'[r].step = s /\ (wrong \/ check[r].errors => check'[r].errors)
      /\ LeftJobs(r)' = LeftJobs(r) /\ check'[r].answers.ce = check[r].answers.ce
  BY DEF Goes, LeftJobs
<1>2. JobPart(r)
  BY DEF CheckInv, RunInv
<1>3. CASE jobs' = jobs /\ check[r].step = "grafana" /\ t = After(r, "grafana")
  <2>1. jobs[r] = {} /\ s = IF check[r].answers.ce THEN "create" ELSE "job"
    BY <1>2, <1>3, Steps DEF JobPart
  <2> QED
    BY <1>1, <1>3, <2>1 DEF JobPart, LeftJobs, Settled, Within, Beyond
<1>4. CASE jobs'[r] = {"job"} /\ check[r].step = "job" /\ t = "jobLog"
  BY <1>1, <1>2, <1>4 DEF JobPart, LeftJobs, Settled, Within, Beyond
<1>5. CASE /\ jobs' = jobs /\ check[r].step \in {"jobLog"} \cup (Settled \ {"gpuLog"})
           /\ t \in Settled \cup {"report"}
  <2>1. jobs'[r] = LeftJobs(r) \/ check'[r].errors
    BY <1>1, <1>2, <1>5 DEF JobPart
  <2>2. s \in Settled \cup {"ok", "alarm"}
    BY <1>5
  <2> QED
    BY <1>1, <2>1, <2>2 DEF JobPart, Settled, Within, Beyond
<1>6. CASE wrong /\ t \in Settled \cup {"report"}
  <2>1. s \in Settled \cup {"alarm"}
    BY <1>6
  <2> QED
    BY <1>1, <1>6, <2>1 DEF JobPart, Settled, Within, Beyond
<1>7. CASE check[r].step = "gpu" /\ t = "gpuLog"
  BY <1>1, <1>7 DEF JobPart, Settled, Within, Beyond
<1> QED
  BY <1>3, <1>4, <1>5, <1>6, <1>7 DEF JobStep

\* A step that leaves all jobs alone.
LEMMA JobsStay ==
    ASSUME CheckInv, NEW r \in Runner, UNCHANGED jobs
    PROVE  JobsOf(r)
BY DEF CheckInv, CheckTypeOK, JobsOf

LEMMA SettledStays ==
    ASSUME CheckInv, NEW r \in Runner, check[r].step \in Settled \ {"gpuLog"}, UNCHANGED jobs,
           NEW t \in Settled \cup {"report"}, NEW wrong \in BOOLEAN
    PROVE  JobStep(r, t, wrong)
BY JobsStay DEF JobStep

\* A test that leaves the dataset alone, and an app behind only with an error.
LEMMA ProceedKeeps ==
    ASSUME CheckInv, NEW r \in Runner, NEW t \in Tests \cup {"report"},
           NEW wrong \in BOOLEAN, NEW x \in {{}, {"call"}},
           Working(r), Proceed(r, t, wrong), Excused(r, x),
           UNCHANGED <<cluster, dataset, edits>>, apps' \subseteq apps \cup {r},
           JobStep(r, t, wrong),
           x # {} => wrong, wrong => x # {} \/ blame[r] # {},
           \/ check[r].step \in Before \ {"list", "get"} /\ t \in Before
           \/ check[r].step \in Within /\ t \in Within
           \/ check[r].step \in Beyond /\ t \in Beyond \cup {"report"},
           r \in apps' => \/ r \in apps /\ check[r].step \notin {"appRead", "appDelete"}
                         \/ wrong \/ t \in {"appRead", "appDelete"}
    PROVE  CheckInv'
<1> DEFINE e == check[r].errors \/ wrong
           s == IF t # "report" THEN t ELSE IF e THEN "alarm" ELSE "ok"
<1>1. Onward(r, s, e, x) /\ e \in BOOLEAN
  BY ProceedsOnward
<1>2. DatasetPart(r)'
  <2>1. \/ s \in {"aborted", "alarm"}
        \/ check[r].step \in Before /\ s \in Before
        \/ check[r].step \in Within /\ s \in Within
        \/ check[r].step \in Beyond /\ s \in Beyond \cup {"ok"}
    BY DEF Before, Within, Beyond
  <2>2. /\ Goes(r, s, e) /\ Excused(r, x) /\ x \subseteq {"call", "gpu"}
        /\ UNCHANGED dataset /\ check[r].errors => e
    BY <1>1 DEF Onward
  <2> HIDE DEF s, e
  <2> QED
    BY <1>1, <2>1, <2>2, DatasetStays
<1>3. r \in apps' => e \/ s \in {"appRead", "appDelete", "aborted"}
  BY DEF CheckInv, RunInv, ErrorPart, Working, Ended
<1>4. check[r].step \notin {"list", "get"}
  BY DEF Within, Beyond
<1>5. JobPart(r)' /\ JobsOf(r)
  BY <1>1, JobStepKeeps DEF JobStep, Onward
<1> HIDE DEF s, e
<1> QED
  BY <1>1, <1>2, <1>3, <1>4, <1>5, OnwardKeeps

LEMMA AbortKeeps ==
    ASSUME CheckInv, NEW r \in Runner, NEW x \in SUBSET {"call", "gpu"},
           Working(r), Abort(r), Excused(r, x),
           UNCHANGED <<cluster, dataset, apps, jobs, edits>>,
           x # {} \/ "other run" \in blame[r] \/ "call" \in blame[r]
    PROVE  CheckInv'
<1>1. Goes(r, "aborted", check[r].errors)
  BY Aborting DEF CheckInv
<1>2. check[r].errors \in BOOLEAN
  BY DEF CheckInv, CheckTypeOK
<1>3. blame'[r] = blame[r] \cup x
  BY DEF Excused
<1>4. blame'[r] \cap {"call", "gpu", "other run"} # {}
  BY <1>3
<1>5. DatasetPart(r)'
  BY <1>1, <1>2, DatasetStays
<1>6. JobPart(r)' /\ JobsOf(r)
  BY <1>1, JobsStay DEF Goes, JobPart, Settled, Within, Beyond
<1> QED
  <2> DEFINE e == check[r].errors
  <2>1. Onward(r, "aborted", e, x)
    BY <1>1, <1>4 DEF Onward, CheckSteps
  <2>2. e \in BOOLEAN /\ apps' \subseteq apps \cup {r} /\ dataset' \in {dataset, <<>>, <<r>>}
    BY <1>2
  <2> HIDE DEF e
  <2> QED
    BY <1>5, <1>6, <2>1, <2>2, OnwardKeeps

-----------------------------------------------------------------------------
(* The tests one by one.                                                   *)

LEMMA WorkingAt ==
    ASSUME CheckInv, NEW r \in Runner, check[r].step \in Active
    PROVE  Working(r)
BY ActiveWorks DEF CheckInv

\* A job that has been submitted is the run's own.
LEMMA WithJobIs ==
    ASSUME CheckInv, NEW r \in Runner, NEW test \in {"job", "gpu"},
           jobs' \in {jobs, WithJob(r, test)}
    PROVE  JobsOf(r) /\ (jobs' = WithJob(r, test) => jobs'[r] = jobs[r] \cup {test})
<1>1. jobs \in [Runner -> SUBSET {"job", "gpu"}]
  BY DEF CheckInv, CheckTypeOK
<1> QED
  BY <1>1 DEF WithJob, JobsOf

LEMMA InterruptedKeeps ==
    ASSUME CheckInv, NEW r \in Runner, Interrupted(r)
    PROVE  CheckInv'
<1>1. /\ Working(r) /\ Abort(r) /\ Trouble(r)
      /\ UNCHANGED <<cluster, dataset, apps, jobs, edits>>
  BY DEF Interrupted
<1> QED
  BY <1>1, AbortKeeps, Excusing DEF CheckInv

LEMMA GrafanaKeeps ==
    ASSUME CheckInv, NEW r \in Runner, Grafana(r)
    PROVE  CheckInv'
<1>1. /\ check[r].step = "grafana" /\ UNCHANGED <<cluster, dataset, apps, jobs, edits>>
      /\ check[r].step \in Before \ {"list", "get"}
      /\ check[r].step \notin {"appRead", "appDelete"}
  BY DEF Grafana, On, Before
<1>2. Working(r)
  BY <1>1, WorkingAt DEF Active
<1>3. After(r, "grafana") \in Tests /\ After(r, "grafana") \in Before
  BY Steps DEF Tests, Active, Before
<1>7. \A wrong \in BOOLEAN : JobStep(r, After(r, "grafana"), wrong)
  BY <1>1, JobsStay DEF JobStep
<1>4. CASE Proceed(r, After(r, "grafana"), FALSE) /\ Smooth
  BY <1>1, <1>2, <1>3, <1>4, <1>7, ProceedKeeps, Excusing DEF CheckInv
<1>5. CASE Proceed(r, After(r, "grafana"), TRUE) /\ Trouble(r)
  BY <1>1, <1>2, <1>3, <1>5, <1>7, ProceedKeeps, Excusing DEF CheckInv
<1>6. CASE Abort(r) /\ Trouble(r)
  BY <1>1, <1>2, <1>6, AbortKeeps, Excusing DEF CheckInv
<1> QED
  BY <1>4, <1>5, <1>6 DEF Grafana

LEMMA SubmitJobKeeps ==
    ASSUME CheckInv, NEW r \in Runner, SubmitJob(r)
    PROVE  CheckInv'
<1>1. /\ check[r].step = "job" /\ UNCHANGED <<cluster, dataset, apps, edits>>
      /\ check[r].step \in Before \ {"list", "get"}
      /\ check[r].step \notin {"appRead", "appDelete"}
  BY DEF SubmitJob, On, Before
<1>2. Working(r)
  BY <1>1, WorkingAt DEF Active
<1>3. /\ "create" \in Tests /\ "create" \in Before /\ "create" \in Settled
      /\ "jobLog" \in Tests /\ "jobLog" \in Before
  BY DEF Tests, Active, Before, Settled
<1>4. jobs' \in {jobs, WithJob(r, "job")} => JobsOf(r)
  BY WithJobIs
<1>5. CASE jobs' = WithJob(r, "job") /\ Proceed(r, "jobLog", FALSE) /\ Smooth
  <2>1. jobs[r] = {}
    BY <1>1 DEF CheckInv, RunInv, JobPart
  <2>2. JobStep(r, "jobLog", FALSE)
    BY <1>1, <1>4, <1>5, <2>1, WithJobIs DEF JobStep
  <2> QED
    BY <1>1, <1>2, <1>3, <1>5, <2>2, ProceedKeeps, Excusing DEF CheckInv
<1>6. CASE /\ jobs' \in {jobs, WithJob(r, "job")}
           /\ Proceed(r, "create", TRUE) /\ Trouble(r)
  <2>1. JobStep(r, "create", TRUE)
    BY <1>3, <1>4, <1>6 DEF JobStep
  <2> QED
    BY <1>1, <1>2, <1>3, <1>6, <2>1, ProceedKeeps, Excusing DEF CheckInv
<1> QED
  BY <1>5, <1>6 DEF SubmitJob

LEMMA JobLogKeeps ==
    ASSUME CheckInv, NEW r \in Runner, JobLog(r)
    PROVE  CheckInv'
<1>1. /\ check[r].step = "jobLog" /\ UNCHANGED <<cluster, dataset, apps, jobs, edits>>
      /\ check[r].step \in Before \ {"list", "get"}
      /\ check[r].step \notin {"appRead", "appDelete"}
  BY DEF JobLog, On, Before
<1>2. Working(r)
  BY <1>1, WorkingAt DEF Active
<1>3. "create" \in Tests /\ "create" \in Before /\ "create" \in Settled
  BY DEF Tests, Active, Before, Settled
<1>4. \A wrong \in BOOLEAN : JobStep(r, "create", wrong)
  BY <1>1, <1>3, JobsStay DEF JobStep
<1>5. CASE Proceed(r, "create", FALSE) /\ Smooth
  BY <1>1, <1>2, <1>3, <1>4, <1>5, ProceedKeeps, Excusing DEF CheckInv
<1>6. CASE Proceed(r, "create", TRUE) /\ Trouble(r)
  BY <1>1, <1>2, <1>3, <1>4, <1>6, ProceedKeeps, Excusing DEF CheckInv
<1>7. CASE Abort(r) /\ Trouble(r)
  BY <1>1, <1>2, <1>7, AbortKeeps, Excusing DEF CheckInv
<1> QED
  BY <1>5, <1>6, <1>7 DEF JobLog

LEMMA UploadKeeps ==
    ASSUME CheckInv, NEW r \in Runner, Upload(r)
    PROVE  CheckInv'
<1>1. /\ check[r].step = "upload" /\ UNCHANGED <<cluster, dataset, apps, jobs, edits>>
      /\ check[r].step \in Within /\ check[r].step \notin {"appRead", "appDelete"}
      /\ check[r].step \in Settled \ {"gpuLog"}
  BY DEF Upload, On, Within, Settled
<1>2. Working(r)
  BY <1>1, WorkingAt DEF Active
<1>3. "read" \in Tests /\ "read" \in Within /\ "read" \in Settled
  BY DEF Tests, Active, Before, Within, Settled
<1>6. \A wrong \in BOOLEAN : JobStep(r, "read", wrong)
  BY <1>1, <1>3, SettledStays
<1>4. CASE Proceed(r, "read", dataset = <<>>) /\ Smooth
  <2>1. dataset = <<>> => blame[r] # {}
    BY <1>1 DEF CheckInv, RunInv, DatasetPart
  <2> QED
    BY <1>1, <1>2, <1>3, <1>4, <1>6, <2>1, ProceedKeeps, Excusing DEF CheckInv
<1>5. CASE Proceed(r, "read", TRUE) /\ Trouble(r)
  BY <1>1, <1>2, <1>3, <1>5, <1>6, ProceedKeeps, Excusing DEF CheckInv
<1> QED
  BY <1>4, <1>5 DEF Upload

\* A test that gives the dataset up: whoever goes beyond it has an error, or there
\* is none of its own.
LEMMA BeyondDataset ==
    ASSUME CheckInv, NEW r \in Runner, NEW wrong \in BOOLEAN, NEW x \in {{}, {"call"}},
           check[r].step \in Within, Proceed(r, After(r, "delete"), wrong),
           Excused(r, x), UNCHANGED <<cluster, apps, jobs, edits>>,
           dataset' \in {dataset, <<>>}, wrong \/ dataset' = <<>>,
           x # {} => wrong, wrong => x # {} \/ blame[r] # {}
    PROVE  CheckInv'
<1> DEFINE t == After(r, "delete")
           e == check[r].errors \/ wrong
           s == IF t # "report" THEN t ELSE IF e THEN "alarm" ELSE "ok"
<1>1. t \in Tests \cup {"report"} /\ t \in {"gpu", "appCreate", "report"}
  BY Steps DEF Tests, Active, Beyond, Before
<1>2. Working(r)
  BY WorkingAt DEF Active
<1>3. Onward(r, s, e, x) /\ e \in BOOLEAN
  BY <1>1, <1>2, ProceedsOnward
<1>4. s \in Beyond \cup {"ok", "alarm"} /\ (s = "ok" => ~e)
  BY <1>1 DEF Beyond
<1>5. /\ check'[r].step = s /\ check'[r].errors = e /\ blame'[r] = blame[r] \cup x
      /\ check[r].errors => e
      /\ ~e => dataset' = <<>>
  BY <1>3 DEF Onward, Goes, Excused
<1>6. DatasetPart(r)'
  <2>1. "left dataset" \in blame[r] => check[r].errors \/ "other run" \in blame[r]
    BY DEF CheckInv, RunInv, DatasetPart
  <2>2. s \notin Before /\ s \notin Within
    BY <1>4 DEF Before, Within, Beyond
  <2>3. "left dataset" \in blame'[r] => e \/ "other run" \in blame'[r]
    BY <1>5, <2>1
  <2>4. dataset' # <<r>> \/ e
    BY <1>5
  <2> HIDE DEF s, e
  <2> QED
    BY <1>5, <2>2, <2>3, <2>4 DEF DatasetPart
<1>7. r \in apps' => e \/ s \in {"appRead", "appDelete", "aborted"}
  BY DEF CheckInv, RunInv, ErrorPart, Within
<1>8. check[r].step \notin {"list", "get"}
  BY DEF Within
<1>9. JobPart(r)' /\ JobsOf(r)
  <2>1. check[r].step \in Settled \ {"gpuLog"} /\ t \in Settled \cup {"report"}
    BY <1>1 DEF Settled, Within, Beyond
  <2>2. JobStep(r, t, wrong) /\ JobsOf(r)
    BY <2>1, SettledStays, JobsStay
  <2>3. Goes(r, s, e)
    BY <1>3 DEF Onward
  <2> QED
    BY <2>2, <2>3, JobStepKeeps
<1> HIDE DEF s, e
<1> QED
  BY <1>2, <1>3, <1>6, <1>7, <1>8, <1>9, OnwardKeeps

LEMMA ReadDatasetKeeps ==
    ASSUME CheckInv, NEW r \in Runner, ReadDataset(r)
    PROVE  CheckInv'
<1>1. /\ check[r].step = "read" /\ UNCHANGED <<cluster, dataset, apps, jobs, edits>>
      /\ check[r].step \in Within /\ check[r].step \notin {"appRead", "appDelete"}
  BY DEF ReadDataset, On, Within
<1>2. Working(r)
  BY <1>1, WorkingAt DEF Active
<1>3. dataset = <<>> => blame[r] \cap {"call", "other run"} # {}
  BY <1>1 DEF CheckInv, RunInv, DatasetPart
<1>4. CASE dataset # <<>> /\ Proceed(r, "delete", FALSE) /\ Smooth
  <2>1. "delete" \in Tests /\ "delete" \in Within
    BY DEF Tests, Active, Before, Within
  <2>2. JobStep(r, "delete", FALSE)
    BY <1>1, SettledStays DEF Settled, Within
  <2> QED
    BY <1>1, <1>2, <1>4, <2>1, <2>2, ProceedKeeps, Excusing DEF CheckInv
<1>5. CASE dataset = <<>> /\ Abort(r) /\ Smooth
  BY <1>1, <1>2, <1>3, <1>5, AbortKeeps, Excusing DEF CheckInv
<1>6. CASE dataset = <<>> /\ Proceed(r, After(r, "delete"), TRUE) /\ Smooth
  BY <1>1, <1>3, <1>6, BeyondDataset, Excusing DEF CheckInv
<1>7. CASE Proceed(r, After(r, "delete"), TRUE) /\ Trouble(r)
  BY <1>1, <1>7, BeyondDataset, Excusing DEF CheckInv
<1> QED
  BY <1>4, <1>5, <1>6, <1>7 DEF ReadDataset

LEMMA DeleteDatasetKeeps ==
    ASSUME CheckInv, NEW r \in Runner, DeleteDataset(r)
    PROVE  CheckInv'
<1>1. /\ check[r].step \in Within /\ UNCHANGED <<cluster, apps, jobs, edits>>
  BY DEF DeleteDataset, On, Within
<1>2. dataset = <<>> => blame[r] # {}
  BY <1>1 DEF CheckInv, RunInv, DatasetPart
<1>3. CASE dataset' = <<>> /\ Proceed(r, After(r, "delete"), dataset = <<>>) /\ Smooth
  BY <1>1, <1>2, <1>3, BeyondDataset, Excusing DEF CheckInv
<1>4. CASE dataset' \in {dataset, <<>>} /\ Proceed(r, After(r, "delete"), TRUE) /\ Trouble(r)
  BY <1>1, <1>4, BeyondDataset, Excusing DEF CheckInv
<1> QED
  BY <1>3, <1>4 DEF DeleteDataset

\* The dataset is there afterwards, or an error is.
LEMMA CreateDatasetKeeps ==
    ASSUME CheckInv, NEW r \in Runner, CreateDataset(r)
    PROVE  CheckInv'
<1>1. /\ check[r].step = "create" /\ UNCHANGED <<cluster, apps, jobs, edits>>
      /\ check[r].step \in Before
  BY DEF CreateDataset, On, Before
<1>2. Working(r)
  BY <1>1, WorkingAt DEF Active
<1>3. PICK wrong \in BOOLEAN, x \in {{}, {"call"}} :
          /\ Proceed(r, "upload", wrong) /\ Excused(r, x)
          /\ dataset' \in {dataset, <<r>>}
          /\ x # {} => wrong
          /\ wrong => x # {} \/ dataset # <<>>
          /\ dataset # <<>> => wrong
          /\ dataset' = <<>> => x = {"call"}
  <2>1. CASE dataset = <<>> /\ dataset' = <<r>> /\ Proceed(r, "upload", FALSE) /\ Smooth
    BY <2>1, Excusing DEF CheckInv
  <2>2. CASE dataset = <<>> /\ dataset' = <<r>> /\ Proceed(r, "upload", TRUE) /\ Trouble(r)
    BY <2>2, Excusing DEF CheckInv
  <2>3. CASE dataset # <<>> /\ UNCHANGED dataset /\ Proceed(r, "upload", TRUE) /\ Smooth
    BY <2>3, Excusing DEF CheckInv
  <2>4. CASE UNCHANGED dataset /\ Proceed(r, "upload", TRUE) /\ Trouble(r)
    BY <2>4, Excusing DEF CheckInv
  <2> QED
    BY <2>1, <2>2, <2>3, <2>4 DEF CreateDataset
<1> DEFINE e == check[r].errors \/ wrong
<1>4. /\ dataset # <<>> => blame[r] \cap {"left dataset", "other run"} # {}
      /\ "left dataset" \in blame[r] => dataset # <<>> \/ "other run" \in blame[r]
  BY <1>1 DEF CheckInv, RunInv, DatasetPart
<1>5. Onward(r, "upload", e, x) /\ e \in BOOLEAN
  <2>1. /\ x # {} => wrong
        /\ wrong => x # {} \/ blame[r] # {}
        /\ Proceed(r, "upload", wrong) /\ Excused(r, x) /\ UNCHANGED <<cluster, edits>>
    BY <1>1, <1>3, <1>4
  <2>2. "upload" \in Tests \cup {"report"}
    BY DEF Tests, Active, Within
  <2> DEFINE s == IF "upload" # "report" THEN "upload" ELSE IF e THEN "alarm" ELSE "ok"
  <2>3. Onward(r, s, e, x) /\ e \in BOOLEAN
    BY <1>2, <2>1, <2>2, ProceedsOnward
  <2>4. s = "upload"
    OBVIOUS
  <2> HIDE DEF s, e
  <2> QED
    BY <2>3, <2>4
<1>6. check'[r].step = "upload" /\ check'[r].errors = e /\ blame'[r] = blame[r] \cup x
  BY <1>5 DEF Onward, Goes, Excused
<1>7. DatasetPart(r)'
  <2>1. dataset' = <<>> => blame'[r] \cap {"call", "other run"} # {}
    BY <1>3, <1>6
  <2>2. "left dataset" \in blame'[r] => e \/ "other run" \in blame'[r]
    BY <1>3, <1>4, <1>6
  <2> HIDE DEF e
  <2> QED
    BY <1>6, <2>1, <2>2 DEF DatasetPart, Before, Within, Beyond
<1>8. r \in apps' => e
  BY <1>1 DEF CheckInv, RunInv, ErrorPart
<1>9. JobPart(r)' /\ JobsOf(r)
  <2>1. JobStep(r, "upload", wrong) /\ JobsOf(r)
    BY <1>1, SettledStays, JobsStay DEF Settled, Within
  <2>2. Goes(r, "upload", e)
    BY <1>5 DEF Onward
  <2> QED
    BY <2>1, <2>2, JobStepKeeps
<1> HIDE DEF e
<1> QED
  BY <1>1, <1>2, <1>3, <1>5, <1>7, <1>8, <1>9, OnwardKeeps

LEMMA SubmitGpuKeeps ==
    ASSUME CheckInv, NEW r \in Runner, SubmitGpu(r)
    PROVE  CheckInv'
<1>1. /\ check[r].step = "gpu" /\ UNCHANGED <<cluster, dataset, apps, edits>>
      /\ check[r].step \in Beyond /\ check[r].step \notin {"appRead", "appDelete"}
  BY DEF SubmitGpu, On, Beyond
<1>2. Working(r)
  BY <1>1, WorkingAt DEF Active
<1>3. jobs' \in {jobs, WithJob(r, "gpu")} => JobsOf(r)
  BY WithJobIs
<1>4. CASE jobs' = WithJob(r, "gpu") /\ Proceed(r, "gpuLog", FALSE) /\ Smooth
  <2>1. "gpuLog" \in Tests /\ "gpuLog" \in Beyond
    BY DEF Tests, Active, Beyond
  <2>2. JobStep(r, "gpuLog", FALSE)
    BY <1>1, <1>3, <1>4 DEF JobStep
  <2> QED
    BY <1>1, <1>2, <1>4, <2>1, <2>2, ProceedKeeps, Excusing DEF CheckInv
<1>5. CASE /\ jobs' \in {jobs, WithJob(r, "gpu")}
           /\ Proceed(r, After(r, "gpu"), TRUE) /\ Trouble(r)
  <2>1. /\ After(r, "gpu") \in Tests \cup {"report"}
        /\ After(r, "gpu") \in Beyond \cup {"report"}
        /\ After(r, "gpu") \in Settled \cup {"report"}
    BY Steps DEF Tests, Active, Beyond, Settled
  <2>2. JobStep(r, After(r, "gpu"), TRUE)
    BY <1>3, <1>5, <2>1 DEF JobStep
  <2> QED
    BY <1>1, <1>2, <1>5, <2>1, <2>2, ProceedKeeps, Excusing DEF CheckInv
<1> QED
  BY <1>4, <1>5 DEF SubmitGpu

LEMMA GpuLogKeeps ==
    ASSUME CheckInv, NEW r \in Runner, GpuLog(r)
    PROVE  CheckInv'
<1>1. /\ check[r].step = "gpuLog" /\ UNCHANGED <<cluster, dataset, apps, jobs, edits>>
      /\ check[r].step \in Beyond /\ check[r].step \notin {"appRead", "appDelete"}
  BY DEF GpuLog, On, Beyond
<1>2. Working(r)
  BY <1>1, WorkingAt DEF Active
<1>3. CASE Abort(r) /\ Blame(r, "gpu") /\ UNCHANGED troubles
  BY <1>1, <1>2, <1>3, AbortKeeps, Excusing DEF CheckInv
<1>4. CASE Abort(r) /\ Trouble(r)
  BY <1>1, <1>2, <1>4, AbortKeeps, Excusing DEF CheckInv
<1>5. CASE Proceed(r, After(r, "gpu"), TRUE) /\ Trouble(r)
  <2>1. /\ After(r, "gpu") \in Tests \cup {"report"}
        /\ After(r, "gpu") \in Beyond \cup {"report"}
        /\ After(r, "gpu") \in Settled \cup {"report"}
    BY Steps DEF Tests, Active, Beyond, Settled
  <2>2. JobStep(r, After(r, "gpu"), TRUE)
    BY <1>1, <2>1, JobsStay DEF JobStep
  <2> QED
    BY <1>1, <1>2, <1>5, <2>1, <2>2, ProceedKeeps, Excusing DEF CheckInv
<1> QED
  BY <1>3, <1>4, <1>5 DEF GpuLog

LEMMA CreateAppKeeps ==
    ASSUME CheckInv, NEW r \in Runner, CreateApp(r)
    PROVE  CheckInv'
<1>1. /\ check[r].step \in Beyond /\ check[r].step \in Settled \ {"gpuLog"}
      /\ UNCHANGED <<cluster, dataset, jobs, edits>> /\ apps' \subseteq apps \cup {r}
  BY DEF CreateApp, On, Beyond, Settled
<1>2. Working(r)
  BY <1>1, WorkingAt DEF Active
<1>7. \A t \in Settled \cup {"report"}, wrong \in BOOLEAN : JobStep(r, t, wrong)
  BY <1>1, SettledStays
<1>3. CASE Proceed(r, "appRead", FALSE) /\ Smooth
  <2>1. "appRead" \in Tests /\ "appRead" \in Beyond /\ "appRead" \in Settled
    BY DEF Tests, Active, Beyond, Settled
  <2> QED
    BY <1>1, <1>2, <1>3, <1>7, <2>1, ProceedKeeps, Excusing DEF CheckInv
<1>4. CASE Proceed(r, "report", TRUE) /\ Trouble(r)
  BY <1>1, <1>2, <1>4, <1>7, ProceedKeeps, Excusing DEF CheckInv
<1> QED
  BY <1>3, <1>4 DEF CreateApp

LEMMA ReadAppKeeps ==
    ASSUME CheckInv, NEW r \in Runner, ReadApp(r)
    PROVE  CheckInv'
<1>1. /\ check[r].step \in Beyond /\ check[r].step \in Settled \ {"gpuLog"}
      /\ UNCHANGED <<cluster, dataset, apps, jobs, edits>>
  BY DEF ReadApp, On, Beyond, Settled
<1>2. Working(r)
  BY <1>1, WorkingAt DEF Active
<1>7. \A t \in Settled \cup {"report"}, wrong \in BOOLEAN : JobStep(r, t, wrong)
  BY <1>1, SettledStays
<1>3. "appDelete" \in Tests /\ "appDelete" \in Beyond /\ "appDelete" \in Settled
  BY DEF Tests, Active, Beyond, Settled
<1>4. CASE Proceed(r, "appDelete", FALSE) /\ Smooth
  BY <1>1, <1>2, <1>3, <1>4, <1>7, ProceedKeeps, Excusing DEF CheckInv
<1>5. CASE Proceed(r, "appDelete", TRUE) /\ Trouble(r)
  BY <1>1, <1>2, <1>3, <1>5, <1>7, ProceedKeeps, Excusing DEF CheckInv
<1> QED
  BY <1>4, <1>5 DEF ReadApp

LEMMA DeleteAppKeeps ==
    ASSUME CheckInv, NEW r \in Runner, DeleteApp(r)
    PROVE  CheckInv'
<1>1. /\ check[r].step \in Beyond /\ check[r].step \in Settled \ {"gpuLog"}
      /\ UNCHANGED <<cluster, dataset, jobs, edits>> /\ apps' \subseteq apps \cup {r}
  BY DEF DeleteApp, On, Beyond, Settled
<1>2. Working(r)
  BY <1>1, WorkingAt DEF Active
<1>7. \A t \in Settled \cup {"report"}, wrong \in BOOLEAN : JobStep(r, t, wrong)
  BY <1>1, SettledStays
<1>3. CASE apps' = apps \ {r} /\ Proceed(r, "report", FALSE) /\ Smooth
  BY <1>1, <1>2, <1>3, <1>7, ProceedKeeps, Excusing DEF CheckInv
<1>4. CASE Proceed(r, "report", TRUE) /\ Trouble(r)
  BY <1>1, <1>2, <1>4, <1>7, ProceedKeeps, Excusing DEF CheckInv
<1> QED
  BY <1>3, <1>4 DEF DeleteApp

-----------------------------------------------------------------------------
(* The lists.                                                              *)

\* What a run has seen of its lists before it looks for entry i of a kind.
SeenTo(r, i) ==
    LET K == Kinds[check[r].kind]
    IN  /\ \A j \in DOMAIN Kinds : j < check[r].kind => Passed(Kinds[j])
        /\ Cardinality(cluster[K]) = Len(Basic[K])
        /\ \A k \in DOMAIN Basic[K] : k < i => Basic[K][k] \in cluster[K]

\* At the end of a kind all of it has been seen.
LEMMA SeenAll ==
    ASSUME CheckTypeOK, NEW r \in Runner, NEW i \in Nat, SeenTo(r, i),
           \/ Kinds[check[r].kind] \notin Named
           \/ i > Len(Basic[Kinds[check[r].kind]])
    PROVE  \A j \in DOMAIN Kinds : j <= check[r].kind => Passed(Kinds[j])
<1> DEFINE K == Kinds[check[r].kind]
<1>1. /\ check[r].kind \in 1..Len(Kinds) /\ Len(Kinds) \in Nat /\ DOMAIN Kinds = 1..Len(Kinds)
      /\ K \in Kind /\ Len(Basic[K]) \in Nat /\ DOMAIN Basic[K] = 1..Len(Basic[K])
  BY KindFacts
<1>2. K \in Named => \A k \in DOMAIN Basic[K] : Basic[K][k] \in cluster[K]
  BY <1>1 DEF SeenTo
<1>3. Passed(K)
  BY <1>2 DEF Passed, SeenTo, Goal
<1> HIDE DEF K
<1>4. ASSUME NEW j \in DOMAIN Kinds, j <= check[r].kind
      PROVE  Passed(Kinds[j])
  <2>1. CASE j < check[r].kind
    BY <2>1 DEF SeenTo
  <2>2. CASE j = check[r].kind
    BY <2>2, <1>3 DEF K
  <2> QED
    BY <1>1, <1>4, <2>1, <2>2
<1> QED
  BY <1>4

\* Going on in the lists, with or without an error.
LEMMA ListingKeeps ==
    ASSUME CheckInv, NEW r \in Runner, NEW i \in Nat \ {0}, NEW wrong \in BOOLEAN,
           NEW x \in {{}, {"call"}}, check[r].step \in {"list", "get"},
           NextName(r, i, wrong), Excused(r, x), UNCHANGED <<cluster, dataset, apps, jobs, edits>>,
           x # {} => wrong, wrong => x # {} \/ blame[r] # {},
           "edit" \notin blame[r] /\ ~check[r].errors /\ ~wrong => SeenTo(r, i)
    PROVE  CheckInv'
<1> DEFINE K == Kinds[check[r].kind]
           e == check[r].errors \/ wrong
           Done == K \notin Named \/ i > Len(Basic[K])
<1>1. Working(r) /\ check[r].step \in Before /\ check[r].step # "aborted"
  BY WorkingAt DEF Active, Before
<1>2. /\ check[r].kind \in 1..Len(Kinds) /\ Len(Kinds) \in Nat /\ DOMAIN Kinds = 1..Len(Kinds)
      /\ K \in Kind /\ Len(Basic[K]) \in Nat /\ DOMAIN Basic[K] = 1..Len(Basic[K])
  BY KindFacts DEF CheckInv
<1>3. e \in BOOLEAN /\ blame'[r] = blame[r] \cup x /\ x \subseteq {"call", "gpu"}
  BY DEF Excused
<1>4. RunInv(r)
  BY DEF CheckInv
<1>5. "edit" \notin blame[r] /\ ~e /\ Done =>
          \A j \in DOMAIN Kinds : j <= check[r].kind => Passed(Kinds[j])
  BY SeenAll DEF CheckInv
<1>6. ASSUME NEW s \in {"list", "get"}, Goes(r, s, e)
      PROVE  /\ DatasetPart(r)' /\ ErrorPart(r)'
             /\ ("edit" \notin blame[r] /\ ~e => Looked(r)') => ClusterPart(r)'
  <2>1. check'[r].step = s /\ check'[r].errors = e
    BY <1>6 DEF Goes
  <2>2. s \in Before
    BY DEF Before
  <2>3. DatasetPart(r)'
    BY <1>1, <1>3, <1>6, <2>2, DatasetStays
  <2>4. ErrorPart(r)'
    <3>1. /\ check[r].errors => blame[r] # {}
          /\ "call" \in blame[r] => check[r].errors
          /\ r \in apps => check[r].errors
      BY <1>1, <1>4 DEF RunInv, ErrorPart, On
    <3> QED
      BY <1>3, <2>1, <3>1 DEF ErrorPart, On
  <2>5. /\ "edit" \in blame'[r] <=> "edit" \in blame[r]
        /\ "cluster" \in blame'[r] <=> "cluster" \in blame[r]
        /\ AsExpected' <=> AsExpected
    BY <1>3 DEF AsExpected
  <2>6. "edit" \notin blame[r] => ("cluster" \in blame[r] <=> ~AsExpected)
    BY <1>1, <1>4 DEF RunInv, ClusterPart
  <2> HIDE DEF e
  <2> QED
    BY <2>1, <2>3, <2>4, <2>5, <2>6 DEF ClusterPart, On
<1>10. jobs[r] = {} /\ jobs' = jobs /\ JobsOf(r)
  BY <1>4, JobsStay DEF RunInv, JobPart
<1>7. CASE /\ K \in Named /\ i <= Len(Basic[K])
           /\ Goes(r, "get", e)
           /\ check'[r].at = i /\ check'[r].kind = check[r].kind
  <2>1. check'[r].step = "get" /\ check'[r].errors = e
    BY <1>7 DEF Goes
  <2>2. i \in DOMAIN Basic[K]
    BY <1>2, <1>7
  <2>3. "edit" \notin blame[r] /\ ~e => Looked(r)'
    <3>1. SUFFICES ASSUME "edit" \notin blame[r], ~e PROVE Looked(r)'
      OBVIOUS
    <3>2. SeenTo(r, i)
      BY <3>1
    <3> QED
      BY <1>7, <2>1, <3>2 DEF Looked, SeenTo, On, Passed
  <2>4. ClusterPart(r)' /\ DatasetPart(r)' /\ ErrorPart(r)'
    BY <1>6, <1>7, <2>3
  <2>5. JobPart(r)'
    BY <1>10, <2>1 DEF JobPart, Settled, Within, Beyond
  <2> HIDE DEF e, K
  <2> QED
    BY <1>1, <1>7, <1>10, <2>2, <2>4, <2>5, RunKeeps DEF K
<1>8. CASE /\ Done /\ check[r].kind < Len(Kinds)
           /\ Goes(r, "list", e) /\ check'[r].kind = check[r].kind + 1
  <2>1. check'[r].step = "list" /\ check'[r].errors = e
    BY <1>8 DEF Goes
  <2>2. "edit" \notin blame[r] /\ ~e => Looked(r)'
    <3>1. SUFFICES ASSUME "edit" \notin blame[r], ~e PROVE Looked(r)'
      OBVIOUS
    <3>2. \A j \in DOMAIN Kinds : j <= check[r].kind => Passed(Kinds[j])
      BY <1>5, <1>8, <3>1
    <3>3. \A j \in DOMAIN Kinds : j < check'[r].kind => j <= check[r].kind
      BY <1>2, <1>8
    <3>4. \A j \in DOMAIN Kinds : j < check'[r].kind => Passed(Kinds[j])'
      BY <3>2, <3>3 DEF Passed
    <3> QED
      BY <2>1, <3>4 DEF Looked, On
  <2>3. ClusterPart(r)' /\ DatasetPart(r)' /\ ErrorPart(r)'
    BY <1>6, <1>8, <2>2
  <2>4. JobPart(r)'
    BY <1>10, <2>1 DEF JobPart, Settled, Within, Beyond
  <2> HIDE DEF e, K
  <2> QED
    BY <1>1, <1>8, <1>10, <2>3, <2>4, RunKeeps
<1>9. CASE Done /\ check[r].kind = Len(Kinds) /\ Goes(r, After(r, "list"), e)
  <2>1. After(r, "list") \in Tests \cap Before
    BY Steps DEF Tests, Active, Before
  <2> DEFINE s == After(r, "list")
  <2>2. s \in CheckSteps \ {"list", "get", "idle", "ok", "alarm", "aborted"}
    BY Steps DEF CheckSteps
  <2> HIDE DEF s
  <2>3. Onward(r, s, e, x)
    BY <1>3, <1>9, <2>2 DEF Onward, s
  <2>4. DatasetPart(r)'
    BY <1>1, <1>3, <1>9, <2>1, DatasetStays DEF s
  <2>5. "edit" \notin blame[r] /\ ~e => AsExpected
    BY <1>2, <1>5, <1>9, PassesExpected DEF CheckInv
  <2>6. r \in apps' => e
    BY <1>4 DEF RunInv, ErrorPart
  <2>7. JobPart(r)'
    <3>1. check'[r].step = s /\ check'[r].answers = check[r].answers
      BY <2>3 DEF Onward, Goes
    <3>2. s \in {"grafana", IF check[r].answers.ce THEN "create" ELSE "job"}
      BY Steps DEF s
    <3> QED
      BY <1>10, <3>1, <3>2 DEF JobPart, LeftJobs, Settled, Within, Beyond
  <2> HIDE DEF e
  <2> QED
    BY <1>1, <1>3, <1>10, <2>3, <2>4, <2>5, <2>6, <2>7, OnwardKeeps
<1> QED
  BY <1>7, <1>8, <1>9, NextNameIs DEF CheckInv

LEMMA ListKindKeeps ==
    ASSUME CheckInv, NEW r \in Runner, ListKind(r)
    PROVE  CheckInv'
<1> DEFINE K == Kinds[check[r].kind]
<1>1. check[r].step = "list" /\ UNCHANGED <<cluster, dataset, apps, jobs, edits>>
  BY DEF ListKind, On
<1>2. K \in Kind /\ check[r].kind \in DOMAIN Kinds /\ DOMAIN Basic[K] = 1..Len(Basic[K])
  BY KindFacts DEF CheckInv
<1>3. ClusterPart(r) /\ Working(r)
  BY <1>1, WorkingAt DEF CheckInv, RunInv, Active, Before
<1>4. CASE NextName(r, 1, Miscounted(K)) /\ Smooth
  <2>1. Miscounted(K) => blame[r] # {}
    BY <1>2, <1>3, ExpectedPasses DEF CheckInv, ClusterPart
  <2>2. "edit" \notin blame[r] /\ ~check[r].errors /\ ~Miscounted(K) => SeenTo(r, 1)
    <3>1. SUFFICES ASSUME "edit" \notin blame[r], ~check[r].errors, ~Miscounted(K)
                   PROVE  SeenTo(r, 1)
      OBVIOUS
    <3>2. \A j \in DOMAIN Kinds : j < check[r].kind => Passed(Kinds[j])
      BY <1>1, <1>3, <3>1 DEF ClusterPart, Looked, On
    <3> QED
      BY <1>2, <3>1, <3>2 DEF SeenTo, Miscounted
  <2>3. Miscounted(K) \in BOOLEAN
    BY DEF Miscounted
  <2> HIDE DEF K
  <2> QED
    BY <1>1, <1>4, <2>1, <2>2, <2>3, ListingKeeps, Excusing DEF CheckInv
<1>5. CASE NextName(r, 1, TRUE) /\ Trouble(r)
  <2>1. Excused(r, {"call"}) /\ {"call"} # {} /\ 1 \in Nat \ {0}
    BY <1>5, Excusing DEF CheckInv
  <2> QED
    BY <1>1, <1>5, <2>1, ListingKeeps
<1> QED
  BY <1>4, <1>5 DEF ListKind

LEMMA GetNameKeeps ==
    ASSUME CheckInv, NEW r \in Runner, GetName(r)
    PROVE  CheckInv'
<1> DEFINE K == Kinds[check[r].kind]
           i == check[r].at
           missing == Basic[K][i] \notin cluster[K]
<1>1. check[r].step = "get" /\ UNCHANGED <<cluster, dataset, apps, jobs, edits>>
  BY DEF GetName, On
<1>2. /\ K \in Named /\ K \in Kind /\ check[r].kind \in DOMAIN Kinds
      /\ DOMAIN Basic[K] = 1..Len(Basic[K]) /\ Len(Basic[K]) \in Nat /\ i \in DOMAIN Basic[K]
  BY <1>1, KindFacts DEF CheckInv, CheckTypeOK, RunInv, On
<1>3. ClusterPart(r) /\ Working(r)
  BY <1>1, WorkingAt DEF CheckInv, RunInv, Active, Before
<1>4. i + 1 \in Nat \ {0}
  BY <1>2
<1>5. CASE NextName(r, i + 1, missing) /\ Smooth
  <2>1. missing => blame[r] # {}
    <3>1. missing => ~AsExpected
      BY <1>2 DEF AsExpected, Goal
    <3> QED
      BY <1>3, <3>1 DEF ClusterPart
  <2>2. "edit" \notin blame[r] /\ ~check[r].errors /\ ~missing => SeenTo(r, i + 1)
    <3>1. SUFFICES ASSUME "edit" \notin blame[r], ~check[r].errors, ~missing
                   PROVE  SeenTo(r, i + 1)
      OBVIOUS
    <3>2. /\ \A j \in DOMAIN Kinds : j < check[r].kind => Passed(Kinds[j])
          /\ Cardinality(cluster[K]) = Len(Basic[K])
          /\ \A k \in DOMAIN Basic[K] : k < i => Basic[K][k] \in cluster[K]
      BY <1>1, <1>3, <3>1 DEF ClusterPart, Looked, On
    <3>3. \A k \in DOMAIN Basic[K] : k < i + 1 => k < i \/ k = i
      BY <1>2
    <3> QED
      BY <3>1, <3>2, <3>3 DEF SeenTo
  <2>3. missing \in BOOLEAN
    OBVIOUS
  <2> HIDE DEF missing, i
  <2> QED
    BY <1>1, <1>4, <1>5, <2>1, <2>2, <2>3, ListingKeeps, Excusing DEF CheckInv
<1>6. CASE NextName(r, i + 1, TRUE) /\ Trouble(r)
  BY <1>1, <1>4, <1>6, ListingKeeps, Excusing DEF CheckInv
<1> QED
  BY <1>5, <1>6 DEF GetName, Misnamed

-----------------------------------------------------------------------------
(* A run begins, and others change the cluster.                            *)

LEMMA EditKeeps ==
    ASSUME CheckInv, NEW K \in Kind, NEW names \in SUBSET Name, Edit(K, names)
    PROVE  CheckInv'
<1>1. /\ cluster' = [cluster EXCEPT ![K] = names] /\ edits' = edits + 1 /\ edits < MaxEdits
      /\ blame' = [r \in Runner |-> blame[r] \cup (IF Working(r) THEN {"edit"} ELSE {})]
      /\ UNCHANGED <<dataset, apps, jobs, check, troubles>>
  BY DEF Edit
<1>2. CheckTypeOK'
  <2>1. cluster' \in [Kind -> SUBSET Name]
    BY <1>1 DEF CheckInv, CheckTypeOK
  <2>2. edits' \in 0..MaxEdits
    BY <1>1, PostflightAssumption DEF CheckInv, CheckTypeOK
  <2>3. blame' \in [Runner -> SUBSET Excuses]
    BY <1>1 DEF CheckInv, CheckTypeOK, Excuses
  <2> QED
    BY <1>1, <2>1, <2>2, <2>3 DEF CheckInv, CheckTypeOK, On
<1>3. ASSUME NEW r \in Runner PROVE RunInv(r)'
  <2>1. /\ RunInv(r) /\ check'[r] = check[r]
        /\ dataset' = dataset /\ apps' = apps /\ jobs' = jobs
    BY <1>1 DEF CheckInv
  <2>2. /\ Working(r)' <=> Working(r)
        /\ \A q \in Runner : Working(q)' <=> Working(q)
        /\ Working(r) => blame'[r] = blame[r] \cup {"edit"}
        /\ ~Working(r) => blame'[r] = blame[r]
        /\ \A y : y # "edit" => (y \in blame'[r] <=> y \in blame[r])
    BY <1>1 DEF Working
  <2>3. ClusterPart(r)'
    BY <2>1, <2>2 DEF RunInv, ClusterPart, On, Working, Ended
  <2>4. DatasetPart(r)'
    BY <2>1, <2>2 DEF RunInv, DatasetPart
  <2>5. ErrorPart(r)'
    BY <2>1, <2>2 DEF RunInv, ErrorPart, On
  <2>6. JobPart(r)'
    BY <2>1 DEF RunInv, JobPart, LeftJobs
  <2> QED
    BY <2>1, <2>2, <2>3, <2>4, <2>5, <2>6 DEF RunInv, On
<1> QED
  BY <1>2, <1>3 DEF CheckInv

LEMMA StartKeeps ==
    ASSUME CheckInv, NEW r \in Runner, Start(r)
    PROVE  CheckInv'
<1>1. PICK a \in Answer : check' = [check EXCEPT ![r] =
          [step |-> "list", kind |-> 1, at |-> 1, errors |-> FALSE, answers |-> a]]
  BY DEF Start
<1>2. /\ ~Working(r) /\ apps' = apps \ {r} /\ jobs' = [jobs EXCEPT ![r] = {}]
      /\ UNCHANGED <<cluster, dataset, troubles, edits>>
  BY DEF Start
<1>3. blame' = [q \in Runner |->
          IF q # r THEN blame[q] \cup (IF Working(q) THEN {"other run"} ELSE {})
          ELSE {e \in {"left dataset", "cluster", "other run"} :
                  \/ e = "left dataset" /\ dataset # <<>>
                  \/ e = "cluster" /\ ~AsExpected
                  \/ e = "other run" /\ \E p \in Runner : Working(p)}]
  BY DEF Start
<1>4. 1 \in DOMAIN Kinds /\ \A j \in DOMAIN Kinds : ~(j < 1)
  BY PostflightAssumption
<1>5. /\ check'[r].step = "list" /\ check'[r].kind = 1 /\ check'[r].errors = FALSE
      /\ \A q \in Runner \ {r} : check'[q] = check[q]
      /\ check' \in Checks
  BY <1>1, <1>4 DEF CheckInv, CheckTypeOK, Checks, CheckSteps
<1>6. /\ blame' \in [Runner -> SUBSET Excuses]
      /\ "left dataset" \in blame'[r] <=> dataset # <<>>
      /\ "cluster" \in blame'[r] <=> ~AsExpected
      /\ (\E p \in Runner : Working(p)) => "other run" \in blame'[r]
      /\ "edit" \notin blame'[r] /\ "call" \notin blame'[r]
  BY <1>3 DEF CheckInv, CheckTypeOK, Excuses
<1>10. jobs'[r] = {} /\ JobsOf(r)
  BY <1>2 DEF CheckInv, CheckTypeOK, JobsOf
<1>7. CheckTypeOK'
  <2>1. \A q \in Runner : On(q, "get")' =>
            check'[q].at \in DOMAIN Basic[Kinds[check'[q].kind]]
    BY <1>5 DEF CheckInv, CheckTypeOK, On
  <2>2. /\ cluster' \in [Kind -> SUBSET Name] /\ apps' \subseteq Runner
        /\ dataset' = <<>> \/ \E q \in Runner : dataset' = <<q>>
        /\ troubles' \in 0..MaxTroubles /\ edits' \in 0..MaxEdits
    BY <1>2 DEF CheckInv, CheckTypeOK
  <2> QED
    BY <1>5, <1>6, <1>10, <2>1, <2>2 DEF CheckTypeOK, Checks, JobsOf
<1>8. RunInv(r)'
  <2>1. AsExpected' <=> AsExpected
    BY <1>2 DEF AsExpected
  <2>2. \A q \in Runner \ {r} : Working(q)' => "other run" \in blame'[r]
    BY <1>5, <1>6 DEF Working
  <2>3. Looked(r)'
    BY <1>4, <1>5 DEF Looked, On
  <2>4. ClusterPart(r)'
    BY <1>5, <1>6, <2>1, <2>3 DEF ClusterPart, On
  <2>5. DatasetPart(r)'
    BY <1>2, <1>5, <1>6 DEF DatasetPart, Within, Beyond
  <2>6. ErrorPart(r)'
    BY <1>2, <1>5, <1>6 DEF ErrorPart, On
  <2>7. JobPart(r)'
    BY <1>5, <1>10 DEF JobPart, Settled, Within, Beyond
  <2> QED
    BY <1>5, <2>2, <2>4, <2>5, <2>6, <2>7 DEF RunInv, On
<1>9. ASSUME NEW q \in Runner \ {r} PROVE RunInv(q)'
  <2>1. RunInv(q) /\ check'[q] = check[q] /\ dataset' = dataset
    BY <1>2, <1>5 DEF CheckInv
  <2>2. blame'[q] = blame[q] \cup (IF Working(q) THEN {"other run"} ELSE {})
    BY <1>3
  <2>3. Working(q)' <=> Working(q)
    BY <2>1 DEF Working
  <2>4. (AsExpected' <=> AsExpected) /\ (Looked(q)' <=> Looked(q))
    BY <1>2, <2>1 DEF AsExpected, Looked, Passed, On
  <2>5. ClusterPart(q)'
    BY <2>1, <2>2, <2>3, <2>4 DEF RunInv, ClusterPart, On
  <2>6. DatasetPart(q)'
    BY <2>1, <2>2 DEF RunInv, DatasetPart
  <2>7. ErrorPart(q)'
    BY <1>2, <2>1, <2>2 DEF RunInv, ErrorPart, On
  <2>8. \A p \in Runner \ {q} : (Working(q) /\ Working(p))' => "other run" \in blame'[q]
    BY <2>2, <2>3
  <2>9. JobPart(q)'
    BY <1>10, <2>1 DEF RunInv, JobPart, LeftJobs, JobsOf
  <2> QED
    BY <2>1, <2>5, <2>6, <2>7, <2>8, <2>9 DEF RunInv, On
<1> QED
  BY <1>7, <1>8, <1>9 DEF CheckInv

-----------------------------------------------------------------------------
(* The invariant, and what follows from it.                                *)

LEMMA CheckInitially ==
    ASSUME CheckInit
    PROVE  CheckInv
<1>1. /\ cluster = [K \in Kind |-> Goal(K)] /\ dataset = <<>> /\ apps = {}
      /\ jobs = [r \in Runner |-> {}] /\ troubles = 0 /\ edits = 0 /\ blame = [r \in Runner |-> {}]
      /\ \A r \in Runner : check[r].step = "idle" /\ check[r].errors = FALSE
  BY DEF CheckInit
<1>2. CheckTypeOK
  <2>1. (CHOOSE a \in Answer : TRUE) \in Answer
    BY PostflightAssumption
  <2>2. 1 \in DOMAIN Kinds /\ "idle" \in CheckSteps
    BY PostflightAssumption DEF CheckSteps
  <2>3. check \in Checks
    BY <2>1, <2>2 DEF CheckInit, Checks
  <2>4. cluster \in [Kind -> SUBSET Name]
    BY <1>1, PostflightAssumption DEF Goal
  <2> QED
    BY <1>1, <2>3, <2>4, PostflightAssumption DEF CheckTypeOK, Checks, On
<1>3. ASSUME NEW r \in Runner PROVE RunInv(r)
  BY <1>1 DEF RunInv, ClusterPart, DatasetPart, ErrorPart, JobPart, Working, Ended, On,
              Before, Within, Beyond, Settled
<1> QED
  BY <1>2, <1>3 DEF CheckInv

LEMMA CheckKeeps ==
    ASSUME CheckInv, [CheckNext]_checkVars
    PROVE  CheckInv'
<1>1. ASSUME NEW r \in Runner,
             \/ Start(r) \/ Interrupted(r) \/ ListKind(r) \/ GetName(r) \/ Grafana(r)
             \/ SubmitJob(r) \/ JobLog(r)
      PROVE  CheckInv'
  BY <1>1, StartKeeps, InterruptedKeeps, ListKindKeeps, GetNameKeeps, GrafanaKeeps,
     SubmitJobKeeps, JobLogKeeps
<1>2. ASSUME NEW r \in Runner,
             \/ CreateDataset(r) \/ Upload(r) \/ ReadDataset(r) \/ DeleteDataset(r)
      PROVE  CheckInv'
  BY <1>2, CreateDatasetKeeps, UploadKeeps, ReadDatasetKeeps, DeleteDatasetKeeps
<1>3. ASSUME NEW r \in Runner,
             \/ SubmitGpu(r) \/ GpuLog(r) \/ CreateApp(r) \/ ReadApp(r) \/ DeleteApp(r)
      PROVE  CheckInv'
  BY <1>3, SubmitGpuKeeps, GpuLogKeeps, CreateAppKeeps, ReadAppKeeps, DeleteAppKeeps
<1>4. ASSUME NEW K \in Kind, NEW names \in SUBSET Name, Edit(K, names)
      PROVE  CheckInv'
  BY <1>4, EditKeeps
<1>5. CASE UNCHANGED checkVars
  <2>1. CheckTypeOK'
    BY <1>5 DEF checkVars, CheckInv, CheckTypeOK, On
  <2>2. ASSUME NEW r \in Runner PROVE RunInv(r)'
    <3>1. ClusterPart(r)'
      BY <1>5 DEF checkVars, CheckInv, RunInv, ClusterPart, Looked, Passed, AsExpected,
                  Working, On
    <3>2. DatasetPart(r)' /\ ErrorPart(r)' /\ JobPart(r)'
      BY <1>5 DEF checkVars, CheckInv, RunInv, DatasetPart, ErrorPart, JobPart, LeftJobs, On
    <3> QED
      BY <1>5, <3>1, <3>2 DEF checkVars, CheckInv, RunInv, Working, On
  <2> QED
    BY <2>1, <2>2 DEF CheckInv
<1> QED
  BY <1>1, <1>2, <1>3, <1>4, <1>5 DEF CheckNext

\* CheckInv follows every run of the check, whatever fails and whoever else is
\* there.
THEOREM CheckIsInvariant == CheckSpec => []CheckInv
BY CheckInitially, CheckKeeps, PTL DEF CheckSpec

\* The state of the checks has its type: a run is at an entry its list has.
THEOREM CheckTypes == CheckSpec => []CheckTypeOK
<1>1. CheckInv => CheckTypeOK
  BY DEF CheckInv
<1> QED
  BY <1>1, CheckIsInvariant, PTL

\* A report of log_information_report that says OK is earned, for any lists, any
\* number of runs at once and of failures: no call has failed, the cluster was as
\* its lists say unless others changed it, the dataset and the app of the run are
\* gone, and the job of jobs_testing, which no call deletes, is all that it leaves.
THEOREM OkIsEarned == CheckSpec => []OkMeansAllWell
<1>1. ASSUME CheckInv, NEW r \in Runner, On(r, "ok")
      PROVE  /\ "call" \notin blame[r]
             /\ "cluster" \in blame[r] => "edit" \in blame[r]
             /\ "left dataset" \in blame[r] => "other run" \in blame[r]
             /\ dataset # <<r>> /\ r \notin apps
             /\ jobs[r] = IF check[r].answers.ce THEN {} ELSE {"job"}
  <2>1. ~check[r].errors /\ check[r].step = "ok" /\ RunInv(r)
    BY <1>1 DEF CheckInv, RunInv, ErrorPart, On
  <2>2. dataset # <<r>> /\ ("left dataset" \in blame[r] => "other run" \in blame[r])
    BY <2>1 DEF RunInv, DatasetPart
  <2>3. "call" \notin blame[r] /\ r \notin apps
    BY <2>1 DEF RunInv, ErrorPart, On
  <2>4. "cluster" \in blame[r] => "edit" \in blame[r]
    BY <1>1, <2>1 DEF RunInv, ClusterPart
  <2>5. jobs[r] = IF check[r].answers.ce THEN {} ELSE {"job"}
    BY <2>1 DEF RunInv, JobPart, LeftJobs
  <2> QED
    BY <2>2, <2>3, <2>4, <2>5
<1>2. CheckInv => OkMeansAllWell
  BY <1>1 DEF OkMeansAllWell
<1> QED
  BY <1>2, CheckIsInvariant, PTL

\* No report of errors, and no end without a report, is without a cause.
THEOREM AlarmsHaveCauses == CheckSpec => []NoIdleAlarm
<1>1. CheckInv => NoIdleAlarm
  BY DEF CheckInv, RunInv, ErrorPart, NoIdleAlarm
<1> QED
  BY <1>1, CheckIsInvariant, PTL

-----------------------------------------------------------------------------
(***************************************************************************)
(* III. THE DOWNLOADER OF A MODEL                                          *)
(* For every number of pods and of failures.                               *)
(***************************************************************************)

\* A downloader that has not ended badly has the model when it waits and after.
LoadInv ==
    /\ LoadTypeOK
    /\ \A p \in Pod :
          /\ loader[p] = "sleep" => volume[p] = "whole"
          /\ loader[p] \in {"exited", "serves"} => volume[p] = "whole" \/ p \in unseen

LEMMA LoadInvInit == LoadInit => LoadInv
BY ModelDownloadAssumption DEF LoadInit, LoadInv, LoadTypeOK

LEMMA LoadInvNext == LoadInv /\ [LoadNext]_loadVars => LoadInv'
<1> SUFFICES ASSUME LoadInv, [LoadNext]_loadVars PROVE LoadInv'
  OBVIOUS
<1> USE ModelDownloadAssumption DEF LoadInv, LoadTypeOK
<1>1. CASE UNCHANGED loadVars
  BY <1>1 DEF loadVars
<1>2. CASE LoadNext
  <2>1. PICK p \in Pod :
            \/ Declines(p) \/ Fetch(p) \/ Fetched(p) \/ FetchFails(p) \/ Slept(p)
            \/ LoaderKilled(p) \/ Serve(p) \/ Replaced(p)
    BY <1>2 DEF LoadNext
  <2>2. CASE Declines(p)
    BY <2>2 DEF Declines, Becomes
  <2>3. CASE Fetch(p)
    BY <2>3 DEF Fetch, Becomes
  <2>4. CASE Fetched(p)
    BY <2>4 DEF Fetched, Becomes
  <2>5. CASE FetchFails(p)
    BY <2>5 DEF FetchFails, Becomes, Loses
  <2>6. CASE Slept(p)
    BY <2>6 DEF Slept, Becomes
  <2>7. CASE LoaderKilled(p)
    BY <2>7 DEF LoaderKilled, Becomes, Loses
  <2>8. CASE Serve(p)
    BY <2>8 DEF Serve, Becomes
  <2>9. CASE Replaced(p)
    BY <2>9 DEF Replaced, Becomes
  <2> QED
    BY <2>1, <2>2, <2>3, <2>4, <2>5, <2>6, <2>7, <2>8, <2>9
<1> QED
  BY <1>1, <1>2

\* A server has its whole model, however often its downloader was killed, unless
\* the downloader has ended badly behind the exit 0 of its entry point.
THEOREM ServersHaveTheirModel == LoadSpec => []ServesWholeModel
<1>1. LoadInv => ServesWholeModel
  BY DEF LoadInv, ServesWholeModel
<1> QED
  BY <1>1, LoadInvInit, LoadInvNext, PTL DEF LoadSpec

\* A downloader is in one of its states, and its volume, too.
THEOREM LoadTypes == LoadSpec => []LoadTypeOK
<1>1. LoadInv => LoadTypeOK
  BY DEF LoadInv
<1> QED
  BY <1>1, LoadInvInit, LoadInvNext, PTL DEF LoadSpec

-----------------------------------------------------------------------------
(***************************************************************************)
(* IV. THE EXAMPLE NOTEBOOKS                                               *)
(* For every number of students, whatever notebooks they run and however   *)
(* often.                                                                  *)
(***************************************************************************)

\* The ids that a student's notebook makes.
Own(u, id) ==
    \/ Notebook[u].id = "folder" /\ id = <<Notebook[u].folder>>
    \/ Notebook[u].id = "random" /\ \E n \in Nat : id = <<Notebook[u].folder, u, n>>

Folders == {Notebook[u].folder : u \in Student}
AnyId == {<<>>} \cup {<<f>> : f \in Folders} \cup {<<f, u, n>> : f \in Folders, u \in Student, n \in Nat}
Endpoints == {<<>>} \cup {<<v>> : v \in Student}
Kernels == [Student -> [cell : Cell, deployment : AnyId, endpoint : Endpoints]]

\* A deployment has an id of its maker's notebook, and its maker holds that id or
\* has forgotten it; after the last cell it is not the one they hold.
LabInv ==
    /\ rounds \in [Student -> Nat] /\ forgotten \in [Student -> SUBSET AnyId]
    /\ kernel \in Kernels
    /\ \A d \in deployments :
          /\ d.by \in Student /\ d.id \in AnyId /\ Own(d.by, d.id)
          /\ d.id = kernel[d.by].deployment \/ d.id \in forgotten[d.by]
    /\ \A u \in Student :
          /\ kernel[u].deployment = <<>> \/ Own(u, kernel[u].deployment)
          /\ kernel[u].cell = "end" =>
                \A d \in deployments : d.by = u => d.id \in forgotten[u]
    /\ EndpointIsOwn

LEMMA OwnIds ==
    ASSUME NEW u \in Student, NEW v \in Student, NEW id, Own(u, id), Own(v, id), u # v
    PROVE  Notebook[u].id = "folder" /\ Notebook[v] = Notebook[u]
<1>1. /\ Notebook[u] \in {TensorFlow2Quickstart, PyTorchQuickstart, TensorFlow2Mlflow, PyTorchMlflow}
      /\ Notebook[v] \in {TensorFlow2Quickstart, PyTorchQuickstart, TensorFlow2Mlflow, PyTorchMlflow}
  BY QuickstartAssumption
<1>2. CASE Notebook[u].id = "folder" /\ Notebook[v].id = "folder"
  <2>1. Notebook[u].folder = Notebook[v].folder
    BY <1>2 DEF Own
  <2> QED
    BY <1>1, <1>2, <2>1 DEF TensorFlow2Quickstart, PyTorchQuickstart, TensorFlow2Mlflow, PyTorchMlflow, SavedDir
<1>3. CASE Notebook[u].id = "random" /\ Notebook[v].id = "random"
  BY <1>3 DEF Own
<1>4. ASSUME NEW a, NEW b, NEW n, NEW c
      PROVE  <<c>> # <<a, b, n>>
  OBVIOUS
<1> QED
  BY <1>1, <1>2, <1>3, <1>4
     DEF Own, TensorFlow2Quickstart, PyTorchQuickstart, TensorFlow2Mlflow, PyTorchMlflow, SavedDir

LEMMA NoIdIsEmpty ==
    ASSUME NEW u \in Student
    PROVE  ~Own(u, <<>>)
<1>1. ASSUME NEW a, NEW b, NEW n
      PROVE  <<a, b, n>> # <<>> /\ <<a>> # <<>>
  OBVIOUS
<1> QED
  BY <1>1 DEF Own

LEMMA IdIsOwn ==
    ASSUME NEW u \in Student, rounds \in [Student -> Nat]
    PROVE  IdOf(u) \in AnyId /\ Own(u, IdOf(u))
<1>1. Notebook[u].id \in {"folder", "random"}
  BY QuickstartAssumption
     DEF TensorFlow2Quickstart, PyTorchQuickstart, TensorFlow2Mlflow, PyTorchMlflow, SavedDir
<1> QED
  BY <1>1 DEF Own, IdOf, AnyId, Folders

LEMMA LabInvInit == LabInit => LabInv
<1> SUFFICES ASSUME LabInit PROVE LabInv
  OBVIOUS
<1>1. kernel \in Kernels /\ forgotten \in [Student -> SUBSET AnyId]
  BY DEF LabInit, Kernels, Cell, AnyId, Endpoints
<1>2. \A u \in Student : kernel[u].cell = "first" /\ kernel[u].deployment = <<>>
                          /\ kernel[u].endpoint = <<>>
  BY DEF LabInit
<1>3. EndpointIsOwn
  BY <1>2 DEF EndpointIsOwn
<1> QED
  BY <1>1, <1>2, <1>3 DEF LabInit, LabInv

\* What a student holds after a step, in which only they have moved.
Holds(u, c, id, e) ==
    /\ kernel' \in Kernels
    /\ kernel'[u].cell = c /\ kernel'[u].deployment = id /\ kernel'[u].endpoint = e
    /\ \A v \in Student \ {u} : kernel'[v] = kernel[v]

LEMMA KernelUpdates ==
    ASSUME LabInv, NEW u \in Student, NEW c \in Cell, NEW id \in AnyId, NEW e \in Endpoints
    PROVE  /\ kernel' = [kernel EXCEPT ![u].cell = c] =>
                 Holds(u, c, kernel[u].deployment, kernel[u].endpoint)
           /\ kernel' = [kernel EXCEPT ![u].cell = c, ![u].deployment = id] =>
                 Holds(u, c, id, kernel[u].endpoint)
           /\ kernel' = [kernel EXCEPT ![u].cell = c, ![u].endpoint = e] =>
                 Holds(u, c, kernel[u].deployment, e)
           /\ kernel' = [kernel EXCEPT ![u] = [cell |-> c, deployment |-> id, endpoint |-> e]] =>
                 Holds(u, c, id, e)
<1>1. kernel \in Kernels
  BY DEF LabInv
<1>2. kernel' = [kernel EXCEPT ![u].cell = c] =>
          Holds(u, c, kernel[u].deployment, kernel[u].endpoint)
  BY <1>1 DEF Kernels, Holds
<1>3. kernel' = [kernel EXCEPT ![u].cell = c, ![u].deployment = id] =>
          Holds(u, c, id, kernel[u].endpoint)
  <2> SUFFICES ASSUME kernel' = [kernel EXCEPT ![u].cell = c, ![u].deployment = id]
               PROVE  Holds(u, c, id, kernel[u].endpoint)
    OBVIOUS
  <2>1. kernel'[u] = [kernel[u] EXCEPT !.cell = c, !.deployment = id]
    BY <1>1 DEF Kernels
  <2>2. kernel[u] \in [cell : Cell, deployment : AnyId, endpoint : Endpoints]
    BY <1>1 DEF Kernels
  <2>3. kernel'[u] = [cell |-> c, deployment |-> id, endpoint |-> kernel[u].endpoint]
    BY <2>1, <2>2
  <2>4. kernel' = [kernel EXCEPT ![u] = kernel'[u]]
    BY <1>1 DEF Kernels
  <2> QED
    BY <1>1, <2>2, <2>3, <2>4 DEF Kernels, Holds
<1>4. kernel' = [kernel EXCEPT ![u].cell = c, ![u].endpoint = e] =>
          Holds(u, c, kernel[u].deployment, e)
  <2> SUFFICES ASSUME kernel' = [kernel EXCEPT ![u].cell = c, ![u].endpoint = e]
               PROVE  Holds(u, c, kernel[u].deployment, e)
    OBVIOUS
  <2>1. kernel'[u] = [kernel[u] EXCEPT !.cell = c, !.endpoint = e]
    BY <1>1 DEF Kernels
  <2>2. kernel[u] \in [cell : Cell, deployment : AnyId, endpoint : Endpoints]
    BY <1>1 DEF Kernels
  <2>3. kernel'[u] = [cell |-> c, deployment |-> kernel[u].deployment, endpoint |-> e]
    BY <2>1, <2>2
  <2>4. kernel' = [kernel EXCEPT ![u] = kernel'[u]]
    BY <1>1 DEF Kernels
  <2> QED
    BY <1>1, <2>2, <2>3, <2>4 DEF Kernels, Holds
<1>5. kernel' = [kernel EXCEPT ![u] = [cell |-> c, deployment |-> id, endpoint |-> e]] =>
          Holds(u, c, id, e)
  BY <1>1 DEF Kernels, Holds
<1> QED
  BY <1>2, <1>3, <1>4, <1>5

\* The cells follow one another in the same way in the four notebooks.
LEMMA Order ==
    ASSUME NEW u \in Student
    PROVE  /\ Following(u, "first") = "create" /\ Following(u, "create") = "endpoint"
           /\ Following(u, "endpoint") = "last" /\ Following(u, "last") = "end"
<1>1. \/ Notebook[u] = TensorFlow2Quickstart \/ Notebook[u] = PyTorchQuickstart
      \/ Notebook[u] = TensorFlow2Mlflow \/ Notebook[u] = PyTorchMlflow
  BY QuickstartAssumption
<1>2. Notebook[u].next =
          [first |-> "create", create |-> "endpoint", endpoint |-> "last", last |-> "end"]
  BY <1>1 DEF TensorFlow2Quickstart, PyTorchQuickstart, TensorFlow2Mlflow, PyTorchMlflow, SavedDir
<1> QED
  BY <1>2 DEF Following

\* A step that only moves a student and takes deployments away.
LEMMA MovesOn ==
    ASSUME LabInv, NEW u \in Student, NEW c \in Cell, Goto(u, c),
           deployments' \subseteq deployments, UNCHANGED forgotten, rounds' \in [Student -> Nat],
           c = "end" => \A d \in deployments' : d.id # kernel[u].deployment
    PROVE  LabInv'
<1>1. \A x \in AnyId, e \in Endpoints : kernel' = [kernel EXCEPT ![u].cell = c] =>
          Holds(u, c, kernel[u].deployment, kernel[u].endpoint)
  BY KernelUpdates
<1>2. <<>> \in AnyId /\ <<>> \in Endpoints
  BY DEF AnyId, Endpoints
<1>3. Holds(u, c, kernel[u].deployment, kernel[u].endpoint)
  BY <1>1, <1>2 DEF Goto
<1>4. \A v \in Student : kernel'[v].deployment = kernel[v].deployment
                          /\ kernel'[v].endpoint = kernel[v].endpoint
                          /\ (v # u => kernel'[v].cell = kernel[v].cell)
  BY <1>3 DEF Holds
<1>5. EndpointIsOwn'
  BY <1>4 DEF LabInv, EndpointIsOwn
<1>6. \A d \in deployments' :
          /\ d.by \in Student /\ d.id \in AnyId /\ Own(d.by, d.id)
          /\ d.id = kernel'[d.by].deployment \/ d.id \in forgotten'[d.by]
  BY <1>4 DEF LabInv
<1>7. ASSUME NEW v \in Student
      PROVE  /\ kernel'[v].deployment = <<>> \/ Own(v, kernel'[v].deployment)
             /\ kernel'[v].cell = "end" =>
                   \A d \in deployments' : d.by = v => d.id \in forgotten'[v]
  <2>1. CASE v = u
    BY <1>3, <1>4, <1>6, <2>1 DEF LabInv, Holds
  <2>2. CASE v # u
    BY <1>4, <2>2 DEF LabInv
  <2> QED
    BY <2>1, <2>2
<1>8. forgotten' \in [Student -> SUBSET AnyId] /\ kernel' \in Kernels
  BY <1>3 DEF LabInv, Holds
<1> QED
  BY <1>5, <1>6, <1>7, <1>8 DEF LabInv

LEMMA CreateKeeps ==
    ASSUME LabInv, NEW u \in Student, Create(u)
    PROVE  LabInv'
<1>0. rounds' \in [Student -> Nat]
  BY DEF Create, LabInv
<1>1. CASE IdOf(u) \in Ids
  <2>1. Goto(u, "endpoint") /\ UNCHANGED <<deployments, forgotten>> /\ "endpoint" \in Cell
    BY <1>1, Order DEF Create, Cell
  <2> QED
    BY <1>0, <2>1, MovesOn
<1>2. CASE IdOf(u) \notin Ids
  <2>1. PICK id \in AnyId : id = IdOf(u) /\ Own(u, id)
    BY IdIsOwn DEF LabInv
  <2>2. /\ deployments' = deployments \cup {[id |-> id, by |-> u]}
        /\ kernel' = [kernel EXCEPT ![u].cell = "endpoint", ![u].deployment = id]
        /\ forgotten' = [forgotten EXCEPT ![u] = (@ \cup {kernel[u].deployment}) \ {id}]
    BY <1>2, <2>1, Order DEF Create
  <2>3. \A d \in deployments : d.id # id
    BY <1>2, <2>1 DEF Ids
  <2>4. Holds(u, "endpoint", id, kernel[u].endpoint)
    <3>1. "endpoint" \in Cell /\ <<>> \in Endpoints
      BY DEF Cell, Endpoints
    <3> QED
      BY <2>2, <3>1, KernelUpdates
  <2>5. \A v \in Student : kernel'[v].endpoint = kernel[v].endpoint
    BY <2>4 DEF Holds
  <2>6. EndpointIsOwn'
    BY <2>5 DEF LabInv, EndpointIsOwn
  <2>7. /\ forgotten' \in [Student -> SUBSET AnyId]
        /\ forgotten'[u] = (forgotten[u] \cup {kernel[u].deployment}) \ {id}
        /\ \A v \in Student \ {u} : forgotten'[v] = forgotten[v]
    BY <2>2 DEF LabInv, Kernels
  <2>8. ASSUME NEW d \in deployments'
        PROVE  /\ d.by \in Student /\ d.id \in AnyId /\ Own(d.by, d.id)
               /\ d.id = kernel'[d.by].deployment \/ d.id \in forgotten'[d.by]
    <3>1. CASE d \in deployments
      <4>1. d.by \in Student /\ d.id \in AnyId /\ Own(d.by, d.id) /\ d.id # id
            /\ (d.id = kernel[d.by].deployment \/ d.id \in forgotten[d.by])
        BY <2>3, <3>1 DEF LabInv
      <4> QED
        BY <2>4, <2>7, <4>1 DEF Holds
    <3>2. CASE d = [id |-> id, by |-> u]
      BY <2>1, <2>4, <3>2 DEF Holds
    <3> QED
      BY <2>2, <3>1, <3>2
  <2>9. ASSUME NEW v \in Student
        PROVE  /\ kernel'[v].deployment = <<>> \/ Own(v, kernel'[v].deployment)
               /\ kernel'[v].cell = "end" =>
                     \A d \in deployments' : d.by = v => d.id \in forgotten'[v]
    <3>1. CASE v = u
      BY <2>1, <2>4, <3>1 DEF Holds
    <3>2. CASE v # u
      <4>1. kernel'[v] = kernel[v] /\ forgotten'[v] = forgotten[v]
        BY <2>4, <2>7, <3>2 DEF Holds
      <4>2. \A d \in deployments' : d.by = v => d \in deployments
        BY <2>2, <3>2
      <4> QED
        BY <4>1, <4>2 DEF LabInv
    <3> QED
      BY <3>1, <3>2
  <2> QED
    BY <1>0, <2>4, <2>6, <2>7, <2>8, <2>9 DEF LabInv, Holds
<1> QED
  BY <1>1, <1>2

LEMMA UnansweredKeeps ==
    ASSUME LabInv, NEW u \in Student, CreateUnanswered(u)
    PROVE  LabInv'
<1>1. PICK id \in AnyId : id = IdOf(u) /\ Own(u, id)
  BY IdIsOwn DEF LabInv
<1>2. /\ rounds' \in [Student -> Nat] /\ UNCHANGED kernel
      /\ kernel[u].cell = "create"
      /\ deployments' = deployments \cup {[id |-> id, by |-> u]}
      /\ forgotten' = [forgotten EXCEPT ![u] = (@ \cup {id}) \ {kernel[u].deployment}]
  BY <1>1 DEF CreateUnanswered, LabInv
<1>3. /\ forgotten' \in [Student -> SUBSET AnyId]
      /\ forgotten'[u] = (forgotten[u] \cup {id}) \ {kernel[u].deployment}
      /\ \A v \in Student \ {u} : forgotten'[v] = forgotten[v]
  BY <1>2 DEF LabInv
<1>4. ASSUME NEW d \in deployments'
      PROVE  /\ d.by \in Student /\ d.id \in AnyId /\ Own(d.by, d.id)
             /\ d.id = kernel[d.by].deployment \/ d.id \in forgotten'[d.by]
  <2>1. CASE d \in deployments
    BY <1>3, <2>1 DEF LabInv
  <2>2. CASE d = [id |-> id, by |-> u]
    BY <1>1, <1>3, <2>2
  <2> QED
    BY <1>2, <2>1, <2>2
<1>5. ASSUME NEW v \in Student, kernel[v].cell = "end", NEW d \in deployments', d.by = v
      PROVE  d.id \in forgotten'[v]
  <2>1. v # u /\ d \in deployments
    BY <1>2, <1>5
  <2> QED
    BY <1>3, <1>5, <2>1 DEF LabInv
<1>6. EndpointIsOwn'
  BY <1>2 DEF LabInv, EndpointIsOwn
<1> QED
  BY <1>2, <1>3, <1>4, <1>5, <1>6 DEF LabInv

LEMMA EndpointKeeps ==
    ASSUME LabInv, NEW u \in Student, Endpoint(u)
    PROVE  LabInv'
<1>1. CASE Goto(u, "last")
  <2>1. UNCHANGED <<deployments, rounds, forgotten>> /\ "last" \in Cell /\ rounds' \in [Student -> Nat]
    BY DEF Endpoint, Cell, LabInv
  <2> QED
    BY <1>1, <2>1, MovesOn
<1>2. CASE \E d \in deployments :
              /\ d.id = kernel[u].deployment
              /\ kernel' = [kernel EXCEPT ![u].cell = "last", ![u].endpoint = <<d.by>>]
  <2>1. PICK d \in deployments :
              /\ d.id = kernel[u].deployment
              /\ kernel' = [kernel EXCEPT ![u].cell = "last", ![u].endpoint = <<d.by>>]
    BY <1>2
  <2>2. UNCHANGED <<deployments, rounds, forgotten>>
    BY DEF Endpoint
  <2>3. d.by \in Student /\ Own(d.by, d.id) /\ Own(u, d.id)
    BY <2>1, NoIdIsEmpty DEF LabInv
  <2>4. d.by # u => Notebook[u].id = "folder" /\ Notebook[d.by] = Notebook[u]
    BY <2>3, OwnIds
  <2>5. Holds(u, "last", kernel[u].deployment, <<d.by>>)
    <3>1. "last" \in Cell /\ <<>> \in AnyId /\ <<d.by>> \in Endpoints
      BY <2>3 DEF Cell, AnyId, Endpoints
    <3> QED
      BY <2>1, <3>1, KernelUpdates
  <2>6. \A v \in Student : <<d.by>> = <<v>> => v = d.by
    OBVIOUS
  <2>7. EndpointIsOwn'
    BY <2>4, <2>5, <2>6 DEF LabInv, EndpointIsOwn, Holds
  <2>8. \A v \in Student : kernel'[v].deployment = kernel[v].deployment
                            /\ (kernel'[v].cell = "end" => kernel[v].cell = "end")
    BY <2>5 DEF Holds
  <2> QED
    BY <2>2, <2>5, <2>7, <2>8 DEF LabInv, Holds
<1> QED
  BY <1>1, <1>2, Order DEF Endpoint

LEMMA RestartKeeps ==
    ASSUME LabInv, NEW u \in Student, KernelRestart(u)
    PROVE  LabInv'
<1>1. /\ kernel' = [kernel EXCEPT ![u] = [cell |-> "first", deployment |-> <<>>, endpoint |-> <<>>]]
      /\ forgotten' = [forgotten EXCEPT ![u] = @ \cup {kernel[u].deployment}]
      /\ UNCHANGED <<deployments, rounds>>
  BY DEF KernelRestart
<1>2. Holds(u, "first", <<>>, <<>>)
  <2>1. "first" \in Cell /\ <<>> \in AnyId /\ <<>> \in Endpoints
    BY DEF Cell, AnyId, Endpoints
  <2> QED
    BY <1>1, <2>1, KernelUpdates
<1>3. /\ forgotten' \in [Student -> SUBSET AnyId]
      /\ forgotten'[u] = forgotten[u] \cup {kernel[u].deployment}
      /\ \A v \in Student \ {u} : forgotten'[v] = forgotten[v]
  BY <1>1 DEF LabInv, Kernels
<1>4. EndpointIsOwn'
  <2> SUFFICES ASSUME NEW w \in Student, NEW v \in Student, kernel'[w].endpoint = <<v>>, v # w
               PROVE  Notebook[w].id = "folder" /\ Notebook[v] = Notebook[w]
    BY DEF EndpointIsOwn
  <2>1. <<v>> # <<>>
    OBVIOUS
  <2>2. kernel'[u].endpoint = <<>> /\ \A x \in Student \ {u} : kernel'[x] = kernel[x]
    BY <1>2 DEF Holds
  <2>3. w # u
    BY <2>1, <2>2
  <2>4. kernel[w].endpoint = <<v>>
    BY <2>2, <2>3
  <2>5. EndpointIsOwn
    BY DEF LabInv
  <2> QED
    BY <2>4, <2>5 DEF EndpointIsOwn
<1>5. ASSUME NEW d \in deployments
      PROVE  d.id = kernel'[d.by].deployment \/ d.id \in forgotten'[d.by]
  BY <1>2, <1>3 DEF LabInv, Holds
<1>6. ASSUME NEW v \in Student
      PROVE  /\ kernel'[v].deployment = <<>> \/ Own(v, kernel'[v].deployment)
             /\ kernel'[v].cell = "end" =>
                   \A d \in deployments : d.by = v => d.id \in forgotten'[v]
  BY <1>2, <1>3 DEF LabInv, Holds
<1> QED
  BY <1>1, <1>2, <1>3, <1>4, <1>5, <1>6 DEF LabInv, Holds

LEMMA LabInvNext == LabInv /\ [LabNext]_labVars => LabInv'
<1> SUFFICES ASSUME LabInv, [LabNext]_labVars PROVE LabInv'
  OBVIOUS
<1>1. CASE UNCHANGED labVars
  BY <1>1 DEF labVars, LabInv, EndpointIsOwn
<1>2. CASE LabNext
  <2>1. PICK u \in Student :
            \/ DeleteFirst(u) \/ Create(u) \/ Endpoint(u) \/ DeleteLast(u)
            \/ CreateUnanswered(u) \/ Rerun(u) \/ KernelRestart(u)
    BY <1>2 DEF LabNext
  <2>2. Cell = {"first", "create", "endpoint", "last", "end"} /\ rounds \in [Student -> Nat]
    BY DEF Cell, LabInv
  <2>3. CASE DeleteFirst(u)
    <3>1. deployments' \subseteq deployments /\ Goto(u, "create") /\ UNCHANGED <<rounds, forgotten>>
      BY <2>3, Order DEF DeleteFirst
    <3> QED
      BY <2>2, <3>1, MovesOn
  <2>4. CASE DeleteLast(u)
    <3>1. /\ deployments' = {d \in deployments : d.id # kernel[u].deployment}
          /\ Goto(u, "end") /\ UNCHANGED <<rounds, forgotten>>
      BY <2>4, Order DEF DeleteLast
    <3> QED
      BY <2>2, <3>1, MovesOn
  <2>5. CASE Rerun(u)
    <3>1. PICK c \in Cell \ {"end"} : Goto(u, c)
      BY <2>5 DEF Rerun
    <3>2. UNCHANGED <<deployments, rounds, forgotten>>
      BY <2>5 DEF Rerun
    <3> QED
      BY <2>2, <3>1, <3>2, MovesOn
  <2> QED
    BY <2>1, <2>3, <2>4, <2>5, CreateKeeps, UnansweredKeeps, EndpointKeeps,
       RestartKeeps
<1> QED
  BY <1>1, <1>2

\* A student never tests the deployment of another, unless both run the notebook
\* whose deployment is named after its folder.
THEOREM StudentsTestTheirOwn == LabSpec => []EndpointIsOwn
<1>1. LabInv => EndpointIsOwn
  BY DEF LabInv
<1> QED
  BY <1>1, LabInvInit, LabInvNext, PTL DEF LabSpec

\* The last cell leaves nothing of its student behind but what they have forgotten.
THEOREM NotebooksCleanUp == LabSpec => []LastCellLeavesNothing
<1>1. LabInv => LastCellLeavesNothing
  BY DEF LabInv, LastCellLeavesNothing
<1> QED
  BY <1>1, LabInvInit, LabInvNext, PTL DEF LabSpec

\* A notebook counts its rounds up to its bound.
LEMMA RoundsStep ==
    ASSUME LabInv, LabTypeOK, [LabNext]_labVars
    PROVE  LabTypeOK'
<1>1. MaxRounds \in [Student -> Nat] /\ rounds \in [Student -> Nat] /\ LabInv'
  BY LabInvNext, QuickstartAssumption DEF LabInv
<1>2. \A u \in Student : rounds'[u] \in 0..MaxRounds[u]
  <2>1. CASE UNCHANGED rounds
    BY <2>1 DEF LabTypeOK
  <2>2. ASSUME NEW u \in Student, Create(u) \/ CreateUnanswered(u)
        PROVE  \A v \in Student : rounds'[v] \in 0..MaxRounds[v]
    <3>1. rounds[u] < MaxRounds[u] /\ rounds' = [rounds EXCEPT ![u] = @ + 1]
      BY <2>2 DEF Create, CreateUnanswered
    <3> QED
      BY <1>1, <3>1 DEF LabTypeOK
  <2>3. ASSUME NEW u \in Student,
               DeleteFirst(u) \/ Endpoint(u) \/ DeleteLast(u) \/ Rerun(u) \/ KernelRestart(u)
        PROVE  UNCHANGED rounds
    BY <2>3 DEF DeleteFirst, Endpoint, DeleteLast, Rerun, KernelRestart
  <2> QED
    BY <2>1, <2>2, <2>3 DEF LabNext, labVars
<1> QED
  BY <1>1, <1>2 DEF LabInv, LabTypeOK, Kernels

\* The state of the notebooks has its types, and nobody creates more than the
\* bound allows.
THEOREM LabTypes == LabSpec => []LabTypeOK
<1>1. LabInit => LabTypeOK
  BY QuickstartAssumption DEF LabInit, LabTypeOK, Cell
<1>2. LabInv /\ LabTypeOK /\ [LabNext]_labVars => LabTypeOK'
  BY RoundsStep
<1> QED
  BY <1>1, <1>2, LabInvInit, LabInvNext, PTL DEF LabSpec

-----------------------------------------------------------------------------
(***************************************************************************)
(* V. THE TOOLS SIDE BY SIDE                                               *)
(* MCTools lets one of the four go on, as the others have no state in      *)
(* common with it.                                                         *)
(***************************************************************************)

\* The specification that is model-checked is one of all four tools: what is true
\* of each by itself is true of it.
LEMMA ToolsAreTools == MCSpec => CacheSpec /\ CheckSpec /\ LoadSpec /\ LabSpec
<1>1. MCInit => CacheInit /\ CheckInit /\ LoadInit /\ LabInit
  BY DEF MCInit
<1>2. [MCNext]_<<tool, cacheVars, checkVars, loadVars, labVars>> =>
          /\ [CacheNext]_cacheVars /\ [CheckNext]_checkVars
          /\ [LoadNext]_loadVars /\ [LabNext]_labVars
  BY DEF MCNext
<1> QED
  BY <1>1, <1>2, PTL DEF MCSpec, CacheSpec, CheckSpec, LoadSpec, LabSpec

\* The types of all tools, for every choice of images, runs, pods and students.
THEOREM ToolsTypes == MCSpec => []TypeOK
<1>1. CacheTypeOK /\ CheckTypeOK /\ LoadTypeOK /\ LabTypeOK => TypeOK
  BY DEF TypeOK
<1> QED
  BY <1>1, ToolsAreTools, CacheTypesHold, CheckTypes, LoadTypes, LabTypes, PTL
=============================================================================
