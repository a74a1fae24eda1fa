-------------------------- MODULE SpawnFormProofs --------------------------
(***************************************************************************)
(* Proofs about SpawnForm, for every set of groups, instance types, images *)
(* and requests.                                                           *)
(***************************************************************************)
EXTENDS SpawnForm, TLAPS

-----------------------------------------------------------------------------
(* The inductive invariant.                                                *)

\* The attributes are those the form of a post asked for.
Asked(attributes, post) ==
    /\ attributes.type = post.form.type
    /\ attributes.image = ImageFor(post.form)
    /\ attributes.safe = post.form.safe

\* What the form asked for, its group offered.
Offered(post) ==
    post.form.type \in post.offer.types /\ post.form.image \in post.offer.images

\* Selector and secret are what the form asked for, or nothing.
Clean(attributes, post) ==
    /\ attributes.selector \in {post.form.type, Unset}
    /\ attributes.secret \in {post.form.image, Unset}

Good(attributes, post) ==
    ~post.overtaken => /\ Asked(attributes, post)
                       /\ Offered(post)
                       /\ ~post.late => Clean(attributes, post)

\* A GPU and the image for GPUs.
Matched(attributes) ==
    attributes.type # Unset =>
        (attributes.image[2] = "urlForGpu" <=> attributes.type \in Gpu)

\* While a post waits, the spawner is what its pod will be made of.
WaitingGood == \A r \in Waiting : Good(spawner.attributes, request[r])

PodGood == \A p \in pod : Good(p.attributes, p.post) /\ Matched(p.attributes)

\* Only a form writes a selector or a secret.
CleanUnlessDirty ==
    ~spawner.dirty /\ ~Running =>
        spawner.attributes.selector = Unset /\ spawner.attributes.secret = Unset

FormInv ==
    /\ TypeOK
    /\ Matched(spawner.attributes)
    /\ CleanUnlessDirty
    /\ WaitingGood
    /\ PodGood

-----------------------------------------------------------------------------
(* Types.                                                                  *)

LEMMA DefaultTypes ==
    /\ NoGroups \in Contexts
    /\ Defaults \in Attributes
    /\ NewSpawner \in Spawner
  <1>1. NoGroups \in [{} -> Offer] /\ {} \in SUBSET Group
    BY DEF NoGroups
  <1>2. NoGroups \in Contexts
    BY <1>1 DEF Contexts
  <1>3. Defaults \in Attributes
    BY DEF Defaults, Attributes
  <1> QED
    BY <1>2, <1>3 DEF NewSpawner, Spawner

\* What the groups offer with the share of everyone is a launch context again.
LEMMA GroupsFromTypes ==
    ASSUME NEW ctx \in Contexts
    PROVE  GroupsFrom(ctx) \in Contexts
  <1> DEFINE shared == IF "everyone" \in DOMAIN ctx THEN ctx["everyone"]
                       ELSE [types |-> {}, images |-> {}]
  <1>1. PICK G \in SUBSET Group : ctx \in [G -> Offer]
    BY DEF Contexts
  <1>2. shared \in Offer
    BY <1>1 DEF Offer
  <1>3. \A g \in G : [types |-> ctx[g].types \cup shared.types,
                      images |-> ctx[g].images \cup shared.images] \in Offer
    BY <1>1, <1>2 DEF Offer
  <1>4. GroupsFrom(ctx) \in [G \ {"everyone"} -> Offer]
    BY <1>1, <1>3 DEF GroupsFrom
  <1>5. G \ {"everyone"} \in SUBSET Group
    OBVIOUS
  <1> QED
    BY <1>4, <1>5 DEF Contexts

\* The overrides of a form leave matching attributes, whatever was there.
LEMMA OverriddenTypes ==
    ASSUME spawner \in Spawner, NEW form \in Form
    PROVE  /\ Overridden(form) \in Attributes
           /\ Matched(Overridden(form))
  <1>1. spawner.attributes \in Attributes
    BY DEF Spawner
  <1>2. form.type \in Type /\ form.image \in Image /\ form.safe \in BOOLEAN
    BY DEF Form
  <1>3. ImageFor(form) \in (Image \cup {Unset}) \X {"url", "urlForGpu"}
    BY <1>2 DEF ImageFor
  <1>4. Overridden(form) \in Attributes
    BY <1>1, <1>2, <1>3 DEF Overridden, Attributes
  <1>5. ImageFor(form)[2] = "urlForGpu" <=> form.type \in Gpu
    BY DEF ImageFor
  <1> QED
    BY <1>4, <1>5 DEF Matched, Overridden

LEMMA KnownOffered ==
    ASSUME spawner \in Spawner, NEW form \in Form, Known(form)
    PROVE  /\ spawner.groups[form.group] \in Offer
           /\ form.type \in spawner.groups[form.group].types
           /\ form.image \in spawner.groups[form.group].images
  <1>1. spawner.groups \in Contexts
    BY DEF Spawner
  <1>2. PICK G \in SUBSET Group : spawner.groups \in [G -> Offer]
    BY <1>1 DEF Contexts
  <1> QED
    BY <1>2 DEF Known

\* The posts that wait, when the spawner is written to under them.
LEMMA OvertakenTypes ==
    ASSUME TypeOK
    PROVE  /\ Overtaken \in [Waiting -> Posts]
           /\ \A r \in Waiting : Overtaken[r].overtaken
  <1>1. \A r \in Waiting : request[r] \in Posts
    BY DEF TypeOK
  <1>2. \A r \in Waiting : /\ [request[r] EXCEPT !.overtaken = TRUE] \in Posts
                           /\ [request[r] EXCEPT !.overtaken = TRUE].overtaken
    BY <1>1 DEF Posts
  <1> QED
    BY <1>2 DEF Overtaken

\* A post joins the others, which it has overtaken.
LEMMA Joined ==
    ASSUME TypeOK, NEW r \in Request, r \notin Waiting, NEW post \in Posts,
           request' = [q \in Waiting \cup {r} |->
                         IF q # r THEN Overtaken[q] ELSE post]
    PROVE  /\ Waiting' = Waiting \cup {r}
           /\ request' \in [Waiting' -> Posts]
           /\ request'[r] = post
           /\ \A q \in Waiting : request'[q].overtaken
  <1>1. Waiting' = Waiting \cup {r}
    BY DEF Waiting
  <1>2. request'[r] = post /\ \A q \in Waiting : request'[q] = Overtaken[q]
    OBVIOUS
  <1>3. \A q \in Waiting \cup {r} : request'[q] \in Posts
    BY <1>2, OvertakenTypes
  <1>4. request' \in [Waiting \cup {r} -> Posts]
    BY <1>3
  <1> QED
    BY <1>1, <1>2, <1>4, OvertakenTypes

\* A post leaves, the others stay as they are.
LEMMA Left ==
    ASSUME TypeOK, NEW r \in Waiting,
           request' = Restrict(request, Waiting \ {r})
    PROVE  /\ Waiting' = Waiting \ {r}
           /\ request' \in [Waiting' -> Posts]
           /\ \A q \in Waiting' : request'[q] = request[q]
  BY DEF Restrict, Waiting, TypeOK

-----------------------------------------------------------------------------
(* The steps.                                                              *)

LEMMA InitInv == Init => FormInv
  <1> SUFFICES ASSUME Init PROVE FormInv
    OBVIOUS
  <1>1. Waiting = {} /\ request \in [Waiting -> Posts]
    BY DEF Init, Waiting, NoGroups
  <1>2. TypeOK
    BY <1>1, DefaultTypes DEF Init, TypeOK
  <1>3. Matched(spawner.attributes) /\ CleanUnlessDirty
    BY DEF Init, Matched, CleanUnlessDirty, NewSpawner, Defaults
  <1> QED
    BY <1>1, <1>2, <1>3 DEF FormInv, WaitingGood, PodGood, Init

\* A step that overtakes every post leaves nothing to show of them.
LEMMA OvertakenGood ==
    ASSUME TypeOK, request' = Overtaken
    PROVE  /\ Waiting' = Waiting
           /\ request' \in [Waiting' -> Posts]
           /\ WaitingGood'
  <1>1. Waiting' = Waiting
    BY DEF Waiting, Overtaken
  <1>2. \A r \in Waiting : request'[r].overtaken
    BY OvertakenTypes
  <1> QED
    BY <1>1, <1>2, OvertakenTypes DEF WaitingGood, Good

LEMMA RefreshInv == FormInv /\ Refresh => FormInv'
  BY DEF FormInv, Refresh, TypeOK, Waiting, Running, Matched,
         CleanUnlessDirty, WaitingGood, PodGood, Good, Asked, Offered, Clean,
         ImageFor

LEMMA RenderInv == FormInv /\ Render => FormInv'
  <1> SUFFICES ASSUME FormInv, Render PROVE FormInv'
    OBVIOUS
  <1>1. GroupsFrom(context) \in Contexts
    BY SpawnFormAssumption, GroupsFromTypes DEF FormInv, TypeOK
  <1>2. /\ spawner' \in Spawner
        /\ spawner'.attributes = spawner.attributes
        /\ spawner'.dirty = spawner.dirty
    BY <1>1 DEF FormInv, TypeOK, Render, Spawner
  <1>3. UNCHANGED <<context, request, pod>> /\ Waiting' = Waiting
        /\ Running' = Running
    BY DEF Render, Waiting, Running
  <1> QED
    BY <1>2, <1>3 DEF FormInv, TypeOK, Matched, CleanUnlessDirty, WaitingGood,
                      PodGood, Good, Asked, Offered, Clean, ImageFor

LEMMA PostInv ==
    ASSUME FormInv, NEW r \in Request, NEW form \in Form, Post(r, form)
    PROVE  FormInv'
  <1> DEFINE post == [form |-> form, offer |-> spawner.groups[form.group],
                      late |-> spawner.dirty, overtaken |-> FALSE]
  <1>0. TypeOK /\ spawner \in Spawner
    BY DEF FormInv, TypeOK
  <1>1. post \in Posts
    BY <1>0, KnownOffered DEF Post, Posts, Spawner
  <1>2. request' = [q \in Waiting \cup {r} |->
                      IF q # r THEN Overtaken[q] ELSE post]
    BY DEF Post
  <1>3. /\ Waiting' = Waiting \cup {r}
        /\ request' \in [Waiting' -> Posts]
        /\ request'[r] = post
        /\ \A q \in Waiting : request'[q].overtaken
    <2> HIDE DEF post
    <2> QED
      BY <1>0, <1>1, <1>2, Joined DEF Post
  <1>4. /\ spawner' \in Spawner
        /\ spawner'.attributes = Overridden(form)
        /\ spawner'.dirty
    BY <1>0, OverriddenTypes DEF Post, Spawner
  <1>5. ~Running /\ UNCHANGED <<context, pod>>
    BY DEF Post
  <1>6. Asked(Overridden(form), post) /\ Offered(post)
    BY <1>0, KnownOffered DEF Asked, Offered, Overridden, ImageFor, Post
  <1>7. ~post.late => Clean(Overridden(form), post)
    BY <1>5 DEF FormInv, CleanUnlessDirty, Clean, Overridden
  <1>8. TypeOK'
    BY <1>0, <1>3, <1>4, <1>5 DEF TypeOK
  <1>9. Matched(spawner'.attributes)
    BY <1>0, <1>4, OverriddenTypes
  <1>10. CleanUnlessDirty'
    BY <1>4 DEF CleanUnlessDirty
  <1>11. WaitingGood'
    <2>1. Good(spawner'.attributes, request'[r])
      BY <1>3, <1>4, <1>6, <1>7 DEF Good
    <2>2. \A q \in Waiting : Good(spawner'.attributes, request'[q])
      BY <1>3 DEF Good
    <2> QED
      BY <1>3, <2>1, <2>2 DEF WaitingGood
  <1>12. PodGood'
    BY <1>5 DEF FormInv, PodGood
  <1> QED
    BY <1>8, <1>9, <1>10, <1>11, <1>12 DEF FormInv, Matched

LEMMA PostUnknownInv ==
    ASSUME FormInv, NEW r \in Request, NEW form \in Form, PostUnknown(r, form)
    PROVE  FormInv'
  <1>1. /\ spawner' \in Spawner
        /\ spawner'.dirty = spawner.dirty
        /\ spawner'.attributes =
             [spawner.attributes EXCEPT !.safe = form.safe]
    BY DEF FormInv, TypeOK, PostUnknown, Spawner, Attributes, Form
  <1>2. /\ spawner'.attributes.type = spawner.attributes.type
        /\ spawner'.attributes.image = spawner.attributes.image
        /\ spawner'.attributes.selector = spawner.attributes.selector
        /\ spawner'.attributes.secret = spawner.attributes.secret
    BY <1>1 DEF FormInv, TypeOK, Spawner, Attributes
  <1>3. request' = Overtaken /\ UNCHANGED <<context, pod>>
    BY DEF PostUnknown
  <1>4. /\ Waiting' = Waiting
        /\ request' \in [Waiting' -> Posts]
        /\ WaitingGood'
    BY <1>3, OvertakenGood DEF FormInv
  <1>5. TypeOK'
    BY <1>1, <1>3, <1>4 DEF FormInv, TypeOK
  <1>6. Matched(spawner.attributes)' /\ CleanUnlessDirty'
    BY <1>1, <1>2, <1>3 DEF FormInv, Matched, CleanUnlessDirty, Running
  <1>7. PodGood'
    BY <1>3 DEF FormInv, PodGood
  <1> QED
    BY <1>4, <1>5, <1>6, <1>7 DEF FormInv

LEMMA DropInv ==
    ASSUME FormInv, NEW r \in Request, Drop(r)
    PROVE  FormInv'
  <1>1. r \in Waiting /\ request' = Restrict(request, Waiting \ {r})
        /\ UNCHANGED <<context, spawner, pod>>
    BY DEF Drop
  <1>2. /\ Waiting' = Waiting \ {r}
        /\ request' \in [Waiting' -> Posts]
        /\ \A q \in Waiting' : request'[q] = request[q]
    BY <1>1, Left DEF FormInv
  <1>3. TypeOK'
    BY <1>1, <1>2 DEF FormInv, TypeOK
  <1>4. WaitingGood'
    BY <1>1, <1>2 DEF FormInv, WaitingGood
  <1> QED
    BY <1>1, <1>3, <1>4
       DEF FormInv, Matched, CleanUnlessDirty, Running, PodGood

LEMMA LaunchInv ==
    ASSUME FormInv, NEW r \in Request, Launch(r)
    PROVE  FormInv'
  <1> DEFINE p == [post |-> request[r], attributes |-> spawner.attributes]
  <1>1. r \in Waiting /\ request' = Restrict(request, Waiting \ {r})
        /\ context' = context /\ pod' = {p}
    BY DEF Launch
  <1>2. /\ Waiting' = Waiting \ {r}
        /\ request' \in [Waiting' -> Posts]
        /\ \A q \in Waiting' : request'[q] = request[q]
    BY <1>1, Left DEF FormInv
  <1>3. /\ spawner' \in Spawner
        /\ spawner'.attributes = spawner.attributes
    BY DEF FormInv, TypeOK, Launch, Spawner
  <1>4. p \in Pod
    BY <1>1 DEF FormInv, TypeOK, Pod, Spawner
  <1>5. TypeOK'
    BY <1>1, <1>2, <1>3, <1>4 DEF FormInv, TypeOK
  <1>6. WaitingGood'
    BY <1>2, <1>3 DEF FormInv, WaitingGood
  <1>7. Good(p.attributes, p.post) /\ Matched(p.attributes)
    BY <1>1 DEF FormInv, WaitingGood
  <1>8. PodGood'
    BY <1>1, <1>7 DEF PodGood
  <1>9. CleanUnlessDirty'
    BY <1>1 DEF CleanUnlessDirty, Running
  <1> QED
    BY <1>3, <1>5, <1>6, <1>8, <1>9 DEF FormInv, Matched

LEMMA StopInv == FormInv /\ Stop => FormInv'
  <1> SUFFICES ASSUME FormInv, Stop PROVE FormInv'
    OBVIOUS
  <1>1. spawner' = NewSpawner /\ request' = Overtaken /\ pod' = {}
        /\ context' = context
    BY DEF Stop, Forgotten
  <1>2. /\ Waiting' = Waiting
        /\ request' \in [Waiting' -> Posts]
        /\ WaitingGood'
    BY <1>1, OvertakenGood DEF FormInv
  <1>3. TypeOK'
    BY <1>1, <1>2, DefaultTypes DEF FormInv, TypeOK
  <1> QED
    BY <1>1, <1>2, <1>3
       DEF FormInv, Matched, CleanUnlessDirty, PodGood, NewSpawner, Defaults

LEMMA HubRestartInv == FormInv /\ HubRestart => FormInv'
  <1> SUFFICES ASSUME FormInv, HubRestart PROVE FormInv'
    OBVIOUS
  <1>1. spawner' = NewSpawner /\ request' = NoGroups /\ pod' = pod
        /\ context' = context
    BY DEF HubRestart
  <1>2. Waiting' = {} /\ request' \in [Waiting' -> Posts]
    BY <1>1 DEF Waiting, NoGroups
  <1>3. TypeOK'
    BY <1>1, <1>2, DefaultTypes DEF FormInv, TypeOK
  <1>4. WaitingGood'
    BY <1>2 DEF WaitingGood
  <1> QED
    BY <1>1, <1>3, <1>4
       DEF FormInv, Matched, CleanUnlessDirty, PodGood, NewSpawner, Defaults

LEMMA StepInv == FormInv /\ [Next]_vars => FormInv'
  <1> SUFFICES ASSUME FormInv, [Next]_vars PROVE FormInv'
    OBVIOUS
  <1>1. CASE Refresh
    BY <1>1, RefreshInv
  <1>2. CASE Render
    BY <1>2, RenderInv
  <1>3. CASE Stop
    BY <1>3, StopInv
  <1>4. CASE HubRestart
    BY <1>4, HubRestartInv
  <1>5. ASSUME NEW r \in Request, NEW form \in Form, Post(r, form)
        PROVE  FormInv'
    BY <1>5, PostInv
  <1>6. ASSUME NEW r \in Request, NEW form \in Form, PostUnknown(r, form)
        PROVE  FormInv'
    BY <1>6, PostUnknownInv
  <1>7. ASSUME NEW r \in Request, Drop(r)
        PROVE  FormInv'
    BY <1>7, DropInv
  <1>8. ASSUME NEW r \in Request, Launch(r)
        PROVE  FormInv'
    BY <1>8, LaunchInv
  <1>9. CASE UNCHANGED vars
    BY <1>9 DEF FormInv, vars, TypeOK, Waiting, Running, Matched,
                CleanUnlessDirty, WaitingGood, PodGood, Good
  <1> QED
    BY <1>1, <1>2, <1>3, <1>4, <1>5, <1>6, <1>7, <1>8, <1>9 DEF Next

\* The inductive invariant holds in every behaviour: what waits is what the
\* spawner was made for, or has been overtaken.
THEOREM FormInvariance == Spec => []FormInv
  BY InitInv, StepInv, PTL DEF Spec

-----------------------------------------------------------------------------
(* What follows from it.                                                   *)

\* SpawnForm keeps its types.
THEOREM FormTypeCorrect == Spec => []TypeOK
  <1>1. FormInv => TypeOK
    BY DEF FormInv
  <1> QED
    BY <1>1, FormInvariance, PTL

\* The limits, the image and the mode of a pod are those of the form its
\* options come from, unless another form overtook it.
THEOREM PodAsAsked == Spec => []PodIsAsAsked
  <1>1. FormInv => PodIsAsAsked
    BY DEF FormInv, PodGood, Good, Asked, PodIsAsAsked
  <1> QED
    BY <1>1, FormInvariance, PTL

\* A selector or secret nobody asked for comes from a form that came to
\* nothing.
THEOREM OnlyFormsLeave == Spec => []LeftoversOnlyFromForms
  <1>1. FormInv => LeftoversOnlyFromForms
    BY DEF FormInv, PodGood, Good, Clean, LeftoversOnlyFromForms
  <1> QED
    BY <1>1, FormInvariance, PTL

\* A pod runs what its group offered when its form was posted.
THEOREM PodOffered == Spec => []PodIsOffered
  <1>1. FormInv => PodIsOffered
    BY DEF FormInv, PodGood, Good, Asked, Offered, ImageFor, PodIsOffered
  <1> QED
    BY <1>1, FormInvariance, PTL

\* However the posts of any number of tabs interleave, a pod with a GPU and no
\* other has the image for GPUs.
THEOREM GpuWithGpu == Spec => []GpuImageWithGpu
  <1>1. FormInv => GpuImageWithGpu
    BY DEF FormInv, PodGood, Matched, GpuImageWithGpu
  <1> QED
    BY <1>1, FormInvariance, PTL
=============================================================================
