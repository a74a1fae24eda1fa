----------------------------- MODULE SpawnForm -----------------------------
(***************************************************************************)
(* The spawn form of one user: PrimeHubSpawner.options_from_form writes    *)
(* what a form asks for into attributes of the spawner and returns the     *)
(* rest as options; the pod is made of both.  Between the two it saves the *)
(* environment variables of the form and awaits the answer (a form without *)
(* variables yields once, as the hub awaits the handler as a task), and a  *)
(* form of another tab may be posted meanwhile.  Attributes stay on the    *)
(* spawner until it is dropped, when a notebook stops or the hub restarts. *)
(***************************************************************************)
EXTENDS Functions

CONSTANTS
    Group,        \* names of the groups, with "everyone"
    Type,         \* instance types
    Image,        \* images
    Context,      \* the launch contexts the user may get
    Gpu,          \* instance types that ask for a GPU
    Selective,    \* instance types with a nodeSelector
    Private,      \* images with a pullSecret
    Request       \* the requests that may run at a time

Offer == [types: SUBSET Type, images: SUBSET Image]

\* A launch context: what each of the user's groups offers.
Contexts == UNION {[G -> Offer] : G \in SUBSET Group}

ASSUME SpawnFormAssumption ==
    /\ Context \subseteq Contexts
    /\ Gpu \subseteq Type /\ Selective \subseteq Type /\ Private \subseteq Image

VARIABLES
    context,    \* the launch context in the auth_state
    spawner,    \* the spawner of the user
    request,    \* the posts that are in options_from_form
    pod         \* the pod, if there is one, with what it was made from

vars == <<context, spawner, request, pod>>

\* env: the form has environment variables.
Form == [group: Group, type: Type, image: Image, safe: BOOLEAN, env: BOOLEAN]

Unset == "unset"

\* An attribute is what its override sets it to; the chart has the defaults.
Attributes == [type: Type \cup {Unset},
               image: (Image \cup {Unset}) \X {"url", "urlForGpu"},
               selector: Type \cup {Unset},
               secret: Image \cup {Unset},
               safe: BOOLEAN]

Defaults == [type |-> Unset, image |-> <<Unset, "url">>, selector |-> Unset,
             secret |-> Unset, safe |-> FALSE]

NoGroups == [g \in {} |-> {}]

\* groups: _groups, of the form that was rendered last; dirty: history, a form
\* has written to this spawner and was not launched.
Spawner == [groups: Contexts, attributes: Attributes, dirty: BOOLEAN]

NewSpawner == [groups |-> NoGroups, attributes |-> Defaults, dirty |-> FALSE]

\* offer, late and overtaken: history, what its group offered when the form was
\* posted, whether the spawner was dirty then, and whether it was written to or
\* dropped since.
Posts == [form: Form, offer: Offer, late: BOOLEAN, overtaken: BOOLEAN]

Pod == [post: Posts, attributes: Attributes]

Init ==
    /\ context \in Context
    /\ spawner = NewSpawner
    /\ request = NoGroups
    /\ pod = {}

-----------------------------------------------------------------------------

Waiting == DOMAIN request
Running == pod # {}

\* Another launch context has been stored.
Refresh ==
    /\ context' \in Context
    /\ UNCHANGED <<spawner, request, pod>>

\* _groups_from_ctx: everyone is not offered, what it offers is.
GroupsFrom(ctx) ==
    LET shared == IF "everyone" \in DOMAIN ctx THEN ctx["everyone"]
                  ELSE [types |-> {}, images |-> {}]
    IN  [g \in DOMAIN ctx \ {"everyone"} |->
            [types |-> ctx[g].types \cup shared.types,
             images |-> ctx[g].images \cup shared.images]]

\* Without a group the page says so and _groups is left alone.
Render ==
    /\ ~Running /\ DOMAIN GroupsFrom(context) # {}
    /\ spawner' = [spawner EXCEPT !.groups = GroupsFrom(context)]
    /\ UNCHANGED <<context, request, pod>>

\* Mutated form of Known: the choices of all the groups are accepted.
KnownAnywhere(form) ==
    /\ form.group \in DOMAIN spawner.groups
    /\ \E g \in DOMAIN spawner.groups : form.type \in spawner.groups[g].types
    /\ \E g \in DOMAIN spawner.groups : form.image \in spawner.groups[g].images

Known(form) ==
    /\ form.group \in DOMAIN spawner.groups
    /\ form.type \in spawner.groups[form.group].types
    /\ form.image \in spawner.groups[form.group].images

\* Mutated form of ImageFor: the GPU that counts is the one asked for before.
ImageForLast(form) ==
    <<form.image, IF spawner.attributes.type \in Gpu THEN "urlForGpu" ELSE "url">>

\* image_to_override.
ImageFor(form) ==
    <<form.image, IF form.type \in Gpu THEN "urlForGpu" ELSE "url">>

\* Mutated form of Overridden: the image is left as it is.
OverriddenButImage(form) ==
    [spawner.attributes EXCEPT !.type = form.type, !.safe = form.safe]

\* Mutated form of Overridden: the two keys are swapped.
OverriddenSwapped(form) ==
    [type |-> form.type, image |-> ImageFor(form), safe |-> form.safe,
     selector |-> IF form.image \in Private THEN form.image
                  ELSE spawner.attributes.selector,
     secret |-> IF form.type \in Selective THEN form.type
                ELSE spawner.attributes.secret]

\* instance_type_to_override and image_to_override: selector and secret are
\* only ever set.
Overridden(form) ==
    [type |-> form.type, image |-> ImageFor(form), safe |-> form.safe,
     selector |-> IF form.type \in Selective THEN form.type
                  ELSE spawner.attributes.selector,
     secret |-> IF form.image \in Private THEN form.image
                ELSE spawner.attributes.secret]

\* The spawner is written to, or dropped, under the posts that wait.
Overtaken == [r \in Waiting |-> [request[r] EXCEPT !.overtaken = TRUE]]

\* options_from_form up to its await.  The hub takes no form while a notebook
\* runs.
Post(r, form) ==
    /\ r \notin Waiting /\ ~Running /\ Known(form)
    /\ spawner' = [spawner EXCEPT !.attributes = Overridden(form), !.dirty = TRUE]
    /\ request' = [q \in Waiting \cup {r} |->
          IF q # r THEN Overtaken[q]
          ELSE [form |-> form, offer |-> spawner.groups[form.group],
                late |-> spawner.dirty, overtaken |-> FALSE]]
    /\ UNCHANGED <<context, pod>>

\* A form that was not rendered, or names something that was not offered,
\* raises before it overrides; safe mode is written by then.
PostUnknown(r, form) ==
    /\ r \notin Waiting /\ ~Running /\ ~Known(form)
    /\ spawner' = [spawner EXCEPT !.attributes.safe = form.safe]
    /\ request' = Overtaken
    /\ UNCHANGED <<context, pod>>

\* A malformed variable, an answer that does not come, or a notebook that was
\* started meanwhile: the form is gone, its overrides are not.
Drop(r) ==
    /\ r \in Waiting /\ (request[r].form.env \/ Running)
    /\ request' = Restrict(request, Waiting \ {r})
    /\ UNCHANGED <<context, spawner, pod>>

\* The options are returned and the pod is made, of the spawner the user has
\* by now.
Launch(r) ==
    /\ r \in Waiting /\ ~Running
    /\ pod' = {[post |-> request[r], attributes |-> spawner.attributes]}
    /\ request' = Restrict(request, Waiting \ {r})
    /\ spawner' = [spawner EXCEPT !.dirty = FALSE]
    /\ UNCHANGED context

\* Mutated form of Forgotten: the spawner is kept.
Kept == spawner

Forgotten == NewSpawner

\* The notebook stops or fails: post_spawn_stop drops the spawner.
Stop ==
    /\ Running
    /\ pod' = {}
    /\ spawner' = Forgotten
    /\ request' = Overtaken
    /\ UNCHANGED context

\* load_state restores none of the attributes; the pod runs on.
HubRestart ==
    /\ spawner' = NewSpawner
    /\ request' = NoGroups
    /\ UNCHANGED <<context, pod>>

Next ==
    \/ Refresh \/ Render \/ Stop \/ HubRestart
    \/ \E r \in Request :
          \/ \E form \in Form : Post(r, form) \/ PostUnknown(r, form)
          \/ Drop(r) \/ Launch(r)

Spec == Init /\ [][Next]_vars

-----------------------------------------------------------------------------
(* Properties.                                                             *)

TypeOK ==
    /\ context \in Context
    /\ spawner \in Spawner
    /\ Waiting \subseteq Request /\ request \in [Waiting -> Posts]
    /\ pod \subseteq Pod

\* The limits, the image and the mode of a pod are those its options name (and
\* with them its labels and variables), unless another form came in, or the
\* spawner was dropped, while the form waited.
PodIsAsAsked ==
    \A p \in pod : ~p.post.overtaken =>
        /\ p.attributes.type = p.post.form.type
        /\ p.attributes.image = ImageFor(p.post.form)
        /\ p.attributes.safe = p.post.form.safe

\* A node selector or pull secret the form did not ask for was left by a form
\* that was posted before on the same spawner and came to nothing.
LeftoversOnlyFromForms ==
    \A p \in pod : ~p.post.overtaken /\ ~p.post.late =>
        /\ p.attributes.selector \in {p.post.form.type, Unset}
        /\ p.attributes.secret \in {p.post.form.image, Unset}

\* What a pod runs, its group offered when the form was posted, however many
\* times the launch context changed since the page was rendered.
PodIsOffered ==
    \A p \in pod : ~p.post.overtaken =>
        /\ p.attributes.type \in p.post.offer.types
        /\ p.attributes.image[1] \in p.post.offer.images

\* However the posts interleave, a pod with a GPU runs the image for GPUs and no
\* other does: the two overrides of a form are never separated.
GpuImageWithGpu ==
    \A p \in pod : p.attributes.type # Unset =>
        (p.attributes.image[2] = "urlForGpu" <=> p.attributes.type \in Gpu)
=============================================================================
