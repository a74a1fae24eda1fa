----------------------------- MODULE AuthState -----------------------------
(***************************************************************************)
(* The auth_state of one user, as the hub keeps it in its database, under  *)
(* several requests of that user at once: authenticate replaces it,        *)
(* refresh_user, which runs before every request and every spawn, replaces *)
(* its launch context.  Both read at their start, await the answers of     *)
(* Keycloak and of the GraphQL backend, and write a whole record at their  *)
(* end; between two awaits of one request any step of another may happen.  *)
(*                                                                         *)
(* What the administrator has set up (the user's groups, their datasets    *)
(* and quotas) is a version number: the roles in the user info of Keycloak *)
(* and the launch context of the backend are both views of it.             *)
(***************************************************************************)
EXTENDS Integers

CONSTANTS
    Request,      \* the handlers that may run at a time
    MaxVersion,   \* bound: changes of the administrator
    MaxLogins     \* bound: logins

ASSUME AuthStateAssumption == MaxVersion \in Nat \ {0} /\ MaxLogins \in Nat

VARIABLES
    version,    \* what the administrator has set up
    apiUp,      \* kube-apiserver answers the backend
    logins,     \* access tokens are numbered as they are issued
    alive,      \* the access tokens Keycloak still accepts
    saved,      \* the auth_state in the hub's database
    request,    \* request[r]: the handler r
    lastLogin,  \* history: the token of the last login that was saved
    clobbered   \* history: a refresh that overlapped that login saved later

world == <<version, apiUp, logins, alive>>
history == <<lastLogin, clobbered>>
vars == <<world, saved, request, history>>

Version == 0..MaxVersion
Token == 0..MaxLogins
Error == {"none", "api", "other"}

\* roles: oauth_user.roles; context: launch_context and system, 0 for {}.
State == [token: Token, roles: Version, context: Version, error: Error]

\* Nobody has logged in: no cookie, no request.
NoState == [token |-> 0, roles |-> 0, context |-> 0, error |-> "none"]

\* Where refresh_user or authenticate is: the await each step waits at.
Step == {"idle", "loaded", "verifying", "fetching", "saving", "ready",
         "login", "entering"}

\* mine: the auth_state that was read and is changed; token: the one sent to
\* Keycloak; since: the version at the start; answered: the backend answered
\* this request; overtaken: what other requests saved since its start.
RequestState == [step: Step, kind: {"page", "spawn"}, mine: State,
                 token: Token, since: Version, answered: BOOLEAN,
                 overtaken: SUBSET {"refresh", "login"}]

Idle == [step |-> "idle", kind |-> "page", mine |-> NoState, token |-> 0,
         since |-> 0, answered |-> FALSE, overtaken |-> {}]

Init ==
    /\ version = 1 /\ apiUp = TRUE /\ logins = 0 /\ alive = {}
    /\ saved = NoState
    /\ request = [r \in Request |-> Idle]
    /\ lastLogin = 0 /\ clobbered = FALSE

-----------------------------------------------------------------------------
(* The world around the hub.                                               *)

Change ==
    /\ version < MaxVersion
    /\ version' = version + 1
    /\ UNCHANGED <<apiUp, logins, alive, saved, request, history>>

Switch ==
    /\ apiUp' = ~apiUp
    /\ UNCHANGED <<version, logins, alive, saved, request, history>>

Expire(t) ==
    /\ t \in alive
    /\ alive' = alive \ {t}
    /\ UNCHANGED <<version, apiUp, logins, saved, request, history>>

-----------------------------------------------------------------------------
(* refresh_user.                                                           *)

At(r, step) == request[r].step = step

Finish(r) == request' = [request EXCEPT ![r] = Idle]

\* The first get_auth_state.
Arrive(r, kind) ==
    /\ At(r, "idle") /\ saved.token # 0
    /\ request' = [request EXCEPT ![r] =
          [Idle EXCEPT !.step = "loaded", !.kind = kind, !.mine = saved,
                       !.since = version]]
    /\ UNCHANGED <<world, saved, history>>

\* verify_access_token reads the auth_state a second time.
ReadToken(r) ==
    /\ At(r, "loaded")
    /\ request' = [request EXCEPT ![r].step = "verifying",
                                  ![r].token = saved.token]
    /\ UNCHANGED <<world, saved, history>>

TokenAccepted(r) ==
    /\ At(r, "verifying") /\ request[r].token \in alive
    /\ request' = [request EXCEPT ![r].step = "fetching", ![r].token = 0]
    /\ UNCHANGED <<world, saved, history>>

\* Refused, or Keycloak did not answer: both mean a new login.
TokenRefused(r) ==
    /\ At(r, "verifying")
    /\ Finish(r)
    /\ UNCHANGED <<world, saved, history>>

\* No answer, or one with errors, and the request goes on as it is.
RefreshFails(r) ==
    /\ At(r, "fetching")
    /\ request' = [request EXCEPT ![r].step = "ready", ![r].mine = NoState]
    /\ UNCHANGED <<world, saved, history>>

\* An answer without errors and without 'user' or 'system': the KeyError is
\* outside of the try and ends the request.
RefreshRaises(r) ==
    /\ At(r, "fetching")
    /\ Finish(r)
    /\ UNCHANGED <<world, saved, history>>

RefreshUnchanged(r) ==
    /\ At(r, "fetching") /\ apiUp
    /\ version = request[r].mine.context
    /\ request' = [request EXCEPT ![r].step = "ready", ![r].answered = TRUE,
                                  ![r].mine = NoState]
    /\ UNCHANGED <<world, saved, history>>

\* Mutated form of Updated: the new launch context is not assigned.
UpdatedNothing(state) == state

\* launch_context and system are replaced: roles and error stay.
Updated(state) == [state EXCEPT !.context = version]

RefreshChanged(r) ==
    /\ At(r, "fetching") /\ apiUp
    /\ version # request[r].mine.context
    /\ request' = [request EXCEPT ![r].step = "saving", ![r].answered = TRUE,
                                  ![r].mine = Updated(@)]
    /\ UNCHANGED <<world, saved, history>>

\* A save shows to all the others that are under way.
Saved(r, next, what) ==
    [q \in Request |->
        IF q = r THEN next
        ELSE IF At(q, "idle") THEN request[q]
        ELSE [request[q] EXCEPT !.overtaken = @ \cup {what}]]

SaveRefresh(r) ==
    /\ At(r, "saving")
    /\ saved' = request[r].mine
    /\ request' = Saved(r, [request[r] EXCEPT !.step = "ready", !.mine = NoState],
                      "refresh")
    /\ clobbered' = (clobbered \/ "login" \in request[r].overtaken)
    /\ UNCHANGED <<world, lastLogin>>

-----------------------------------------------------------------------------
(* authenticate.                                                           *)

\* Mutated form of Fresh: the user info has no roles.
FreshWithoutRoles(t) == [token |-> t, context |-> 0, error |-> "none"]

\* The token and the roles of the user info that belongs to it.
Fresh(t) == [NoState EXCEPT !.token = t, !.roles = version]

LoginStart(r) ==
    /\ At(r, "idle") /\ logins < MaxLogins
    /\ logins' = logins + 1
    /\ alive' = alive \cup {logins'}
    /\ request' = [request EXCEPT ![r] =
          [Idle EXCEPT !.step = "login", !.mine = Fresh(logins')]]
    /\ UNCHANGED <<version, apiUp, saved, history>>

\* Without the required scope or a user id nobody is logged in.
LoginRefused(r) ==
    /\ At(r, "login")
    /\ Finish(r)
    /\ UNCHANGED <<world, saved, history>>

\* Mutated form of LoginContext: the stored context is taken over.
LoginStoredContext(r) ==
    /\ At(r, "login") /\ apiUp
    /\ request' = [request EXCEPT ![r].step = "entering",
                                  ![r].mine.context = saved.context]
    /\ UNCHANGED <<world, saved, history>>

LoginContext(r) ==
    /\ At(r, "login") /\ apiUp
    /\ request' = [request EXCEPT ![r].step = "entering",
                                  ![r].mine.context = version]
    /\ UNCHANGED <<world, saved, history>>

\* Any errors in the answer are API_UNAVAILABLE ("api"), no answer is something
\* else ("other"), an answer without 'user' gives {} and no error ("none").
LoginWithout(r, error) ==
    /\ At(r, "login")
    /\ request' = [request EXCEPT ![r].step = "entering",
                                  ![r].mine.error = error]
    /\ UNCHANGED <<world, saved, history>>

\* Mutated form of SaveLogin: the stored token wins over the new one.
SaveLoginMerged(r) ==
    /\ At(r, "entering")
    /\ saved' = IF saved.token = 0 THEN request[r].mine
                ELSE [request[r].mine EXCEPT !.token = saved.token]
    /\ request' = Saved(r, Idle, "login")
    /\ lastLogin' = request[r].mine.token
    /\ clobbered' = FALSE
    /\ UNCHANGED world

SaveLogin(r) ==
    /\ At(r, "entering")
    /\ saved' = request[r].mine
    /\ request' = Saved(r, Idle, "login")
    /\ lastLogin' = request[r].mine.token
    /\ clobbered' = FALSE
    /\ UNCHANGED world

-----------------------------------------------------------------------------
(* What a refreshed request does with the auth_state, which it reads once   *)
(* more: the form and the pod are functions of that record.                *)

\* _render_options_form_dynamically.
Shows(state) ==
    CASE state.error = "api" -> "block"
      [] state.error # "api" /\ state.context = 0 -> "relogin"
      [] OTHER -> "groups"

RenderForm(r) ==
    /\ At(r, "ready") /\ request[r].kind = "page"
    /\ Finish(r)
    /\ UNCHANGED <<world, saved, history>>

\* pre_spawn_start: an empty launch context has no groups and raises.
StartPod(r) ==
    /\ At(r, "ready") /\ request[r].kind = "spawn"
    /\ Finish(r)
    /\ UNCHANGED <<world, saved, history>>

-----------------------------------------------------------------------------

Refresh(r) ==
    \/ \E kind \in {"page", "spawn"} : Arrive(r, kind)
    \/ ReadToken(r) \/ TokenAccepted(r) \/ TokenRefused(r)
    \/ RefreshFails(r) \/ RefreshRaises(r)
    \/ RefreshUnchanged(r) \/ RefreshChanged(r)
    \/ SaveRefresh(r)

Login(r) ==
    \/ LoginStart(r) \/ LoginRefused(r) \/ LoginContext(r)
    \/ \E error \in Error : LoginWithout(r, error)
    \/ SaveLogin(r)

Use(r) == RenderForm(r) \/ StartPod(r)

Next ==
    \/ Change \/ Switch \/ \E t \in Token : Expire(t)
    \/ \E r \in Request : Refresh(r) \/ Login(r) \/ Use(r)

Spec == Init /\ [][Next]_vars

-----------------------------------------------------------------------------
(* Properties.                                                             *)

TypeOK ==
    /\ version \in Version /\ apiUp \in BOOLEAN /\ logins \in Token
    /\ alive \subseteq Token
    /\ saved \in State
    /\ request \in [Request -> RequestState]
    /\ lastLogin \in Token /\ clobbered \in BOOLEAN

\* mount_dataset combines the roles with the launch context: whichever of the
\* overlapping saves came last, the groups are never older than the roles.
ContextNotOlderThanRoles ==
    saved.context # 0 => saved.context >= saved.roles

\* A handler about to read the record it had refreshed from the backend.
Refreshed(r, kind) ==
    At(r, "ready") /\ request[r].kind = kind /\ request[r].answered

\* What refresh_pre_spawn is for: a spawn the backend answered is made from
\* settings no older than its start, unless another request saved meanwhile.
StaleContextOnlyByOverlap ==
    \A r \in Request :
        Refreshed(r, "spawn") /\ request[r].overtaken = {}
            => saved.context >= request[r].since

\* The record holds the access token of the last login, unless a refresh that
\* was under way when that login was saved put the record it had read back.
LoginLostOnlyByOverlap == saved.token = lastLogin \/ clobbered

\* CHANGELOG: "Refresh user state after the administrator reconfigred
\* settings": a spawn the backend answered is made from roles and groups no
\* older than its start.
SpawnSeesSettings ==
    \A r \in Request : Refreshed(r, "spawn") =>
        /\ saved.context >= request[r].since
        /\ saved.roles >= request[r].since

\* authenticate: "error: 'API_UNAVAILABLE' if kube-apiserver is down": no
\* request that the backend answered shows the form that says so.
BlockedOnlyWhileDown ==
    \A r \in Request : Refreshed(r, "page") => Shows(saved) # "block"
=============================================================================
