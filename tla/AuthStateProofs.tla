-------------------------- MODULE AuthStateProofs --------------------------
(***************************************************************************)
(* Proofs about AuthState, for every number of requests, of changes and of *)
(* logins.                                                                 *)
(***************************************************************************)
EXTENDS AuthState, TLAPS

-----------------------------------------------------------------------------
(* Types.                                                                  *)

LEMMA RecordTypes ==
    /\ NoState \in State
    /\ Idle \in RequestState
  BY AuthStateAssumption
     DEF NoState, Idle, State, RequestState, Token, Version, Error, Step

LEMMA StateUpdate ==
    ASSUME NEW s \in State, NEW t \in Token, NEW v \in Version, NEW e \in Error
    PROVE  /\ [s EXCEPT !.token = t] \in State
           /\ [s EXCEPT !.roles = v] \in State
           /\ [s EXCEPT !.context = v] \in State
           /\ [s EXCEPT !.error = e] \in State
  BY DEF State

\* The fields of a request change within their types.
LEMMA RequestUpdates ==
    ASSUME NEW q \in RequestState, NEW step \in Step, NEW m \in State,
           NEW t \in Token, NEW kind \in {"page", "spawn"}, NEW v \in Version
    PROVE  /\ [Idle EXCEPT !.step = step, !.kind = kind, !.mine = m,
                           !.since = v] \in RequestState
           /\ [Idle EXCEPT !.step = step, !.mine = m] \in RequestState
           /\ [q EXCEPT !.step = step, !.token = t] \in RequestState
           /\ [q EXCEPT !.step = step, !.mine = m] \in RequestState
           /\ [q EXCEPT !.step = step, !.answered = TRUE, !.mine = m]
                \in RequestState
  BY RecordTypes DEF RequestState

LEMMA Replaced ==
    ASSUME TypeOK, NEW r \in Request, NEW x \in RequestState,
           request' = [request EXCEPT ![r] = x]
    PROVE  request' \in [Request -> RequestState]
  BY DEF TypeOK

LEMMA SavedType ==
    ASSUME TypeOK, NEW r \in Request, NEW next \in RequestState,
           NEW what \in {"refresh", "login"}
    PROVE  Saved(r, next, what) \in [Request -> RequestState]
  <1>1. ASSUME NEW q \in Request
        PROVE  /\ request[q] \in RequestState
               /\ [request[q] EXCEPT !.overtaken = request[q].overtaken \cup {what}]
                    \in RequestState
    <2>1. request[q] \in RequestState
      BY DEF TypeOK
    <2>. QED  BY <2>1 DEF RequestState
  <1> DEFINE One(q) == IF q = r THEN next
                       ELSE IF At(q, "idle") THEN request[q]
                       ELSE [request[q] EXCEPT !.overtaken = @ \cup {what}]
  <1>2. ASSUME NEW q \in Request
        PROVE  One(q) \in RequestState
    <2> DEFINE shown == [request[q] EXCEPT !.overtaken = request[q].overtaken \cup {what}]
    <2>1. request[q] \in RequestState /\ shown \in RequestState
      BY <1>1
    <2>2. One(q) \in {next, request[q], shown}
      OBVIOUS
    <2> HIDE DEF One, shown
    <2>. QED  BY <2>1, <2>2
  <1>3. Saved(r, next, what) = [q \in Request |-> One(q)]
    BY DEF Saved
  <1> HIDE DEF One
  <1>. QED  BY <1>2, <1>3

LEMMA TypeStep == TypeOK /\ [Next]_vars => TypeOK'
  <1> SUFFICES ASSUME TypeOK, [Next]_vars
               PROVE  TypeOK'
    OBVIOUS
  <1> USE DEF world, history
  <1>1. CASE UNCHANGED vars
    BY <1>1 DEF vars, TypeOK
  <1>2. CASE Change \/ Switch \/ \E t \in Token : Expire(t)
    <2>1. version' \in Version
      BY <1>2, AuthStateAssumption DEF Change, Switch, Expire, Version, TypeOK
    <2>. QED  BY <1>2, <2>1 DEF Change, Switch, Expire, TypeOK
  <1>3. ASSUME NEW r \in Request
        PROVE  /\ request[r] \in RequestState /\ request[r].mine \in State
               /\ request[r].mine.token \in Token
               /\ saved \in State /\ saved.token \in Token /\ 0 \in Token
               /\ version \in Version
    BY AuthStateAssumption DEF TypeOK, RequestState, State, Token
  <1>4. ASSUME NEW r \in Request, NEW x \in RequestState,
               request' = [request EXCEPT ![r] = x],
               UNCHANGED <<version, apiUp, saved, history>>,
               logins' \in Token, alive' \subseteq Token
        PROVE  TypeOK'
    BY <1>4, Replaced DEF TypeOK
  <1>5. TypeOK => logins \in Token /\ alive \subseteq Token
    BY DEF TypeOK
  <1>6. ASSUME NEW r \in Request, Refresh(r)
        PROVE  TypeOK'
    <2> USE <1>3, <1>5
    <2>1. ASSUME NEW kind \in {"page", "spawn"}, Arrive(r, kind)
          PROVE  TypeOK'
      <3> DEFINE x == [Idle EXCEPT !.step = "loaded", !.kind = kind, !.mine = saved,
                                  !.since = version]
      <3>1. x \in RequestState
        BY RecordTypes, RequestUpdates DEF Step
      <3>2. request' = [request EXCEPT ![r] = x]
        BY <2>1 DEF Arrive
      <3>3. UNCHANGED <<world, saved, history>>
        BY <2>1 DEF Arrive
      <3> HIDE DEF x
      <3>. QED  BY <3>1, <3>2, <3>3, <1>4
    <2>2. CASE ReadToken(r)
      <3> DEFINE x == [request[r] EXCEPT !.step = "verifying", !.token = saved.token]
      <3>1. x \in RequestState
        BY RecordTypes, RequestUpdates DEF Step
      <3>2. request' = [request EXCEPT ![r] = x]
        BY <2>2 DEF ReadToken
      <3>3. UNCHANGED <<world, saved, history>>
        BY <2>2 DEF ReadToken
      <3> HIDE DEF x
      <3>. QED  BY <3>1, <3>2, <3>3, <1>4
    <2>3. CASE TokenAccepted(r)
      <3> DEFINE x == [request[r] EXCEPT !.step = "fetching", !.token = 0]
      <3>1. x \in RequestState
        BY RecordTypes, RequestUpdates DEF Step
      <3>2. request' = [request EXCEPT ![r] = x]
        BY <2>3 DEF TokenAccepted
      <3>3. UNCHANGED <<world, saved, history>>
        BY <2>3 DEF TokenAccepted
      <3> HIDE DEF x
      <3>. QED  BY <3>1, <3>2, <3>3, <1>4
    <2>4. CASE TokenRefused(r)
      BY <2>4, <1>4, RecordTypes DEF TokenRefused, Finish
    <2>5. CASE RefreshFails(r)
      <3> DEFINE x == [request[r] EXCEPT !.step = "ready", !.mine = NoState]
      <3>1. x \in RequestState
        BY RecordTypes, RequestUpdates DEF Step
      <3>2. request' = [request EXCEPT ![r] = x]
        BY <2>5 DEF RefreshFails
      <3>3. UNCHANGED <<world, saved, history>>
        BY <2>5 DEF RefreshFails
      <3> HIDE DEF x
      <3>. QED  BY <3>1, <3>2, <3>3, <1>4
    <2>6. CASE RefreshUnchanged(r)
      <3> DEFINE x == [request[r] EXCEPT !.step = "ready", !.answered = TRUE,
                                        !.mine = NoState]
      <3>1. x \in RequestState
        BY RecordTypes, RequestUpdates DEF Step
      <3>2. request' = [request EXCEPT ![r] = x]
        BY <2>6 DEF RefreshUnchanged
      <3>3. UNCHANGED <<world, saved, history>>
        BY <2>6 DEF RefreshUnchanged
      <3> HIDE DEF x
      <3>. QED  BY <3>1, <3>2, <3>3, <1>4
    <2>7. CASE RefreshChanged(r)
      <3>1. Updated(request[r].mine) \in State
        BY StateUpdate DEF Updated, Error
      <3>2. request' = [request EXCEPT ![r] =
                 [request[r] EXCEPT !.step = "saving", !.answered = TRUE,
                                    !.mine = Updated(request[r].mine)]]
        BY <2>7 DEF RefreshChanged
      <3>3. [request[r] EXCEPT !.step = "saving", !.answered = TRUE,
                               !.mine = Updated(request[r].mine)] \in RequestState
        BY <3>1, RequestUpdates DEF Step
      <3>. QED  BY <2>7, <3>2, <3>3, <1>4 DEF RefreshChanged
    <2>8. CASE SaveRefresh(r)
      <3>1. [request[r] EXCEPT !.step = "ready", !.mine = NoState] \in RequestState
        BY RecordTypes, RequestUpdates DEF Step
      <3>. QED  BY <2>8, <3>1, SavedType DEF SaveRefresh, TypeOK
    <2>9. CASE RefreshRaises(r)
      BY <2>9, <1>4, RecordTypes DEF RefreshRaises, Finish
    <2>. QED
      BY <1>6, <2>1, <2>2, <2>3, <2>4, <2>5, <2>6, <2>7, <2>8, <2>9 DEF Refresh
  <1>7. ASSUME NEW r \in Request, Login(r)
        PROVE  TypeOK'
    <2> USE <1>3, <1>5
    <2>1. CASE LoginStart(r)
      <3>1. logins' \in Token
        BY <2>1, AuthStateAssumption DEF LoginStart, Token
      <3>2. Fresh(logins') \in State
        <4>1. [NoState EXCEPT !.token = logins'] \in State
          BY <3>1, RecordTypes, StateUpdate DEF Error
        <4>2. Fresh(logins') = [[NoState EXCEPT !.token = logins']
                                  EXCEPT !.roles = version]
          BY DEF Fresh
        <4>. QED  BY <4>1, <4>2, StateUpdate DEF Error
      <3>3. [Idle EXCEPT !.step = "login", !.mine = Fresh(logins')] \in RequestState
        BY <3>2, RecordTypes, RequestUpdates DEF Step
      <3>. QED  BY <2>1, <3>1, <3>3, <1>4 DEF LoginStart
    <2>2. ASSUME NEW m \in State,
                 request' = [request EXCEPT ![r] =
                               [request[r] EXCEPT !.step = "entering", !.mine = m]],
                 UNCHANGED <<world, saved, history>>
          PROVE  TypeOK'
      <3>1. [request[r] EXCEPT !.step = "entering", !.mine = m] \in RequestState
        BY RequestUpdates DEF Step
      <3>. QED  BY <2>2, <3>1, <1>4
    <2>3. CASE LoginContext(r)
      <3> DEFINE m == [request[r].mine EXCEPT !.context = version]
      <3>1. m \in State
        BY StateUpdate DEF Error
      <3>2. request' = [request EXCEPT ![r] =
                          [request[r] EXCEPT !.step = "entering", !.mine = m]]
        BY <2>3 DEF LoginContext
      <3>3. UNCHANGED <<world, saved, history>>
        BY <2>3 DEF LoginContext
      <3> HIDE DEF m
      <3>. QED  BY <3>1, <3>2, <3>3, <2>2
    <2>4. ASSUME NEW error \in Error, LoginWithout(r, error)
          PROVE  TypeOK'
      <3> DEFINE m == [request[r].mine EXCEPT !.error = error]
      <3>1. m \in State
        BY StateUpdate
      <3>2. request' = [request EXCEPT ![r] =
                          [request[r] EXCEPT !.step = "entering", !.mine = m]]
        BY <2>4 DEF LoginWithout
      <3>3. UNCHANGED <<world, saved, history>>
        BY <2>4 DEF LoginWithout
      <3> HIDE DEF m
      <3>. QED  BY <3>1, <3>2, <3>3, <2>2
    <2>5. CASE SaveLogin(r)
      BY <2>5, RecordTypes, SavedType DEF SaveLogin, TypeOK
    <2>6. CASE LoginRefused(r)
      BY <2>6, <1>4, RecordTypes DEF LoginRefused, Finish
    <2>. QED  BY <1>7, <2>1, <2>3, <2>4, <2>5, <2>6 DEF Login
  <1>8. ASSUME NEW r \in Request, Use(r)
        PROVE  TypeOK'
    BY <1>8, <1>4, <1>5, RecordTypes DEF Use, RenderForm, StartPod, Finish
  <1>. QED  BY <1>1, <1>2, <1>6, <1>7, <1>8 DEF Next

\* The variables keep their types: every record that authenticate and
\* refresh_user save is an auth_state.
THEOREM AuthTypeCorrect == Spec => []TypeOK
  <1>1. 1 \in Version /\ 0 \in Token
    BY AuthStateAssumption DEF Version, Token
  <1>2. Init => TypeOK
    BY <1>1, RecordTypes DEF Init, TypeOK
  <1>. QED  BY <1>2, TypeStep, PTL DEF Spec

-----------------------------------------------------------------------------
(* The inductive invariant.                                                *)

\* A record of version v or before whose context, if any, is not older than
\* its roles: what authenticate and refresh_user both keep to.
RecordOK(s, v) ==
    /\ s.roles <= v /\ s.context <= v
    /\ s.context # 0 => s.roles <= s.context

Reading == {"loaded", "verifying", "fetching"}

\* What handler q knows of the database: until another request saves, it holds
\* what is stored, and what it stores is as new as its start.
RequestOK(q, v, s, last, lost) ==
    /\ q.since <= v
    /\ RecordOK(q.mine, v)
    /\ q.step \in Reading /\ q.overtaken = {} => q.mine = s
    /\ q.step \in Reading => ~q.answered
    /\ q.step = "saving" => q.mine.context >= q.since
    /\ q.step = "ready" /\ q.answered /\ q.overtaken = {} => s.context >= q.since
    /\ q.step \in Reading \cup {"saving"} =>
          q.mine.token = last \/ lost \/ "login" \in q.overtaken

RequestsOK ==
    \A r \in Request :
        RequestOK(request[r], version, saved, lastLogin, clobbered)

AuthInv ==
    /\ TypeOK
    /\ RecordOK(saved, version)
    /\ LoginLostOnlyByOverlap
    /\ RequestsOK

\* Later changes of the administrator keep all that was said of a version.
LEMMA LaterVersion ==
    ASSUME NEW q \in RequestState, NEW s \in State, NEW v \in Nat, NEW w \in Nat,
           v <= w, NEW last, NEW lost
    PROVE  /\ RecordOK(s, v) => RecordOK(s, w)
           /\ RequestOK(q, v, s, last, lost) => RequestOK(q, w, s, last, lost)
  <1>1. /\ s.roles \in Nat /\ s.context \in Nat
        /\ q.mine.roles \in Nat /\ q.mine.context \in Nat /\ q.since \in Nat
    BY AuthStateAssumption DEF State, RequestState, Version
  <1>2. RecordOK(s, v) => RecordOK(s, w)
    BY <1>1 DEF RecordOK
  <1>3. RecordOK(q.mine, v) /\ q.since <= v => RecordOK(q.mine, w) /\ q.since <= w
    BY <1>1 DEF RecordOK
  <1>. QED  BY <1>2, <1>3 DEF RequestOK

\* Handlers that are at neither of those steps promise little.
LEMMA OtherStepOK ==
    ASSUME NEW q, NEW v, NEW s, NEW last, NEW lost,
           q.since <= v, RecordOK(q.mine, v),
           q.step \notin Reading \cup {"saving"},
           q.step = "ready" /\ q.answered /\ q.overtaken = {} => s.context >= q.since
    PROVE  RequestOK(q, v, s, last, lost)
  BY DEF RequestOK, Reading

LEMMA IdleOK ==
    ASSUME NEW v \in Nat, NEW s, NEW last, NEW lost
    PROVE  RequestOK(Idle, v, s, last, lost)
  BY DEF RequestOK, Idle, Reading, RecordOK, NoState

\* One handler moves on to x, and what the hub has stored stays.
LEMMA OneMoves ==
    ASSUME AuthInv, NEW r \in Request, NEW x,
           request' = [request EXCEPT ![r] = x],
           UNCHANGED <<version, saved, history>>,
           RequestOK(x, version, saved, lastLogin, clobbered)
    PROVE  RequestsOK' /\ RecordOK(saved, version)' /\ LoginLostOnlyByOverlap'
  <1>1. ASSUME NEW q \in Request
        PROVE  RequestOK(request'[q], version', saved', lastLogin', clobbered')
    BY <1>1 DEF AuthInv, RequestsOK, TypeOK, history
  <1>. QED
    BY <1>1 DEF AuthInv, RequestsOK, RecordOK, LoginLostOnlyByOverlap, history

\* A handler saves the record t and moves on to x.
LEMMA OneSaves ==
    ASSUME AuthInv, NEW r \in Request, NEW x, NEW t,
           NEW what \in {"refresh", "login"},
           request' = Saved(r, x, what),
           saved' = t, version' = version,
           what = "login" \/ (lastLogin' = lastLogin /\ (clobbered => clobbered')),
           RequestOK(x, version, t, lastLogin', clobbered')
    PROVE  RequestsOK'
  <1>1. ASSUME NEW q \in Request
        PROVE  RequestOK(request'[q], version, t, lastLogin', clobbered')
    <2>1. CASE q = r
      BY <2>1 DEF Saved
    <2>2. CASE q # r /\ At(q, "idle")
      <3>1. request'[q] = request[q] /\ request[q].step = "idle"
        BY <2>2 DEF Saved, At
      <3>2. RequestOK(request[q], version, saved, lastLogin, clobbered)
        BY DEF AuthInv, RequestsOK
      <3>3. request[q].since <= version /\ RecordOK(request[q].mine, version)
        BY <3>2 DEF RequestOK
      <3>. QED  BY <3>1, <3>3, OtherStepOK DEF Reading
    <2>3. CASE q # r /\ ~At(q, "idle")
      <3> DEFINE p == [request[q] EXCEPT !.overtaken = request[q].overtaken \cup {what}]
      <3>1. request'[q] = p
        BY <2>3 DEF Saved
      <3>2. request[q] \in RequestState
        BY DEF AuthInv, TypeOK
      <3>3. RequestOK(request[q], version, saved, lastLogin, clobbered)
        BY DEF AuthInv, RequestsOK
      <3>4. /\ p.since = request[q].since /\ p.mine = request[q].mine
            /\ p.step = request[q].step /\ p.answered = request[q].answered
            /\ p.overtaken = request[q].overtaken \cup {what}
        BY <3>2 DEF RequestState
      <3>5. p.overtaken # {} /\ ("login" \in request[q].overtaken \/ what = "login"
                                   => "login" \in p.overtaken)
        BY <3>4
      <3> HIDE DEF p
      <3>6. p.step \in Reading \cup {"saving"} =>
              p.mine.token = lastLogin' \/ clobbered' \/ "login" \in p.overtaken
        BY <3>3, <3>4, <3>5 DEF RequestOK
      <3>7. RequestOK(p, version, t, lastLogin', clobbered')
        BY <3>3, <3>4, <3>5, <3>6 DEF RequestOK
      <3>. QED  BY <3>1, <3>7
    <2>. QED  BY <2>1, <2>2, <2>3
  <1>. QED  BY <1>1 DEF RequestsOK

LEMMA AuthInvStep == AuthInv /\ [Next]_vars => AuthInv'
  <1> SUFFICES ASSUME AuthInv, [Next]_vars
               PROVE  AuthInv'
    OBVIOUS
  <1>1. TypeOK /\ TypeOK'
    BY TypeStep DEF AuthInv
  <1>2. version \in Nat
    BY <1>1, AuthStateAssumption DEF TypeOK, Version
  <1>3. ASSUME NEW r \in Request
        PROVE  /\ request[r] \in RequestState /\ request[r].mine \in State
               /\ request[r].mine.context \in Nat /\ request[r].mine.roles \in Nat
               /\ request[r].since \in Nat
               /\ RequestOK(request[r], version, saved, lastLogin, clobbered)
    BY <1>1, AuthStateAssumption
       DEF AuthInv, RequestsOK, TypeOK, RequestState, State, Version
  <1>4. /\ saved \in State /\ saved.context \in Nat /\ saved.roles \in Nat
        /\ RecordOK(saved, version) /\ (saved.token = lastLogin \/ clobbered)
    BY <1>1, AuthStateAssumption
       DEF AuthInv, TypeOK, State, Version, LoginLostOnlyByOverlap
  <1>5. ASSUME NEW r \in Request, NEW x,
               request' = [request EXCEPT ![r] = x],
               UNCHANGED <<version, saved, history>>,
               RequestOK(x, version, saved, lastLogin, clobbered)
        PROVE  AuthInv'
    BY <1>5, <1>1, OneMoves DEF AuthInv
  <1>6. ASSUME version' \in Nat, version <= version',
               UNCHANGED <<saved, request, history>>
        PROVE  AuthInv'
    <2>1. ASSUME NEW q \in Request
          PROVE  RequestOK(request[q], version', saved, lastLogin, clobbered)
      BY <1>2, <1>3, <1>4, <1>6, LaterVersion
    <2>2. RecordOK(saved, version')
      BY <1>2, <1>4, <1>6 DEF RecordOK
    <2>3. RequestsOK' /\ RecordOK(saved, version)'
      BY <1>6, <2>1, <2>2 DEF RequestsOK, history, RecordOK
    <2>. QED
      BY <1>1, <1>4, <1>6, <2>3 DEF AuthInv, LoginLostOnlyByOverlap, history
  <1>7. CASE UNCHANGED vars
    BY <1>7, <1>2, <1>6 DEF vars, world
  <1>8. CASE Change \/ Switch \/ \E t \in Token : Expire(t)
    BY <1>8, <1>2, <1>6 DEF Change, Switch, Expire
  <1>9. ASSUME NEW r \in Request, Finish(r), UNCHANGED <<world, saved, history>>
        PROVE  AuthInv'
    BY <1>9, <1>2, <1>5, IdleOK DEF Finish, world
  <1>10. ASSUME NEW r \in Request, Refresh(r)
         PROVE  AuthInv'
    <2> USE <1>2, <1>3, <1>4
    <2>1. ASSUME NEW kind \in {"page", "spawn"}, Arrive(r, kind)
          PROVE  AuthInv'
      <3> DEFINE x == [Idle EXCEPT !.step = "loaded", !.kind = kind, !.mine = saved,
                                  !.since = version]
      <3>1. /\ x.step = "loaded" /\ x.mine = saved /\ x.since = version
            /\ x.overtaken = {} /\ ~x.answered
        BY DEF Idle
      <3>2. request' = [request EXCEPT ![r] = x] /\ UNCHANGED <<version, saved, history>>
        BY <2>1 DEF Arrive, world
      <3> HIDE DEF x
      <3>3. RequestOK(x, version, saved, lastLogin, clobbered)
        BY <3>1 DEF RequestOK, Reading
      <3>. QED  BY <3>2, <3>3, <1>5
    <2>2. CASE ReadToken(r)
      <3> DEFINE x == [request[r] EXCEPT !.step = "verifying", !.token = saved.token]
      <3>1. /\ x.step = "verifying" /\ x.mine = request[r].mine
            /\ x.since = request[r].since /\ x.overtaken = request[r].overtaken
            /\ x.answered = request[r].answered
        BY DEF RequestState
      <3>2. request' = [request EXCEPT ![r] = x] /\ UNCHANGED <<version, saved, history>>
        BY <2>2 DEF ReadToken, world
      <3>3. request[r].step = "loaded"
        BY <2>2 DEF ReadToken, At
      <3> HIDE DEF x
      <3>4. RequestOK(x, version, saved, lastLogin, clobbered)
        BY <3>1, <3>3 DEF RequestOK, Reading
      <3>. QED  BY <3>2, <3>4, <1>5
    <2>3. CASE TokenAccepted(r)
      <3> DEFINE x == [request[r] EXCEPT !.step = "fetching", !.token = 0]
      <3>1. /\ x.step = "fetching" /\ x.mine = request[r].mine
            /\ x.since = request[r].since /\ x.overtaken = request[r].overtaken
            /\ x.answered = request[r].answered
        BY DEF RequestState
      <3>2. request' = [request EXCEPT ![r] = x] /\ UNCHANGED <<version, saved, history>>
        BY <2>3 DEF TokenAccepted, world
      <3>3. request[r].step = "verifying"
        BY <2>3 DEF TokenAccepted, At
      <3> HIDE DEF x
      <3>4. RequestOK(x, version, saved, lastLogin, clobbered)
        BY <3>1, <3>3 DEF RequestOK, Reading
      <3>. QED  BY <3>2, <3>4, <1>5
    <2>4. CASE TokenRefused(r)
      BY <2>4, <1>9 DEF TokenRefused
    <2>5. CASE RefreshFails(r)
      <3> DEFINE x == [request[r] EXCEPT !.step = "ready", !.mine = NoState]
      <3>1. /\ x.step = "ready" /\ x.mine = NoState /\ x.since = request[r].since
            /\ x.answered = request[r].answered
            /\ x.overtaken = request[r].overtaken
        BY DEF RequestState
      <3>2. request' = [request EXCEPT ![r] = x] /\ UNCHANGED <<version, saved, history>>
        BY <2>5 DEF RefreshFails, world
      <3>3. ~request[r].answered
        BY <2>5 DEF RefreshFails, At, RequestOK, Reading
      <3> HIDE DEF x
      <3>4. RequestOK(x, version, saved, lastLogin, clobbered)
        BY <3>1, <3>3 DEF RequestOK, Reading, RecordOK, NoState
      <3>. QED  BY <3>2, <3>4, <1>5
    <2>6. CASE RefreshUnchanged(r)
      <3> DEFINE x == [request[r] EXCEPT !.step = "ready", !.answered = TRUE,
                                        !.mine = NoState]
      <3>1. /\ x.step = "ready" /\ x.mine = NoState /\ x.since = request[r].since
            /\ x.overtaken = request[r].overtaken
        BY DEF RequestState
      <3>2. request' = [request EXCEPT ![r] = x] /\ UNCHANGED <<version, saved, history>>
        BY <2>6 DEF RefreshUnchanged, world
      <3>3. request[r].step = "fetching" /\ request[r].mine.context = version
        BY <2>6 DEF RefreshUnchanged, At
      <3>4. request[r].overtaken = {} => saved.context >= request[r].since
        BY <3>3 DEF RequestOK, Reading
      <3> HIDE DEF x
      <3>5. RequestOK(x, version, saved, lastLogin, clobbered)
        BY <3>1, <3>4 DEF RequestOK, Reading, RecordOK, NoState
      <3>. QED  BY <3>2, <3>5, <1>5
    <2>7. CASE RefreshChanged(r)
      <3> DEFINE next == Updated(request[r].mine)
                 x == [request[r] EXCEPT !.step = "saving", !.answered = TRUE,
                                        !.mine = next]
      <3>1. /\ next.context = version /\ next.roles = request[r].mine.roles
            /\ next.token = request[r].mine.token
        BY DEF State, Updated
      <3>2. /\ x.step = "saving" /\ x.mine = next /\ x.since = request[r].since
            /\ x.overtaken = request[r].overtaken
        BY DEF RequestState
      <3>3. request' = [request EXCEPT ![r] = x] /\ UNCHANGED <<version, saved, history>>
        BY <2>7 DEF RefreshChanged, world
      <3>4. request[r].step = "fetching"
        BY <2>7 DEF RefreshChanged, At
      <3> HIDE DEF next, x
      <3>5. RequestOK(x, version, saved, lastLogin, clobbered)
        BY <3>1, <3>2, <3>4 DEF RequestOK, Reading, RecordOK
      <3>. QED  BY <3>3, <3>5, <1>5
    <2>8. CASE SaveRefresh(r)
      <3> DEFINE x == [request[r] EXCEPT !.step = "ready", !.mine = NoState]
      <3>1. /\ x.step = "ready" /\ x.mine = NoState /\ x.since = request[r].since
        BY DEF RequestState
      <3>2. /\ request' = Saved(r, x, "refresh") /\ saved' = request[r].mine
            /\ version' = version /\ lastLogin' = lastLogin
            /\ clobbered' = (clobbered \/ "login" \in request[r].overtaken)
            /\ request[r].step = "saving"
        BY <2>8 DEF SaveRefresh, At, world
      <3> HIDE DEF x
      <3>3. request[r].mine.context >= request[r].since
        BY <3>2 DEF RequestOK
      <3>4. RequestOK(x, version, request[r].mine, lastLogin', clobbered')
        BY <3>1, <3>3 DEF RequestOK, Reading, RecordOK, NoState
      <3>5. RequestsOK'
        BY <3>2, <3>4, OneSaves
      <3>6. RecordOK(saved, version)'
        BY <3>2 DEF RequestOK, RecordOK
      <3>7. LoginLostOnlyByOverlap'
        BY <3>2 DEF RequestOK, LoginLostOnlyByOverlap
      <3>. QED  BY <1>1, <3>5, <3>6, <3>7 DEF AuthInv
    <2>9. CASE RefreshRaises(r)
      BY <2>9, <1>9 DEF RefreshRaises
    <2>. QED
      BY <1>10, <2>1, <2>2, <2>3, <2>4, <2>5, <2>6, <2>7, <2>8, <2>9 DEF Refresh
  <1>11. ASSUME NEW r \in Request, Login(r)
         PROVE  AuthInv'
    <2> USE <1>2, <1>3, <1>4
    <2>1. CASE LoginStart(r)
      <3> DEFINE x == [Idle EXCEPT !.step = "login", !.mine = Fresh(logins')]
      <3>1. x.step = "login" /\ x.mine = Fresh(logins') /\ x.since = 0
        BY DEF Idle
      <3>2. Fresh(logins').context = 0 /\ Fresh(logins').roles = version
        BY DEF Fresh, NoState
      <3>3. request' = [request EXCEPT ![r] = x] /\ UNCHANGED <<version, saved, history>>
        BY <2>1 DEF LoginStart
      <3> HIDE DEF x
      <3>4. RequestOK(x, version, saved, lastLogin, clobbered)
        BY <3>1, <3>2 DEF RequestOK, Reading, RecordOK
      <3>. QED  BY <3>3, <3>4, <1>5
    <2>2. ASSUME NEW m, RecordOK(m, version),
                 request' = [request EXCEPT ![r] =
                               [request[r] EXCEPT !.step = "entering", !.mine = m]],
                 UNCHANGED <<world, saved, history>>
          PROVE  AuthInv'
      <3> DEFINE x == [request[r] EXCEPT !.step = "entering", !.mine = m]
      <3>1. x.step = "entering" /\ x.mine = m /\ x.since = request[r].since
        BY DEF RequestState
      <3>2. request' = [request EXCEPT ![r] = x] /\ UNCHANGED <<version, saved, history>>
        BY <2>2 DEF world
      <3> HIDE DEF x
      <3>3. RequestOK(x, version, saved, lastLogin, clobbered)
        BY <2>2, <3>1 DEF RequestOK, Reading
      <3>. QED  BY <3>2, <3>3, <1>5
    <2>3. CASE LoginContext(r)
      <3> DEFINE m == [request[r].mine EXCEPT !.context = version]
      <3>1. m.context = version /\ m.roles = request[r].mine.roles
        BY DEF State
      <3>2. request' = [request EXCEPT ![r] =
                          [request[r] EXCEPT !.step = "entering", !.mine = m]]
        BY <2>3 DEF LoginContext
      <3>3. UNCHANGED <<world, saved, history>>
        BY <2>3 DEF LoginContext
      <3> HIDE DEF m
      <3>4. RecordOK(m, version)
        BY <3>1 DEF RequestOK, RecordOK
      <3>. QED  BY <3>2, <3>3, <3>4, <2>2
    <2>4. ASSUME NEW error \in Error, LoginWithout(r, error)
          PROVE  AuthInv'
      <3> DEFINE m == [request[r].mine EXCEPT !.error = error]
      <3>1. m.context = request[r].mine.context /\ m.roles = request[r].mine.roles
        BY DEF State
      <3>2. request' = [request EXCEPT ![r] =
                          [request[r] EXCEPT !.step = "entering", !.mine = m]]
        BY <2>4 DEF LoginWithout
      <3>3. UNCHANGED <<world, saved, history>>
        BY <2>4 DEF LoginWithout
      <3> HIDE DEF m
      <3>4. RecordOK(m, version)
        BY <3>1 DEF RequestOK, RecordOK
      <3>. QED  BY <3>2, <3>3, <3>4, <2>2
    <2>5. CASE SaveLogin(r)
      <3>1. /\ request' = Saved(r, Idle, "login") /\ saved' = request[r].mine
            /\ version' = version /\ lastLogin' = request[r].mine.token
        BY <2>5 DEF SaveLogin, world
      <3>2. RequestOK(Idle, version, request[r].mine, lastLogin', clobbered')
        BY IdleOK
      <3>3. RequestsOK'
        BY <3>1, <3>2, OneSaves
      <3>4. RecordOK(saved, version)' /\ LoginLostOnlyByOverlap'
        BY <3>1 DEF RequestOK, RecordOK, LoginLostOnlyByOverlap
      <3>. QED  BY <1>1, <3>3, <3>4 DEF AuthInv
    <2>6. CASE LoginRefused(r)
      BY <2>6, <1>9 DEF LoginRefused
    <2>. QED  BY <1>11, <2>1, <2>3, <2>4, <2>5, <2>6 DEF Login
  <1>12. ASSUME NEW r \in Request, Use(r)
         PROVE  AuthInv'
    BY <1>9, <1>12 DEF Use, RenderForm, StartPod
  <1>. QED  BY <1>7, <1>8, <1>10, <1>11, <1>12 DEF Next

\* The strengthening that the three properties below rest on.
THEOREM AuthInvariance == Spec => []AuthInv
  <1>1. Init => AuthInv
    <2>1. 1 \in Version /\ 0 \in Token
      BY AuthStateAssumption DEF Version, Token
    <2>2. Init => TypeOK
      BY <2>1, RecordTypes DEF Init, TypeOK
    <2>3. Init => RequestsOK
      <3> SUFFICES ASSUME Init, NEW r \in Request
                   PROVE  RequestOK(request[r], version, saved, lastLogin, clobbered)
        BY DEF RequestsOK
      <3>1. request[r] = Idle /\ version \in Nat
        BY DEF Init
      <3>. QED  BY <3>1, IdleOK
    <2>4. Init => RecordOK(saved, version) /\ LoginLostOnlyByOverlap
      BY DEF Init, RecordOK, NoState, LoginLostOnlyByOverlap
    <2>. QED  BY <2>2, <2>3, <2>4 DEF AuthInv
  <1>. QED  BY <1>1, AuthInvStep, PTL DEF Spec

\* However logins and refreshes interleave, the launch context that is stored
\* is never older than the roles stored with it.
THEOREM ContextFollowsRoles == Spec => []ContextNotOlderThanRoles
  <1>1. AuthInv => ContextNotOlderThanRoles
    BY AuthStateAssumption
       DEF AuthInv, RecordOK, ContextNotOlderThanRoles, TypeOK, State, Version
  <1>. QED  BY <1>1, AuthInvariance, PTL

\* A spawn the backend answered reads a context as new as its start, unless
\* another request of the user saved in between.
THEOREM StaleContextOnly == Spec => []StaleContextOnlyByOverlap
  <1>1. AuthInv => StaleContextOnlyByOverlap
    BY DEF AuthInv, RequestsOK, RequestOK, StaleContextOnlyByOverlap, Refreshed, At
  <1>. QED  BY <1>1, AuthInvariance, PTL

\* Only a refresh that was under way when a login was saved can put an older
\* access token back.
THEOREM LoginLostOnly == Spec => []LoginLostOnlyByOverlap
  <1>1. AuthInv => LoginLostOnlyByOverlap
    BY DEF AuthInv
  <1>. QED  BY <1>1, AuthInvariance, PTL
=============================================================================
