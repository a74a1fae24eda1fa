-------------------------- MODULE BootstrapProofs --------------------------
(***************************************************************************)
(* Proofs about Bootstrap, for every sequence of roles and every number of *)
(* failures.  The script is a sequence of thirty-three steps and two for   *)
(* each role; the invariant says what is there at each place of it.        *)
(***************************************************************************)
EXTENDS Bootstrap, SequenceTheorems, TLAPS

-----------------------------------------------------------------------------
(* The places of the script.                                               *)

N == 2 * Len(InstanceTypes) + 1 + 2 * Len(Images)

LEMMA RolesLength ==
    /\ Len(InstanceTypes) \in Nat /\ Len(Images) \in Nat
    /\ N \in Nat
<1> DEFINE S == {InstanceTypes[i] : i \in DOMAIN InstanceTypes}
           T == {Images[i] : i \in DOMAIN Images}
<1>1. InstanceTypes \in Seq(S) /\ Images \in Seq(T)
  BY BootstrapAssumption
<1> HIDE DEF S, T
<1>2. Len(InstanceTypes) \in Nat /\ Len(Images) \in Nat
  BY <1>1
<1> QED
  BY <1>2 DEF N

\* The first part, and the default resources but for the roles.
LEMMA UpdateStepsAre ==
    /\ Len(UpdateSteps) = 21
    /\ UpdateSteps[1] = <<"wait", "primehub">>
    /\ UpdateSteps[2] = <<"login", "primehub">>
    /\ UpdateSteps[3] = <<"realm", "primehub">>
    /\ UpdateSteps[4] = <<"frontendUrl", "primehub">>
    /\ UpdateSteps[5] = <<"settings", "primehub">>
    /\ UpdateSteps[6] = <<"lookup", "everyone">>
    /\ UpdateSteps[7] = <<"group", "everyone">>
    /\ UpdateSteps[8] = <<"default", "everyone">>
    /\ UpdateSteps[9] = <<"client", "admin-ui">>
    /\ UpdateSteps[10] = <<"redirect", "admin-ui">>
    /\ UpdateSteps[11] = <<"grant", "admin-ui">>
    /\ UpdateSteps[12] = <<"scope", "admin-ui">>
    /\ UpdateSteps[13] = <<"secret", "admin-ui">>
    /\ UpdateSteps[14] = <<"baseUrl", "admin-ui">>
    /\ UpdateSteps[15] = <<"client", "jupyterhub">>
    /\ UpdateSteps[16] = <<"redirect", "jupyterhub">>
    /\ UpdateSteps[17] = <<"secret", "jupyterhub">>
    /\ UpdateSteps[18] = <<"client", "maintenance-proxy">>
    /\ UpdateSteps[19] = <<"redirect", "maintenance-proxy">>
    /\ UpdateSteps[20] = <<"secret", "maintenance-proxy">>
    /\ UpdateSteps[21] = <<"theme", "primehub">>
BY DEF UpdateSteps, Realm, ClientSteps

Seven == << <<"user", "phadmin">>, <<"password", "phadmin">>, <<"group", "phusers">>,
            <<"deployment", "phusers">>, <<"member", "phadmin">>,
            <<"groupAdmin", "phadmin">>, <<"realmAdmin", "phadmin">> >>
Apply == << <<"apply", "images">> >>
ApplyTypes == << <<"apply", "instancetypes">> >>
Count == << <<"count", "primehub">> >>
Ends == << <<"label", "primehub">>, <<"restart", "primehub">> >>

Pairs ==
    {UpdateSteps[i] : i \in 1..21} \cup {Seven[i] : i \in 1..7}
    \cup {RoleSteps(InstanceTypes)[i] : i \in 1..(2 * Len(InstanceTypes))}
    \cup {RoleSteps(Images)[i] : i \in 1..(2 * Len(Images))}
    \cup {ApplyTypes[1], Apply[1], Count[1], Ends[1], Ends[2]}

\* The steps of some roles.
LEMMA RoleStepsAre ==
    ASSUME NEW roles, Len(roles) \in Nat,
           \A i \in 1..(2 * Len(roles)) : RoleSteps(roles)[i] \in Pairs
    PROVE  /\ RoleSteps(roles) \in Seq(Pairs) /\ Len(RoleSteps(roles)) = 2 * Len(roles)
           /\ \A i \in 1..(2 * Len(roles)) : RoleSteps(roles)[i][1] \in {"role", "bind"}
<1>1. \A i \in 1..(2 * Len(roles)) : RoleSteps(roles)[i][1] \in {"role", "bind"}
  BY DEF RoleSteps
<1>2. RoleSteps(roles) \in [1..(2 * Len(roles)) -> Pairs]
  <2>1. RoleSteps(roles) = [i \in 1..(2 * Len(roles)) |-> RoleSteps(roles)[i]]
    BY DEF RoleSteps
  <2> QED
    BY <2>1
<1>3. 2 * Len(roles) \in Nat
  OBVIOUS
<1>4. RoleSteps(roles) \in Seq(Pairs) /\ Len(RoleSteps(roles)) = 2 * Len(roles)
  BY <1>2, <1>3
<1> QED
  BY <1>1, <1>4

LEMMA PartsAre ==
    /\ UpdateSteps \in Seq(Pairs) /\ Seven \in Seq(Pairs) /\ Apply \in Seq(Pairs)
    /\ ApplyTypes \in Seq(Pairs) /\ Count \in Seq(Pairs) /\ Ends \in Seq(Pairs)
<1>1. \A i \in 1..21 : UpdateSteps[i] \in Pairs
  BY DEF Pairs
<1>2. UpdateSteps \in Seq(Pairs)
  <2>1. /\ UpdateSteps[1] \in Pairs /\ UpdateSteps[2] \in Pairs /\ UpdateSteps[3] \in Pairs
        /\ UpdateSteps[4] \in Pairs /\ UpdateSteps[5] \in Pairs /\ UpdateSteps[6] \in Pairs
        /\ UpdateSteps[7] \in Pairs /\ UpdateSteps[8] \in Pairs /\ UpdateSteps[9] \in Pairs
        /\ UpdateSteps[10] \in Pairs /\ UpdateSteps[11] \in Pairs /\ UpdateSteps[12] \in Pairs
        /\ UpdateSteps[13] \in Pairs /\ UpdateSteps[14] \in Pairs /\ UpdateSteps[15] \in Pairs
        /\ UpdateSteps[16] \in Pairs /\ UpdateSteps[17] \in Pairs /\ UpdateSteps[18] \in Pairs
        /\ UpdateSteps[19] \in Pairs /\ UpdateSteps[20] \in Pairs /\ UpdateSteps[21] \in Pairs
    BY <1>1
  <2> QED
    BY <2>1, SMTT(40) DEF UpdateSteps, Realm, ClientSteps
<1>3. /\ Seven[1] \in Pairs /\ Seven[2] \in Pairs /\ Seven[3] \in Pairs /\ Seven[4] \in Pairs
      /\ Seven[5] \in Pairs /\ Seven[6] \in Pairs /\ Seven[7] \in Pairs
  BY DEF Pairs
<1>4. Seven \in Seq(Pairs)
  BY <1>3 DEF Seven
<1>5. Apply[1] \in Pairs /\ ApplyTypes[1] \in Pairs /\ Count[1] \in Pairs /\ Ends[1] \in Pairs /\ Ends[2] \in Pairs
  BY DEF Pairs
<1>6. Apply \in Seq(Pairs)
  BY <1>5 DEF Apply
<1>7. Count \in Seq(Pairs)
  BY <1>5 DEF Count
<1>8. Ends \in Seq(Pairs)
  BY <1>5 DEF Ends
<1>9. ApplyTypes \in Seq(Pairs)
  BY <1>5 DEF ApplyTypes
<1> QED
  BY <1>2, <1>4, <1>6, <1>7, <1>8, <1>9

LEMMA PartLengths ==
    /\ Len(Seven) = 7 /\ Len(Apply) = 1 /\ Len(ApplyTypes) = 1 /\ Len(Count) = 1
    /\ Len(Ends) = 2
BY DEF Seven, Apply, ApplyTypes, Count, Ends

LEMMA DefaultStepsParts == DefaultSteps = (Seven \o ResourceSteps) \o Apply
BY DEF DefaultSteps, Seven, Apply, Realm

LEMMA ScriptParts == Script = ((UpdateSteps \o Count) \o DefaultSteps) \o Ends
BY DEF Script, Count, Ends, Realm

\* Two parts, one after the other.
LEMMA Joined ==
    ASSUME NEW s \in Seq(Pairs), NEW t \in Seq(Pairs), NEW u, u = s \o t
    PROVE  /\ u \in Seq(Pairs) /\ Len(u) = Len(s) + Len(t)
           /\ \A i \in 1..(Len(s) + Len(t)) :
                 u[i] = IF i <= Len(s) THEN s[i] ELSE t[i - Len(s)]
BY ConcatProperties

\* The roles of the instance types, their resources, the roles of the images.
LEMMA ResourceStepsAre ==
    /\ ResourceSteps \in Seq(Pairs) /\ Len(ResourceSteps) = N
    /\ \A i \in 1..N : ResourceSteps[i][1] \in {"role", "bind", "apply"}
<1> DEFINE m == 2 * Len(InstanceTypes)
           n == 2 * Len(Images)
<1>1. m \in Nat /\ n \in Nat /\ N = m + 1 + n
  BY RolesLength DEF N
<1>2. /\ RoleSteps(InstanceTypes) \in Seq(Pairs) /\ Len(RoleSteps(InstanceTypes)) = m
      /\ \A i \in 1..m : RoleSteps(InstanceTypes)[i][1] \in {"role", "bind"}
  <2>1. \A i \in 1..m : RoleSteps(InstanceTypes)[i] \in Pairs
    BY DEF Pairs
  <2> QED
    BY <2>1, RolesLength, RoleStepsAre
<1>3. /\ RoleSteps(Images) \in Seq(Pairs) /\ Len(RoleSteps(Images)) = n
      /\ \A i \in 1..n : RoleSteps(Images)[i][1] \in {"role", "bind"}
  <2>1. \A i \in 1..n : RoleSteps(Images)[i] \in Pairs
    BY DEF Pairs
  <2> QED
    BY <2>1, RolesLength, RoleStepsAre
<1>4. ApplyTypes \in Seq(Pairs) /\ Len(ApplyTypes) = 1 /\ ApplyTypes[1][1] = "apply"
  BY PartsAre, PartLengths DEF ApplyTypes
<1> HIDE DEF m, n
<1>5. PICK t : t = RoleSteps(InstanceTypes) \o ApplyTypes
  OBVIOUS
<1>6. /\ t \in Seq(Pairs) /\ Len(t) = m + 1
      /\ \A i \in 1..(m + 1) :
            t[i] = IF i <= m THEN RoleSteps(InstanceTypes)[i] ELSE ApplyTypes[i - m]
  <2> DEFINE s == RoleSteps(InstanceTypes)
  <2>1. s \in Seq(Pairs) /\ Len(s) = m /\ ApplyTypes \in Seq(Pairs) /\ t = s \o ApplyTypes
    BY <1>2, <1>4, <1>5
  <2> HIDE DEF s
  <2>2. /\ t \in Seq(Pairs) /\ Len(t) = Len(s) + Len(ApplyTypes)
        /\ \A i \in 1..(Len(s) + Len(ApplyTypes)) :
              t[i] = IF i <= Len(s) THEN s[i] ELSE ApplyTypes[i - Len(s)]
    BY <2>1, Joined
  <2>3. /\ t \in Seq(Pairs) /\ Len(t) = m + 1
        /\ \A i \in 1..(m + 1) : t[i] = IF i <= m THEN s[i] ELSE ApplyTypes[i - m]
    BY <1>4, <2>1, <2>2
  <2> QED
    BY <2>3 DEF s
<1>7. ResourceSteps = t \o RoleSteps(Images)
  BY <1>5 DEF ResourceSteps, ApplyTypes
<1>8. /\ ResourceSteps \in Seq(Pairs) /\ Len(ResourceSteps) = (m + 1) + n
      /\ \A i \in 1..((m + 1) + n) :
            ResourceSteps[i] = IF i <= m + 1 THEN t[i] ELSE RoleSteps(Images)[i - (m + 1)]
  <2> DEFINE s == RoleSteps(Images)
  <2>1. /\ s \in Seq(Pairs) /\ Len(s) = n /\ t \in Seq(Pairs) /\ Len(t) = m + 1
        /\ ResourceSteps = t \o s
    BY <1>3, <1>6, <1>7
  <2> HIDE DEF s
  <2>2. /\ ResourceSteps \in Seq(Pairs) /\ Len(ResourceSteps) = Len(t) + Len(s)
        /\ \A i \in 1..(Len(t) + Len(s)) :
              ResourceSteps[i] = IF i <= Len(t) THEN t[i] ELSE s[i - Len(t)]
    BY <2>1, Joined
  <2>3. /\ ResourceSteps \in Seq(Pairs) /\ Len(ResourceSteps) = (m + 1) + n
        /\ \A i \in 1..((m + 1) + n) :
              ResourceSteps[i] = IF i <= m + 1 THEN t[i] ELSE s[i - (m + 1)]
    BY <2>1, <2>2
  <2> QED
    BY <2>3 DEF s
<1>9. ASSUME NEW i \in 1..N
      PROVE  ResourceSteps[i][1] \in {"role", "bind", "apply"}
  <2>1. CASE i <= m
    BY <1>1, <1>2, <1>6, <1>8, <2>1
  <2>2. CASE i = m + 1
    BY <1>1, <1>4, <1>6, <1>8, <2>2
  <2>3. CASE i > m + 1
    <3>1. i - (m + 1) \in 1..n
      BY <1>1, <2>3
    <3>2. ResourceSteps[i] = RoleSteps(Images)[i - (m + 1)]
      BY <1>1, <1>8, <2>3
    <3> QED
      BY <1>3, <3>1, <3>2
  <2> QED
    BY <1>1, <2>1, <2>2, <2>3
<1> QED
  BY <1>1, <1>8, <1>9

LEMMA DefaultStepsAre ==
    /\ DefaultSteps \in Seq(Pairs) /\ Len(DefaultSteps) = N + 8
    /\ \A i \in 1..7 : DefaultSteps[i] = Seven[i]
    /\ \A i \in 8..(N + 7) : DefaultSteps[i][1] \in {"role", "bind", "apply"}
    /\ DefaultSteps[N + 8] = <<"apply", "images">>
<1>1. PICK t : t = Seven \o ResourceSteps
  OBVIOUS
<1>2. /\ t \in Seq(Pairs) /\ Len(t) = Len(Seven) + Len(ResourceSteps)
      /\ \A i \in 1..(Len(Seven) + Len(ResourceSteps)) :
            t[i] = IF i <= Len(Seven) THEN Seven[i] ELSE ResourceSteps[i - Len(Seven)]
  <2>1. Seven \in Seq(Pairs)
    BY PartsAre
  <2>2. ResourceSteps \in Seq(Pairs)
    BY ResourceStepsAre
  <2> QED
    BY <1>1, <2>1, <2>2, Joined
<1>3. Len(t) = N + 7 /\ \A i \in 1..(N + 7) : t[i] = IF i <= 7 THEN Seven[i] ELSE ResourceSteps[i - 7]
  BY <1>2, PartLengths, ResourceStepsAre, RolesLength
<1>4. DefaultSteps = t \o Apply
  BY <1>1, DefaultStepsParts
<1>5. /\ DefaultSteps \in Seq(Pairs) /\ Len(DefaultSteps) = Len(t) + Len(Apply)
      /\ \A i \in 1..(Len(t) + Len(Apply)) :
            DefaultSteps[i] = IF i <= Len(t) THEN t[i] ELSE Apply[i - Len(t)]
  <2>1. Apply \in Seq(Pairs)
    BY PartsAre
  <2>2. t \in Seq(Pairs)
    BY <1>2
  <2> QED
    BY <1>4, <2>1, <2>2, Joined
<1>6. /\ Len(DefaultSteps) = N + 8
      /\ \A i \in 1..(N + 8) :
            DefaultSteps[i] = IF i <= N + 7 THEN t[i] ELSE Apply[i - (N + 7)]
  BY <1>3, <1>5, PartLengths, RolesLength
<1>7. DefaultSteps[N + 8] = Apply[1]
  BY <1>6, RolesLength
<1>8. \A i \in 8..(N + 7) : DefaultSteps[i] = ResourceSteps[i - 7] /\ i - 7 \in 1..N
  BY <1>3, <1>6, RolesLength
<1>9. \A i \in 1..7 : DefaultSteps[i] = Seven[i]
  BY <1>3, <1>6, RolesLength
<1> QED
  BY <1>5, <1>6, <1>7, <1>8, <1>9, ResourceStepsAre DEF Apply

LEMMA ScriptIs ==
    /\ Script \in Seq(Pairs) /\ Len(Script) = N + 32
    /\ \A i \in 1..21 : Script[i] = UpdateSteps[i]
    /\ Script[22] = <<"count", "primehub">>
    /\ \A i \in 23..(N + 30) : Script[i] = DefaultSteps[i - 22]
    /\ Script[N + 31] = <<"label", "primehub">>
    /\ Script[N + 32] = <<"restart", "primehub">>
<1>1. PICK t : t = UpdateSteps \o Count
  OBVIOUS
<1>2. /\ t \in Seq(Pairs) /\ Len(t) = Len(UpdateSteps) + Len(Count)
      /\ \A i \in 1..(Len(UpdateSteps) + Len(Count)) :
            t[i] = IF i <= Len(UpdateSteps) THEN UpdateSteps[i] ELSE Count[i - Len(UpdateSteps)]
  BY <1>1, PartsAre, Joined
<1>3. Len(t) = 22 /\ \A i \in 1..22 : t[i] = IF i <= 21 THEN UpdateSteps[i] ELSE Count[i - 21]
  <2>1. Len(UpdateSteps) = 21
    BY UpdateStepsAre
  <2> QED
    BY <1>2, <2>1, PartLengths
<1>4. PICK u : u = t \o DefaultSteps
  OBVIOUS
<1>5. /\ u \in Seq(Pairs) /\ Len(u) = Len(t) + Len(DefaultSteps)
      /\ \A i \in 1..(Len(t) + Len(DefaultSteps)) :
            u[i] = IF i <= Len(t) THEN t[i] ELSE DefaultSteps[i - Len(t)]
  BY <1>2, <1>4, DefaultStepsAre, Joined
<1>6. Len(u) = N + 30
      /\ \A i \in 1..(N + 30) : u[i] = IF i <= 22 THEN t[i] ELSE DefaultSteps[i - 22]
  BY <1>3, <1>5, DefaultStepsAre, RolesLength
<1>7. Script = u \o Ends
  BY <1>1, <1>4, ScriptParts
<1>8. /\ Script \in Seq(Pairs) /\ Len(Script) = Len(u) + Len(Ends)
      /\ \A i \in 1..(Len(u) + Len(Ends)) :
            Script[i] = IF i <= Len(u) THEN u[i] ELSE Ends[i - Len(u)]
  <2>1. Ends \in Seq(Pairs)
    BY PartsAre
  <2>2. u \in Seq(Pairs)
    BY <1>5
  <2> QED
    BY <1>7, <2>1, <2>2, Joined
<1>9. /\ Len(Script) = N + 32
      /\ \A i \in 1..(N + 32) : Script[i] = IF i <= N + 30 THEN u[i] ELSE Ends[i - (N + 30)]
  BY <1>6, <1>8, PartLengths, RolesLength
<1>10. ASSUME NEW i \in 1..21
       PROVE  Script[i] = UpdateSteps[i]
  <2>1. i \in 1..22 /\ i \in 1..(N + 30) /\ i \in 1..(N + 32) /\ i <= 21 /\ i <= 22 /\ i <= N + 30
    BY RolesLength
  <2> QED
    BY <1>3, <1>6, <1>9, <2>1
<1>11. Script[22] = Count[1]
  BY <1>3, <1>6, <1>9, RolesLength
<1>12. \A i \in 23..(N + 30) : Script[i] = DefaultSteps[i - 22]
  BY <1>6, <1>9, RolesLength
<1>13. Script[N + 31] = Ends[1] /\ Script[N + 32] = Ends[2]
  BY <1>9, RolesLength
<1> QED
  BY <1>8, <1>9, <1>10, <1>11, <1>12, <1>13 DEF Count, Ends

-----------------------------------------------------------------------------
(* Which step is where.                                                    *)

LEMMA FirstPlaces ==
    /\ Len(Script) = N + 32 /\ N \in Nat /\ DOMAIN Script = 1..(N + 32)
    /\ Script[1] = <<"wait", "primehub">>
    /\ Script[2] = <<"login", "primehub">>
    /\ Script[3] = <<"realm", "primehub">>
    /\ Script[4] = <<"frontendUrl", "primehub">>
    /\ Script[5] = <<"settings", "primehub">>
    /\ Script[6] = <<"lookup", "everyone">>
    /\ Script[7] = <<"group", "everyone">>
    /\ Script[8] = <<"default", "everyone">>
    /\ Script[9] = <<"client", "admin-ui">>
    /\ Script[10] = <<"redirect", "admin-ui">>
    /\ Script[11] = <<"grant", "admin-ui">>
    /\ Script[12] = <<"scope", "admin-ui">>
    /\ Script[13] = <<"secret", "admin-ui">>
    /\ Script[14] = <<"baseUrl", "admin-ui">>
    /\ Script[15] = <<"client", "jupyterhub">>
    /\ Script[16] = <<"redirect", "jupyterhub">>
    /\ Script[17] = <<"secret", "jupyterhub">>
    /\ Script[18] = <<"client", "maintenance-proxy">>
    /\ Script[19] = <<"redirect", "maintenance-proxy">>
    /\ Script[20] = <<"secret", "maintenance-proxy">>
    /\ Script[21] = <<"theme", "primehub">>
    /\ Script[22] = <<"count", "primehub">>
<1>1. Len(Script) = N + 32 /\ N \in Nat /\ DOMAIN Script = 1..(N + 32)
  BY ScriptIs, RolesLength
<1>2. \A i \in 1..21 : Script[i] = UpdateSteps[i]
  BY ScriptIs
<1>3. /\ Script[1] = UpdateSteps[1] /\ Script[2] = UpdateSteps[2] /\ Script[3] = UpdateSteps[3]
      /\ Script[4] = UpdateSteps[4] /\ Script[5] = UpdateSteps[5] /\ Script[6] = UpdateSteps[6]
      /\ Script[7] = UpdateSteps[7] /\ Script[8] = UpdateSteps[8] /\ Script[9] = UpdateSteps[9]
      /\ Script[10] = UpdateSteps[10] /\ Script[11] = UpdateSteps[11]
      /\ Script[12] = UpdateSteps[12] /\ Script[13] = UpdateSteps[13]
      /\ Script[14] = UpdateSteps[14] /\ Script[15] = UpdateSteps[15]
      /\ Script[16] = UpdateSteps[16] /\ Script[17] = UpdateSteps[17]
      /\ Script[18] = UpdateSteps[18] /\ Script[19] = UpdateSteps[19]
      /\ Script[20] = UpdateSteps[20] /\ Script[21] = UpdateSteps[21]
  BY <1>2
<1>4. Script[22] = <<"count", "primehub">>
  BY ScriptIs
<1> QED
  BY <1>1, <1>3, <1>4, UpdateStepsAre

LEMMA LastPlaces ==
    /\ Script[23] = <<"user", "phadmin">>
    /\ Script[24] = <<"password", "phadmin">>
    /\ Script[25] = <<"group", "phusers">>
    /\ Script[26] = <<"deployment", "phusers">>
    /\ Script[27] = <<"member", "phadmin">>
    /\ Script[28] = <<"groupAdmin", "phadmin">>
    /\ Script[29] = <<"realmAdmin", "phadmin">>
    /\ \A i \in 30..(N + 29) : Script[i][1] \in {"role", "bind", "apply"}
    /\ Script[N + 30] = <<"apply", "images">>
    /\ Script[N + 31] = <<"label", "primehub">>
    /\ Script[N + 32] = <<"restart", "primehub">>
    /\ \A i \in 1..(N + 8) : DefaultSteps[i] = Script[i + 22]
    /\ DOMAIN DefaultSteps = 1..(N + 8)
<1>1. \A i \in 23..(N + 30) : Script[i] = DefaultSteps[i - 22]
  BY ScriptIs
<1>2. \A i \in 1..(N + 8) : DefaultSteps[i] = Script[i + 22]
  BY <1>1, RolesLength
<1>3. \A i \in 1..7 : Script[i + 22] = Seven[i]
  <2>1. \A i \in 1..7 : DefaultSteps[i] = Seven[i]
    BY DefaultStepsAre
  <2>2. \A i \in 1..7 : i \in 1..(N + 8)
    BY RolesLength
  <2> QED
    BY <1>2, <2>1, <2>2
<1>4. /\ Script[23] = Seven[1] /\ Script[24] = Seven[2] /\ Script[25] = Seven[3]
      /\ Script[26] = Seven[4] /\ Script[27] = Seven[5] /\ Script[28] = Seven[6]
      /\ Script[29] = Seven[7]
  BY <1>3
<1>5. \A i \in 30..(N + 29) : Script[i][1] \in {"role", "bind", "apply"}
  <2>1. \A i \in 8..(N + 7) : DefaultSteps[i][1] \in {"role", "bind", "apply"}
    BY DefaultStepsAre
  <2>2. \A i \in 30..(N + 29) : i - 22 \in 8..(N + 7) /\ i \in 23..(N + 30)
    BY RolesLength
  <2> QED
    BY <1>1, <2>1, <2>2
<1>6. Script[N + 30] = <<"apply", "images">>
  <2>1. DefaultSteps[N + 8] = <<"apply", "images">>
    BY DefaultStepsAre
  <2>2. Script[N + 30] = DefaultSteps[(N + 30) - 22] /\ (N + 30) - 22 = N + 8
    BY <1>1, RolesLength
  <2> QED
    BY <2>1, <2>2
<1>7. Script[N + 31] = <<"label", "primehub">> /\ Script[N + 32] = <<"restart", "primehub">>
  BY ScriptIs
<1>8. DOMAIN DefaultSteps = 1..(N + 8)
  BY DefaultStepsAre, RolesLength
<1> QED
  BY <1>2, <1>4, <1>5, <1>6, <1>7, <1>8 DEF Seven

\* The steps that matter are at one place each.
LEMMA OnlyPlaces ==
    ASSUME NEW i \in 1..(N + 32)
    PROVE  /\ Script[i] = <<"lookup", "everyone">> <=> i = 6
           /\ Script[i] = <<"group", "everyone">> <=> i = 7
           /\ Script[i] = <<"default", "everyone">> <=> i = 8
           /\ Script[i] = <<"client", "admin-ui">> <=> i = 9
           /\ Script[i] = <<"secret", "admin-ui">> <=> i = 13
           /\ Script[i] = <<"secret", "jupyterhub">> <=> i = 17
           /\ Script[i] = <<"secret", "maintenance-proxy">> <=> i = 20
           /\ Script[i] = <<"count", "primehub">> <=> i = 22
           /\ Script[i] = <<"user", "phadmin">> <=> i = 23
           /\ Script[i] = <<"label", "primehub">> <=> i = N + 31
           /\ Script[i] = <<"restart", "primehub">> <=> i = N + 32
           /\ Script[i][1] = "lookup" <=> i = 6
           /\ Script[i][1] = "password" <=> i = 24
           /\ Script[i][1] = "count" <=> i = 22
           /\ Script[i][1] = "restart" <=> i = N + 32
           /\ i \in 24..29 => Script[i][1] \notin Reads
           /\ i \in 24..29 => Script[i][1] \notin MayFail
           /\ Script[i][1] \notin {"secret"} \/ i \in {13, 17, 20}
<1>1. i \in 1..10 \/ i \in 11..22 \/ i \in 23..29 \/ i \in 30..(N + 29)
      \/ i = N + 30 \/ i = N + 31 \/ i = N + 32
  BY RolesLength
<1>2. CASE i \in 1..10
  <2>1. N \in Nat
    BY RolesLength
  <2>2. \/ i = 1 /\ Script[i] = <<"wait", "primehub">>
        \/ i = 2 /\ Script[i] = <<"login", "primehub">>
        \/ i = 3 /\ Script[i] = <<"realm", "primehub">>
        \/ i = 4 /\ Script[i] = <<"frontendUrl", "primehub">>
        \/ i = 5 /\ Script[i] = <<"settings", "primehub">>
        \/ i = 6 /\ Script[i] = <<"lookup", "everyone">>
        \/ i = 7 /\ Script[i] = <<"group", "everyone">>
        \/ i = 8 /\ Script[i] = <<"default", "everyone">>
        \/ i = 9 /\ Script[i] = <<"client", "admin-ui">>
        \/ i = 10 /\ Script[i] = <<"redirect", "admin-ui">>
    <3>1. \/ i = 1 \/ i = 2 \/ i = 3 \/ i = 4 \/ i = 5 \/ i = 6
          \/ i = 7 \/ i = 8 \/ i = 9 \/ i = 10
      BY <1>2
    <3>2. CASE i = 1
      BY <3>2, FirstPlaces
    <3>3. CASE i = 2
      BY <3>3, FirstPlaces
    <3>4. CASE i = 3
      BY <3>4, FirstPlaces
    <3>5. CASE i = 4
      BY <3>5, FirstPlaces
    <3>6. CASE i = 5
      BY <3>6, FirstPlaces
    <3>7. CASE i = 6
      BY <3>7, FirstPlaces
    <3>8. CASE i = 7
      BY <3>8, FirstPlaces
    <3>9. CASE i = 8
      BY <3>9, FirstPlaces
    <3>10. CASE i = 9
      BY <3>10, FirstPlaces
    <3>11. CASE i = 10
      BY <3>11, FirstPlaces
    <3> QED
      BY <3>1, <3>2, <3>3, <3>4, <3>5, <3>6, <3>7, <3>8, <3>9, <3>10, <3>11
  <2> QED
    BY <2>1, <2>2 DEF Reads, MayFail
<1>3. CASE i \in 11..22
  <2>1. N \in Nat
    BY RolesLength
  <2>2. \/ i = 11 /\ Script[i] = <<"grant", "admin-ui">>
        \/ i = 12 /\ Script[i] = <<"scope", "admin-ui">>
        \/ i = 13 /\ Script[i] = <<"secret", "admin-ui">>
        \/ i = 14 /\ Script[i] = <<"baseUrl", "admin-ui">>
        \/ i = 15 /\ Script[i] = <<"client", "jupyterhub">>
        \/ i = 16 /\ Script[i] = <<"redirect", "jupyterhub">>
        \/ i = 17 /\ Script[i] = <<"secret", "jupyterhub">>
        \/ i = 18 /\ Script[i] = <<"client", "maintenance-proxy">>
        \/ i = 19 /\ Script[i] = <<"redirect", "maintenance-proxy">>
        \/ i = 20 /\ Script[i] = <<"secret", "maintenance-proxy">>
        \/ i = 21 /\ Script[i] = <<"theme", "primehub">>
        \/ i = 22 /\ Script[i] = <<"count", "primehub">>
    <3>1. \/ i = 11 \/ i = 12 \/ i = 13 \/ i = 14 \/ i = 15 \/ i = 16
          \/ i = 17 \/ i = 18 \/ i = 19 \/ i = 20 \/ i = 21 \/ i = 22
      BY <1>3
    <3>2. CASE i = 11
      BY <3>2, FirstPlaces
    <3>3. CASE i = 12
      BY <3>3, FirstPlaces
    <3>4. CASE i = 13
      BY <3>4, FirstPlaces
    <3>5. CASE i = 14
      BY <3>5, FirstPlaces
    <3>6. CASE i = 15
      BY <3>6, FirstPlaces
    <3>7. CASE i = 16
      BY <3>7, FirstPlaces
    <3>8. CASE i = 17
      BY <3>8, FirstPlaces
    <3>9. CASE i = 18
      BY <3>9, FirstPlaces
    <3>10. CASE i = 19
      BY <3>10, FirstPlaces
    <3>11. CASE i = 20
      BY <3>11, FirstPlaces
    <3>12. CASE i = 21
      BY <3>12, FirstPlaces
    <3>13. CASE i = 22
      BY <3>13, FirstPlaces
    <3> QED
      BY <3>1, <3>2, <3>3, <3>4, <3>5, <3>6, <3>7, <3>8, <3>9, <3>10, <3>11, <3>12, <3>13
  <2> QED
    BY <2>1, <2>2 DEF Reads, MayFail
<1>4. CASE i \in 23..29
  <2>1. i < N + 30 /\ N \in Nat
    BY <1>4, RolesLength
  <2>2. \/ i = 23 /\ Script[i] = <<"user", "phadmin">>
        \/ i = 24 /\ Script[i] = <<"password", "phadmin">>
        \/ i = 25 /\ Script[i] = <<"group", "phusers">>
        \/ i = 26 /\ Script[i] = <<"deployment", "phusers">>
        \/ i = 27 /\ Script[i] = <<"member", "phadmin">>
        \/ i = 28 /\ Script[i] = <<"groupAdmin", "phadmin">>
        \/ i = 29 /\ Script[i] = <<"realmAdmin", "phadmin">>
    BY <1>4, LastPlaces
  <2> QED
    BY <2>1, <2>2 DEF Reads, MayFail
<1>5. CASE i \in 30..(N + 29)
  <2>1. i >= 30 /\ i < N + 30 /\ N \in Nat
    BY <1>5, RolesLength
  <2>2. Script[i][1] \in {"role", "bind", "apply"}
    BY <1>5, LastPlaces
  <2>3. \A a, b : Script[i] = <<a, b>> => a \in {"role", "bind", "apply"}
    BY <2>2
  <2> QED
    BY <2>1, <2>2, <2>3 DEF Reads, MayFail
<1>6. CASE i = N + 30 \/ i = N + 31 \/ i = N + 32
  <2>1. N \in Nat
    BY RolesLength
  <2>2. \/ i = N + 30 /\ Script[i] = <<"apply", "images">>
        \/ i = N + 31 /\ Script[i] = <<"label", "primehub">>
        \/ i = N + 32 /\ Script[i] = <<"restart", "primehub">>
    BY <1>6, LastPlaces
  <2> QED
    BY <2>1, <2>2 DEF Reads, MayFail
<1> QED
  BY <1>1, <1>2, <1>3, <1>4, <1>5, <1>6

LEMMA Places ==
    /\ Place(<<"group", "everyone">>) = 7
    /\ Place(<<"client", "admin-ui">>) = 9
    /\ Place(DefaultSteps[1]) = 23
    /\ Place(Realm("label")) = N + 31
<1>1. 7 \in 1..(N + 32) /\ 9 \in 1..(N + 32) /\ 23 \in 1..(N + 32) /\ N + 31 \in 1..(N + 32)
  BY RolesLength
<1>2. DOMAIN Script = 1..(N + 32)
  BY FirstPlaces
<1>3. Place(<<"group", "everyone">>) = 7
  BY <1>1, <1>2, FirstPlaces, OnlyPlaces DEF Place
<1>4. Place(<<"client", "admin-ui">>) = 9
  BY <1>1, <1>2, FirstPlaces, OnlyPlaces DEF Place
<1>5. Place(<<"user", "phadmin">>) = 23
  BY <1>1, <1>2, LastPlaces, OnlyPlaces DEF Place
<1>6. DefaultSteps[1] = <<"user", "phadmin">>
  BY LastPlaces, RolesLength
<1>7. Place(<<"label", "primehub">>) = N + 31
  BY <1>1, <1>2, LastPlaces, OnlyPlaces DEF Place
<1> QED
  BY <1>3, <1>4, <1>5, <1>6, <1>7 DEF Realm

SecretPlace == [c \in Clients |-> IF c = "admin-ui" THEN 13 ELSE IF c = "jupyterhub" THEN 17 ELSE 20]

\* The guards of the actions, by the place.
LEMMA Guards ==
    ASSUME pc \in 0..Len(Script)
    PROVE  /\ N \in Nat /\ pc \in 0..(N + 32)
           /\ At(<<"lookup", "everyone">>) <=> pc = 6
           /\ At(Realm("count")) <=> pc = 22
           /\ At(<<"user", "phadmin">>) <=> pc = 23
           /\ At(Realm("restart")) <=> pc = N + 32
           /\ AtOp({"lookup", "count", "restart"}) <=> pc \in {6, 22, N + 32}
           /\ AtOp({"password"}) <=> pc = 24
           /\ AtOp(MayFail) => pc \notin {0, 6, 7, 8, 13, 17, 20, 22, N + 32} \cup 23..29
           /\ \A c \in Clients : At(<<"secret", c>>) <=> pc = SecretPlace[c]
<1>1. N \in Nat /\ pc \in 0..(N + 32)
  BY FirstPlaces
<1>2. CASE pc = 0
  BY <1>1, <1>2 DEF At, AtOp, SecretPlace, Clients
<1>3. CASE pc \in 1..(N + 32)
  <2>1. /\ At(<<"lookup", "everyone">>) <=> pc = 6
        /\ At(Realm("count")) <=> pc = 22
        /\ At(<<"user", "phadmin">>) <=> pc = 23
        /\ At(Realm("restart")) <=> pc = N + 32
    BY <1>3, OnlyPlaces DEF At, Realm
  <2>2. /\ AtOp({"lookup", "count", "restart"}) <=> pc \in {6, 22, N + 32}
        /\ AtOp({"password"}) <=> pc = 24
    BY <1>3, OnlyPlaces DEF AtOp
  <2>3. \A c \in Clients : At(<<"secret", c>>) <=> pc = SecretPlace[c]
    BY <1>3, OnlyPlaces DEF At, Clients, SecretPlace
  <2>4. ASSUME AtOp(MayFail)
        PROVE  pc \notin {0, 6, 7, 8, 13, 17, 20, 22, N + 32} \cup 23..29
    <3>1. Script[pc][1] \in MayFail
      BY <2>4 DEF AtOp
    <3>2. pc \notin 24..29
      BY <1>3, <3>1, OnlyPlaces
    <3>3. pc \notin {6, 7, 8, 13, 17, 20, 22}
      <4>1. /\ Script[6][1] = "lookup" /\ Script[7][1] = "group" /\ Script[8][1] = "default"
            /\ Script[13][1] = "secret" /\ Script[17][1] = "secret"
            /\ Script[20][1] = "secret" /\ Script[22][1] = "count"
        BY FirstPlaces
      <4> QED
        BY <3>1, <4>1 DEF MayFail
    <3>4. pc # 23 /\ pc # N + 32
      <4>1. Script[23][1] = "user" /\ Script[N + 32][1] = "restart"
        BY LastPlaces
      <4> QED
        BY <3>1, <4>1 DEF MayFail
    <3> QED
      BY <1>3, <3>2, <3>3, <3>4, <1>1
  <2> QED
    BY <1>1, <2>1, <2>2, <2>3, <2>4
<1> QED
  BY <1>1, <1>2, <1>3

-----------------------------------------------------------------------------
(* Type correctness.                                                       *)

\* What a step does when it is answered, by the place.
LEMMA EffectIs ==
    ASSUME TypeOK, pc # 0, Effect
    PROVE  /\ made \subseteq made' /\ made' \subseteq made \cup {Script[pc]}
           /\ Script[pc] \in Step /\ made' \subseteq Step
           /\ Script[pc][1] \notin Reads => Script[pc] \in made'
           /\ secret' \in [Clients -> {"none", "empty", "right"}]
           /\ \A c \in Clients : secret'[c] = IF pc = SecretPlace[c] THEN "right" ELSE secret[c]
           /\ password' = IF pc = 24 THEN "generated" ELSE password
<1>1. pc \in 1..(N + 32) /\ pc \in 0..Len(Script) /\ pc \in DOMAIN Script
  BY FirstPlaces DEF TypeOK
<1>2. Script[pc] \in Step
  BY <1>1 DEF Step
<1>3. /\ made' = made \cup Makes(Script[pc])
      /\ Makes(Script[pc]) = IF Script[pc][1] \in Reads THEN {} ELSE {Script[pc]}
  BY DEF Effect, Makes
<1>4. secret' = [c \in Clients |-> IF At(<<"secret", c>>) THEN "right" ELSE secret[c]]
  BY DEF Effect, Stored
<1>5. \A c \in Clients : At(<<"secret", c>>) <=> pc = SecretPlace[c]
  BY <1>1, Guards
<1>6. secret \in [Clients -> {"none", "empty", "right"}] /\ made \subseteq Step
  BY DEF TypeOK
<1>7. secret' \in [Clients -> {"none", "empty", "right"}]
  BY <1>4, <1>6
<1>8. \A c \in Clients : secret'[c] = IF pc = SecretPlace[c] THEN "right" ELSE secret[c]
  BY <1>4, <1>5
<1>9. password' = IF pc = 24 THEN "generated" ELSE password
  BY <1>1, Guards DEF Effect
<1> QED
  BY <1>2, <1>3, <1>6, <1>7, <1>8, <1>9

LEMMA TypeInit == Init => TypeOK
<1> SUFFICES ASSUME Init PROVE TypeOK
  OBVIOUS
<1>1. Realm("realm") \in Step
  <2>1. Script[3] = Realm("realm") /\ 3 \in DOMAIN Script
    BY FirstPlaces DEF Realm
  <2> QED
    BY <2>1 DEF Step
<1>2. 0 \in 0..Len(Script)
  BY FirstPlaces
<1>3. strangers \in BOOLEAN /\ complete \in BOOLEAN /\ blind \in BOOLEAN
  BY DEF Init
<1>4. made \subseteq Step
  BY <1>1 DEF Init
<1>5. secret \in [Clients -> {"none", "empty", "right"}]
  BY DEF Init
<1>6. faults \in 0..MaxFaults
  BY BootstrapAssumption DEF Init
<1> QED
  BY <1>2, <1>3, <1>4, <1>5, <1>6 DEF Init, TypeOK

LEMMA TypeStep == TypeOK /\ [Next]_vars => TypeOK'
<1> SUFFICES ASSUME TypeOK, [Next]_vars PROVE TypeOK'
  OBVIOUS
<1>1. /\ pc \in 0..Len(Script) /\ Len(Script) = N + 32 /\ N \in Nat
      /\ faults \in 0..MaxFaults /\ MaxFaults \in Nat
  BY FirstPlaces, BootstrapAssumption DEF TypeOK
<1>2. pc # 0 => Script[pc] \in Step
  <2>1. pc # 0 => pc \in DOMAIN Script
    BY <1>1, FirstPlaces
  <2> QED
    BY <2>1 DEF Step
<1>3. ASSUME Fault PROVE faults' \in 0..MaxFaults
  BY <1>1, <1>3 DEF Fault
<1>4. CASE Begin
  <2>1. pc' \in 0..Len(Script)
    BY <1>1, <1>4 DEF Begin
  <2>2. complete' \in BOOLEAN /\ blind' \in BOOLEAN /\ unread' \subseteq Clients
    BY <1>4 DEF Begin
  <2> QED
    BY <1>4, <2>1, <2>2 DEF Begin, TypeOK, cluster
<1>5. CASE AddUser
  BY <1>5 DEF AddUser, TypeOK, cluster, history
<1>6. CASE ChangePassword
  BY <1>6 DEF ChangePassword, TypeOK, history
<1>7. CASE Call
  <2>1. pc \notin {6, 22, N + 32}
    BY <1>1, <1>7, Guards DEF Call
  <2>2. pc + 1 \in 0..Len(Script)
    BY <1>1, <1>7, <2>1 DEF Call
  <2>3. Effect /\ pc # 0
    BY <1>7 DEF Call
  <2>4. /\ made' \subseteq Step /\ secret' \in [Clients -> {"none", "empty", "right"}]
        /\ password' \in {"none", "generated", "changed"}
    BY <2>3, EffectIs DEF TypeOK
  <2> QED
    BY <1>1, <1>7, <2>2, <2>4 DEF Call, TypeOK, history
<1>8. CASE Refused
  BY <1>1, <1>2, <1>8 DEF Refused, TypeOK, cluster
<1>9. CASE LookupEveryone
  BY <1>1, <1>9, Places DEF LookupEveryone, Continue, TypeOK, cluster, history
<1>10. CASE CountUsers
  <2>1. pc' \in {23, N + 31}
    BY <1>10, Places DEF CountUsers, Continue
  <2> QED
    BY <1>1, <1>10, <2>1 DEF CountUsers, TypeOK, cluster, history
<1>11. CASE Restart
  BY <1>1, <1>11 DEF Restart, TypeOK, cluster, history
<1>12. CASE Halt
  <2>1. /\ made' \subseteq Step /\ secret' \in [Clients -> {"none", "empty", "right"}]
        /\ password' \in {"none", "generated", "changed"}
    BY <1>12, EffectIs DEF Halt, TypeOK, cluster
  <2>2. faults' \in 0..MaxFaults
    BY <1>3, <1>12 DEF Halt
  <2> QED
    BY <1>1, <1>2, <1>12, <2>1, <2>2 DEF Halt, TypeOK
<1>13. CASE Tolerated
  <2>1. pc # 0 /\ pc # N + 32
    BY <1>1, <1>13, Guards DEF Tolerated
  <2>2. faults' \in 0..MaxFaults
    BY <1>3, <1>13 DEF Tolerated
  <2> QED
    BY <1>1, <1>13, <2>1, <2>2 DEF Tolerated, TypeOK, cluster, history
<1>14. CASE LookupHidden
  <2>1. faults' \in 0..MaxFaults
    BY <1>3, <1>14 DEF LookupHidden
  <2> QED
    BY <1>1, <1>14, <2>1, Places DEF LookupHidden, Continue, TypeOK, cluster, history
<1>15. CASE CountHidden
  <2>1. faults' \in 0..MaxFaults
    BY <1>3, <1>15 DEF CountHidden
  <2> QED
    BY <1>1, <1>15, <2>1, Places DEF CountHidden, Continue, TypeOK, cluster
<1>16. CASE UserHidden
  <2>1. faults' \in 0..MaxFaults
    BY <1>3, <1>16 DEF UserHidden
  <2>2. pc = 23
    BY <1>1, <1>16, Guards DEF UserHidden
  <2> QED
    BY <1>1, <1>16, <2>1, <2>2 DEF UserHidden, TypeOK, cluster, history
<1>17. ASSUME NEW c \in Clients, SecretHidden(c) PROVE TypeOK'
  <2>1. faults' \in 0..MaxFaults
    BY <1>3, <1>17 DEF SecretHidden
  <2>2. pc \in {13, 17, 20}
    BY <1>1, <1>17, Guards DEF SecretHidden, SecretPlace
  <2>3. secret' \in [Clients -> {"none", "empty", "right"}]
    BY <1>17 DEF SecretHidden, TypeOK
  <2>4. pc' \in 0..Len(Script)
    BY <1>1, <1>17, <2>2 DEF SecretHidden
  <2> QED
    BY <1>17, <2>1, <2>3, <2>4 DEF SecretHidden, TypeOK
<1>18. CASE UNCHANGED vars
  BY <1>18 DEF vars, cluster, history, TypeOK
<1> QED
  BY <1>4, <1>5, <1>6, <1>7, <1>8, <1>9, <1>10, <1>11, <1>12, <1>13, <1>14, <1>15, <1>16, <1>17,
     <1>18 DEF Next, Advance, Failure

\* The job only ever is at a step of its script, and what it has made are
\* effects of its steps: no branch and no failure leads out of the script.
THEOREM BootstrapTypesHold == Spec => []TypeOK
BY TypeInit, TypeStep, PTL DEF Spec

-----------------------------------------------------------------------------
(* The secrets.                                                            *)

\* A run that has said Complete is over, and a client whose step is behind the
\* run has its secret, or had no answer.
SecretsInv ==
    /\ complete => pc = 0
    /\ \A c \in Clients :
          complete \/ pc > SecretPlace[c] => secret[c] = "right" \/ c \in unread

LEMMA SecretsStep == TypeOK /\ SecretsInv /\ [Next]_vars => SecretsInv'
<1> SUFFICES ASSUME TypeOK, SecretsInv, [Next]_vars PROVE SecretsInv'
  OBVIOUS
<1>1. pc \in 0..(N + 32) /\ pc \in 0..Len(Script) /\ N \in Nat
  BY FirstPlaces DEF TypeOK
<1>2. \A c \in Clients : SecretPlace[c] \in {13, 17, 20}
  BY DEF SecretPlace, Clients
<1>3. pc # 0 => ~complete
  BY DEF SecretsInv
<1>4. CASE Begin
  BY <1>2, <1>4 DEF Begin, SecretsInv
<1>5. CASE AddUser \/ ChangePassword
  BY <1>5 DEF AddUser, ChangePassword, SecretsInv, cluster, history
<1>6. CASE Call
  <2>1. /\ pc # 0 /\ pc' = pc + 1 /\ complete' = complete /\ unread' = unread
        /\ Effect
    BY <1>6 DEF Call, history
  <2>2. \A c \in Clients : secret'[c] = IF pc = SecretPlace[c] THEN "right" ELSE secret[c]
    BY <2>1, EffectIs
  <2> QED
    BY <1>1, <1>2, <1>3, <2>1, <2>2 DEF SecretsInv
<1>7. CASE Refused
  BY <1>1, <1>2, <1>3, <1>7 DEF Refused, SecretsInv
<1>8. CASE LookupEveryone
  <2>1. pc' \in {7, 9} /\ pc # 0
    BY <1>8, Places DEF LookupEveryone, Continue, At
  <2> QED
    BY <1>2, <1>3, <1>8, <2>1 DEF LookupEveryone, SecretsInv
<1>9. CASE CountUsers \/ CountHidden
  <2>1. pc = 22
    BY <1>1, <1>9, Guards DEF CountUsers, CountHidden
  <2>2. complete' = complete /\ unread' = unread /\ secret' = secret /\ pc' # 0
    BY <1>1, <1>9, Places DEF CountUsers, CountHidden, Continue, cluster, history
  <2> QED
    BY <1>2, <1>3, <2>1, <2>2 DEF SecretsInv
<1>10. CASE Restart
  <2>1. pc = N + 32 /\ pc' = 0 /\ unread' = unread /\ secret' = secret
    BY <1>1, <1>10, Guards DEF Restart, cluster, history
  <2> QED
    BY <1>1, <1>2, <2>1 DEF SecretsInv
<1>11. CASE Halt
  BY <1>1, <1>2, <1>3, <1>11 DEF Halt, SecretsInv
<1>12. CASE Tolerated \/ UserHidden
  <2>1. pc \notin {13, 17, 20} /\ pc # 0
    BY <1>1, <1>12, Guards DEF Tolerated, UserHidden
  <2>2. pc' = pc + 1 /\ complete' = complete /\ unread' = unread /\ secret' = secret
    BY <1>12 DEF Tolerated, UserHidden, cluster, history
  <2> QED
    BY <1>1, <1>2, <1>3, <2>1, <2>2 DEF SecretsInv
<1>13. CASE LookupHidden
  <2>1. pc' = 7 /\ pc # 0
    BY <1>13, Places DEF LookupHidden, Continue, At
  <2> QED
    BY <1>2, <1>3, <1>13, <2>1 DEF LookupHidden, SecretsInv
<1>14. ASSUME NEW d \in Clients, SecretHidden(d) PROVE SecretsInv'
  <2>1. pc = SecretPlace[d] /\ pc # 0
    BY <1>1, <1>2, <1>14, Guards DEF SecretHidden
  <2>2. /\ pc' = pc + 1 /\ complete' = complete /\ unread' = unread \cup {d}
        /\ \A c \in Clients : c # d => secret'[c] = secret[c]
    BY <1>14 DEF SecretHidden, TypeOK
  <2>3. \A c \in Clients : c # d => SecretPlace[c] # SecretPlace[d]
    BY DEF SecretPlace, Clients
  <2> QED
    BY <1>1, <1>2, <1>3, <2>1, <2>2, <2>3 DEF SecretsInv
<1>15. CASE UNCHANGED vars
  BY <1>15 DEF vars, cluster, history, SecretsInv
<1> QED
  BY <1>4, <1>5, <1>6, <1>7, <1>8, <1>9, <1>10, <1>11, <1>12, <1>13, <1>14, <1>15
  DEF Next, Advance, Failure

\* After a run that says Complete every client has the secret that Keycloak
\* knows it by, unless that run got no answer when it asked: whatever the runs
\* before it left half done, for every list of roles and number of failures.
THEOREM SecretsAreUsable == Spec => []SecretsUsable
<1>1. Init => SecretsInv
  BY DEF Init, SecretsInv, SecretPlace, Clients
<1>2. SecretsInv => SecretsUsable
  BY DEF SecretsInv, SecretsUsable
<1> QED
  BY <1>1, <1>2, SecretsStep, BootstrapTypesHold, PTL DEF Spec

-----------------------------------------------------------------------------
(* The group everyone.                                                     *)

Everyone ==
    \/ <<"default", "everyone">> \in made
    \/ interrupted \cap {<<"group", "everyone">>, <<"default", "everyone">>} # {}

\* The group is the default, or the run is about to make it so.
EveryoneInv ==
    /\ <<"group", "everyone">> \in made => Everyone \/ pc = 8
    /\ complete \/ pc >= 9 => Everyone

LEMMA EveryoneStep ==
    TypeOK /\ SecretsInv /\ EveryoneInv /\ [Next]_vars => EveryoneInv'
<1> SUFFICES ASSUME TypeOK, SecretsInv, EveryoneInv, [Next]_vars PROVE EveryoneInv'
  OBVIOUS
<1>1. pc \in 0..(N + 32) /\ pc \in 0..Len(Script) /\ N \in Nat
  BY FirstPlaces DEF TypeOK
<1>2. pc # 0 => ~complete
  BY DEF SecretsInv
<1>3. ASSUME made \subseteq made', interrupted \subseteq interrupted', Everyone
      PROVE  Everyone'
  BY <1>3 DEF Everyone
<1>4. pc # 0 => (Script[pc] = <<"group", "everyone">> <=> pc = 7)
  BY <1>1, OnlyPlaces
<1>5. CASE Begin
  BY <1>5 DEF Begin, EveryoneInv, Everyone, cluster
<1>6. CASE AddUser \/ ChangePassword
  BY <1>6 DEF AddUser, ChangePassword, EveryoneInv, Everyone, cluster, history
<1>7. CASE Call
  <2>1. /\ pc # 0 /\ pc' = pc + 1 /\ complete' = complete /\ interrupted' = interrupted
        /\ Effect
    BY <1>7 DEF Call, history
  <2>2. made \subseteq made' /\ made' \subseteq made \cup {Script[pc]}
    BY <2>1, EffectIs
  <2>3. CASE pc = 8
    <3>1. Script[pc] = <<"default", "everyone">>
      BY <2>3, FirstPlaces
    <3>2. Script[pc] \in made'
      BY <2>1, <3>1, EffectIs DEF Reads
    <3> QED
      BY <3>1, <3>2 DEF EveryoneInv, Everyone
  <2>4. CASE pc = 7
    BY <1>2, <2>1, <2>4 DEF EveryoneInv
  <2>5. CASE pc # 7 /\ pc # 8
    <3>1. <<"group", "everyone">> \in made' => Everyone
      BY <1>4, <2>1, <2>2, <2>5 DEF EveryoneInv
    <3>2. pc' >= 9 => Everyone
      BY <1>1, <2>1, <2>5 DEF EveryoneInv
    <3> QED
      BY <1>2, <1>3, <2>1, <2>2, <3>1, <3>2 DEF EveryoneInv
  <2> QED
    BY <2>3, <2>4, <2>5
<1>8. CASE Refused \/ Halt
  <2>1. /\ pc # 0 /\ pc' = 0 /\ interrupted' = interrupted \cup {Script[pc]}
        /\ complete' = complete
    BY <1>8 DEF Refused, Halt
  <2>2. made \subseteq made' /\ made' \subseteq made \cup {Script[pc]}
    BY <1>8, <2>1, EffectIs DEF Refused, Halt, cluster
  <2>3. CASE pc \in {7, 8}
    <3>1. Script[pc] \in {<<"group", "everyone">>, <<"default", "everyone">>}
      BY <2>3, FirstPlaces
    <3>2. Everyone'
      BY <2>1, <3>1 DEF Everyone
    <3> QED
      BY <3>2 DEF EveryoneInv
  <2>4. CASE pc \notin {7, 8}
    <3>1. <<"group", "everyone">> \in made' => Everyone
      BY <1>4, <2>1, <2>2, <2>4 DEF EveryoneInv
    <3> QED
      BY <1>2, <1>3, <2>1, <2>2, <3>1 DEF EveryoneInv
  <2> QED
    BY <2>3, <2>4
<1>9. CASE LookupEveryone
  <2>1. pc = 6
    BY <1>1, <1>9, Guards DEF LookupEveryone
  <2>2. /\ made' = made /\ interrupted' = interrupted /\ complete' = complete
        /\ pc' = 9 => <<"group", "everyone">> \in made
        /\ pc' \in {7, 9}
    BY <1>9, Places DEF LookupEveryone, Continue, cluster, history
  <2> QED
    BY <1>2, <2>1, <2>2 DEF EveryoneInv, Everyone
<1>10. CASE CountUsers \/ CountHidden
  <2>1. pc = 22 /\ made' = made /\ interrupted' = interrupted
    BY <1>1, <1>10, Guards DEF CountUsers, CountHidden, cluster, history
  <2> QED
    BY <2>1 DEF EveryoneInv, Everyone
<1>11. CASE Restart
  <2>1. pc = N + 32 /\ made' = made /\ interrupted' = interrupted
    BY <1>1, <1>11, Guards DEF Restart, cluster, history
  <2> QED
    BY <1>1, <2>1 DEF EveryoneInv, Everyone
<1>12. CASE Tolerated \/ UserHidden
  <2>1. pc \notin {7, 8} /\ pc # 0
    BY <1>1, <1>12, Guards DEF Tolerated, UserHidden
  <2>2. pc' = pc + 1 /\ complete' = complete /\ interrupted' = interrupted /\ made' = made
    BY <1>12 DEF Tolerated, UserHidden, cluster, history
  <2> QED
    BY <1>1, <1>2, <2>1, <2>2 DEF EveryoneInv, Everyone
<1>13. CASE LookupHidden
  <2>1. pc' = 7 /\ pc = 6
    BY <1>1, <1>13, Guards, Places DEF LookupHidden, Continue
  <2> QED
    BY <1>2, <1>13, <2>1 DEF LookupHidden, EveryoneInv, Everyone, cluster, history
<1>14. ASSUME NEW d \in Clients, SecretHidden(d) PROVE EveryoneInv'
  <2>1. pc \in {13, 17, 20}
    BY <1>1, <1>14, Guards DEF SecretHidden, SecretPlace
  <2> QED
    BY <1>14, <2>1 DEF SecretHidden, EveryoneInv, Everyone
<1>15. CASE UNCHANGED vars
  BY <1>15 DEF vars, cluster, history, EveryoneInv, Everyone
<1> QED
  BY <1>5, <1>6, <1>7, <1>8, <1>9, <1>10, <1>11, <1>12, <1>13, <1>14, <1>15
  DEF Next, Advance, Failure

\* When a run has said Complete, the group everyone is a default group, unless
\* some run ended between the two calls that make it so.
THEOREM EveryoneIsDefaultUnlessInterrupted == Spec => []EveryoneUnlessInterrupted
<1>1. Init => SecretsInv /\ EveryoneInv
  <2>1. Init => SecretsInv
    BY DEF Init, SecretsInv, SecretPlace, Clients
  <2>2. Init => EveryoneInv
    BY DEF Init, EveryoneInv, Realm
  <2> QED
    BY <2>1, <2>2
<1>2. EveryoneInv => EveryoneUnlessInterrupted
  BY DEF EveryoneInv, Everyone, EveryoneUnlessInterrupted
<1> QED
  BY <1>1, <1>2, SecretsStep, EveryoneStep, BootstrapTypesHold, PTL DEF Spec

-----------------------------------------------------------------------------
(* The administrator.                                                      *)

AdminWhole ==
    \/ {DefaultSteps[i] : i \in 1..7} \subseteq made
    \/ interrupted \cap {DefaultSteps[i] : i \in DOMAIN DefaultSteps} # {}

\* The administrator has all, or the run is giving it step by step.
AdminInv ==
    <<"user", "phadmin">> \in made =>
        \/ AdminWhole
        \/ pc \in 24..29 /\ \A i \in 23..(pc - 1) : Script[i] \in made

LEMMA AdminSteps ==
    /\ \A i \in 23..29 : Script[i] \in {DefaultSteps[j] : j \in DOMAIN DefaultSteps}
    /\ {DefaultSteps[i] : i \in 1..7} = {Script[i] : i \in 23..29}
<1>1. /\ \A i \in 1..(N + 8) : DefaultSteps[i] = Script[i + 22]
      /\ DOMAIN DefaultSteps = 1..(N + 8) /\ N \in Nat
  BY LastPlaces, RolesLength
<1>2. \A i \in 23..29 : i - 22 \in 1..7 /\ i - 22 \in 1..(N + 8) /\ DefaultSteps[i - 22] = Script[i]
  BY <1>1
<1>3. \A i \in 1..7 : i + 22 \in 23..29 /\ DefaultSteps[i] = Script[i + 22]
  BY <1>1
<1>4. {DefaultSteps[i] : i \in 1..7} \subseteq {Script[i] : i \in 23..29}
  BY <1>3
<1>5. {Script[i] : i \in 23..29} \subseteq {DefaultSteps[i] : i \in 1..7}
  BY <1>2
<1>6. \A i \in 23..29 : Script[i] \in {DefaultSteps[j] : j \in DOMAIN DefaultSteps}
  BY <1>1, <1>2
<1> QED
  BY <1>4, <1>5, <1>6

LEMMA AdminStep == TypeOK /\ AdminInv /\ [Next]_vars => AdminInv'
<1> SUFFICES ASSUME TypeOK, AdminInv, [Next]_vars PROVE AdminInv'
  OBVIOUS
<1>1. pc \in 0..(N + 32) /\ pc \in 0..Len(Script) /\ N \in Nat
  BY FirstPlaces DEF TypeOK
<1>2. ASSUME made \subseteq made', interrupted \subseteq interrupted', AdminWhole
      PROVE  AdminWhole'
  BY <1>2 DEF AdminWhole
<1>3. ASSUME made' = made, interrupted' = interrupted, pc \notin 24..29
      PROVE  AdminInv'
  BY <1>2, <1>3 DEF AdminInv
<1>4. pc # 0 => (Script[pc] = <<"user", "phadmin">> <=> pc = 23)
  BY <1>1, OnlyPlaces
<1>5. CASE Begin
  BY <1>3, <1>5 DEF Begin, cluster
<1>6. CASE AddUser \/ ChangePassword \/ UNCHANGED vars
  BY <1>6 DEF AddUser, ChangePassword, AdminInv, AdminWhole, vars, cluster, history
<1>7. CASE Call
  <2>1. pc # 0 /\ pc' = pc + 1 /\ interrupted' = interrupted /\ Effect
    BY <1>7 DEF Call, history
  <2>2. made \subseteq made' /\ made' \subseteq made \cup {Script[pc]}
    BY <2>1, EffectIs
  <2>3. CASE pc \in 23..29
    <3>1. Script[pc] \in made'
      <4>1. Script[pc][1] \notin Reads
        BY <1>1, <2>3, OnlyPlaces, LastPlaces DEF Reads
      <4> QED
        BY <2>1, <4>1, EffectIs
    <3>2. CASE AdminWhole
      BY <1>2, <2>1, <2>2, <3>2 DEF AdminInv
    <3>3. CASE pc = 23
      <4>1. pc' = 24
        BY <2>1, <3>3
      <4>2. \A i \in 23..(pc' - 1) : i = pc
        BY <3>3, <4>1
      <4> QED
        BY <3>1, <4>1, <4>2 DEF AdminInv
    <3>4. CASE <<"user", "phadmin">> \notin made /\ pc # 23
      BY <1>4, <2>1, <2>2, <3>4 DEF AdminInv
    <3>5. CASE /\ pc \in 24..29
               /\ \A i \in 23..(pc - 1) : Script[i] \in made
      <4>1. \A i \in 23..pc : Script[i] \in made'
        BY <2>2, <3>1, <3>5
      <4>2. CASE pc = 29
        <5>1. {DefaultSteps[i] : i \in 1..7} \subseteq made'
          BY <4>1, <4>2, AdminSteps
        <5> QED
          BY <5>1 DEF AdminInv, AdminWhole
      <4>3. CASE pc # 29
        <5>1. pc' \in 24..29 /\ pc' - 1 = pc
          BY <2>1, <3>5, <4>3
        <5> QED
          BY <4>1, <5>1 DEF AdminInv
      <4> QED
        BY <4>2, <4>3
    <3> QED
      BY <2>3, <3>2, <3>3, <3>4, <3>5 DEF AdminInv
  <2>4. CASE pc \notin 23..29
    <3>1. <<"user", "phadmin">> \in made' => AdminWhole
      BY <1>4, <2>1, <2>2, <2>4 DEF AdminInv
    <3> QED
      BY <1>2, <2>1, <2>2, <3>1 DEF AdminInv
  <2> QED
    BY <2>3, <2>4
<1>8. CASE Refused \/ Halt
  <2>1. pc # 0 /\ interrupted' = interrupted \cup {Script[pc]}
    BY <1>8 DEF Refused, Halt
  <2>2. made \subseteq made' /\ made' \subseteq made \cup {Script[pc]}
    BY <1>8, <2>1, EffectIs DEF Refused, Halt, cluster
  <2>3. CASE pc \in 23..29
    <3>1. AdminWhole'
      BY <2>1, <2>3, AdminSteps DEF AdminWhole
    <3> QED
      BY <3>1 DEF AdminInv
  <2>4. CASE pc \notin 23..29
    <3>1. <<"user", "phadmin">> \in made' => AdminWhole
      BY <1>4, <2>1, <2>2, <2>4 DEF AdminInv
    <3> QED
      BY <1>2, <2>1, <2>2, <3>1 DEF AdminInv
  <2> QED
    BY <2>3, <2>4
<1>9. CASE LookupEveryone \/ LookupHidden
  <2>1. pc = 6 /\ made' = made /\ interrupted' = interrupted
    BY <1>1, <1>9, Guards DEF LookupEveryone, LookupHidden, cluster, history
  <2> QED
    BY <1>3, <2>1
<1>10. CASE CountUsers \/ CountHidden
  <2>1. pc = 22 /\ made' = made /\ interrupted' = interrupted
    BY <1>1, <1>10, Guards DEF CountUsers, CountHidden, cluster, history
  <2> QED
    BY <1>3, <2>1
<1>11. CASE Restart
  <2>1. pc = N + 32 /\ made' = made /\ interrupted' = interrupted
    BY <1>1, <1>11, Guards DEF Restart, cluster, history
  <2> QED
    BY <1>1, <1>3, <2>1
<1>12. CASE Tolerated \/ UserHidden
  <2>1. pc \notin 24..29
    BY <1>1, <1>12, Guards DEF Tolerated, UserHidden
  <2>2. made' = made /\ interrupted' = interrupted
    BY <1>12 DEF Tolerated, UserHidden, cluster, history
  <2> QED
    BY <1>3, <2>1, <2>2
<1>13. ASSUME NEW d \in Clients, SecretHidden(d) PROVE AdminInv'
  <2>1. pc \in {13, 17, 20}
    BY <1>1, <1>13, Guards DEF SecretHidden, SecretPlace
  <2> QED
    BY <1>3, <1>13, <2>1 DEF SecretHidden
<1> QED
  BY <1>5, <1>6, <1>7, <1>8, <1>9, <1>10, <1>11, <1>12, <1>13 DEF Next, Advance, Failure

\* When a run has said Complete, an administrator that the script has made has
\* its password, its group and its roles, unless some run ended on the way.
THEOREM AdministratorIsWholeUnlessInterrupted == Spec => []AdminUnlessInterrupted
<1>1. Init => AdminInv
  BY DEF Init, AdminInv, Realm
<1>2. SecretsInv /\ AdminInv => AdminUnlessInterrupted
  BY DEF SecretsInv, AdminInv, AdminWhole, AdminUnlessInterrupted
<1>3. Init => SecretsInv
  BY DEF Init, SecretsInv, SecretPlace, Clients
<1> QED
  BY <1>1, <1>2, <1>3, SecretsStep, AdminStep, BootstrapTypesHold, PTL DEF Spec

-----------------------------------------------------------------------------
(* The password.                                                           *)

\* There is no password without the user, and a run gets to the password only
\* when it has counted no users or could not count them.
PasswordInv ==
    /\ password # "none" => <<"user", "phadmin">> \in made
    /\ pc \in {23, 24} => password = "none" \/ blind

LEMMA PasswordStep == TypeOK /\ PasswordInv /\ [Next]_vars => PasswordInv'
<1> SUFFICES ASSUME TypeOK, PasswordInv, [Next]_vars PROVE PasswordInv'
  OBVIOUS
<1>1. pc \in 0..(N + 32) /\ pc \in 0..Len(Script) /\ N \in Nat
  BY FirstPlaces DEF TypeOK
<1>2. CASE Begin
  BY <1>2 DEF Begin, PasswordInv, cluster
<1>3. CASE AddUser \/ UNCHANGED vars
  BY <1>3 DEF AddUser, PasswordInv, vars, cluster, history
<1>4. CASE ChangePassword
  BY <1>4 DEF ChangePassword, PasswordInv, history
<1>5. ASSUME pc # 0, Effect, Accepted(Script[pc])
      PROVE  password' # "none" => <<"user", "phadmin">> \in made'
  <2>1. made \subseteq made' /\ password' = IF pc = 24 THEN "generated" ELSE password
    BY <1>5, EffectIs
  <2>2. pc = 24 => <<"user", "phadmin">> \in made
    BY <1>5, LastPlaces DEF Accepted
  <2> QED
    BY <2>1, <2>2 DEF PasswordInv
<1>6. CASE Call
  <2>1. pc # 0 /\ pc # 22 /\ pc' = pc + 1 /\ blind' = blind /\ Effect /\ Accepted(Script[pc])
    BY <1>1, <1>6, Guards DEF Call, history
  <2>2. pc' \in {23, 24} => pc = 23
    BY <1>1, <2>1
  <2>3. pc = 23 => password' = password
    BY <2>1, EffectIs
  <2> QED
    BY <1>5, <2>1, <2>2, <2>3 DEF PasswordInv
<1>7. CASE Refused
  BY <1>7 DEF Refused, PasswordInv, cluster
<1>8. CASE Halt
  BY <1>5, <1>8 DEF Halt, PasswordInv, cluster
<1>9. CASE LookupEveryone \/ LookupHidden
  <2>1. pc' \in {7, 9} /\ made' = made /\ password' = password
    BY <1>9, Places DEF LookupEveryone, LookupHidden, Continue, cluster
  <2> QED
    BY <2>1 DEF PasswordInv
<1>10. CASE CountUsers
  <2>1. /\ made' = made /\ password' = password
        /\ pc' = N + 31 \/ <<"user", "phadmin">> \notin made
    BY <1>10, Places DEF CountUsers, Continue, HasUsers, cluster
  <2> QED
    BY <1>1, <2>1 DEF PasswordInv
<1>11. CASE CountHidden
  BY <1>11 DEF CountHidden, PasswordInv, cluster
<1>12. CASE Restart
  BY <1>12 DEF Restart, PasswordInv, cluster
<1>13. CASE Tolerated \/ UserHidden
  <2>1. /\ pc # 22 /\ pc' = pc + 1 /\ blind' = blind /\ made' = made /\ password' = password
    BY <1>1, <1>13, Guards DEF Tolerated, UserHidden, cluster, history
  <2> QED
    BY <1>1, <2>1 DEF PasswordInv
<1>14. ASSUME NEW d \in Clients, SecretHidden(d) PROVE PasswordInv'
  <2>1. pc \in {13, 17, 20} /\ pc' = pc + 1 /\ made' = made /\ password' = password
    BY <1>1, <1>14, Guards DEF SecretHidden, SecretPlace
  <2> QED
    BY <2>1 DEF PasswordInv
<1> QED
  BY <1>2, <1>3, <1>4, <1>6, <1>7, <1>8, <1>9, <1>10, <1>11, <1>12, <1>13, <1>14
  DEF Next, Advance, Failure

\* No run resets a password that the administrator has chosen, unless it got no
\* answer when it counted the users.
THEOREM ChosenPasswordIsKept == Spec => PasswordKept
<1>1. Init => PasswordInv
  BY DEF Init, PasswordInv
<1>2. TypeOK /\ PasswordInv /\ [Next]_vars =>
          (password = "changed" /\ password' # "changed" => blind)
  <2> SUFFICES ASSUME TypeOK, PasswordInv, [Next]_vars,
                      password = "changed", password' # "changed"
               PROVE  blind
    OBVIOUS
  <2>1. pc = 24
    <3>1. pc # 0 /\ Effect
      BY DEF Next, Advance, Failure, Begin, AddUser, ChangePassword, Call, Refused,
             LookupEveryone, CountUsers, Restart, Halt, Tolerated, LookupHidden, CountHidden,
             UserHidden, SecretHidden, vars, cluster
    <3> QED
      BY <3>1, EffectIs
  <2> QED
    BY <2>1 DEF PasswordInv
<1> QED
  BY <1>1, <1>2, PasswordStep, BootstrapTypesHold, PTL DEF Spec, PasswordKept
=============================================================================
