----------------------------- MODULE Bootstrap -----------------------------
(***************************************************************************)
(* The bootstrap job: bootstrap.sh sets up the Keycloak realm and the      *)
(* secrets PrimeHub uses, after every install and upgrade.  A run may end  *)
(* at any of its calls (an answer that is lost, set -e, a killed pod); the *)
(* job or the next upgrade then runs the script from its beginning.        *)
(*                                                                         *)
(* A step of the script is a pair <<operation, what it is done to>>; made  *)
(* is the set of the steps whose effect is in Keycloak or in the cluster.  *)
(* The shell hides some failures: the status of local x=$(...) is that of  *)
(* local, a syntax error in (( )) is only false, and || true is meant to.  *)
(***************************************************************************)
EXTENDS Integers, Sequences, FiniteSets

CONSTANTS
    InstanceTypes, Images,  \* the roles of instance types and of images: sequences
    MaxFaults               \* bound: answers lost, runs killed

ASSUME BootstrapAssumption ==
    /\ MaxFaults \in Nat
    /\ InstanceTypes \in Seq({InstanceTypes[i] : i \in DOMAIN InstanceTypes})
    /\ Images \in Seq({Images[i] : i \in DOMAIN Images})

VARIABLES
    pc,          \* the next step of Script, 0 when no run is under way
    made,        \* the effects that are there
    secret,      \* the secret of each client in the cluster
    password,    \* phadmin's
    strangers,   \* the realm has users that the script did not create
    complete,    \* the last run printed "Complete"
    faults,
    unread,      \* history: clients whose secret got no answer in this run
    blind,       \* history: the number of users got no answer in this run
    interrupted  \* history: the steps at which a run ended

cluster == <<made, secret, password>>
history == <<unread, blind, interrupted>>
vars == <<pc, cluster, strangers, complete, faults, history>>

Clients == {"admin-ui", "jupyterhub", "maintenance-proxy"}

Realm(op) == <<op, "primehub">>

\* kc_apply_client.  Its loop over protocol mappers adds those that are missing:
\* none here, as every client of the model is created from the file that has
\* them, and a failure of the loop's call is hidden by || print_info.
ClientSteps(c) == << <<"client", c>>, <<"redirect", c>> >>

\* kc_role_create and kc_group_add_realm_role, for each role in turn.
RoleSteps(roles) ==
    [i \in 1..(2 * Len(roles)) |->
        IF i % 2 = 1 THEN <<"role", roles[(i + 1) \div 2]>>
                     ELSE <<"bind", roles[i \div 2]>>]

\* The instance types with their resources, then the images.
ResourceSteps ==
    RoleSteps(InstanceTypes) \o << <<"apply", "instancetypes">> >> \o RoleSteps(Images)

UpdateSteps ==
    << Realm("wait"), Realm("login"), Realm("realm"), Realm("frontendUrl"),
       Realm("settings"),
       <<"lookup", "everyone">>, <<"group", "everyone">>, <<"default", "everyone">> >>
    \o ClientSteps("admin-ui")
    \o << <<"grant", "admin-ui">>, <<"scope", "admin-ui">>,
          <<"secret", "admin-ui">>, <<"baseUrl", "admin-ui">> >>
    \o ClientSteps("jupyterhub") \o << <<"secret", "jupyterhub">> >>
    \o ClientSteps("maintenance-proxy") \o << <<"secret", "maintenance-proxy">> >>
    \o << Realm("theme") >>

\* create_default_resources.  requiredActions are updated only with an option
\* that is off by default, and left out.
DefaultSteps ==
    << <<"user", "phadmin">>, <<"password", "phadmin">>, <<"group", "phusers">>,
       <<"deployment", "phusers">>, <<"member", "phadmin">>,
       <<"groupAdmin", "phadmin">>, <<"realmAdmin", "phadmin">> >>
    \o ResourceSteps \o << <<"apply", "images">> >>

Script ==
    UpdateSteps \o << Realm("count") >> \o DefaultSteps
    \o << Realm("label"), Realm("restart") >>

Step == {Script[i] : i \in DOMAIN Script}

Place(s) == CHOOSE i \in DOMAIN Script : Script[i] = s

Init ==
    /\ pc = 0 /\ complete = FALSE /\ faults = 0
    \* A new Keycloak, or an external one that has the realm.
    /\ made \in {{}, {Realm("realm")}}
    /\ strangers \in IF made = {} THEN {FALSE} ELSE BOOLEAN
    /\ secret = [c \in Clients |-> "none"] /\ password = "none"
    /\ unread = {} /\ blind = FALSE /\ interrupted = {}

-----------------------------------------------------------------------------
(* The job and the administrator.                                          *)

\* Install, upgrade, or the next pod of a job whose pod failed.
Begin ==
    /\ pc = 0
    /\ pc' = 1 /\ complete' = FALSE /\ unread' = {} /\ blind' = FALSE
    /\ UNCHANGED <<cluster, strangers, faults, interrupted>>

AddUser ==
    /\ Realm("realm") \in made
    /\ strangers' = TRUE
    /\ UNCHANGED <<pc, cluster, complete, faults, history>>

ChangePassword ==
    /\ password = "generated"
    /\ password' = "changed"
    /\ UNCHANGED <<pc, made, secret, strangers, complete, faults, history>>

-----------------------------------------------------------------------------
(* What a step does when it is answered.                                   *)

At(s) == pc # 0 /\ Script[pc] = s
AtOp(ops) == pc # 0 /\ Script[pc][1] \in ops

\* Keycloak refuses to create these a second time ...
Creations == {"realm", "group", "client", "user", "role"}

\* Mutated form of LooksFirst: clients are created without a look.
LooksButForClients == {"realm", "group", "user", "role"}

\* ... and the script looks for them before.
LooksFirst == {"realm", "group", "client", "user", "role"}

Accepted(s) ==
    /\ s[1] \in Creations /\ s \in made => s[1] \in LooksFirst
    /\ s[1] = "password" => <<"user", "phadmin">> \in made

Reads == {"wait", "login", "lookup", "secret", "count", "restart"}

\* Mutated form of Makes: the group everyone is not made the default.
MakesNoDefault(s) == IF s[1] \in Reads \cup {"default"} THEN {} ELSE {s}

Makes(s) == IF s[1] \in Reads THEN {} ELSE {s}

\* Mutated form of Stored: a secret that is there is left as it is.
StoredOnce(c, value) == IF secret[c] = "none" THEN value ELSE secret[c]

\* kubectl apply.
Stored(c, value) == value

Effect ==
    /\ made' = made \cup Makes(Script[pc])
    /\ secret' = [c \in Clients |-> IF At(<<"secret", c>>) THEN Stored(c, "right")
                                                          ELSE secret[c]]
    /\ password' = IF AtOp({"password"}) THEN "generated" ELSE password

Continue(s) == pc' = Place(s)

\* Every step but the two that branch and the last.
Call ==
    /\ pc # 0 /\ ~AtOp({"lookup", "count", "restart"}) /\ Accepted(Script[pc])
    /\ Effect
    /\ pc' = pc + 1
    /\ UNCHANGED <<strangers, complete, faults, history>>

\* set -e.
Refused ==
    /\ pc # 0 /\ ~Accepted(Script[pc])
    /\ pc' = 0 /\ interrupted' = interrupted \cup {Script[pc]}
    /\ UNCHANGED <<cluster, strangers, complete, faults, unread, blind>>

\* update_group_everyone: a group that is there is not made the default.
LookupEveryone ==
    /\ At(<<"lookup", "everyone">>)
    /\ IF <<"group", "everyone">> \in made THEN Continue(<<"client", "admin-ui">>)
                                          ELSE Continue(<<"group", "everyone">>)
    /\ UNCHANGED <<cluster, strangers, complete, faults, history>>

HasUsers == strangers \/ <<"user", "phadmin">> \in made

\* Mutated form of CountUsers: the default resources are never skipped.
CountNothing ==
    /\ At(Realm("count"))
    /\ Continue(DefaultSteps[1])
    /\ UNCHANGED <<cluster, strangers, complete, faults, history>>

CountUsers ==
    /\ At(Realm("count"))
    /\ IF HasUsers THEN Continue(Realm("label")) ELSE Continue(DefaultSteps[1])
    /\ UNCHANGED <<cluster, strangers, complete, faults, history>>

\* Mutated form of Restart: the script runs on past its end.
RestartAndGoOn ==
    /\ At(Realm("restart"))
    /\ pc' = pc + 1 /\ complete' = TRUE
    /\ UNCHANGED <<cluster, strangers, faults, history>>

Restart ==
    /\ At(Realm("restart"))
    /\ pc' = 0 /\ complete' = TRUE
    /\ UNCHANGED <<cluster, strangers, faults, history>>

-----------------------------------------------------------------------------
(* Calls that fail.                                                        *)

Fault == faults < MaxFaults /\ faults' = faults + 1

\* set -e, or the pod is killed; what was asked for may be done all the same.
\* A hidden failure of the look before a creation ends here too: what is there
\* is created again, and Keycloak refuses.
Halt ==
    /\ pc # 0 /\ Fault
    /\ pc' = 0 /\ interrupted' = interrupted \cup {Script[pc]}
    /\ \/ UNCHANGED cluster
       \/ Accepted(Script[pc]) /\ Effect
    /\ UNCHANGED <<strangers, complete, unread, blind>>

\* Mutated form of MayFail: so has kc_user_add_client_role.
MayFailOrRealmAdmin == {"bind", "apply", "theme", "realmAdmin"}

\* These have || true; a theme that serverinfo does not list is left out.
MayFail == {"bind", "apply", "theme"}

Tolerated ==
    /\ AtOp(MayFail) /\ Fault
    /\ pc' = pc + 1
    /\ UNCHANGED <<cluster, strangers, complete, history>>

\* No answer reads as no group; kc_group_create looks again.
LookupHidden ==
    /\ At(<<"lookup", "everyone">>) /\ Fault
    /\ Continue(<<"group", "everyone">>)
    /\ UNCHANGED <<cluster, strangers, complete, history>>

\* The secret is stored with an empty client_secret.
SecretHidden(c) ==
    /\ At(<<"secret", c>>) /\ Fault
    /\ secret' = [secret EXCEPT ![c] = "empty"]
    /\ unread' = unread \cup {c}
    /\ pc' = pc + 1
    /\ UNCHANGED <<made, password, strangers, complete, blind, interrupted>>

\* The comparison with an empty count fails, which reads as no user.
CountHidden ==
    /\ At(Realm("count")) /\ Fault
    /\ Continue(DefaultSteps[1])
    /\ blind' = TRUE
    /\ UNCHANGED <<cluster, strangers, complete, unread, interrupted>>

\* kc_user_create: an empty count reads as a user that is there.
UserHidden ==
    /\ At(<<"user", "phadmin">>) /\ Fault
    /\ pc' = pc + 1
    /\ UNCHANGED <<cluster, strangers, complete, history>>

-----------------------------------------------------------------------------

Advance == Call \/ Refused \/ LookupEveryone \/ CountUsers \/ Restart

Failure ==
    \/ Halt \/ Tolerated \/ LookupHidden \/ CountHidden \/ UserHidden
    \/ \E c \in Clients : SecretHidden(c)

Next == Begin \/ AddUser \/ ChangePassword \/ Advance \/ Failure

Spec == Init /\ [][Next]_vars

\* The shell goes on when it is answered, and the job starts another pod.
FairSpec == Spec /\ WF_vars(Advance) /\ WF_vars(Begin)

-----------------------------------------------------------------------------
(* Properties.                                                             *)

TypeOK ==
    /\ pc \in 0..Len(Script)
    /\ made \subseteq Step
    /\ secret \in [Clients -> {"none", "empty", "right"}]
    /\ password \in {"none", "generated", "changed"}
    /\ strangers \in BOOLEAN /\ complete \in BOOLEAN /\ blind \in BOOLEAN
    /\ faults \in 0..MaxFaults
    /\ unread \subseteq Clients /\ interrupted \subseteq Step

\* After a run that says Complete, whatever the runs before it left behind, a
\* client's secret in the cluster is the one in Keycloak, unless this very run
\* had no answer when it asked for it.
SecretsUsable ==
    complete => \A c \in Clients : secret[c] = "right" \/ c \in unread

\* New users join everyone, unless a run ended between the creation of that
\* group and the call that makes it the default.
EveryoneUnlessInterrupted ==
    complete => \/ <<"default", "everyone">> \in made
                \/ interrupted \cap {<<"group", "everyone">>, <<"default", "everyone">>} # {}

\* An administrator that the script created has the group and the roles that
\* go with it, unless a run ended between the two.
AdminUnlessInterrupted ==
    complete /\ <<"user", "phadmin">> \in made =>
        \/ {DefaultSteps[i] : i \in 1..7} \subseteq made
        \/ interrupted \cap {DefaultSteps[i] : i \in DOMAIN DefaultSteps} # {}

\* A password the administrator has chosen is only ever reset by a run that
\* could not count the users.
PasswordKept ==
    [][password = "changed" /\ password' # "changed" => blind]_vars

\* Wherever a run ended, the runs after it get to the end once they are
\* answered: nothing a run leaves behind makes the next one fail for good.
NeverWedged == (pc # 0) ~> complete

\* bootstrap.sh: "Idempotent update the keycloak": a run that completes leaves
\* the realm as one run on a new Keycloak does.
EveryoneIsDefault == complete => <<"default", "everyone">> \in made

\* bootstrap.sh: the default resources are "only triggered when no user in the
\* realm": there is no phadmin yet when they are begun.
DefaultsOnlyWhenNoUser ==
    At(<<"user", "phadmin">>) => <<"user", "phadmin">> \notin made
=============================================================================
