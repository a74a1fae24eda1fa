--------------------------- MODULE IsolatedSpawn ---------------------------
(***************************************************************************)
(* What a spawn promises its user: the pod appears in one step, and it is  *)
(* one of the pods the user's own groups, roles and requests allow.  Other *)
(* users do not occur in it.                                               *)
(***************************************************************************)
CONSTANTS User,
          PodsOf(_),   \* PodsOf(u): the pods u is entitled to
          NoPod

VARIABLE pods

Init == pods = [u \in User |-> NoPod]

Launch(u) ==
    /\ pods[u] = NoPod
    /\ \E p \in PodsOf(u) : pods' = [pods EXCEPT ![u] = p]

Retire(u) == pods' = [pods EXCEPT ![u] = NoPod]

Next == \E u \in User : Launch(u) \/ Retire(u)

Spec == Init /\ [][Next]_pods
=============================================================================
