----------------------------- MODULE MCHubPages -----------------------------
(* Fifteen users of whom one comes and goes, two to a page: eight pages with   *)
(* one user on the last, or seven full ones, the most that the bar shows whole.*)
(* Beside it the usage of groups: three names that a careless label would      *)
(* confuse, two pods of two containers.  The two pages share no state, so a    *)
(* behaviour is one of either: their interleavings would add nothing.          *)
EXTENDS AdminPage, GroupUsage

CONSTANTS pod1, pod2

VARIABLE shown

FifteenUsers == 1..15
TwoAdmins == {2, 9}
AllButThree == FifteenUsers \ {3}
OneStarter == {3}

Ask(p, size, sort, order) ==
    [page |-> p, perPage |-> size, sort |-> sort, order |-> order]

MCRequest ==
    {Ask(0, 0, <<>>, <<>>), Ask(4, 0, <<>>, <<>>), Ask(11, 0, <<>>, <<>>),
     Ask(0, 5, <<>>, <<>>), Ask(2, 5, <<>>, <<>>), Ask(0, 20, <<>>, <<>>),
     Ask(0, 0, <<"running">>, <<"asc">>), Ask(0, 5, <<"bad", "name">>, <<"bad", "desc">>),
     Ask(0, 0, <<"bad", "bad">>, <<>>), Ask(0, 0, <<>>, <<"bad", "bad">>)}

SafeOnes == {"a", "b", "1", "2", "4", "d"}
Digits == [c \in {"A", "-"} |-> IF c = "A" THEN <<"4", "1">> ELSE <<"2", "d">>]
Names == {<<"A">>, <<"a">>, <<"-", "4", "1">>}
TwoPods == {pod1, pod2}

\* A pod's name only tells it from the other one.
PodSymmetry == Permutations(TwoPods)

Amount(n, u) == [number |-> n, unit |-> u]
NoGpu == [k \in {} |-> 0]
OneGpu == [k \in {"amd"} |-> 1]
TwoKinds == [k \in {"nvidia", "intel"} |-> 2]

Limits(cpu, memory, gpu) == <<[cpu |-> cpu, memory |-> memory, gpu |-> gpu]>>

MCContainer ==
    {<<>>,
     Limits(Amount(500, "m"), Amount(9, "M"), OneGpu),
     Limits(Amount(2, ""), Amount(3, "G"), TwoKinds),
     Limits(Amount(250, "m"), Amount(1, "Gi"), NoGpu),
     Limits(Amount(1, ""), Amount(1, "Ti"), NoGpu)}

MCInit == AdminInit /\ UsageInit /\ shown \in {"admin", "groups"}

MCNext ==
    /\ UNCHANGED shown
    /\ \/ shown = "admin" /\ AdminNext /\ UNCHANGED pods
       \/ shown = "groups" /\ UsageNext /\ UNCHANGED adminVars

MCSpec == MCInit /\ [][MCNext]_<<adminVars, pods, shown>>
=============================================================================
