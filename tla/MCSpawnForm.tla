---------------------------- MODULE MCSpawnForm ----------------------------
(* Two groups, a GPU type that selects its nodes, a private image, two tabs. *)
EXTENDS SpawnForm, TLC

CONSTANTS lab, dev, cpu, gpu, base, own, r1, r2

Names == {lab, dev, "everyone"}
TwoTypes == {cpu, gpu}
TwoImages == {base, own}
GpuType == {gpu}
PrivateImage == {own}
TwoRequests == {r1, r2}

\* One of two groups is given the GPU type and its own image, or loses them
\* again; a user with no group but everyone.
SmallContexts ==
    LET common == [types |-> {cpu}, images |-> {base}]
        nothing == [types |-> {}, images |-> {}]
        more == [types |-> {gpu}, images |-> {own}]
    IN  {lab :> more @@ dev :> nothing @@ "everyone" :> common,
         lab :> nothing @@ "everyone" :> common,
         "everyone" :> common}

Symmetry == Permutations(TwoRequests)
=============================================================================
