----------------------------- MODULE MCPreSpawn -----------------------------
(* ann and bob have working groups.  cyd has a broken dataset: a spawn that *)
(* is given it raises, one that is not gets a pod.  The shared volume of a   *)
(* group of dan has no capacity: all of dan's spawns raise.                  *)
EXTENDS PreSpawn

TwoUsers == {"ann", "bob"}
BadUsers == {"cyd", "dan"}
MCGroup == {"everyone", "alpha", "beta"}
BadGroupsToo == {"everyone", "alpha", "gamma", "delta"}
MCProject == Group
OneDataset == {"models"}
GoodDatasets == {"models", "code"}
BadDatasetToo == {"models", "broken"}
MCProjectOf == [g \in Group |-> g]

MCCr == [d \in Dataset |->
    CASE d = "models" -> [type |-> "pv", launchGroupOnly |-> TRUE,
                          homeSymlink |-> TRUE, complete |-> TRUE]
      [] d = "code" -> [type |-> "git", launchGroupOnly |-> FALSE,
                        homeSymlink |-> FALSE, complete |-> TRUE]
      [] d = "broken" -> [type |-> "pv", launchGroupOnly |-> FALSE,
                          homeSymlink |-> TRUE, complete |-> FALSE]]

GroupWith(name, capacity, own, datasets) ==
    [name |-> name, enabledSharedVolume |-> name # "everyone",
     capacity |-> capacity, homeSymlink |-> name # "beta",
     launchGroupOnly |-> own, datasets |-> datasets]

EveryoneGroup == GroupWith("everyone", 0, TRUE, <<>>)
Alpha == GroupWith("alpha", 10, TRUE,
                   [d \in {"models"} \cap Dataset |-> [global |-> FALSE, writable |-> TRUE]])
Beta  == GroupWith("beta", 10, FALSE,
                   [d \in {"models", "code"} \cap Dataset |->
                       [global |-> d = "code", writable |-> TRUE]])
Gamma == GroupWith("gamma", 10, FALSE,
                   [d \in {"broken"} \cap Dataset |-> [global |-> FALSE, writable |-> TRUE]])
Delta == GroupWith("delta", 0, FALSE, <<>>)

MCGroups == [u \in User |->
    CASE u = "ann" -> <<EveryoneGroup, Alpha, Beta>>
      [] u = "bob" -> <<EveryoneGroup, Beta>>
      [] u = "cyd" -> <<EveryoneGroup, Alpha, Gamma>>
      [] u = "dan" -> <<EveryoneGroup, Alpha, Delta>>]
MCRoles == [u \in User |->
    CASE u = "ann" -> {"models", "code"} \cap Dataset
      [] u = "bob" -> {"code"} \cap Dataset
      [] u = "cyd" -> {"models", "broken"} \cap Dataset
      [] u = "dan" -> {"models"} \cap Dataset]
=============================================================================
