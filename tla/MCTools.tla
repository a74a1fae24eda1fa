------------------------------- MODULE MCTools -------------------------------
(* What a tool around the system may hide behind its success: the images of  *)
(* two releases over one cache, two runs of the post-flight check over one   *)
(* cluster, two deployments with their downloaders, three students with the  *)
(* example notebooks.  The tools share no state, so a behaviour is one of    *)
(* either: their interleavings add nothing.                                  *)
EXTENDS ImageCache, Postflight, ModelDownload, Quickstart, TLC

CONSTANTS ia, ib, ic, iz, ie, r1, r2, c1, c2, d1, d2, s1, s2, s3

VARIABLE tool

Of(group, image) == [group |-> group, image |-> image]

\* One image twice in a group and in two groups, and one that does not split: the
\* second release asks for its group, and comes to nothing.
MCList == <<Of("g1", ia), Of("g1", ib), Of("g1", ia), Of("g2", ia), Of("g3", iz)>>
MCCommit ==
    {[used |-> {ia, ib}, tagged |-> TRUE], [used |-> {ia, ic, iz}, tagged |-> TRUE],
     [used |-> {ie}, tagged |-> TRUE], [used |-> {ia}, tagged |-> FALSE]}
MCSelected == [r \in {r1, r2} |-> IF r = r1 THEN {"g1", "g2"} ELSE {"g1", "g2", "g3"}]
MCInside == {<<ia, ia>>, <<ib, ib>>, <<ic, ic>>, <<iz, iz>>, <<ie, ie>>, <<ic, ib>>}

MCKinds == <<"group", "secret">>
MCBasic == [K \in {"group", "secret"} |-> IF K = "group" THEN <<"n1", "n2">> ELSE <<"n1">>]
MCAnswer ==
    {[grafana |-> TRUE, ce |-> FALSE, gpu |-> FALSE, app |-> TRUE],
     [grafana |-> FALSE, ce |-> TRUE, gpu |-> TRUE, app |-> FALSE]}

\* Two students share a folder, and one of their creations may find its id taken.
MCNotebook ==
    [u \in {s1, s2, s3} |-> IF u = s3 THEN TensorFlow2Mlflow ELSE TensorFlow2Quickstart]
MCRounds == [u \in {s1, s2, s3} |-> IF u = s3 THEN 2 ELSE 1]

\* The runs of the check are alike, and so are the students of one notebook.
ToolsSymmetry == Permutations({c1, c2}) \cup Permutations({s1, s2})

MCInit ==
    /\ CacheInit /\ CheckInit /\ LoadInit /\ LabInit
    /\ tool \in {"release", "check", "model", "notebook"}
    /\ tool # "release" => commit = [used |-> {ie}, tagged |-> TRUE]
    /\ tool # "model" => \A p \in Pod : setting[p].uri /\ setting[p].tracking

MCNext ==
    /\ UNCHANGED tool
    /\ \/ tool = "release" /\ CacheNext /\ UNCHANGED <<checkVars, loadVars, labVars>>
       \/ tool = "check" /\ CheckNext /\ UNCHANGED <<cacheVars, loadVars, labVars>>
       \/ tool = "model" /\ LoadNext /\ UNCHANGED <<cacheVars, checkVars, labVars>>
       \/ tool = "notebook" /\ LabNext /\ UNCHANGED <<cacheVars, checkVars, loadVars>>

MCSpec == MCInit /\ [][MCNext]_<<tool, cacheVars, checkVars, loadVars, labVars>>

\* The type invariants of the tools.
TypeOK == CacheTypeOK /\ CheckTypeOK /\ LoadTypeOK /\ LabTypeOK
=============================================================================
