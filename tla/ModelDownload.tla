---------------------------- MODULE ModelDownload ----------------------------
(***************************************************************************)
(* The container that fetches a model before a deployment serves it        *)
(* (apps/mlflow-model-downloader).  Its entry point ends with exit 0, so   *)
(* however downloader.py ends, the server is started.  A container that is *)
(* killed is started again on the volume it had, a new pod on a new one.   *)
(***************************************************************************)
EXTENDS Integers

CONSTANTS
    Pod,         \* deployments
    MaxLosses    \* bound: downloads that fail, containers that are killed

ASSUME ModelDownloadAssumption == MaxLosses \in Nat

VARIABLES
    setting,    \* what each pod is given: a model uri, MLFLOW_TRACKING_URI
    volume,     \* OUTPUT_PATH of each pod
    loader,     \* where its container is
    losses,
    unseen      \* history: pods whose downloader has ended badly, with exit 0

loadVars == <<setting, volume, loader, losses, unseen>>

LoadInit ==
    /\ setting \in [Pod -> [uri : BOOLEAN, tracking : BOOLEAN]]
    /\ volume = [p \in Pod |-> "empty"]
    /\ loader = [p \in Pod |-> "start"]
    /\ losses = 0 /\ unseen = {}

Loses == losses < MaxLosses /\ losses' = losses + 1
Becomes(p, step) == loader' = [loader EXCEPT ![p] = step]

\* Mutated form of Declines: a missing tracking uri ends like a success.
DeclinesQuietly(p) ==
    /\ loader[p] = "start" /\ ~(setting[p].uri /\ setting[p].tracking)
    /\ Becomes(p, "exited")
    /\ unseen' = unseen \cup (IF setting[p].uri THEN {} ELSE {p})
    /\ UNCHANGED <<setting, volume, losses>>

\* No argument, or get_tracking_uri raises.
Declines(p) ==
    /\ loader[p] = "start" /\ ~(setting[p].uri /\ setting[p].tracking)
    /\ Becomes(p, "exited")
    /\ unseen' = unseen \cup {p}
    /\ UNCHANGED <<setting, volume, losses>>

\* get_output_path, and the first file of the model.
Fetch(p) ==
    /\ loader[p] = "start" /\ setting[p].uri /\ setting[p].tracking
    /\ Becomes(p, "fetch")
    /\ volume' = [volume EXCEPT ![p] = IF @ = "whole" THEN @ ELSE "part"]
    /\ UNCHANGED <<setting, losses, unseen>>

\* _download_artifact_from_uri has come to its end; wait_for_exit.
Fetched(p) ==
    /\ loader[p] = "fetch"
    /\ Becomes(p, "sleep")
    /\ volume' = [volume EXCEPT ![p] = "whole"]
    /\ UNCHANGED <<setting, losses, unseen>>

FetchFails(p) ==
    /\ loader[p] = "fetch" /\ Loses
    /\ Becomes(p, "exited")
    /\ unseen' = unseen \cup {p}
    /\ UNCHANGED <<setting, volume>>

Slept(p) ==
    /\ loader[p] = "sleep"
    /\ Becomes(p, "exited")
    /\ UNCHANGED <<setting, volume, losses, unseen>>

\* A killed container has no exit status of the script.
LoaderKilled(p) ==
    /\ loader[p] \in {"fetch", "sleep"} /\ Loses
    /\ Becomes(p, "start")
    /\ UNCHANGED <<setting, volume, unseen>>

\* The init container is done; the server starts.
Serve(p) ==
    /\ loader[p] = "exited"
    /\ Becomes(p, "serves")
    /\ UNCHANGED <<setting, volume, losses, unseen>>

\* The pod is gone, and another one is made with a volume of its own.
Replaced(p) ==
    /\ loader[p] = "serves"
    /\ Becomes(p, "start")
    /\ volume' = [volume EXCEPT ![p] = "empty"]
    /\ unseen' = unseen \ {p}
    /\ UNCHANGED <<setting, losses>>

LoadNext ==
    \E p \in Pod :
        \/ Declines(p) \/ Fetch(p) \/ Fetched(p) \/ FetchFails(p) \/ Slept(p)
        \/ LoaderKilled(p) \/ Serve(p) \/ Replaced(p)

LoadSpec == LoadInit /\ [][LoadNext]_loadVars

-----------------------------------------------------------------------------
(* Properties.                                                             *)

LoadTypeOK ==
    /\ setting \in [Pod -> [uri : BOOLEAN, tracking : BOOLEAN]]
    /\ volume \in [Pod -> {"empty", "part", "whole"}]
    /\ loader \in [Pod -> {"start", "fetch", "sleep", "exited", "serves"}]
    /\ losses \in 0..MaxLosses /\ unseen \subseteq Pod

\* A server has all of its model, also after its downloader was killed and began
\* again, unless the downloader has ended badly: its exit 0 says nothing of that.
ServesWholeModel ==
    \A p \in Pod : loader[p] = "serves" => volume[p] = "whole" \/ p \in unseen
=============================================================================
