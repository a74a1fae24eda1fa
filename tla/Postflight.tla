----------------------------- MODULE Postflight -----------------------------
(***************************************************************************)
(* The post-flight check of an installation (install/postflight-check): it *)
(* compares what the cluster has with lists of what it should have, and    *)
(* tries jobs, datasets, a GPU and an app.  A test that fails is put down  *)
(* and the run goes on; what a test does not catch ends the run without a  *)
(* report.  Several runs share one cluster, and the id of their dataset.   *)
(***************************************************************************)
EXTENDS Integers, Sequences, FiniteSets

CONSTANTS
    Runner,       \* runs of the check
    Counted,      \* kinds that are only counted: secrets, volumes
    Named,        \* kinds whose entries are looked at, too
    Kinds,        \* the order of the kinds
    Basic,        \* the list of each kind: a sequence of names
    Name, Answer, \* names in the cluster; the answers and options of a run
    MaxTroubles,  \* bound: calls that fail, runs that are killed
    MaxEdits      \* bound: changes of the cluster by others

Kind == Counted \cup Named

ASSUME PostflightAssumption ==
    /\ MaxTroubles \in Nat /\ MaxEdits \in Nat
    /\ Counted \cap Named = {}
    /\ Kinds \in Seq(Kind) /\ Kinds # <<>>
    /\ \A K \in Kind : Basic[K] \in Seq(Name)
    /\ Answer \subseteq [grafana : BOOLEAN, ce : BOOLEAN, gpu : BOOLEAN, app : BOOLEAN]
    /\ Answer # {}

Goal(K) == {Basic[K][i] : i \in DOMAIN Basic[K]}

\* Every kind has its turn, and its list names nothing twice.
ASSUME ListsAssumption ==
    /\ \A K \in Kind : \E j \in DOMAIN Kinds : Kinds[j] = K
    /\ IsFiniteSet(Name)
    /\ \A K \in Kind : Cardinality(Goal(K)) = Len(Basic[K])

VARIABLES
    cluster,    \* the names of each kind
    dataset,    \* who created test-dataset: <<>> or <<run>>
    apps,       \* the runs whose app is there
    jobs,       \* jobs[r]: the tests of r whose job is there
    check,      \* each run: its step, place in Kinds and Basic, errors, answers
    troubles, edits,
    blame       \* history: what may excuse the outcome of a run

checkVars == <<cluster, dataset, apps, jobs, check, troubles, edits, blame>>

Excuses == {"call", "cluster", "edit", "other run", "left dataset", "gpu"}
CheckSteps == {"idle", "list", "get", "grafana", "job", "jobLog", "create", "upload",
               "read", "delete", "gpu", "gpuLog", "appCreate", "appRead", "appDelete",
               "ok", "alarm", "aborted"}
Ended == {"idle", "ok", "alarm", "aborted"}

On(r, step) == check[r].step = step

\* The step after step, by the answers: testing_function_list, apps_testing.
After(r, step) ==
    LET a == check[r].answers
        app == IF a.app THEN "appCreate" ELSE "report"
        gpu == IF a.gpu THEN "gpu" ELSE app
        job == IF a.ce THEN "create" ELSE "job"
    IN  CASE step = "list" -> IF a.grafana THEN "grafana" ELSE job
          [] step = "grafana" -> job
          [] step = "job" -> "create"
          [] step = "delete" -> gpu
          [] step = "gpu" -> app
          [] step = "appDelete" -> "report"

\* testing_error; log_information_report says OK when there was none.
Proceed(r, step, wrong) ==
    LET errors == check[r].errors \/ wrong
    IN  check' = [check EXCEPT ![r].errors = errors,
             ![r].step = IF step # "report" THEN step ELSE IF errors THEN "alarm" ELSE "ok"]

NextKind(r, wrong) ==
    IF check[r].kind < Len(Kinds)
    THEN check' = [check EXCEPT ![r].step = "list", ![r].kind = @ + 1,
                                ![r].errors = @ \/ wrong]
    ELSE Proceed(r, After(r, "list"), wrong)

\* Mutated form of NextName: the entries of every kind are looked at.
NextNameOfAny(r, i, wrong) ==
    LET K == Kinds[check[r].kind]
    IN  IF i <= Len(Basic[K])
        THEN check' = [check EXCEPT ![r].step = "get", ![r].at = i, ![r].errors = @ \/ wrong]
        ELSE NextKind(r, wrong)

\* The entries of a kind, one after the other.
NextName(r, i, wrong) ==
    LET K == Kinds[check[r].kind]
    IN  IF K \in Named /\ i <= Len(Basic[K])
        THEN check' = [check EXCEPT ![r].step = "get", ![r].at = i, ![r].errors = @ \/ wrong]
        ELSE NextKind(r, wrong)

Blame(r, excuse) == blame' = [blame EXCEPT ![r] = @ \cup {excuse}]

\* A call that fails.
Trouble(r) == troubles < MaxTroubles /\ troubles' = troubles + 1 /\ Blame(r, "call")

Smooth == UNCHANGED <<troubles, blame>>

CheckInit ==
    /\ cluster = [K \in Kind |-> Goal(K)]
    /\ dataset = <<>> /\ apps = {} /\ jobs = [r \in Runner |-> {}]
    /\ check = [r \in Runner |-> [step |-> "idle", kind |-> 1, at |-> 1, errors |-> FALSE,
                                  answers |-> CHOOSE a \in Answer : TRUE]]
    /\ troubles = 0 /\ edits = 0
    /\ blame = [r \in Runner |-> {}]

\* What the lists are for: the kinds that are looked at have the entries of their
\* lists and no others, the rest as many.
AsExpected ==
    /\ \A K \in Named : cluster[K] = Goal(K)
    /\ \A K \in Counted : Cardinality(cluster[K]) = Cardinality(Goal(K))

Working(r) == check[r].step \notin Ended

\* main: a configuration that is not ready is logged, and the tests go on.  Of what
\* an earlier run has left only the dataset is there to be met: the ids of apps and
\* of jobs are new each time, and jobs and apps are those of a runner's last run.
Start(r) ==
    /\ ~Working(r)
    /\ \E a \in Answer :
          check' = [check EXCEPT ![r] = [step |-> "list", kind |-> 1, at |-> 1,
                                         errors |-> FALSE, answers |-> a]]
    /\ blame' = [q \in Runner |->
          IF q # r THEN blame[q] \cup (IF Working(q) THEN {"other run"} ELSE {})
          ELSE {e \in {"left dataset", "cluster", "other run"} :
                  \/ e = "left dataset" /\ dataset # <<>>
                  \/ e = "cluster" /\ ~AsExpected
                  \/ e = "other run" /\ \E p \in Runner : Working(p)}]
    /\ apps' = apps \ {r} /\ jobs' = [jobs EXCEPT ![r] = {}]
    /\ UNCHANGED <<cluster, dataset, troubles, edits>>

\* More or fewer entries than the list has.
Miscounted(K) == Cardinality(cluster[K]) # Len(Basic[K])

\* The list of a kind and its length.
ListKind(r) ==
    /\ On(r, "list")
    /\ \/ NextName(r, 1, Miscounted(Kinds[check[r].kind])) /\ Smooth
       \/ NextName(r, 1, TRUE) /\ Trouble(r)
    /\ UNCHANGED <<cluster, dataset, apps, jobs, edits>>

\* check_sdk_name: what a name of the list gives is not of that name, or nothing.
Misnamed(K, i) == Basic[K][i] \notin cluster[K]

\* get, check_sdk_name.
GetName(r) ==
    /\ On(r, "get")
    /\ LET K == Kinds[check[r].kind]
           i == check[r].at
       IN  \/ NextName(r, i + 1, Misnamed(K, i)) /\ Smooth
           \/ NextName(r, i + 1, TRUE) /\ Trouble(r)
    /\ UNCHANGED <<cluster, dataset, apps, jobs, edits>>

Abort(r) == check' = [check EXCEPT ![r].step = "aborted"]

\* grafana_testing: the request is outside of the try.
Grafana(r) ==
    /\ On(r, "grafana")
    /\ \/ Proceed(r, After(r, "grafana"), FALSE) /\ Smooth
       \/ Proceed(r, After(r, "grafana"), TRUE) /\ Trouble(r)
       \/ Abort(r) /\ Trouble(r)
    /\ UNCHANGED <<cluster, dataset, apps, jobs, edits>>

\* The job of a test stays: neither test has a call that deletes it.
WithJob(r, test) == [jobs EXCEPT ![r] = @ \cup {test}]

\* jobs_testing: submit.
SubmitJob(r) ==
    /\ On(r, "job")
    /\ \/ jobs' = WithJob(r, "job") /\ Proceed(r, "jobLog", FALSE) /\ Smooth
       \/ jobs' \in {jobs, WithJob(r, "job")} /\ Proceed(r, "create", TRUE) /\ Trouble(r)
    /\ UNCHANGED <<cluster, dataset, apps, edits>>

\* wait, logs; the first line of an empty log is not caught.
JobLog(r) ==
    /\ On(r, "jobLog")
    /\ \/ Proceed(r, "create", FALSE) /\ Smooth
       \/ Proceed(r, "create", TRUE) /\ Trouble(r)
       \/ Abort(r) /\ Trouble(r)
    /\ UNCHANGED <<cluster, dataset, apps, jobs, edits>>

\* datasets_testing: its four calls.  A call whose answer is lost has been done.
CreateDataset(r) ==
    /\ On(r, "create")
    /\ \/ /\ dataset = <<>> /\ dataset' = <<r>>
          /\ \/ Proceed(r, "upload", FALSE) /\ Smooth
             \/ Proceed(r, "upload", TRUE) /\ Trouble(r)
       \/ dataset # <<>> /\ UNCHANGED dataset /\ Proceed(r, "upload", TRUE) /\ Smooth
       \/ UNCHANGED dataset /\ Proceed(r, "upload", TRUE) /\ Trouble(r)
    /\ UNCHANGED <<cluster, apps, jobs, edits>>

Upload(r) ==
    /\ On(r, "upload")
    /\ \/ Proceed(r, "read", dataset = <<>>) /\ Smooth
       \/ Proceed(r, "read", TRUE) /\ Trouble(r)
    /\ UNCHANGED <<cluster, dataset, apps, jobs, edits>>

\* An empty answer is put down as an error, and then its name is looked for; an
\* exception leaves the dataset where it is.
ReadDataset(r) ==
    /\ On(r, "read")
    /\ \/ dataset # <<>> /\ Proceed(r, "delete", FALSE) /\ Smooth
       \/ dataset = <<>> /\ (Abort(r) \/ Proceed(r, After(r, "delete"), TRUE)) /\ Smooth
       \/ Proceed(r, After(r, "delete"), TRUE) /\ Trouble(r)
    /\ UNCHANGED <<cluster, dataset, apps, jobs, edits>>

\* Mutated form of DeleteDataset: a deletion that fails is not put down.
DeleteDatasetQuietly(r) ==
    /\ On(r, "delete")
    /\ \/ dataset' = <<>> /\ Proceed(r, After(r, "delete"), FALSE) /\ Smooth
       \/ UNCHANGED dataset /\ Proceed(r, After(r, "delete"), FALSE) /\ Trouble(r)
    /\ UNCHANGED <<cluster, apps, jobs, edits>>

DeleteDataset(r) ==
    /\ On(r, "delete")
    /\ \/ dataset' = <<>> /\ Proceed(r, After(r, "delete"), dataset = <<>>) /\ Smooth
       \/ dataset' \in {dataset, <<>>} /\ Proceed(r, After(r, "delete"), TRUE) /\ Trouble(r)
    /\ UNCHANGED <<cluster, apps, jobs, edits>>

\* gpu_testing: submit.
SubmitGpu(r) ==
    /\ On(r, "gpu")
    /\ \/ jobs' = WithJob(r, "gpu") /\ Proceed(r, "gpuLog", FALSE) /\ Smooth
       \/ /\ jobs' \in {jobs, WithJob(r, "gpu")}
          /\ Proceed(r, After(r, "gpu"), TRUE) /\ Trouble(r)
    /\ UNCHANGED <<cluster, dataset, apps, edits>>

\* A job that is not waited for is put down.  The test never gets past the log:
\* ''.join() of bytes, decode() of a string, or no log_content when logs() failed.
GpuLog(r) ==
    /\ On(r, "gpuLog")
    /\ \/ Abort(r) /\ Blame(r, "gpu") /\ UNCHANGED troubles
       \/ Abort(r) /\ Trouble(r)
       \/ Proceed(r, After(r, "gpu"), TRUE) /\ Trouble(r)
    /\ UNCHANGED <<cluster, dataset, apps, jobs, edits>>

\* apps_testing: an app of its own id.
CreateApp(r) ==
    /\ On(r, "appCreate")
    /\ \/ apps' = apps \cup {r} /\ Proceed(r, "appRead", FALSE) /\ Smooth
       \/ apps' \in {apps, apps \cup {r}} /\ Proceed(r, "report", TRUE) /\ Trouble(r)
    /\ UNCHANGED <<cluster, dataset, jobs, edits>>

ReadApp(r) ==
    /\ On(r, "appRead")
    /\ \/ Proceed(r, "appDelete", FALSE) /\ Smooth
       \/ Proceed(r, "appDelete", TRUE) /\ Trouble(r)
    /\ UNCHANGED <<cluster, dataset, apps, jobs, edits>>

DeleteApp(r) ==
    /\ On(r, "appDelete")
    /\ \/ apps' = apps \ {r} /\ Proceed(r, "report", FALSE) /\ Smooth
       \/ apps' \in {apps, apps \ {r}} /\ Proceed(r, "report", TRUE) /\ Trouble(r)
    /\ UNCHANGED <<cluster, dataset, jobs, edits>>

\* The terminal or the container of a run is gone.
Interrupted(r) ==
    /\ Working(r)
    /\ Abort(r) /\ Trouble(r)
    /\ UNCHANGED <<cluster, dataset, apps, jobs, edits>>

\* Somebody else adds, removes or replaces entries.
Edit(K, names) ==
    /\ edits < MaxEdits /\ edits' = edits + 1
    /\ cluster' = [cluster EXCEPT ![K] = names]
    /\ blame' = [r \in Runner |-> blame[r] \cup (IF Working(r) THEN {"edit"} ELSE {})]
    /\ UNCHANGED <<dataset, apps, jobs, check, troubles>>

CheckNext ==
    \/ \E r \in Runner :
          \/ Start(r) \/ Interrupted(r)
          \/ ListKind(r) \/ GetName(r) \/ Grafana(r) \/ SubmitJob(r) \/ JobLog(r)
          \/ CreateDataset(r) \/ Upload(r) \/ ReadDataset(r) \/ DeleteDataset(r)
          \/ SubmitGpu(r) \/ GpuLog(r) \/ CreateApp(r) \/ ReadApp(r) \/ DeleteApp(r)
    \/ \E K \in Kind, names \in SUBSET Name : Edit(K, names)

CheckSpec == CheckInit /\ [][CheckNext]_checkVars

-----------------------------------------------------------------------------
(* Properties.                                                             *)

CheckTypeOK ==
    /\ cluster \in [Kind -> SUBSET Name]
    /\ dataset = <<>> \/ \E r \in Runner : dataset = <<r>>
    /\ apps \subseteq Runner /\ jobs \in [Runner -> SUBSET {"job", "gpu"}]
    /\ check \in [Runner -> [step : CheckSteps, kind : DOMAIN Kinds, at : Nat,
                             errors : BOOLEAN, answers : Answer]]
    /\ \A r \in Runner : On(r, "get") => check[r].at \in DOMAIN Basic[Kinds[check[r].kind]]
    /\ troubles \in 0..MaxTroubles /\ edits \in 0..MaxEdits
    /\ blame \in [Runner -> SUBSET Excuses]

\* A report that says OK hides nothing: no call of its run has failed, the cluster
\* was as its lists say unless others changed it meanwhile, and its dataset and app
\* are gone.  What the run leaves is the job of jobs_testing, which nothing deletes,
\* on every installation but a community edition; never one of the GPU test, which
\* no run survives that gets OK.
OkMeansAllWell ==
    \A r \in Runner : On(r, "ok") =>
        /\ "call" \notin blame[r]
        /\ "cluster" \in blame[r] => "edit" \in blame[r]
        /\ "left dataset" \in blame[r] => "other run" \in blame[r]
        /\ dataset # <<r>> /\ r \notin apps
        /\ jobs[r] = IF check[r].answers.ce THEN {} ELSE {"job"}

\* No false alarm: a report with errors has one of the known causes, and a run
\* ends without any report only by a failure, by the GPU test, which can do
\* nothing else, or by another run that takes its dataset away.
NoIdleAlarm ==
    \A r \in Runner :
        /\ On(r, "alarm") => blame[r] # {}
        /\ On(r, "aborted") => blame[r] \cap {"call", "gpu", "other run"} # {}
=============================================================================
