----------------------------- MODULE Quickstart -----------------------------
(***************************************************************************)
(* The example notebooks deploy a model by the SDK, test it and clean up.  *)
(* Several users of one group run them: the deployments belong to the      *)
(* group.  A notebook's cells are run in any order, and a kernel that is   *)
(* restarted forgets its variables.  The cell that waits for a deployment  *)
(* changes nothing, and is part of the one that creates it; a call of the  *)
(* SDK that fails leaves its cell to be run again.                         *)
(***************************************************************************)
EXTENDS Integers

CONSTANTS
    Student,      \* users of the group
    Notebook,     \* the notebook each of them runs
    MaxRounds     \* bound: creations by each of them

VARIABLES
    deployments,    \* of the group: a set of [id, by]
    kernel,         \* the cell that comes next, deployment["id"] and ENDPOINT
    rounds,
    forgotten       \* history: ids that a student made and no variable holds

labVars == <<deployments, kernel, rounds, forgotten>>

Cell == {"first", "create", "endpoint", "last", "end"}

\* SAVED_DIR of the two notebooks of the quick start: the folder itself is the id.
SavedDir ==
    [tensorflow2 |-> "~/phfs/example-models/tensorflow2",
     pytorch |-> "~/phfs/example-models/pytorch"]

\* The notebooks, from the cell that deletes to the one that cleans up: what the
\* id of the deployment is made of, and which cell follows which.
TensorFlow2Quickstart ==
    [id |-> "folder", folder |-> SavedDir.tensorflow2,
     next |-> [first |-> "create", create |-> "endpoint", endpoint |-> "last", last |-> "end"]]
PyTorchQuickstart ==
    [id |-> "folder", folder |-> SavedDir.pytorch,
     next |-> [first |-> "create", create |-> "endpoint", endpoint |-> "last", last |-> "end"]]
TensorFlow2Mlflow ==
    [id |-> "random", folder |-> "tf2-sdk-quickstart",
     next |-> [first |-> "create", create |-> "endpoint", endpoint |-> "last", last |-> "end"]]
PyTorchMlflow ==
    [id |-> "random", folder |-> "pytorch-sdk-quickstart",
     next |-> [first |-> "create", create |-> "endpoint", endpoint |-> "last", last |-> "end"]]

ASSUME QuickstartAssumption ==
    /\ MaxRounds \in [Student -> Nat]
    /\ Notebook \in [Student ->
          {TensorFlow2Quickstart, PyTorchQuickstart, TensorFlow2Mlflow, PyTorchMlflow}]

\* Random letters are taken to be new ones.
IdOf(u) ==
    IF Notebook[u].id = "folder" THEN <<Notebook[u].folder>>
    ELSE <<Notebook[u].folder, u, rounds[u]>>

Ids == {d.id : d \in deployments}

Following(u, cell) == Notebook[u].next[cell]

Goto(u, cell) == kernel' = [kernel EXCEPT ![u].cell = cell]

LabInit ==
    /\ deployments = {}
    /\ kernel = [u \in Student |-> [cell |-> "first", deployment |-> <<>>, endpoint |-> <<>>]]
    /\ rounds = [u \in Student |-> 0]
    /\ forgotten = [u \in Student |-> {}]

\* delete(list()[0]["id"]), whatever comes first; an error for an empty list.
DeleteFirst(u) ==
    /\ kernel[u].cell = "first"
    /\ \/ deployments = {} /\ UNCHANGED deployments
       \/ \E d \in deployments : deployments' = deployments \ {d}
    /\ Goto(u, Following(u, "first"))
    /\ UNCHANGED <<rounds, forgotten>>

\* create, wait.  With an id that is there it raises, and deployment stays.
Create(u) ==
    /\ kernel[u].cell = "create" /\ rounds[u] < MaxRounds[u]
    /\ rounds' = [rounds EXCEPT ![u] = @ + 1]
    /\ LET id == IdOf(u)
       IN  IF id \in Ids
           THEN Goto(u, Following(u, "create")) /\ UNCHANGED <<deployments, forgotten>>
           ELSE /\ deployments' = deployments \cup {[id |-> id, by |-> u]}
                /\ kernel' = [kernel EXCEPT ![u].cell = Following(u, "create"),
                                           ![u].deployment = id]
                /\ forgotten' = [forgotten EXCEPT ![u] = (@ \cup {kernel[u].deployment}) \ {id}]

\* The deployment is created and the answer is lost: the cell is not done, and no
\* variable holds the id.
CreateUnanswered(u) ==
    /\ kernel[u].cell = "create" /\ rounds[u] < MaxRounds[u]
    /\ rounds' = [rounds EXCEPT ![u] = @ + 1]
    /\ IdOf(u) \notin Ids
    /\ deployments' = deployments \cup {[id |-> IdOf(u), by |-> u]}
    /\ forgotten' = [forgotten EXCEPT ![u] = (@ \cup {IdOf(u)}) \ {kernel[u].deployment}]
    /\ UNCHANGED kernel

\* Mutated form of Endpoint: the first of the list, as at the beginning.
EndpointOfList(u) ==
    /\ kernel[u].cell = "endpoint"
    /\ \/ deployments = {} /\ Goto(u, Following(u, "endpoint"))
       \/ \E d \in deployments :
             kernel' = [kernel EXCEPT ![u].cell = Following(u, "endpoint"),
                                      ![u].endpoint = <<d.by>>]
    /\ UNCHANGED <<deployments, rounds, forgotten>>

\* get(deployment["id"])["endpoint"]: without the variable or the deployment it
\* raises, and the environment variable stays.
Endpoint(u) ==
    /\ kernel[u].cell = "endpoint"
    /\ \/ /\ kernel[u].deployment \notin Ids
          /\ Goto(u, Following(u, "endpoint"))
       \/ \E d \in deployments :
             /\ d.id = kernel[u].deployment
             /\ kernel' = [kernel EXCEPT ![u].cell = Following(u, "endpoint"),
                                         ![u].endpoint = <<d.by>>]
    /\ UNCHANGED <<deployments, rounds, forgotten>>

\* Mutated form of DeleteLast: the first of the list, as at the beginning.
DeleteLastOfList(u) ==
    /\ kernel[u].cell = "last"
    /\ \/ deployments = {} /\ UNCHANGED deployments
       \/ \E d \in deployments : deployments' = deployments \ {d}
    /\ Goto(u, Following(u, "last"))
    /\ UNCHANGED <<rounds, forgotten>>

\* delete(deployment["id"]).
DeleteLast(u) ==
    /\ kernel[u].cell = "last"
    /\ deployments' = {d \in deployments : d.id # kernel[u].deployment}
    /\ Goto(u, Following(u, "last"))
    /\ UNCHANGED <<rounds, forgotten>>

\* Another cell is chosen.
Rerun(u) ==
    /\ \E cell \in Cell \ {"end"} : Goto(u, cell)
    /\ UNCHANGED <<deployments, rounds, forgotten>>

KernelRestart(u) ==
    /\ kernel' = [kernel EXCEPT ![u] = [cell |-> "first", deployment |-> <<>>, endpoint |-> <<>>]]
    /\ forgotten' = [forgotten EXCEPT ![u] = @ \cup {kernel[u].deployment}]
    /\ UNCHANGED <<deployments, rounds>>

LabNext ==
    \E u \in Student :
        \/ DeleteFirst(u) \/ Create(u) \/ Endpoint(u) \/ DeleteLast(u)
        \/ CreateUnanswered(u) \/ Rerun(u) \/ KernelRestart(u)

LabSpec == LabInit /\ [][LabNext]_labVars

-----------------------------------------------------------------------------
(* Properties.                                                             *)

LabTypeOK ==
    /\ \A d \in deployments : d.by \in Student
    /\ \A u \in Student :
          /\ kernel[u].cell \in Cell
          /\ rounds[u] \in 0..MaxRounds[u]

\* A student tests a deployment of their own, whatever the others delete and
\* create meanwhile: unless the id is that of a folder and another student of the
\* group has run the notebook of the same folder.
EndpointIsOwn ==
    \A u, v \in Student : kernel[u].endpoint = <<v>> /\ v # u =>
        Notebook[u].id = "folder" /\ Notebook[v] = Notebook[u]

\* After the last cell nothing of a student is left in the group, but for ids that
\* a restart of the kernel, a second creation or a lost answer took from them.
LastCellLeavesNothing ==
    \A u \in Student : kernel[u].cell = "end" =>
        \A d \in deployments : d.by = u => d.id \in forgotten[u]
=============================================================================
