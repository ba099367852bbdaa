---------------------------- MODULE MXJobStatus ----------------------------
(***************************************************************************)
(* The status of an MXJob (pkg/apis/ava/v1alpha1/types.go) and the pure    *)
(* functions of pkg/mx/handler.go and pkg/mx/util.go that compute it from  *)
(* a list of pods.                                                         *)
(*                                                                         *)
(* A status is abstracted to what the controller and its users tell apart. *)
(*  - The list of conditions holds at most one entry per type (setCondition *)
(*    filters the old one out), and each type is always written with the    *)
(*    same reason: it is a function from condition types to the entry's     *)
(*    status, "None" where there is no entry.  Times and messages are left  *)
(*    out.                                                                  *)
(*  - StartTime and CompletionTime are reduced to whether they are set.     *)
(*  - A nil *MXReplicaStatus is a status whose counters are zero.           *)
(***************************************************************************)
EXTENDS Integers, FiniteSets

CONSTANTS Replicas,   \* *spec.Replicas of every replica type
          MaxPods     \* bound: pods of a type that can ever be created

\* MXReplicaType
RType == {"scheduler", "server", "worker"}

\* The CRD (deploy/crd_templ.yaml) requires the three replica specs and at
\* least one replica of each.
ASSUME ReplicasAssumption == Replicas \in [RType -> Nat \ {0}]
ASSUME MaxPodsAssumption == MaxPods \in Nat

-----------------------------------------------------------------------------
(* Pods, as far as the controller looks at them. *)

\* The pods of a type, numbered as they are created; no name is used twice.
PodId == 1 .. MaxPods

\* "Running" stands for every phase but the two final ones: the controller
\* does not tell Pending, Running and Unknown apart.
Phase == {"None", "Running", "Succeeded", "Failed"}

\* "unborn": not created yet; "hidden": created, but left uninitialized by a
\* create call that timed out, so that List does not return it;
\* "terminating": its DeletionTimestamp is set; "gone": removed.
Life == {"unborn", "hidden", "live", "terminating", "gone"}

Pod == [phase : Phase, life : Life]

NoPod == [phase |-> "None", life |-> "unborn"]

NoPods == [t \in RType |-> [i \in PodId |-> NoPod]]

\* k8s.io/kubernetes/pkg/controller.IsPodActive
IsPodActive(pod) == /\ pod.life = "live"
                    /\ pod.phase \notin {"Succeeded", "Failed"}

\* The pods of a list that match a replica type: list[t], where the entries
\* that List did not return are NoPod.
filterPodsForMXReplicaType(list, t) == {i \in PodId : list[t][i] # NoPod}

FilterActivePods(list, t) == {i \in PodId : IsPodActive(list[t][i])}

filterPods(list, t, phase) == {i \in PodId : list[t][i].phase = phase}

-----------------------------------------------------------------------------
(* Conditions. *)

ConditionType == {"Created", "Initialized", "Running", "Succeeded", "Failed"}

ConditionStatus == {"None", "True", "False"}

MXReplicaStatus == [active : Int, succeeded : Int, failed : Int, gone : Int]

MXJobStatusType ==
    [cond : [ConditionType -> ConditionStatus],
     startTime : BOOLEAN, completionTime : BOOLEAN,
     replicas : [RType -> MXReplicaStatus]]

ZeroReplicaStatus == [active |-> 0, succeeded |-> 0, failed |-> 0, gone |-> 0]

\* The status of an MXJob that no controller has looked at.
NewStatus == [cond |-> [c \in ConditionType |-> "None"],
              startTime |-> FALSE, completionTime |-> FALSE,
              replicas |-> [t \in RType |-> ZeroReplicaStatus]]

checkCondition(status, c) == status.cond[c] = "True"

\* An entry with the same status and reason is left alone; any other one is
\* replaced: in both cases the type ends up with the given status.
setCondition(status, c, s) == [status EXCEPT !.cond[c] = s]

updateMXJobConditions(status, c) == setCondition(status, c, "True")

updateMXJobFalseConditions(status, c) ==
    IF status.cond[c] \in {"None", "False"} THEN status
                                            ELSE setCondition(status, c, "False")

IsJobSucceed(status) == checkCondition(status, "Succeeded")

IsJobFailed(status) == checkCondition(status, "Failed")

IsJobFinished(status) == IsJobSucceed(status) \/ IsJobFailed(status)

-----------------------------------------------------------------------------
(* From the pods listed to the status. *)

\* Mutation of Missing: only active pods count.
MissingActive(list, t) == Replicas[t] - Cardinality(FilterActivePods(list, t))

\* diff in reconcilePods: every listed pod counts, whatever its phase.
Missing(list, t) == Replicas[t] - Cardinality(filterPodsForMXReplicaType(list, t))

\* The replica status reconcilePods writes once the missing pods have been
\* created (creating) or given up (an initialized job).
replicaStatus(list, t, initialized) ==
    LET diff == IF Missing(list, t) > 0 THEN Missing(list, t) ELSE 0
    IN  [active    |-> Cardinality(FilterActivePods(list, t))
                         + (IF initialized THEN 0 ELSE diff),
         succeeded |-> Cardinality(filterPods(list, t, "Succeeded")),
         failed    |-> Cardinality(filterPods(list, t, "Failed")),
         gone      |-> IF initialized THEN diff ELSE 0]

\* Mutation of updateWorkerStatus: an earlier Failed is not taken back.
workerStatusNoReset(status) ==
    IF Replicas["worker"] - status.replicas["worker"].succeeded = 0
    THEN updateMXJobConditions([status EXCEPT !.completionTime = TRUE], "Succeeded")
    ELSE status

\* Mutation of updateWorkerStatus: no running worker is taken for success.
workerStatusNoneActive(status) ==
    IF status.replicas["worker"].active = 0
    THEN updateMXJobFalseConditions(updateMXJobConditions(status, "Succeeded"), "Failed")
    ELSE status

\* The worker part of updateMXJobStatus: start time, Running, and, when no
\* more worker is expected, completion time, Succeeded and Failed reset.
updateWorkerStatus(status) ==
    LET rs      == status.replicas["worker"]
        started == [status EXCEPT !.startTime = @ \/ rs.active = Replicas["worker"]]
        running == IF rs.active > 0 THEN updateMXJobConditions(started, "Running")
                                    ELSE started
    IN  IF Replicas["worker"] - rs.succeeded = 0
        THEN updateMXJobFalseConditions(
                 updateMXJobConditions([running EXCEPT !.completionTime = TRUE],
                                       "Succeeded"),
                 "Failed")
        ELSE running

updateMXJobStatus(status, t) ==
    LET updated == IF t = "worker" THEN updateWorkerStatus(status) ELSE status
        rs      == status.replicas[t]
    IN  IF (rs.failed > 0 \/ rs.gone > 0) /\ ~IsJobSucceed(updated)
        THEN updateMXJobConditions(updated, "Failed")
        ELSE updated

\* The status after reconcilePods has dealt with the replicas of type t.
statusAfter(status, list, t) ==
    updateMXJobStatus(
        [status EXCEPT !.replicas[t] =
            replicaStatus(list, t, checkCondition(status, "Initialized"))], t)

\* Mutation of terminatedStatus: Active is not taken down.
terminatedStatusActive(status, list) ==
    [status EXCEPT !.replicas = [t \in RType |->
        [status.replicas[t] EXCEPT !.gone = @ + Cardinality(FilterActivePods(list, t))]]]

\* terminateMXJob moves every active pod of the list from Active to Gone.
terminatedStatus(status, list) ==
    LET num(t) == Cardinality(FilterActivePods(list, t))
    IN  [status EXCEPT !.replicas = [t \in RType |->
            [status.replicas[t] EXCEPT !.gone = @ + num(t), !.active = @ - num(t)]]]
=============================================================================
