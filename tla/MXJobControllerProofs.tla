----------------------- MODULE MXJobControllerProofs -----------------------
(***************************************************************************)
(* Proofs about the controller for every number of replicas, every set of  *)
(* webhooks, every environment and every bound.                            *)
(***************************************************************************)
EXTENDS MXJobController, FiniteSetTheorems, TLAPS

\* A leaf that names no prover goes to Zenon, which is quick where a leaf only
\* puts facts together, and then to the SMT solver: no proof hangs on the speed
\* of one machine.  Leaves that need arithmetic or sequences name the latter.
USE ZenonT(10), SMTT(30), SMTT(60)

-----------------------------------------------------------------------------
(* Facts about the operators of MXJobStatus, for every list of pods and      *)
(* every number of replicas: what the functions that compute a status keep   *)
(* of it.                                                                    *)

\* A status in which Succeeded and Failed are both true.
BothFinal(status) == IsJobSucceed(status) /\ IsJobFailed(status)

\* The numbers of pods are natural numbers.
LEMMA CountTyped ==
    ASSUME NEW S, S \subseteq PodId
    PROVE  Cardinality(S) \in Nat
<1>1. IsFiniteSet(PodId)
  BY MaxPodsAssumption, FS_Interval DEF PodId
<1>2. QED
  BY <1>1, FS_Subset, FS_CardinalityType

\* diff, the number of pods reconcilePods misses, is an integer.
LEMMA MissingTyped ==
    ASSUME NEW list, NEW t \in RType
    PROVE  Missing(list, t) \in Int
  BY ReplicasAssumption, CountTyped DEF Missing, filterPodsForMXReplicaType

\* setCondition changes the entry of its type and nothing else.
LEMMA SetCondition ==
    ASSUME NEW status \in MXJobStatusType, NEW c \in ConditionType, NEW s \in ConditionStatus
    PROVE  /\ setCondition(status, c, s) \in MXJobStatusType
           /\ setCondition(status, c, s).cond[c] = s
           /\ \A d \in ConditionType \ {c} : setCondition(status, c, s).cond[d] = status.cond[d]
           /\ setCondition(status, c, s).replicas = status.replicas
  BY DEF setCondition, MXJobStatusType

\* updateMXJobConditions sets its condition and leaves the others.
LEMMA SetTrue ==
    ASSUME NEW status \in MXJobStatusType, NEW c \in ConditionType
    PROVE  /\ updateMXJobConditions(status, c) \in MXJobStatusType
           /\ updateMXJobConditions(status, c).cond[c] = "True"
           /\ \A d \in ConditionType \ {c} :
                  updateMXJobConditions(status, c).cond[d] = status.cond[d]
           /\ updateMXJobConditions(status, c).replicas = status.replicas
  BY SetCondition DEF updateMXJobConditions, ConditionStatus

\* After updateMXJobFalseConditions its condition is not true; the others are
\* as they were.
LEMMA SetFalse ==
    ASSUME NEW status \in MXJobStatusType, NEW c \in ConditionType
    PROVE  /\ updateMXJobFalseConditions(status, c) \in MXJobStatusType
           /\ updateMXJobFalseConditions(status, c).cond[c] # "True"
           /\ \A d \in ConditionType \ {c} :
                  updateMXJobFalseConditions(status, c).cond[d] = status.cond[d]
           /\ updateMXJobFalseConditions(status, c).replicas = status.replicas
  BY SetCondition, SMTT(30) DEF updateMXJobFalseConditions, ConditionStatus

\* The worker part of updateMXJobStatus ends with Succeeded and without Failed,
\* or leaves both as they were; Succeeded takes as many succeeded workers as
\* there are replicas.  It touches neither Initialized nor counters.
LEMMA WorkerStatus ==
    ASSUME NEW status \in MXJobStatusType
    PROVE  LET after == updateWorkerStatus(status) IN
           /\ after \in MXJobStatusType
           /\ after.cond["Initialized"] = status.cond["Initialized"]
           /\ after.replicas = status.replicas
           /\ \/ /\ after.cond["Succeeded"] = "True" /\ after.cond["Failed"] # "True"
                 /\ Replicas["worker"] - status.replicas["worker"].succeeded = 0
              \/ /\ after.cond["Succeeded"] = status.cond["Succeeded"]
                 /\ after.cond["Failed"] = status.cond["Failed"]
                 /\ Replicas["worker"] - status.replicas["worker"].succeeded # 0
<1> DEFINE rs      == status.replicas["worker"]
           started == [status EXCEPT !.startTime = @ \/ rs.active = Replicas["worker"]]
           running == IF rs.active > 0 THEN updateMXJobConditions(started, "Running")
                                       ELSE started
           timed   == [running EXCEPT !.completionTime = TRUE]
           won     == updateMXJobConditions(timed, "Succeeded")
<1> USE DEF ConditionType
<1>1. /\ started \in MXJobStatusType /\ started.cond = status.cond
      /\ started.replicas = status.replicas
  BY Zenon DEF MXJobStatusType
<1> HIDE DEF started
<1>2. /\ running \in MXJobStatusType /\ running.replicas = status.replicas
      /\ \A c \in {"Initialized", "Succeeded", "Failed"} : running.cond[c] = status.cond[c]
  BY <1>1, SetTrue, SMTT(30)
<1> HIDE DEF running
<1>3. /\ timed \in MXJobStatusType /\ timed.cond = running.cond
      /\ timed.replicas = running.replicas
  BY <1>2, Zenon DEF MXJobStatusType
<1> HIDE DEF timed
<1>4. /\ won \in MXJobStatusType /\ won.replicas = status.replicas
      /\ won.cond["Succeeded"] = "True"
      /\ won.cond["Initialized"] = status.cond["Initialized"]
  BY <1>2, <1>3, SetTrue, SMTT(30)
<1> HIDE DEF won
<1>5. /\ updateMXJobFalseConditions(won, "Failed") \in MXJobStatusType
      /\ updateMXJobFalseConditions(won, "Failed").cond["Failed"] # "True"
      /\ updateMXJobFalseConditions(won, "Failed").cond["Succeeded"] = "True"
      /\ updateMXJobFalseConditions(won, "Failed").cond["Initialized"] = status.cond["Initialized"]
      /\ updateMXJobFalseConditions(won, "Failed").replicas = status.replicas
  BY <1>4, SetFalse, SMTT(30)
<1>6. updateWorkerStatus(status) =
         IF Replicas["worker"] - rs.succeeded = 0
         THEN updateMXJobFalseConditions(won, "Failed") ELSE running
  BY DEF updateWorkerStatus, won, timed, running, started
<1>7. QED
  BY <1>2, <1>5, <1>6

\* updateMXJobStatus never makes both final conditions true, and never takes
\* Initialized away.
LEMMA UpdateStatus ==
    ASSUME NEW status \in MXJobStatusType, NEW t \in RType
    PROVE  LET after == updateMXJobStatus(status, t) IN
           /\ after \in MXJobStatusType
           /\ after.cond["Initialized"] = status.cond["Initialized"]
           /\ after.replicas = status.replicas
           /\ ~BothFinal(status) => ~BothFinal(after)
           /\ IsJobSucceed(after) =>
                \/ IsJobSucceed(status)
                \/ t = "worker" /\ Replicas["worker"] - status.replicas["worker"].succeeded = 0
<1> DEFINE updated == IF t = "worker" THEN updateWorkerStatus(status) ELSE status
           rs      == status.replicas[t]
<1> USE DEF ConditionType, BothFinal, IsJobSucceed, IsJobFailed, checkCondition
<1>1. /\ updated \in MXJobStatusType
      /\ updated.cond["Initialized"] = status.cond["Initialized"]
      /\ updated.replicas = status.replicas
      /\ ~BothFinal(status) => ~BothFinal(updated)
      /\ IsJobSucceed(updated) =>
           \/ IsJobSucceed(status)
           \/ t = "worker" /\ Replicas["worker"] - status.replicas["worker"].succeeded = 0
  BY WorkerStatus
<1> HIDE DEF updated
<1>2. /\ updateMXJobConditions(updated, "Failed") \in MXJobStatusType
      /\ updateMXJobConditions(updated, "Failed").cond["Initialized"] = status.cond["Initialized"]
      /\ updateMXJobConditions(updated, "Failed").cond["Succeeded"] = updated.cond["Succeeded"]
      /\ updateMXJobConditions(updated, "Failed").replicas = status.replicas
  BY <1>1, SetTrue, SMTT(30)
<1>3. updateMXJobStatus(status, t) =
         IF (rs.failed > 0 \/ rs.gone > 0) /\ ~IsJobSucceed(updated)
         THEN updateMXJobConditions(updated, "Failed") ELSE updated
  BY DEF updateMXJobStatus, updated
<1>4. QED
  BY <1>1, <1>2, <1>3

\* The counters reconcilePods computes from a list of pods are integers.
LEMMA ReplicaStatusTyped ==
    ASSUME NEW list, NEW t \in RType, NEW initialized \in BOOLEAN
    PROVE  replicaStatus(list, t, initialized) \in MXReplicaStatus
<1>1. /\ Missing(list, t) \in Int
      /\ Cardinality(FilterActivePods(list, t)) \in Nat
      /\ Cardinality(filterPods(list, t, "Succeeded")) \in Nat
      /\ Cardinality(filterPods(list, t, "Failed")) \in Nat
  BY MissingTyped, CountTyped DEF FilterActivePods, filterPods
<1>2. QED
  BY <1>1 DEF replicaStatus, MXReplicaStatus

\* The same of reconcilePods as a whole: it keeps a status well formed, keeps
\* Initialized, and never makes a job both succeeded and failed, whatever pods
\* are listed.  It makes a job succeeded only if all the workers listed are.
LEMMA StatusAfter ==
    ASSUME NEW status \in MXJobStatusType, NEW list, NEW t \in RType
    PROVE  LET after == statusAfter(status, list, t) IN
           /\ after \in MXJobStatusType
           /\ after.cond["Initialized"] = status.cond["Initialized"]
           /\ after.replicas = [status.replicas EXCEPT ![t] =
                                    replicaStatus(list, t, checkCondition(status, "Initialized"))]
           /\ ~BothFinal(status) => ~BothFinal(after)
           /\ IsJobSucceed(after) =>
                \/ IsJobSucceed(status)
                \/ /\ t = "worker"
                   /\ Cardinality(filterPods(list, "worker", "Succeeded")) = Replicas["worker"]
<1> DEFINE rs      == replicaStatus(list, t, checkCondition(status, "Initialized"))
           counted == [status EXCEPT !.replicas[t] = rs]
<1>1. rs \in MXReplicaStatus
  BY ReplicaStatusTyped, Zenon DEF checkCondition
<1>2. rs.succeeded = Cardinality(filterPods(list, t, "Succeeded"))
  BY DEF replicaStatus
<1> HIDE DEF rs
<1>3. /\ counted \in MXJobStatusType /\ counted.cond = status.cond
      /\ counted.replicas = [status.replicas EXCEPT ![t] = rs]
      /\ counted.replicas[t] = rs
  BY <1>1 DEF MXJobStatusType
<1>4. statusAfter(status, list, t) = updateMXJobStatus(counted, t)
  BY DEF statusAfter, counted, rs
<1> HIDE DEF counted
<1>5. /\ ~BothFinal(status) => ~BothFinal(counted)
      /\ IsJobSucceed(counted) <=> IsJobSucceed(status)
  BY <1>3 DEF BothFinal, IsJobSucceed, IsJobFailed, checkCondition
<1>6. t = "worker" /\ Replicas["worker"] - counted.replicas["worker"].succeeded = 0 =>
         Cardinality(filterPods(list, "worker", "Succeeded")) = Replicas["worker"]
  <2>1. /\ Cardinality(filterPods(list, t, "Succeeded")) \in Nat
        /\ Replicas[t] \in Nat
    BY CountTyped, ReplicasAssumption DEF filterPods
  <2>2. QED
    BY <1>2, <1>3, <2>1, SMTT(30)
<1> DEFINE after == updateMXJobStatus(counted, t)
<1>7. /\ after \in MXJobStatusType
      /\ after.cond["Initialized"] = counted.cond["Initialized"]
      /\ after.replicas = counted.replicas
      /\ ~BothFinal(counted) => ~BothFinal(after)
      /\ IsJobSucceed(after) =>
           \/ IsJobSucceed(counted)
           \/ t = "worker" /\ Replicas["worker"] - counted.replicas["worker"].succeeded = 0
  BY <1>3, UpdateStatus, Zenon
<1> HIDE DEF after
<1>8. /\ after.cond["Initialized"] = status.cond["Initialized"]
      /\ after.replicas = [status.replicas EXCEPT ![t] = rs]
      /\ ~BothFinal(status) => ~BothFinal(after)
  BY <1>3, <1>5, <1>7
<1>9. IsJobSucceed(after) =>
         \/ IsJobSucceed(status)
         \/ /\ t = "worker"
            /\ Cardinality(filterPods(list, "worker", "Succeeded")) = Replicas["worker"]
  BY <1>5, <1>6, <1>7
<1>10. QED
  BY <1>4, <1>7, <1>8, <1>9, Zenon DEF after, rs

\* reconcilePods makes a job failed only if it counts a failed or a gone pod.
\* Where all the workers listed succeeded, its worker part ends with Succeeded,
\* and takes back what the other parts made of their pods.
LEMMA FailedAfter ==
    ASSUME NEW status \in MXJobStatusType, NEW list, NEW t \in RType
    PROVE  LET after == statusAfter(status, list, t)
               rs    == replicaStatus(list, t, checkCondition(status, "Initialized"))
           IN
           /\ IsJobFailed(after) => IsJobFailed(status) \/ rs.failed > 0 \/ rs.gone > 0
           /\ t = "worker" /\ rs.succeeded = Replicas["worker"] => ~IsJobFailed(after)
<1> DEFINE rs      == replicaStatus(list, t, checkCondition(status, "Initialized"))
           counted == [status EXCEPT !.replicas[t] = rs]
           updated == IF t = "worker" THEN updateWorkerStatus(counted) ELSE counted
<1>1. rs \in MXReplicaStatus
  BY ReplicaStatusTyped, Zenon DEF checkCondition
<1> HIDE DEF rs
<1>2. /\ counted \in MXJobStatusType /\ counted.cond = status.cond
      /\ counted.replicas[t] = rs
  BY <1>1 DEF MXJobStatusType
<1>3. statusAfter(status, list, t) =
         IF (rs.failed > 0 \/ rs.gone > 0) /\ ~IsJobSucceed(updated)
         THEN updateMXJobConditions(updated, "Failed") ELSE updated
  BY <1>2, Zenon DEF statusAfter, updateMXJobStatus, updated, counted, rs
<1> HIDE DEF counted
<1>4. /\ updated \in MXJobStatusType
      /\ IsJobFailed(updated) => IsJobFailed(status)
      /\ t = "worker" /\ rs.succeeded = Replicas["worker"] =>
             IsJobSucceed(updated) /\ ~IsJobFailed(updated)
  <2>1. CASE t = "worker"
    <3> DEFINE worked == updateWorkerStatus(counted)
    <3>1. /\ worked \in MXJobStatusType
          /\ \/ /\ worked.cond["Succeeded"] = "True" /\ worked.cond["Failed"] # "True"
             \/ /\ worked.cond["Failed"] = counted.cond["Failed"]
                /\ Replicas["worker"] - counted.replicas["worker"].succeeded # 0
      BY <1>2, WorkerStatus, Zenon
    <3>2. updated = worked
      BY <2>1
    <3> HIDE DEF worked, updated
    <3>3. rs.succeeded = Replicas["worker"] =>
             Replicas["worker"] - counted.replicas["worker"].succeeded = 0
      BY <1>2, <2>1, ReplicasAssumption, SMTT(30) DEF RType
    <3>4. QED
      BY <1>2, <2>1, <3>1, <3>2, <3>3 DEF IsJobFailed, IsJobSucceed, checkCondition
  <2>2. CASE t # "worker"
    BY <1>2, <2>2 DEF IsJobFailed, checkCondition
  <2>3. QED
    BY <2>1, <2>2
<1> HIDE DEF updated
<1>5. QED
  BY <1>3, <1>4, Zenon DEF rs

\* terminateMXJob changes counters only.
LEMMA TerminatedStatus ==
    ASSUME NEW status \in MXJobStatusType, NEW list
    PROVE  /\ terminatedStatus(status, list) \in MXJobStatusType
           /\ terminatedStatus(status, list).cond = status.cond
<1> DEFINE num(t) == Cardinality(FilterActivePods(list, t))
           moved(t) == [status.replicas[t] EXCEPT !.gone = @ + num(t), !.active = @ - num(t)]
<1>1. \A t \in RType : num(t) \in Nat
  BY CountTyped DEF FilterActivePods
<1>2. \A t \in RType : status.replicas[t] \in MXReplicaStatus
  BY DEF MXJobStatusType
<1> HIDE DEF num
<1>3. \A t \in RType : moved(t) \in MXReplicaStatus
  <2> SUFFICES ASSUME NEW t \in RType, NEW rs \in MXReplicaStatus, NEW n \in Nat
               PROVE  [rs EXCEPT !.gone = @ + n, !.active = @ - n] \in MXReplicaStatus
    BY <1>1, <1>2, Zenon
  <2>1. rs.gone + n \in Int /\ rs.active - n \in Int
    BY DEF MXReplicaStatus
  <2>2. QED
    BY <2>1, Zenon DEF MXReplicaStatus
<1> HIDE DEF moved
<1>4. terminatedStatus(status, list) = [status EXCEPT !.replicas = [t \in RType |-> moved(t)]]
  BY DEF terminatedStatus, moved, num
<1>5. QED
  BY <1>3, <1>4, SMTT(30) DEF MXJobStatusType

-----------------------------------------------------------------------------
(* The inductive invariant. *)

\* What is known of the copy a sync works on: it was taken from a version of
\* the log that was not finished, and no part of a sync makes it both succeeded
\* and failed.  Until initializeMXJob it is initialized exactly if that version
\* was; behind it, it is, and it is finished when its pods are terminated.
Copy ==
    pc # "idle" =>
        /\ mxjob.rv \in 1 .. Len(log)
        /\ ~IsJobFinished(log[mxjob.rv].status)
        /\ ~BothFinal(mxjob.status)
        /\ IF pc \in {"terminate", "update"}
           THEN checkCondition(mxjob.status, "Initialized")
           ELSE mxjob.status.cond["Initialized"] = log[mxjob.rv].status.cond["Initialized"]
        /\ pc = "terminate" => IsJobFinished(mxjob.status)

ControllerInv == TypeOK /\ Copy /\ NotBothFinal /\ FinishedFrozen

-----------------------------------------------------------------------------
\* The log is never empty, so that there is a current version.
LEMMA CurrentVersion ==
    ASSUME TypeOK
    PROVE  /\ Len(log) \in Nat /\ Len(log) >= 1
           /\ Current \in Version
           /\ \A i \in 1 .. Len(log) : log[i] \in Version /\ log[i].status \in MXJobStatusType
<1>1. Len(log) \in Nat /\ Len(log) >= 1 /\ \A i \in 1 .. Len(log) : log[i] \in Version
  BY SMTT(30) DEF TypeOK
<1>2. QED
  BY <1>1, SMTT(30) DEF Current, Version

\* A write leaves the earlier versions as they are and adds one.
LEMMA AppendVersion ==
    ASSUME TypeOK, NEW v \in Version, log' = Append(log, v)
    PROVE  /\ log' \in Seq(Version) /\ log' # << >>
           /\ Len(log) \in Nat /\ Len(log') \in Nat /\ Len(log') = Len(log) + 1
           /\ \A i \in 1 .. Len(log) : log'[i] = log[i]
           /\ log'[Len(log) + 1] = v
  BY SMTT(30) DEF TypeOK

\* A status no controller has looked at is well formed.
LEMMA NewStatusTyped == NewStatus \in MXJobStatusType
<1>1. ZeroReplicaStatus \in MXReplicaStatus
  BY DEF ZeroReplicaStatus, MXReplicaStatus
<1>2. QED
  BY <1>1 DEF NewStatus, MXJobStatusType, ConditionStatus

\* NoPods is a list of pods.
LEMMA NoPodsTyped == NoPods \in [RType -> [PodId -> Pod]]
  BY DEF NoPods, NoPod, Pod, Phase, Life

\* The end of a sync leaves a well-formed state of the worker.
LEMMA EndSyncTyped ==
    ASSUME EndSync, NEW n \in Nat
    PROVE  /\ pc' = "idle" /\ pc' \in PC
           /\ mxjob' \in [rv : 0 .. n, status : MXJobStatusType]
           /\ listed' \in [RType -> [PodId -> Pod]]
  BY NewStatusTyped, NoPodsTyped, SMTT(30) DEF EndSync, NoJob, PC

\* Adding the Created condition keeps the conditions a job is judged by.
LEMMA CreatedStatus ==
    ASSUME NEW status \in MXJobStatusType
    PROVE  /\ createdStatus(status) \in MXJobStatusType
           /\ \A c \in {"Initialized", "Succeeded", "Failed"} :
                  createdStatus(status).cond[c] = status.cond[c]
  BY SetTrue, SMTT(30) DEF createdStatus, ConditionType

\* callHookAsync adds at most a call of its kind.
LEMMA CallTyped ==
    ASSUME NEW k \in HookKind, callHookAsync(k),
           inflight \in [HookKind -> Nat], launched \subseteq HookKind
    PROVE  /\ inflight' \in [HookKind -> Nat]
           /\ launched' \subseteq HookKind /\ ended' = ended
  BY SMTT(30) DEF callHookAsync

\* Creating pods changes the life and phase of the new ones.
LEMMA CreateTyped ==
    ASSUME NEW t \in RType, NEW S \in SUBSET PodId, NEW H \in SUBSET S, createPods(t, S, H),
           pods \in [RType -> [PodId -> Pod]]
    PROVE  pods' \in [RType -> [PodId -> Pod]]
<1>1. \A i \in PodId : pods[t][i] \in Pod
  OBVIOUS
<1>2. \A l \in {"hidden", "live"} : [phase |-> "Running", life |-> l] \in Pod
  BY DEF Pod, Phase, Life
<1>3. [i \in PodId |-> IF i \in S THEN [phase |-> "Running",
                                         life |-> IF i \in H THEN "hidden" ELSE "live"]
                                  ELSE pods[t][i]] \in [PodId -> Pod]
  BY <1>1, <1>2
<1>4. QED
  BY <1>3 DEF createPods

\* Deleting pods changes their life.
LEMMA DeleteTyped ==
    ASSUME NEW S, deletePods(S), pods \in [RType -> [PodId -> Pod]]
    PROVE  pods' \in [RType -> [PodId -> Pod]]
<1>1. \A t \in RType, i \in PodId :
          pods[t][i] \in Pod /\ [pods[t][i] EXCEPT !.life = "terminating"] \in Pod
  BY SMTT(30) DEF Pod, Life
<1>2. QED
  BY <1>1 DEF deletePods

-----------------------------------------------------------------------------
\* Every action keeps the variables in their sets.
LEMMA TypeStep == TypeOK /\ [Next]_vars => TypeOK'
<1> SUFFICES ASSUME TypeOK, [Next]_vars
             PROVE  TypeOK'
  OBVIOUS
<1> DEFINE PodsType == [RType -> [PodId -> Pod]]
           SyncTyped == /\ pc' \in PC /\ listed' \in PodsType
                        /\ mxjob' \in [rv : 0 .. Len(log), status : MXJobStatusType]
           HooksTyped == /\ inflight' \in [HookKind -> Nat]
                         /\ launched' \subseteq HookKind /\ ended' \subseteq HookKind
<1>0. /\ Len(log) \in Nat /\ Len(log) >= 1
      /\ Current \in Version
      /\ \A i \in 1 .. Len(log) : log[i] \in Version /\ log[i].status \in MXJobStatusType
  BY CurrentVersion
<1>a. EndSync => SyncTyped
  BY <1>0, EndSyncTyped
<1>b. ASSUME NEW where \in PC, Goto(where)
      PROVE  SyncTyped
  BY <1>b DEF Goto, TypeOK
<1>c. UNCHANGED hookVars => HooksTyped
  BY DEF hookVars, TypeOK
<1>d. UNCHANGED syncVars => SyncTyped
  BY DEF syncVars, TypeOK
\* the actions that do not write the job
<1>e. ASSUME UNCHANGED <<log, cacheRV, finalizer>>, SyncTyped, HooksTyped,
             pods' \in PodsType, service' \in Service
      PROVE  TypeOK'
  BY <1>e DEF TypeOK
\* the actions that do
<1>f. ASSUME NEW v \in Version, log' = Append(log, v), UNCHANGED <<pods, service, cacheRV>>,
             SyncTyped, HooksTyped, finalizer' \in {finalizer, NoFinalizer}
      PROVE  TypeOK'
  <2>1. log' \in Seq(Version) /\ log' # << >> /\ Len(log') \in Nat /\ Len(log') = Len(log) + 1
    BY <1>f, AppendVersion
  <2>2. /\ cacheRV' \in 1 .. Len(log')
        /\ finalizer' \in [state : {"none", "calling", "updating"}, rv : 0 .. Len(log')]
    BY <1>0, <1>f, <2>1, SMTT(30) DEF TypeOK, NoFinalizer
  <2>3. mxjob' \in [rv : 0 .. Len(log'), status : MXJobStatusType]
    BY <1>0, <1>f, <2>1, SMTT(30)
  <2>4. QED
    BY <1>f, <2>1, <2>2, <2>3 DEF TypeOK
<1>1. CASE Sync
  <2>1. mxjob' \in [rv : 0 .. Len(log), status : MXJobStatusType]
    BY <1>0, <1>1, CreatedStatus, SMTT(30) DEF Sync, TypeOK
  <2>2. SyncTyped
    BY <1>1, <2>1 DEF Sync, TypeOK, PC
  <2>3. QED
    BY <1>1, <1>c, <1>e, <2>2 DEF Sync, apiVars, TypeOK
<1>2. CASE apiError
  BY <1>2, <1>a, <1>c, <1>e DEF apiError, apiVars, TypeOK
<1>3. CASE getPodsForMXJob
  <2>1. listed' \in PodsType
    BY <1>3, NoPodsTyped, SMTT(30) DEF getPodsForMXJob, TypeOK, NoPod, Pod, Phase, Life
  <2>2. SyncTyped
    BY <1>3, <2>1 DEF getPodsForMXJob, TypeOK, PC, RType
  <2>3. QED
    BY <1>3, <1>c, <1>e, <2>2 DEF getPodsForMXJob, apiVars, TypeOK
<1>4. ASSUME NEW t \in RType, countPods(t)
      PROVE  SyncTyped
  <2>1. nextAfter(t) \in PC
    BY DEF nextAfter, PC, RType
  <2>2. statusAfter(mxjob.status, listed, t) \in MXJobStatusType
    BY StatusAfter, Zenon DEF TypeOK
  <2>3. QED
    BY <1>4, <2>1, <2>2 DEF countPods, TypeOK
<1>5. ASSUME NEW t \in RType, reconcilePods(t)
      PROVE  TypeOK'
  BY <1>4, <1>5, <1>c, <1>e DEF reconcilePods, apiVars, TypeOK
<1>6. ASSUME NEW t \in RType, reconcilePodsCreate(t)
      PROVE  TypeOK'
  <2>1. pods' \in PodsType
    BY <1>6, CreateTyped, Zenon DEF reconcilePodsCreate, TypeOK, Unborn
  <2>2. QED
    BY <1>4, <1>6, <1>c, <1>e, <2>1 DEF reconcilePodsCreate, TypeOK
<1>7. ASSUME NEW t \in RType, reconcilePodsErr(t)
      PROVE  TypeOK'
  <2>1. pods' \in PodsType
    BY <1>7, CreateTyped, Zenon DEF reconcilePodsErr, TypeOK, Unborn
  <2>2. QED
    BY <1>7, <1>a, <1>c, <1>e, <2>1 DEF reconcilePodsErr, TypeOK
<1>8. CASE getServicesForMXJob \/ canAdoptService \/ AdoptService \/ reconcileServices
  <2>1. SyncTyped
    BY <1>8, <1>a, <1>b DEF getServicesForMXJob, canAdoptService, AdoptService,
       reconcileServices, createServices, PC, RType
  <2>2. UNCHANGED <<log, pods, cacheRV, hookVars, finalizer>> /\ service' \in Service
    BY <1>8 DEF getServicesForMXJob, canAdoptService, AdoptService, reconcileServices, createServices,
       apiVars, TypeOK, Service
  <2>3. QED
    BY <1>c, <1>e, <2>1, <2>2 DEF TypeOK
<1>9. CASE initializeMXJob
  <2>1. updateMXJobConditions(mxjob.status, "Initialized") \in MXJobStatusType
    BY SetTrue DEF TypeOK, ConditionType
  <2>2. mxjob' \in [rv : 0 .. Len(log), status : MXJobStatusType]
    BY <1>9, <2>1 DEF initializeMXJob, TypeOK
  <2>3. SyncTyped
    BY <1>9, <2>2, NoPodsTyped DEF initializeMXJob, TypeOK, PC
  <2>4. HooksTyped
    BY <1>9, <1>c, CallTyped DEF initializeMXJob, HookKind, TypeOK
  <2>5. QED
    BY <1>9, <1>e, <2>3, <2>4 DEF initializeMXJob, apiVars, TypeOK
<1>10. CASE terminateMXJob
  <2>1. terminatedStatus(mxjob.status, listed) \in MXJobStatusType
    BY TerminatedStatus DEF TypeOK
  <2>2. SyncTyped
    BY <1>10, <2>1, NoPodsTyped DEF terminateMXJob, TypeOK, PC
  <2>3. HooksTyped
    BY <1>10, CallTyped DEF terminateMXJob, HookKind, TypeOK
  <2>4. pods' \in PodsType
    BY <1>10, DeleteTyped DEF terminateMXJob, TypeOK
  <2>5. QED
    BY <1>10, <1>e, <2>2, <2>3, <2>4 DEF terminateMXJob, TypeOK
<1>11. CASE terminateMXJobErr
  <2>1. pods' \in PodsType
    BY <1>11, DeleteTyped DEF terminateMXJobErr, TypeOK
  <2>2. QED
    BY <1>11, <1>a, <1>c, <1>e, <2>1 DEF terminateMXJobErr, TypeOK
<1>12. CASE updateStatus
  <2>1. CASE log' = log
    BY <1>12, <1>a, <1>c, <1>e, <2>1 DEF updateStatus, TypeOK
  <2>2. CASE log' = Append(log, [Current EXCEPT !.status = mxjob.status])
    <3>1. [Current EXCEPT !.status = mxjob.status] \in Version
      BY <1>0, Zenon DEF Version, TypeOK
    <3>2. QED
      BY <1>12, <1>a, <1>c, <1>f, <2>2, <3>1 DEF updateStatus
  <2>3. QED
    BY <1>12, <2>1, <2>2 DEF updateStatus
<1>13. CASE \E k \in HookKind : hookEnds(k)
  <2>1. HooksTyped
    BY <1>13, SMTT(30) DEF hookEnds, TypeOK
  <2>2. QED
    BY <1>13, <1>d, <1>e, <2>1 DEF hookEnds, apiVars, TypeOK
<1>14. CASE handleMXJobFinalizers
  BY <1>0, <1>14, SMTT(30) DEF handleMXJobFinalizers, apiVars, syncVars, TypeOK, HookKind
<1>15. CASE finalizerHookEnds
  BY <1>0, <1>15 DEF finalizerHookEnds, apiVars, syncVars, TypeOK, HookKind
<1>16. CASE clearFinalizer
  <2>1. [Current EXCEPT !.exists = FALSE, !.finalizer = FALSE] \in Version
    BY <1>0, Zenon DEF Version
  <2>2. QED
    BY <1>16, <1>c, <1>d, <1>f, <2>1 DEF clearFinalizer
<1>17. CASE clearFinalizerErr
  BY <1>0, <1>17, SMTT(30) DEF clearFinalizerErr, NoFinalizer, apiVars, syncVars, hookVars, TypeOK
<1>18. CASE watchEvent \/ relist
  BY <1>0, <1>18, SMTT(30) DEF watchEvent, relist, apiVars, syncVars, hookVars, TypeOK
<1>19. CASE PodStep
  <2>1. PICK t \in RType, i \in PodId :
           podEnds(t, i) \/ podDeleted(t, i) \/ podRemoved(t, i) \/ podInitialized(t, i)
    BY <1>19 DEF PodStep
  <2>2. PICK pod \in Pod : setPod(t, i, pod)
    BY <2>1, SMTT(30) DEF podEnds, podDeleted, podRemoved, podInitialized, TypeOK, Pod, Phase, Life
  <2>3. pods' \in PodsType
    BY <2>2 DEF setPod, TypeOK
  <2>4. QED
    BY <1>c, <1>d, <1>e, <2>2, <2>3 DEF setPod, TypeOK
<1>20. CASE serviceDeleted
  BY <1>20, <1>c, <1>d, <1>e DEF serviceDeleted, Service, TypeOK
<1>21. CASE touchJob \/ deleteJob
  <2>1. PICK v \in Version : userWrites(v)
    BY <1>0, <1>21, Zenon DEF touchJob, deleteJob, Version
  <2>2. QED
    BY <1>c, <1>d, <1>f, <2>1 DEF userWrites
<1>22. CASE crash
  <2>1. SyncTyped /\ UNCHANGED apiVars
    BY <1>22, <1>a DEF crash
  <2>2. QED
    BY <1>0, <1>22, <2>1, SMTT(30) DEF crash, NoFinalizer, apiVars, TypeOK
<1>23. CASE UNCHANGED vars
  BY <1>23, <1>c, <1>d, <1>e DEF vars, apiVars, TypeOK
<1>24. QED
  BY <1>1, <1>2, <1>3, <1>5, <1>6, <1>7, <1>8, <1>9, <1>10, <1>11, <1>12, <1>13, <1>14,
     <1>15, <1>16, <1>17, <1>18, <1>19, <1>20, <1>21, <1>22, <1>23
     DEF Next, SyncStep, HookStep, EnvStep

\* The initial state is well formed.
LEMMA InitTyped == Init => TypeOK
<1>1. ASSUME Init PROVE log \in Seq(Version) /\ log # << >> /\ Len(log) = 1
  BY <1>1, NewStatusTyped, ControllerAssumption DEF Init, Version
<1>2. QED
  BY <1>1, NewStatusTyped, NoPodsTyped, SMTT(30) DEF Init, TypeOK, NoJob, NoFinalizer, Service, PC

\* Type correctness of the controller: in particular the versions that the
\* cache, the copy and the finalizer goroutine hold exist, and the counters of
\* goroutines stay natural numbers.
THEOREM TypeCorrect == Spec => []TypeOK
  BY InitTyped, TypeStep, PTL DEF Spec

-----------------------------------------------------------------------------
\* The inductive step.  A status is written by updateStatus only on top of the
\* version the copy was taken from, and that one was not finished.
LEMMA InvStep == ControllerInv /\ [Next]_vars => ControllerInv'
<1> SUFFICES ASSUME ControllerInv, [Next]_vars
             PROVE  Copy' /\ NotBothFinal' /\ FinishedFrozen'
  BY TypeStep DEF ControllerInv
<1> USE DEF BothFinal, IsJobFinished, IsJobSucceed, IsJobFailed, checkCondition
<1>0. /\ TypeOK /\ Copy /\ NotBothFinal /\ FinishedFrozen
      /\ Len(log) \in Nat /\ Len(log) >= 1
      /\ Current \in Version
      /\ \A i \in 1 .. Len(log) : log[i] \in Version /\ log[i].status \in MXJobStatusType
  BY CurrentVersion DEF ControllerInv
<1>a. log' = log => NotBothFinal' /\ FinishedFrozen'
  BY <1>0 DEF NotBothFinal, FinishedFrozen
<1>b. EndSync => Copy'
  BY DEF EndSync, Copy
<1>c. UNCHANGED log /\ UNCHANGED syncVars => Copy'
  BY <1>0 DEF syncVars, Copy
\* from one call of reconcileMXJobs to the next
<1>d. ASSUME UNCHANGED log, pc \notin {"idle", "terminate", "update"},
             pc' \notin {"terminate", "update"}, mxjob' = mxjob
      PROVE  Copy'
  BY <1>0, <1>d DEF Copy
<1>e. ASSUME NEW v \in Version, log' = Append(log, v), v.status = Current.status, UNCHANGED syncVars
      PROVE  Copy' /\ NotBothFinal' /\ FinishedFrozen'
  <2>1. /\ Len(log') = Len(log) + 1
        /\ \A i \in 1 .. Len(log) : log'[i] = log[i]
        /\ log'[Len(log) + 1] = v
    BY <1>0, <1>e, AppendVersion
  <2>2. Copy'
    BY <1>0, <1>e, <2>1, SMTT(30) DEF Copy, syncVars
  <2>3. NotBothFinal'
    BY <1>0, <1>e, <2>1, SMTT(30) DEF NotBothFinal, Current
  <2>4. FinishedFrozen'
    BY <1>0, <1>e, <2>1, SMTT(30) DEF FinishedFrozen, Current
  <2>5. QED
    BY <2>2, <2>3, <2>4
<1>1. CASE Sync
  <2>1. Copy'
    BY <1>0, <1>1, CreatedStatus DEF Sync, Copy, TypeOK, apiVars
  <2>2. QED
    BY <1>1, <1>a, <2>1 DEF Sync, apiVars
<1>2. CASE apiError
  BY <1>2, <1>a, <1>b DEF apiError, apiVars
<1>3. CASE getPodsForMXJob
  BY <1>3, <1>a, <1>d DEF getPodsForMXJob, apiVars
<1>4. ASSUME NEW t \in RType, countPods(t), pc = t, log' = log
      PROVE  Copy'
  <2> DEFINE after == statusAfter(mxjob.status, listed, t)
  <2>1. /\ ~BothFinal(mxjob.status) => ~BothFinal(after)
        /\ after.cond["Initialized"] = mxjob.status.cond["Initialized"]
    <3>1. mxjob.status \in MXJobStatusType
      BY <1>0 DEF TypeOK
    <3> HIDE DEF BothFinal, IsJobSucceed, IsJobFailed, checkCondition
    <3>2. after.cond["Initialized"] = mxjob.status.cond["Initialized"]
      BY <3>1, StatusAfter, ZenonT(60)
    <3>3. ~BothFinal(mxjob.status) => ~BothFinal(after)
      BY <3>1, StatusAfter, Zenon
    <3>4. QED
      BY <3>2, <3>3
  <2>2. mxjob'.rv = mxjob.rv /\ mxjob'.status = after
    BY <1>0, <1>4 DEF countPods, TypeOK
  <2>3. /\ pc \notin {"idle", "terminate", "update"}
        /\ pc' \notin {"idle", "terminate", "update"}
    BY <1>4 DEF countPods, nextAfter, RType
  <2> HIDE DEF after
  <2>4. QED
    BY <1>0, <1>4, <2>1, <2>2, <2>3 DEF Copy
<1>5. ASSUME NEW t \in RType, reconcilePods(t) \/ reconcilePodsCreate(t)
      PROVE  Copy' /\ NotBothFinal' /\ FinishedFrozen'
  BY <1>4, <1>5, <1>a DEF reconcilePods, reconcilePodsCreate, apiVars
<1>6. ASSUME NEW t \in RType, reconcilePodsErr(t)
      PROVE  Copy' /\ NotBothFinal' /\ FinishedFrozen'
  BY <1>6, <1>a, <1>b DEF reconcilePodsErr
<1>7. CASE getServicesForMXJob \/ canAdoptService \/ AdoptService \/ reconcileServices
  <2>1. log' = log
    BY <1>7 DEF getServicesForMXJob, canAdoptService, AdoptService, reconcileServices, createServices, apiVars
  <2>2. CASE EndSync
    BY <1>a, <1>b, <2>1, <2>2
  <2>3. CASE /\ mxjob' = mxjob /\ pc \notin {"idle", "terminate", "update"}
             /\ pc' \notin {"terminate", "update"}
    BY <1>a, <1>d, <2>1, <2>3
  <2>4. QED
    BY <1>7, <2>2, <2>3 DEF getServicesForMXJob, canAdoptService, AdoptService,
       reconcileServices, createServices, Goto
<1>8. CASE initializeMXJob
  <2> DEFINE init == updateMXJobConditions(mxjob.status, "Initialized")
  <2>1. /\ init.cond["Initialized"] = "True"
        /\ init.cond["Succeeded"] = mxjob.status.cond["Succeeded"]
        /\ init.cond["Failed"] = mxjob.status.cond["Failed"]
    BY <1>0, SetTrue, SMTT(30) DEF TypeOK, ConditionType
  <2>2. mxjob'.rv = mxjob.rv /\ mxjob'.status \in {mxjob.status, init}
        /\ (mxjob'.status = init \/ mxjob.status.cond["Initialized"] = "True")
    BY <1>0, <1>8 DEF initializeMXJob, TypeOK
  <2> HIDE DEF init
  <2>3. Copy'
    BY <1>0, <1>8, <2>1, <2>2 DEF Copy, initializeMXJob, apiVars
  <2>4. QED
    BY <1>8, <1>a, <2>3 DEF initializeMXJob, apiVars
<1>9. CASE terminateMXJob
  <2>1. mxjob'.rv = mxjob.rv /\ mxjob'.status.cond = mxjob.status.cond
    BY <1>0, <1>9, TerminatedStatus DEF terminateMXJob, TypeOK
  <2>2. Copy'
    BY <1>0, <1>9, <2>1 DEF Copy, terminateMXJob
  <2>3. QED
    BY <1>9, <1>a, <2>2 DEF terminateMXJob
<1>10. CASE terminateMXJobErr
  BY <1>10, <1>a, <1>b DEF terminateMXJobErr
<1>11. CASE updateStatus
  <2>1. CASE log' = log
    BY <1>11, <1>a, <1>b, <2>1 DEF updateStatus
  <2>2. CASE accepted(mxjob.rv) /\ log' = Append(log, [Current EXCEPT !.status = mxjob.status])
    <3> DEFINE v == [Current EXCEPT !.status = mxjob.status]
    <3>1. v \in Version /\ v.status = mxjob.status
      BY <1>0, Zenon DEF Version, TypeOK
    <3>2. /\ Len(log') = Len(log) + 1
          /\ \A i \in 1 .. Len(log) : log'[i] = log[i]
          /\ log'[Len(log) + 1] = v
      BY <1>0, <2>2, <3>1, AppendVersion
    <3> HIDE DEF v
    <3>3. ~IsJobFinished(log[Len(log)].status) /\ ~BothFinal(mxjob.status)
      BY <1>0, <1>11, <2>2 DEF Copy, accepted, updateStatus
    <3>4. NotBothFinal'
      BY <1>0, <3>1, <3>2, <3>3 DEF NotBothFinal
    <3>5. \A i \in 1 .. Len(log) : ~IsJobFinished(log[i].status)
      <4>1. ASSUME NEW i \in 1 .. Len(log), i < Len(log), IsJobFinished(log[i].status)
            PROVE  log[Len(log)].status = log[i].status
        <5>1. Len(log) \in 1 .. Len(log)
          BY <1>0
        <5>2. QED
          BY <1>0, <4>1, <5>1 DEF FinishedFrozen
      <4>2. QED
        BY <1>0, <3>3, <4>1
    <3>6. FinishedFrozen'
      BY <1>0, <3>2, <3>5, SMTT(30) DEF FinishedFrozen
    <3>7. QED
      BY <1>11, <1>b, <3>4, <3>6 DEF updateStatus
  <2>3. QED
    BY <1>11, <2>1, <2>2 DEF updateStatus
<1>12. CASE (\E k \in HookKind : hookEnds(k)) \/ handleMXJobFinalizers \/ finalizerHookEnds
            \/ clearFinalizerErr
  BY <1>12, <1>a, <1>c DEF hookEnds, handleMXJobFinalizers, finalizerHookEnds,
     clearFinalizerErr, apiVars
<1>13. CASE clearFinalizer
  <2>1. /\ [Current EXCEPT !.exists = FALSE, !.finalizer = FALSE] \in Version
        /\ [Current EXCEPT !.exists = FALSE, !.finalizer = FALSE].status = Current.status
    BY <1>0, Zenon DEF Version
  <2>2. QED
    BY <1>13, <1>e, <2>1, Zenon DEF clearFinalizer
<1>14. CASE watchEvent \/ relist \/ serviceDeleted
  BY <1>14, <1>a, <1>c DEF watchEvent, relist, serviceDeleted, apiVars
<1>15. CASE PodStep
  <2>1. UNCHANGED log /\ UNCHANGED syncVars
    BY <1>15 DEF PodStep, podEnds, podDeleted, podRemoved, podInitialized, setPod
  <2>2. QED
    BY <1>a, <1>c, <2>1
<1>16. CASE touchJob \/ deleteJob
  <2>1. PICK v \in Version : userWrites(v) /\ v.status = Current.status
    <3>1. /\ [Current EXCEPT !.deleting = TRUE] \in Version
          /\ [Current EXCEPT !.deleting = TRUE].status = Current.status
          /\ [Current EXCEPT !.exists = FALSE] \in Version
          /\ [Current EXCEPT !.exists = FALSE].status = Current.status
      BY <1>0, Zenon DEF Version
    <3>2. CASE touchJob
      BY <1>0, <3>2 DEF touchJob
    <3>3. CASE deleteJob
      BY <3>1, <3>3, Zenon DEF deleteJob
    <3>4. QED
      BY <1>16, <3>2, <3>3
  <2>2. QED
    BY <1>e, <2>1 DEF userWrites
<1>17. CASE crash
  BY <1>17, <1>a, <1>b DEF crash, apiVars
<1>18. CASE UNCHANGED vars
  BY <1>18, <1>a, <1>c DEF vars, apiVars
<1>19. QED
  BY <1>1, <1>2, <1>3, <1>5, <1>6, <1>7, <1>8, <1>9, <1>10, <1>11, <1>12, <1>13, <1>14,
     <1>15, <1>16, <1>17, <1>18 DEF Next, SyncStep, HookStep, EnvStep

\* The inductive invariant holds.
LEMMA InvHolds == Spec => []ControllerInv
<1>1. Init => Copy /\ NotBothFinal /\ FinishedFrozen
  BY SMTT(30) DEF Init, Copy, NotBothFinal, FinishedFrozen, NewStatus, ConditionType,
     IsJobSucceed, IsJobFailed, checkCondition
<1>2. Init => ControllerInv
  BY <1>1, InitTyped DEF ControllerInv
<1>3. QED
  BY <1>2, InvStep, PTL DEF Spec

\* No version of a job is both succeeded and failed, whatever its pods did
\* while updateMXJobStatus looked at the replica types one after the other.
THEOREM NeverBothFinal == Spec => []NotBothFinal
  BY InvHolds, PTL DEF ControllerInv

\* Once a finished status is written, no write of any sync, user or finalizer
\* changes it.
THEOREM FinishedStaysFrozen == Spec => []FinishedFrozen
  BY InvHolds, PTL DEF ControllerInv

-----------------------------------------------------------------------------
(* Nothing is taken back. *)

\* Of two statuses, the later one keeps the conditions of C and the times.
Keeps(C, old, new) ==
    /\ \A c \in C : checkCondition(old, c) => checkCondition(new, c)
    /\ old.startTime => new.startTime
    /\ old.completionTime => new.completionTime

\* The conditions no function of handler.go resets.
Lasting == ConditionType \ {"Failed"}

\* To keep is reflexive.
LEMMA KeepsSelf ==
    ASSUME NEW C, NEW a
    PROVE  Keeps(C, a, a)
  BY Zenon DEF Keeps

\* To keep is transitive.
LEMMA KeepsOrder ==
    ASSUME NEW C, NEW a, NEW b, NEW d, Keeps(C, a, b), Keeps(C, b, d)
    PROVE  Keeps(C, a, d)
  BY Zenon DEF Keeps

\* setCondition keeps the times, and the conditions but its own.
LEMMA SetKeeps ==
    ASSUME NEW status \in MXJobStatusType, NEW c \in ConditionType, NEW s
    PROVE  Keeps(ConditionType \ {c}, status, setCondition(status, c, s))
<1> DEFINE set == setCondition(status, c, s)
<1>1. set.startTime = status.startTime /\ set.completionTime = status.completionTime
  BY Zenon DEF setCondition, MXJobStatusType
<1>2. \A d \in ConditionType \ {c} : set.cond[d] = status.cond[d]
  BY DEF setCondition, MXJobStatusType
<1> HIDE DEF set
<1>3. QED
  BY <1>1, <1>2, Zenon DEF Keeps, checkCondition, set

\* updateMXJobConditions keeps everything.
LEMMA TrueKeeps ==
    ASSUME NEW status \in MXJobStatusType, NEW c \in ConditionType
    PROVE  Keeps(ConditionType, status, updateMXJobConditions(status, c))
<1> DEFINE set == updateMXJobConditions(status, c)
<1>1. Keeps(ConditionType \ {c}, status, set)
  BY SetKeeps DEF updateMXJobConditions
<1>2. checkCondition(set, c)
  BY SetTrue DEF checkCondition
<1> HIDE DEF set
<1>3. QED
  BY <1>1, <1>2, Zenon DEF Keeps, set

\* The worker part of updateMXJobStatus, which sets both times, takes back
\* nothing but Failed.
LEMMA WorkerKeeps ==
    ASSUME NEW status \in MXJobStatusType
    PROVE  Keeps(Lasting, status, updateWorkerStatus(status))
<1> DEFINE rs      == status.replicas["worker"]
           started == [status EXCEPT !.startTime = @ \/ rs.active = Replicas["worker"]]
           running == IF rs.active > 0 THEN updateMXJobConditions(started, "Running")
                                       ELSE started
           timed   == [running EXCEPT !.completionTime = TRUE]
           won     == updateMXJobConditions(timed, "Succeeded")
           reset   == updateMXJobFalseConditions(won, "Failed")
<1>0. /\ "Running" \in ConditionType /\ "Succeeded" \in ConditionType /\ "Failed" \in ConditionType
      /\ Lasting \subseteq ConditionType
  BY DEF ConditionType, Lasting
<1>1. started \in MXJobStatusType /\ Keeps(Lasting, status, started)
  BY Zenon DEF MXJobStatusType, Keeps, checkCondition
<1> HIDE DEF started
<1>2. running \in MXJobStatusType /\ Keeps(Lasting, started, running)
  <2>1. CASE rs.active > 0
    <3>1. running = updateMXJobConditions(started, "Running")
      BY <2>1
    <3>2. Keeps(ConditionType, started, running)
      BY <1>0, <1>1, <3>1, TrueKeeps
    <3>3. QED
      BY <1>0, <1>1, <3>1, <3>2, SetTrue, Zenon DEF Keeps, Lasting
  <2>2. CASE ~(rs.active > 0)
    BY <1>1, <2>2, KeepsSelf
  <2>3. QED
    BY <2>1, <2>2
<1> HIDE DEF running
<1>3. timed \in MXJobStatusType /\ Keeps(Lasting, running, timed)
  BY <1>2, Zenon DEF MXJobStatusType, Keeps, checkCondition
<1> HIDE DEF timed
<1>4. won \in MXJobStatusType /\ Keeps(Lasting, timed, won)
  <2>1. won \in MXJobStatusType /\ Keeps(ConditionType, timed, won)
    BY <1>0, <1>3, SetTrue, TrueKeeps
  <2>2. QED
    BY <1>0, <2>1, Zenon DEF Keeps, Lasting
<1> HIDE DEF won
<1>5. Keeps(Lasting, won, reset)
  <2>1. Keeps(ConditionType \ {"Failed"}, won, setCondition(won, "Failed", "False"))
    BY <1>0, <1>4, SetKeeps
  <2>2. Keeps(Lasting, won, won)
    BY KeepsSelf
  <2>3. QED
    BY <2>1, <2>2, Zenon DEF updateMXJobFalseConditions, Lasting
<1> HIDE DEF reset
<1>6. updateWorkerStatus(status) \in {reset, running}
  BY DEF updateWorkerStatus, reset, won, timed, running, started
<1>7. Keeps(Lasting, status, running)
  BY <1>1, <1>2, KeepsOrder
<1>8. Keeps(Lasting, running, reset)
  <2>1. Keeps(Lasting, running, won)
    BY <1>3, <1>4, KeepsOrder
  <2>2. QED
    BY <1>5, <2>1, KeepsOrder
<1>9. Keeps(Lasting, status, reset)
  BY <1>7, <1>8, KeepsOrder
<1>10. QED
  BY <1>6, <1>7, <1>9

\* Neither does reconcilePods as a whole, whatever pods are listed.
LEMMA AfterKeeps ==
    ASSUME NEW status \in MXJobStatusType, NEW list, NEW t \in RType
    PROVE  Keeps(Lasting, status, statusAfter(status, list, t))
<1> DEFINE rs      == replicaStatus(list, t, checkCondition(status, "Initialized"))
           counted == [status EXCEPT !.replicas[t] = rs]
           updated == IF t = "worker" THEN updateWorkerStatus(counted) ELSE counted
           failed  == updateMXJobConditions(updated, "Failed")
<1>0. "Failed" \in ConditionType /\ Lasting \subseteq ConditionType
  BY DEF ConditionType, Lasting
<1>1. rs \in MXReplicaStatus
  BY ReplicaStatusTyped, Zenon DEF checkCondition
<1>2. statusAfter(status, list, t) \in {updated, failed}
  BY Zenon DEF statusAfter, updateMXJobStatus
<1> HIDE DEF rs
<1>3. counted \in MXJobStatusType /\ counted.cond = status.cond
  BY <1>1 DEF MXJobStatusType
<1>4. counted.startTime = status.startTime /\ counted.completionTime = status.completionTime
  BY Zenon DEF MXJobStatusType
<1> HIDE DEF counted
<1>5. Keeps(Lasting, status, counted)
  BY <1>3, <1>4, Zenon DEF Keeps, checkCondition
<1>6. updated \in MXJobStatusType /\ Keeps(Lasting, counted, updated)
  BY <1>3, WorkerStatus, WorkerKeeps, KeepsSelf
<1> HIDE DEF updated
<1>7. Keeps(ConditionType, updated, failed)
  BY <1>0, <1>6, TrueKeeps
<1> HIDE DEF failed
<1>8. Keeps(Lasting, updated, failed)
  BY <1>0, <1>7, Zenon DEF Keeps, Lasting
<1>9. Keeps(Lasting, status, updated)
  BY <1>5, <1>6, KeepsOrder
<1>10. Keeps(Lasting, status, failed)
  BY <1>8, <1>9, KeepsOrder
<1>11. QED
  BY <1>2, <1>9, <1>10

\* terminateMXJob keeps conditions and times.
LEMMA TerminatedKeeps ==
    ASSUME NEW status \in MXJobStatusType, NEW list
    PROVE  Keeps(Lasting, status, terminatedStatus(status, list))
<1> DEFINE after == terminatedStatus(status, list)
<1>1. after.startTime = status.startTime /\ after.completionTime = status.completionTime
  BY Zenon DEF terminatedStatus, MXJobStatusType
<1>2. after.cond = status.cond
  BY TerminatedStatus
<1> HIDE DEF after
<1>3. QED
  BY <1>1, <1>2, Zenon DEF Keeps, checkCondition, after

\* The copy a sync works on keeps what the version it was taken from says.
CopyGrows == pc # "idle" => Keeps(Lasting, log[mxjob.rv].status, mxjob.status)

\* Every version keeps all that an earlier one says.  This is more than what
\* NothingTakenBack asks: no function of handler.go resets Created or Running
\* either, not even in a job that is finished.
VersionsGrow ==
    \A i, j \in 1 .. Len(log) : i < j => Keeps(ConditionType, log[i].status, log[j].status)

\* A user or the finalizer writes the job with the status it has.
LEMMA SameStatus ==
    ASSUME TypeOK, clearFinalizer \/ touchJob \/ deleteJob
    PROVE  \E v \in Version : /\ v.status = Current.status
                              /\ log' = Append(log, v) /\ UNCHANGED <<pods, syncVars>>
<1>1. Current \in Version
  BY CurrentVersion
<1>2. /\ [Current EXCEPT !.exists = FALSE, !.finalizer = FALSE] \in Version
      /\ [Current EXCEPT !.exists = FALSE, !.finalizer = FALSE].status = Current.status
      /\ [Current EXCEPT !.deleting = TRUE] \in Version
      /\ [Current EXCEPT !.deleting = TRUE].status = Current.status
      /\ [Current EXCEPT !.exists = FALSE] \in Version
      /\ [Current EXCEPT !.exists = FALSE].status = Current.status
  BY <1>1, Zenon DEF Version
<1>3. CASE clearFinalizer
  BY <1>2, <1>3, Zenon DEF clearFinalizer
<1>4. CASE touchJob
  BY <1>1, <1>4, Zenon DEF touchJob, userWrites
<1>5. CASE deleteJob
  BY <1>2, <1>5, Zenon DEF deleteJob, userWrites
<1>6. QED
  BY <1>3, <1>4, <1>5

\* The inductive step.  A sync adds to its copy, and the copy is written only
\* on top of the version it was taken from, which was not failed.
LEMMA GrowsStep ==
    ControllerInv /\ CopyGrows /\ VersionsGrow /\ [Next]_vars => CopyGrows' /\ VersionsGrow'
<1> SUFFICES ASSUME ControllerInv, CopyGrows, VersionsGrow, [Next]_vars
             PROVE  CopyGrows' /\ VersionsGrow'
  OBVIOUS
<1>0. /\ TypeOK /\ Copy
      /\ Len(log) \in Nat /\ Len(log) >= 1
      /\ Current \in Version
      /\ \A i \in 1 .. Len(log) : log[i] \in Version /\ log[i].status \in MXJobStatusType
  BY CurrentVersion DEF ControllerInv
<1>k. \A i, j \in 1 .. Len(log) : i < j => Keeps(ConditionType, log[i].status, log[j].status)
  BY DEF VersionsGrow
<1>a. log' = log => VersionsGrow'
  BY DEF VersionsGrow
<1>b. EndSync => CopyGrows'
  BY DEF EndSync, CopyGrows
<1>c. UNCHANGED log /\ UNCHANGED syncVars => CopyGrows'
  BY DEF syncVars, CopyGrows
<1>d. ASSUME UNCHANGED log, pc # "idle", mxjob' = mxjob
      PROVE  CopyGrows'
  BY <1>d DEF CopyGrows
\* a write whose status keeps what the current one says
<1>e. ASSUME NEW v \in Version, log' = Append(log, v), Keeps(ConditionType, Current.status, v.status)
      PROVE  /\ VersionsGrow'
             /\ UNCHANGED syncVars => CopyGrows'
  <2>1. /\ Len(log') = Len(log) + 1
        /\ \A i \in 1 .. Len(log) : log'[i] = log[i]
        /\ log'[Len(log) + 1] = v
    BY <1>0, <1>e, AppendVersion
  <2>2. ASSUME NEW i \in 1 .. Len(log)
        PROVE  Keeps(ConditionType, log[i].status, v.status)
    <3>1. CASE i = Len(log)
      BY <1>e, <3>1 DEF Current
    <3>2. CASE i < Len(log)
      <4>1. Keeps(ConditionType, log[i].status, Current.status)
        BY <1>0, <1>k, <3>2 DEF Current
      <4>2. QED
        BY <1>e, <4>1, KeepsOrder
    <3>3. QED
      BY <1>0, <3>1, <3>2
  <2>3. ASSUME NEW i \in 1 .. Len(log'), NEW j \in 1 .. Len(log'), i < j
        PROVE  Keeps(ConditionType, log'[i].status, log'[j].status)
    <3>1. i \in 1 .. Len(log) /\ log'[i] = log[i]
      BY <1>0, <2>1, <2>3
    <3>2. CASE j = Len(log) + 1
      BY <2>1, <2>2, <3>1, <3>2
    <3>3. CASE j \in 1 .. Len(log)
      BY <1>k, <2>1, <2>3, <3>1, <3>3
    <3>4. QED
      BY <1>0, <2>1, <3>2, <3>3
  <2>4. VersionsGrow'
    BY <2>3, Zenon DEF VersionsGrow
  <2>5. ASSUME UNCHANGED syncVars
        PROVE  CopyGrows'
    BY <1>0, <2>1, <2>5 DEF CopyGrows, Copy, syncVars
  <2>6. QED
    BY <2>4, <2>5
<1>1. CASE Sync
  <2>1. Keeps(ConditionType, log[cacheRV].status, createdStatus(log[cacheRV].status))
    BY <1>0, TrueKeeps DEF createdStatus, ConditionType, TypeOK
  <2>2. Keeps(Lasting, log[cacheRV].status, createdStatus(log[cacheRV].status))
    BY <2>1, Zenon DEF Keeps, Lasting
  <2>3. CopyGrows'
    BY <1>1, <2>2 DEF Sync, CopyGrows, apiVars
  <2>4. QED
    BY <1>1, <1>a, <2>3 DEF Sync, apiVars
<1>2. CASE apiError
  BY <1>2, <1>a, <1>b DEF apiError, apiVars
<1>3. CASE getPodsForMXJob
  BY <1>3, <1>a, <1>d DEF getPodsForMXJob, apiVars
<1>4. ASSUME NEW t \in RType, countPods(t), pc = t, log' = log
      PROVE  CopyGrows'
  <2>1. Keeps(Lasting, log[mxjob.rv].status, mxjob.status) /\ mxjob.status \in MXJobStatusType
    BY <1>0, <1>4 DEF CopyGrows, RType, TypeOK
  <2>2. Keeps(Lasting, mxjob.status, statusAfter(mxjob.status, listed, t))
    BY <2>1, AfterKeeps
  <2>3. mxjob'.rv = mxjob.rv /\ mxjob'.status = statusAfter(mxjob.status, listed, t)
    BY <1>0, <1>4 DEF countPods, TypeOK
  <2>4. QED
    BY <1>4, <2>1, <2>2, <2>3, KeepsOrder, SMTT(30) DEF CopyGrows
<1>5. ASSUME NEW t \in RType, reconcilePods(t) \/ reconcilePodsCreate(t)
      PROVE  CopyGrows' /\ VersionsGrow'
  BY <1>4, <1>5, <1>a DEF reconcilePods, reconcilePodsCreate, apiVars
<1>6. ASSUME NEW t \in RType, reconcilePodsErr(t)
      PROVE  CopyGrows' /\ VersionsGrow'
  BY <1>6, <1>a, <1>b DEF reconcilePodsErr
<1>7. CASE getServicesForMXJob \/ canAdoptService \/ AdoptService \/ reconcileServices
  <2>1. log' = log
    BY <1>7 DEF getServicesForMXJob, canAdoptService, AdoptService, reconcileServices, createServices, apiVars
  <2>2. CASE EndSync
    BY <1>a, <1>b, <2>1, <2>2
  <2>3. CASE mxjob' = mxjob /\ pc # "idle"
    BY <1>a, <1>d, <2>1, <2>3
  <2>4. QED
    BY <1>7, <2>2, <2>3 DEF getServicesForMXJob, canAdoptService, AdoptService,
       reconcileServices, createServices, Goto
<1>8. CASE initializeMXJob
  <2> DEFINE init == updateMXJobConditions(mxjob.status, "Initialized")
  <2>1. Keeps(Lasting, log[mxjob.rv].status, mxjob.status) /\ mxjob.status \in MXJobStatusType
    BY <1>0, <1>8 DEF CopyGrows, TypeOK, initializeMXJob
  <2>2. Keeps(ConditionType, mxjob.status, init)
    BY <2>1, TrueKeeps DEF ConditionType
  <2>3. mxjob'.rv = mxjob.rv /\ mxjob'.status \in {mxjob.status, init}
    BY <1>0, <1>8 DEF initializeMXJob, TypeOK
  <2> HIDE DEF init
  <2>4. Keeps(Lasting, mxjob.status, init)
    BY <2>2, Zenon DEF Keeps, Lasting
  <2>5. Keeps(Lasting, log[mxjob.rv].status, init)
    BY <2>1, <2>4, KeepsOrder
  <2>6. QED
    BY <1>8, <1>a, <2>1, <2>3, <2>5 DEF initializeMXJob, apiVars, CopyGrows
<1>9. CASE terminateMXJob
  <2>1. Keeps(Lasting, log[mxjob.rv].status, mxjob.status) /\ mxjob.status \in MXJobStatusType
    BY <1>0, <1>9 DEF CopyGrows, TypeOK, terminateMXJob
  <2>2. Keeps(Lasting, mxjob.status, terminatedStatus(mxjob.status, listed))
    BY <2>1, TerminatedKeeps
  <2>3. mxjob'.rv = mxjob.rv /\ mxjob'.status = terminatedStatus(mxjob.status, listed)
    BY <1>0, <1>9 DEF terminateMXJob, TypeOK
  <2>4. Keeps(Lasting, log[mxjob.rv].status, mxjob'.status)
    BY <2>1, <2>2, <2>3, KeepsOrder
  <2>5. QED
    BY <1>9, <1>a, <2>3, <2>4 DEF terminateMXJob, CopyGrows
<1>10. CASE terminateMXJobErr
  BY <1>10, <1>a, <1>b DEF terminateMXJobErr
<1>11. CASE updateStatus
  <2>1. CASE log' = log
    BY <1>11, <1>a, <1>b, <2>1 DEF updateStatus
  <2>2. CASE accepted(mxjob.rv) /\ log' = Append(log, [Current EXCEPT !.status = mxjob.status])
    <3> DEFINE v == [Current EXCEPT !.status = mxjob.status]
    <3>1. v \in Version /\ v.status = mxjob.status
      BY <1>0, Zenon DEF Version, TypeOK
    <3> HIDE DEF v
    <3>2. Keeps(Lasting, Current.status, mxjob.status) /\ ~IsJobFailed(Current.status)
      BY <1>0, <1>11, <2>2 DEF CopyGrows, Copy, accepted, updateStatus, Current, IsJobFinished
    <3>3. Keeps(ConditionType, Current.status, v.status)
      BY <3>1, <3>2, Zenon DEF Keeps, Lasting, IsJobFailed
    <3>4. VersionsGrow'
      BY <1>e, <2>2, <3>1, <3>3, ZenonT(60) DEF v
    <3>5. QED
      BY <1>11, <1>b, <3>4 DEF updateStatus
  <2>3. QED
    BY <1>11, <2>1, <2>2 DEF updateStatus
<1>12. CASE (\E k \in HookKind : hookEnds(k)) \/ handleMXJobFinalizers \/ finalizerHookEnds
            \/ clearFinalizerErr
  BY <1>12, <1>a, <1>c DEF hookEnds, handleMXJobFinalizers, finalizerHookEnds,
     clearFinalizerErr, apiVars
<1>13. CASE clearFinalizer \/ touchJob \/ deleteJob
  <2>1. PICK v \in Version : v.status = Current.status /\ log' = Append(log, v) /\ UNCHANGED syncVars
    BY <1>0, <1>13, SameStatus
  <2>2. Keeps(ConditionType, Current.status, v.status)
    BY <2>1, KeepsSelf
  <2>3. QED
    BY <1>e, <2>1, <2>2
<1>14. CASE watchEvent \/ relist \/ serviceDeleted
  BY <1>14, <1>a, <1>c DEF watchEvent, relist, serviceDeleted, apiVars
<1>15. CASE PodStep
  <2>1. UNCHANGED log /\ UNCHANGED syncVars
    BY <1>15 DEF PodStep, podEnds, podDeleted, podRemoved, podInitialized, setPod
  <2>2. QED
    BY <1>a, <1>c, <2>1
<1>16. CASE crash
  BY <1>16, <1>a, <1>b DEF crash, apiVars
<1>17. CASE UNCHANGED vars
  BY <1>17, <1>a, <1>c DEF vars, apiVars
<1>18. QED
  BY <1>1, <1>2, <1>3, <1>5, <1>6, <1>7, <1>8, <1>9, <1>10, <1>11, <1>12, <1>13, <1>14,
     <1>15, <1>16, <1>17 DEF Next, SyncStep, HookStep, EnvStep

\* No write takes back that the job was initialized or how it ended, nor a time
\* that an earlier version has, whatever copies syncs hold and whoever writes in
\* between.
THEOREM StatusOnlyGrows == Spec => []NothingTakenBack
<1>1. Init => CopyGrows /\ VersionsGrow
  BY SMTT(30) DEF Init, CopyGrows, VersionsGrow
<1>2. VersionsGrow => NothingTakenBack
  BY Zenon DEF VersionsGrow, Keeps, NothingTakenBack, ConditionType
<1>3. QED
  BY <1>1, <1>2, InvHolds, GrowsStep, PTL DEF Spec

-----------------------------------------------------------------------------
(* A job that was initialized is stopped when it finishes. *)

\* Version rv has the Initialized condition.
InitializedAt(rv) == checkCondition(log[rv].status, "Initialized")

Stopped == \A t \in RType, i \in PodId : ~IsPodActive(pods[t][i])

\* Every pod shows up when it is created.
NoneHidden == \A t \in RType, i \in PodId : pods[t][i].life # "hidden"

\* A sync of an initialized job creates no pod, so that its list has all the
\* active ones.
ListCovers ==
    pc \notin {"idle", "getPods", "update"} /\ InitializedAt(mxjob.rv) =>
        \A t \in RType, i \in PodId : IsPodActive(pods[t][i]) => IsPodActive(listed[t][i])

\* They are deleted by the time a finished copy is written.
UpdateStopped ==
    pc = "update" /\ InitializedAt(mxjob.rv) /\ IsJobFinished(mxjob.status) => Stopped

StopInv == NoneHidden /\ ListCovers /\ UpdateStopped

\* What happens to a pod after its creation never makes it active again.
LEMMA PodStepsStop ==
    ASSUME TypeOK, NoneHidden, PodStep
    PROVE  /\ NoneHidden'
           /\ \A t \in RType, i \in PodId : IsPodActive(pods'[t][i]) => IsPodActive(pods[t][i])
<1>1. PICK t \in RType, i \in PodId :
          podEnds(t, i) \/ podDeleted(t, i) \/ podRemoved(t, i) \/ podInitialized(t, i)
  BY DEF PodStep
<1>2. pods \in [RType -> [PodId -> Pod]] /\ pods[t][i] \in Pod /\ pods[t][i].life # "hidden"
  BY SMTT(30) DEF TypeOK, NoneHidden
<1>3. PICK pod \in Pod : /\ pods' = [pods EXCEPT ![t][i] = pod]
                         /\ pod.life # "hidden" /\ ~IsPodActive(pod)
  <2>1. ASSUME podEnds(t, i)
        PROVE  \E pod \in Pod : /\ pods' = [pods EXCEPT ![t][i] = pod]
                                /\ pod.life # "hidden" /\ ~IsPodActive(pod)
    <3>1. \A p \in {"Succeeded", "Failed"} :
             /\ [pods[t][i] EXCEPT !.phase = p] \in Pod
             /\ [pods[t][i] EXCEPT !.phase = p].life # "hidden"
             /\ ~IsPodActive([pods[t][i] EXCEPT !.phase = p])
      BY <1>2 DEF Pod, Phase, IsPodActive
    <3>2. QED
      BY <2>1, <3>1, ZenonT(60) DEF podEnds, setPod
  <2>2. ASSUME podDeleted(t, i) \/ podRemoved(t, i)
        PROVE  \E pod \in Pod : /\ pods' = [pods EXCEPT ![t][i] = pod]
                                /\ pod.life # "hidden" /\ ~IsPodActive(pod)
    <3>1. \A l \in {"terminating", "gone"} :
             /\ [pods[t][i] EXCEPT !.life = l] \in Pod
             /\ [pods[t][i] EXCEPT !.life = l].life # "hidden"
             /\ ~IsPodActive([pods[t][i] EXCEPT !.life = l])
      BY <1>2 DEF Pod, Life, IsPodActive
    <3>2. QED
      BY <2>2, <3>1, ZenonT(60) DEF podDeleted, podRemoved, setPod
  <2>3. QED
    BY <1>1, <1>2, <2>1, <2>2 DEF podInitialized
<1>4. \A u \in RType, j \in PodId : pods'[u][j] \in {pods[u][j], pod}
  BY <1>2, <1>3
<1>5. QED
  BY <1>3, <1>4 DEF NoneHidden

\* Where no creation times out, none leaves a hidden pod.
LEMMA CreateShows ==
    ASSUME TypeOK, NoneHidden, "timeout" \notin Env,
           NEW t \in RType, NEW S \in SUBSET Unborn(t), NEW H \in SUBSET S, createPods(t, S, H)
    PROVE  NoneHidden'
<1>1. H = {}
  BY DEF createPods
<1>2. \A u \in RType, i \in PodId :
         pods'[u][i] \in {pods[u][i], [phase |-> "Running", life |-> "live"]}
  BY <1>1 DEF createPods, TypeOK
<1>3. QED
  BY <1>2, SMTT(30) DEF NoneHidden

\* Deletions make pods of the job terminating and leave the others.
LEMMA DeleteStops ==
    ASSUME TypeOK, NoneHidden, NEW S, deletePods(S)
    PROVE  /\ NoneHidden'
           /\ \A t \in RType, i \in PodId :
                  IsPodActive(pods'[t][i]) => <<t, i>> \notin S /\ IsPodActive(pods[t][i])
<1>1. ASSUME NEW t \in RType, NEW i \in PodId
      PROVE  /\ pods'[t][i].life # "hidden"
             /\ IsPodActive(pods'[t][i]) => <<t, i>> \notin S /\ IsPodActive(pods[t][i])
  <2>1. pods[t][i] \in Pod /\ pods[t][i].life # "hidden"
    BY SMTT(30) DEF TypeOK, NoneHidden
  <2>2. [pods[t][i] EXCEPT !.life = "terminating"].life = "terminating"
    BY <2>1 DEF Pod
  <2>3. CASE <<t, i>> \in S
    <3>1. pods'[t][i] = [pods[t][i] EXCEPT !.life = "terminating"]
      BY <2>3 DEF deletePods
    <3>2. QED
      BY <2>2, <3>1 DEF IsPodActive
  <2>4. CASE <<t, i>> \notin S
    BY <2>1, <2>4 DEF deletePods
  <2>5. QED
    BY <2>3, <2>4
<1>2. QED
  BY <1>1, ZenonT(60) DEF NoneHidden

\* The inductive step.  The copy may come from any version, so that neither a
\* restart nor a relist disturbs it.
LEMMA StopStep ==
    ASSUME "timeout" \notin Env, ControllerInv, StopInv, [Next]_vars
    PROVE  StopInv'
<1>0. /\ TypeOK /\ Copy /\ NoneHidden /\ ListCovers /\ UpdateStopped
      /\ Len(log) \in Nat /\ Len(log) >= 1
  BY CurrentVersion DEF ControllerInv, StopInv
\* Steps that leave the log alone and make no pod active.
<1>a. ASSUME UNCHANGED log, NoneHidden',
             \A t \in RType, i \in PodId : IsPodActive(pods'[t][i]) => IsPodActive(pods[t][i])
      PROVE  /\ UNCHANGED syncVars => StopInv'
             /\ /\ UNCHANGED <<mxjob, listed>>
                /\ pc \notin {"idle", "getPods", "terminate", "update"}
                /\ pc' \notin {"idle", "getPods", "update"}
                => StopInv'
  <2>1. Stopped => Stopped'
    BY <1>a DEF Stopped
  <2>2. UNCHANGED syncVars => ListCovers' /\ UpdateStopped'
    BY <1>0, <1>a, <2>1 DEF ListCovers, UpdateStopped, syncVars, InitializedAt
  <2>3. UNCHANGED <<mxjob, listed>> /\ pc \notin {"idle", "getPods", "terminate", "update"}
        /\ pc' \notin {"idle", "getPods", "update"} => ListCovers' /\ UpdateStopped'
    BY <1>0, <1>a DEF ListCovers, UpdateStopped, InitializedAt
  <2>4. QED
    BY <1>a, <2>2, <2>3 DEF StopInv
\* Between syncs only the pods matter.
<1>b. NoneHidden' /\ EndSync => StopInv'
  BY DEF StopInv, ListCovers, UpdateStopped, EndSync
<1>2. CASE Sync
  BY <1>0, <1>2 DEF Sync, apiVars, StopInv, NoneHidden, ListCovers, UpdateStopped
<1>3. CASE apiError
  BY <1>0, <1>3, <1>b DEF apiError, apiVars, NoneHidden
<1>4. CASE getPodsForMXJob
  <2>1. pods' = pods /\ pc' = "scheduler"
    BY <1>4 DEF getPodsForMXJob, apiVars
  <2>2. \A t \in RType, i \in PodId : IsPodActive(pods[t][i]) => listed'[t][i] = pods[t][i]
    BY <1>4 DEF getPodsForMXJob, IsPodActive
  <2>3. QED
    BY <1>0, <2>1, <2>2 DEF StopInv, NoneHidden, ListCovers, UpdateStopped
\* reconcilePods of an initialized job
<1>5. ASSUME NEW t \in RType, reconcilePods(t)
      PROVE  StopInv'
  <2>1. /\ pods' = pods /\ log' = log /\ mxjob'.rv = mxjob.rv
        /\ listed' = listed /\ pc \in RType /\ pc' \in {"getServices", "worker", "initialize"}
    BY <1>0, <1>5 DEF reconcilePods, countPods, apiVars, TypeOK, nextAfter, RType
  <2>2. QED
    BY <1>0, <2>1 DEF StopInv, NoneHidden, ListCovers, UpdateStopped, RType, InitializedAt
\* Pods are created for a copy that is not initialized only.
<1>6. ASSUME NEW t \in RType, reconcilePodsCreate(t) \/ reconcilePodsErr(t)
      PROVE  StopInv'
  <2>1. /\ log' = log /\ pc \in RType /\ NeedsPods(t)
        /\ \E S \in SUBSET Unborn(t) : \E H \in SUBSET S : createPods(t, S, H)
    BY <1>6 DEF reconcilePodsCreate, reconcilePodsErr
  <2>2. NoneHidden'
    BY <1>0, <2>1, CreateShows
  <2>3. ~InitializedAt(mxjob.rv)
    BY <1>0, <2>1 DEF NeedsPods, Copy, RType, checkCondition, InitializedAt
  <2>4. CASE EndSync
    BY <1>b, <2>2, <2>4
  <2>5. CASE countPods(t)
    <3>1. mxjob'.rv = mxjob.rv /\ pc' # "update"
      BY <1>0, <2>5 DEF countPods, TypeOK, nextAfter, RType
    <3>2. ~InitializedAt(mxjob.rv)'
      BY <2>1, <2>3, <3>1 DEF InitializedAt
    <3>3. QED
      BY <2>2, <3>1, <3>2 DEF StopInv, ListCovers, UpdateStopped
  <2>6. QED
    BY <1>6, <2>4, <2>5 DEF reconcilePodsCreate, reconcilePodsErr
<1>7. CASE getServicesForMXJob \/ canAdoptService \/ AdoptService \/ reconcileServices
  <2>1. pods' = pods /\ log' = log
    BY <1>7 DEF getServicesForMXJob, canAdoptService, AdoptService, reconcileServices, createServices, apiVars
  <2>2. NoneHidden'
    BY <1>0, <2>1 DEF NoneHidden
  <2>3. CASE EndSync
    BY <1>b, <2>2, <2>3
  <2>4. CASE /\ UNCHANGED <<mxjob, listed>>
             /\ pc \notin {"idle", "getPods", "terminate", "update"}
             /\ pc' \notin {"idle", "getPods", "update"}
    BY <1>a, <2>1, <2>2, <2>4
  <2>5. QED
    BY <1>7, <2>3, <2>4 DEF getServicesForMXJob, canAdoptService, AdoptService,
       reconcileServices, createServices, Goto
<1>8. CASE initializeMXJob
  <2> DEFINE init == updateMXJobConditions(mxjob.status, "Initialized")
  <2>1. IsJobFinished(init) <=> IsJobFinished(mxjob.status)
    BY <1>0, SetTrue, SMTT(30)
       DEF TypeOK, ConditionType, IsJobFinished, IsJobSucceed, IsJobFailed, checkCondition
  <2>2. /\ pods' = pods /\ log' = log /\ mxjob'.rv = mxjob.rv
        /\ mxjob'.status \in {mxjob.status, init} /\ pc = "initialize"
    BY <1>0, <1>8 DEF initializeMXJob, apiVars, TypeOK
  <2> HIDE DEF init
  <2>3. \/ pc' = "terminate" /\ listed' = listed
        \/ pc' = "update" /\ ~IsJobFinished(mxjob'.status)
    BY <1>8, <2>1, <2>2 DEF initializeMXJob
  <2>4. QED
    BY <1>0, <2>2, <2>3 DEF StopInv, NoneHidden, ListCovers, UpdateStopped, InitializedAt
\* the list has every active pod, and each is deleted
<1>9. CASE terminateMXJob
  <2>1. /\ log' = log /\ mxjob'.rv = mxjob.rv
        /\ pc = "terminate" /\ pc' = "update" /\ deletePods(Doomed)
    BY <1>0, <1>9 DEF terminateMXJob, TypeOK
  <2>2. /\ NoneHidden'
        /\ \A t \in RType, i \in PodId :
               IsPodActive(pods'[t][i]) => <<t, i>> \notin Doomed /\ IsPodActive(pods[t][i])
    BY <1>0, <2>1, DeleteStops
  <2>3. \A t \in RType, i \in PodId : IsPodActive(listed[t][i]) => <<t, i>> \in Doomed
    BY DEF Doomed
  <2>4. InitializedAt(mxjob.rv) => Stopped'
    BY <1>0, <2>1, <2>2, <2>3, ZenonT(60) DEF ListCovers, Stopped
  <2>5. QED
    BY <2>1, <2>2, <2>4 DEF StopInv, ListCovers, UpdateStopped, InitializedAt
<1>10. CASE terminateMXJobErr
  <2>1. PICK S : deletePods(S)
    BY <1>10 DEF terminateMXJobErr
  <2>2. NoneHidden'
    BY <1>0, <2>1, DeleteStops, ZenonT(60)
  <2>3. QED
    BY <1>10, <1>b, <2>2 DEF terminateMXJobErr
<1>11. CASE updateStatus \/ crash
  BY <1>0, <1>11, <1>b DEF updateStatus, crash, apiVars, NoneHidden
<1>12. CASE (\E k \in HookKind : hookEnds(k)) \/ handleMXJobFinalizers \/ finalizerHookEnds
            \/ clearFinalizerErr \/ serviceDeleted \/ watchEvent \/ relist
  BY <1>0, <1>12, <1>a DEF hookEnds, handleMXJobFinalizers, finalizerHookEnds,
     clearFinalizerErr, serviceDeleted, watchEvent, relist, apiVars, NoneHidden
\* a write of the status the job has, under a sync that has an older copy
<1>13. CASE clearFinalizer \/ touchJob \/ deleteJob
  <2>1. PICK v \in Version : v.status = Current.status /\ log' = Append(log, v)
                             /\ UNCHANGED <<pods, syncVars>>
    BY <1>0, <1>13, SameStatus
  <2>2. pc # "idle" => (InitializedAt(mxjob.rv)' <=> InitializedAt(mxjob.rv))
    BY <1>0, <2>1, AppendVersion DEF Copy, syncVars, InitializedAt
  <2>3. QED
    BY <1>0, <2>1, <2>2 DEF StopInv, NoneHidden, ListCovers, UpdateStopped, Stopped, syncVars
<1>14. CASE PodStep
  <2>1. UNCHANGED log /\ UNCHANGED syncVars
    BY <1>14 DEF PodStep, podEnds, podDeleted, podRemoved, podInitialized, setPod
  <2>2. QED
    BY <1>0, <1>14, <1>a, <2>1, PodStepsStop
<1>15. CASE UNCHANGED vars
  BY <1>0, <1>15, <1>a DEF vars, apiVars, NoneHidden
<1>16. QED
  BY <1>2, <1>3, <1>4, <1>5, <1>6, <1>7, <1>8, <1>9, <1>10, <1>11, <1>12, <1>13, <1>14,
     <1>15 DEF Next, SyncStep, HookStep, EnvStep

\* Only these write the job.
LEMMA LogWriters ==
    [Next]_vars => log' = log \/ updateStatus \/ clearFinalizer \/ touchJob \/ deleteJob
<1>1. ASSUME SyncStep
      PROVE  log' = log \/ updateStatus
  BY <1>1 DEF SyncStep, Sync, apiError, getPodsForMXJob, reconcilePods, reconcilePodsCreate,
     reconcilePodsErr, getServicesForMXJob, canAdoptService, AdoptService, reconcileServices,
     createServices, initializeMXJob, terminateMXJob, terminateMXJobErr, apiVars
<1>2. ASSUME HookStep \/ EnvStep \/ UNCHANGED vars
      PROVE  log' = log \/ clearFinalizer \/ touchJob \/ deleteJob
  BY <1>2 DEF HookStep, EnvStep, hookEnds, handleMXJobFinalizers, finalizerHookEnds,
     clearFinalizerErr, watchEvent, relist, serviceDeleted, PodStep, podEnds, podDeleted,
     podRemoved, podInitialized, setPod, crash, vars, apiVars
<1>3. QED
  BY <1>1, <1>2 DEF Next

\* The write that finishes an initialized job comes from a sync that read it
\* initialized, listed every active pod of it and deleted them all.
LEMMA FinishingStep ==
    ASSUME "timeout" \notin Env, ControllerInv, StopInv, [Next]_vars,
           checkCondition(Current.status, "Initialized"),
           ~IsJobFinished(Current.status), IsJobFinished(Current.status)'
    PROVE  Stopped'
<1>0. /\ TypeOK /\ Copy /\ UpdateStopped
      /\ Len(log) \in Nat /\ Len(log) >= 1 /\ Current \in Version
  BY CurrentVersion DEF ControllerInv, StopInv
<1>a. log' # log
  BY DEF Current
\* a write leaves behind what it wrote
<1>b. ASSUME NEW v \in Version, log' = Append(log, v)
      PROVE  Current' = v
  BY <1>0, <1>b, AppendVersion DEF Current
<1>1. CASE updateStatus
  <2> DEFINE v == [Current EXCEPT !.status = mxjob.status]
  <2>1. pods' = pods /\ pc = "update" /\ accepted(mxjob.rv) /\ log' = Append(log, v)
    BY <1>1, <1>a DEF updateStatus
  <2>2. v \in Version /\ v.status = mxjob.status
    BY <1>0, Zenon DEF Version, TypeOK
  <2> HIDE DEF v
  <2>3. Current' = v
    BY <1>b, <2>1, <2>2
  <2>4. IsJobFinished(mxjob.status) /\ InitializedAt(mxjob.rv)
    BY <2>1, <2>2, <2>3 DEF accepted, Current, InitializedAt, IsJobFinished, IsJobSucceed,
       IsJobFailed, checkCondition
  <2>5. QED
    BY <1>0, <2>1, <2>4 DEF UpdateStopped, Stopped
<1>2. CASE clearFinalizer \/ touchJob \/ deleteJob
  <2>1. PICK v \in Version : v.status = Current.status /\ log' = Append(log, v)
    BY <1>0, <1>2, SameStatus
  <2>2. Current' = v
    BY <1>b, <2>1
  <2>3. Current.status' = Current.status
    BY <2>1, <2>2
  <2>4. QED
    BY <2>3 DEF IsJobFinished, IsJobSucceed, IsJobFailed, checkCondition
<1>3. CASE log' = log
  BY <1>3, <1>a
<1>4. QED
  BY <1>1, <1>2, <1>3, LogWriters

\* terminateMXJob stops every job that was initialized before it finished: in
\* the step that records the outcome no pod of it is active any more, whatever
\* the caches hold and wherever the operator is restarted, unless creations time
\* out.
THEOREM FinishedIsStopped == Spec => FinishingStops
<1>1. CASE "timeout" \notin Env
  <2>1. Init => StopInv
    BY SMTT(30) DEF Init, NoPods, NoPod, StopInv, NoneHidden, ListCovers, UpdateStopped
  <2>2. ControllerInv /\ StopInv /\ [Next]_vars => StopInv'
    BY <1>1, StopStep
  <2>3. ControllerInv /\ StopInv /\ [Next]_vars =>
            [/\ "timeout" \notin Env
             /\ checkCondition(Current.status, "Initialized")
             /\ ~IsJobFinished(Current.status) /\ IsJobFinished(Current'.status)
             => \A t \in RType, i \in PodId : ~IsPodActive(pods'[t][i])]_vars
    BY <1>1, FinishingStep DEF Stopped
  <2>4. QED
    BY <2>1, <2>2, <2>3, InvHolds, PTL DEF Spec, FinishingStops
<1>2. CASE "timeout" \in Env
  <2>1. [Next]_vars =>
            [/\ "timeout" \notin Env
             /\ checkCondition(Current.status, "Initialized")
             /\ ~IsJobFinished(Current.status) /\ IsJobFinished(Current'.status)
             => \A t \in RType, i \in PodId : ~IsPodActive(pods'[t][i])]_vars
    BY <1>2
  <2>2. QED
    BY <2>1, PTL DEF Spec, FinishingStops
<1>3. QED
  BY <1>1, <1>2
=============================================================================
