------------------------ MODULE MXJobCountingProofs ------------------------
(***************************************************************************)
(* Proofs about the number of pods behind a written status, for every      *)
(* number of replicas, every set of webhooks and every bound.              *)
(***************************************************************************)
EXTENDS MXJobControllerProofs

\* A leaf that names no prover goes to Zenon, which is quick where a leaf only
\* puts facts together, and then to the SMT solver: no proof hangs on the speed
\* of one machine.  Leaves that need arithmetic or sequences name the latter.
USE ZenonT(10), SMTT(30), SMTT(60)

\* The pods of a type that were ever created, those that exist now, and the
\* workers that succeeded.
Born(t) == PodId \ Unborn(t)

Here(t) == {i \in PodId : pods[t][i].life \in {"live", "terminating"}}

Won == {i \in PodId : pods["worker"][i].phase = "Succeeded"}

\* A pod that was not created has not ended.
Fresh == \A t \in RType, i \in PodId : pods[t][i].life = "unborn" => pods[t][i].phase = "None"

\* A listed pod was created, and ended as the list says.
ListHolds ==
    \A t \in RType, i \in PodId :
        /\ listed[t][i] # NoPod => pods[t][i].life # "unborn"
        /\ listed[t][i].phase \in {"Succeeded", "Failed"} => pods[t][i].phase = listed[t][i].phase

\* What is behind the Succeeded and the Initialized condition of a status.
Earned(status) == IsJobSucceed(status) => Cardinality(Won) >= Replicas["worker"]

Complete(status) ==
    checkCondition(status, "Initialized") =>
        /\ service # "none"
        /\ \A t \in RType : Cardinality(Born(t)) >= Replicas[t]

Backed == {s \in MXJobStatusType : Earned(s) /\ Complete(s)}

\* The places of reconcileMXJobs that are behind reconcilePods of a type, and
\* those behind reconcileServices.
Behind(t) ==
    {"initialize"} \cup
    CASE t = "scheduler" -> {"getServices", "canAdoptService", "adoptService", "createService",
                             "server", "worker"}
      [] t = "server"    -> {"worker"}
      [] t = "worker"    -> {}

BehindServices == {"server", "worker", "initialize"}

\* What a sync got done so far stays done.
Done ==
    /\ \A t \in RType : pc \in Behind(t) => Cardinality(Born(t)) >= Replicas[t]
    /\ pc \in BehindServices => service # "none"

AllBacked == /\ \A i \in 1 .. Len(log) : log[i].status \in Backed
             /\ pc # "idle" => mxjob.status \in Backed

EarnedInv == TypeOK /\ Fresh /\ ListHolds /\ Done /\ AllBacked

-----------------------------------------------------------------------------
\* The numbers of pods, compared.
LEMMA CountSubset ==
    ASSUME NEW S, NEW T, S \subseteq T, T \subseteq PodId
    PROVE  Cardinality(S) \in Nat /\ Cardinality(T) \in Nat /\ Cardinality(S) <= Cardinality(T)
<1>1. IsFiniteSet(PodId)
  BY MaxPodsAssumption, FS_Interval DEF PodId
<1>2. IsFiniteSet(T)
  BY <1>1, FS_Subset
<1>3. QED
  BY <1>2, CountTyped, FS_Subset

\* The same of disjoint sets of pods.
LEMMA CountUnion ==
    ASSUME NEW S, NEW T, S \subseteq PodId, T \subseteq PodId, S \cap T = {}
    PROVE  Cardinality(S \cup T) = Cardinality(S) + Cardinality(T)
<1>1. IsFiniteSet(PodId)
  BY MaxPodsAssumption, FS_Interval DEF PodId
<1>2. IsFiniteSet(S) /\ IsFiniteSet(T)
  BY <1>1, FS_Subset
<1>3. Cardinality(S \cap T) = 0
  BY FS_EmptySet
<1>4. Cardinality(S) \in Nat /\ Cardinality(T) \in Nat
  BY CountTyped
<1>5. Cardinality(S \cup T) = Cardinality(S) + Cardinality(T) - Cardinality(S \cap T)
  BY <1>2, FS_Union
<1>6. QED
  BY <1>3, <1>4, <1>5

-----------------------------------------------------------------------------
\* No step takes a pod's creation or its end back, nor the service's creation.
Kept == /\ \A t \in RType, i \in PodId :
              /\ pods[t][i].life # "unborn" => pods'[t][i].life # "unborn"
              /\ pods[t][i].phase \in {"Succeeded", "Failed"} =>
                     pods'[t][i].phase = pods[t][i].phase
        /\ service # "none" => service' # "none"

\* createPods changes pods that were not created yet only.
LEMMA CreateKeeps ==
    ASSUME TypeOK, Fresh, NEW t \in RType, NEW S \in SUBSET Unborn(t), NEW H \in SUBSET S,
           createPods(t, S, H), service' = service
    PROVE  Fresh' /\ Kept
<1>1. \A u \in RType, i \in PodId :
          pods'[u][i] = IF u = t /\ i \in S
                        THEN [phase |-> "Running", life |-> IF i \in H THEN "hidden" ELSE "live"]
                        ELSE pods[u][i]
  BY DEF createPods, TypeOK
<1>2. \A i \in S : i \in PodId /\ pods[t][i].life = "unborn" /\ pods[t][i].phase = "None"
  BY DEF Unborn, Fresh
<1>3. \A u \in RType, i \in PodId :
          IF u = t /\ i \in S
          THEN pods'[u][i].phase = "Running" /\ pods'[u][i].life \in {"hidden", "live"}
          ELSE pods'[u][i] = pods[u][i]
  <2>1. \A l : LET pod == [phase |-> "Running", life |-> l]
              IN  pod.phase = "Running" /\ pod.life = l
    OBVIOUS
  <2>2. QED
    BY <1>1, <2>1, ZenonT(60)
<1>4. QED
  BY <1>2, <1>3, SMTT(30) DEF Fresh, Kept

\* deletePods changes no phase.
LEMMA DeleteKeeps ==
    ASSUME TypeOK, Fresh, NEW S \in SUBSET Doomed, deletePods(S), service' = service, ListHolds
    PROVE  Fresh' /\ Kept
<1>1. \A u \in RType, i \in PodId :
          /\ pods'[u][i].phase = pods[u][i].phase
          /\ pods'[u][i].life = IF <<u, i>> \in S THEN "terminating" ELSE pods[u][i].life
  BY SMTT(30) DEF deletePods, TypeOK, Pod
<1>2. QED
  BY <1>1, ZenonT(60) DEF Fresh, Kept

\* So every step keeps them.
LEMMA KeptStep == TypeOK /\ Fresh /\ ListHolds /\ [Next]_vars => Fresh' /\ Kept
<1> SUFFICES ASSUME TypeOK, Fresh, ListHolds, [Next]_vars
             PROVE  Fresh' /\ Kept
  OBVIOUS
<1>a. UNCHANGED pods /\ (service # "none" => service' # "none") => Fresh' /\ Kept
  BY DEF Fresh, Kept
<1>1. ASSUME NEW t \in RType, reconcilePodsCreate(t) \/ reconcilePodsErr(t)
      PROVE  Fresh' /\ Kept
  BY <1>1, CreateKeeps DEF reconcilePodsCreate, reconcilePodsErr
<1>2. CASE terminateMXJob \/ terminateMXJobErr
  BY <1>2, DeleteKeeps DEF terminateMXJob, terminateMXJobErr
<1>3. CASE PodStep
  <2>1. PICK t \in RType, i \in PodId :
           podEnds(t, i) \/ podDeleted(t, i) \/ podRemoved(t, i) \/ podInitialized(t, i)
    BY <1>3 DEF PodStep
  <2>2. PICK pod :
           /\ setPod(t, i, pod)
           /\ pod.life # "unborn" /\ pods[t][i].life # "unborn"
           /\ pods[t][i].phase \in {"Succeeded", "Failed"} => pod.phase = pods[t][i].phase
    <3>1. pods[t][i] \in Pod
      BY SMTT(30) DEF TypeOK
    <3>2. CASE podEnds(t, i)
      BY <3>1, <3>2 DEF podEnds, Pod
    <3>3. CASE podDeleted(t, i)
      BY <3>1, <3>3, SMTT(30) DEF podDeleted, Pod
    <3>4. CASE podRemoved(t, i)
      BY <3>1, <3>4, SMTT(30) DEF podRemoved, Pod
    <3>5. CASE podInitialized(t, i)
      BY <3>1, <3>5, SMTT(30) DEF podInitialized, Pod
    <3>6. QED
      BY <2>1, <3>2, <3>3, <3>4, <3>5
  <2>3. \A u \in RType, j \in PodId :
            pods'[u][j] = IF u = t /\ j = i THEN pod ELSE pods[u][j]
    BY <2>2 DEF setPod, TypeOK
  <2>4. service' = service
    BY <2>2 DEF setPod
  <2>5. QED
    BY <2>2, <2>3, <2>4, SMTT(30) DEF Fresh, Kept
<1>4. CASE Sync \/ apiError \/ getPodsForMXJob \/ getServicesForMXJob \/ canAdoptService
           \/ AdoptService \/ reconcileServices \/ initializeMXJob \/ updateStatus
           \/ \E t \in RType : reconcilePods(t)
  BY <1>4, <1>a DEF Sync, apiError, getPodsForMXJob, getServicesForMXJob, canAdoptService,
     AdoptService, reconcileServices, createServices, initializeMXJob, updateStatus, reconcilePods, apiVars
<1>5. CASE HookStep \/ watchEvent \/ relist \/ serviceDeleted \/ touchJob \/ deleteJob \/ crash
  BY <1>5, <1>a DEF HookStep, hookEnds, handleMXJobFinalizers, finalizerHookEnds, clearFinalizer,
     clearFinalizerErr, watchEvent, relist, serviceDeleted, touchJob, deleteJob, userWrites,
     crash, apiVars
<1>6. CASE UNCHANGED vars
  BY <1>6, <1>a DEF vars, apiVars
<1>7. QED
  BY <1>1, <1>2, <1>3, <1>4, <1>5, <1>6 DEF Next, SyncStep, EnvStep

\* What is behind a status stays behind it.
LEMMA Grows ==
    ASSUME Kept
    PROVE  /\ \A t \in RType : /\ Cardinality(Born(t)) \in Nat /\ Cardinality(Born(t)') \in Nat
                               /\ Cardinality(Born(t)) <= Cardinality(Born(t)')
           /\ Backed \subseteq Backed'
<1>1. \A t \in RType : Born(t) \subseteq Born(t)' /\ Born(t)' \subseteq PodId
  BY DEF Kept, Born, Unborn
<1>2. Won \subseteq Won' /\ Won' \subseteq PodId
  BY DEF Kept, Won, RType
<1>3. /\ Cardinality(Won) \in Nat /\ Cardinality(Won') \in Nat
      /\ Cardinality(Won) <= Cardinality(Won')
      /\ Replicas["worker"] \in Nat
  BY <1>2, CountSubset, ReplicasAssumption DEF RType
<1>4. \A t \in RType : /\ Cardinality(Born(t)) \in Nat /\ Cardinality(Born(t)') \in Nat
                       /\ Cardinality(Born(t)) <= Cardinality(Born(t)')
                       /\ Replicas[t] \in Nat
  <2> TAKE t \in RType
  <2>1. Born(t) \subseteq Born(t)' /\ Born(t)' \subseteq PodId
    BY <1>1
  <2>2. QED
    BY <2>1, CountSubset, ReplicasAssumption
<1>5. ASSUME NEW s, Earned(s)
      PROVE  Earned(s)'
  BY <1>3, <1>5 DEF Earned
<1>6. ASSUME NEW s, Complete(s)
      PROVE  Complete(s)'
  BY <1>4, <1>6, SMTT(30) DEF Complete, Kept
<1>7. QED
  BY <1>4, <1>5, <1>6 DEF Backed

\* Behind the creation of the missing pods, as many as the replicas were created.
LEMMA CreatedAll ==
    ASSUME TypeOK, Fresh, ListHolds, NEW t \in RType, NEW S \in SUBSET Unborn(t),
           NEW H \in SUBSET S, createPods(t, S, H), Cardinality(S) = Missing(listed, t)
    PROVE  Cardinality(Born(t)') >= Replicas[t]
<1> DEFINE there == filterPodsForMXReplicaType(listed, t)
<1>1. /\ there \subseteq PodId /\ S \subseteq PodId /\ there \cap S = {}
  BY DEF filterPodsForMXReplicaType, Unborn, ListHolds
<1>2. Cardinality(there \cup S) = Cardinality(there) + Cardinality(S)
  BY <1>1, CountUnion
<1>3. \A i \in PodId : i \in S => pods'[t][i].life # "unborn"
  BY DEF createPods, TypeOK
<1>4. \A i \in PodId : i \in there => pods'[t][i].life # "unborn"
  BY DEF createPods, TypeOK, filterPodsForMXReplicaType, ListHolds
<1>5. there \cup S \subseteq Born(t)' /\ Born(t)' \subseteq PodId
  BY <1>1, <1>3, <1>4 DEF Born, Unborn
<1>6. /\ Cardinality(there \cup S) \in Nat /\ Cardinality(Born(t)') \in Nat
      /\ Cardinality(there \cup S) <= Cardinality(Born(t)')
  BY <1>5, CountSubset
<1>7. Cardinality(there) \in Nat /\ Cardinality(S) \in Nat /\ Replicas[t] \in Nat
  BY <1>1, CountTyped, ReplicasAssumption
<1>8. Cardinality(S) = Replicas[t] - Cardinality(there)
  BY DEF Missing
<1> HIDE DEF there
<1>9. QED
  BY <1>2, <1>6, <1>7, <1>8

\* The same where no pod is missing, or the job is initialized.
LEMMA NoneMissing ==
    ASSUME TypeOK, ListHolds, NEW t \in RType, ~NeedsPods(t), mxjob.status \in Backed
    PROVE  Cardinality(Born(t)) >= Replicas[t]
<1> DEFINE there == filterPodsForMXReplicaType(listed, t)
<1>1. there \subseteq Born(t) /\ Born(t) \subseteq PodId
  BY DEF filterPodsForMXReplicaType, Born, Unborn, ListHolds
<1>2. /\ Cardinality(there) \in Nat /\ Cardinality(Born(t)) \in Nat
      /\ Cardinality(there) <= Cardinality(Born(t))
      /\ Replicas[t] \in Nat
  BY <1>1, CountSubset, ReplicasAssumption
<1>3. Missing(listed, t) = Replicas[t] - Cardinality(there)
  BY DEF Missing
<1> HIDE DEF there
<1>4. CASE checkCondition(mxjob.status, "Initialized")
  BY <1>4 DEF Backed, Complete
<1>5. CASE ~(Missing(listed, t) > 0)
  BY <1>2, <1>3, <1>5
<1>6. QED
  BY <1>4, <1>5 DEF NeedsPods

\* reconcilePods makes a job succeeded only if its workers are.
LEMMA EarnedAfter ==
    ASSUME TypeOK, ListHolds, NEW t \in RType, mxjob.status \in Backed
    PROVE  statusAfter(mxjob.status, listed, t) \in Backed
<1> DEFINE after == statusAfter(mxjob.status, listed, t)
           won   == filterPods(listed, "worker", "Succeeded")
<1>1. /\ after \in MXJobStatusType
      /\ after.cond["Initialized"] = mxjob.status.cond["Initialized"]
      /\ IsJobSucceed(after) =>
           IsJobSucceed(mxjob.status) \/ Cardinality(won) = Replicas["worker"]
  <2>1. mxjob.status \in MXJobStatusType
    BY DEF TypeOK
  <2>2. /\ after \in MXJobStatusType
        /\ after.cond["Initialized"] = mxjob.status.cond["Initialized"]
    BY <2>1, StatusAfter, ZenonT(60)
  <2>3. IsJobSucceed(after) =>
           IsJobSucceed(mxjob.status) \/ Cardinality(won) = Replicas["worker"]
    BY <2>1, StatusAfter, Zenon
  <2>4. QED
    BY <2>2, <2>3
<1> HIDE DEF after
<1>2. won \subseteq Won /\ Won \subseteq PodId
  BY DEF filterPods, Won, ListHolds, RType
<1>3. /\ Cardinality(won) \in Nat /\ Cardinality(Won) \in Nat
      /\ Cardinality(won) <= Cardinality(Won)
      /\ Replicas["worker"] \in Nat
  BY <1>2, CountSubset, ReplicasAssumption DEF RType
<1> HIDE DEF won
<1>4. Earned(after)
  BY <1>1, <1>3 DEF Earned, Backed
<1>5. Complete(after)
  BY <1>1, Zenon DEF Complete, Backed, checkCondition
<1>6. QED
  BY <1>1, <1>4, <1>5 DEF Backed, after

\* A write of the job by a user or by the finalizer leaves its status alone.
LEMMA UserVersion ==
    ASSUME TypeOK, clearFinalizer \/ touchJob \/ deleteJob
    PROVE  \E v \in Version : log' = Append(log, v) /\ v.status = Current.status
<1>1. Current \in Version
  BY CurrentVersion
<1>2. /\ [Current EXCEPT !.deleting = TRUE] \in Version
      /\ [Current EXCEPT !.deleting = TRUE].status = Current.status
      /\ [Current EXCEPT !.exists = FALSE] \in Version
      /\ [Current EXCEPT !.exists = FALSE].status = Current.status
      /\ [Current EXCEPT !.exists = FALSE, !.finalizer = FALSE] \in Version
      /\ [Current EXCEPT !.exists = FALSE, !.finalizer = FALSE].status = Current.status
  BY <1>1, Zenon DEF Version
<1>3. CASE touchJob
  BY <1>1, <1>3 DEF touchJob, userWrites
<1>4. CASE deleteJob
  BY <1>2, <1>4, Zenon DEF deleteJob, userWrites
<1>5. CASE clearFinalizer
  BY <1>2, <1>5, Zenon DEF clearFinalizer
<1>6. QED
  BY <1>3, <1>4, <1>5

-----------------------------------------------------------------------------
\* The inductive step: a list that a sync took stays true, what the sync got
\* done stays done, and so a status it computes is backed when it is written.
LEMMA EarnedStep == EarnedInv /\ [Next]_vars => EarnedInv'
<1> SUFFICES ASSUME EarnedInv, [Next]_vars
             PROVE  ListHolds' /\ Done' /\ AllBacked'
  BY TypeStep, KeptStep DEF EarnedInv
<1>0. /\ TypeOK /\ Fresh /\ ListHolds /\ Done /\ AllBacked /\ Kept
      /\ Len(log) \in Nat /\ Len(log) >= 1 /\ Current \in Version
      /\ \A i \in 1 .. Len(log) : log[i] \in Version /\ log[i].status \in MXJobStatusType
      /\ \A t \in RType : Replicas[t] \in Nat
  BY CurrentVersion, KeptStep, ReplicasAssumption DEF EarnedInv
<1>g. /\ \A t \in RType : /\ Cardinality(Born(t)) \in Nat /\ Cardinality(Born(t)') \in Nat
                          /\ Cardinality(Born(t)) <= Cardinality(Born(t)')
      /\ Backed \subseteq Backed'
  BY <1>0, Grows
<1>a. listed' \in {listed, NoPods} => ListHolds'
  <2>1. \A t \in RType, i \in PodId : NoPods[t][i] = NoPod /\ NoPod.phase = "None"
    BY DEF NoPods, NoPod
  <2>2. QED
    BY <1>0, <2>1, SMTT(30) DEF ListHolds, Kept
\* the versions of the job, while none is written
<1>b. ASSUME log' = log, pc' # "idle" => mxjob'.status \in Backed
      PROVE  AllBacked'
  BY <1>0, <1>b, <1>g DEF AllBacked
<1>d. ASSUME pc' \in {"idle", "getPods", "scheduler", "terminate", "update"}
      PROVE  Done'
  BY <1>d DEF Done, Behind, BehindServices, RType
<1>e. EndSync => ListHolds' /\ Done' /\ pc' = "idle"
  BY <1>a, <1>d DEF EndSync
<1>f. ASSUME UNCHANGED syncVars
      PROVE  ListHolds' /\ Done'
  <2>1. Done'
    BY <1>0, <1>f, <1>g, SMTT(30) DEF Done, syncVars, Kept
  <2>2. QED
    BY <1>a, <1>f, <2>1 DEF syncVars
<1>h. ASSUME NEW v \in Version, log' = Append(log, v), v.status \in Backed,
             pc' # "idle" => pc # "idle" /\ mxjob' = mxjob
      PROVE  AllBacked'
  <2>1. /\ Len(log') = Len(log) + 1
        /\ \A i \in 1 .. Len(log) : log'[i] = log[i]
        /\ log'[Len(log) + 1] = v
    BY <1>0, <1>h, AppendVersion
  <2>2. \A i \in 1 .. Len(log') : log'[i].status \in Backed
    BY <1>0, <1>h, <2>1 DEF AllBacked
  <2>3. QED
    BY <1>0, <1>g, <1>h, <2>2 DEF AllBacked
<1>i. UNCHANGED <<log, syncVars>> => AllBacked'
  BY <1>0, <1>b DEF syncVars, AllBacked
<1>j. ASSUME NEW t \in RType, pc = t, countPods(t), log' = log,
             Cardinality(Born(t)') >= Replicas[t]
      PROVE  ListHolds' /\ Done' /\ AllBacked'
  <2>1. mxjob'.status = statusAfter(mxjob.status, listed, t)
    BY <1>0, <1>j DEF countPods, TypeOK
  <2>2. pc # "idle" /\ pc' = nextAfter(t)
    BY <1>j DEF countPods, RType
  <2>3. mxjob'.status \in Backed
    BY <1>0, <2>1, <2>2, EarnedAfter DEF AllBacked
  <2>4. \A u \in RType : pc' \in Behind(u) => u = t \/ pc \in Behind(u)
    BY <1>j, <2>2, SMTT(30) DEF nextAfter, Behind, RType
  <2>5. pc' \in BehindServices => pc \in BehindServices
    BY <1>j, <2>2 DEF nextAfter, BehindServices, RType
  <2>6. Done'
    BY <1>0, <1>g, <1>j, <2>4, <2>5, SMTT(30) DEF Done, Kept
  <2>7. QED
    BY <1>a, <1>b, <1>j, <2>3, <2>6 DEF countPods
<1>1. CASE Sync
  <2>1. mxjob'.status = createdStatus(log[cacheRV].status) /\ cacheRV \in 1 .. Len(log)
    BY <1>0, <1>1 DEF Sync, TypeOK
  <2>2. mxjob'.status \in Backed
    BY <1>0, <2>1, CreatedStatus, SMTT(30) DEF AllBacked, Backed, Earned, Complete, IsJobSucceed,
       checkCondition
  <2>3. QED
    BY <1>1, <1>a, <1>b, <1>d, <2>2 DEF Sync, apiVars
<1>2. CASE apiError \/ terminateMXJobErr \/ crash \/ \E t \in RType : reconcilePodsErr(t)
  <2>1. EndSync /\ log' = log
    BY <1>2 DEF apiError, terminateMXJobErr, crash, reconcilePodsErr, apiVars
  <2>2. QED
    BY <1>b, <1>e, <2>1
<1>3. CASE getPodsForMXJob
  <2>1. ListHolds'
    <3>1. \A t \in RType, i \in PodId :
              listed'[t][i] = IF pods[t][i].life \in {"live", "terminating"}
                              THEN pods[t][i] ELSE NoPod
      BY <1>3 DEF getPodsForMXJob
    <3>2. pods' = pods /\ NoPod.phase = "None"
      BY <1>3 DEF getPodsForMXJob, apiVars, NoPod
    <3>3. QED
      BY <3>1, <3>2 DEF ListHolds
  <2>2. log' = log /\ mxjob' = mxjob /\ pc # "idle"
    BY <1>3 DEF getPodsForMXJob, apiVars
  <2>3. AllBacked'
    BY <1>0, <1>b, <2>2 DEF AllBacked
  <2>4. QED
    BY <1>3, <1>d, <2>1, <2>3 DEF getPodsForMXJob
<1>4. ASSUME NEW t \in RType, reconcilePods(t)
      PROVE  ListHolds' /\ Done' /\ AllBacked'
  <2>1. pc = t /\ ~NeedsPods(t) /\ countPods(t) /\ log' = log
    BY <1>4 DEF reconcilePods, apiVars
  <2>2. mxjob.status \in Backed
    BY <1>0, <2>1 DEF AllBacked, RType
  <2>3. Cardinality(Born(t)) >= Replicas[t]
    BY <1>0, <2>1, <2>2, NoneMissing
  <2>4. Cardinality(Born(t)') >= Replicas[t]
    BY <1>0, <1>g, <2>3
  <2>5. QED
    BY <1>j, <2>1, <2>4
<1>5. ASSUME NEW t \in RType, reconcilePodsCreate(t)
      PROVE  ListHolds' /\ Done' /\ AllBacked'
  <2>1. pc = t /\ countPods(t) /\ log' = log
    BY <1>5 DEF reconcilePodsCreate
  <2>2. Cardinality(Born(t)') >= Replicas[t]
    BY <1>0, <1>5, CreatedAll DEF reconcilePodsCreate
  <2>3. QED
    BY <1>j, <2>1, <2>2
<1>6. CASE getServicesForMXJob \/ canAdoptService \/ AdoptService \/ reconcileServices
  <2>1. log' = log /\ pc # "idle"
    BY <1>6 DEF getServicesForMXJob, canAdoptService, AdoptService, reconcileServices, createServices, apiVars
  <2>2. CASE EndSync
    BY <1>b, <1>e, <2>1, <2>2
  <2>3. CASE UNCHANGED <<mxjob, listed>> /\ pc \in Behind("scheduler")
             /\ pc' \in {"canAdoptService", "adoptService", "createService", "server"}
             /\ (pc' = "server" => service' # "none")
    <3>1. Done'
      BY <1>0, <1>g, <2>3 DEF Done, Behind, BehindServices, RType
    <3>2. AllBacked'
      BY <1>0, <1>b, <2>1, <2>3 DEF AllBacked
    <3>3. QED
      BY <1>a, <2>3, <3>1, <3>2
  <2>4. QED
    BY <1>6, <2>2, <2>3 DEF getServicesForMXJob, canAdoptService, AdoptService,
       reconcileServices, createServices, Goto, Behind, apiVars
<1>7. CASE initializeMXJob
  <2> DEFINE init == updateMXJobConditions(mxjob.status, "Initialized")
  <2>1. /\ init \in MXJobStatusType
        /\ init.cond["Succeeded"] = mxjob.status.cond["Succeeded"]
    BY <1>0, SetTrue, SMTT(30) DEF TypeOK, ConditionType
  <2>2. mxjob'.status \in {mxjob.status, init} /\ pc = "initialize" /\ log' = log
    BY <1>0, <1>7 DEF initializeMXJob, TypeOK, apiVars
  <2> HIDE DEF init
  <2>3. mxjob.status \in Backed
    BY <1>0, <2>2 DEF AllBacked
  <2>4. service # "none" /\ \A t \in RType : Cardinality(Born(t)) >= Replicas[t]
    BY <1>0, <2>2 DEF Done, Behind, BehindServices, RType
  <2>5. init \in Backed
    BY <2>1, <2>3, <2>4 DEF Backed, Earned, Complete, IsJobSucceed, checkCondition
  <2>6. listed' \in {listed, NoPods} /\ pc' \in {"terminate", "update"}
    BY <1>7 DEF initializeMXJob
  <2>7. QED
    BY <1>a, <1>b, <1>d, <2>2, <2>3, <2>5, <2>6
<1>8. CASE terminateMXJob
  <2>1. /\ mxjob'.status \in MXJobStatusType /\ mxjob'.status.cond = mxjob.status.cond
        /\ pc = "terminate" /\ log' = log
    BY <1>0, <1>8, TerminatedStatus DEF terminateMXJob, TypeOK
  <2>2. mxjob'.status \in Backed
    BY <1>0, <2>1 DEF AllBacked, Backed, Earned, Complete, IsJobSucceed, checkCondition
  <2>3. QED
    BY <1>8, <1>a, <1>b, <1>d, <2>1, <2>2 DEF terminateMXJob
<1>9. CASE updateStatus
  <2>1. CASE log' = log
    BY <1>9, <1>b, <1>e, <2>1 DEF updateStatus
  <2>2. CASE log' = Append(log, [Current EXCEPT !.status = mxjob.status])
    <3> DEFINE v == [Current EXCEPT !.status = mxjob.status]
    <3>1. v \in Version /\ v.status = mxjob.status
      BY <1>0, Zenon DEF Version, TypeOK
    <3> HIDE DEF v
    <3>2. mxjob.status \in Backed
      BY <1>0, <1>9 DEF AllBacked, updateStatus
    <3>3. QED
      BY <1>9, <1>e, <1>h, <2>2, <3>1, <3>2, Zenon DEF updateStatus, v
  <2>3. QED
    BY <1>9, <2>1, <2>2 DEF updateStatus
<1>10. CASE (\E k \in HookKind : hookEnds(k)) \/ handleMXJobFinalizers \/ finalizerHookEnds
            \/ clearFinalizerErr \/ watchEvent \/ relist \/ serviceDeleted \/ PodStep
  <2>1. UNCHANGED <<log, syncVars>>
    BY <1>10, ZenonT(60) DEF hookEnds, handleMXJobFinalizers, finalizerHookEnds, clearFinalizerErr,
       watchEvent, relist, serviceDeleted, apiVars, PodStep, podEnds, podDeleted, podRemoved,
       podInitialized, setPod
  <2>2. QED
    BY <1>f, <1>i, <2>1
<1>11. CASE clearFinalizer \/ touchJob \/ deleteJob
  <2>1. PICK v \in Version : log' = Append(log, v) /\ v.status = Current.status
    BY <1>0, <1>11, UserVersion
  <2>2. UNCHANGED syncVars
    BY <1>11 DEF clearFinalizer, touchJob, deleteJob, userWrites
  <2>3. v.status \in Backed
    BY <1>0, <2>1 DEF AllBacked, Current
  <2>4. QED
    BY <1>f, <1>h, <2>1, <2>2, <2>3 DEF syncVars
<1>12. CASE UNCHANGED vars
  BY <1>12, <1>f, <1>i DEF vars, apiVars
<1>13. QED
  BY <1>1, <1>2, <1>3, <1>4, <1>5, <1>6, <1>7, <1>8, <1>9, <1>10, <1>11, <1>12
     DEF Next, SyncStep, HookStep, EnvStep

\* At the beginning no pod exists and no condition is set.
LEMMA EarnedInit == Init => EarnedInv
<1>1. ASSUME Init PROVE Fresh /\ ListHolds /\ Done /\ AllBacked
  <2>1. \A t \in RType, i \in PodId : pods[t][i] = NoPod /\ listed[t][i] = NoPod
    BY <1>1 DEF Init, NoPods
  <2>2. Fresh /\ ListHolds
    BY <2>1, SMTT(30) DEF Fresh, ListHolds, NoPod
  <2>3. NewStatus \in Backed
    BY NewStatusTyped DEF Backed, Earned, Complete, IsJobSucceed, checkCondition, NewStatus,
       ConditionType
  <2>4. QED
    BY <1>1, <2>2, <2>3 DEF Init, Done, Behind, BehindServices, AllBacked, RType
<1>2. QED
  BY <1>1, InitTyped DEF EarnedInv

\* The inductive invariant holds.
LEMMA EarnedHolds == Spec => []EarnedInv
  BY EarnedInit, EarnedStep, PTL DEF Spec

\* However many replicas a job has, and whatever pods, users, lost answers and
\* crashes do in between, it is written as Succeeded only when as many workers
\* as it has replicas succeeded.
THEOREM SuccessIsEarned == Spec => []SucceededEarned
<1>1. EarnedInv => SucceededEarned
  BY CurrentVersion DEF EarnedInv, AllBacked, Backed, Earned, Won, SucceededEarned, Current
<1>2. QED
  BY <1>1, EarnedHolds, PTL

\* Initialized is written only when the service and as many pods of every type
\* as it has replicas have been created, whatever syncs were cut short.
THEOREM InitializedIsCreated == Spec => []InitializedMeansCreated
<1>1. EarnedInv => InitializedMeansCreated
  BY CurrentVersion DEF EarnedInv, AllBacked, Backed, Complete, Born, InitializedMeansCreated,
     Current
<1>2. QED
  BY <1>1, EarnedHolds, PTL

-----------------------------------------------------------------------------
(* Where no creation times out, the lists the syncs work on are complete. *)

There(t) == filterPodsForMXReplicaType(listed, t)

Visible == \A t \in RType, i \in PodId : pods[t][i].life # "hidden"

\* The places of reconcileMXJobs that are ahead of the creation of a type's
\* pods: until then every pod that exists is on the list.
Ahead(t) ==
    {"scheduler"} \cup
    CASE t = "scheduler" -> {}
      [] t = "server"    -> {"getServices", "canAdoptService", "adoptService", "createService",
                             "server"}
      [] t = "worker"    -> {"getServices", "canAdoptService", "adoptService", "createService",
                             "server", "worker"}

ListComplete == \A t \in RType : /\ Cardinality(There(t)) <= Replicas[t]
                                 /\ pc \in Ahead(t) => Here(t) \subseteq There(t)

\* The counters of a replica status add up to no more than the replicas.
Fits(rs, t) == /\ rs.active >= 0 /\ rs.succeeded >= 0 /\ rs.failed >= 0 /\ rs.gone >= 0
               /\ rs.active + rs.succeeded + rs.failed + rs.gone <= Replicas[t]

Fitting == {s \in MXJobStatusType : \A t \in RType : Fits(s.replicas[t], t)}

\* What terminateMXJob takes from Active was counted there.
ActiveCounted ==
    \A t \in RType : pc \in Behind(t) \cup {"terminate"} =>
        Cardinality(FilterActivePods(listed, t)) <= mxjob.status.replicas[t].active

AllFit == /\ \A i \in 1 .. Len(log) : log[i].status \in Fitting
          /\ mxjob.status \in Fitting

ProvisionInv == EarnedInv /\ Visible /\ NoOverProvision /\ ListComplete /\ ActiveCounted /\ AllFit

-----------------------------------------------------------------------------
\* The counters reconcilePods computes from a list that fits do fit, and count
\* every active pod of the list.
LEMMA ReplicaStatusFits ==
    ASSUME NEW list \in [RType -> [PodId -> Pod]], NEW t \in RType, NEW initialized \in BOOLEAN,
           Cardinality(filterPodsForMXReplicaType(list, t)) <= Replicas[t]
    PROVE  /\ Fits(replicaStatus(list, t, initialized), t)
           /\ Cardinality(FilterActivePods(list, t)) <= replicaStatus(list, t, initialized).active
<1> DEFINE A == FilterActivePods(list, t)
           W == filterPods(list, t, "Succeeded")
           F == filterPods(list, t, "Failed")
           L0 == filterPodsForMXReplicaType(list, t)
<1>1. \A i \in PodId : list[t][i] \in Pod
  OBVIOUS
<1>2. A \cup W \cup F \subseteq L0 /\ L0 \subseteq PodId
  BY <1>1 DEF FilterActivePods, filterPods, filterPodsForMXReplicaType, IsPodActive, NoPod
<1>3. A \cap W = {} /\ (A \cup W) \cap F = {}
  BY DEF FilterActivePods, filterPods, IsPodActive
<1>4. A \subseteq PodId /\ W \subseteq PodId /\ F \subseteq PodId /\ A \cup W \subseteq PodId
  BY DEF FilterActivePods, filterPods
<1>5. Missing(list, t) = Replicas[t] - Cardinality(L0)
  BY DEF Missing
<1>6. /\ replicaStatus(list, t, initialized).succeeded = Cardinality(W)
      /\ replicaStatus(list, t, initialized).failed = Cardinality(F)
      /\ replicaStatus(list, t, initialized).active =
            Cardinality(A) + (IF initialized THEN 0
                              ELSE IF Missing(list, t) > 0 THEN Missing(list, t) ELSE 0)
      /\ replicaStatus(list, t, initialized).gone =
            IF initialized THEN IF Missing(list, t) > 0 THEN Missing(list, t) ELSE 0 ELSE 0
  BY DEF replicaStatus
<1> HIDE DEF A, W, F, L0
<1>7. Cardinality(A \cup W \cup F) = Cardinality(A) + Cardinality(W) + Cardinality(F)
  <2>1. Cardinality(A \cup W) = Cardinality(A) + Cardinality(W)
    BY <1>3, <1>4, CountUnion
  <2>2. Cardinality((A \cup W) \cup F) = Cardinality(A \cup W) + Cardinality(F)
    BY <1>3, <1>4, CountUnion
  <2>3. QED
    BY <2>1, <2>2
<1>8. /\ Cardinality(A) \in Nat /\ Cardinality(W) \in Nat /\ Cardinality(F) \in Nat
      /\ Cardinality(L0) \in Nat /\ Replicas[t] \in Nat
      /\ Cardinality(A \cup W \cup F) <= Cardinality(L0)
  BY <1>2, <1>4, CountSubset, CountTyped, ReplicasAssumption
<1>9. Cardinality(L0) <= Replicas[t]
  BY DEF L0
<1>10. QED
  BY <1>5, <1>6, <1>7, <1>8, <1>9, SMTT(30) DEF Fits, A

\* terminateMXJob moves a number that was counted from Active to Gone.
LEMMA TerminatedFits ==
    ASSUME NEW status \in Fitting, NEW list,
           \A t \in RType : Cardinality(FilterActivePods(list, t)) <= status.replicas[t].active
    PROVE  terminatedStatus(status, list) \in Fitting
<1> DEFINE num(t) == Cardinality(FilterActivePods(list, t))
           moved(t) == [status.replicas[t] EXCEPT !.gone = @ + num(t), !.active = @ - num(t)]
<1>1. status \in MXJobStatusType /\ \A t \in RType : status.replicas[t] \in MXReplicaStatus
  BY DEF Fitting, MXJobStatusType
<1>2. terminatedStatus(status, list) \in MXJobStatusType
  BY <1>1, TerminatedStatus
<1>3. \A t \in RType : terminatedStatus(status, list).replicas[t] = moved(t)
  BY <1>1 DEF terminatedStatus, MXJobStatusType
<1>4. ASSUME NEW t \in RType
      PROVE  Fits(moved(t), t)
  <2>1. num(t) \in Nat /\ Replicas[t] \in Nat /\ num(t) <= status.replicas[t].active
    BY CountTyped, ReplicasAssumption DEF FilterActivePods
  <2> HIDE DEF num
  <2>2. /\ moved(t).active = status.replicas[t].active - num(t)
        /\ moved(t).gone = status.replicas[t].gone + num(t)
        /\ moved(t).succeeded = status.replicas[t].succeeded
        /\ moved(t).failed = status.replicas[t].failed
    BY <1>1 DEF MXReplicaStatus
  <2> HIDE DEF moved
  <2>3. Fits(status.replicas[t], t)
    BY DEF Fitting
  <2>4. /\ status.replicas[t].active \in Int /\ status.replicas[t].gone \in Int
        /\ status.replicas[t].succeeded \in Int /\ status.replicas[t].failed \in Int
    BY <1>1 DEF MXReplicaStatus
  <2>5. QED
    BY <2>1, <2>2, <2>3, <2>4 DEF Fits
<1>5. QED
  BY <1>2, <1>3, <1>4, Zenon DEF Fitting

-----------------------------------------------------------------------------
\* Pods come to exist only where reconcilePods creates them, and no more than
\* are missing from the list.
Created(t) == /\ pc = t /\ pc' # t
              /\ \E S \in SUBSET PodId : /\ Cardinality(S) <= Missing(listed, t)
                                         /\ Here(t)' \subseteq Here(t) \cup S

\* Every other step leaves at most the pods that exist.
LEMMA HereStep ==
    ASSUME EarnedInv, Visible, "timeout" \notin Env, [Next]_vars
    PROVE  /\ Visible'
           /\ \A u \in RType : Here(u)' \subseteq Here(u) \/ Created(u)
<1>0. TypeOK /\ ListHolds
  BY DEF EarnedInv
<1>a. ASSUME \A u \in RType, i \in PodId :
                 /\ pods'[u][i].life # "hidden"
                 /\ pods'[u][i].life \in {"live", "terminating"} =>
                        pods[u][i].life \in {"live", "terminating"}
      PROVE  Visible' /\ \A u \in RType : Here(u)' \subseteq Here(u)
  BY <1>a DEF Visible, Here
<1>b. UNCHANGED pods => Visible' /\ \A u \in RType : Here(u)' \subseteq Here(u)
  BY DEF Visible, Here
<1>1. ASSUME NEW t \in RType, reconcilePodsCreate(t) \/ reconcilePodsErr(t)
      PROVE  Visible' /\ \A u \in RType : Here(u)' \subseteq Here(u) \/ Created(u)
  <2>1. pc = t /\ pc' # t
    BY <1>1 DEF reconcilePodsCreate, reconcilePodsErr, countPods, nextAfter, EndSync, RType
  <2>a. PICK S \in SUBSET Unborn(t) : \E H \in SUBSET S : createPods(t, S, H)
    BY <1>1 DEF reconcilePodsCreate, reconcilePodsErr
  <2>2. PICK H \in SUBSET S : createPods(t, S, H)
    BY <2>a
  <2>3. H = {} /\ Cardinality(S) <= Missing(listed, t) /\ S \in SUBSET PodId
    BY <2>2 DEF createPods, Unborn
  <2>4. \A u \in RType, i \in PodId :
            pods'[u][i] = IF u = t /\ i \in S THEN [phase |-> "Running", life |-> "live"]
                                             ELSE pods[u][i]
    BY <1>0, <2>2, <2>3 DEF createPods, TypeOK
  <2>5. Visible'
    BY <2>4, SMTT(30) DEF Visible
  <2>6. \A u \in RType : u # t => Here(u)' \subseteq Here(u)
    BY <2>4 DEF Here
  <2>7. Here(t)' \subseteq Here(t) \cup S
    BY <2>4 DEF Here
  <2>8. Created(t)
    BY <2>1, <2>3, <2>7 DEF Created
  <2>9. QED
    BY <2>5, <2>6, <2>8
<1>2. CASE terminateMXJob \/ terminateMXJobErr
  <2>1. PICK S \in SUBSET {x \in Doomed : pods[x[1]][x[2]].life # "gone"} : deletePods(S)
    BY <1>2 DEF terminateMXJob, terminateMXJobErr
  <2>2. \A u \in RType, i \in PodId :
            pods'[u][i].life = IF <<u, i>> \in S THEN "terminating" ELSE pods[u][i].life
    BY <1>0, <2>1, SMTT(30) DEF deletePods, TypeOK, Pod
  <2>3. \A u \in RType, i \in PodId :
            <<u, i>> \in S => listed[u][i] # NoPod /\ pods[u][i].life # "gone"
    <3> TAKE u \in RType, i \in PodId
    <3> HAVE <<u, i>> \in S
    <3>1. <<u, i>> \in Doomed /\ pods[<<u, i>>[1]][<<u, i>>[2]].life # "gone"
      BY <2>1
    <3>2. <<u, i>>[1] = u /\ <<u, i>>[2] = i
      OBVIOUS
    <3>3. IsPodActive(listed[u][i]) /\ pods[u][i].life # "gone"
      BY <3>1, <3>2 DEF Doomed
    <3>4. QED
      BY <3>3 DEF IsPodActive, NoPod
  <2>4. \A u \in RType, i \in PodId : pods[u][i].life \in Life
    BY <1>0, SMTT(30) DEF TypeOK, Pod
  <2>5. \A u \in RType, i \in PodId :
            <<u, i>> \in S => pods[u][i].life \in {"live", "terminating"}
    BY <1>0, <2>3, <2>4 DEF ListHolds, Visible, Life
  <2>6. \A u \in RType, i \in PodId :
            /\ pods'[u][i].life # "hidden"
            /\ pods'[u][i].life \in {"live", "terminating"} =>
                   pods[u][i].life \in {"live", "terminating"}
    <3>1. \A u \in RType, i \in PodId : pods[u][i].life # "hidden"
      BY DEF Visible
    <3> TAKE u \in RType, i \in PodId
    <3>2. CASE <<u, i>> \in S
      BY <2>2, <2>5, <3>2
    <3>3. CASE <<u, i>> \notin S
      BY <2>2, <3>1, <3>3
    <3>4. QED
      BY <3>2, <3>3
  <2>7. QED
    BY <1>a, <2>6
<1>3. CASE PodStep
  <2>1. PICK t \in RType, i \in PodId :
           podEnds(t, i) \/ podDeleted(t, i) \/ podRemoved(t, i) \/ podInitialized(t, i)
    BY <1>3 DEF PodStep
  <2>2. PICK pod : /\ setPod(t, i, pod)
                   /\ pod.life # "hidden"
                   /\ pods[t][i].life \in {"live", "terminating"}
    <3>1. pods[t][i] \in Pod
      BY <1>0, SMTT(30) DEF TypeOK
    <3>2. CASE podEnds(t, i)
      BY <3>1, <3>2 DEF podEnds, Pod
    <3>3. CASE podDeleted(t, i)
      BY <3>1, <3>3 DEF podDeleted, Pod
    <3>4. CASE podRemoved(t, i)
      BY <3>1, <3>4 DEF podRemoved, Pod
    <3>5. ~podInitialized(t, i)
      BY DEF podInitialized, Visible
    <3>6. QED
      BY <2>1, <3>2, <3>3, <3>4, <3>5
  <2>3. \A u \in RType, j \in PodId :
            pods'[u][j] = IF u = t /\ j = i THEN pod ELSE pods[u][j]
    BY <1>0, <2>2 DEF setPod, TypeOK
  <2>4. QED
    BY <1>a, <2>2, <2>3, SMTT(30) DEF Visible
<1>4. CASE Sync \/ apiError \/ getPodsForMXJob \/ getServicesForMXJob \/ canAdoptService
           \/ AdoptService \/ reconcileServices \/ initializeMXJob \/ updateStatus
           \/ \E t \in RType : reconcilePods(t)
  BY <1>4, <1>b DEF Sync, apiError, getPodsForMXJob, getServicesForMXJob, canAdoptService,
     AdoptService, reconcileServices, createServices, initializeMXJob, updateStatus, reconcilePods, apiVars
<1>5. CASE HookStep \/ watchEvent \/ relist \/ serviceDeleted \/ touchJob \/ deleteJob \/ crash
  BY <1>5, <1>b DEF HookStep, hookEnds, handleMXJobFinalizers, finalizerHookEnds, clearFinalizer,
     clearFinalizerErr, watchEvent, relist, serviceDeleted, touchJob, deleteJob, userWrites,
     crash, apiVars
<1>6. CASE UNCHANGED vars
  BY <1>6, <1>b DEF vars, apiVars
<1>7. QED
  BY <1>1, <1>2, <1>3, <1>4, <1>5, <1>6 DEF Next, SyncStep, EnvStep

\* Pods that are created on top of a complete list fill it up to the replicas.
LEMMA ProvisionStep ==
    ASSUME ProvisionInv, "timeout" \notin Env, [Next]_vars
    PROVE  Visible' /\ NoOverProvision'
<1>1. /\ Visible'
      /\ \A u \in RType : Here(u)' \subseteq Here(u) \/ Created(u)
  BY HereStep DEF ProvisionInv
<1>2. ASSUME NEW u \in RType
      PROVE  Cardinality(Here(u)') <= Replicas[u]
  <2>1. /\ Here(u) \subseteq PodId /\ Here(u)' \subseteq PodId /\ There(u) \subseteq PodId
        /\ Cardinality(Here(u)') \in Nat /\ Cardinality(Here(u)) \in Nat
        /\ Cardinality(There(u)) \in Nat /\ Replicas[u] \in Nat
    <3>1. Here(u) \subseteq PodId /\ Here(u)' \subseteq PodId /\ There(u) \subseteq PodId
      BY DEF Here, There, filterPodsForMXReplicaType
    <3>2. QED
      BY <3>1, CountTyped, ReplicasAssumption
  <2>2. CASE Here(u)' \subseteq Here(u)
    <3>1. Cardinality(Here(u)') <= Cardinality(Here(u))
      BY <2>1, <2>2, CountSubset
    <3>2. Cardinality(Here(u)) <= Replicas[u]
      BY DEF ProvisionInv, NoOverProvision, Here
    <3>3. QED
      BY <2>1, <3>1, <3>2
  <2>3. CASE Created(u)
    <3>1. PICK S \in SUBSET PodId : /\ Cardinality(S) <= Missing(listed, u)
                                    /\ Here(u)' \subseteq Here(u) \cup S
      BY <2>3 DEF Created
    <3>2. Here(u) \subseteq There(u)
      BY <2>3 DEF Created, ProvisionInv, ListComplete, Ahead, RType
    <3>3. Here(u)' \subseteq There(u) \cup (S \ There(u))
      BY <3>1, <3>2
    <3>4. Cardinality(There(u) \cup (S \ There(u))) =
             Cardinality(There(u)) + Cardinality(S \ There(u))
      BY <2>1, CountUnion
    <3>5. /\ Cardinality(S \ There(u)) \in Nat /\ Cardinality(S) \in Nat
          /\ Cardinality(S \ There(u)) <= Cardinality(S)
      BY CountSubset
    <3>6. Cardinality(Here(u)') <= Cardinality(There(u) \cup (S \ There(u)))
      BY <2>1, <3>3, CountSubset
    <3>7. Missing(listed, u) = Replicas[u] - Cardinality(There(u))
      BY DEF Missing, There
    <3>8. QED
      BY <2>1, <3>1, <3>4, <3>5, <3>6, <3>7
  <2>4. QED
    BY <1>1, <2>2, <2>3
<1>3. NoOverProvision'
  BY <1>2 DEF NoOverProvision, Here
<1>4. QED
  BY <1>1, <1>3

\* The inductive step.
LEMMA ProvisionInvStep ==
    ASSUME ProvisionInv, "timeout" \notin Env, [Next]_vars
    PROVE  ProvisionInv'
<1> SUFFICES ListComplete' /\ ActiveCounted' /\ AllFit'
  BY EarnedStep, ProvisionStep DEF ProvisionInv
<1>0. /\ TypeOK /\ EarnedInv /\ NoOverProvision /\ ListComplete /\ ActiveCounted /\ AllFit
      /\ Len(log) \in Nat /\ Len(log) >= 1 /\ Current \in Version
      /\ \A i \in 1 .. Len(log) : log[i] \in Version /\ log[i].status \in MXJobStatusType
      /\ \A t \in RType : Replicas[t] \in Nat
      /\ \A t \in RType : Here(t)' \subseteq Here(t) \/ Created(t)
      /\ NewStatus \in Fitting
  <2>1. NewStatus \in Fitting
    BY NewStatusTyped, ReplicasAssumption, SMTT(30) DEF Fitting, Fits, NewStatus, ZeroReplicaStatus
  <2>2. QED
    BY <2>1, CurrentVersion, HereStep, ReplicasAssumption DEF ProvisionInv, EarnedInv
\* the ends of a sync, and the places ahead of the list
<1>a. ASSUME listed' \in {listed, NoPods}, pc' \in {"idle", "getPods", "update"}
      PROVE  ListComplete' /\ ActiveCounted'
  <2>1. filterPodsForMXReplicaType(NoPods, "scheduler") = {}
        /\ filterPodsForMXReplicaType(NoPods, "server") = {}
        /\ filterPodsForMXReplicaType(NoPods, "worker") = {}
    BY DEF filterPodsForMXReplicaType, NoPods, RType
  <2>2. \A t \in RType : There(t)' \in {There(t), {}}
    BY <1>a, <2>1 DEF There, RType
  <2>3. \A t \in RType : Cardinality(There(t)') <= Replicas[t]
    <3>1. Cardinality({}) = 0
      BY FS_EmptySet
    <3> TAKE t \in RType
    <3>2. There(t)' = There(t) \/ There(t)' = {}
      BY <2>2
    <3>3. Cardinality(There(t)) <= Replicas[t] /\ 0 <= Replicas[t]
      BY <1>0 DEF ListComplete
    <3>4. QED
      BY <3>1, <3>2, <3>3
  <2>4. \A t \in RType : pc' \notin Ahead(t) /\ pc' \notin Behind(t) \cup {"terminate"}
    BY <1>a DEF Ahead, Behind, RType
  <2>5. QED
    BY <2>3, <2>4 DEF ListComplete, ActiveCounted
\* the steps of the others
<1>b. ASSUME UNCHANGED syncVars, \A t \in RType : Here(t)' \subseteq Here(t)
      PROVE  ListComplete' /\ ActiveCounted'
  BY <1>0, <1>b DEF ListComplete, ActiveCounted, syncVars, There
<1>c. ASSUME log' = log, mxjob'.status \in Fitting
      PROVE  AllFit'
  BY <1>0, <1>c DEF AllFit
<1>d. ASSUME NEW v \in Version, log' = Append(log, v), v.status \in Fitting,
             mxjob'.status \in Fitting
      PROVE  AllFit'
  <2>1. /\ Len(log') = Len(log) + 1
        /\ \A i \in 1 .. Len(log) : log'[i] = log[i]
        /\ log'[Len(log) + 1] = v
    BY <1>0, <1>d, AppendVersion
  <2>2. QED
    BY <1>0, <1>d, <2>1 DEF AllFit
<1>e. EndSync => ListComplete' /\ ActiveCounted' /\ mxjob'.status \in Fitting
  BY <1>0, <1>a DEF EndSync, NoJob
<1>f. ASSUME NEW t \in RType, pc = t, countPods(t), log' = log
      PROVE  ListComplete' /\ ActiveCounted' /\ AllFit'
  <2> DEFINE after == statusAfter(mxjob.status, listed, t)
             rs == replicaStatus(listed, t, checkCondition(mxjob.status, "Initialized"))
  <2>0. mxjob.status \in MXJobStatusType
    BY <1>0 DEF TypeOK
  <2>1. mxjob'.status = after /\ listed' = listed /\ pc' = nextAfter(t)
    BY <1>0, <1>f DEF countPods, TypeOK
  <2>2. after \in MXJobStatusType /\ after.replicas = [mxjob.status.replicas EXCEPT ![t] = rs]
    BY <2>0, StatusAfter
  <2>3. Fits(rs, t) /\ Cardinality(FilterActivePods(listed, t)) <= rs.active
    <3>1. Cardinality(filterPodsForMXReplicaType(listed, t)) <= Replicas[t]
      BY <1>0 DEF ListComplete, There
    <3>2. checkCondition(mxjob.status, "Initialized") \in BOOLEAN
      BY DEF checkCondition
    <3>3. QED
      BY <1>0, <3>1, <3>2, ReplicaStatusFits DEF TypeOK
  <2> HIDE DEF after, rs
  <2>4. \A u \in RType : after.replicas[u] = IF u = t THEN rs ELSE mxjob.status.replicas[u]
    BY <2>0, <2>2 DEF MXJobStatusType
  <2>5. after \in Fitting
    BY <1>0, <2>2, <2>3, <2>4, Zenon DEF Fitting, AllFit
  <2>6. \A u \in RType : /\ pc' \in Ahead(u) => u # t /\ pc \in Ahead(u)
                         /\ pc' \in Behind(u) \cup {"terminate"} => u = t \/ pc \in Behind(u)
    BY <1>f, <2>1 DEF nextAfter, Ahead, Behind, RType
  <2>7. ListComplete'
    <3>1. \A u \in RType : u # t => Here(u)' \subseteq Here(u)
      BY <1>0, <1>f DEF Created
    <3>2. QED
      BY <1>0, <2>1, <2>6, <3>1 DEF ListComplete, There
  <2>8. ActiveCounted'
    BY <1>0, <2>1, <2>3, <2>4, <2>6 DEF ActiveCounted
  <2>9. QED
    BY <1>c, <1>f, <2>1, <2>5, <2>7, <2>8
<1>1. CASE Sync
  <2>1. mxjob'.status = createdStatus(log[cacheRV].status) /\ cacheRV \in 1 .. Len(log)
    BY <1>0, <1>1 DEF Sync, TypeOK
  <2>2. \A s \in MXJobStatusType : createdStatus(s).replicas = s.replicas
    BY SetTrue DEF createdStatus, ConditionType
  <2>3. mxjob'.status \in Fitting
    BY <1>0, <2>1, <2>2, CreatedStatus, SMTT(30) DEF AllFit, Fitting
  <2>4. QED
    BY <1>1, <1>a, <1>c, <2>3 DEF Sync, apiVars
<1>2. CASE apiError \/ terminateMXJobErr \/ crash \/ \E t \in RType : reconcilePodsErr(t)
  <2>1. EndSync /\ log' = log
    BY <1>2 DEF apiError, terminateMXJobErr, crash, reconcilePodsErr, apiVars
  <2>2. QED
    BY <1>c, <1>e, <2>1
<1>3. CASE getPodsForMXJob
  <2>1. \A t \in RType, i \in PodId :
            listed'[t][i] = IF pods[t][i].life \in {"live", "terminating"}
                            THEN pods[t][i] ELSE NoPod
    BY <1>3 DEF getPodsForMXJob
  <2>2. pods' = pods /\ log' = log /\ mxjob' = mxjob /\ pc' = "scheduler"
    BY <1>3 DEF getPodsForMXJob, apiVars
  <2>3. \A t \in RType : There(t)' = Here(t) /\ Here(t)' = Here(t)
    BY <2>1, <2>2, SMTT(30) DEF There, Here, filterPodsForMXReplicaType, NoPod
  <2>4. \A t \in RType : Cardinality(Here(t)) <= Replicas[t]
    BY <1>0 DEF NoOverProvision, Here
  <2>5. ListComplete'
    BY <2>3, <2>4 DEF ListComplete
  <2>6. ActiveCounted'
    BY <2>2 DEF ActiveCounted, Behind, RType
  <2>7. QED
    BY <1>0, <1>c, <2>2, <2>5, <2>6 DEF AllFit
<1>4. ASSUME NEW t \in RType, reconcilePods(t) \/ reconcilePodsCreate(t)
      PROVE  ListComplete' /\ ActiveCounted' /\ AllFit'
  BY <1>4, <1>f DEF reconcilePods, reconcilePodsCreate, apiVars
<1>5. CASE getServicesForMXJob \/ canAdoptService \/ AdoptService \/ reconcileServices
  <2>1. log' = log /\ pods' = pods
    BY <1>5 DEF getServicesForMXJob, canAdoptService, AdoptService, reconcileServices, createServices, apiVars
  <2>2. CASE EndSync
    BY <1>c, <1>e, <2>1, <2>2
  <2>3. CASE UNCHANGED <<mxjob, listed>>
             /\ pc \in {"getServices", "canAdoptService", "adoptService", "createService"}
             /\ pc' \in {"canAdoptService", "adoptService", "createService", "server"}
    <3>1. \A u \in RType : /\ pc' \in Ahead(u) => pc \in Ahead(u)
                           /\ pc' \in Behind(u) \cup {"terminate"} => pc \in Behind(u)
      BY <2>3 DEF Ahead, Behind, RType
    <3>2. \A u \in RType : Here(u)' = Here(u) /\ There(u)' = There(u)
      BY <2>1, <2>3 DEF Here, There
    <3>3. ListComplete'
      BY <1>0, <3>1, <3>2 DEF ListComplete
    <3>4. ActiveCounted'
      BY <1>0, <2>3, <3>1 DEF ActiveCounted
    <3>5. QED
      BY <1>0, <1>c, <2>1, <2>3, <3>3, <3>4 DEF AllFit
  <2>4. QED
    BY <1>5, <2>2, <2>3 DEF getServicesForMXJob, canAdoptService, AdoptService,
       reconcileServices, createServices, Goto
<1>6. CASE initializeMXJob
  <2> DEFINE init == updateMXJobConditions(mxjob.status, "Initialized")
  <2>1. init \in MXJobStatusType /\ init.replicas = mxjob.status.replicas
    BY <1>0, SetTrue DEF TypeOK, ConditionType
  <2>2. mxjob'.status \in {mxjob.status, init} /\ pc = "initialize" /\ log' = log
    BY <1>0, <1>6 DEF initializeMXJob, TypeOK, apiVars
  <2> HIDE DEF init
  <2>3. mxjob'.status \in Fitting /\ mxjob'.status.replicas = mxjob.status.replicas
    BY <1>0, <2>1, <2>2 DEF AllFit, Fitting
  <2>4. CASE pc' = "terminate" /\ listed' = listed
    <3>1. \A u \in RType : pc \in Behind(u) /\ pc' \notin Ahead(u)
      BY <2>2, <2>4 DEF Behind, Ahead, RType
    <3>2. ListComplete' /\ ActiveCounted'
      BY <1>0, <2>3, <2>4, <3>1 DEF ListComplete, ActiveCounted, There
    <3>3. QED
      BY <1>c, <2>2, <2>3, <3>2
  <2>5. CASE pc' = "update" /\ listed' = NoPods
    BY <1>a, <1>c, <2>2, <2>3, <2>5
  <2>6. QED
    BY <1>6, <2>4, <2>5 DEF initializeMXJob
<1>7. CASE terminateMXJob
  <2>1. /\ mxjob'.status = terminatedStatus(mxjob.status, listed)
        /\ pc = "terminate" /\ pc' = "update" /\ listed' = NoPods /\ log' = log
    BY <1>0, <1>7 DEF terminateMXJob, TypeOK
  <2>2. mxjob'.status \in Fitting
    BY <1>0, <2>1, TerminatedFits DEF AllFit, ActiveCounted
  <2>3. QED
    BY <1>a, <1>c, <2>1, <2>2
<1>8. CASE updateStatus
  <2>1. CASE log' = log
    BY <1>8, <1>c, <1>e, <2>1 DEF updateStatus
  <2>2. CASE log' = Append(log, [Current EXCEPT !.status = mxjob.status])
    <3> DEFINE v == [Current EXCEPT !.status = mxjob.status]
    <3>1. v \in Version /\ v.status = mxjob.status
      BY <1>0 DEF Version, TypeOK
    <3> HIDE DEF v
    <3>2. QED
      BY <1>0, <1>8, <1>d, <1>e, <2>2, <3>1 DEF updateStatus, AllFit, v
  <2>3. QED
    BY <1>8, <2>1, <2>2 DEF updateStatus
<1>9. CASE (\E k \in HookKind : hookEnds(k)) \/ handleMXJobFinalizers \/ finalizerHookEnds
           \/ clearFinalizerErr \/ watchEvent \/ relist \/ serviceDeleted \/ PodStep
           \/ UNCHANGED vars
  <2>1. UNCHANGED <<log, syncVars>>
    BY <1>9, ZenonT(60) DEF hookEnds, handleMXJobFinalizers, finalizerHookEnds, clearFinalizerErr,
       watchEvent, relist, serviceDeleted, apiVars, PodStep, podEnds, podDeleted, podRemoved,
       podInitialized, setPod, vars
  <2>2. QED
    BY <1>0, <1>b, <1>c, <2>1 DEF syncVars, AllFit, Created
<1>10. CASE clearFinalizer \/ touchJob \/ deleteJob
  <2>1. PICK v \in Version : log' = Append(log, v) /\ v.status = Current.status
    BY <1>0, <1>10, UserVersion
  <2>2. UNCHANGED syncVars
    BY <1>10 DEF clearFinalizer, touchJob, deleteJob, userWrites
  <2>3. v.status \in Fitting
    BY <1>0, <2>1 DEF AllFit, Current
  <2>4. QED
    BY <1>0, <1>b, <1>d, <2>1, <2>2, <2>3 DEF syncVars, AllFit, Created
<1>11. QED
  BY <1>1, <1>2, <1>3, <1>4, <1>5, <1>6, <1>7, <1>8, <1>9, <1>10
     DEF Next, SyncStep, HookStep, EnvStep

\* The inductive invariant holds.
LEMMA ProvisionHolds == ASSUME "timeout" \notin Env PROVE Spec => []ProvisionInv
<1>1. ASSUME Init PROVE Visible /\ NoOverProvision /\ ListComplete /\ ActiveCounted /\ AllFit
  <2>1. \A t \in RType, i \in PodId : pods[t][i] = NoPod /\ listed[t][i] = NoPod
    BY <1>1 DEF Init, NoPods
  <2>2. /\ Visible
        /\ \A t \in RType : Here(t) = {} /\ There(t) = {}
    BY <2>1 DEF Visible, Here, There, filterPodsForMXReplicaType, NoPod
  <2>3. \A t \in RType : Cardinality({}) <= Replicas[t]
    BY FS_EmptySet, ReplicasAssumption, SMTT(30)
  <2>4. NoOverProvision /\ ListComplete
    BY <2>2, <2>3, Zenon DEF NoOverProvision, ListComplete, Here
  <2>5. NewStatus \in Fitting
    BY NewStatusTyped, ReplicasAssumption, SMTT(30) DEF Fitting, Fits, NewStatus, ZeroReplicaStatus
  <2>6. ActiveCounted /\ AllFit
    BY <1>1, <2>5 DEF Init, ActiveCounted, AllFit, Behind, RType, NoJob
  <2>7. QED
    BY <2>2, <2>4, <2>6
<1>2. Init => EarnedInv
  BY EarnedInit
<1>3. Init => ProvisionInv
  BY <1>1, <1>2 DEF ProvisionInv
<1>4. ProvisionInv /\ [Next]_vars => ProvisionInv'
  BY ProvisionInvStep
<1>5. QED
  BY <1>3, <1>4, PTL DEF Spec

\* Unless the API server answers a creation with a timeout, the pods of a type
\* never outnumber its replicas, however many there are: syncs that are cut
\* short, that work on stale copies or that a crash repeats create only what
\* their complete list lacks.
THEOREM NeverOverProvisions ==
    ASSUME "timeout" \notin Env
    PROVE  Spec => []NoOverProvision
<1>1. ProvisionInv => NoOverProvision
  BY DEF ProvisionInv
<1>2. QED
  BY <1>1, ProvisionHolds, PTL

\* Under the same condition the counters of every written replica status are
\* natural numbers that add up to no more than the replicas.
THEOREM ReplicasAreAccounted ==
    ASSUME "timeout" \notin Env
    PROVE  Spec => []ReplicasAccounted
<1>1. ASSUME ProvisionInv
      PROVE  ReplicasAccounted
  <2>1. TypeOK /\ AllFit
    BY <1>1 DEF ProvisionInv, EarnedInv
  <2>2. Current.status \in Fitting
    BY <2>1, CurrentVersion DEF AllFit, Current
  <2>3. QED
    BY <2>2 DEF Fitting, Fits, ReplicasAccounted
<1>2. QED
  BY <1>1, ProvisionHolds, PTL
-----------------------------------------------------------------------------
(* Where, besides, nobody else deletes pods, a job fails for a reason. *)

PodFailed == \E t \in RType, i \in PodId : pods[t][i].phase = "Failed"

\* A job that does not exist any more is not written.
Excused == PodFailed \/ ~Current.exists

\* All the workers succeeded, according to the list.
WonListed == Cardinality(filterPods(listed, "worker", "Succeeded")) >= Replicas["worker"]

\* The places of reconcileMXJobs from the list to the last reconcilePods.
Weighing == {"getServices", "canAdoptService", "adoptService", "createService"} \cup RType

\* Workers are not deleted; other pods are when the workers are through.
WorkersKept == Excused \/ Lost("worker") = {}

LossDecided == Excused \/ (\A t \in RType : Lost(t) = {}) \/ Cardinality(Won) >= Replicas["worker"]

\* On the way a sync may take pods that an earlier sync deleted for gone, and
\* the job for failed; but then it sees that all workers succeeded.
Weighed ==
    /\ pc = "getPods" => ~IsJobFinished(mxjob.status)
    /\ pc \in Weighing =>
         /\ ~IsJobSucceed(mxjob.status)
         /\ Excused \/ WonListed \/
              /\ ~IsJobFailed(mxjob.status)
              /\ checkCondition(mxjob.status, "Initialized") =>
                     \A t \in RType : Missing(listed, t) <= 0

\* The last reconcilePods has taken that back.
Concluded ==
    /\ pc \in {"initialize", "terminate", "update"} /\ IsJobFailed(mxjob.status) => Excused
    /\ pc \in {"initialize", "terminate"} /\ IsJobSucceed(mxjob.status) => WonListed
    /\ pc = "terminate" => IsJobFinished(mxjob.status)

FailedCaused == \A i \in 1 .. Len(log) : IsJobFailed(log[i].status) => PodFailed

CauseInv == ProvisionInv /\ WorkersKept /\ LossDecided /\ Weighed /\ Concluded /\ FailedCaused

-----------------------------------------------------------------------------
\* A job that is gone stays gone.
LEMMA GoneStaysGone == TypeOK /\ [Next]_vars => (Current'.exists => Current.exists)
<1> SUFFICES ASSUME TypeOK, [Next]_vars, ~Current.exists
             PROVE  ~Current'.exists
  BY DEF Current
<1>0. Current \in Version /\ Len(log) \in Nat /\ Len(log) >= 1
  BY CurrentVersion
<1>1. CASE log' = log
  BY <1>1 DEF Current
<1>2. CASE updateStatus \/ clearFinalizer \/ touchJob \/ deleteJob
  BY <1>1, <1>2 DEF updateStatus, accepted, clearFinalizer, touchJob, deleteJob, userWrites
<1>3. CASE Sync \/ apiError \/ getPodsForMXJob \/ getServicesForMXJob \/ canAdoptService
           \/ AdoptService \/ reconcileServices \/ initializeMXJob \/ terminateMXJob
           \/ terminateMXJobErr \/ \E t \in RType :
                  reconcilePods(t) \/ reconcilePodsCreate(t) \/ reconcilePodsErr(t)
  BY <1>1, <1>3 DEF Sync, apiError, getPodsForMXJob, getServicesForMXJob, canAdoptService,
     AdoptService, reconcileServices, initializeMXJob, terminateMXJob, terminateMXJobErr,
     reconcilePods, reconcilePodsCreate, reconcilePodsErr, apiVars
<1>4. CASE (\E k \in HookKind : hookEnds(k)) \/ handleMXJobFinalizers \/ finalizerHookEnds
           \/ clearFinalizerErr \/ watchEvent \/ relist \/ serviceDeleted \/ PodStep
           \/ crash \/ UNCHANGED vars
  BY <1>1, <1>4, ZenonT(60) DEF hookEnds, handleMXJobFinalizers, finalizerHookEnds,
     clearFinalizerErr, watchEvent, relist, serviceDeleted, apiVars, PodStep, podEnds, podDeleted,
     podRemoved, podInitialized, setPod, crash, vars
<1>5. QED
  BY <1>2, <1>3, <1>4 DEF Next, SyncStep, HookStep, EnvStep

\* So an excuse stays one.
LEMMA ExcuseStays ==
    ASSUME EarnedInv, [Next]_vars
    PROVE  (PodFailed => PodFailed') /\ (Excused => Excused')
<1>1. Kept /\ (Current'.exists => Current.exists)
  BY KeptStep, GoneStaysGone DEF EarnedInv
<1>2. PodFailed => PodFailed'
  BY <1>1 DEF PodFailed, Kept
<1>3. QED
  BY <1>1, <1>2 DEF Excused, Current

\* Where nobody else deletes pods, those of an existing job are deleted by
\* terminateMXJob: the active ones of its list.
LEMMA LossStep ==
    ASSUME EarnedInv, Visible, MaxLost = 0, Current.exists, [Next]_vars,
           NEW t \in RType, NEW i \in Lost(t)', i \notin Lost(t)
    PROVE  pc = "terminate" /\ IsPodActive(listed[t][i])
<1>0. TypeOK /\ i \in PodId /\ pods'[t][i].life \in {"terminating", "gone"}
      /\ pods[t][i].life \notin {"terminating", "gone"}
  BY DEF EarnedInv, Lost
<1>a. pods'[t][i] # pods[t][i]
  BY <1>0
<1>1. ~\E u \in RType : reconcilePodsCreate(u) \/ reconcilePodsErr(u)
  <2> SUFFICES ASSUME NEW u \in RType, NEW S \in SUBSET Unborn(u), NEW H \in SUBSET S,
                      createPods(u, S, H)
               PROVE  FALSE
    BY DEF reconcilePodsCreate, reconcilePodsErr
  <2>1. pods'[t][i] = IF t = u /\ i \in S
                      THEN [phase |-> "Running", life |-> IF i \in H THEN "hidden" ELSE "live"]
                      ELSE pods[t][i]
    BY <1>0 DEF createPods, TypeOK
  <2>2. QED
    BY <1>0, <2>1, SMTT(30)
<1>2. CASE terminateMXJob \/ terminateMXJobErr
  <2>1. PICK S \in SUBSET Doomed : deletePods(S)
    BY <1>2 DEF terminateMXJob, terminateMXJobErr
  <2>2. <<t, i>> \in S
    BY <1>0, <1>a, <2>1 DEF deletePods
  <2>3. IsPodActive(listed[t][i])
    BY <2>2 DEF Doomed
  <2>4. QED
    BY <1>2, <2>3 DEF terminateMXJob, terminateMXJobErr
<1>3. ~PodStep
  <2> SUFFICES ASSUME NEW u \in RType, NEW j \in PodId,
                      \/ podEnds(u, j) \/ podDeleted(u, j)
                      \/ podRemoved(u, j) \/ podInitialized(u, j)
               PROVE  FALSE
    BY DEF PodStep
  <2>1. ASSUME NEW pod, setPod(u, j, pod)
        PROVE  pods'[t][i] = IF t = u /\ i = j THEN pod ELSE pods[t][i]
    BY <1>0, <2>1 DEF setPod, TypeOK
  <2>2. pods[u][j] \in Pod
    BY <1>0, SMTT(30) DEF TypeOK
  <2>3. ~podEnds(u, j)
    <3>1. ASSUME NEW ph, setPod(u, j, [pods[u][j] EXCEPT !.phase = ph]) PROVE FALSE
      BY <1>0, <2>1, <2>2, <3>1, SMTT(30) DEF Pod
    <3>2. QED
      BY <3>1 DEF podEnds
  <2>4. ~podDeleted(u, j)
    <3> DEFINE D == UNION {{t2} \X Lost(t2) : t2 \in RType}
    <3>1. Cardinality(D) \in Nat
      <4>1. IsFiniteSet(D)
        <5>1. IsFiniteSet(PodId)
          BY MaxPodsAssumption, FS_Interval DEF PodId
        <5>2. IsFiniteSet(RType)
          <6>1. IsFiniteSet({"scheduler"})
            BY FS_Singleton, Zenon
          <6>2. IsFiniteSet({"scheduler"} \cup {"server"})
            BY <6>1, FS_AddElement
          <6>3. IsFiniteSet(({"scheduler"} \cup {"server"}) \cup {"worker"})
            BY <6>2, FS_AddElement
          <6>4. RType = ({"scheduler"} \cup {"server"}) \cup {"worker"}
            BY DEF RType
          <6>5. QED
            BY <6>3, <6>4
        <5>3. D \subseteq RType \X PodId
          BY SMTT(30) DEF Lost
        <5>4. QED
          BY <5>1, <5>2, <5>3, FS_Product, FS_Subset, Zenon
      <4>2. QED
        BY <4>1, FS_CardinalityType
    <3>2. podDeleted(u, j) => Cardinality(D) < MaxLost
      BY Zenon DEF podDeleted
    <3> HIDE DEF D
    <3>3. QED
      BY <3>1, <3>2
  <2>5. ~podRemoved(u, j)
    BY <1>0, <2>1 DEF podRemoved
  <2>6. ~podInitialized(u, j)
    BY DEF podInitialized, Visible
  <2>7. QED
    BY <2>3, <2>4, <2>5, <2>6
<1>4. ~UNCHANGED pods
  BY <1>a
<1>5. QED
  BY <1>1, <1>2, <1>3, <1>4 DEF Next, SyncStep, HookStep, EnvStep, Sync, apiError, getPodsForMXJob,
     getServicesForMXJob, canAdoptService, AdoptService, reconcileServices, createServices,
     initializeMXJob, updateStatus, reconcilePods, hookEnds, handleMXJobFinalizers,
     finalizerHookEnds, clearFinalizer, clearFinalizerErr, watchEvent, relist, serviceDeleted,
     touchJob, deleteJob, userWrites, crash, apiVars, vars

\* The workers the list shows as succeeded did succeed, and when they are all,
\* no listed worker is active.
LEMMA WonListedHolds ==
    ASSUME ProvisionInv, WonListed
    PROVE  /\ Cardinality(Won) >= Replicas["worker"]
           /\ Cardinality(filterPods(listed, "worker", "Succeeded")) = Replicas["worker"]
           /\ \A i \in PodId : ~IsPodActive(listed["worker"][i])
<1> DEFINE won == filterPods(listed, "worker", "Succeeded")
           act == FilterActivePods(listed, "worker")
<1>0. /\ TypeOK /\ ListHolds /\ "worker" \in RType
      /\ Cardinality(There("worker")) <= Replicas["worker"]
  BY DEF ProvisionInv, EarnedInv, ListComplete, RType
<1>1. won \subseteq Won /\ Won \subseteq PodId
  BY <1>0 DEF filterPods, Won, ListHolds
<1>2. won \cap act = {} /\ won \subseteq PodId /\ act \subseteq PodId
  BY DEF filterPods, FilterActivePods, IsPodActive
<1>3. won \cup act \subseteq There("worker") /\ There("worker") \subseteq PodId
  BY <1>0 DEF filterPods, FilterActivePods, IsPodActive, There, filterPodsForMXReplicaType, NoPod
<1>4. Cardinality(won) >= Replicas["worker"] /\ Replicas["worker"] \in Nat
  BY <1>0, ReplicasAssumption DEF WonListed
<1> HIDE DEF won, act
<1>5. Cardinality(won \cup act) = Cardinality(won) + Cardinality(act)
  BY <1>2, CountUnion
<1>6. /\ Cardinality(won) \in Nat /\ Cardinality(act) \in Nat /\ Cardinality(Won) \in Nat
      /\ Cardinality(won) <= Cardinality(Won)
  BY <1>1, <1>2, CountSubset, CountTyped
<1>7. /\ Cardinality(won \cup act) <= Cardinality(There("worker"))
      /\ Cardinality(There("worker")) \in Nat
  BY <1>3, CountSubset
<1>8. Cardinality(act) = 0 /\ Cardinality(won) = Replicas["worker"]
  BY <1>0, <1>4, <1>5, <1>6, <1>7
<1>9. act = {}
  <2>1. IsFiniteSet(act)
    <3>1. IsFiniteSet(PodId)
      BY MaxPodsAssumption, FS_Interval DEF PodId
    <3>2. QED
      BY <1>2, <3>1, FS_Subset
  <2>2. QED
    BY <1>8, <2>1, FS_EmptySet
<1>10. QED
  BY <1>4, <1>6, <1>8, <1>9 DEF won, act, FilterActivePods

\* So no worker of a job is deleted before a pod failed, and no other pod
\* before that or before all the workers succeeded.
LEMMA LossInvStep ==
    ASSUME CauseInv, MaxLost = 0, [Next]_vars
    PROVE  WorkersKept' /\ LossDecided'
<1>0. /\ EarnedInv /\ Visible /\ ProvisionInv /\ "worker" \in RType
      /\ TypeOK /\ Fresh /\ ListHolds
  BY DEF CauseInv, ProvisionInv, EarnedInv, RType
<1>1. SUFFICES ASSUME ~Excused'
               PROVE  Lost("worker")' = {}
                      /\ ((\A t \in RType : Lost(t)' = {}) \/ Cardinality(Won') >= Replicas["worker"])
  BY DEF WorkersKept, LossDecided
<1>2. ~Excused /\ Current.exists
  BY <1>0, <1>1, ExcuseStays DEF Excused
<1>3. /\ Cardinality(Won) \in Nat /\ Cardinality(Won') \in Nat
      /\ Cardinality(Won) <= Cardinality(Won') /\ Replicas["worker"] \in Nat
  <2>1. Won \subseteq Won' /\ Won' \subseteq PodId
    BY <1>0, KeptStep DEF Won, Kept
  <2>2. QED
    BY <1>0, <2>1, CountSubset, ReplicasAssumption
<1>4. Lost("worker") = {} /\ ((\A t \in RType : Lost(t) = {}) \/ Cardinality(Won) >= Replicas["worker"])
  BY <1>2 DEF CauseInv, WorkersKept, LossDecided
<1>5. CASE pc = "terminate"
  <2>1. WonListed
    BY <1>2, <1>5 DEF CauseInv, Concluded, IsJobFinished
  <2>2. Cardinality(Won) >= Replicas["worker"] /\ \A i \in PodId : ~IsPodActive(listed["worker"][i])
    BY <1>0, <2>1, WonListedHolds
  <2>3. \A i \in Lost("worker")' : i \in PodId /\ (i \in Lost("worker") \/ IsPodActive(listed["worker"][i]))
    BY <1>0, <1>2, LossStep DEF Lost
  <2>4. QED
    BY <1>3, <1>4, <2>2, <2>3
<1>6. CASE pc # "terminate"
  <2>1. \A t \in RType : Lost(t)' \subseteq Lost(t)
    BY <1>0, <1>2, <1>6, LossStep
  <2>2. QED
    BY <1>0, <1>3, <1>4, <2>1
<1>7. QED
  BY <1>5, <1>6

\* The list: where nothing excuses a missing pod of an initialized job, all the
\* workers succeeded and are listed.
LEMMA ListWeighed ==
    ASSUME CauseInv, getPodsForMXJob, ~Excused, checkCondition(mxjob.status, "Initialized"),
           ~WonListed'
    PROVE  \A t \in RType : Missing(listed', t) <= 0
<1>0. /\ TypeOK /\ Fresh /\ Visible /\ "worker" \in RType
      /\ \A t \in RType : Replicas[t] \in Nat
      /\ Lost("worker") = {}
      /\ (\A t \in RType : Lost(t) = {}) \/ Cardinality(Won) >= Replicas["worker"]
  BY ReplicasAssumption DEF CauseInv, ProvisionInv, EarnedInv, WorkersKept, LossDecided, RType
<1>1. \A t \in RType, i \in PodId :
          /\ pods[t][i] \in Pod
          /\ listed'[t][i] = IF pods[t][i].life \in {"live", "terminating"} THEN pods[t][i] ELSE NoPod
  BY <1>0, SMTT(30) DEF getPodsForMXJob, TypeOK
<1>2. \A t \in RType : Cardinality(Born(t)) >= Replicas[t]
  <2>1. AllBacked
    BY DEF CauseInv, ProvisionInv, EarnedInv
  <2>2. QED
    BY <2>1 DEF AllBacked, Backed, Complete, getPodsForMXJob
<1>3. \A t \in RType, i \in PodId : pods[t][i].life \in {"unborn", "live"} \/ i \in Lost(t)
  BY <1>0, <1>1, SMTT(30) DEF Pod, Life, Visible, Lost
<1>4. ~(Cardinality(Won) >= Replicas["worker"])
  <2> SUFFICES ASSUME Cardinality(Won) >= Replicas["worker"] PROVE FALSE
    OBVIOUS
  <2>1. Won \subseteq filterPods(listed', "worker", "Succeeded")
    BY <1>0, <1>1, <1>3 DEF Won, filterPods, Fresh
  <2>2. /\ Cardinality(filterPods(listed', "worker", "Succeeded")) \in Nat
        /\ Cardinality(Won) \in Nat
        /\ Cardinality(Won) <= Cardinality(filterPods(listed', "worker", "Succeeded"))
    <3>1. filterPods(listed', "worker", "Succeeded") \subseteq PodId
      BY DEF filterPods
    <3>2. QED
      BY <2>1, <3>1, CountSubset
  <2>3. QED
    BY <1>0, <2>2 DEF WonListed
<1>5. \A t \in RType : Born(t) \subseteq filterPodsForMXReplicaType(listed', t)
  BY <1>0, <1>1, <1>3, <1>4, SMTT(30) DEF Born, Unborn, filterPodsForMXReplicaType, NoPod
<1>6. ASSUME NEW t \in RType
      PROVE  Missing(listed', t) <= 0
  <2> DEFINE there == filterPodsForMXReplicaType(listed', t)
  <2>1. there \subseteq PodId
    BY DEF filterPodsForMXReplicaType
  <2>2. /\ Cardinality(Born(t)) \in Nat /\ Cardinality(there) \in Nat
        /\ Cardinality(Born(t)) <= Cardinality(there)
    BY <1>5, <2>1, CountSubset
  <2>3. Missing(listed', t) = Replicas[t] - Cardinality(there)
    BY DEF Missing
  <2> HIDE DEF there
  <2>4. QED
    BY <1>0, <1>2, <2>2, <2>3
<1>7. QED
  BY <1>6

\* reconcilePods of a type weighs what is listed.
LEMMA CountWeighed ==
    ASSUME CauseInv, NEW t \in RType, pc = t,
           NEW after, after = statusAfter(mxjob.status, listed, t)
    PROVE  /\ IsJobFailed(after) => Excused \/ (WonListed /\ t # "worker")
           /\ IsJobSucceed(after) => WonListed /\ t = "worker"
           /\ checkCondition(after, "Initialized") <=> checkCondition(mxjob.status, "Initialized")
<1> DEFINE initialized == checkCondition(mxjob.status, "Initialized")
           rs == replicaStatus(listed, t, initialized)
<1>0. /\ TypeOK /\ ListHolds /\ mxjob.status \in MXJobStatusType
      /\ ~IsJobSucceed(mxjob.status)
      /\ \/ Excused \/ WonListed
         \/ /\ ~IsJobFailed(mxjob.status)
            /\ initialized => Missing(listed, t) <= 0
  BY DEF CauseInv, ProvisionInv, EarnedInv, TypeOK, Weighed, Weighing
<1>1. /\ after.cond["Initialized"] = mxjob.status.cond["Initialized"]
      /\ IsJobSucceed(after) =>
           t = "worker" /\ Cardinality(filterPods(listed, "worker", "Succeeded")) = Replicas["worker"]
  BY <1>0, StatusAfter, ZenonT(60)
<1>2. /\ IsJobFailed(after) => IsJobFailed(mxjob.status) \/ rs.failed > 0 \/ rs.gone > 0
      /\ t = "worker" /\ rs.succeeded = Replicas["worker"] => ~IsJobFailed(after)
  BY <1>0, FailedAfter, Zenon
<1>3. /\ rs.failed = Cardinality(filterPods(listed, t, "Failed"))
      /\ rs.succeeded = Cardinality(filterPods(listed, t, "Succeeded"))
      /\ rs.gone = IF initialized THEN IF Missing(listed, t) > 0 THEN Missing(listed, t) ELSE 0 ELSE 0
  BY DEF replicaStatus
<1> HIDE DEF rs
<1>4. rs.failed > 0 => PodFailed
  <2>1. rs.failed > 0 => filterPods(listed, t, "Failed") # {}
    BY <1>3, FS_EmptySet, SMTT(30)
  <2>2. QED
    BY <1>0, <2>1 DEF filterPods, ListHolds, PodFailed
<1>5. rs.gone > 0 => initialized /\ Missing(listed, t) > 0
  BY <1>3
<1>6. Missing(listed, t) \in Int
  BY MissingTyped
<1> HIDE DEF initialized
<1>7. IsJobFailed(after) => Excused \/ WonListed
  BY <1>0, <1>2, <1>4, <1>5, <1>6 DEF Excused
<1>8. WonListed /\ t = "worker" => ~IsJobFailed(after)
  BY <1>2, <1>3, WonListedHolds DEF CauseInv
<1>9. IsJobSucceed(after) => WonListed /\ t = "worker"
  BY <1>1, ReplicasAssumption, SMTT(30) DEF WonListed, RType
<1>10. QED
  BY <1>1, <1>7, <1>8, <1>9 DEF checkCondition

\* The inductive step.
LEMMA CauseStep ==
    ASSUME CauseInv, "timeout" \notin Env, MaxLost = 0, [Next]_vars
    PROVE  CauseInv'
<1> SUFFICES Weighed' /\ Concluded' /\ FailedCaused'
  BY ProvisionInvStep, LossInvStep DEF CauseInv
<1>0. /\ TypeOK /\ ProvisionInv /\ Weighed /\ Concluded /\ FailedCaused
      /\ Len(log) \in Nat /\ Len(log) >= 1 /\ Current \in Version
      /\ \A i \in 1 .. Len(log) : log[i] \in Version /\ log[i].status \in MXJobStatusType
      /\ mxjob.status \in MXJobStatusType
      /\ (PodFailed => PodFailed') /\ (Excused => Excused')
  <2>1. EarnedInv
    BY DEF CauseInv, ProvisionInv
  <2>2. QED
    BY <2>1, CurrentVersion, ExcuseStays DEF CauseInv, EarnedInv, TypeOK
<1>a. log' = log => FailedCaused'
  BY <1>0 DEF FailedCaused
<1>b. EndSync => Weighed' /\ Concluded'
  BY DEF EndSync, Weighed, Concluded, Weighing, RType
<1>c. listed' = listed => WonListed' = WonListed
  BY DEF WonListed
<1>d. UNCHANGED syncVars => Weighed' /\ Concluded'
  BY <1>0, <1>c DEF syncVars, Weighed, Concluded
<1>e. ASSUME NEW v \in Version, log' = Append(log, v), IsJobFailed(v.status) => PodFailed
      PROVE  FailedCaused'
  <2>1. /\ Len(log') = Len(log) + 1
        /\ \A i \in 1 .. Len(log) : log'[i] = log[i]
        /\ log'[Len(log) + 1] = v
    BY <1>0, <1>e, AppendVersion
  <2>2. QED
    BY <1>0, <1>e, <2>1 DEF FailedCaused
<1>f. ASSUME NEW t \in RType, pc = t, countPods(t), log' = log
      PROVE  Weighed' /\ Concluded' /\ FailedCaused'
  <2> DEFINE after == statusAfter(mxjob.status, listed, t)
  <2>1. mxjob'.status = after /\ listed' = listed /\ pc' = nextAfter(t)
    BY <1>0, <1>f DEF countPods, TypeOK
  <2>2. /\ IsJobFailed(after) => Excused \/ (WonListed /\ t # "worker")
        /\ IsJobSucceed(after) => WonListed /\ t = "worker"
        /\ checkCondition(after, "Initialized") <=> checkCondition(mxjob.status, "Initialized")
    BY <1>f, CountWeighed
  <2> HIDE DEF after
  <2>3. CASE t = "worker"
    <3>1. pc' = "initialize"
      BY <2>1, <2>3 DEF nextAfter
    <3>2. Weighed'
      BY <3>1 DEF Weighed, Weighing, RType
    <3>3. Concluded'
      BY <1>0, <1>c, <2>1, <2>2, <2>3, <3>1 DEF Concluded
    <3>4. QED
      BY <1>a, <1>f, <3>2, <3>3
  <2>4. CASE t # "worker"
    <3>1. pc' \in {"getServices", "worker"} /\ pc \in Weighing
      BY <1>f, <2>1, <2>4 DEF nextAfter, Weighing, RType
    <3>2. Concluded'
      BY <3>1 DEF Concluded
    <3>3. Excused \/ WonListed \/
            /\ ~IsJobFailed(mxjob.status)
            /\ checkCondition(mxjob.status, "Initialized") =>
                   \A u \in RType : Missing(listed, u) <= 0
      BY <1>0, <3>1 DEF Weighed
    <3>4. Weighed'
      BY <1>0, <1>c, <2>1, <2>2, <2>4, <3>1, <3>3 DEF Weighed
    <3>5. QED
      BY <1>a, <1>f, <3>2, <3>4
  <2>5. QED
    BY <2>3, <2>4
<1>1. CASE Sync
  <2>1. /\ mxjob'.status = createdStatus(log[cacheRV].status) /\ cacheRV \in 1 .. Len(log)
        /\ ~IsJobFinished(log[cacheRV].status) /\ pc' = "getPods" /\ log' = log
    BY <1>0, <1>1 DEF Sync, TypeOK, apiVars
  <2>2. ~IsJobFinished(mxjob'.status)
    BY <1>0, <2>1, SetTrue, SMTT(30) DEF createdStatus, ConditionType, IsJobFinished, IsJobSucceed,
       IsJobFailed, checkCondition
  <2>3. Weighed'
    BY <2>1, <2>2 DEF Weighed, Weighing, RType
  <2>4. Concluded'
    BY <2>1 DEF Concluded
  <2>5. QED
    BY <1>a, <2>1, <2>3, <2>4
<1>2. CASE apiError \/ terminateMXJobErr \/ crash \/ \E t \in RType : reconcilePodsErr(t)
  <2>1. EndSync /\ log' = log
    BY <1>2 DEF apiError, terminateMXJobErr, crash, reconcilePodsErr, apiVars
  <2>2. QED
    BY <1>a, <1>b, <2>1
<1>3. CASE getPodsForMXJob
  <2>1. pc = "getPods" /\ pc' = "scheduler" /\ mxjob' = mxjob /\ log' = log
    BY <1>3 DEF getPodsForMXJob, apiVars
  <2>2. ~IsJobFinished(mxjob.status)
    BY <1>0, <2>1 DEF Weighed
  <2>3. ~Excused /\ checkCondition(mxjob.status, "Initialized") /\ ~WonListed' =>
           \A t \in RType : Missing(listed', t) <= 0
    BY <1>3, ListWeighed
  <2>4. Concluded'
    BY <2>1 DEF Concluded
  <2>5. Weighed'
    BY <1>0, <2>1, <2>2, <2>3 DEF Weighed, IsJobFinished
  <2>6. QED
    BY <1>a, <2>1, <2>4, <2>5
<1>4. ASSUME NEW t \in RType, reconcilePods(t) \/ reconcilePodsCreate(t)
      PROVE  Weighed' /\ Concluded' /\ FailedCaused'
  BY <1>4, <1>f DEF reconcilePods, reconcilePodsCreate, apiVars
<1>5. CASE getServicesForMXJob \/ canAdoptService \/ AdoptService \/ reconcileServices
  <2>1. log' = log
    BY <1>5 DEF getServicesForMXJob, canAdoptService, AdoptService, reconcileServices, apiVars
  <2>2. CASE UNCHANGED <<mxjob, listed>> /\ pc \in Weighing
             /\ pc' \in {"canAdoptService", "adoptService", "createService", "server"}
    <3>1. Concluded'
      BY <2>2 DEF Concluded
    <3>2. Weighed'
      BY <1>0, <1>c, <2>2 DEF Weighed
    <3>3. QED
      BY <1>a, <2>1, <3>1, <3>2
  <2>3. QED
    BY <1>5, <1>a, <1>b, <2>1, <2>2 DEF getServicesForMXJob, canAdoptService, AdoptService,
       reconcileServices, Goto, Weighing
<1>6. CASE initializeMXJob
  <2> DEFINE init == updateMXJobConditions(mxjob.status, "Initialized")
  <2>1. /\ IsJobFailed(init) <=> IsJobFailed(mxjob.status)
        /\ IsJobSucceed(init) <=> IsJobSucceed(mxjob.status)
    BY <1>0, SetTrue, SMTT(30) DEF ConditionType, IsJobFailed, IsJobSucceed, checkCondition
  <2>2. mxjob'.status \in {mxjob.status, init} /\ pc = "initialize" /\ log' = log
    BY <1>0, <1>6 DEF initializeMXJob, TypeOK, apiVars
  <2> HIDE DEF init
  <2>3. \/ pc' = "terminate" /\ listed' = listed /\ IsJobFinished(mxjob.status)
        \/ pc' = "update"
    BY <1>6 DEF initializeMXJob
  <2>4. Weighed'
    BY <2>3 DEF Weighed, Weighing, RType
  <2>5. Concluded'
    BY <1>0, <1>c, <2>1, <2>2, <2>3 DEF Concluded, IsJobFinished
  <2>6. QED
    BY <1>a, <2>2, <2>4, <2>5
<1>7. CASE terminateMXJob
  <2>1. /\ mxjob'.status.cond = mxjob.status.cond
        /\ pc = "terminate" /\ pc' = "update" /\ log' = log
    BY <1>0, <1>7, TerminatedStatus DEF terminateMXJob, TypeOK
  <2>2. IsJobFailed(mxjob'.status) <=> IsJobFailed(mxjob.status)
    BY <2>1 DEF IsJobFailed, checkCondition
  <2>3. Weighed'
    BY <2>1 DEF Weighed, Weighing, RType
  <2>4. Concluded'
    BY <1>0, <2>1, <2>2 DEF Concluded
  <2>5. QED
    BY <1>a, <2>1, <2>3, <2>4
<1>8. CASE updateStatus
  <2>1. CASE log' = log
    BY <1>8, <1>a, <1>b, <2>1 DEF updateStatus
  <2>2. CASE log' = Append(log, [Current EXCEPT !.status = mxjob.status]) /\ accepted(mxjob.rv)
    <3> DEFINE v == [Current EXCEPT !.status = mxjob.status]
    <3>1. v \in Version /\ v.status = mxjob.status
      BY <1>0, Zenon DEF Version
    <3> HIDE DEF v
    <3>2. IsJobFailed(v.status) => PodFailed
      BY <1>0, <1>8, <2>2, <3>1 DEF Concluded, Excused, accepted, updateStatus
    <3>3. log' = Append(log, v)
      BY <2>2 DEF v
    <3>4. QED
      BY <1>8, <1>b, <1>e, <3>1, <3>2, <3>3 DEF updateStatus
  <2>3. QED
    BY <1>8, <2>1, <2>2 DEF updateStatus
<1>9. CASE (\E k \in HookKind : hookEnds(k)) \/ handleMXJobFinalizers \/ finalizerHookEnds
           \/ clearFinalizerErr \/ watchEvent \/ relist \/ serviceDeleted \/ PodStep
           \/ UNCHANGED vars
  <2>1. UNCHANGED <<log, syncVars>>
    BY <1>9, ZenonT(60) DEF hookEnds, handleMXJobFinalizers, finalizerHookEnds, clearFinalizerErr,
       watchEvent, relist, serviceDeleted, apiVars, PodStep, podEnds, podDeleted, podRemoved,
       podInitialized, setPod, vars
  <2>2. QED
    BY <1>a, <1>d, <2>1
<1>10. CASE clearFinalizer \/ touchJob \/ deleteJob
  <2>1. PICK v \in Version : log' = Append(log, v) /\ v.status = Current.status
    BY <1>0, <1>10, UserVersion
  <2>2. UNCHANGED syncVars
    BY <1>10 DEF clearFinalizer, touchJob, deleteJob, userWrites
  <2>3. IsJobFailed(v.status) => PodFailed
    BY <1>0, <2>1 DEF FailedCaused, Current
  <2>4. QED
    BY <1>d, <1>e, <2>1, <2>2, <2>3
<1>11. QED
  BY <1>1, <1>2, <1>3, <1>4, <1>5, <1>6, <1>7, <1>8, <1>9, <1>10
     DEF Next, SyncStep, HookStep, EnvStep

\* The inductive invariant holds.
LEMMA CauseHolds == ASSUME "timeout" \notin Env, MaxLost = 0 PROVE Spec => []CauseInv
<1>1. ASSUME Init PROVE WorkersKept /\ LossDecided /\ Weighed /\ Concluded /\ FailedCaused
  <2>1. \A t \in RType, i \in PodId : pods[t][i] = NoPod
    BY <1>1 DEF Init, NoPods
  <2>2. \A t \in RType : Lost(t) = {}
    BY <2>1 DEF Lost, NoPod
  <2>3. ~IsJobFailed(NewStatus)
    BY DEF NewStatus, IsJobFailed, checkCondition, ConditionType
  <2>4. QED
    BY <1>1, <2>2, <2>3 DEF Init, WorkersKept, LossDecided, Weighed, Concluded, FailedCaused,
       Weighing, RType
<1>2. CauseInv /\ [Next]_vars => CauseInv'
  BY CauseStep
<1>3. Init /\ ProvisionInv => CauseInv
  BY <1>1 DEF CauseInv
<1>4. QED
  BY <1>2, <1>3, ProvisionHolds, PTL DEF Spec

\* Where no creation times out and nobody else deletes pods, a job is written
\* as Failed only when one of its pods failed: what an earlier sync deleted
\* without getting its result written is not held against the job.
THEOREM FailureHasCause ==
    ASSUME "timeout" \notin Env
    PROVE  Spec => []FailedHasCause
<1>1. CASE MaxLost # 0
  <2>1. FailedHasCause
    BY <1>1 DEF FailedHasCause
  <2>2. QED
    BY <2>1, PTL
<1>2. CASE MaxLost = 0
  <2>1. CauseInv => FailedHasCause
    BY CurrentVersion DEF CauseInv, ProvisionInv, EarnedInv, FailedCaused, FailedHasCause, PodFailed,
       Current
  <2>2. QED
    BY <1>2, <2>1, CauseHolds, PTL
<1>3. QED
  BY <1>1, <1>2

\* Under the same conditions the operator deletes no pod of a job that exists
\* before a pod failed or as many workers as it has replicas succeeded.
THEOREM DeletesWhenDecided ==
    ASSUME "timeout" \notin Env
    PROVE  Spec => []DeletedWhenDecided
<1>1. CASE MaxLost # 0
  <2>1. DeletedWhenDecided
    BY <1>1 DEF DeletedWhenDecided
  <2>2. QED
    BY <2>1, PTL
<1>2. CASE MaxLost = 0
  <2>1. CauseInv => DeletedWhenDecided
    BY DEF CauseInv, LossDecided, Excused, PodFailed, Won, DeletedWhenDecided
  <2>2. QED
    BY <1>2, <2>1, CauseHolds, PTL
<1>3. QED
  BY <1>1, <1>2
=============================================================================
