----------------------- MODULE MXJobRefinementProofs -----------------------
(***************************************************************************)
(* The controller implements MXJobLifecycle, for every value of the        *)
(* constants: its initial state maps to the initial state of the abstract  *)
(* specification, and each of its steps to a step of it or to a stutter.   *)
(***************************************************************************)
EXTENDS MXJobControllerProofs, SequenceTheorems

\* A leaf that names no prover goes to Zenon, which is quick where a leaf only
\* puts facts together, and then to the SMT solver: no proof hangs on the speed
\* of one machine.  Leaves that need arithmetic or sequences name the latter.
USE ZenonT(10), SMTT(30), SMTT(60)

\* The phase of a status depends on three of its conditions only.
LEMMA PhaseOf ==
    ASSUME NEW s, NEW u,
           \A c \in {"Initialized", "Succeeded", "Failed"} : s.cond[c] = u.cond[c]
    PROVE  phaseOf(s) = phaseOf(u)
  BY DEF phaseOf, IsJobSucceed, IsJobFailed, IsJobFinished, checkCondition

\* The phases of a status, one by one.
LEMMA PhaseCases ==
    ASSUME NEW s
    PROVE  /\ phaseOf(s) \in L!Phases
           /\ phaseOf(s) \in L!Final <=> IsJobFinished(s)
           /\ ~IsJobFinished(s) =>
                  phaseOf(s) = IF checkCondition(s, "Initialized") THEN "initialized" ELSE "new"
  BY DEF phaseOf, IsJobFinished, IsJobSucceed, IsJobFailed, checkCondition, L!Phases, L!Final

\* The abstract log has an entry for every version.
LEMMA AbsLog ==
    ASSUME TypeOK
    PROVE  /\ absLog \in Seq(L!Version) /\ Len(absLog) = Len(log)
           /\ \A i \in 1 .. Len(log) : absLog[i] = absVersion(log[i])
           /\ L!Current = absVersion(Current)
<1>0. Len(log) \in Nat /\ Len(log) >= 1 /\ \A i \in 1 .. Len(log) : log[i] \in Version
  BY CurrentVersion
<1>1. \A i \in 1 .. Len(log) : absVersion(log[i]) \in L!Version
  BY <1>0, PhaseCases DEF absVersion, L!Version, Version
<1>2. absLog \in [1 .. Len(log) -> L!Version]
  BY <1>1 DEF absLog
<1>3. absLog \in Seq(L!Version)
  BY <1>0, <1>2, SeqDef
<1>4. Len(absLog) = Len(log)
  BY <1>0, <1>2, <1>3, LenProperties
<1>5. \A i \in 1 .. Len(log) : absLog[i] = absVersion(log[i])
  BY DEF absLog
<1>6. QED
  BY <1>0, <1>3, <1>4, <1>5 DEF L!Current, Current

\* A write to the log is a write to the abstract log.
LEMMA AbsAppend ==
    ASSUME TypeOK, TypeOK', NEW v \in Version, log' = Append(log, v)
    PROVE  absLog' = Append(absLog, absVersion(v))
<1>1. /\ Len(log) \in Nat /\ Len(log') = Len(log) + 1
      /\ \A i \in 1 .. Len(log) : log'[i] = log[i]
      /\ log'[Len(log) + 1] = v
  BY AppendVersion
<1>2. /\ absLog \in Seq(L!Version) /\ Len(absLog) = Len(log)
      /\ \A i \in 1 .. Len(log) : absLog[i] = absVersion(log[i])
  BY AbsLog
<1>3. absVersion(v) \in L!Version
  BY PhaseCases DEF absVersion, L!Version, Version
<1>4. absLog' = [i \in 1 .. Len(log) + 1 |-> absVersion(log'[i])]
  BY <1>1 DEF absLog, absVersion
<1> DEFINE a == Append(absLog, absVersion(v))
<1>5. /\ a \in Seq(L!Version) /\ Len(a) = Len(log) + 1
      /\ \A i \in 1 .. Len(log) : a[i] = absLog[i]
      /\ a[Len(log) + 1] = absVersion(v)
  BY <1>1, <1>2, <1>3
<1> HIDE DEF a
<1>6. DOMAIN a = 1 .. Len(log) + 1
  BY <1>5, LenProperties
<1>7. \A i \in 1 .. Len(log) + 1 : a[i] = absVersion(log'[i])
  BY <1>1, <1>2, <1>5, SMTT(30)
<1>8. a = [i \in 1 .. Len(log) + 1 |-> a[i]]
  BY <1>5, <1>6, LenProperties
<1>9. a = [i \in 1 .. Len(log) + 1 |-> absVersion(log'[i])]
  BY <1>7, <1>8
<1>10. QED
  BY <1>4, <1>9 DEF a

\* A version that differs in a field differs in it in the abstract log too.
LEMMA AbsExcept ==
    ASSUME NEW v \in Version, NEW s \in MXJobStatusType
    PROVE  /\ [v EXCEPT !.status = s] \in Version
           /\ absVersion([v EXCEPT !.status = s]) = [absVersion(v) EXCEPT !.phase = phaseOf(s)]
           /\ [v EXCEPT !.deleting = TRUE] \in Version
           /\ absVersion([v EXCEPT !.deleting = TRUE]) = [absVersion(v) EXCEPT !.deleting = TRUE]
           /\ [v EXCEPT !.exists = FALSE] \in Version
           /\ absVersion([v EXCEPT !.exists = FALSE]) = [absVersion(v) EXCEPT !.exists = FALSE]
           /\ [v EXCEPT !.exists = FALSE, !.finalizer = FALSE] \in Version
           /\ absVersion([v EXCEPT !.exists = FALSE, !.finalizer = FALSE])
                = [absVersion(v) EXCEPT !.exists = FALSE, !.finalizer = FALSE]
<1> DEFINE vs == [v EXCEPT !.status = s]
           vd == [v EXCEPT !.deleting = TRUE]
           ve == [v EXCEPT !.exists = FALSE]
           vf == [v EXCEPT !.exists = FALSE, !.finalizer = FALSE]
<1>1. /\ vs \in Version /\ vd \in Version /\ ve \in Version
  BY Zenon DEF Version
<1>2. vf \in Version
  BY Zenon DEF Version
<1>3. /\ vs.exists = v.exists /\ vs.deleting = v.deleting /\ vs.finalizer = v.finalizer
      /\ vs.status = s
  BY DEF Version
<1>4. /\ vd.exists = v.exists /\ vd.deleting = TRUE /\ vd.finalizer = v.finalizer
      /\ vd.status = v.status
  BY DEF Version
<1>5. /\ ve.exists = FALSE /\ ve.deleting = v.deleting /\ ve.finalizer = v.finalizer
      /\ ve.status = v.status
  BY DEF Version
<1>6. /\ vf.exists = FALSE /\ vf.deleting = v.deleting /\ vf.finalizer = FALSE
      /\ vf.status = v.status
  BY DEF Version
<1> HIDE DEF vs, vd, ve, vf
<1>7. absVersion(vs) = [absVersion(v) EXCEPT !.phase = phaseOf(s)]
  BY <1>3 DEF absVersion
<1>8. absVersion(vd) = [absVersion(v) EXCEPT !.deleting = TRUE]
  <2>1. absVersion(vd)
          = [exists |-> v.exists, deleting |-> TRUE, finalizer |-> v.finalizer, phase |-> phaseOf(v.status)]
    BY <1>4, Zenon DEF absVersion
  <2>2. ASSUME NEW x
        PROVE  [absVersion(v) EXCEPT !.deleting = x]
                 = [exists |-> v.exists, deleting |-> x, finalizer |-> v.finalizer, phase |-> phaseOf(v.status)]
    BY DEF absVersion
  <2>3. QED
    BY <2>1, <2>2, Zenon
<1>9. absVersion(ve) = [absVersion(v) EXCEPT !.exists = FALSE]
  <2>1. absVersion(ve)
          = [exists |-> FALSE, deleting |-> v.deleting, finalizer |-> v.finalizer, phase |-> phaseOf(v.status)]
    BY <1>5, Zenon DEF absVersion
  <2>2. ASSUME NEW x
        PROVE  [absVersion(v) EXCEPT !.exists = x]
                 = [exists |-> x, deleting |-> v.deleting, finalizer |-> v.finalizer, phase |-> phaseOf(v.status)]
    BY DEF absVersion
  <2>3. QED
    BY <2>1, <2>2, Zenon
<1>10. absVersion(vf) = [absVersion(v) EXCEPT !.exists = FALSE, !.finalizer = FALSE]
  <2>1. absVersion(vf)
          = [exists |-> FALSE, deleting |-> v.deleting, finalizer |-> FALSE, phase |-> phaseOf(v.status)]
    BY <1>6, Zenon DEF absVersion
  <2>2. ASSUME NEW x, NEW y
        PROVE  [absVersion(v) EXCEPT !.exists = x, !.finalizer = y]
                 = [exists |-> x, deleting |-> v.deleting, finalizer |-> y, phase |-> phaseOf(v.status)]
    <3> DEFINE a == [absVersion(v) EXCEPT !.exists = x]
    <3>1. a = [exists |-> x, deleting |-> v.deleting, finalizer |-> v.finalizer, phase |-> phaseOf(v.status)]
      BY DEF absVersion
    <3> HIDE DEF a
    <3>2. [a EXCEPT !.finalizer = y] = [exists |-> x, deleting |-> v.deleting, finalizer |-> y, phase |-> phaseOf(v.status)]
      BY <3>1
    <3>3. QED
      BY <3>2, Zenon DEF a
  <2>3. QED
    BY <2>1, <2>2, Zenon
<1>11. QED
  BY <1>1, <1>2, <1>7, <1>8, <1>9, <1>10 DEF vs, vd, ve, vf

-----------------------------------------------------------------------------
\* Where a sync has no result yet, the abstract one is reconciling.
Reconciling == PC \ {"idle", "terminate", "update"}

\* The abstract copy in each place of a sync.
LEMMA AbsSync ==
    /\ pc \in {"idle", "update"} => absPC = pc
    /\ pc = "terminate" => absPC = "terminating"
    /\ pc \in Reconciling => absPC = "reconciling"
    /\ absJob.rv = mxjob.rv
    /\ pc = "idle" => absJob = [rv |-> mxjob.rv, phase |-> "new"]
    /\ pc \in {"terminate", "update"} =>
           absJob = [rv |-> mxjob.rv, phase |-> phaseOf(mxjob.status)]
    /\ pc \in Reconciling =>
           absJob = [rv |-> mxjob.rv, phase |-> phaseOf(log[mxjob.rv].status)]
  BY DEF absPC, absJob, Reconciling, PC

\* A sync that ends does so in the abstract specification too.
LEMMA AbsEndSync ==
    ASSUME EndSync
    PROVE  L!EndSync
  BY DEF EndSync, NoJob, L!EndSync, L!NoJob, absPC, absJob

\* A sync that returns an error is an abstract sync that fails.
LEMMA AbsSyncFails ==
    ASSUME EndSync, pc # "idle", pc \in PC, UNCHANGED <<log, cacheRV, hookVars, finalizer>>
    PROVE  L!syncFails
<1>1. absLog' = absLog
  BY DEF absLog, absVersion
<1>2. absPC # "idle"
  BY DEF absPC
<1>3. QED
  BY <1>1, <1>2, AbsEndSync DEF L!syncFails, hookVars, L!hookVars

\* A step of a sync that has no result yet is a stutter.
LEMMA AbsReconciling ==
    ASSUME UNCHANGED <<log, cacheRV, hookVars, finalizer>>, mxjob'.rv = mxjob.rv,
           pc \in Reconciling, pc' \in Reconciling
    PROVE  UNCHANGED L!vars
<1>1. absLog' = absLog
  BY DEF absLog, absVersion
<1>2. absPC' = absPC /\ absJob' = absJob
  BY DEF absPC, absJob, Reconciling, PC
<1>3. QED
  BY <1>1, <1>2 DEF L!vars, L!syncVars, L!hookVars, hookVars

\* Steps that leave the log and the worker alone leave their images alone.
LEMMA AbsUnchanged ==
    ASSUME UNCHANGED log, UNCHANGED syncVars
    PROVE  UNCHANGED <<absLog, absPC, absJob>>
<1>1. absLog' = absLog
  BY DEF absLog, absVersion
<1>2. absPC' = absPC /\ absJob' = absJob
  BY DEF absPC, absJob, syncVars
<1>3. QED
  BY <1>1, <1>2

\* A write of somebody else does not touch the version a sync works on.
LEMMA AbsWrite ==
    ASSUME ControllerInv, TypeOK', NEW v \in Version, log' = Append(log, v), UNCHANGED syncVars
    PROVE  absLog' = Append(absLog, absVersion(v)) /\ UNCHANGED <<absPC, absJob>>
<1>1. \A i \in 1 .. Len(log) : log'[i] = log[i]
  BY AppendVersion DEF ControllerInv
<1>2. pc # "idle" => mxjob.rv \in 1 .. Len(log)
  BY DEF ControllerInv, Copy
<1>3. absPC' = absPC /\ absJob' = absJob
  BY <1>1, <1>2 DEF absPC, absJob, syncVars
<1>4. QED
  BY <1>3, AbsAppend DEF ControllerInv

-----------------------------------------------------------------------------
\* Every step of the controller is a step of the abstract specification, or
\* leaves its variables unchanged.
LEMMA StepSimulation ==
    ASSUME ControllerInv, TypeOK', [Next]_vars
    PROVE  [L!Next]_(L!vars)
<1> USE DEF HookKind, L!HookKind
<1>0. /\ TypeOK /\ Copy /\ pc \in PC
      /\ Len(log) \in Nat /\ Len(log) >= 1 /\ Current \in Version
      /\ \A i \in 1 .. Len(log) : log[i] \in Version /\ log[i].status \in MXJobStatusType
  BY CurrentVersion, SMTT(30) DEF ControllerInv, TypeOK
<1>a. /\ Len(absLog) = Len(log) /\ L!Current = absVersion(Current)
      /\ \A i \in 1 .. Len(log) : absLog[i] = absVersion(log[i])
  BY <1>0, AbsLog
<1>b. L!syncFails => L!Next
  BY DEF L!Next, L!SyncStep
<1>1. CASE Sync
  <2> DEFINE v == log[cacheRV]
  <2>1. /\ v.exists /\ ~v.deleting /\ ~IsJobFinished(v.status)
        /\ absLog[cacheRV] = absVersion(v)
    BY <1>0, <1>1, <1>a DEF Sync, TypeOK
  <2>2. absPC = "idle" /\ absPC' = "reconciling"
    BY <1>1 DEF Sync, absPC
  <2>3. absJob' = [rv |-> cacheRV, phase |-> phaseOf(v.status)]
    BY <1>1 DEF Sync, absJob, apiVars
  <2>4. absLog' = absLog
    BY <1>1 DEF Sync, absLog, absVersion, apiVars
  <2>5. L!Sync
    BY <1>1, <2>1, <2>2, <2>3, <2>4, PhaseCases DEF L!Sync, Sync, absVersion, hookVars, L!hookVars
  <2>6. QED
    BY <2>5 DEF L!Next, L!SyncStep
<1>2. CASE apiError
  BY <1>0, <1>2, <1>b, AbsSyncFails DEF apiError, apiVars
<1>3. CASE getPodsForMXJob
  BY <1>3, AbsReconciling DEF getPodsForMXJob, apiVars, Reconciling, PC, RType
<1>4. ASSUME NEW t \in RType, reconcilePods(t) \/ reconcilePodsCreate(t)
      PROVE  [L!Next]_(L!vars)
  <2>1. pc = t /\ countPods(t) /\ UNCHANGED <<log, cacheRV, hookVars, finalizer>>
    BY <1>4 DEF reconcilePods, reconcilePodsCreate, apiVars
  <2>2. mxjob'.rv = mxjob.rv
    BY <1>0, <2>1 DEF countPods, TypeOK
  <2>3. pc \in Reconciling /\ pc' \in Reconciling
    BY <2>1 DEF countPods, nextAfter, Reconciling, PC, RType
  <2>4. QED
    BY <2>1, <2>2, <2>3, AbsReconciling
<1>5. ASSUME NEW t \in RType, reconcilePodsErr(t)
      PROVE  [L!Next]_(L!vars)
  BY <1>0, <1>5, <1>b, AbsSyncFails DEF reconcilePodsErr, RType
<1>6. CASE getServicesForMXJob \/ canAdoptService \/ AdoptService \/ reconcileServices
  <2>1. UNCHANGED <<log, cacheRV, hookVars, finalizer>> /\ pc \in Reconciling
    BY <1>6 DEF getServicesForMXJob, canAdoptService, AdoptService, reconcileServices, createServices, apiVars,
       Reconciling, PC
  <2>2. CASE EndSync
    BY <1>0, <1>b, <2>1, <2>2, AbsSyncFails DEF Reconciling
  <2>3. CASE mxjob' = mxjob /\ pc' \in Reconciling
    BY <2>1, <2>3, AbsReconciling
  <2>4. QED
    BY <1>6, <2>2, <2>3 DEF getServicesForMXJob, canAdoptService, AdoptService,
       reconcileServices, createServices, Goto, Reconciling, PC, RType
<1>7. CASE initializeMXJob
  <2> DEFINE ph == phaseOf(mxjob'.status)
             init == updateMXJobConditions(mxjob.status, "Initialized")
  <2>1. /\ init.cond["Initialized"] = "True"
        /\ init.cond["Succeeded"] = mxjob.status.cond["Succeeded"]
        /\ init.cond["Failed"] = mxjob.status.cond["Failed"]
    BY <1>0, SetTrue, SMTT(30) DEF TypeOK, ConditionType
  <2>2. /\ mxjob'.rv = mxjob.rv
        /\ mxjob'.status = IF checkCondition(mxjob.status, "Initialized") THEN mxjob.status ELSE init
        /\ UNCHANGED <<log, cacheRV, finalizer>> /\ pc = "initialize"
        /\ pc' = IF IsJobFinished(mxjob.status) THEN "terminate" ELSE "update"
    BY <1>0, <1>7 DEF initializeMXJob, TypeOK, apiVars
  <2> HIDE DEF init
  <2>3. /\ checkCondition(mxjob'.status, "Initialized")
        /\ IsJobFinished(mxjob'.status) <=> IsJobFinished(mxjob.status)
    BY <2>1, <2>2 DEF checkCondition, IsJobFinished, IsJobSucceed, IsJobFailed
  <2>4. /\ ph \in L!Phases /\ ph # "new"
        /\ ph \in L!Final <=> IsJobFinished(mxjob.status)
    BY <2>3, PhaseCases DEF L!Final
  <2>5. (absJob.phase = "new") <=> ~checkCondition(mxjob.status, "Initialized")
    <3>1. /\ ~IsJobFinished(log[mxjob.rv].status)
          /\ mxjob.status.cond["Initialized"] = log[mxjob.rv].status.cond["Initialized"]
      BY <1>0, <2>2 DEF Copy
    <3>2. absJob.phase = phaseOf(log[mxjob.rv].status)
      BY <2>2 DEF absJob
    <3>3. QED
      BY <3>1, <3>2, PhaseCases DEF checkCondition
  <2> HIDE DEF ph
  <2>6. /\ absPC = "reconciling"
        /\ absPC' = IF ph \in L!Final THEN "terminating" ELSE "update"
    BY <2>2, <2>4 DEF absPC
  <2>7. absJob' = [rv |-> mxjob.rv, phase |-> ph] /\ absJob.rv = mxjob.rv
    BY <2>2 DEF absJob, ph
  <2>8. absJob' = [absJob EXCEPT !.phase = ph]
    BY <2>7 DEF absJob
  <2>9. absLog' = absLog
    BY <2>2 DEF absLog, absVersion
  <2>10. IF absJob.phase = "new" THEN L!callHookAsync("start") ELSE UNCHANGED L!hookVars
    BY <1>7, <2>5 DEF initializeMXJob, callHookAsync, L!callHookAsync, hookVars, L!hookVars
  <2>11. L!initializeMXJob
    BY <2>2, <2>4, <2>6, <2>8, <2>9, <2>10 DEF L!initializeMXJob
  <2>12. QED
    BY <2>11 DEF L!Next, L!SyncStep
<1>8. CASE terminateMXJob
  <2>1. mxjob'.rv = mxjob.rv /\ mxjob'.status.cond = mxjob.status.cond
    BY <1>0, <1>8, TerminatedStatus DEF terminateMXJob, TypeOK
  <2>2. phaseOf(mxjob'.status) = phaseOf(mxjob.status)
    BY <2>1, PhaseOf
  <2>3. absJob' = absJob /\ absPC = "terminating" /\ absPC' = "update"
    BY <1>8, <2>1, <2>2 DEF terminateMXJob, absJob, absPC
  <2>4. absLog' = absLog
    BY <1>8 DEF terminateMXJob, absLog, absVersion
  <2>5. L!callHookAsync("finish")
    BY <1>8 DEF terminateMXJob, callHookAsync, L!callHookAsync
  <2>6. L!terminateMXJob
    BY <1>8, <2>3, <2>4, <2>5 DEF L!terminateMXJob, terminateMXJob
  <2>7. QED
    BY <2>6 DEF L!Next, L!SyncStep
<1>9. CASE terminateMXJobErr
  BY <1>0, <1>9, <1>b, AbsSyncFails DEF terminateMXJobErr
<1>10. CASE updateStatus
  <2>1. /\ pc = "update" /\ EndSync /\ UNCHANGED <<cacheRV, hookVars, finalizer>>
        /\ absPC = "update" /\ L!EndSync
        /\ absJob = [rv |-> mxjob.rv, phase |-> phaseOf(mxjob.status)]
    BY <1>10, AbsEndSync DEF updateStatus, absPC, absJob
  <2>2. L!accepted(absJob.rv) <=> accepted(mxjob.rv)
    BY <1>a, <2>1 DEF L!accepted, accepted, absVersion
  <2>3. L!Current.phase = phaseOf(Current.status)
    BY <1>a DEF absVersion
  <2>4. CASE mxjob.status # createdStatus(log[mxjob.rv].status) /\ accepted(mxjob.rv)
    <3> DEFINE v == [Current EXCEPT !.status = mxjob.status]
    <3>1. /\ v \in Version
          /\ absVersion(v) = [absVersion(Current) EXCEPT !.phase = phaseOf(mxjob.status)]
      BY <1>0, AbsExcept, Zenon DEF TypeOK
    <3>2. absLog' = Append(absLog, absVersion(v))
      BY <1>0, <1>10, <2>4, <3>1, AbsAppend DEF updateStatus
    <3>3. phaseOf(mxjob.status) = phaseOf(Current.status) => Len(log) < MaxVersions
      BY <1>10, <2>4 DEF updateStatus
    <3> HIDE DEF v
    <3>4. L!updateStatus
      BY <1>a, <2>1, <2>2, <2>3, <2>4, <3>1, <3>2, <3>3 DEF L!updateStatus, hookVars, L!hookVars
    <3>5. QED
      BY <3>4 DEF L!Next, L!SyncStep
  <2>5. CASE ~(mxjob.status # createdStatus(log[mxjob.rv].status) /\ accepted(mxjob.rv))
    <3>1. log' = log
      BY <1>10, <2>5 DEF updateStatus
    <3>2. absLog' = absLog
      BY <3>1 DEF absLog, absVersion
    <3>3. accepted(mxjob.rv) => phaseOf(mxjob.status) = phaseOf(Current.status)
      <4>1. SUFFICES ASSUME accepted(mxjob.rv)
                     PROVE  phaseOf(createdStatus(Current.status)) = phaseOf(Current.status)
        BY <2>5 DEF accepted, Current
      <4>2. Current.status \in MXJobStatusType
        BY <1>0 DEF Current
      <4>3. QED
        BY <4>2, CreatedStatus, PhaseOf
    <3>4. L!updateStatus
      BY <2>1, <2>2, <2>3, <3>2, <3>3 DEF L!updateStatus, hookVars, L!hookVars
    <3>5. QED
      BY <3>4 DEF L!Next, L!SyncStep
  <2>6. QED
    BY <2>4, <2>5
<1>11. ASSUME NEW k \in HookKind, hookEnds(k)
       PROVE  [L!Next]_(L!vars)
  <2>1. L!hookEnds(k)
    BY <1>11, AbsUnchanged DEF hookEnds, L!hookEnds, apiVars, L!syncVars
  <2>2. QED
    BY <2>1 DEF L!Next, L!HookStep
<1>12. CASE handleMXJobFinalizers
  <2>1. pc = "idle" /\ absPC = "idle" /\ absLog[cacheRV] = absVersion(log[cacheRV])
    BY <1>0, <1>12, <1>a DEF handleMXJobFinalizers, absPC, TypeOK
  <2>2. L!handleMXJobFinalizers
    BY <1>12, <2>1, PhaseCases, AbsUnchanged
       DEF handleMXJobFinalizers, L!handleMXJobFinalizers, absVersion, apiVars, L!syncVars
  <2>3. QED
    BY <2>2 DEF L!Next, L!HookStep
<1>13. CASE finalizerHookEnds
  <2>1. L!finalizerHookEnds
    BY <1>13, AbsUnchanged DEF finalizerHookEnds, L!finalizerHookEnds, apiVars, L!syncVars
  <2>2. QED
    BY <2>1 DEF L!Next, L!HookStep
<1>14. CASE clearFinalizer
  <2> DEFINE v == [Current EXCEPT !.exists = FALSE, !.finalizer = FALSE]
  <2>1. /\ v \in Version
        /\ absVersion(v) = [absVersion(Current) EXCEPT !.exists = FALSE, !.finalizer = FALSE]
    BY <1>0, NewStatusTyped, AbsExcept, Zenon
  <2>2. absLog' = Append(absLog, absVersion(v)) /\ UNCHANGED <<absPC, absJob>>
    BY <1>14, <2>1, AbsWrite DEF clearFinalizer
  <2> HIDE DEF v
  <2>3. L!accepted(finalizer.rv)
    BY <1>14, <1>a DEF clearFinalizer, accepted, L!accepted, absVersion
  <2>4. L!clearFinalizer
    BY <1>14, <1>a, <2>1, <2>2, <2>3 DEF clearFinalizer, L!clearFinalizer, NoFinalizer,
       L!NoFinalizer, hookVars, L!hookVars, L!syncVars
  <2>5. QED
    BY <2>4 DEF L!Next, L!HookStep
<1>15. CASE clearFinalizerErr
  <2>1. L!clearFinalizerErr
    BY <1>15, AbsUnchanged DEF clearFinalizerErr, L!clearFinalizerErr, NoFinalizer, L!NoFinalizer,
       apiVars, hookVars, L!hookVars, L!syncVars
  <2>2. QED
    BY <2>1 DEF L!Next, L!HookStep
<1>16. CASE watchEvent
  <2>1. L!watchEvent
    BY <1>16, <1>a, AbsUnchanged DEF watchEvent, L!watchEvent, apiVars, hookVars, L!hookVars,
       L!syncVars
  <2>2. QED
    BY <2>1 DEF L!Next, L!EnvStep
<1>r. CASE relist
  <2>1. L!relist
    BY <1>r, <1>a, AbsUnchanged DEF relist, L!relist, apiVars, hookVars, L!hookVars, L!syncVars
  <2>2. QED
    BY <2>1 DEF L!Next, L!EnvStep
<1>17. CASE PodStep \/ serviceDeleted
  <2>1. UNCHANGED log /\ UNCHANGED syncVars /\ UNCHANGED <<cacheRV, hookVars, finalizer>>
    BY <1>17, ZenonT(60) DEF PodStep, podEnds, podDeleted, podRemoved, podInitialized, setPod, serviceDeleted
  <2>2. QED
    BY <2>1, AbsUnchanged DEF L!vars, L!syncVars, L!hookVars, hookVars
<1>18. ASSUME NEW v \in Version, userWrites(v)
       PROVE  L!userWrites(absVersion(v))
  <2>1. absLog' = Append(absLog, absVersion(v)) /\ UNCHANGED <<absPC, absJob>>
    BY <1>18, AbsWrite DEF userWrites
  <2>2. QED
    BY <1>18, <1>a, <2>1 DEF userWrites, L!userWrites, absVersion, hookVars, L!hookVars, L!syncVars
<1>19. CASE touchJob
  <2>1. L!touchJob
    BY <1>0, <1>19, <1>18, <1>a DEF touchJob, L!touchJob
  <2>2. QED
    BY <2>1 DEF L!Next, L!EnvStep
<1>20. CASE deleteJob
  <2> DEFINE d == [Current EXCEPT !.deleting = TRUE]
             e == [Current EXCEPT !.exists = FALSE]
  <2>1. /\ d \in Version /\ absVersion(d) = [absVersion(Current) EXCEPT !.deleting = TRUE]
        /\ e \in Version /\ absVersion(e) = [absVersion(Current) EXCEPT !.exists = FALSE]
        /\ absVersion(Current).finalizer = Current.finalizer
        /\ absVersion(Current).deleting = Current.deleting
    BY <1>0, NewStatusTyped, AbsExcept, Zenon DEF absVersion
  <2>2. "delete" \in Env /\ ~Current.deleting /\ userWrites(IF Current.finalizer THEN d ELSE e)
    BY <1>20 DEF deleteJob
  <2> HIDE DEF d, e
  <2>3. L!userWrites(IF Current.finalizer THEN absVersion(d) ELSE absVersion(e))
    BY <1>18, <2>1, <2>2, Zenon
  <2>4. L!deleteJob
    BY <1>a, <2>1, <2>2, <2>3 DEF L!deleteJob
  <2>5. QED
    BY <2>4 DEF L!Next, L!EnvStep
<1>21. CASE crash
  <2>1. L!EndSync /\ absLog' = absLog
    BY <1>21, AbsEndSync DEF crash, absLog, absVersion, apiVars
  <2>2. L!crash
    BY <1>21, <1>a, <2>1 DEF crash, L!crash, L!restarts, NoFinalizer, L!NoFinalizer
  <2>3. QED
    BY <2>2 DEF L!Next, L!EnvStep
<1>22. CASE UNCHANGED vars
  BY <1>22, AbsUnchanged DEF vars, apiVars, hookVars, L!vars, L!syncVars, L!hookVars
<1>23. QED
  BY <1>1, <1>2, <1>3, <1>4, <1>5, <1>6, <1>7, <1>8, <1>9, <1>10, <1>11, <1>12, <1>13, <1>14,
     <1>15, <1>16, <1>r, <1>17, <1>19, <1>20, <1>21, <1>22 DEF Next, SyncStep, HookStep, EnvStep

\* The initial state of the controller is the abstract one.
LEMMA InitSimulation == Init => L!Init
<1> SUFFICES ASSUME Init PROVE L!Init
  OBVIOUS
<1>1. phaseOf(NewStatus) = "new"
  BY PhaseCases DEF NewStatus, IsJobFinished, IsJobSucceed, IsJobFailed, checkCondition,
     ConditionType
<1>2. /\ Len(log) = 1 /\ log[1].exists = TRUE /\ log[1].deleting = FALSE
      /\ log[1].finalizer = HasFinalizer /\ log[1].status = NewStatus
  BY DEF Init
<1>3. absLog = << [exists |-> TRUE, deleting |-> FALSE, finalizer |-> HasFinalizer,
                   phase |-> "new"] >>
  <2>1. absVersion(log[1]) = [exists |-> TRUE, deleting |-> FALSE, finalizer |-> HasFinalizer,
                              phase |-> "new"]
    BY <1>1, <1>2, Zenon DEF absVersion
  <2>2. absLog = [rv \in 1 .. 1 |-> absVersion(log[1])]
    BY <1>2 DEF absLog
  <2>3. \A x : [rv \in 1 .. 1 |-> x] = << x >>
    OBVIOUS
  <2>4. QED
    BY <2>1, <2>2, <2>3, Zenon
<1>4. absPC = "idle" /\ absJob = L!NoJob
  BY DEF Init, absPC, absJob, NoJob, L!NoJob
<1>5. QED
  BY <1>3, <1>4 DEF Init, L!Init, NoFinalizer, L!NoFinalizer, HookKind, L!HookKind

\* The controller implements MXJobLifecycle: what that specification promises of
\* phases, webhooks and the finalizer holds of the code with all its calls.
THEOREM Refinement == Spec => ImplementsLifecycle
<1>1. ControllerInv /\ ControllerInv' /\ [Next]_vars => [L!Next]_(L!vars)
  BY StepSimulation DEF ControllerInv
<1>2. QED
  BY <1>1, InitSimulation, InvHolds, PTL DEF Spec, ImplementsLifecycle, L!Spec

-----------------------------------------------------------------------------
(* The theorems about MXJobLifecycle, carried over to the controller. *)

LP == INSTANCE MXJobLifecycleProofs WITH log <- absLog, pc <- absPC, mxjob <- absJob

\* The two instances of the lifecycle are the same specification.
LEMMA SameLifecycle == L!Spec => LP!Spec
<1>1. L!Init => LP!Init
  BY DEF L!Init, LP!Init, L!NoJob, LP!NoJob, L!NoFinalizer, LP!NoFinalizer, L!HookKind,
     LP!HookKind
<1>2. [L!Next]_(L!vars) => [LP!Next]_(LP!vars)
  BY Zenon
     DEF L!vars, LP!vars, L!syncVars, LP!syncVars, L!hookVars, LP!hookVars, L!HookKind,
     LP!HookKind, L!Phases, LP!Phases, L!Final, LP!Final, L!Current, LP!Current,
     L!NoJob, LP!NoJob, L!NoFinalizer, LP!NoFinalizer, L!EndSync, LP!EndSync,
     L!callHookAsync, LP!callHookAsync, L!Sync, LP!Sync, L!syncFails, LP!syncFails,
     L!initializeMXJob, LP!initializeMXJob, L!terminateMXJob, LP!terminateMXJob,
     L!accepted, LP!accepted, L!updateStatus, LP!updateStatus, L!hookEnds, LP!hookEnds,
     L!handleMXJobFinalizers, LP!handleMXJobFinalizers, L!finalizerHookEnds,
     LP!finalizerHookEnds, L!clearFinalizer, LP!clearFinalizer, L!clearFinalizerErr,
     LP!clearFinalizerErr, L!watchEvent, LP!watchEvent, L!relist, LP!relist,
     L!userWrites, LP!userWrites, L!touchJob, LP!touchJob, L!deleteJob, LP!deleteJob,
     L!restarts, LP!restarts, L!crash, LP!crash, L!SyncStep, LP!SyncStep, L!HookStep, LP!HookStep, L!EnvStep,
     LP!EnvStep, L!Next, LP!Next
<1>3. QED
  BY <1>1, <1>2, PTL DEF L!Spec, LP!Spec

\* The controller meets the assumptions of the lifecycle's theorems.
LEMMA LifecycleAssumed ==
    /\ Webhooks \subseteq LP!HookKind /\ HasFinalizer \in BOOLEAN
    /\ MaxVersions \in Nat /\ MaxCalls \in Nat
  BY ControllerAssumption DEF HookKind, LP!HookKind

\* Of the controller with all its calls: an initialized job had its start hook
\* called before, whatever syncs failed or were cut short.
THEOREM ControllerNotifiesStart == Spec => []StartNotified
<1>1. LP!Spec => []LP!StartNotified
  BY LifecycleAssumed, LP!StartBeforeWritten, PTL
<1>2. LP!StartNotified => StartNotified
  BY DEF LP!StartNotified, StartNotified, L!StartNotified, LP!Current, L!Current
<1>3. QED
  BY <1>1, <1>2, SameLifecycle, Refinement, PTL DEF ImplementsLifecycle

\* And the rest of what the lifecycle promises: phases only go forward, the finish
\* hook is called before a job is written finished and before a job with the
\* finalizer disappears, and a call of it came to its end if that job was not
\* finished.
THEOREM ControllerKeepsPromises ==
    Spec => [](L!PhaseOrder /\ L!FinishNotified /\ L!FinalizerHonoured /\ L!UnfinishedWaits)
<1>1. LP!Spec => []LP!PhaseOrder
  BY LifecycleAssumed, LP!PhaseOrderHolds, PTL
<1>2. LP!Spec => []LP!FinishNotified
  BY LifecycleAssumed, LP!FinishBeforeWritten, PTL
<1>3. LP!Spec => []LP!FinalizerHonoured
  BY LifecycleAssumed, LP!FinalizerIsHonoured, PTL
<1>4. LP!Spec => []LP!UnfinishedWaits
  BY LifecycleAssumed, LP!UnfinishedJobsWait, PTL
<1>5. /\ LP!PhaseOrder => L!PhaseOrder
      /\ LP!FinishNotified => L!FinishNotified
      /\ LP!FinalizerHonoured => L!FinalizerHonoured
      /\ LP!UnfinishedWaits => L!UnfinishedWaits
  BY DEF LP!PhaseOrder, L!PhaseOrder, LP!FinishNotified, L!FinishNotified,
     LP!FinalizerHonoured, L!FinalizerHonoured, LP!UnfinishedWaits, L!UnfinishedWaits,
     LP!Current, L!Current, LP!Final, L!Final
<1>6. QED
  BY <1>1, <1>2, <1>3, <1>4, <1>5, SameLifecycle, Refinement, PTL DEF ImplementsLifecycle
=============================================================================
