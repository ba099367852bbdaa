------------------------ MODULE MXJobLifecycleProofs ------------------------
(***************************************************************************)
(* Proofs that MXJobLifecycle keeps its promises for every value of the    *)
(* constants.  The promises about the current version are not inductive: a *)
(* sync may hold a copy of any version, so they are proved of every version *)
(* of the log, together with what is known of the copy in each place of    *)
(* the sync (Copy) and of the finalizer goroutine (Clearing).              *)
(***************************************************************************)
EXTENDS MXJobLifecycle, TLAPS

\* A leaf that names no prover goes to Zenon, which is quick where a leaf only
\* puts facts together, and then to the SMT solver: no proof hangs on the speed
\* of one machine.  Leaves that need arithmetic or sequences name the latter.
USE ZenonT(10), SMTT(30), SMTT(60)

\* A sync holds the copy of a version that was not finished; behind
\* initializeMXJob the phase of the copy is not "new" any more.
Copy ==
    /\ pc # "idle" => mxjob.rv \in 1 .. Len(log) /\ log[mxjob.rv].phase \notin Final
    /\ pc = "reconciling" => mxjob.phase = log[mxjob.rv].phase
    /\ pc \in {"terminating", "update"} => mxjob.phase # "new"

\* Every version that is past a phase, and every copy that is about to be
\* written with it, was announced by the webhook of that phase.
Announced ==
    /\ "start" \in Webhooks =>
         /\ \A i \in 1 .. Len(log) : log[i].phase # "new" => "start" \in launched
         /\ pc \in {"terminating", "update"} => "start" \in launched
    /\ "finish" \in Webhooks =>
         /\ \A i \in 1 .. Len(log) : log[i].phase \in Final => "finish" \in launched
         /\ pc = "update" /\ mxjob.phase \in Final => "finish" \in launched

\* The finalizer stays until the finalizer goroutine clears it, and that one is
\* about to only once the finish hook was called.
Clearing ==
    HasFinalizer /\ "finish" \in Webhooks =>
        /\ finalizer.state # "none" => "finish" \in launched
        /\ \A i \in 1 .. Len(log) : IF log[i].exists THEN log[i].finalizer
                                                     ELSE "finish" \in launched

LifecycleInv == TypeOK /\ PhaseOrder /\ Copy /\ Announced /\ Clearing

-----------------------------------------------------------------------------
\* The log is never empty, so that there is a current version.
LEMMA CurrentVersion ==
    ASSUME TypeOK
    PROVE  /\ Len(log) \in Nat /\ Len(log) >= 1
           /\ Current \in Version
           /\ \A i \in 1 .. Len(log) : log[i] \in Version
  BY SMTT(30) DEF TypeOK, Current

\* A write leaves the earlier versions as they are and adds one, which is then
\* the current version.
LEMMA AppendVersion ==
    ASSUME TypeOK, NEW v \in Version, log' = Append(log, v)
    PROVE  /\ log' \in Seq(Version) /\ log' # << >>
           /\ Len(log) \in Nat /\ Len(log') = Len(log) + 1
           /\ \A i \in 1 .. Len(log) : log'[i] = log[i]
           /\ log'[Len(log) + 1] = v /\ Current' = v
  BY SMTT(30) DEF TypeOK, Current

\* callHookAsync adds at most a call of its kind; no other variable is involved.
LEMMA CallTyped ==
    ASSUME NEW k \in HookKind, callHookAsync(k),
           inflight \in [HookKind -> Nat], launched \subseteq HookKind
    PROVE  /\ inflight' \in [HookKind -> Nat]
           /\ launched \subseteq launched' /\ launched' \subseteq HookKind
           /\ k \in Webhooks => k \in launched'
           /\ ended' = ended
  BY SMTT(30) DEF callHookAsync

\* Every action keeps the variables in their sets.
LEMMA TypeStep == TypeOK /\ [Next]_vars => TypeOK'
<1> SUFFICES ASSUME TypeOK, [Next]_vars
             PROVE  TypeOK'
  OBVIOUS
<1> USE DEF HookKind
<1>0. /\ Len(log) \in Nat /\ Len(log) >= 1
      /\ Current \in Version
      /\ \A i \in 1 .. Len(log) : log[i] \in Version
  BY CurrentVersion
<1>1. CASE Sync
  BY <1>0, <1>1, SMTT(30) DEF Sync, TypeOK, hookVars, Version, Phases
<1>2. CASE syncFails
  BY <1>0, <1>2, SMTT(30) DEF syncFails, EndSync, NoJob, TypeOK, hookVars, Phases
<1>3. CASE initializeMXJob
  <2>1. inflight' \in [HookKind -> Nat] /\ launched' \subseteq HookKind /\ ended' = ended
    BY <1>3, CallTyped DEF initializeMXJob, TypeOK, hookVars
  <2> QED
    BY <1>0, <1>3, <2>1 DEF initializeMXJob, TypeOK, Phases, Final
<1>4. CASE terminateMXJob
  <2>1. inflight' \in [HookKind -> Nat] /\ launched' \subseteq HookKind /\ ended' = ended
    BY <1>4, CallTyped DEF terminateMXJob, TypeOK
  <2> QED
    BY <1>0, <1>4, <2>1 DEF terminateMXJob, TypeOK
<1>5. CASE updateStatus
  <2>1. log' = log \/ log' = Append(log, [Current EXCEPT !.phase = mxjob.phase])
    BY <1>5 DEF updateStatus
  <2>2. [Current EXCEPT !.phase = mxjob.phase] \in Version
    BY <1>0 DEF TypeOK, Version
  <2>3. log' \in Seq(Version) /\ log' # << >> /\ Len(log') \in Nat /\ Len(log') >= Len(log)
    BY <1>0, <2>1, <2>2, AppendVersion, SMTT(30) DEF TypeOK
  <2> QED
    BY <1>0, <1>5, <2>3, SMTT(30) DEF updateStatus, EndSync, NoJob, TypeOK, hookVars, Phases
<1>6. CASE \E k \in HookKind : hookEnds(k)
  BY <1>0, <1>6, SMTT(30) DEF hookEnds, TypeOK, syncVars
<1>7. CASE handleMXJobFinalizers
  BY <1>0, <1>7, SMTT(30) DEF handleMXJobFinalizers, TypeOK, syncVars
<1>8. CASE finalizerHookEnds
  BY <1>0, <1>8 DEF finalizerHookEnds, TypeOK, syncVars
<1>9. CASE clearFinalizer
  <2>1. [Current EXCEPT !.exists = FALSE, !.finalizer = FALSE] \in Version
    BY <1>0, Zenon DEF Version
  <2>2. log' \in Seq(Version) /\ log' # << >> /\ Len(log') \in Nat /\ Len(log') >= Len(log)
    BY <1>0, <1>9, <2>1, AppendVersion, SMTT(30) DEF clearFinalizer, TypeOK
  <2> QED
    BY <1>0, <1>9, <2>2, SMTT(30) DEF clearFinalizer, NoFinalizer, TypeOK, syncVars, hookVars
<1>10. CASE clearFinalizerErr
  BY <1>0, <1>10, SMTT(30) DEF clearFinalizerErr, NoFinalizer, TypeOK, syncVars, hookVars
<1>11. CASE watchEvent \/ relist
  <2>1. cacheRV' \in 1 .. Len(log)
    BY <1>0, <1>11, SMTT(30) DEF watchEvent, relist, TypeOK
  <2> QED
    BY <1>11, <2>1 DEF watchEvent, relist, TypeOK, syncVars, hookVars
<1>12. CASE touchJob \/ deleteJob
  <2>1. PICK v \in Version : userWrites(v)
    BY <1>0, <1>12, Zenon DEF touchJob, deleteJob, Version
  <2>2. log' \in Seq(Version) /\ log' # << >> /\ Len(log') \in Nat /\ Len(log') >= Len(log)
    BY <1>0, <2>1, AppendVersion, SMTT(30) DEF userWrites, TypeOK
  <2> QED
    BY <1>0, <2>1, <2>2, SMTT(30) DEF userWrites, TypeOK, syncVars, hookVars
<1>13. CASE crash
  BY <1>0, <1>13, SMTT(30) DEF crash, restarts, EndSync, NoJob, NoFinalizer, TypeOK, Phases
<1>14. CASE UNCHANGED vars
  BY <1>14 DEF vars, syncVars, hookVars, TypeOK
<1> QED
  BY <1>1, <1>2, <1>3, <1>4, <1>5, <1>6, <1>7, <1>8, <1>9, <1>10, <1>11, <1>12,
     <1>13, <1>14 DEF Next, SyncStep, HookStep, EnvStep

\* Type correctness: the versions that the cache, the copy and the finalizer
\* goroutine hold stay versions of the log, which only grows; no webhook
\* goroutine is counted down twice.
THEOREM TypeCorrect == Spec => []TypeOK
<1>1. Init => TypeOK
  BY LifecycleAssumption, SMTT(30) DEF Init, TypeOK, Version, Phases, NoJob, NoFinalizer, HookKind
<1>2. QED
  BY <1>1, TypeStep, PTL DEF Spec

-----------------------------------------------------------------------------
\* The inductive step: no step of the sync, of the goroutines, of users or of
\* a crash leads out of the invariant.
LEMMA InvStep == LifecycleInv /\ [Next]_vars => LifecycleInv'
<1> SUFFICES ASSUME LifecycleInv, [Next]_vars
             PROVE  PhaseOrder' /\ Copy' /\ Announced' /\ Clearing'
  BY TypeStep DEF LifecycleInv
<1> USE DEF HookKind
<1>0. /\ TypeOK /\ PhaseOrder /\ Copy /\ Announced /\ Clearing
      /\ Len(log) \in Nat /\ Len(log) >= 1
      /\ Current \in Version
      /\ \A i \in 1 .. Len(log) : log[i] \in Version
  BY CurrentVersion DEF LifecycleInv
<1>1. CASE Sync
  BY <1>0, <1>1, SMTT(30) DEF Sync, PhaseOrder, Copy, Announced, Clearing, hookVars, TypeOK
<1>2. CASE syncFails
  BY <1>0, <1>2 DEF syncFails, EndSync, PhaseOrder, Copy, Announced, Clearing, hookVars
<1>3. CASE initializeMXJob
  <2>1. /\ launched \subseteq launched'
        /\ "start" \in Webhooks => "start" \in launched'
    BY <1>0, <1>3, CallTyped DEF initializeMXJob, TypeOK, hookVars, Copy, Announced
  <2>2. /\ UNCHANGED <<log, finalizer>> /\ mxjob'.rv = mxjob.rv /\ mxjob'.phase # "new"
        /\ pc' \in {"terminating", "update"}
        /\ pc' = "update" => mxjob'.phase \notin Final
    BY <1>0, <1>3 DEF initializeMXJob, TypeOK
  <2>3. PhaseOrder' /\ Copy'
    BY <1>0, <1>3, <2>2, SMTT(30) DEF PhaseOrder, Copy, initializeMXJob
  <2>4. Announced'
    BY <1>0, <2>1, <2>2 DEF Announced
  <2>5. Clearing'
    BY <1>0, <2>1, <2>2 DEF Clearing
  <2> QED
    BY <2>3, <2>4, <2>5
<1>4. CASE terminateMXJob
  <2>1. /\ launched \subseteq launched'
        /\ "finish" \in Webhooks => "finish" \in launched'
    BY <1>0, <1>4, CallTyped DEF terminateMXJob, TypeOK
  <2> QED
    BY <1>0, <1>4, <2>1 DEF terminateMXJob, PhaseOrder, Copy, Announced, Clearing
<1>5. CASE updateStatus
  <2>1. CASE log' = log
    BY <1>0, <1>5, <2>1 DEF updateStatus, EndSync, PhaseOrder, Copy, Announced, Clearing, hookVars
  <2>2. CASE accepted(mxjob.rv) /\ log' = Append(log, [Current EXCEPT !.phase = mxjob.phase])
    <3> DEFINE v == [Current EXCEPT !.phase = mxjob.phase]
    <3>1. v \in Version /\ v.phase = mxjob.phase /\ v.exists /\ v.finalizer = Current.finalizer
      BY <1>0, <2>2, Zenon DEF TypeOK, Version, accepted
    <3>2. /\ Len(log') = Len(log) + 1
          /\ \A i \in 1 .. Len(log) : log'[i] = log[i]
          /\ log'[Len(log) + 1] = v
      BY <1>0, <2>2, <3>1, AppendVersion
    <3>3. Current.phase \notin Final /\ mxjob.phase # "new" /\ Current.exists
      BY <1>0, <1>5, <2>2 DEF accepted, Copy, Current, updateStatus
    <3>4. pc' = "idle" /\ UNCHANGED <<launched, finalizer>>
      BY <1>5 DEF updateStatus, EndSync, hookVars
    <3> HIDE DEF v
    <3>5. PhaseOrder'
      BY <1>0, <3>1, <3>2, <3>3, SMTT(30) DEF PhaseOrder, Current, Version, Phases, Final
    <3>6. Copy' /\ Announced' /\ Clearing'
      BY <1>0, <1>5, <3>1, <3>2, <3>3, <3>4, SMTT(30)
         DEF Copy, Announced, Clearing, Current, updateStatus
    <3> QED
      BY <3>5, <3>6
  <2> QED
    BY <1>5, <2>1, <2>2 DEF updateStatus
<1>6. CASE \E k \in HookKind : hookEnds(k)
  BY <1>0, <1>6, SMTT(30) DEF hookEnds, PhaseOrder, Copy, Announced, Clearing, syncVars
<1>7. CASE handleMXJobFinalizers
  <2>1. UNCHANGED <<log, pc, mxjob>> /\ launched \subseteq launched'
    BY <1>7 DEF handleMXJobFinalizers, syncVars
  <2>2. "finish" \in Webhooks => "finish" \in launched'
    BY <1>0, <1>7 DEF handleMXJobFinalizers, Announced, TypeOK
  <2> QED
    BY <1>0, <2>1, <2>2, SMTT(30) DEF PhaseOrder, Copy, Announced, Clearing
<1>8. CASE finalizerHookEnds
  BY <1>0, <1>8, SMTT(30) DEF finalizerHookEnds, PhaseOrder, Copy, Announced, Clearing, syncVars, TypeOK
<1>9. CASE clearFinalizer
  <2> DEFINE v == [Current EXCEPT !.exists = FALSE, !.finalizer = FALSE]
  <2>1. v \in Version /\ v.phase = Current.phase /\ ~v.exists
    BY <1>0, Zenon DEF Version
  <2>2. /\ Len(log') = Len(log) + 1
        /\ \A i \in 1 .. Len(log) : log'[i] = log[i]
        /\ log'[Len(log) + 1] = v
    BY <1>0, <1>9, <2>1, AppendVersion DEF clearFinalizer
  <2>3. UNCHANGED <<pc, mxjob, launched>> /\ finalizer.state # "none" /\ finalizer'.state = "none"
    BY <1>9 DEF clearFinalizer, syncVars, hookVars, NoFinalizer
  <2> HIDE DEF v
  <2>4. PhaseOrder'
    BY <1>0, <2>1, <2>2, SMTT(30) DEF PhaseOrder, Current
  <2>5. Copy'
    BY <1>0, <2>2, <2>3, SMTT(30) DEF Copy
  <2>6. Announced'
    BY <1>0, <2>1, <2>2, <2>3 DEF Announced, Current
  <2>7. Clearing'
    BY <1>0, <2>1, <2>2, <2>3 DEF Clearing
  <2> QED
    BY <2>4, <2>5, <2>6, <2>7
<1>10. CASE clearFinalizerErr
  BY <1>0, <1>10 DEF clearFinalizerErr, NoFinalizer, PhaseOrder, Copy, Announced, Clearing,
     syncVars, hookVars
<1>11. CASE watchEvent \/ relist
  BY <1>0, <1>11, SMTT(30) DEF watchEvent, relist, PhaseOrder, Copy, Announced, Clearing,
     syncVars, hookVars
<1>12. CASE touchJob \/ deleteJob
  <2>1. PICK v \in Version : /\ userWrites(v) /\ v.phase = Current.phase
                             /\ v.finalizer = Current.finalizer
                             /\ Current.finalizer => v.exists
    <3>1. CASE touchJob
      BY <1>0, <3>1 DEF touchJob, userWrites
    <3>2. CASE deleteJob
      <4> DEFINE w == IF Current.finalizer THEN [Current EXCEPT !.deleting = TRUE]
                                           ELSE [Current EXCEPT !.exists = FALSE]
      <4>1. /\ w \in Version /\ w.phase = Current.phase /\ w.finalizer = Current.finalizer
            /\ Current.exists /\ Current.finalizer => w.exists
        BY <1>0, Zenon DEF Version
      <4>2. userWrites(w) /\ Current.exists
        BY <3>2 DEF deleteJob, userWrites
      <4> HIDE DEF w
      <4> QED
        BY <4>1, <4>2
    <3> QED
      BY <1>12, <3>1, <3>2
  <2>2. /\ Len(log') = Len(log) + 1
        /\ \A i \in 1 .. Len(log) : log'[i] = log[i]
        /\ log'[Len(log) + 1] = v
    BY <1>0, <2>1, AppendVersion DEF userWrites
  <2>3. UNCHANGED <<pc, mxjob, launched, finalizer>> /\ Current.exists
    BY <2>1 DEF userWrites, syncVars, hookVars
  <2>4. PhaseOrder'
    BY <1>0, <2>1, <2>2, SMTT(30) DEF PhaseOrder, Current
  <2>5. Copy'
    BY <1>0, <2>2, <2>3, SMTT(30) DEF Copy
  <2>6. Announced'
    BY <1>0, <2>1, <2>2, <2>3 DEF Announced, Current
  <2>7. Clearing'
    BY <1>0, <2>1, <2>2, <2>3 DEF Clearing, Current
  <2> QED
    BY <2>4, <2>5, <2>6, <2>7
<1>13. CASE crash
  BY <1>0, <1>13, SMTT(30)
     DEF crash, restarts, EndSync, NoFinalizer, PhaseOrder, Copy, Announced, Clearing
<1>14. CASE UNCHANGED vars
  BY <1>0, <1>14 DEF vars, syncVars, hookVars, PhaseOrder, Copy, Announced, Clearing
<1> QED
  BY <1>1, <1>2, <1>3, <1>4, <1>5, <1>6, <1>7, <1>8, <1>9, <1>10, <1>11, <1>12,
     <1>13, <1>14 DEF Next, SyncStep, HookStep, EnvStep

\* The inductive invariant holds.
LEMMA InvHolds == Spec => []LifecycleInv
<1>1. Init => LifecycleInv
  BY LifecycleAssumption, SMTT(30)
     DEF Init, LifecycleInv, TypeOK, PhaseOrder, Copy, Announced, Clearing,
     Version, Phases, Final, NoJob, NoFinalizer, HookKind
<1>2. QED
  BY <1>1, InvStep, PTL DEF Spec

\* The phase of the written status never goes back, whatever copies the syncs
\* of reconcileMXJobs work on.
THEOREM PhaseOrderHolds == Spec => []PhaseOrder
  BY InvHolds, PTL DEF LifecycleInv

\* A job that was written initialized had its start webhook called before,
\* through any failed update and any crash.
THEOREM StartBeforeWritten == Spec => []StartNotified
<1>1. LifecycleInv => StartNotified
  BY CurrentVersion DEF LifecycleInv, Announced, StartNotified, Current
<1>2. QED
  BY <1>1, InvHolds, PTL

\* The same of a finished job and its finish webhook.
THEOREM FinishBeforeWritten == Spec => []FinishNotified
<1>1. LifecycleInv => FinishNotified
  BY CurrentVersion DEF LifecycleInv, Announced, FinishNotified, Current
<1>2. QED
  BY <1>1, InvHolds, PTL

\* A job with the finishWebhook finalizer disappears only after its finish
\* webhook was called.
THEOREM FinalizerIsHonoured == Spec => []FinalizerHonoured
<1>1. LifecycleInv => FinalizerHonoured
  BY CurrentVersion DEF LifecycleInv, Clearing, FinalizerHonoured, Current
<1>2. QED
  BY <1>1, InvHolds, PTL

-----------------------------------------------------------------------------
\* The finalizer's goroutine works for a version of the log, and comes to its
\* update without a call only for one that is finished.
Waited ==
    finalizer.state # "none" =>
        /\ finalizer.rv \in 1 .. Len(log)
        /\ finalizer.state = "updating" /\ "finish" \in Webhooks
           /\ log[finalizer.rv].phase \notin Final => "finish" \in ended

\* The inductive step: the update is accepted only on top of the version the
\* goroutine read, and only its goroutine removes a job with the finalizer.
LEMMA WaitStep ==
    LifecycleInv /\ Waited /\ UnfinishedWaits /\ [Next]_vars => Waited' /\ UnfinishedWaits'
<1> SUFFICES ASSUME LifecycleInv, Waited, UnfinishedWaits, [Next]_vars
             PROVE  Waited' /\ UnfinishedWaits'
  OBVIOUS
<1>0. /\ TypeOK /\ Clearing
      /\ Len(log) \in Nat /\ Len(log) >= 1
      /\ Current \in Version
  BY CurrentVersion DEF LifecycleInv
<1>a. ASSUME UNCHANGED log, ended \subseteq ended'
      PROVE  UnfinishedWaits'
  BY <1>a DEF UnfinishedWaits, Current
<1>b. UNCHANGED <<log, finalizer>> /\ ended \subseteq ended' => Waited'
  BY DEF Waited
\* a write that leaves the job in place, or removes one without the finalizer
<1>c. ASSUME NEW v \in Version, log' = Append(log, v), UNCHANGED <<finalizer, ended>>,
             v.exists \/ ~HasFinalizer \/ "finish" \notin Webhooks
      PROVE  Waited' /\ UnfinishedWaits'
  <2>1. /\ Current' = v /\ Len(log') = Len(log) + 1
        /\ \A i \in 1 .. Len(log) : log'[i] = log[i]
    BY <1>0, <1>c, AppendVersion
  <2>2. UnfinishedWaits'
    BY <1>c, <2>1 DEF UnfinishedWaits
  <2>3. Waited'
    BY <1>0, <1>c, <2>1, SMTT(30) DEF Waited
  <2>4. QED
    BY <2>2, <2>3
<1>1. CASE Sync \/ syncFails \/ initializeMXJob \/ terminateMXJob \/ watchEvent \/ relist
           \/ UNCHANGED vars \/ \E k \in HookKind : hookEnds(k)
  <2>1. UNCHANGED <<log, finalizer>> /\ ended \subseteq ended'
    BY <1>1 DEF Sync, syncFails, initializeMXJob, terminateMXJob, callHookAsync, watchEvent,
       relist, vars, hookEnds, hookVars
  <2>2. QED
    BY <1>a, <1>b, <2>1
<1>2. CASE updateStatus
  <2>1. CASE log' = log
    BY <1>2, <1>a, <1>b, <2>1 DEF updateStatus, hookVars
  <2>2. CASE accepted(mxjob.rv) /\ log' = Append(log, [Current EXCEPT !.phase = mxjob.phase])
    <3>1. /\ [Current EXCEPT !.phase = mxjob.phase] \in Version
          /\ [Current EXCEPT !.phase = mxjob.phase].exists
      BY <1>0, <2>2, Zenon DEF TypeOK, Version, accepted
    <3>2. QED
      BY <1>2, <1>c, <2>2, <3>1 DEF updateStatus, hookVars
  <2>3. QED
    BY <1>2, <2>1, <2>2 DEF updateStatus
<1>3. CASE handleMXJobFinalizers
  <2>1. UNCHANGED <<log, ended>>
    BY <1>3 DEF handleMXJobFinalizers
  <2>2. Waited'
    BY <1>0, <1>3, <2>1 DEF handleMXJobFinalizers, Waited, TypeOK
  <2>3. QED
    BY <1>a, <2>1, <2>2
<1>4. CASE finalizerHookEnds
  <2>1. UNCHANGED log /\ ended' = ended \cup {"finish"}
    BY <1>4 DEF finalizerHookEnds
  <2>2. Waited'
    BY <1>0, <1>4, <2>1 DEF finalizerHookEnds, Waited, TypeOK
  <2>3. QED
    BY <1>a, <2>1, <2>2
<1>5. CASE clearFinalizer
  <2> DEFINE v == [Current EXCEPT !.exists = FALSE, !.finalizer = FALSE]
  <2>1. v \in Version /\ v.phase = Current.phase
    BY <1>0, Zenon DEF Version
  <2>2. Current' = v
    BY <1>0, <1>5, <2>1, AppendVersion DEF clearFinalizer
  <2>3. /\ finalizer'.state = "none" /\ ended' = ended
        /\ finalizer.state = "updating" /\ Current = log[finalizer.rv]
    BY <1>5 DEF clearFinalizer, NoFinalizer, hookVars, accepted, Current
  <2> HIDE DEF v
  <2>4. QED
    BY <2>1, <2>2, <2>3 DEF Waited, UnfinishedWaits
<1>6. CASE clearFinalizerErr
  BY <1>6, <1>a DEF clearFinalizerErr, NoFinalizer, Waited, hookVars
<1>7. CASE touchJob
  BY <1>0, <1>7, <1>c DEF touchJob, userWrites, hookVars
<1>8. CASE deleteJob
  <2> DEFINE v == IF Current.finalizer THEN [Current EXCEPT !.deleting = TRUE]
                                       ELSE [Current EXCEPT !.exists = FALSE]
  <2>1. userWrites(v) /\ Current.exists
    BY <1>8 DEF deleteJob, userWrites
  <2>2. v \in Version /\ (Current.finalizer => v.exists)
    BY <1>0, <2>1, Zenon DEF Version
  <2> HIDE DEF v
  <2>3. HasFinalizer /\ "finish" \in Webhooks => Current.finalizer
    BY <1>0, <2>1 DEF Clearing, Current
  <2>4. QED
    BY <1>c, <2>1, <2>2, <2>3 DEF userWrites, hookVars
<1>9. CASE crash
  BY <1>9, <1>a DEF crash, restarts, NoFinalizer, Waited
<1>10. QED
  BY <1>1, <1>2, <1>3, <1>4, <1>5, <1>6, <1>7, <1>8, <1>9 DEF Next, SyncStep, HookStep, EnvStep

\* A job with the finishWebhook finalizer that is removed unfinished had a call
\* of its finish webhook that came to its end, through crashes, refused updates
\* and caches that go back.
THEOREM UnfinishedJobsWait == Spec => []UnfinishedWaits
<1>1. Init => Waited /\ UnfinishedWaits
  BY SMTT(30) DEF Init, Waited, UnfinishedWaits, NoFinalizer, Current
<1>2. QED
  BY <1>1, InvHolds, WaitStep, PTL DEF Spec
=============================================================================
