--------------------------- MODULE WebhooksProofs ---------------------------
(***************************************************************************)
(* Proofs about Webhooks for every value of the constants: the goroutines  *)
(* implement the calls of MXJobLifecycle, and the outcome written was      *)
(* announced.                                                              *)
(***************************************************************************)
EXTENDS Webhooks, MXJobLifecycleProofs

\* A leaf that names no prover goes to Zenon, which is quick where a leaf only
\* puts facts together, and then to the SMT solver: no proof hangs on the speed
\* of one machine.  Leaves that need arithmetic or sequences name the latter.
USE ZenonT(10), SMTT(30), SMTT(60)

\* The copy a sync is about to write was announced with the outcome it has.
Announcing ==
    pc = "update" /\ mxjob.phase \in Final /\ "finish" \in Webhooks => mxjob.phase \in announced

WebhooksInv == WTypeOK /\ Announcing /\ OutcomeAnnounced

-----------------------------------------------------------------------------
\* Every step with its calls is a step of the lifecycle, an attempt it does not
\* see, or the end of the process.
LEMMA StepIsStep ==
    ASSUME WTypeOK, WNext
    PROVE  \/ [Next]_vars
           \/ restarts /\ \E c \in calls : callHookPanics(c)
<1> USE DEF Next, SyncStep, HookStep, EnvStep
<1>1. CASE wSync
  BY <1>1 DEF wSync
<1>2. CASE wInitializeMXJob \/ wTerminateMXJob \/ wHandleMXJobFinalizers
  BY <1>2 DEF wInitializeMXJob, wTerminateMXJob, wHandleMXJobFinalizers
<1>3. ASSUME NEW c \in calls, attempt(c)
      PROVE  [Next]_vars
  <2>1. c.kind \in HookKind
    BY <1>3 DEF WTypeOK, Call
  <2> QED
    BY <1>3, <2>1, Zenon DEF attempt, callHookNoClient, callHookFails, callHookDone,
       tryAgain, ends
<1>4. ASSUME NEW c \in calls, callHookPanics(c)
      PROVE  restarts
  BY <1>4 DEF callHookPanics
<1>5. CASE wCrash
  BY <1>5 DEF wCrash
<1>6. CASE Other /\ UNCHANGED callVars
  BY <1>6 DEF Other
<1>7. QED
  BY <1>1, <1>2, <1>3, <1>4, <1>5, <1>6 DEF WNext

LEMMA RestartTyped == TypeOK /\ restarts => TypeOK'
  BY SMTT(30) DEF restarts, EndSync, NoJob, NoFinalizer, TypeOK, Phases

\* What callHookAsync does to the calls: it adds one with a number of its own,
\* unless the spec has no such webhook.
LEMMA StartEffect ==
    ASSUME WTypeOK, NEW k \in HookKind, NEW ph \in Phases, NEW by \in {"sync", "finalizer"},
           start(k, ph, by)
    PROVE  calls' \subseteq Call /\ \A x, y \in calls' : x.id = y.id => x = y
<1>1. CASE k \in Webhooks
  <2> DEFINE i == CHOOSE id \in Free : TRUE
             c == [id |-> i, kind |-> k, phase |-> ph, by |-> by, step |-> 1]
  <2>1. i \in Free /\ calls' = calls \cup {c}
    BY <1>1 DEF start
  <2>2. i \in CallId /\ \A x \in calls : x.id # i
    BY <2>1 DEF Free
  <2> HIDE DEF i
  <2>3. c \in Call
    BY <2>2, WebhooksAssumption, SMTT(30) DEF Call
  <2>4. QED
    BY <2>1, <2>2, <2>3, SMTT(30) DEF WTypeOK
<1>2. CASE k \notin Webhooks
  BY <1>2 DEF start, WTypeOK
<1>3. QED
  BY <1>1, <1>2

-----------------------------------------------------------------------------
\* The steps without a call: what is written was announced before.
LEMMA OtherStep ==
    ASSUME WebhooksInv, Sync \/ Other, UNCHANGED callVars, TypeOK'
    PROVE  WebhooksInv'
<1>1. WTypeOK'
  BY DEF WebhooksInv, WTypeOK, callVars
<1>2. Announcing'
  BY DEF WebhooksInv, Announcing, Sync, Other, syncFails, updateStatus, clearFinalizer,
     clearFinalizerErr, watchEvent, relist, touchJob, deleteJob, userWrites, EndSync, callVars, syncVars
<1>3. \/ log' = log
      \/ \E v \in Version : /\ log' = Append(log, v)
                            /\ v.phase = Current.phase \/ (v.phase = mxjob.phase /\ pc = "update")
  <2>1. Current \in Version
    BY CurrentVersion DEF WebhooksInv, WTypeOK
  <2>2. CASE Sync \/ syncFails \/ clearFinalizerErr \/ watchEvent \/ relist
    BY <2>2 DEF Sync, syncFails, clearFinalizerErr, watchEvent, relist
  <2>3. CASE updateStatus
    <3> DEFINE v == [Current EXCEPT !.phase = mxjob.phase]
    <3>1. v \in Version /\ v.phase = mxjob.phase
      BY <2>1, Zenon DEF WebhooksInv, WTypeOK, TypeOK, Version
    <3>2. QED
      BY <2>3, <3>1, Zenon DEF updateStatus
  <2>4. CASE clearFinalizer
    <3> DEFINE v == [Current EXCEPT !.exists = FALSE, !.finalizer = FALSE]
    <3>1. v \in Version /\ v.phase = Current.phase
      BY <2>1, Zenon DEF Version
    <3>2. QED
      BY <2>4, <3>1, Zenon DEF clearFinalizer
  <2>5. CASE touchJob
    BY <2>1, <2>5 DEF touchJob, userWrites
  <2>6. CASE deleteJob
    <3> DEFINE v == IF Current.finalizer THEN [Current EXCEPT !.deleting = TRUE]
                                         ELSE [Current EXCEPT !.exists = FALSE]
    <3>1. v \in Version /\ v.phase = Current.phase
      BY <2>1, Zenon DEF Version
    <3>2. QED
      BY <2>6, <3>1, Zenon DEF deleteJob, userWrites
  <2>7. QED
    BY <2>2, <2>3, <2>4, <2>5, <2>6 DEF Other
<1>4. OutcomeAnnounced'
  <2>1. CASE log' = log
    BY <2>1 DEF WebhooksInv, OutcomeAnnounced, callVars, Current
  <2>2. ASSUME NEW v \in Version, log' = Append(log, v),
               v.phase = Current.phase \/ (v.phase = mxjob.phase /\ pc = "update")
        PROVE  OutcomeAnnounced'
    <3>1. Current' = v
      BY <2>2, AppendVersion DEF WebhooksInv, WTypeOK
    <3>2. QED
      BY <2>2, <3>1 DEF WebhooksInv, OutcomeAnnounced, Announcing, callVars
  <2>3. QED
    BY <1>3, <2>1, <2>2
<1>5. QED
  BY <1>1, <1>2, <1>4 DEF WebhooksInv

\* A call is started: by a sync that initializes or ends the job ...
LEMMA SyncCallStep ==
    ASSUME WebhooksInv, wInitializeMXJob \/ wTerminateMXJob, TypeOK'
    PROVE  WebhooksInv'
<1> DEFINE k == IF pc = "terminating" THEN "finish" ELSE "start"
<1>1. k \in HookKind /\ log' = log
  BY DEF wInitializeMXJob, wTerminateMXJob, initializeMXJob, terminateMXJob, HookKind
<1>2. UNCHANGED callVars \/ start(k, mxjob'.phase, "sync")
  BY DEF wInitializeMXJob, wTerminateMXJob, initializeMXJob, terminateMXJob
<1>3. announced \subseteq announced' /\ announced' \subseteq Phases /\ UNCHANGED <<clientConfig, cache>>
  BY <1>2 DEF start, callVars, WebhooksInv, WTypeOK, TypeOK
<1>4. OutcomeAnnounced'
  BY <1>1, <1>3 DEF WebhooksInv, OutcomeAnnounced, Current
<1>5. Announcing'
  <2>1. CASE wInitializeMXJob
    BY <2>1, SMTT(30) DEF wInitializeMXJob, initializeMXJob, Announcing
  <2>2. CASE wTerminateMXJob
    BY <2>2 DEF wTerminateMXJob, terminateMXJob, start, Announcing
  <2>3. QED
    BY <2>1, <2>2
<1>6. WTypeOK'
  <2>1. CASE UNCHANGED callVars
    BY <2>1 DEF WebhooksInv, WTypeOK, callVars
  <2>2. CASE start(k, mxjob'.phase, "sync")
    <3> HIDE DEF k
    <3>1. mxjob'.phase \in Phases
      BY DEF TypeOK
    <3>2. calls' \subseteq Call /\ \A x, y \in calls' : x.id = y.id => x = y
      BY <1>1, <2>2, <3>1, StartEffect DEF WebhooksInv
    <3>3. QED
      BY <1>3, <3>2 DEF WebhooksInv, WTypeOK
  <2>3. QED
    BY <1>2, <2>1, <2>2
<1>7. QED
  BY <1>4, <1>5, <1>6 DEF WebhooksInv

\* ... or by the finalizer.
LEMMA FinalizerCallStep ==
    ASSUME WebhooksInv, wHandleMXJobFinalizers, TypeOK'
    PROVE  WebhooksInv'
<1>1. UNCHANGED <<log, pc, mxjob>>
  BY DEF wHandleMXJobFinalizers, handleMXJobFinalizers, syncVars
<1>2. UNCHANGED callVars \/ start("finish", log[cacheRV].phase, "finalizer")
  BY DEF wHandleMXJobFinalizers
<1>3. log[cacheRV].phase \in Phases /\ "finish" \in HookKind
  BY CurrentVersion DEF WebhooksInv, WTypeOK, TypeOK, Version, HookKind
<1>4. announced \subseteq announced' /\ announced' \subseteq Phases /\ UNCHANGED <<clientConfig, cache>>
  BY <1>2, <1>3 DEF start, callVars, WebhooksInv, WTypeOK
<1>5. OutcomeAnnounced' /\ Announcing'
  BY <1>1, <1>4 DEF WebhooksInv, OutcomeAnnounced, Announcing, Current
<1>6. calls' \subseteq Call /\ \A x, y \in calls' : x.id = y.id => x = y
  BY <1>2, <1>3, StartEffect DEF WebhooksInv, WTypeOK, callVars
<1>7. QED
  BY <1>4, <1>5, <1>6 DEF WebhooksInv, WTypeOK

\* An attempt takes the call to the next one or to its end.
LEMMA AttemptStep ==
    ASSUME WebhooksInv, NEW c \in calls, attempt(c), TypeOK'
    PROVE  WebhooksInv'
<1>1. UNCHANGED <<log, pc, mxjob, announced, clientConfig>>
  BY Zenon DEF attempt, callHookNoClient, callHookFails, callHookDone, tryAgain, ends, hookEnds,
     finalizerHookEnds, vars, syncVars
<1>2. OutcomeAnnounced' /\ Announcing'
  BY <1>1 DEF WebhooksInv, OutcomeAnnounced, Announcing, Current
<1>3. cache' \subseteq Configs
  BY SMTT(30) DEF attempt, callHookNoClient, callHookFails, callHookDone, HookClient,
     WebhooksInv, WTypeOK
<1>4. calls' \subseteq Call /\ \A x, y \in calls' : x.id = y.id => x = y
  <2> DEFINE d == [c EXCEPT !.step = @ + 1]
  <2>1. \/ c.step < Steps /\ calls' = (calls \ {c}) \cup {d}
        \/ calls' = calls \ {c}
    BY Zenon DEF attempt, callHookNoClient, callHookFails, callHookDone, tryAgain
  <2>2. c \in Call /\ calls \subseteq Call /\ \A x, y \in calls : x.id = y.id => x = y
    BY DEF WebhooksInv, WTypeOK
  <2>3. c.step < Steps => d \in Call /\ d.id = c.id
    BY <2>2, WebhooksAssumption, SMTT(30) DEF Call
  <2> HIDE DEF d
  <2>4. QED
    BY <2>1, <2>2, <2>3, SMTT(30)
<1>5. QED
  BY <1>1, <1>2, <1>3, <1>4 DEF WebhooksInv, WTypeOK

\* A new process has no calls.
LEMMA RestartStep ==
    ASSUME WebhooksInv, restarts, lost, TypeOK'
    PROVE  WebhooksInv'
  BY DEF WebhooksInv, WTypeOK, Announcing, OutcomeAnnounced, restarts, lost, EndSync, Current

LEMMA WebhooksStep == WebhooksInv /\ [WNext]_hvars => WebhooksInv'
<1> SUFFICES ASSUME WebhooksInv, [WNext]_hvars PROVE WebhooksInv'
  OBVIOUS
<1>1. CASE UNCHANGED hvars
  BY <1>1 DEF hvars, vars, syncVars, hookVars, callVars, WebhooksInv, WTypeOK, TypeOK,
     Announcing, OutcomeAnnounced, Current
<1>2. CASE WNext
  <2>1. TypeOK'
    BY <1>2, StepIsStep, TypeStep, RestartTyped DEF WebhooksInv, WTypeOK
  <2>2. CASE wSync \/ (Other /\ UNCHANGED callVars)
    BY <2>1, <2>2, OtherStep DEF wSync
  <2>3. CASE wInitializeMXJob \/ wTerminateMXJob
    BY <2>1, <2>3, SyncCallStep
  <2>4. CASE wHandleMXJobFinalizers
    BY <2>1, <2>4, FinalizerCallStep
  <2>5. ASSUME NEW c \in calls, attempt(c) PROVE WebhooksInv'
    BY <2>1, <2>5, AttemptStep
  <2>6. ASSUME NEW c \in calls, callHookPanics(c) PROVE WebhooksInv'
    BY <2>1, <2>6, RestartStep DEF callHookPanics
  <2>7. CASE wCrash
    BY <2>1, <2>7, RestartStep DEF wCrash, crash
  <2>8. QED
    BY <1>2, <2>2, <2>3, <2>4, <2>5, <2>6, <2>7 DEF WNext
<1>3. QED
  BY <1>1, <1>2

LEMMA WebhooksInit == WInit => WebhooksInv
<1> SUFFICES ASSUME WInit PROVE WebhooksInv
  OBVIOUS
<1>1. TypeOK
  BY LifecycleAssumption DEF WInit, Init, TypeOK, Version, Phases, NoJob, NoFinalizer, HookKind
<1>2. WTypeOK /\ Announcing
  BY <1>1 DEF WInit, Init, WTypeOK, Announcing
<1>3. OutcomeAnnounced
  BY DEF WInit, Init, OutcomeAnnounced, Current, Final
<1>4. QED
  BY <1>2, <1>3 DEF WebhooksInv

LEMMA WebhooksHolds == WSpec => []WebhooksInv
  BY WebhooksInit, WebhooksStep, PTL DEF WSpec

\* The state of the webhook goroutines, and with it the lifecycle's, is typed:
\* no goroutine retries a call more often than callHook's backoff allows.
THEOREM WebhooksTypeCorrect == WSpec => []WTypeOK
  BY WebhooksHolds, PTL DEF WebhooksInv

\* The finish hook was called with the outcome that reconcileMXJobs wrote.
THEOREM OutcomeIsAnnounced == WSpec => []OutcomeAnnounced
  BY WebhooksHolds, PTL DEF WebhooksInv

\* The calls with their retries and answers implement those of MXJobLifecycle,
\* if the latter allows for the crash that an answer without a Result causes.
THEOREM CallsImplementLifecycle ==
    ASSUME "noResult" \in Answers => "crash" \in Env
    PROVE  WSpec => Spec
<1>1. WTypeOK /\ [WNext]_hvars => [Next]_vars
  <2> SUFFICES ASSUME WTypeOK, [WNext]_hvars PROVE [Next]_vars
    OBVIOUS
  <2>1. CASE UNCHANGED hvars
    BY <2>1 DEF hvars
  <2>2. ASSUME NEW c \in calls, callHookPanics(c) PROVE Next
    BY <2>2 DEF callHookPanics, crash, Next, EnvStep
  <2>3. QED
    BY <2>1, <2>2, StepIsStep
<1>2. WInit => Init
  BY DEF WInit
<1>3. WebhooksInv => WTypeOK
  BY DEF WebhooksInv
<1>4. QED
  BY <1>1, <1>2, <1>3, WebhooksHolds, PTL DEF WSpec, Spec

\* So with every kind of answer and any number of retries, the phases of a job
\* are written in order, each hook is called before what it announces is
\* written, and no job with the finalizer goes without its finish hook called,
\* nor unfinished before a call of it came to its end.
THEOREM CallsKeepPromises ==
    ASSUME "noResult" \in Answers => "crash" \in Env
    PROVE  WSpec => [](/\ PhaseOrder /\ StartNotified /\ FinishNotified
                       /\ FinalizerHonoured /\ UnfinishedWaits)
  BY CallsImplementLifecycle, PhaseOrderHolds, StartBeforeWritten, FinishBeforeWritten,
     FinalizerIsHonoured, UnfinishedJobsWait, PTL
=============================================================================
