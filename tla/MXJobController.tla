-------------------------- MODULE MXJobController --------------------------
(***************************************************************************)
(* The controller of one MXJob (pkg/mx/handler.go): the sync worker, the   *)
(* webhook goroutines and the finalizer goroutine of the operator process, *)
(* against an API server that holds the job, its pods and its service.     *)
(*                                                                         *)
(* The API server's copies of the job are kept as a log: log[rv] is the    *)
(* object as of resource version rv, the last entry is the current one.    *)
(* The informer's cache is the version it has got to.  Every call to the   *)
(* API server is a step of its own, so that pods, users, the watch and     *)
(* crashes interleave with a sync anywhere.                                *)
(***************************************************************************)
EXTENDS MXJobStatus, Sequences

CONSTANTS Webhooks,      \* the webhooks the spec configures
          HasFinalizer,  \* whether the job carries the finishWebhook finalizer
          Env,           \* what the environment may do, see Disturbance
          MaxLost,       \* bound: pods gone when somebody else deletes one more
          MaxVersions,   \* bound: log length up to which a write may leave the phase as it is
          MaxCalls       \* bound: concurrent webhook goroutines of a kind

HookKind == {"start", "finish"}

\* succeed, fail: what a pod may end in; writeErrors: creating or deleting a
\* pod and updating the job may fail although nothing speaks against it;
\* timeout: a pod's creation may be answered with a timeout error; serviceLoss:
\* somebody deletes the service; touch: somebody writes the job without
\* changing its status or finalizers; delete: the job is deleted; relist: the
\* informer lists the job again and gets an older version; crash: the operator
\* dies and is restarted.
Disturbance == {"succeed", "fail", "writeErrors", "timeout", "serviceLoss",
                "touch", "delete", "relist", "crash"}

ASSUME ControllerAssumption == /\ Webhooks \subseteq HookKind
                               /\ HasFinalizer \in BOOLEAN
                               /\ Env \subseteq Disturbance
                               /\ MaxLost \in Nat
                               /\ MaxVersions \in Nat
                               /\ MaxCalls \in Nat

VARIABLES
    \* the API server
    log,       \* the versions of the job
    pods,      \* the job's pods
    service,   \* the scheduler's service
    \* the operator process
    cacheRV,   \* the version in the informer's store
    pc,        \* where the sync worker is
    mxjob,     \* its copy of the job: the version it came from, the status
    listed,    \* the pods getPodsForMXJob returned
    inflight,  \* the number of webhook goroutines of each kind
    finalizer, \* the function running under finalizerGroup
    \* history
    launched,  \* the webhooks for which a call was ever started
    ended      \* the webhooks for which a call ever came to its end

apiVars  == <<log, pods, service>>
syncVars == <<pc, mxjob, listed>>
hookVars == <<inflight, launched, ended>>
vars == <<apiVars, cacheRV, syncVars, hookVars, finalizer>>

\* getPods .. update: the API call, or the replica type, that is next.
PC == {"idle", "getPods", "getServices", "canAdoptService", "adoptService",
       "createService", "initialize", "terminate", "update"} \cup RType

Version == [exists : BOOLEAN, deleting : BOOLEAN, finalizer : BOOLEAN,
            status : MXJobStatusType]

\* "none" before the first creation, "deleted" after a removal.
Service == {"none", "orphan", "owned", "deleted"}

Current == log[Len(log)]

NoJob == [rv |-> 0, status |-> NewStatus]

NoFinalizer == [state |-> "none", rv |-> 0]

TypeOK ==
    /\ log \in Seq(Version) /\ log # << >>
    /\ pods \in [RType -> [PodId -> Pod]]
    /\ service \in Service
    /\ cacheRV \in 1 .. Len(log)
    /\ pc \in PC
    /\ mxjob \in [rv : 0 .. Len(log), status : MXJobStatusType]
    /\ listed \in [RType -> [PodId -> Pod]]
    /\ inflight \in [HookKind -> Nat]
    /\ finalizer \in [state : {"none", "calling", "updating"}, rv : 0 .. Len(log)]
    /\ launched \subseteq HookKind
    /\ ended \subseteq HookKind

Init ==
    /\ log = << [exists |-> TRUE, deleting |-> FALSE, finalizer |-> HasFinalizer,
                 status |-> NewStatus] >>
    /\ pods = NoPods
    /\ service = "none"
    /\ cacheRV = 1
    /\ pc = "idle"
    /\ mxjob = NoJob
    /\ listed = NoPods
    /\ inflight = [k \in HookKind |-> 0]
    /\ finalizer = NoFinalizer
    /\ launched = {}
    /\ ended = {}

-----------------------------------------------------------------------------
(* The sync worker. *)

\* Return from Sync, whatever the result: the key is queued again by the retry
\* of a failed sync, by an event, or by the resync.
EndSync == /\ pc' = "idle"
           /\ mxjob' = NoJob
           /\ listed' = NoPods

Goto(where) == /\ pc' = where
               /\ UNCHANGED <<mxjob, listed>>

\* callHookAsync up to the point where it returns its channel.
callHookAsync(k) ==
    /\ UNCHANGED ended
    /\ IF k \in Webhooks
       THEN /\ inflight' = [inflight EXCEPT ![k] = @ + 1]
            /\ launched' = launched \cup {k}
       ELSE UNCHANGED <<inflight, launched>>

\* The status after the Created condition was added "first met".
createdStatus(status) == updateMXJobConditions(status, "Created")

\* Mutation of Sync: a finished job is reconciled again.
SyncFinishedToo ==
    /\ pc = "idle"
    /\ \A k \in HookKind : inflight[k] < MaxCalls
    /\ log[cacheRV].exists /\ ~log[cacheRV].deleting
    /\ mxjob' = [rv |-> cacheRV, status |-> createdStatus(log[cacheRV].status)]
    /\ pc' = "getPods"
    /\ UNCHANGED <<apiVars, cacheRV, listed, hookVars, finalizer>>

\* Sync, for a job that is neither deleted nor pending deletion.  The Created
\* condition is only set in the copy; a finished job is left alone.
Sync ==
    /\ pc = "idle"
    /\ \A k \in HookKind : inflight[k] < MaxCalls
    /\ LET v == log[cacheRV] IN
         /\ v.exists /\ ~v.deleting
         /\ ~IsJobFinished(v.status)
         /\ mxjob' = [rv |-> cacheRV, status |-> createdStatus(v.status)]
    /\ pc' = "getPods"
    /\ UNCHANGED <<apiVars, cacheRV, listed, hookVars, finalizer>>

\* A call that changes nothing fails: the sync returns its error.
apiError ==
    /\ \/ pc \in {"getPods", "getServices", "canAdoptService", "adoptService", "createService"}
       \/ pc = "update" /\ "writeErrors" \in Env
    /\ EndSync
    /\ UNCHANGED <<apiVars, cacheRV, hookVars, finalizer>>

\* The pods List returns: they all match the selector and carry the job's
\* controller reference, so that ClaimPods keeps each of them.
getPodsForMXJob ==
    /\ pc = "getPods"
    /\ listed' = [t \in RType |-> [i \in PodId |->
                    IF pods[t][i].life \in {"live", "terminating"} THEN pods[t][i] ELSE NoPod]]
    /\ pc' = "scheduler"
    /\ UNCHANGED <<apiVars, cacheRV, mxjob, hookVars, finalizer>>

\* Where reconcileMXJobs goes after reconcilePods of a type.
nextAfter(t) == CASE t = "scheduler" -> "getServices"
                  [] t = "server"    -> "worker"
                  [] t = "worker"    -> "initialize"

NeedsPods(t) == /\ Missing(listed, t) > 0
                /\ ~checkCondition(mxjob.status, "Initialized")

\* reconcilePods records the replica status and moves on.
countPods(t) ==
    /\ mxjob' = [mxjob EXCEPT !.status = statusAfter(@, listed, t)]
    /\ pc' = nextAfter(t)
    /\ UNCHANGED listed

\* reconcilePods of a type with nothing to create: no pod is missing, or the
\* job is initialized and the missing ones are gone.
reconcilePods(t) ==
    /\ pc = t
    /\ ~NeedsPods(t)
    /\ countPods(t)
    /\ UNCHANGED <<apiVars, cacheRV, hookVars, finalizer>>

Unborn(t) == {i \in PodId : pods[t][i].life = "unborn"}

\* createNewPod, once per missing pod, concurrently: the pods of S come to be,
\* those of H after a timeout that createNewPod reports as success.
createPods(t, S, H) ==
    /\ Cardinality(S) <= Missing(listed, t)
    /\ \A i \in S, j \in Unborn(t) \ S : i < j
    /\ H # {} => "timeout" \in Env
    /\ pods' = [pods EXCEPT ![t] = [i \in PodId |->
                  IF i \in S THEN [phase |-> "Running",
                                   life |-> IF i \in H THEN "hidden" ELSE "live"]
                             ELSE pods[t][i]]]

\* reconcilePods when pods have to be created, and every creation succeeds.
reconcilePodsCreate(t) ==
    /\ pc = t
    /\ NeedsPods(t)
    /\ \E S \in SUBSET Unborn(t) : \E H \in SUBSET S :
         /\ createPods(t, S, H)
         /\ Cardinality(S) = Missing(listed, t)
    /\ countPods(t)
    /\ UNCHANGED <<log, service, cacheRV, hookVars, finalizer>>

\* Mutation of reconcilePodsErr: the error is dropped.
reconcilePodsErrDropped(t) ==
    /\ pc = t
    /\ NeedsPods(t)
    /\ \E S \in SUBSET Unborn(t) : createPods(t, S, {})
    /\ countPods(t)
    /\ UNCHANGED <<log, service, cacheRV, hookVars, finalizer>>

\* The same when a creation reports an error: it failed, as it does beyond
\* MaxPods, or it was carried out and its answer was lost.  The sync returns
\* the error once all are back.
reconcilePodsErr(t) ==
    /\ pc = t
    /\ NeedsPods(t)
    /\ "writeErrors" \in Env \/ Cardinality(Unborn(t)) < Missing(listed, t)
    /\ \E S \in SUBSET Unborn(t) : \E H \in SUBSET S : createPods(t, S, H)
    /\ EndSync
    /\ UNCHANGED <<log, service, cacheRV, hookVars, finalizer>>

\* getServicesForMXJob lists the services that match the selector.  The claim
\* keeps an owned one, sets out to adopt an orphan, and a job without service
\* gets one from reconcileServices.
getServicesForMXJob ==
    /\ pc = "getServices"
    /\ Goto(CASE service = "owned"  -> "server"
              [] service = "orphan" -> "canAdoptService"
              [] OTHER              -> "createService")
    /\ UNCHANGED <<apiVars, cacheRV, hookVars, finalizer>>

\* canAdoptFunc: the job is read again from the API server; a job that is gone
\* or pending deletion fails the claim, and with it the sync.
canAdoptService ==
    /\ pc = "canAdoptService"
    /\ IF Current.exists /\ ~Current.deleting THEN Goto("adoptService") ELSE EndSync
    /\ UNCHANGED <<apiVars, cacheRV, hookVars, finalizer>>

\* AdoptService patches the controller reference in.  A service that is gone
\* by now is not claimed, and that is no error.
AdoptService ==
    /\ pc = "adoptService"
    /\ IF service = "orphan" THEN service' = "owned" /\ Goto("server")
                             ELSE UNCHANGED service /\ Goto("createService")
    /\ UNCHANGED <<log, pods, cacheRV, hookVars, finalizer>>

\* createServices does not use the controller reference it is given.
createServices == service \in {"none", "deleted"} /\ service' = "orphan"

\* reconcileServices creates the service under its fixed name.  A creation that
\* was carried out may still report an error.
reconcileServices ==
    /\ pc = "createService"
    /\ createServices
    /\ Goto("server") \/ EndSync
    /\ UNCHANGED <<log, pods, cacheRV, hookVars, finalizer>>

\* Mutation of initializeMXJob: Initialized is tested after it was set.
initializeMXJobTested ==
    /\ pc = "initialize"
    /\ mxjob' = [mxjob EXCEPT !.status = updateMXJobConditions(@, "Initialized")]
    /\ IF IsJobFinished(mxjob.status) THEN pc' = "terminate" /\ UNCHANGED listed
                                      ELSE pc' = "update" /\ listed' = NoPods
    /\ UNCHANGED <<apiVars, cacheRV, hookVars, finalizer>>

\* The part of reconcileMXJobs after the pods: Initialized and the start hook.
initializeMXJob ==
    /\ pc = "initialize"
    /\ IF checkCondition(mxjob.status, "Initialized")
       THEN UNCHANGED <<mxjob, hookVars>>
       ELSE /\ mxjob' = [mxjob EXCEPT !.status = updateMXJobConditions(@, "Initialized")]
            /\ callHookAsync("start")
    /\ IF IsJobFinished(mxjob.status) THEN pc' = "terminate" /\ UNCHANGED listed
                                      ELSE pc' = "update" /\ listed' = NoPods
    /\ UNCHANGED <<apiVars, cacheRV, finalizer>>

\* Mutation of Doomed: only the workers are deleted.
DoomedWorkers == {x \in {"worker"} \X PodId : IsPodActive(listed[x[1]][x[2]])}

\* The pods terminateMXJob deletes: the active ones of the list.
Doomed == {x \in RType \X PodId : IsPodActive(listed[x[1]][x[2]])}

\* DeletePod of the pods of S takes effect (a terminating pod stays one).
deletePods(S) ==
    pods' = [t \in RType |-> [i \in PodId |->
                IF <<t, i>> \in S THEN [pods[t][i] EXCEPT !.life = "terminating"]
                                  ELSE pods[t][i]]]

\* Mutation of terminateMXJob: the finish hook is left to the finalizer.
terminateMXJobSilent ==
    /\ pc = "terminate"
    /\ \A x \in Doomed : pods[x[1]][x[2]].life # "gone"
    /\ deletePods(Doomed)
    /\ mxjob' = [mxjob EXCEPT !.status = terminatedStatus(@, listed)]
    /\ pc' = "update"
    /\ listed' = NoPods
    /\ UNCHANGED <<log, service, cacheRV, hookVars, finalizer>>

\* terminateMXJob deletes the doomed pods concurrently, then the finish hook
\* is called.
terminateMXJob ==
    /\ pc = "terminate"
    /\ \A x \in Doomed : pods[x[1]][x[2]].life # "gone"
    /\ deletePods(Doomed)
    /\ mxjob' = [mxjob EXCEPT !.status = terminatedStatus(@, listed)]
    /\ callHookAsync("finish")
    /\ pc' = "update"
    /\ listed' = NoPods
    /\ UNCHANGED <<log, service, cacheRV, finalizer>>

\* The same when a deletion reports an error, be it that the pod is gone
\* already: some are deleted, and the sync returns the error.
terminateMXJobErr ==
    /\ pc = "terminate"
    /\ \/ "writeErrors" \in Env /\ Doomed # {}
       \/ \E x \in Doomed : pods[x[1]][x[2]].life = "gone"
    /\ \E S \in SUBSET {x \in Doomed : pods[x[1]][x[2]].life # "gone"} : deletePods(S)
    /\ EndSync
    /\ UNCHANGED <<log, service, cacheRV, hookVars, finalizer>>

\* Mutation of accepted: an update overwrites whatever is there.
acceptedAny(rv) == Current.exists

\* sdk.Update: refused unless the copy came from the current version.
accepted(rv) == rv = Len(log) /\ Current.exists

\* What MXJobLifecycle sees of a status.
phaseOf(status) == CASE IsJobSucceed(status) -> "succeeded"
                     [] IsJobFailed(status) /\ ~IsJobSucceed(status) -> "failed"
                     [] ~IsJobFinished(status) /\ checkCondition(status, "Initialized") -> "initialized"
                     [] OTHER -> "new"

\* Mutation of updateStatus: oldStatus is not a deep copy, nothing differs.
updateStatusAliased ==
    /\ pc = "update"
    /\ EndSync
    /\ UNCHANGED <<apiVars, cacheRV, hookVars, finalizer>>

\* The end of reconcileMXJobs: a changed status is written back.  A conflict
\* is an error; it leaves everything as it was.
updateStatus ==
    /\ pc = "update"
    /\ IF mxjob.status # createdStatus(log[mxjob.rv].status) /\ accepted(mxjob.rv)
       THEN /\ phaseOf(mxjob.status) = phaseOf(Current.status) => Len(log) < MaxVersions
            /\ log' = Append(log, [Current EXCEPT !.status = mxjob.status])
       ELSE UNCHANGED log
    /\ EndSync
    /\ UNCHANGED <<pods, service, cacheRV, hookVars, finalizer>>

-----------------------------------------------------------------------------
(* Webhook goroutines and the finalizer. *)

\* A webhook goroutine comes to its end, by success, by an error that is not
\* retried, or by running out of retries.
hookEnds(k) ==
    /\ inflight[k] > 0
    /\ inflight' = [inflight EXCEPT ![k] = @ - 1]
    /\ ended' = ended \cup {k}
    /\ UNCHANGED <<apiVars, cacheRV, syncVars, finalizer, launched>>

\* Sync of a job pending deletion.  The goroutine it starts runs its function
\* under finalizerGroup, unless another one does: then it only waits for it.
\* The finish hook of a finished job is not called again.
handleMXJobFinalizers ==
    /\ pc = "idle"
    /\ finalizer.state = "none"
    /\ LET v     == log[cacheRV]
           calls == ~IsJobFinished(v.status) /\ "finish" \in Webhooks
       IN  /\ v.exists /\ v.deleting /\ v.finalizer
           /\ finalizer' = [state |-> IF calls THEN "calling" ELSE "updating",
                            rv |-> cacheRV]
           /\ launched' = IF calls THEN launched \cup {"finish"} ELSE launched
    /\ UNCHANGED <<apiVars, cacheRV, syncVars, inflight, ended>>

\* The finish hook the finalizer waits for comes to its end.
finalizerHookEnds ==
    /\ finalizer.state = "calling"
    /\ finalizer' = [finalizer EXCEPT !.state = "updating"]
    /\ ended' = ended \cup {"finish"}
    /\ UNCHANGED <<apiVars, cacheRV, syncVars, inflight, launched>>

\* The finalizer is cleared and the job updated; the API server then removes
\* the job.
clearFinalizer ==
    /\ finalizer.state = "updating"
    /\ accepted(finalizer.rv)
    /\ finalizer' = NoFinalizer
    /\ log' = Append(log, [Current EXCEPT !.exists = FALSE, !.finalizer = FALSE])
    /\ UNCHANGED <<pods, service, cacheRV, syncVars, hookVars>>

\* The update that clears the finalizer fails: the error is only logged.
clearFinalizerErr ==
    /\ finalizer.state = "updating"
    /\ finalizer' = NoFinalizer
    /\ UNCHANGED <<apiVars, cacheRV, syncVars, hookVars>>

-----------------------------------------------------------------------------
(* The environment: the watch, the cluster, users, crashes. *)

\* The informer takes the next event; events may be skipped by a relist.
watchEvent ==
    /\ \E rv \in cacheRV + 1 .. Len(log) : cacheRV' = rv
    /\ UNCHANGED <<apiVars, syncVars, hookVars, finalizer>>

\* The watch broke and the list that replaces it is answered from a cache: it
\* may be older than what the store holds, and the store takes it as it is.  A
\* list that is newer does what watchEvent does.
relist ==
    /\ "relist" \in Env
    /\ \E rv \in 1 .. cacheRV - 1 : cacheRV' = rv
    /\ UNCHANGED <<apiVars, syncVars, hookVars, finalizer>>

setPod(t, i, pod) ==
    /\ pods' = [pods EXCEPT ![t][i] = pod]
    /\ UNCHANGED <<log, service, cacheRV, syncVars, hookVars, finalizer>>

\* The pod's containers end.
podEnds(t, i) ==
    /\ pods[t][i].life \in {"live", "terminating"}
    /\ pods[t][i].phase = "Running"
    /\ \/ "succeed" \in Env /\ setPod(t, i, [pods[t][i] EXCEPT !.phase = "Succeeded"])
       \/ "fail" \in Env /\ setPod(t, i, [pods[t][i] EXCEPT !.phase = "Failed"])

Lost(t) == {i \in PodId : pods[t][i].life \in {"terminating", "gone"}}

\* A pod is deleted by somebody else, or by the garbage collector once the job
\* that controls it is gone.
podDeleted(t, i) ==
    /\ pods[t][i].life = "live"
    /\ Current.exists => Cardinality(UNION {{t2} \X Lost(t2) : t2 \in RType}) < MaxLost
    /\ setPod(t, i, [pods[t][i] EXCEPT !.life = "terminating"])

podRemoved(t, i) ==
    /\ pods[t][i].life = "terminating"
    /\ setPod(t, i, [pods[t][i] EXCEPT !.life = "gone"])

\* A pod whose creation timed out shows up after all, or never does.
podInitialized(t, i) ==
    /\ pods[t][i].life = "hidden"
    /\ \E l \in {"live", "gone"} : setPod(t, i, [pods[t][i] EXCEPT !.life = l])

serviceDeleted ==
    /\ \/ service \in {"orphan", "owned"} /\ "serviceLoss" \in Env
       \/ service = "owned" /\ ~Current.exists
    /\ service' = "deleted"
    /\ UNCHANGED <<log, pods, cacheRV, syncVars, hookVars, finalizer>>

\* A user writes or deletes the job.
userWrites(v) ==
    /\ Current.exists
    /\ log' = Append(log, v)
    /\ UNCHANGED <<pods, service, cacheRV, syncVars, hookVars, finalizer>>

touchJob ==
    /\ "touch" \in Env
    /\ Len(log) < MaxVersions
    /\ userWrites(Current)

deleteJob ==
    /\ "delete" \in Env
    /\ ~Current.deleting
    /\ userWrites(IF Current.finalizer THEN [Current EXCEPT !.deleting = TRUE]
                                       ELSE [Current EXCEPT !.exists = FALSE])

\* The operator dies with everything it had in flight, and is restarted.  The
\* first List of the new informer asks for resource version 0: the API server
\* may answer from a cache of its own, with any version.
crash ==
    /\ "crash" \in Env
    /\ \E rv \in 1 .. Len(log) : cacheRV' = rv
    /\ EndSync
    /\ inflight' = [k \in HookKind |-> 0]
    /\ finalizer' = NoFinalizer
    /\ UNCHANGED <<apiVars, launched, ended>>

-----------------------------------------------------------------------------
SyncStep ==
    \/ Sync \/ apiError \/ getPodsForMXJob
    \/ \E t \in RType : reconcilePods(t) \/ reconcilePodsCreate(t) \/ reconcilePodsErr(t)
    \/ getServicesForMXJob \/ canAdoptService \/ AdoptService \/ reconcileServices
    \/ initializeMXJob \/ terminateMXJob \/ terminateMXJobErr \/ updateStatus

HookStep == \/ \E k \in HookKind : hookEnds(k)
            \/ handleMXJobFinalizers \/ finalizerHookEnds
            \/ clearFinalizer \/ clearFinalizerErr

PodStep == \E t \in RType, i \in PodId :
    podEnds(t, i) \/ podDeleted(t, i) \/ podRemoved(t, i) \/ podInitialized(t, i)

EnvStep == watchEvent \/ relist \/ PodStep \/ serviceDeleted \/ touchJob \/ deleteJob \/ crash

Next == SyncStep \/ HookStep \/ EnvStep

Spec == Init /\ [][Next]_vars

\* The operator's goroutines run, the watch delivers, the resync queues the job
\* again, and containers end.  Calls to the API server may fail, but not every
\* time.
Fairness ==
    /\ WF_vars(SyncStep) /\ WF_vars(watchEvent)
    /\ \A k \in HookKind : WF_vars(hookEnds(k))
    /\ SF_vars(getPodsForMXJob) /\ SF_vars(getServicesForMXJob)
    /\ SF_vars(canAdoptService) /\ SF_vars(AdoptService) /\ SF_vars(reconcileServices)
    /\ SF_vars(\E t \in RType : reconcilePodsCreate(t))
    /\ SF_vars(terminateMXJob) /\ SF_vars(updateStatus)
    /\ WF_vars(\E t \in RType, i \in PodId : podEnds(t, i))

FairSpec == Spec /\ Fairness

-----------------------------------------------------------------------------
(* What the controller promises. *)

\* A job is never both succeeded and failed: the worker part of
\* updateMXJobStatus, which runs last, takes an earlier Failed back, and a
\* succeeded job is not failed any more.
NotBothFinal ==
    \A i \in 1 .. Len(log) :
        ~(IsJobSucceed(log[i].status) /\ IsJobFailed(log[i].status))

\* The status of a finished job never changes again, although syncs that read
\* an older version from the cache go through the whole of reconcileMXJobs.
FinishedFrozen ==
    \A i, j \in 1 .. Len(log) :
        i < j /\ IsJobFinished(log[i].status) => log[j].status = log[i].status

\* What a job has reached is not taken back by a later write: that its pods
\* and service were created, its outcome, its start and its completion time.  A
\* sync may hold a copy from before they were set, and it resets Failed itself
\* when the workers turn out to have succeeded.  Created and Running describe
\* what a job is at, and nothing is said of them here.
NothingTakenBack ==
    \A i, j \in 1 .. Len(log) :
        LET old == log[i].status
            new == log[j].status
        IN  i < j =>
                /\ \A c \in {"Initialized", "Succeeded", "Failed"} :
                      checkCondition(old, c) => checkCondition(new, c)
                /\ old.startTime => new.startTime
                /\ old.completionTime => new.completionTime

\* The Initialized condition is written only when every pod and the service
\* have been created, whatever calls failed and whatever syncs were cut short
\* in between ("add initialized condition after all sub-resource created").
\* A creation that timed out counts, whether its pod ever shows up or not.
InitializedMeansCreated ==
    checkCondition(Current.status, "Initialized") =>
        /\ service # "none"
        /\ \A t \in RType : Cardinality(PodId \ Unborn(t)) >= Replicas[t]

\* The pods of a type that exist at the same time never outnumber its
\* replicas: retries, restarts and stale copies create only what the API
\* server does not list.
NoOverProvision ==
    \A t \in RType :
        Cardinality({i \in PodId : pods[t][i].life \in {"live", "terminating"}}) <= Replicas[t]

\* A job is Succeeded only when as many workers as it has replicas succeeded.
SucceededEarned ==
    IsJobSucceed(Current.status) =>
        Cardinality({i \in PodId : pods["worker"][i].phase = "Succeeded"}) >= Replicas["worker"]

\* Unless somebody deletes pods, a job is Failed only when a pod failed: the
\* pods that terminateMXJob deleted in a sync whose result was not written do
\* not count as gone against a job whose workers all succeeded.
FailedHasCause ==
    IsJobFailed(Current.status) /\ MaxLost = 0 =>
        \E t \in RType, i \in PodId : pods[t][i].phase = "Failed"

\* Unless somebody else deletes pods, no pod is taken from a job that exists
\* before its pods have decided the outcome: neither a stale copy nor a sync
\* that is repeated makes terminateMXJob stop a job that could still succeed.
DeletedWhenDecided ==
    MaxLost = 0 /\ Current.exists /\ (\E t \in RType : Lost(t) # {}) =>
        \/ \E t \in RType, i \in PodId : pods[t][i].phase = "Failed"
        \/ Cardinality({i \in PodId : pods["worker"][i].phase = "Succeeded"}) >= Replicas["worker"]

\* The write that finishes an initialized job finds it stopped: no pod is active
\* any more, unless creations time out.  What terminateMXJob deletes it takes
\* from a list made at the beginning of the sync, deletions fail, the operator
\* dies, and syncs before may have worked on copies from before Initialized and
\* created pods.  Of later syncs that have such a copy nothing is said.
FinishingStops ==
    [][/\ "timeout" \notin Env
       /\ checkCondition(Current.status, "Initialized")
       /\ ~IsJobFinished(Current.status) /\ IsJobFinished(Current'.status)
       => \A t \in RType, i \in PodId : ~IsPodActive(pods'[t][i])]_vars

\* The counters of a written replica status are not negative and never add up
\* to more than the replicas: terminateMXJob takes from Active what it adds to
\* Gone, for pods that reconcilePods counted.
ReplicasAccounted ==
    \A t \in RType :
        LET rs == Current.status.replicas[t] IN
            /\ rs.active >= 0 /\ rs.succeeded >= 0 /\ rs.failed >= 0 /\ rs.gone >= 0
            /\ rs.active + rs.succeeded + rs.failed + rs.gone <= Replicas[t]

\* A job that is not deleted is finished in the end, once its pods end: failed
\* calls, conflicts and stale copies only delay it, also those of lists that set
\* the cache back, unless the watch breaks again and again for ever.
JobFinishes ==
    <>[][~relist]_vars =>
        <>(IsJobFinished(Current.status) \/ Current.deleting \/ ~Current.exists)

\* "terminateMXJob deletes all active pods of mxjob and leave others."
FinishedHasNoActivePod ==
    IsJobFinished(Current.status) =>
        \A t \in RType, i \in PodId : ~IsPodActive(pods[t][i])

\* "CreateServicesWithControllerRef creates new services according to the spec,
\* and sets object as the service's controller": when the operator is through
\* with a job, the service belongs to the job and goes with it.
ServiceControlled ==
    /\ pc = "idle" /\ cacheRV = Len(log)
    /\ IsJobFinished(Current.status) \/ ~Current.exists
    => service # "orphan"

-----------------------------------------------------------------------------
(* The controller implements MXJobLifecycle: the steps before a sync has a   *)
(* result are the abstract "reconciling", in which the abstract copy is the   *)
(* cached one, whatever conditions the real copy has got meanwhile.           *)

absVersion(v) == [exists |-> v.exists, deleting |-> v.deleting,
                  finalizer |-> v.finalizer, phase |-> phaseOf(v.status)]

absLog == [rv \in 1 .. Len(log) |-> absVersion(log[rv])]

absPC == CASE pc \in {"idle", "update"} -> pc
           [] pc = "terminate" -> "terminating"
           [] OTHER -> "reconciling"

absJob == [rv |-> mxjob.rv,
           phase |-> CASE pc = "idle" -> "new"
                       [] pc \in {"terminate", "update"} -> phaseOf(mxjob.status)
                       [] OTHER -> phaseOf(log[mxjob.rv].status)]

L == INSTANCE MXJobLifecycle WITH log <- absLog, pc <- absPC, mxjob <- absJob

\* Every behaviour of the controller is one of MXJobLifecycle, which is what
\* its promises about phases, webhooks and the finalizer rest on.
ImplementsLifecycle == L!Spec

\* reconcileMXJobs calls the start hook before it writes Initialized: no crash,
\* conflict or failed call leaves an initialized job whose start hook was not
\* called, whatever else the sync that initialized it found out.
StartNotified == L!StartNotified
=============================================================================
