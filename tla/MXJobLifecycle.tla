--------------------------- MODULE MXJobLifecycle ---------------------------
(***************************************************************************)
(* What the operator promises about one MXJob to those who only see the    *)
(* job and its webhooks: the phases the written status goes through, when  *)
(* the webhooks are called, and when the finalizer lets the job go.        *)
(*                                                                         *)
(* Pods and services are left out: what a sync finds out about them is a   *)
(* choice of its result.  MXJobController implements this specification.   *)
(*                                                                         *)
(* The API server's copies of the job are kept as a log: log[rv] is the    *)
(* object as of resource version rv, the last entry is the current one.    *)
(***************************************************************************)
EXTENDS Integers, Sequences

CONSTANTS Webhooks,      \* the webhooks the spec configures
          HasFinalizer,  \* whether the job carries the finishWebhook finalizer
          Env,           \* what users and the process may do, see Disturbance
          MaxVersions,   \* bound: log length up to which a write may leave the phase as it is
          MaxCalls       \* bound: concurrent webhook goroutines of a kind

HookKind == {"start", "finish"}

\* touch: somebody writes the job without changing status or finalizers;
\* delete: the job is deleted; relist: the informer lists the job again and
\* gets an older version; crash: the operator dies and is restarted.
Disturbance == {"touch", "delete", "relist", "crash"}

ASSUME LifecycleAssumption == /\ Webhooks \subseteq HookKind
                              /\ HasFinalizer \in BOOLEAN
                              /\ MaxVersions \in Nat
                              /\ MaxCalls \in Nat

VARIABLES log, cacheRV, pc, mxjob, inflight, finalizer, launched, ended

syncVars == <<pc, mxjob>>
hookVars == <<inflight, launched, ended>>
vars == <<log, cacheRV, syncVars, hookVars, finalizer>>

\* The conditions of a written status come to one of these: Initialized is
\* there before, or together with, Succeeded or Failed.
Phases == {"new", "initialized", "succeeded", "failed"}
Final == {"succeeded", "failed"}

Version == [exists : BOOLEAN, deleting : BOOLEAN, finalizer : BOOLEAN, phase : Phases]

Current == log[Len(log)]

NoJob == [rv |-> 0, phase |-> "new"]

NoFinalizer == [state |-> "none", rv |-> 0]

TypeOK ==
    /\ log \in Seq(Version) /\ log # << >>
    /\ cacheRV \in 1 .. Len(log)
    /\ pc \in {"idle", "reconciling", "terminating", "update"}
    /\ mxjob \in [rv : 0 .. Len(log), phase : Phases]
    /\ inflight \in [HookKind -> Nat]
    /\ finalizer \in [state : {"none", "calling", "updating"}, rv : 0 .. Len(log)]
    /\ launched \subseteq HookKind
    /\ ended \subseteq HookKind

Init ==
    /\ log = << [exists |-> TRUE, deleting |-> FALSE, finalizer |-> HasFinalizer,
                 phase |-> "new"] >>
    /\ cacheRV = 1
    /\ pc = "idle"
    /\ mxjob = NoJob
    /\ inflight = [k \in HookKind |-> 0]
    /\ finalizer = NoFinalizer
    /\ launched = {}
    /\ ended = {}

-----------------------------------------------------------------------------
EndSync == pc' = "idle" /\ mxjob' = NoJob

callHookAsync(k) ==
    /\ UNCHANGED ended
    /\ IF k \in Webhooks
       THEN /\ inflight' = [inflight EXCEPT ![k] = @ + 1]
            /\ launched' = launched \cup {k}
       ELSE UNCHANGED <<inflight, launched>>

\* Mutation of Sync: a finished job is reconciled again.
SyncFinishedToo ==
    /\ pc = "idle"
    /\ \A k \in HookKind : inflight[k] < MaxCalls
    /\ log[cacheRV].exists /\ ~log[cacheRV].deleting
    /\ mxjob' = [rv |-> cacheRV, phase |-> log[cacheRV].phase]
    /\ pc' = "reconciling"
    /\ UNCHANGED <<log, cacheRV, hookVars, finalizer>>

\* Sync takes the cached job up, unless it is deleted, pending deletion or
\* finished.
Sync ==
    /\ pc = "idle"
    /\ \A k \in HookKind : inflight[k] < MaxCalls
    /\ LET v == log[cacheRV] IN
         /\ v.exists /\ ~v.deleting /\ v.phase \notin Final
         /\ mxjob' = [rv |-> cacheRV, phase |-> v.phase]
    /\ pc' = "reconciling"
    /\ UNCHANGED <<log, cacheRV, hookVars, finalizer>>

\* Any call to the API server may fail; the sync returns the error.
syncFails ==
    /\ pc # "idle"
    /\ EndSync
    /\ UNCHANGED <<log, cacheRV, hookVars, finalizer>>

\* All pods and the service are there: the job is initialized at least, and
\* the start hook of a job that was not is called.
initializeMXJob ==
    /\ pc = "reconciling"
    /\ IF mxjob.phase = "new" THEN callHookAsync("start") ELSE UNCHANGED hookVars
    /\ \E ph \in Phases \ {"new"} :
         /\ mxjob' = [mxjob EXCEPT !.phase = ph]
         /\ pc' = IF ph \in Final THEN "terminating" ELSE "update"
    /\ UNCHANGED <<log, cacheRV, finalizer>>

\* Mutation of terminateMXJob: the finish hook is left to the finalizer.
terminateMXJobSilent ==
    /\ pc = "terminating"
    /\ pc' = "update"
    /\ UNCHANGED <<log, cacheRV, mxjob, hookVars, finalizer>>

\* The pods of a finished job have been deleted: the finish hook is called.
terminateMXJob ==
    /\ pc = "terminating"
    /\ callHookAsync("finish")
    /\ pc' = "update"
    /\ UNCHANGED <<log, cacheRV, mxjob, finalizer>>

\* sdk.Update is refused unless the copy came from the current version.
accepted(rv) == rv = Len(log) /\ Current.exists

\* A changed status is written back.  A status whose phase is the same may
\* have changed or not.
updateStatus ==
    /\ pc = "update"
    /\ EndSync
    /\ \/ /\ accepted(mxjob.rv)
          /\ mxjob.phase = Current.phase => Len(log) < MaxVersions
          /\ log' = Append(log, [Current EXCEPT !.phase = mxjob.phase])
       \/ /\ accepted(mxjob.rv) => mxjob.phase = Current.phase
          /\ UNCHANGED log
    /\ UNCHANGED <<cacheRV, hookVars, finalizer>>

-----------------------------------------------------------------------------
\* A webhook goroutine ends: success, a final error, or no retry left.
hookEnds(k) ==
    /\ inflight[k] > 0
    /\ inflight' = [inflight EXCEPT ![k] = @ - 1]
    /\ ended' = ended \cup {k}
    /\ UNCHANGED <<log, cacheRV, syncVars, finalizer, launched>>

\* Mutation of handleMXJobFinalizers: the hook is called if the job finished.
handleMXJobFinalizersNegated ==
    /\ pc = "idle"
    /\ finalizer.state = "none"
    /\ LET v == log[cacheRV] IN
         /\ v.exists /\ v.deleting /\ v.finalizer
         /\ finalizer' = [state |-> IF v.phase \in Final THEN "calling" ELSE "updating",
                          rv |-> cacheRV]
         /\ launched' = IF v.phase \in Final THEN launched \cup {"finish"} ELSE launched
    /\ UNCHANGED <<log, cacheRV, syncVars, inflight, ended>>

\* Mutation of handleMXJobFinalizers: the finalizer does not wait for the hook.
handleMXJobFinalizersNoWait ==
    /\ pc = "idle"
    /\ finalizer.state = "none"
    /\ LET v == log[cacheRV] IN
         /\ v.exists /\ v.deleting /\ v.finalizer
         /\ finalizer' = [state |-> "updating", rv |-> cacheRV]
         /\ launched' = IF v.phase \notin Final THEN launched \cup {"finish"} ELSE launched
    /\ UNCHANGED <<log, cacheRV, syncVars, inflight, ended>>

\* Sync of a job pending deletion.  The goroutine it starts runs its function
\* under finalizerGroup, unless another one does: then it only waits for it.
handleMXJobFinalizers ==
    /\ pc = "idle"
    /\ finalizer.state = "none"
    /\ LET v     == log[cacheRV]
           calls == v.phase \notin Final /\ "finish" \in Webhooks
       IN  /\ v.exists /\ v.deleting /\ v.finalizer
           /\ finalizer' = [state |-> IF calls THEN "calling" ELSE "updating",
                            rv |-> cacheRV]
           /\ launched' = IF calls THEN launched \cup {"finish"} ELSE launched
    /\ UNCHANGED <<log, cacheRV, syncVars, inflight, ended>>

finalizerHookEnds ==
    /\ finalizer.state = "calling"
    /\ finalizer' = [finalizer EXCEPT !.state = "updating"]
    /\ ended' = ended \cup {"finish"}
    /\ UNCHANGED <<log, cacheRV, syncVars, inflight, launched>>

\* The finalizer is cleared; the API server removes the job.
clearFinalizer ==
    /\ finalizer.state = "updating"
    /\ accepted(finalizer.rv)
    /\ finalizer' = NoFinalizer
    /\ log' = Append(log, [Current EXCEPT !.exists = FALSE, !.finalizer = FALSE])
    /\ UNCHANGED <<cacheRV, syncVars, hookVars>>

\* The update that clears the finalizer fails: the error is only logged.
clearFinalizerErr ==
    /\ finalizer.state = "updating"
    /\ finalizer' = NoFinalizer
    /\ UNCHANGED <<log, cacheRV, syncVars, hookVars>>

-----------------------------------------------------------------------------
watchEvent ==
    /\ \E rv \in cacheRV + 1 .. Len(log) : cacheRV' = rv
    /\ UNCHANGED <<log, syncVars, hookVars, finalizer>>

\* The watch broke and the list that replaces it is answered from a cache: it
\* may be older than what the store holds, and the store takes it as it is.  A
\* list that is newer does what watchEvent does.
relist ==
    /\ "relist" \in Env
    /\ \E rv \in 1 .. cacheRV - 1 : cacheRV' = rv
    /\ UNCHANGED <<log, syncVars, hookVars, finalizer>>

userWrites(v) ==
    /\ Current.exists
    /\ log' = Append(log, v)
    /\ UNCHANGED <<cacheRV, syncVars, hookVars, finalizer>>

touchJob ==
    /\ "touch" \in Env
    /\ Len(log) < MaxVersions
    /\ userWrites(Current)

deleteJob ==
    /\ "delete" \in Env
    /\ ~Current.deleting
    /\ userWrites(IF Current.finalizer THEN [Current EXCEPT !.deleting = TRUE]
                                       ELSE [Current EXCEPT !.exists = FALSE])

\* The process dies and a new one lists the job, perhaps from a lagging cache.
restarts ==
    /\ \E rv \in 1 .. Len(log) : cacheRV' = rv
    /\ EndSync
    /\ inflight' = [k \in HookKind |-> 0]
    /\ finalizer' = NoFinalizer
    /\ UNCHANGED <<log, launched, ended>>

crash == "crash" \in Env /\ restarts

-----------------------------------------------------------------------------
SyncStep == Sync \/ syncFails \/ initializeMXJob \/ terminateMXJob \/ updateStatus

HookStep == \/ \E k \in HookKind : hookEnds(k)
            \/ handleMXJobFinalizers \/ finalizerHookEnds
            \/ clearFinalizer \/ clearFinalizerErr

EnvStep == watchEvent \/ relist \/ touchJob \/ deleteJob \/ crash

Next == SyncStep \/ HookStep \/ EnvStep

Spec == Init /\ [][Next]_vars

-----------------------------------------------------------------------------
(* The promises. *)

\* The phase an observer sees never goes back, and a final one never changes,
\* although syncs work on copies of any age and write whole statuses.
PhaseOrder ==
    \A i, j \in 1 .. Len(log) :
        i < j => \/ log[i].phase = "new"
                 \/ log[i].phase = "initialized" /\ log[j].phase # "new"
                 \/ log[i].phase = log[j].phase

\* reconcileMXJobs calls the start hook before it writes Initialized: no crash
\* or failed update leaves an initialized job whose start was not announced.
StartNotified ==
    Current.phase # "new" /\ "start" \in Webhooks => "start" \in launched

\* The same of the finish hook and of a finished job.
FinishNotified ==
    Current.phase \in Final /\ "finish" \in Webhooks => "finish" \in launched

\* A job with the finishWebhook finalizer does not disappear before its finish
\* hook was called, by the sync that finished it or by the finalizer.  Called
\* means that the goroutine was started: that of a sync may be cut off.
FinalizerHonoured ==
    ~Current.exists /\ HasFinalizer /\ "finish" \in Webhooks => "finish" \in launched

\* "call the finish webhook in another goroutine, clear the finalizer after it is
\* done": a job that is removed unfinished had a call of its finish hook that
\* came to its end, by an answer or after the last retry, however often the
\* finalizer's goroutine was lost with the process or its update was refused.
UnfinishedWaits ==
    ~Current.exists /\ HasFinalizer /\ "finish" \in Webhooks /\ Current.phase \notin Final
        => "finish" \in ended
=============================================================================
