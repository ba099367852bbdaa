------------------------------ MODULE Webhooks ------------------------------
(***************************************************************************)
(* The webhook calls of one MXJob: the goroutines callHookAsync starts,    *)
(* their retries, the answers of the hook and the client manager, on top   *)
(* of MXJobLifecycle.  Each step below that starts or ends a call is a     *)
(* step of MXJobLifecycle and says in addition which call it is; attempts  *)
(* in between leave the lifecycle alone.                                   *)
(*                                                                         *)
(* A notification carries the status of the copy of the job the call was   *)
(* started with, here its phase; its UID, names and time are left out.     *)
(***************************************************************************)
EXTENDS MXJobLifecycle, FiniteSets

CONSTANTS Steps,          \* attempts of a call (backoff.Steps)
          CallId,         \* bound: goroutines alive at a time
          Configs,        \* what the spec may give as ClientConfig of its hooks
          BadConfigs,     \* those no client can be built from
          Answers         \* what may come back from a hook, see callHook

ASSUME WebhooksAssumption ==
    /\ Steps \in Nat \ {0}
    /\ BadConfigs \subseteq Configs
    /\ Answers \subseteq {"error", "absent", "serverError", "noResult", "success", "refused"}

VARIABLES calls,      \* the goroutines alive, each with the number of its attempt
          announced,  \* the phases the finish hook was called with so far
          clientConfig,  \* ClientConfig of the job's hooks
          cache       \* client configurations with a cached client

callVars == <<calls, announced, clientConfig, cache>>
hvars == <<vars, callVars>>

\* by: who waits for the call, nobody ("sync") or the finalizer's goroutine
Call == [id : CallId, kind : HookKind, phase : Phases, by : {"sync", "finalizer"},
         step : 1 .. Steps]

WTypeOK ==
    /\ TypeOK
    /\ calls \subseteq Call
    /\ \A c, d \in calls : c.id = d.id => c = d
    /\ announced \subseteq Phases
    /\ clientConfig \in Configs
    /\ cache \subseteq Configs

WInit == Init /\ calls = {} /\ announced = {} /\ clientConfig \in Configs /\ cache = {}

-----------------------------------------------------------------------------
Free == CallId \ {c.id : c \in calls}

\* callHookAsync: nothing happens if the spec has no such webhook.
start(kind, phase, by) ==
    /\ UNCHANGED <<clientConfig, cache>>
    /\ IF kind \in Webhooks
       THEN /\ Free # {}
            /\ calls' = calls \cup {[id |-> CHOOSE id \in Free : TRUE, kind |-> kind,
                                     phase |-> phase, by |-> by, step |-> 1]}
            /\ announced' = IF kind = "finish" THEN announced \cup {phase} ELSE announced
       ELSE UNCHANGED <<calls, announced>>

\* A sync starts two calls at most.
wSync == Sync /\ Cardinality(calls) + 2 <= Cardinality(CallId) /\ UNCHANGED callVars

wInitializeMXJob ==
    /\ initializeMXJob
    /\ IF mxjob.phase = "new" THEN start("start", mxjob'.phase, "sync")
                              ELSE UNCHANGED callVars

\* Mutation of wTerminateMXJob: the hook is given the job as it was read.
wTerminateMXJobStale ==
    terminateMXJob /\ start("finish", log[mxjob.rv].phase, "sync")

wTerminateMXJob == terminateMXJob /\ start("finish", mxjob.phase, "sync")

wHandleMXJobFinalizers ==
    /\ handleMXJobFinalizers
    /\ IF finalizer'.state = "calling" THEN start("finish", log[cacheRV].phase, "finalizer")
                                       ELSE UNCHANGED callVars

\* The goroutine sends its result and ends.
ends(c) == IF c.by = "sync" THEN hookEnds(c.kind) ELSE finalizerHookEnds

-----------------------------------------------------------------------------
(* One attempt of a call: callHook and what callHookAsync makes of it. *)

\* The client is taken from the cache or built; only a built one is cached.
HookClient(ok) ==
    \/ /\ ok /\ clientConfig \in cache
       /\ UNCHANGED cache
    \/ /\ ok /\ clientConfig \notin cache \cup BadConfigs
       /\ cache' = cache \cup {clientConfig}
    \/ /\ ~ok /\ clientConfig \notin cache
       /\ UNCHANGED cache

\* Mutation of tryAgain: no limit on the attempts.
tryAgainAlways(c) ==
    /\ calls' = (calls \ {c}) \cup {[c EXCEPT !.step = IF @ < Steps THEN @ + 1 ELSE 1]}
    /\ UNCHANGED vars

\* Mutation of tryAgain: one attempt too many.
tryAgainOnceMore(c) ==
    IF c.step <= Steps
    THEN calls' = (calls \ {c}) \cup {[c EXCEPT !.step = @ + 1]} /\ UNCHANGED vars
    ELSE calls' = calls \ {c} /\ ends(c)

\* ErrCallingWebhook: the next attempt, or ErrWaitTimeout after the last.
tryAgain(c) ==
    \/ /\ c.step < Steps
       /\ calls' = (calls \ {c}) \cup {[c EXCEPT !.step = @ + 1]}
       /\ UNCHANGED vars
    \/ /\ c.step = Steps
       /\ calls' = calls \ {c}
       /\ ends(c)

callHookNoClient(c) ==
    /\ HookClient(FALSE)
    /\ tryAgain(c)
    /\ UNCHANGED <<announced, clientConfig>>

\* error: Post failed; absent: no Response; serverError: Code >= 500.
callHookFails(c) ==
    /\ Answers \cap {"error", "absent", "serverError"} # {}
    /\ HookClient(TRUE)
    /\ tryAgain(c)
    /\ UNCHANGED <<announced, clientConfig>>

\* success: the call ends with nil; refused: with the error of the hook.
callHookDone(c) ==
    /\ Answers \cap {"success", "refused"} # {}
    /\ HookClient(TRUE)
    /\ calls' = calls \ {c}
    /\ ends(c)
    /\ UNCHANGED <<announced, clientConfig>>

\* What a dying process leaves of the calls.
lost == calls' = {} /\ cache' = {} /\ UNCHANGED <<announced, clientConfig>>

\* A Response without a Result is dereferenced: the process panics.
callHookPanics(c) ==
    /\ "noResult" \in Answers
    /\ clientConfig \in cache \/ clientConfig \notin BadConfigs
    /\ restarts
    /\ lost

wCrash == crash /\ lost

-----------------------------------------------------------------------------
attempt(c) == callHookNoClient(c) \/ callHookFails(c) \/ callHookDone(c)

\* The steps of the lifecycle that concern no call.
Other == \/ syncFails \/ updateStatus
         \/ clearFinalizer \/ clearFinalizerErr
         \/ watchEvent \/ relist \/ touchJob \/ deleteJob

WNext == \/ wSync \/ wInitializeMXJob \/ wTerminateMXJob \/ wHandleMXJobFinalizers
         \/ \E c \in calls : attempt(c) \/ callHookPanics(c)
         \/ wCrash
         \/ Other /\ UNCHANGED callVars

WSpec == WInit /\ [][WNext]_hvars

\* The goroutines of the operator run and the watch delivers what happened.
\* Syncs and hooks may fail every time, the update that clears the finalizer
\* may not.
WFairness ==
    /\ WF_hvars(watchEvent /\ UNCHANGED callVars)
    /\ WF_hvars(\/ wSync \/ wInitializeMXJob \/ wTerminateMXJob
                \/ (syncFails \/ updateStatus) /\ UNCHANGED callVars)
    /\ \A id \in CallId : WF_hvars(\E c \in calls : c.id = id /\ attempt(c))
    /\ WF_hvars(wHandleMXJobFinalizers)
    /\ WF_hvars((clearFinalizer \/ clearFinalizerErr) /\ UNCHANGED callVars)
    /\ SF_hvars(clearFinalizer /\ UNCHANGED callVars)

WFairSpec == WSpec /\ WFairness

-----------------------------------------------------------------------------
\* reconcileMXJobs calls the finish hook with the very status it then writes:
\* whatever outcome an observer reads was announced as such before, although
\* earlier syncs may have announced another one and failed to write it.
OutcomeAnnounced ==
    Current.phase \in Final /\ "finish" \in Webhooks
        => Current.phase \in announced

Dies == wCrash \/ \E c \in calls : callHookPanics(c)

\* If the operator stops crashing and the informer stops going back, a job
\* pending deletion is let go, however often its webhook fails or refuses:
\* retries end and errors are not fatal.
DeletionSurvivesHooks ==
    <>[][~Dies /\ ~relist]_hvars => (Current.deleting ~> ~Current.exists)

\* NotificationResponse: "Result contains extra details" and may be omitted:
\* an answer without it ends a call like any other.
NoCallLost ==
    \A k \in launched \ ended : \E c \in calls : c.kind = k
=============================================================================
