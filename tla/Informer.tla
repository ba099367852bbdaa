------------------------------ MODULE Informer ------------------------------
(***************************************************************************)
(* How changes of MXJobs reach the handler: the event handlers, the queue  *)
(* and the worker of operator-sdk's informer (pkg/sdk/informer.go and      *)
(* informer-sync.go) on top of client-go's workqueue and shared informer.  *)
(*                                                                         *)
(* An object is reduced to a number that tells one entry of the store from *)
(* another; 0 is no object.  An object that a list brings back in an older *)
(* version is an entry as well, with a number of its own.  What the API    *)
(* server holds is seen through the informer's store: a change is an entry *)
(* of the store and a notification in one step, as HandleDeltas makes      *)
(* them.  Notifications are kept in order per key; the order between keys  *)
(* is left open.                                                           *)
(***************************************************************************)
EXTENDS Integers, Sequences

CONSTANTS Keys,         \* namespace/name keys of the MXJobs
          MaxRetries,   \* maxRetries
          Env,          \* what may happen besides, see Disturbance
          MaxVersions,  \* bound: entries the store has had
          MaxEvents     \* bound: notifications of a key not yet delivered

\* fail: Handle returns an error; relist: the watch breaks and a deletion is
\* only found by the next list; race: the runtime detects that deletedObjects
\* is written by one goroutine and used by another; crash: the process dies
\* for any other reason.
Disturbance == {"fail", "relist", "race", "crash"}

ASSUME InformerAssumption == MaxRetries \in Nat /\ MaxVersions \in Nat /\ MaxEvents \in Nat

VARIABLES alive,           \* the process runs
          store,           \* the indexer: the entry it holds of each key
          version,         \* the number given last
          events,          \* notifications not delivered to the event handlers
          deletedObjects,  \* keys with a last known state
          queue, dirty, processing,
          waiting,         \* keys to be added when their delay is over
          failures,        \* NumRequeues of the rate limiter
          worker,          \* the goroutine of runWorker
          handled,         \* the entry of which Handle last succeeded
          dropped          \* keys given up by handleErr and not added since

queueVars == <<queue, dirty, processing>>
vars == <<alive, store, version, events, deletedObjects, queueVars, waiting,
          failures, worker, handled, dropped>>

Notification == {"put", "delete", "tombstone"}

Idle == [pc |-> "idle", key |-> "none", obj |-> 0, err |-> "nil"]

Elems(s) == {s[i] : i \in 1 .. Len(s)}

TypeOK ==
    /\ alive \in BOOLEAN
    /\ store \in [Keys -> Nat] /\ version \in Nat /\ handled \in [Keys -> Nat]
    /\ events \in [Keys -> Seq(Notification)]
    /\ queue \in Seq(Keys)
    /\ deletedObjects \subseteq Keys /\ dirty \subseteq Keys /\ processing \subseteq Keys
    /\ waiting \subseteq Keys /\ dropped \subseteq Keys
    /\ failures \in [Keys -> 0 .. MaxRetries]
    /\ \/ worker = Idle
       \/ worker \in [pc : {"sync", "lookup", "handle", "delete", "handleErr", "done"},
                      key : Keys, obj : Nat, err : {"nil", "error"}]

\* The first list notifies each object it returns as an addition.
Listed(s) == [k \in Keys |-> IF s[k] # 0 THEN <<"put">> ELSE << >>]

\* The process starts: Run has waited for the first list to fill the store.
Init ==
    /\ alive = TRUE
    /\ version = 0
    /\ store = [k \in Keys |-> 0]
    /\ events = Listed(store)
    /\ deletedObjects = {} /\ queue = << >> /\ dirty = {} /\ processing = {}
    /\ waiting = {} /\ dropped = {}
    /\ failures = [k \in Keys |-> 0]
    /\ worker = Idle
    /\ handled = [k \in Keys |-> 0]

-----------------------------------------------------------------------------
(* The workqueue. *)

\* Mutation of Add: a key that is being processed is queued at once.
AddAtOnce(k) ==
    /\ dirty' = dirty \cup {k}
    /\ queue' = IF k \in dirty THEN queue ELSE Append(queue, k)
    /\ UNCHANGED processing

Add(k) ==
    /\ dirty' = dirty \cup {k}
    /\ queue' = IF k \in dirty \cup processing THEN queue ELSE Append(queue, k)
    /\ UNCHANGED processing

Get ==
    /\ queue # << >>
    /\ queue' = Tail(queue)
    /\ processing' = processing \cup {Head(queue)}
    /\ dirty' = dirty \ {Head(queue)}

Done(k) ==
    /\ processing' = processing \ {k}
    /\ queue' = IF k \in dirty THEN Append(queue, k) ELSE queue
    /\ UNCHANGED dirty

\* The delay of a key added by AddRateLimited is over.
waitingLoop(k) ==
    /\ alive /\ k \in waiting
    /\ waiting' = waiting \ {k}
    /\ Add(k)
    /\ UNCHANGED <<alive, store, version, events, deletedObjects, failures, worker,
                   handled, dropped>>

-----------------------------------------------------------------------------
(* The store and the event handlers. *)

\* The process ends, and with it all it holds in memory.  The store goes on
\* to stand for what the API server holds.
dies ==
    /\ alive /\ alive' = FALSE
    /\ events' = [k \in Keys |-> << >>]
    /\ deletedObjects' = {} /\ queue' = << >> /\ dirty' = {} /\ processing' = {}
    /\ waiting' = {} /\ dropped' = {}
    /\ failures' = [k \in Keys |-> 0]
    /\ worker' = Idle
    /\ handled' = [k \in Keys |-> 0]
    /\ UNCHANGED <<store, version>>

HandleDeltas(k, obj, notification) ==
    /\ alive /\ Len(events[k]) < MaxEvents
    /\ store' = [store EXCEPT ![k] = obj]
    /\ events' = [events EXCEPT ![k] = Append(@, notification)]
    /\ UNCHANGED <<alive, deletedObjects, queueVars, waiting, failures, worker,
                   handled, dropped>>

\* The watch reports that the object was created or changed, or a list brings
\* it in another version than the store has.
watchPut(k) ==
    /\ version < MaxVersions
    /\ version' = version + 1
    /\ HandleDeltas(k, version + 1, "put")

watchDelete(k) ==
    /\ store[k] # 0
    /\ HandleDeltas(k, 0, "delete")
    /\ UNCHANGED version

\* The deletion was missed: Replace queues a DeletedFinalStateUnknown.
relistDelete(k) ==
    /\ "relist" \in Env
    /\ store[k] # 0
    /\ HandleDeltas(k, 0, "tombstone")
    /\ UNCHANGED version

\* Mutation of Resync: there is none (a resyncPeriod of 0).
ResyncNever(k) == k \notin Keys /\ UNCHANGED vars

\* Resync notifies every object of the store, unless it has a delta already.
Resync(k) ==
    /\ store[k] # 0 /\ events[k] = << >>
    /\ HandleDeltas(k, store[k], "put")
    /\ UNCHANGED version

Delivered(k, n) ==
    /\ alive /\ events[k] # << >> /\ Head(events[k]) = n
    /\ events' = [events EXCEPT ![k] = Tail(@)]
    /\ UNCHANGED <<alive, store, version, failures, worker, handled, waiting>>

\* handleAddResourceEvent and handleUpdateResourceEvent
handlePutResourceEvent(k) ==
    /\ Delivered(k, "put")
    /\ Add(k)
    /\ dropped' = dropped \ {k}
    /\ UNCHANGED deletedObjects

\* Mutation of handleDeleteResourceEvent: the last known state is not saved.
handleDeleteUnsaved(k) ==
    /\ Delivered(k, "delete")
    /\ Add(k)
    /\ dropped' = dropped \ {k}
    /\ UNCHANGED deletedObjects

handleDeleteResourceEvent(k) ==
    /\ Delivered(k, "delete")
    /\ deletedObjects' = deletedObjects \cup {k}
    /\ Add(k)
    /\ dropped' = dropped \ {k}

\* A DeletedFinalStateUnknown is no *unstructured.Unstructured: the type
\* assertion of handleDeleteResourceEvent panics.
handleTombstonePanics(k) ==
    /\ events[k] # << >> /\ Head(events[k]) = "tombstone"
    /\ dies

-----------------------------------------------------------------------------
(* The worker. *)

At(pc) == alive /\ worker.pc = pc

Then(pc) == worker' = [worker EXCEPT !.pc = pc]

processNextItem ==
    /\ At("idle")
    /\ Get
    /\ worker' = [pc |-> "sync", key |-> Head(queue), obj |-> 0, err |-> "nil"]
    /\ UNCHANGED <<alive, store, version, events, deletedObjects, waiting, failures,
                   handled, dropped>>

\* GetByKey: an object that is not there is looked up in deletedObjects.
sync ==
    /\ At("sync")
    /\ worker' = [worker EXCEPT !.obj = store[worker.key],
                                !.pc = IF store[worker.key] = 0 THEN "lookup" ELSE "handle"]
    /\ UNCHANGED <<alive, store, version, events, deletedObjects, queueVars, waiting,
                   failures, handled, dropped>>

\* "No last known state found": sync returns nil.
lookup ==
    /\ At("lookup")
    /\ Then(IF worker.key \in deletedObjects THEN "handle" ELSE "handleErr")
    /\ UNCHANGED <<alive, store, version, events, deletedObjects, queueVars, waiting,
                   failures, handled, dropped>>

\* Handle succeeds: Sync does for every deleted object.
HandleOk ==
    /\ At("handle")
    /\ handled' = [handled EXCEPT ![worker.key] = worker.obj]
    /\ Then(IF worker.obj = 0 THEN "delete" ELSE "handleErr")
    /\ UNCHANGED <<alive, store, version, events, deletedObjects, queueVars, waiting,
                   failures, dropped>>

HandleErr ==
    /\ "fail" \in Env
    /\ At("handle") /\ worker.obj # 0
    /\ worker' = [worker EXCEPT !.pc = "handleErr", !.err = "error"]
    /\ UNCHANGED <<alive, store, version, events, deletedObjects, queueVars, waiting,
                   failures, handled, dropped>>

\* delete(i.deletedObjects, key), also when an entry was saved since the lookup
deleteEntry ==
    /\ At("delete")
    /\ deletedObjects' = deletedObjects \ {worker.key}
    /\ Then("handleErr")
    /\ UNCHANGED <<alive, store, version, events, queueVars, waiting, failures,
                   handled, dropped>>

\* Mutation of handleErr: one retry too many.
handleErrOnceMore ==
    /\ At("handleErr")
    /\ LET k     == worker.key
           retry == worker.err # "nil" /\ failures[k] <= MaxRetries
       IN  /\ failures' = [failures EXCEPT ![k] = IF retry THEN @ + 1 ELSE 0]
           /\ waiting' = IF retry THEN waiting \cup {k} ELSE waiting
           /\ dropped' = IF worker.err # "nil" /\ ~retry THEN dropped \cup {k} ELSE dropped
    /\ Then("done")
    /\ UNCHANGED <<alive, store, version, events, deletedObjects, queueVars, handled>>

\* A failed key is added again after a delay, up to maxRetries times.
handleErr ==
    /\ At("handleErr")
    /\ LET k     == worker.key
           retry == worker.err # "nil" /\ failures[k] < MaxRetries
       IN  /\ failures' = [failures EXCEPT ![k] = IF retry THEN @ + 1 ELSE 0]
           /\ waiting' = IF retry THEN waiting \cup {k} ELSE waiting
           /\ dropped' = IF worker.err # "nil" /\ ~retry THEN dropped \cup {k} ELSE dropped
    /\ Then("done")
    /\ UNCHANGED <<alive, store, version, events, deletedObjects, queueVars, handled>>

\* The deferred Done of processNextItem.
processNextItemDone ==
    /\ At("done")
    /\ Done(worker.key)
    /\ worker' = Idle
    /\ UNCHANGED <<alive, store, version, events, deletedObjects, waiting, failures,
                   handled, dropped>>

-----------------------------------------------------------------------------
(* The process. *)

\* deletedObjects is a map without a lock: a write that meets another use of
\* it may end the process ("concurrent map read and map write").
mapRace ==
    /\ "race" \in Env
    /\ worker.pc \in {"lookup", "delete"}
    /\ \E k \in Keys : events[k] # << >> /\ Head(events[k]) = "delete"
    /\ dies

crash == "crash" \in Env /\ dies

\* The process is started again.  Objects may have been deleted in between.
restart ==
    /\ ~alive /\ alive' = TRUE
    /\ \E gone \in SUBSET Keys : store' = [k \in Keys |-> IF k \in gone THEN 0 ELSE store[k]]
    /\ events' = Listed(store')
    /\ UNCHANGED <<version, deletedObjects, queueVars, waiting, failures, worker,
                   handled, dropped>>

Worker == \/ processNextItem \/ sync \/ lookup \/ HandleOk \/ HandleErr
          \/ deleteEntry \/ handleErr \/ processNextItemDone

EventHandler(k) == \/ handlePutResourceEvent(k) \/ handleDeleteResourceEvent(k)
                   \/ handleTombstonePanics(k)

Change(k) == watchPut(k) \/ watchDelete(k) \/ relistDelete(k)

Next == \/ \E k \in Keys : Change(k) \/ Resync(k) \/ EventHandler(k) \/ waitingLoop(k)
        \/ Worker
        \/ mapRace \/ crash \/ restart

Spec == Init /\ [][Next]_vars

\* Goroutines and timers run, the process is restarted, and Handle does not
\* fail every time for any key.
Fairness ==
    /\ \A k \in Keys : /\ WF_vars(EventHandler(k)) /\ WF_vars(waitingLoop(k))
                       /\ WF_vars(Resync(k)) /\ SF_vars(worker.key = k /\ HandleOk)
    /\ WF_vars(Worker)
    /\ WF_vars(restart)

FairSpec == Spec /\ Fairness

-----------------------------------------------------------------------------
\* Something will still make the worker look at the key.
Pending(k) ==
    \/ events[k] # << >> \/ k \in dirty \/ k \in waiting
    \/ /\ worker.key = k
       /\ \/ worker.pc = "sync"
          \/ worker.pc \in {"lookup", "handle"} /\ worker.obj = store[k]
          \/ worker.pc = "handleErr" /\ worker.err # "nil"

\* No change of a job is lost between the watch and the handler, whatever is
\* queued, processed, retried or saved in deletedObjects when it arrives: as
\* long as the handler has not dealt with the object the store holds, or with
\* its deletion, the key is on its way to the worker, unless handleErr has
\* dropped the key, which only happens to an object that exists.
NothingForgotten ==
    alive => \A k \in Keys :
        \/ handled[k] = store[k]
        \/ Pending(k)
        \/ k \in dropped /\ store[k] # 0

\* The queue holds each key that is marked and not processed exactly once, and
\* the key of the worker is the only one in process: "two pods with the same
\* key are never processed in parallel" (processNextItem).
QueueSound ==
    /\ Elems(queue) = dirty \ processing
    /\ \A i, j \in 1 .. Len(queue) : queue[i] = queue[j] => i = j
    /\ processing = IF worker.pc = "idle" THEN {} ELSE {worker.key}

\* Once the process is no longer killed, the handler catches up with every
\* object and every deletion, also with those handleErr dropped: the resync
\* brings them back.
CatchesUp == <>[]alive => \A k \in Keys : <>[](handled[k] = store[k])
=============================================================================
