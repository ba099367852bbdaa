# A TLA+ model of mxnet-operator

The operator runs MXNet training jobs on Kubernetes. A user creates an `MXJob`;
the operator creates its scheduler, server and worker pods and one service for
the scheduler, follows the pods, writes what it sees to the job's status, calls
webhooks when the job starts and finishes, and holds the job back with a
finalizer until the finish webhook was called.

There is one object per job, and several parties write or delete around it: the
sync worker, webhook goroutines, a finalizer goroutine, users, kubelets and the
garbage collector. The sync worker reads the job from a cache that lags behind,
and every call it makes may fail. This development asks which promises survive
that.

## The parts of the system

| part | state | operations | module |
|---|---|---|---|
| job status (`pkg/mx/handler.go`, `util.go`, `types.go`) | conditions, replica counters, times | counting pods, `updateMXJobStatus`, `setCondition` | `MXJobStatus` |
| controller (`pkg/mx/handler.go`) | the copy of the job, the listed pods | `Sync`, `reconcileMXJobs` and what it calls | `MXJobController` |
| finalizer (`handleMXJobFinalizers`) | the function running under `finalizerGroup` | call, wait, update | `MXJobController`, `MXJobLifecycle` |
| what an observer of the job sees | the versions of the job, the hooks called | | `MXJobLifecycle` |
| webhook calls (`callHookAsync`, `callHook`, `webhook_client_manager.go`) | goroutines, attempts, cached clients | start, attempt, end | `Webhooks` |
| reference managers (`pkg/controller`, `k8s.io/kubernetes/pkg/controller`) | owner references | claim, adopt, release | `Claims` |
| informer and queue (operator-sdk, client-go) | store, notifications, queue, `deletedObjects` | watch, retry, drop, resync, relist | `Informer` |
| CRD generator (`cmd/crd-validation`, kube-crd-gen) | the schema being converted | conversion, replacement of the validation | `CRDValidation` |
| OpenAPI definitions (`openapi_generated.go`) | | | `OpenAPIDefinitions` |
| API server, kubelets, users, hooks | the stored objects, the answers | accept or refuse, end or remove a pod | the environment of each module |

The informer hands a job to the controller. The controller finds its pods and
services through the reference managers, computes the status, starts webhook
calls and writes the job. The write comes back through the informer. The CRD's
validation decides which jobs get into the system at all.

What is hard to get right in them, and hard to test, is listed under "hazards" in
`PROJECT.json`, each at its line.

## Modules

`MXJobStatus` holds the pure part. Its operators have the names of the Go
functions. A condition list is a function from condition types to `"None"`,
`"True"` or `"False"`: `setCondition` keeps one entry per type, and each type is
always written with the same reason. Times are Booleans (set or not). `Missing`
is `diff` of `reconcilePods`; `statusAfter` is what `reconcilePods` leaves in the
status; `terminatedStatus` what `terminateMXJob` does to the counters.

`MXJobController` is the operator and its environment, for one job.

 * The API server's copies of the job are a log: `log[rv]` is the object as of
   resource version `rv`. `cacheRV` is the version the informer has got to, and
   `mxjob.rv` the one the sync's copy came from. `accepted(rv)` is the conflict
   check of an update. `watchEvent` takes the cache forward. `relist` takes it back:
   every list, also the one after a broken watch, asks for resource version 0
   (client-go's `reflector.go:246`), may be answered from a cache, and replaces what
   the store holds whatever its version.
 * `pods[t][i]` is the i-th pod of type `t`: its phase and its life (`unborn`,
   `hidden` after a creation that timed out, `live`, `terminating`, `gone`).
   `listed` is what `getPodsForMXJob` returned.
 * `pc` is the next API call of the sync. A sync is `Sync`, `getPodsForMXJob`,
   `reconcilePods` of the scheduler, the service (`getServicesForMXJob`,
   `canAdoptService`, `AdoptService`, `reconcileServices`), `reconcilePods` of
   servers and workers, `initializeMXJob`, `terminateMXJob`, `updateStatus`.
   Between any two of them anything else may happen. The creations of one
   `reconcilePods` are concurrent in the code and wait for each other: they are
   one step in which any set of them takes effect. The same holds for the
   deletions of `terminateMXJob`.
 * Errors: `apiError` for calls that change nothing, `reconcilePodsErr` and
   `terminateMXJobErr` for creations and deletions of which some took effect,
   and the second outcome of `reconcileServices`.
 * `inflight`, `launched` and `ended` count and remember webhook calls;
   `finalizer` is the function that runs under `finalizerGroup`.
 * `Env` selects what the environment may do, so that each run meets the
   disturbances its question is about.

`MXJobLifecycle` is the abstract specification: what somebody who sees only the
job and its webhooks may rely on. It has the same log, cache, webhooks and
finalizer, but a status is only its phase (`new`, `initialized`, `succeeded`,
`failed`), and the outcome of a reconciliation is a choice. `MXJobController`
implements it (`ImplementsLifecycle`, `INSTANCE` with `absLog`, `absPC` and
`absJob`). The steps before `initializeMXJob` are one abstract `reconciling`.

`Webhooks` extends `MXJobLifecycle` with what a call is made of. `calls` holds the
goroutines alive, each with its kind, the phase it carries, the number of its
attempt, and who waits for it (nobody, or the finalizer). An attempt
(`callHookNoClient`, `callHookFails`, `callHookDone`, `callHookPanics`) is one
pass of `callHook` with one of the answers it tells apart; `tryAgain` is the retry
of `callHookAsync`; `HookClient` is the client cache. Each step that starts or ends
a call is conjoined with the step of the lifecycle it belongs to.

`Claims` is the reference manager. Pods and services are claimed by the same code
for two kinds of objects, and so by one model. A sync lists (`getServicesForMXJob`,
the twin of the listing in `getPodsForMXJob`) and deals with one object after the
other: `claimOrIgnore`, `ReleaseService`, `CanAdopt` and `AdoptService`, each patch
a step, in any order of the objects. Meanwhile others relabel, take, delete and
replace objects; the job itself may be deleted and created again under its name.
`quiet`, `late` and `adopted` are history the properties need.

`Informer` is the way of a change to the handler, for several jobs: the store and
its notifications, the event handlers, the work queue (`queue`, `dirty`,
`processing`), the delayed keys, the retry counter, `deletedObjects`, and the
worker between the places where it touches shared state (`sync`, `lookup`,
`handle`, `delete`, `handleErr`, `done`). A type assertion that fails and the
unsynchronised map end the process; it is restarted and lists.

`OpenAPIDefinitions` has the definitions that `GetOpenAPIDefinitions` returns as
far as they can be reached from `MXJob`, each reduced to type, reference,
properties, required properties and elements. The conversion takes the function that
returns them as a parameter, and so does the model: `Definitions` is a constant of
`CRDValidation`, and the configurations give it that table. `CRDValidation` walks down one path
of a document: the recursive conversion `SchemaPropsToJSONProps`, the Go type and
the validation of `deploy/crd_templ.yaml` side by side. At any place the walk stops,
one of the two validations is installed, a job with a flaw at that place is
submitted, and the operator meets it if it was stored. A state of the walk is a
call of the recursion, so there is no recursive operator.

The `MC...` modules give TLC its constants; the `...Proofs` modules hold the
theorems.

A definition with a comment "Mutation of ..." is a deliberately wrong variant of
the one that follows it. It is not part of a specification; it is what the
property named in `PROJECT.json` is seen to catch.

## Runs

| run | configuration | shows |
|---|---|---|
| creation | `ControllerCreation` | with failing calls, crashes, stale restarts and relists, one deleted pod and deleted services: `InitializedMeansCreated`, `NoOverProvision` |
| outcomes | `ControllerOutcomes` | with pods that end either way, failing calls, another writer, crashes and relists: `NotBothFinal`, `FinishedFrozen`, `NothingTakenBack`, `SucceededEarned`, `FailedHasCause`, `DeletedWhenDecided`, `ReplicasAccounted`, and the action property `FinishingStops` |
| refinement | `ControllerRefinement` | `ImplementsLifecycle` and `StartNotified` with both webhooks, finalizer, deletion, another writer and creations that time out |
| progress | `ControllerProgress` | with pods that end either way and relists: `JobFinishes` |
| webhooks | `Webhooks` | with every answer, a bad configuration, crashes, relists and deletion: `PhaseOrder`, `FinishNotified`, `FinalizerHonoured`, `UnfinishedWaits`, `OutcomeAnnounced`, and `DeletionSurvivesHooks` |
| informer | `Informer` | with failing handlers, relists, map races and crashes: `NothingForgotten`, `QueueSound`, and `CatchesUp` |
| claims | `Claims` | with failing calls, relists and others that change job, labels, owners and objects: `ClaimsExact`, `LateAdoptsNothing`, `ClaimedIsOwned`, `ForeignUntouched`, and `RefsSettle` |
| crd | `CRDValidation` | for every place of a job document, both validations and three flaws: `NoTypeInItself`, `GeneratedFaithful`, `DecodeGaps`, `TemplateGuards`, `PodsComplete` |

`FinishNotified` and `FinalizerHonoured` say that a call was started. Whether one that
a sync started comes to an end they leave open, because the code does: `no_result`
below loses one, and so does a crash. `UnfinishedWaits` says more where the code waits:
a job that is removed unfinished had a call that ended, by an answer or by the last
retry.

`GeneratedFaithful` compares the generated validation with the Go types. Those of this
repository that matter (`MXJobSpec`, the webhooks) and quantities are translated from
their Go source. For the types of Kubernetes the model takes the Go type from the same
OpenAPI table the conversion reads, so that there it is about the conversion and not
about whether `openapi-gen` was right.

Four runs show that the code does something else than its comments, types or
tests for nil say.

| run | property | what happens |
|---|---|---|
| leak | `FinishedHasNoActivePod` | a sync that finds the scheduler failed creates the pods an earlier sync could not; they are not in its list, are not deleted, and no later sync looks |
| service_leak | `ServiceControlled` | the service is created without owner; if the job goes before the next sync adopts it, it stays |
| no_result | `NoCallLost` | an answer of a webhook without the optional result panics, and the call is lost with the process |
| omitted | `OmittedIsHandled` | a job that leaves out an optional replica spec, `replicas` or `template` panics the operator; the generated validation lets it pass |

Modelling met further places where the code and its comments part. They follow
from the same models and have no run of their own:

 * a sync on an older copy creates a pod that was deleted after Initialized was
   written (`handler.go:372`; the comment at 373 says that ends the entire job).
   `NoOverProvision` still holds;
 * when a list, after a restart or a broken watch, is answered with an old version,
   such a sync may create pods of a job that is finished, and nobody deletes them: its
   update is refused, and the next sync looks at the finished job no more
   (`handler.go:161`). `FinishingStops` is therefore about the write that finishes the
   job: after that write no pod is active, but it does not say that none becomes so;
 * Running stays True in a job that has succeeded or failed, and so does Created:
   nothing resets them (`handler.go:569-572` only sets Running, and only Failed has a
   function that takes it back). `types.go:228-230` says of Running "The training is
   running without error", `types.go:218-220` of Created that something "has not been
   started". `NothingTakenBack` therefore leaves both out: it is about Initialized,
   Succeeded, Failed and the two times;
 * a creation that times out counts as done (`handler.go:537`). Initialized is then
   written for a pod that may never exist, where `types.go:223` says "successfully
   created". The comment at `handler.go:538-544` expects that the controller "will
   create a new pod when the expectation expires"; there are no expectations, and once
   Initialized is written the missing pod counts as gone and fails the job.
   `InitializedMeansCreated` is checked without timeouts; its proof covers them, but
   with a timed-out creation as one of those that count. `FailedHasCause` is checked,
   and proved, without timeouts;
 * the finalizer of a finished job does not wait for the finish webhook a sync is
   still calling (`handler.go:749`);
 * `handleDeleteResourceEvent` asserts the type of an object that may be a
   `DeletedFinalStateUnknown` (`informer.go:112`), and shares `deletedObjects` with
   the worker without a lock. The `informer` run has both, as the end of the process.

About the CRD: `cmd/crd-validation/main.go:45` replaces the template's validation
(line 44 has a TODO about merging), so the requirements on roles and replicas
are gone. The generated one has no type for structs, drops the values of maps,
knows nothing of quantities, and lacks the webhook fields of `types.go`.
`DecodeGaps` says that there are no other gaps through which a job that cannot be
decoded is stored; `RuntimeObjectFromUnstructured` panics on such a job. The
template's validation keeps the roles and replicas but requires neither `spec` nor
`template`, and looks at nothing in a pod template.

### Bounds

 * `Replicas` is one of each type, which has every order in which the types are
   judged. Partial creation, deletion and success of several workers are covered
   by the theorems of `MXJobCountingProofs`, for every number.
 * `MaxPods`: creations of a type that can ever take effect. With two (creation)
   a lost pod can be replaced. Creations beyond it fail, as under a quota.
 * `MaxLost`: how many pods others delete while the job exists.
 * `MaxVersions` in the controller and the lifecycle: up to this log length a write
   may leave the phase as it is (`touchJob`, updates that only change counters).
   Writes that change the phase are always possible, and there are at most two of
   them, plus deletion. A sync that would need a write beyond it stays where it is,
   or fails where `writeErrors` is on. For safety this only cuts behaviours off. In
   progress it is 6, more than the writes that can happen there.
 * `MaxCalls`, `CallId`: webhook goroutines of one kind, and alive, at a time. Two
   calls of syncs and one of the finalizer can overlap. `Steps` is 2: there is an
   attempt that is tried again and one that is the last.
 * Informer: two keys, because keys share queue and worker; `MaxRetries` 1 has the
   retry and the drop; two versions and two undelivered notifications let an object
   be created, deleted and created again under the eyes of the worker. Deadlock is
   checked.
 * Claims: two objects, because the answer of `CanAdopt` is shared; `MaxUID` 2, a
   job and its successor; three changes by others, enough to delete and replace the
   job during a sync.
 * CRD: none; every path of the definitions is walked.

The constants are model values or literals; no symmetry is used, since the larger
runs check liveness.

`CHECK_DEADLOCK` is off where the system really may stop: a finished or deleted job
has nothing left to do, and a walk through a document ends.

### Fairness

`FairSpec` of the controller assumes that the operator's goroutines run, that the watch
delivers, and that a call to the API server that is tried again and again succeeds in
the end (strong fairness of the successful calls; of the creations and of the ending
pods as a whole, not of each type). `WFairSpec` of the webhooks assumes less: a webhook
may fail every time, and so may the syncs; only the update that clears the finalizer
may not. Of a sync they say only that one
is started whenever one is possible; `CatchesUp` is the reason why they may: the
resync every five seconds (`cmd/mxnet-operator/main.go:31`) queues every job again
even when its key was dropped after its retries. Containers are assumed to end in
progress. Nothing is assumed of users, and no step that takes the cache back is ever
due.

`Informer` assumes fair goroutines, timers, resync and restart, and that `Handle`
does not fail every time for a key. `Claims` assumes that syncs come again, that
the watch and the garbage collector work, and that calls do not fail every time.
Liveness is claimed for behaviours in which the process is killed, and others
interfere, only finitely often, and the cache goes back only finitely often:
`JobFinishes`, `DeletionSurvivesHooks` and `CatchesUp` say so in their premise,
`RefsSettle` through `MaxChanges`, and progress has no crashes.

## Proofs

The theorems hold for every value of the constants that meets the assumptions:
at least one replica of each type (`ReplicasAssumption`), definitions of the shape
described below (`DefinitionsAssumption`), bounds that are natural
numbers, and sets of webhooks, answers and disturbances within the declared ones.
Each proof module sets, with its first `USE`, the provers a leaf is tried with, in order
and with their time limits: Zenon first, which is quick on the many leaves that only
combine facts, then the SMT solver, which leaves with arithmetic or sequences name.
`ReplicasAssumption` is what the validation of `deploy/crd_templ.yaml` demands
(`TemplateGuards`); under the generated validation it is up to the user.

**`MXJobLifecycleProofs`**: `PhaseOrder`, `StartNotified`, `FinishNotified`,
`FinalizerHonoured` and `UnfinishedWaits`. None of them is inductive. `LifecycleInv` adds

 * `Copy`: what the sync's copy can be, given the version it came from. An update
   is accepted only if that version is current, so the phase it writes is one
   that may follow;
 * `Announced`: whoever holds, or has written, a phase beyond `new` has called the
   start hook, and the same for the finish hook;
 * `Clearing`: when the finalizer is about to be cleared, the finish hook has been
   called, by the finalizer or by the sync that finished the version it read.

`UnfinishedWaits` needs `Waited` on top: the finalizer's goroutine comes to its update
without a call only for a finished version, and the update is accepted only if that
version is still the current one. Since `Copy` holds of a copy of any version, neither
restarts nor relists need an argument of their own.

**`MXJobControllerProofs`** begins with lemmas about the pure operators of
`MXJobStatus`: they return statuses, never make a status both Succeeded and Failed,
and do not take Initialized back. Then it proves type correctness, `NotBothFinal` and `FinishedFrozen`
by the invariant `ControllerInv`. Its `Copy` says that the copy of a running sync
came from a version that was not finished. An accepted update therefore never
follows a finished version. Two more results rest on it:

 * `NothingTakenBack`, under every disturbance: whoever writes, every later
   version has Initialized, Succeeded, Failed, the start and the completion time of an
   earlier one. The steps
   of a sync are shown to keep them in the copy (`Keeps`, which is transitive, for
   each operator of `MXJobStatus`), all but Failed, which success of the workers takes
   back; the copy came from an unfinished version, which had no Failed to lose. `CopyGrows`
   says so of the copy, and an accepted update appends it. The invariant
   (`VersionsGrow`) has all conditions, Created and Running with them, which is how the
   code is and not how `types.go` describes it.
 * `FinishingStops`, without timeouts: what the run `leak` finds needs a job that is
   finished by the very write that initializes it. A job that was initialized before is
   stopped by then. Pods are created only for a copy that is
   not initialized. A sync of an initialized copy has every active pod in its
   list (`ListCovers`) until `terminateMXJob` deletes them; from then until its update
   none is active (`UpdateStopped`). An update is accepted only if the copy came from
   the current version, so the one that finishes an initialized job had an initialized
   copy. What the cache holds plays no part, and so the theorem has crashes and relists.

**`MXJobCountingProofs`**: the properties that count pods, for any number of
replicas.

 * `SucceededEarned` and `InitializedMeansCreated`, under every disturbance.
   `EarnedInv` says what backs a status that is held or written (`AllBacked`), that
   a list never claims more than is true (`ListHolds`), and that what a sync got
   done before the place it is at stays done (`Done`).
 * `NoOverProvision` and `ReplicasAccounted`, unless creations time out. With
   `ProvisionInv` a list is complete until the sync itself creates pods of the type
   (`ListComplete`): other syncs of the process do not run meanwhile, and a crash
   ends the one that held the list. What `terminateMXJob` takes from Active was
   counted there (`ActiveCounted`). With timeouts both are false: a pod that is not
   listed is created again, and both may show up.
 * `FailedHasCause` and `DeletedWhenDecided`, unless creations time out; both are
   about jobs of which nobody else deletes pods (`MaxLost = 0`). The danger is that
   the operator takes pods it deleted itself for lost ones: `terminateMXJob` may
   delete some, fail, and leave the judgement to the next sync. `CauseInv` says that,
   as long as no pod failed and the job exists, workers are not deleted
   (`WorkersKept`) and other pods only when enough workers had succeeded
   (`LossDecided`); that a sync which finds pods missing has those workers in its
   list (`Weighed`); and that the judgement of the workers, the last one, takes a
   Failed set on the way back (`Concluded`).

**`MXJobRefinementProofs`**: `Spec => ImplementsLifecycle`. Every initial state maps
to one, and under `ControllerInv` every step maps to a step of `MXJobLifecycle` or
to a stutter. The run `refinement` checks the same without crashes, relists and write
errors, which would make it too large; the proof has them. With it the theorems
about the lifecycle become theorems about the controller:
`ControllerNotifiesStart` and `ControllerKeepsPromises` instantiate
`MXJobLifecycleProofs` under the refinement mapping.

**`WebhooksProofs`**: `OutcomeAnnounced`, by an invariant that adds that the copy about
to be written was announced with the outcome it has (`Announcing`). And
`CallsImplementLifecycle`: `Webhooks` implements `MXJobLifecycle`, where the panic
over an answer without result is one of the crashes of the latter.
`CallsKeepPromises` carries `PhaseOrder`, `StartNotified`, `FinishNotified`,
`FinalizerHonoured` and `UnfinishedWaits` over, provided that crashes are among the
disturbances when such an answer is possible. `WebhooksTypeCorrect` is `WTypeOK`.

**`InformerProofs`**: `QueueSound` and `NothingForgotten`, for any number of keys.
`InformerInv` adds that the last notification tells what the store holds
(`EventsSound`), that a deletion the handler has to be told of is notified or saved
(`DeletionKnown`), and that a worker whose object is no longer the one in the store
has another turn (`InHand`). The deletion of a newer entry of `deletedObjects` is
harmless by the second: the handler knows of the deletion by then.

**`ClaimsProofs`**: `ClaimsExact`, `LateAdoptsNothing`, `ClaimedIsOwned` and
`ForeignUntouched`, for any number of objects. `ClaimsInv` relates each object to
what was listed (`Undisturbed`), and the manager's UID to the job's (`JobKnown`): a
sync that was late never finds its job live again.

**`CRDValidationProofs`**: `TypeOK`, `GeneratedFaithful`, `DecodeGaps`,
`TemplateGuards` and `PodsComplete`, for every table of definitions that meets
`DefinitionsAssumption`: a definition is a scalar or a struct, whose fields are
scalars, references to definitions, arrays of these, or maps to scalars or quantities;
`MXJob`, `MXJobSpec` and `MXReplicaSpecs` are as this operator has them; quantities and
webhooks have no definition. This is how `openapi-gen` writes them, and TLC evaluates
the assumption on the table of `openapi_generated.go` in the run `crd`. The theorems say
that the result does not depend on the version of Kubernetes the table comes from, nor
on how deep its types are nested. `CRDInv` says, by the place the walk has come to, what
the Go type and the two schemas can be there: the job, its spec, a webhook, or anywhere
else, where the schema is the conversion of the Go type, or a reference to it still to be
followed, or nothing for a quantity or a value of a map (`Places`); what the template
says at the few places it knows (`TemplatePlaces`); and that a job that was stored was
not refused, and came to what the code makes of it (`Settled`).

`ConversionEnds` is about the recursion. The conversion follows references and keeps no
record of them, so it ends only if the table lets it: the theorem takes an order of the
definitions in which each refers to lower ones (`Descends`) and concludes that no
definition is converted within itself (`NoTypeInItself`) and that the calls for
definitions open at a time are at most one more than the rank of `MXJob`. The content is
that the walk never leaves the order: what can still be called for, from the schema the
conversion is at, is below the definition it is in (`Descending`), also below arrays and
where maps and unknown names are dropped. For the table of `openapi_generated.go` the run
`crd` walks every chain of references and finds none that comes back, so ranking each
definition by its longest chain is such an order. `MXJob` then has rank 12, and the bound
is met: in a `resourceFieldRef` of a projected volume 13 calls are open.

Only model-checked: liveness (`JobFinishes`, `DeletionSurvivesHooks`, `CatchesUp`,
`RefsSettle`), which under fairness is out of the prover's reach, as is `ENABLED`. Every
invariant and every safety property the passing runs check has a theorem. That a rank
exists for the repository's table (`Descends`) is left to the run, as said.

Induction over recursively defined data and modules that declare `RECURSIVE` operators
are out of its reach too; no module here needs them.

## What is not modelled

 * The contents of pods, services, environment variables, events and logs.
 * Changes of the spec while a job runs. More pods than replicas (`diff < 0`) and
   more than one service are a TODO in the code and do nothing there either.
 * More than one job in the controller: jobs share only the queue (`Informer`) and
   the client cache. A second job of the same name is in `Claims` only.
 * Of a webhook: evictions from the client cache, which make the next call build a
   client again; TLS and authentication; `ClientManager.Validate`, which nothing
   calls; the length of the backoff.
 * Of the informer: shutdown, the length of delays, and the order of notifications
   between keys, which is left open.
 * Of validation: maxima, `null`, and the OpenAPI definitions that cannot be reached
   from `MXJob`.
 * Expectations: `satisfiedExpectations` is not called.
 * Deep copies, which the models take to be what their name says, the registration
   of types with the scheme, flags, and the end-to-end tests.
