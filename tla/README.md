# A TLA+ model of the Inrun operator runtime

The repository builds an operator runtime: a *catalog* declares CRDs, how their
objects are reconciled and which CRDs depend on which; the runtime watches the
cluster, queues work per CRD and runs worker pools; a gateway beside it serves
the admission and conversion webhooks. This project models the parts of it that
are concurrent or must survive failures. Source paths below are relative to
`src/`; the definition-to-line correspondence is the `map` of `PROJECT.json`.

## The system

| Part | State | Operations | Talks to |
|---|---|---|---|
| Catalog dependency graph (`pkg/catalog/dependencies.go`) | nodes, adjacency lists, in-degrees | build, `StartupOrder`, `ShutdownOrder`, `GetDependents` | coordinator reads it |
| Coordinator (`pkg/runtime/coordinator`) | start and health channels, pool contexts and wait groups, `started`, `deactivated` | `Coordinate` (boot, stop), `retryMissingCRDs`, `dependencyHealthChecker`, `activateCRD`, `deactivateCRD` | informer factory's missing map, CRD health, queues, leader election |
| Informer factory and observers (`pkg/runtime/informer`) | an entry per kind, missing map, caches | handle adds, updates, deletes, resyncs; route events of watched kinds | queues, retry loop |
| Work queue and workers (`pkg/runtime/queue`, `coordinator/worker.go`) | client-go queue, sentinel payloads beside it, run-time depth limit | enqueue with a behaviour gate, get, reconcile, retry, requeue, forget, done, drain | informers and resync loops feed it, autoscaler sets its limit |
| Reconcile pipeline (`coordinator/prepare`, `cleanup.go`, `maintain`, `reconcilers/generic`, `post`) | finalizers, labels, annotations, status and provisioned resources in the cluster | prepare, cleanup gate, maintain, provision, ordered deletion, status patch | API server, admission webhooks |
| Autoscaler (`pkg/runtime/autoscaler`, `coordinator/crd_runtime.go`) | override flag, cooldown clock, semaphore capacity, resync interval | evaluate, apply override, restore baseline, stop | worker pool, queue limit, resync loop of its activation |
| CRD health (`coordinator/vitals`) | independent atomics: started, healthy, pending, degraded, gated | `RecordSuccess`, `RecordFailure`, `SetStarted`, `SetDegraded`, ... | written by workers, coordinator and checker |
| Leader election (`pkg/runtime/leader`) | leader name, `startedLeading`, `runCancel` | client-go callbacks | runs `Coordinate` |
| Process manager and health server (`pkg/process`, `pkg/health`) | components, hooks, `done`, the healthy flag | start in order, shut down in reverse under one deadline, answer probes | everything; the kubelet |
| Gateway (`pkg/gateway/webhook`, `certmanager`, `cmd/internal/security.go`) | TLS Secret, webhook configurations, conversion webhook of the CRDs, certificate files and memory of each replica | start, housekeeper pass, rotation, watches, shutdown with clean-up | API server; other replicas through it |

What is hard in it:

* **Concurrency.** Workers of successive activations share one queue; payloads
  live beside the queue under a mutex of their own; the start-up loop, the retry
  loop and the health checker close the same channels; the autoscaler of a
  cancelled activation is not waited for; client-go calls the election callbacks
  from two goroutines; gateway replicas reconcile the same objects without a leader.
* **Failure and ordering.** CRDs vanish and return; the existence check fails
  transiently; leadership is lost at any point; reconcile results arrive after a
  CRD was declared degraded; watches break and events are lost; calls succeed
  whose answers are lost; processes die between two writes that belong together.
* **Stale state.** Workers read a cache that lags behind the server, decide what
  to write from it, and sometimes write into it.
* **Time.** Drains, shutdowns and ordered deletions are bounded by time-outs that
  race what they wait for; cooldowns and grace periods must survive flapping
  conditions; a lease must expire for its holder before it does for the others.

What makes each part correct: the queue neither loses nor doubles work and never
hands one item to two workers; a pool that is cancelled ends; CRDs start after
their dependencies, are recovered when they return, are stopped dependents first,
and no channel is closed twice; the start-up order is a topological order that is
the same in every process; overrides end and leave the declared configuration; a
custom resource is never gone before what it owns; every change in the cluster is
reflected in the status some time after, although events get lost; one replica
coordinates at a time and, after any failure, again; the webhooks come to trust a
certificate that is served. `PROJECT.json` lists the places where each of these
could fail (`hazards`).

## Modules

| Module | Models |
|---|---|
| `DependencyGraph` | `NewDependencyGraph`, `StartupOrder` |
| `Workqueue` | one CRD's queue, its enqueuers and worker pools |
| `Coordinator` | `Coordinate`, `retryMissingCRDs`, `dependencyHealthChecker` |
| `Autoscaler` | the autoscalers of successive activations of one CRD |
| `StagedTeardown` | abstract: in what order what a custom resource owns goes |
| `Lifecycle` | one custom resource through the reconcile pipeline; implements `StagedTeardown` |
| `Observe` | from a change in the cluster to the status it should lead to |
| `Failover` | replicas of the runtime: process manager, election, health |
| `Gateway` | replicas of the gateway and the objects they share |
| `MC…` | the instances that are checked |
| `…Proofs` | theorems and their proofs |

The modules meet where the code's parts do, each taking the other side at the
level it needs: `Coordinator` takes its start-up order from what
`DependencyGraphProofs` shows of `DependencyGraph`; `Observe` composes informers,
the retry loop, the pool of `Workqueue` (without payloads) and the status writes;
`Lifecycle` composes worker, pipeline, informer, API server and two admission
webhooks; `Failover` composes manager, election, coordinator and probes.

### DependencyGraph

`NewDependencyGraph` and `StartupOrder`. Names are numbers in their sorting
order; the sorted queue, which never holds a name twice, is a set whose least
member comes next. Go's random map iteration is a nondeterministic choice
(`AddNode` takes the CRDs in any order). `utils.Exit` is the control state
`exit`. Declarations are sets: the YAML forms of `dependsOn` all decode to a map.

### Workqueue

One CRD's queue. `Add`, `AddAfter`, `TimerFires` and `Done` are client-go
(external, from its contract as the code uses it). `Enqueue`, `StoreSentinels`
and `AddItem` are the three separately interleavable steps of an enqueue;
`SetQueueDepth` is the autoscaler's call. A worker moves through `top`, `get`,
`item`, `work`, `requeue`, `done` (or `drop`, when its context was cancelled after
the dequeue; or `again`, when it asked for the item to come back before its
`Done`). `WorkerFails` stands for all error returns of `processItemForGVK`,
which re-add the item with back-off; `WorkerForgets` for all returns that call
`Forget`. The pool part has the cancellation, drain items, drain time-out,
reactivation, loss of leadership and queue shutdown. A payload is the number of
the event it came with; the depth threshold, a float comparison in the code, is
exact integer arithmetic.

### Coordinator

`Coordinate`, `retryMissingCRDs` and `dependencyHealthChecker` as three processes
over shared state. A CRD's name stands for its GVK. A pool is `run`, `cancelled`
or `none`; when a new pool replaces one that has not ended the old workers are
`lingering`. The retry loop goes through its four phases one CRD at a time, so the
other processes act between any two of its iterations. `GetDependents` is
translated as written. `Signal` is the process manager's reaction to a signal: it
ends leadership and, as one of its components, shuts the queue registry down,
whose `Shutdown` ranges over a map (`RegistryShutdown`, a queue at a time, in any
order, while `Coordinate` stops them in its own). The start-up order is a constant with the
assumption `OrderAssumption`, which is what `DependencyGraphProofs` proves of
`StartupOrder`. The pending, degraded and gated flags, failure counters and the
log-only `missingChildGVKs` are left out.

### Autoscaler

Every activation has its own autoscaler, semaphore, worker pool and resync loop;
they share the queue's limit. The three calls of `applyOverride` and of
`restoreBaseline` are separate steps. Conditions are an environment variable that
changes at will; time is counted up to the cooldown, since nothing longer is told
apart. `calm` and `late` are history variables of the properties.
No code calls `Acquire` or `Release`, so only the semaphore's capacity is state.

### StagedTeardown and Lifecycle

`Lifecycle` is one custom resource (CR): the API server's copy, the informer's,
the worker's, the queue item with its delay, and the resources provisioned for it.
The worker goes through the phases of `processItemForGVK` in order (`WorkerStep`):
prepare, cleanup gate, finalizers, labels, then either the delete that cleanup
orders, or provisioning, or `handleDeletion` with its stages (submit, poll until
gone or deadline), the cluster-scoped resources and the removal of the finalizer,
and the post phase. Each step is one call to the API server; a call may fail, or
succeed with its answer lost (`Lost`). Whoever deletes passes the two admission
webhooks (deletion protection and strict mode). `Restart` loses everything but
the API server. `Aliased = FALSE` are CRDs with a `normalize` block, for which
`Prepare` hands out a copy; `Aliased = TRUE` are those without one, for which the
worker writes into the informer's own object (`Mutated`).
Time is counted in instants a `deleteAfter` is measured from: `elapsed` are those
that are a whole period ago.

`StagedTeardown` is the promise: what is left of a CR shrinks once its deletion
has begun, nothing is deleted whose predecessors still exist, and the CR goes
last. `PromiseKept` is the refinement; its mapping takes `life` from the server's
copy and the resources as they are.

### Observe

How a change becomes a reconcile, for the CRs of one CRD and the objects of one
kind it watches. `pend` is what the watch has still to deliver, and a broken
watch shortens it to its last version (`Relist`). Events carry no content: a
reconcile reads the CR from the cache and the watched objects from the server and
writes what it saw to the status. The history variable `owed` collects the CRs
one of whose events was lost, in one of the five ways that `LossAccounted` lists.
`restricted` are the keys and watched objects whose namespaces the catalog's rules
exclude. Keys may be resolved by owner or, without one, by broadcast; the
conditions of enqueue gates, sentinels, and observers of Kubernetes Events are
left out. A CR that is removed goes at once: its finalizers are `Lifecycle`'s.

### Failover

Per replica the process (`proc`, `left`), the goroutine in client-go's
`RunOrDie` (`elector`), the goroutine of `OnStartedLeading` (`run`), what the two
callbacks share (`session`), the contexts, the healthy flag and one worker
(`busy`). The election's own order (release the lease, cancel the context, call
`OnStoppedLeading`) is client-go's and external. `Tick` may pass only as far as
the deadlines of `leaseConfig` allow the leader (`OnTime`). A replica that has
lost the lease never campaigns again in the same process; `Unhealthy` and the
kubelet's probe restart it.

### Gateway

Per replica where its start-up or its housekeeper's pass stands (`pc`, `at`),
where its shutdown's clean-up stands (`clean`), the certificate it serves and the
one it remembers. Shared are the Secret, the configurations and the CRDs'
`caBundle`. One step is one API call. `stale` is optimistic locking: an `Update`
after somebody else's write is a conflict. A certificate is its identity. Any
number of configurations is a sequence (`Hooks`): admission, deletion, namespace
and strict-mode configurations differ only in their order and in the two cases
`Mutating` tells apart. Namespace labels and token Secrets are further idempotent
writes of a pass and are left out, as is the re-registration at `Start`, whose calls
are those of the first pass.

Every module has a type invariant `TypeOK`. The runs check it of `Workqueue` and
`Coordinator`; it is proved of those two and of `Autoscaler`, `Lifecycle`,
`Failover`, `Gateway` and `Observe`, and is part of the proved invariant of
`DependencyGraph`. `QueueConsistent` and `CountersExact` are strengthenings that
only the proofs use.

Definitions headed *Mutant of ...* are not part of the specifications: they are
faulty variants of the definition after them, each used to confirm that a
property can fail.

## Runs

Run a configuration with `tlc -config X.cfg MCModule`.

| Run | Configuration | What it shows |
|---|---|---|
| wq_steady | WorkqueueSteady | Two enqueuers, two workers, one key, three events of any kind, a limit that the autoscaler raises from 1 to 2: `NoOrphanedPayload`, `GateSeesOwnEvent`, and every event-aware payload reaches a gate, again after each failure (`PayloadsReachTheGate`) |
| wq_pool | WorkqueuePool | Two activations of two workers each on one queue, with retries, requeues, deactivation, drain time-outs, reactivation and loss of leadership: `OneWorkerPerItem`, `WorkKept`, and what a cancellation, a drain and a queue shutdown end (`CancelledWorkersStop`) |
| coord_safe | CoordinatorSafe | Three CRDs; the database and the application that depends on it come and go, at the same time too: `NoDoubleClose`, `OnlineMeansServing`, `StartsInOrder`, `NoSecondPool`, `Recovers` |
| coord_stop | CoordinatorStop | Leadership lost, or the process signalled, at any point of start-up, retry tick or ordered stop: `QueuesStopInOrder` until the signal, `LossEndsCoordinate` in every case |
| graph | DependencyGraph | All catalogs of four CRDs with at most two dependencies each: `Topological`, `Deterministic`, `Decides` |
| autoscaler | Autoscaler | Two activations whose autoscalers overlap: `BaselineInForce`, `PoolCoversCapacity`, `OneLateResync`, `CooldownRespected`, `OverridesEnd` |
| lifecycle | Lifecycle | Three stages, one conditional, a cluster-scoped resource, cleanup with a grace period, strict protection, lost answers, restarts: `NothingOrphaned`, `PromiseKept` (refinement), `GraceRecorded`, `DeletionCompletes`, `CleanupStarts` |
| observe | Observe | A CR and a watched object under every rule set, definitions removed and installed, broken watches, failures: `LossAccounted`, `RestrictedUntouched`, `Converges` |
| failover | Failover | Two replicas, crashes, evictions, network cuts: `LeaderHoldsLease`, `NoWorkAfterLoss`, `SomeoneCoordinates`, `SignalEnds` |
| gateway | Gateway | Two replicas, two configurations, drift, failures, rotation, clean shutdown: `ServesStored`, `Settles`, `HooksSettle`, `SecretReturns`, `Quiet` |
| lifecycle_orphan | LifecycleOrphan | violated: without a `normalize` block a failed finalizer patch leaves the finalizer in the cache only, and a CR goes without its clean-up |
| observe_fatal | ObserveFatal | violated: a watched kind that is installed while the runtime runs ends the process |

The two violated runs check a sentence of a comment in the code that the code
does not keep; `findings` quotes each.

### Bounds

* *Workqueue.* One key suffices for what is checked: items of different keys
  share only the queue order and the length. Two enqueuers and two workers give
  every race between pairs; three events allow one in hand, one queued and one
  arriving; a limit of 1 is then reached, and a limit of 2 (`DepthLimits`) admits
  what it had refused. `wq_pool` has two activations of two workers, so workers of
  one meet items and drains of the other, and of two blocked workers one is left in
  `Get` by the coalescing drain items (below). It has plain events only: payloads
  are the question of `wq_steady`.
* *Coordinator.* Three CRDs have a healthy and a started dependency. In `coord_safe`
  both ends of the healthy dependency are in `Flaky`: two flips are two absences
  that overlap, or the disappearance and return of one, and one transient error is
  placed everywhere. Both exceptions that the properties name occur: without
  `Forgotten` `OnlineMeansServing` and `Recovers` are violated in this run, and
  without `c \notin missing` `StartsInOrder` is. `coord_stop` is a CRD and its
  dependency with one flip, and a loss or a signal at any point.
* *DependencyGraph.* Four nodes contain self-loops, cycles of every length up to
  four, diamonds and disconnected parts; the proofs remove the bound.
* *Autoscaler.* Two activations and two overrides: an override of each, or two of
  one. A cooldown of one unit separates "running" from "over".
* *Lifecycle.* Three stages have a first, a conditional and a last one; one fault
  is placed at every call, two flips let the cleanup conditions come and go, one
  nudge is a resync or restart at any point. The proofs remove all four.
* *Observe.* One CR and one watched object without an owner: a broadcast. Two
  changes are a deletion and a creation under the same name, or a change of each
  object; one fault (a removed definition, a broken watch, a failed reconcile or
  patch) is placed everywhere, and what it leads to is unbounded. Two overlapping
  outages run into the forgotten CRD of the retry loop (below).
* *Failover.* Two replicas; times are in units of the retry period in the ratio of
  the defaults' order. Two faults are a crash or cut of each replica, or the cut
  and the crash of one.
* *Gateway.* Two replicas make every race between pairs; a validating and a
  mutating configuration are the two forms of registration. Two disturbances of
  any of nine kinds, in any order. Nine bundle names are one more than can be held
  at once: two replicas (files and memory), the Secret, the CRDs and two
  configurations are eight places. `BundlesAssumption` states this for any
  instance, and stands for the code's fresh key never being an old one.

Deadlock checking is off where the system may come to rest: queues whose event
budget is used up, a coordinator that has ended, a finished sort, a CR that is
gone, a CRD whose definition stays removed.

### Fairness

* *Workqueue:* weak fairness of every worker, every enqueuer, every delay, the
  drain loop and the shutdown that follows a loss of leadership: runnable
  goroutines run, reconciles return. None for events or for the drain time-out.
* *Coordinator:* weak fairness of `Coordinate`, of the retry loop (both wait only
  under time-outs) and of the check of each dependency (the ticker visits all).
  Nothing is assumed of worker exits, reconcile results or the cluster. The
  first retry tick comes after the start-up loop: the loop does not block and the
  interval is long beside it.
* *Autoscaler:* time passes and each `Run` goroutine keeps being scheduled.
* *DependencyGraph:* none; only safety is checked.
* *Lifecycle:* the worker, the informer, delays and time go on, and deleted
  resources go some time. A `deleteAfter` is taken to be longer than the informer
  lags (`Elapse`); faults are finitely many.
* *Observe:* informers, retry loop and workers run; `Take` is strongly fair because
  the queue is first in, first out, while a cancelled worker may take its head now
  and then; the primary informer resyncs (15 s by default); the kubelet starts a
  container that has exited. Changes and faults are finitely many, and nothing is
  assumed of them.
* *Failover:* goroutines run, time passes, cut connections heal, the kubelet starts
  containers and acts on failed probes. No deadline need ever pass.
* *Gateway:* the kubelet restarts what has ended, goroutines run, calls are
  answered, the safety ticker ticks. A watch event need not arrive.

## Proofs

All theorems are for every value of the constants that satisfies the named
assumptions of the modules. Every invariant and every action property of the
passing runs is the conclusion of one of them; each inductive invariant was
model-checked on the instance of a run before it was proved.

* `WorkqueueProofs`. `TypeCorrect`: `TypeOK` is inductive.
  `QueueSafe`: `QueueConsistent` and `OneWorkerPerItem`. Neither is
  inductive alone: that a `Get` hands out an item nobody holds follows from
  "queued = dirty and not processing" and "processing = in some worker's hands",
  and a reactivation must find its workers unused (`LaterOff`). The invariant is
  the conjunction of the four; `AddConsistent`, `GetConsistent` and
  `DoneConsistent` are the three operations on the client-go queue, and
  `QuietStep` the rest.
  `NothingDropped` (`WorkKept`) needs that a worker gives an item up only when its
  context was cancelled (`DropCancelled`), and that what a worker has asked to come
  back is due again or waiting for its delay until the queue is shut down
  (`ComesBack`). `PayloadsBelong` (`NoOrphanedPayload`)
  adds that a worker about to call `Done` has released its payload or put the item
  back (`Settled`) and that queues are shut down after the cancellation only
  (`ShutLast`). `GateIsExact` (`GateSeesOwnEvent`) counts: an event-aware item is
  in one place at a time, on its way in, due, or in one worker's hands
  (`OneToken`, `OneHolder`), so nobody else's `Forget` can wipe its payload. It has
  the hypothesis `~MayRequeue`, under which `wq_steady` checks the property: a
  requeue after `Forget` runs without its payload (see the disagreements below).
* `DependencyGraphProofs`. `OrderIsTopological`, `OrderIsDeterministic`,
  `OrderDecides`. The invariant adds to `CountersExact` that the order's length
  counts its members (`Counted`) and that no set of CRDs that wait for each other
  has a member in the order (`NoneWaiting`). From it, a sort that stops short has
  its unordered CRDs as such a set (`StuckIsCyclic`), and one that ends complete
  excludes them. `OrderSuitsCoordinate` puts the three together in the form
  `Coordinator` assumes (`OrderAssumption`): every CRD once, dependencies first.
* `AutoscalerProofs`. `TypeCorrect`, `BaselineRestored`, `PoolCovers`,
  `CooldownHolds`, `LateOnce`. `BaselineInForce` needs to know who may have moved
  what: `DepthOwned` (a limit that differs from the baseline has an autoscaler that
  will still restore it), `OwnBaseline` (capacity and interval differ only during an
  override or its application), `ClockBehind` (the cooldown clock never runs ahead
  of the time since the conditions were last seen met) and `Fresh` (activations
  that have not begun are untouched). `OneLateResync` becomes inductive with
  `LateSpent`: after a late resync the interval is 0 and the loop is no longer armed
  with the old one, so it reads the new value before it can fire again.
* `CoordinatorProofs`. For every catalog whose order satisfies `OrderAssumption`:
  `TypeCorrect`, `ClosedOnce`, `OnePool`, `StopsInOrder`. The invariant says
  that nobody starts the CRDs ahead of the start-up loop (`BootAlone`), that every
  closed health channel was signalled (`Signals`), that workers, health and gates
  are only of started CRDs (`StartedFirst`), that what is recorded as missing
  has no live workers (`MissingIdle`), that phase 2 of the retry loop starts only
  CRDs in the missing map (`RecoverTodo`) and that, until a signal, the queues shut
  down are a tail of the order (`StopExact`). `NoBackEdge` is the fact behind
  `ClosedOnce`: `activateCRD` would close health channels that the checker closes
  too, but what it takes for the dependents of a CRD are its dependencies, and in
  an acyclic catalog none of them depends back on it.
  `StartsAfterDependencies` (`StartsInOrder`) and `OnlineIsServing`
  (`OnlineMeansServing`) have no hypothesis on the catalog or on who may be absent:
  any CRDs may vanish and return together. What the code does not keep is an
  exception the properties themselves name (see the disagreements below). For the
  second, `Accounted` says that a CRD that was started is served or its entry is
  marked missing, and `Readiness` that online means all started and an empty
  missing map.
* `LifecycleProofs`. For any stages, conditional or not, any cluster-scoped
  resources and any number of faults, flips and nudges: `TypeCorrect`,
  `FinalizerGuarantee` (`NothingOrphaned`), `Refinement` (`PromiseKept`) and
  `GraceRespected` (`GraceRecorded`). The last three need `~Aliased`: with aliasing
  `NothingOrphaned` fails, as `lifecycle_orphan` shows, and so does `GraceRecorded`,
  because a failed stamp patch leaves the stamp in the cache only. Their invariant is
  about three copies of one object: what the cache and the worker believe of the
  finalizer is true of the server (`Truthful`), a CR on its way through
  provisioning is held by our finalizer (`Holding`), the server's own record is
  consistent (`Stored`), and the stages below the current one are empty
  (`Teardown`). `CopiesStay` is the step that needs most: no write of the server
  makes an older copy false in what the pipeline relies on. The refinement follows
  action by action; only `SubmitStage` and `DeleteClusterScoped` are steps of the
  promise that delete, and their guards are `Teardown`. For the grace period,
  `Recorded` says that the stamp a cached or held copy shows is never later than the
  server's, and `Triggered` that a worker on its way to cleanup's delete read a stamp
  that was due and still holds it; the patch of the labels in between keeps it
  (`LabelsKeepStamp`).
* `FailoverProofs`. For any number of replicas, components and faults and any
  deadlines in the order `leaseConfig` demands: `TypeCorrect`, `LeaseHeld`
  (`LeaderHoldsLease`) and `WorkEndsWithTheLease` (`NoWorkAfterLoss`). That a leader
  holds the lease is inductive together with the age of its last renewal, which
  never exceeds the renew deadline (`LeaderInTime`): a follower takes a lease only
  when it is older than `LeaseDuration`, and that is longer. The second one rests on
  `SessionBound`: the goroutine of `OnStartedLeading` works under a context that
  the election has cancelled by the time it calls `OnStoppedLeading`, also when
  that callback runs first and finds nothing to cancel.
* `GatewayProofs`. For any number of replicas, configurations and disturbances:
  `TypeCorrect` and `OneCertificate` (`ServesStored`). A new bundle always exists
  (`NewBundleIsNew`, by counting the places that hold one against
  `BundlesAssumption`). The invariant `OneBundle` is about every replica past
  `EnsureCertificate`, also one that is between two calls: while the Secret is
  left alone there is one, and it is what each of them serves and remembers. The
  step that matters is the `Create`, which succeeds for one replica only.
* `ObserveProofs`. For any keys, watched objects, workers and bounds:
  `TypeCorrect`, `RestrictedNeverWritten` (`RestrictedUntouched`) and
  `NoChangeUnaccounted` (`LossAccounted`). The types need counting: generations
  grow by changes only, slots are free or hold a reader, and every worker that
  lingers after a deactivation is paid for by a removed definition (`PoolType`).
  Restricted CRs have no worker past the guard of `Prepare` (`HandsOff`).
  `LossAccounted` becomes inductive with three parts: an informer that was never
  started has an empty cache (`Unstarted`); what the watch has still to deliver
  ends in what the server has (`Linked`); and of a CR about which nothing is
  queued, unread or owed (`Tended`), a worker that holds it has read what the cache
  and the cluster have now, and a status that was written is what the next reconcile
  would write (`InStep`, `Expected`). The last part is where a status patch that
  races a change of the spec must be excluded: the change is then in `pend`.
  `ValuesAssumption` says only that there is a spec to write and that the values
  for "absent" and "tombstone" are not CRs.

Only model-checked: the liveness properties (`PayloadsReachTheGate`,
`CancelledWorkersStop`, `LossEndsCoordinate`, `Recovers`, `OverridesEnd`,
`DeletionCompletes`, `CleanupStarts`, `Settles`, `HooksSettle`, `SecretReturns`,
`Quiet`, `SomeoneCoordinates`, `SignalEnds`, `Converges`), because liveness under
fairness is beyond the prover used.

## Disagreements without a run of their own

Seen while modelling; each one marked *confirmed* was shown by a model-checker run
that is not kept.

* Queue: the `Forget` of a run wipes the payload that a newer, coalesced event has
  stored meanwhile (`queue.go:120` against `informer/enqueue.go:239`, "Sentinel
  context is retained when present"; confirmed). Drain items are equal and
  coalesce, so of two blocked workers one stays in `Get` (`post_start_hooks.go:358`
  against 352, "to unblock any worker"; confirmed; `CancelledWorkersStop` promises
  one worker per drain). A requeue after `Forget` runs
  without its payload (`worker.go:238` against `queue.go:104`). A worker cancelled
  after its dequeue gives the item up (`worker.go:85` against the comment at 97,
  "The queue is intact for reactivation"; `WorkKept` names it). A limit without a declared behaviour
  still drops (`helper.go:56` against `types.go:215`). `SetQueueDepth(0)` drops
  everything, "0 means unlimited" (`queue.go:203`, 125). A behaviour with
  conditions dereferences a nil pointer (`helper.go:46`).
* Coordinator, each confirmed: `SetMissingOnStartup` replaces the missing map, so a
  second CRD that vanishes makes the loop forget the first for good
  (`post_start_hooks.go:81` against 16), and the catalog is then reported online
  while one is deactivated (208); both are `Forgotten` in the properties; `GetDependents` returns the CRDs a CRD depends on
  (`dependencies.go:174` against 169), so dependents are not degraded
  (`post_start_hooks.go:95`); phase 2 activates without asking for dependencies
  (143, against `coordinator.go:24`; the exception of `StartsInOrder`); on a signal
  the queue registry shuts the queues down in map order (`queue/registry.go:99`
  against `coordinator.go:24`; the exception of `QueuesStopInOrder`); gates stay open when a dependency disappears
  (`coordinator.go:247`); all pools are cancelled at once at shutdown, only the
  queues are stopped in order (`start.go:24`); a dependency counts as started after
  its workers stopped (`runtime_dependency_checker.go:124`); a late success marks a
  missing CRD healthy again (`post_start_hooks.go:87`).
* Autoscaler: goroutines an override added stay after the baseline is restored
  (`crd_runtime.go:31` against `autoscale_semaphore.go:98`, "The effective
  concurrency converges"; confirmed). A cancelled activation's late restore
  overwrites the limit of its successor's override (confirmed; `BaselineInForce` is
  stated so that it holds nevertheless). A restore on cancellation may add to a
  wait group that was already waited for (`start.go:78`). `Acquire` and `Release`
  have no caller, though `autoscale_semaphore.go:5` describes workers that do. A
  queue depth override has no effect on a CRD that declares no depth.
* Lifecycle: with cleanup conditions that stay met the CR is condemned and never
  goes: the cleanup gate keeps the worker from `handleDeletion`, the only code that
  removes the finalizer (`worker.go:202` against `types_runtime_config.go:32`;
  confirmed). The pending annotation is cleared by a merge patch that cannot remove
  a key, so the grace period does not restart (`cleanup.go:43` against 38, "so the
  clock resets"; confirmed; `GraceRecorded` therefore counts from a stamp that may
  be older than the last time the conditions were found met). A worker held up
  between reading the CR and the gate may stamp once more; the first stamp's period
  counts.
* Observe: `StoreFor` answers from the stopped informer of the first activation,
  the first registration of a kind wins (`factory.go:66`). The tombstone of a
  missed deletion is dropped (`pkg/utils/gvk.go:30`). Adds and deletes do not pass
  the enqueue gates that the comment of `handleEvent` names (`event.go:15`). The
  informer's namespace filter and the guard of `Prepare` differ in pattern matching
  and in which list wins (`namespace_filter.go:53`). The value of a
  `keyFrom.label` cannot contain a slash, so it never names a namespaced CR
  (`observe/resolve.go:34`).
* Failover: the lease is released before the workers have stopped, so two replicas
  may reconcile at once for as long as a reconcile that had begun takes
  (`leader.go:1-3`, "only one runtime pod reconciles at a time"; confirmed). The
  coordinator's drain is not waited for by the shutdown (confirmed). An
  `OnStartedLeading` that runs after `OnStoppedLeading` leaves the leader name and
  `runCancel` set ("reset to always reflect current leadership session only",
  `leader.go:198`; confirmed); it does no work, its context being cancelled.
* Gateway, each confirmed unless noted: replicas with different bundles patch the
  CRDs' `caBundle` back and forth for ever, each patch waking the other
  (`infrastructure.go:176` against 21-23); after a rotation the CRDs trust a CA
  whose certificate no running replica serves, until a restart; a replica that did
  not rotate restores the bundle from before the rotation (`housekeeper.go:317`);
  a pass under way during `Shutdown` creates again what the clean-up deleted. Not
  modelled: the comparison of an existing configuration with the desired one sees the
  fields the server defaulted, so that an `Update` may be issued that changes nothing
  (`registration.go:554`); `EnsureCertificate` adopts an expired certificate; the comment on the
  watchers says "DELETED or MODIFIED", only DELETED reacts.

## Not modelled

* In the modelled parts: the conditions of enqueue gates, queue behaviours,
  sentinels, reconcile gates and cleanup blocks (templates over the whole object;
  the models take their answers from the environment); Go hooks and unordered
  `onDelete` jobs; forced cleanup and surface cleanup; re-creation under the same
  name in `Lifecycle`; the status atomics that only pages read; cron windows and
  metric sampling.
* Left out as a whole, most of the repository's lines: the command line and its
  test-suite and simulation tools, the console, the development tools and the
  generated registries are one-shot programs or presentation; `pkg/types`,
  `pkg/config` and `domain` are declarations and accessors; `pkg/template`,
  `pkg/note` and `pkg/resources` compute texts and typed Kubernetes objects from a
  CR, where a faithful model would be the code again; catalog loading, merging and
  module expansion are sequential file and network I/O at start-up; OIDC and
  certificate generation are cryptography. None has concurrent state, and their
  results enter the models as choices of the environment. `components` gives the
  reason for each. The modelled share of the lines is small for that reason: the
  control of the runtime is a few thousand of them.

Next: as a theorem, what a cancelled activation may still do to the queue it shares
with its successor.
