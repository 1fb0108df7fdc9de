---------------------------- MODULE Coordinator ----------------------------
(***************************************************************************)
(* The dependency coordinator (pkg/runtime/coordinator): Coordinate starts *)
(* the CRDs of the catalog in dependency order and, when leadership is     *)
(* lost, stops them in reverse order; retryMissingCRDs deactivates CRDs    *)
(* that disappear from the cluster and activates those that appear or were *)
(* deferred; dependencyHealthChecker evaluates dependencies and opens the  *)
(* "healthy" gates.  The three are goroutines of one process and share the *)
(* informer factory's missing map, the start and health channels, the pool *)
(* tables and the CRDs' health.  What a worker pool does with its queue is *)
(* module Workqueue; here a pool is running, cancelled or gone.            *)
(***************************************************************************)
EXTENDS Naturals, Sequences, FiniteSets

CONSTANTS
    CRDs,         \* enabled CRDs; a name stands for its GVK as well
    DependsOn,    \* DependsOn[c]: the CRDs c declares in dependsOn
    HealthyDeps,  \* pairs <<c, d>>: c depends on d with condition healthy
    StartupOrder, \* the order module DependencyGraph computes
    Flaky,        \* CRDs that may be absent from the cluster
    MaxFlips,     \* bound: CRDs installed in or removed from the cluster
    MaxErrors,    \* bound: transient errors of crdExists
    MayLose       \* TRUE iff leadership may be lost

ASSUME GraphAssumption ==
    /\ DependsOn \in [CRDs -> SUBSET CRDs]
    /\ HealthyDeps \subseteq {p \in CRDs \X CRDs : p[2] \in DependsOn[p[1]]}
ASSUME OrderAssumption ==
    /\ StartupOrder \in Seq(CRDs)
    /\ \A c \in CRDs : \E i \in 1 .. Len(StartupOrder) : StartupOrder[i] = c
    /\ \A i, j \in 1 .. Len(StartupOrder) :
          /\ StartupOrder[i] = StartupOrder[j] => i = j
          /\ StartupOrder[j] \in DependsOn[StartupOrder[i]] => j < i
ASSUME BoundsAssumption == MaxFlips \in Nat /\ MaxErrors \in Nat
ASSUME FlakyAssumption == Flaky \subseteq CRDs /\ MayLose \in BOOLEAN

VARIABLES
    exists, flips, errors,  \* the cluster: CRDs installed; budgets used
    missing,                \* Factory.missing
    entryMissing,           \* entries of the factory with Missing set
    neverStarted,           \* entries with WasNeverStarted: informer not run
    started,                \* Controller.started, CRDHealth.started
    pool,                   \* per CRD: "none", "run" or "cancelled" workers
    lingering,              \* CRDs with workers of a replaced pool left
    deactivated,            \* Controller.deactivated
    queueDown,              \* CRDs whose queue is shut down
    startedCh, healthyCh,   \* closed channels
    panicked,               \* a closed channel was closed again
    signaled,               \* CRDHealth.healthySignaled
    healthy,                \* CRDHealth.healthy
    unsatisfied,            \* <<c, d>>: c's dependency status of d is unmet
    online,                 \* allOnline, and the catalog's readiness with it
    coord, idx,             \* Coordinate: control, position in the order
    lost,                   \* the leadership context is cancelled
    terminating,            \* the process has received a signal to end
    leading,                \* RuntimeHealth: ready and leader
    checking,               \* dependencyHealthChecker has not returned
    phase,                  \* control of retryMissingCRDs
    todo, at,               \* what is left of the phase's loop
    runtimeMissing, stillMissing, \* the tick's local maps
    draining                \* the CRD deactivateCRD waits for

cluster == <<exists, flips, errors>>
factory == <<missing, entryMissing, neverStarted>>
pools == <<started, pool, lingering, deactivated, queueDown>>
channels == <<startedCh, healthyCh, panicked>>
vitals == <<signaled, healthy, unsatisfied, online>>
coordinate == <<coord, idx, lost, terminating, leading, checking>>
retry == <<phase, todo, at, runtimeMissing, stillMissing, draining>>
vars == <<cluster, factory, pools, channels, vitals, coordinate, retry>>

(* The factory checked every CRD when it created its informer and ran the  *)
(* informers of those it found; Coordinate has made the channels and       *)
(* started its two goroutines.                                             *)
Init ==
    /\ missing \in SUBSET Flaky
    /\ entryMissing = missing /\ neverStarted = missing
    /\ exists = CRDs \ missing /\ flips = 0 /\ errors = 0
    /\ started = {} /\ pool = [c \in CRDs |-> "none"] /\ lingering = {}
    /\ deactivated = {} /\ queueDown = {}
    /\ startedCh = {} /\ healthyCh = {} /\ panicked = FALSE
    /\ signaled = {} /\ healthy = {} /\ unsatisfied = {} /\ online = FALSE
    /\ coord = "boot" /\ idx = 1 /\ lost = FALSE /\ leading = TRUE
    /\ terminating = FALSE /\ checking = TRUE
    /\ phase = "wait" /\ todo = {} /\ at = 1
    /\ runtimeMissing = {} /\ stillMissing = {} /\ draining = {}

-----------------------------------------------------------------------------
(* The cluster: an administrator installs or removes a CRD.                *)
Flip(c) ==
    /\ c \in Flaky /\ flips < MaxFlips
    /\ flips' = flips + 1
    /\ exists' = IF c \in exists THEN exists \ {c} ELSE exists \cup {c}
    /\ UNCHANGED <<errors, factory, pools, channels, vitals, coordinate, retry>>

-----------------------------------------------------------------------------
(***************************************************************************)
(* Starting and stopping the workers of one CRD                            *)
(***************************************************************************)
(* Mutant of DependenciesReady: one satisfied dependency is enough. *)
DependenciesReadyAny(c) ==
    \/ DependsOn[c] = {}
    \/ \E d \in DependsOn[c] :
          IF <<c, d>> \in HealthyDeps THEN d \in healthyCh ELSE d \in startedCh

(* dependenciesReady: every required channel is closed.                    *)
DependenciesReady(c) ==
    \A d \in DependsOn[c] :
        IF <<c, d>> \in HealthyDeps THEN d \in healthyCh ELSE d \in startedCh

(* startCRDWorkers: a new context under the leadership context, a new wait *)
(* group and fresh workers.  The tables forget the pool they replace.      *)
StartCRDWorkers(c) ==
    /\ pool' = [pool EXCEPT ![c] = IF lost THEN "cancelled" ELSE "run"]
    /\ lingering' = IF pool[c] = "none" THEN lingering ELSE lingering \cup {c}
    /\ started' = started \cup {c}

Cancel(S) ==
    [c \in CRDs |-> IF c \in S /\ pool[c] = "run" THEN "cancelled" ELSE pool[c]]

(* The last worker of a cancelled pool returns.                            *)
WorkersExit(c) ==
    /\ pool[c] = "cancelled"
    /\ pool' = [pool EXCEPT ![c] = "none"]
    /\ UNCHANGED <<cluster, factory, started, lingering, deactivated, queueDown,
                   channels, vitals, coordinate, retry>>

LingeringExit(c) ==
    /\ c \in lingering
    /\ lingering' = lingering \ {c}
    /\ UNCHANGED <<cluster, factory, started, pool, deactivated, queueDown,
                   channels, vitals, coordinate, retry>>

(* A worker, also one that has been cancelled, records the outcome of the  *)
(* reconcile it has in hand: a success, or the failure that reaches the    *)
(* degrade threshold.                                                      *)
WorkerRecords(c) ==
    /\ pool[c] # "none" \/ c \in lingering
    /\ healthy' \in {healthy \cup {c}, healthy \ {c}}
    /\ UNCHANGED <<cluster, factory, pools, channels, signaled, unsatisfied,
                   online, coordinate, retry>>

-----------------------------------------------------------------------------
(***************************************************************************)
(* Coordinate                                                              *)
(***************************************************************************)
(* One round of the start-up loop: a CRD whose dependencies are not ready  *)
(* or that is missing is left to the retry loop.                           *)
BootStep ==
    LET c == StartupOrder[idx]
    IN  /\ coord = "boot" /\ idx <= Len(StartupOrder)
        /\ idx' = idx + 1
        /\ IF DependenciesReady(c) /\ c \notin missing
           THEN /\ StartCRDWorkers(c)
                /\ startedCh' = startedCh \cup {c}
                /\ panicked' = (panicked \/ c \in startedCh)
           ELSE UNCHANGED <<started, pool, lingering, startedCh, panicked>>
        /\ UNCHANGED <<cluster, factory, deactivated, queueDown, healthyCh,
                       vitals, coord, lost, terminating, leading, checking,
                       retry>>

(* The loop is over; the catalog is online if every CRD was started.       *)
BootDone ==
    /\ coord = "boot" /\ idx > Len(StartupOrder)
    /\ coord' = "lead"
    /\ online' = (started = CRDs)
    /\ UNCHANGED <<cluster, factory, pools, channels, signaled, healthy,
                   unsatisfied, idx, lost, terminating, leading, checking, retry>>

(* The leader election cancels the context, and every pool's with it.      *)
LoseLeadership ==
    /\ MayLose /\ ~lost
    /\ lost' = TRUE
    /\ pool' = Cancel(CRDs)
    /\ UNCHANGED <<cluster, factory, started, lingering, deactivated, queueDown,
                   channels, vitals, coord, idx, terminating, leading, checking,
                   retry>>

(* A signal: gracefulShutdown cancels the process's context, which the     *)
(* election's and every pool's are derived from ...                        *)
Signal ==
    /\ MayLose /\ ~terminating
    /\ terminating' = TRUE /\ lost' = TRUE
    /\ pool' = Cancel(CRDs)
    /\ UNCHANGED <<cluster, factory, started, lingering, deactivated, queueDown,
                   channels, vitals, coord, idx, leading, checking, retry>>

(* ... and shuts the components down, the queue registry among them: it    *)
(* shuts every queue down in the order of a map, and does not wait for the *)
(* ordered shutdown Coordinate is in.                                      *)
RegistryShutdown(c) ==
    /\ terminating /\ c \notin queueDown
    /\ queueDown' = queueDown \cup {c}
    /\ UNCHANGED <<cluster, factory, started, pool, lingering, deactivated,
                   channels, vitals, coordinate, retry>>

StopBegins ==
    /\ coord = "lead" /\ lost
    /\ coord' = "stop" /\ idx' = Len(StartupOrder) /\ leading' = FALSE
    /\ UNCHANGED <<cluster, factory, pools, channels, vitals, lost, terminating,
                   checking, retry>>

(* Mutant of StopCRD: shuts down in start-up order. *)
StopCRDForwards ==
    LET c == StartupOrder[Len(StartupOrder) + 1 - idx]
    IN  /\ coord = "stop" /\ idx >= 1
        /\ pool' = Cancel({c})
        /\ queueDown' = queueDown \cup {c}
        /\ IF c \in started THEN coord' = "drain" /\ UNCHANGED idx
           ELSE idx' = idx - 1 /\ UNCHANGED coord
        /\ UNCHANGED <<cluster, factory, started, lingering, deactivated,
                       channels, vitals, lost, terminating, leading, checking,
                       retry>>

(* stopCRDWorkers for the next CRD of the reversed order: cancel, shut the *)
(* queue down and, if it ever had workers, wait for them.                  *)
StopCRD ==
    LET c == StartupOrder[idx]
    IN  /\ coord = "stop" /\ idx >= 1
        /\ pool' = Cancel({c})
        /\ queueDown' = queueDown \cup {c}
        /\ IF c \in started THEN coord' = "drain" /\ UNCHANGED idx
           ELSE idx' = idx - 1 /\ UNCHANGED coord
        /\ UNCHANGED <<cluster, factory, started, lingering, deactivated,
                       channels, vitals, lost, terminating, leading, checking,
                       retry>>

(* Mutant of StopWaitEnds: there is no drain timeout. *)
StopWaitEndsOnlyDrained ==
    /\ coord = "drain" /\ pool[StartupOrder[idx]] = "none"
    /\ coord' = "stop" /\ idx' = idx - 1
    /\ UNCHANGED <<cluster, factory, pools, channels, vitals, lost, terminating,
                   leading, checking, retry>>

(* The workers are gone, or the drain timeout is over.                     *)
StopWaitEnds ==
    /\ coord = "drain"
    /\ coord' = "stop" /\ idx' = idx - 1
    /\ UNCHANGED <<cluster, factory, pools, channels, vitals, lost, terminating,
                   leading, checking, retry>>

CoordinateReturns ==
    /\ coord = "stop" /\ idx = 0
    /\ coord' = "ended"
    /\ UNCHANGED <<cluster, factory, pools, channels, vitals, idx, lost,
                   terminating, leading, checking, retry>>

-----------------------------------------------------------------------------
(***************************************************************************)
(* dependencyHealthChecker                                                 *)
(***************************************************************************)
(* The status checkDependencyHealthForGVK computes for dependency d of c.  *)
Satisfied(c, d) == d \in healthy \/ (d \in started /\ <<c, d>> \notin HealthyDeps)

(* Mutant of CheckDependency: MarkHealthySignaled is not called. *)
CheckDependencyUnmarked(c, d) ==
    /\ checking /\ d \in DependsOn[c]
    /\ IF d \in healthy /\ d \notin signaled
       THEN /\ healthyCh' = healthyCh \cup {d}
            /\ panicked' = (panicked \/ d \in healthyCh)
            /\ UNCHANGED signaled
       ELSE UNCHANGED <<healthyCh, panicked, signaled>>
    /\ unsatisfied' = IF Satisfied(c, d) THEN unsatisfied \ {<<c, d>>}
                      ELSE unsatisfied \cup {<<c, d>>}
    /\ UNCHANGED <<cluster, factory, pools, startedCh, healthy, online,
                   coordinate, retry>>

(* One dependency is evaluated; the first time it is found healthy its     *)
(* channel is closed.  A pass visits all of them, in any order.            *)
CheckDependency(c, d) ==
    /\ checking /\ d \in DependsOn[c]
    /\ IF d \in healthy /\ d \notin signaled
       THEN /\ healthyCh' = healthyCh \cup {d}
            /\ panicked' = (panicked \/ d \in healthyCh)
            /\ signaled' = signaled \cup {d}
       ELSE UNCHANGED <<healthyCh, panicked, signaled>>
    /\ unsatisfied' = IF Satisfied(c, d) THEN unsatisfied \ {<<c, d>>}
                      ELSE unsatisfied \cup {<<c, d>>}
    /\ UNCHANGED <<cluster, factory, pools, startedCh, healthy, online,
                   coordinate, retry>>

CheckerReturns ==
    /\ checking /\ lost
    /\ checking' = FALSE
    /\ UNCHANGED <<cluster, factory, pools, channels, vitals, coord, idx, lost,
                   terminating, leading, retry>>

-----------------------------------------------------------------------------
(***************************************************************************)
(* retryMissingCRDs: detect, recover, activate the deferred, report        *)
(***************************************************************************)
(* GetDependents searches the adjacency lists for name: edges[d] holds the *)
(* CRDs that depend on d, so it returns the d that c depends on.           *)
Edges(d) == {c \in CRDs : d \in DependsOn[c]}
GetDependents(c) == {d \in CRDs : c \in Edges(d)}
RequiringHealthy(c) == {d \in GetDependents(c) : <<d, c>> \in HealthyDeps}

(* activateCRD: run the informer if it never ran, forget that the CRD was  *)
(* missing, start workers, open the gates that are still closed.           *)
ActivateCRD(c) ==
    /\ neverStarted' = neverStarted \ {c}
    /\ entryMissing' = entryMissing \ {c}
    /\ missing' = missing \ {c}
    /\ StartCRDWorkers(c)
    /\ deactivated' = deactivated \ {c}
    /\ startedCh' = startedCh \cup {c}
    /\ healthyCh' = healthyCh \cup (RequiringHealthy(c) \cap healthy)

(* A tick.  The interval is far longer than the start-up loop, which does  *)
(* not block, so no tick comes before that loop is over.                   *)
RetryTick ==
    /\ phase = "wait" /\ coord # "boot"
    /\ phase' = "detect" /\ todo' = CRDs /\ runtimeMissing' = {}
    /\ UNCHANGED <<cluster, factory, pools, channels, vitals, coordinate, at,
                   stillMissing, draining>>

(* crdExists fails with a transient error: nothing is known.               *)
TransientError ==
    /\ errors < MaxErrors
    /\ errors' = errors + 1

(* 1. A CRD known to be missing, found or unknown is passed over.          *)
DetectSkip(c) ==
    /\ phase = "detect" /\ c \in todo
    /\ \/ (c \in entryMissing \/ c \in exists) /\ UNCHANGED errors
       \/ c \notin entryMissing /\ TransientError
    /\ todo' = todo \ {c}
    /\ UNCHANGED <<exists, flips, factory, pools, channels, vitals, coordinate,
                   phase, at, runtimeMissing, stillMissing, draining>>

(* Mutant of DetectGone: the workers are not cancelled. *)
DetectGoneKeepingWorkers(c) ==
    /\ phase = "detect" /\ c \in todo \ entryMissing /\ c \notin exists
    /\ todo' = todo \ {c}
    /\ entryMissing' = entryMissing \cup {c}
    /\ runtimeMissing' = runtimeMissing \cup {c}
    /\ missing' = runtimeMissing \cup {c}
    /\ healthy' = healthy \ ({c} \cup RequiringHealthy(c))
    /\ online' = FALSE
    /\ UNCHANGED <<cluster, neverStarted, pools, channels, signaled, unsatisfied,
                   coordinate, phase, at, stillMissing, draining>>

(* 1. A CRD has disappeared: its entry is marked, the factory's missing    *)
(* map is replaced by this tick's map, health is degraded and the workers  *)
(* are cancelled and waited for.                                           *)
DetectGone(c) ==
    /\ phase = "detect" /\ c \in todo \ entryMissing /\ c \notin exists
    /\ todo' = todo \ {c}
    /\ entryMissing' = entryMissing \cup {c}
    /\ runtimeMissing' = runtimeMissing \cup {c}
    /\ missing' = runtimeMissing \cup {c}
    /\ healthy' = healthy \ ({c} \cup RequiringHealthy(c))
    /\ online' = FALSE
    /\ IF c \in deactivated THEN UNCHANGED <<pool, phase, draining>>
       ELSE /\ pool' = Cancel({c})
            /\ IF c \in started THEN phase' = "drain" /\ draining' = {c}
               ELSE UNCHANGED <<phase, draining>>
    /\ UNCHANGED <<cluster, neverStarted, started, lingering, deactivated,
                   queueDown, channels, signaled, unsatisfied, coordinate, at,
                   stillMissing>>

(* deactivateCRD returns: the workers are gone, or the timeout is over.    *)
DrainEnds ==
    /\ phase = "drain"
    /\ deactivated' \in {deactivated}
           \cup {deactivated \cup {c} : c \in {d \in draining : pool[d] = "none"}}
    /\ phase' = "detect" /\ draining' = {}
    /\ UNCHANGED <<cluster, factory, started, pool, lingering, queueDown,
                   channels, vitals, coordinate, todo, at, runtimeMissing,
                   stillMissing>>

(* 2. Take a copy of the missing map, or go on if there is nothing in it.  *)
DetectDone ==
    /\ phase = "detect" /\ todo = {}
    /\ phase' = IF missing = {} THEN "defer" ELSE "recover"
    /\ todo' = missing /\ stillMissing' = {} /\ at' = 1
    /\ UNCHANGED <<cluster, factory, pools, channels, vitals, coordinate,
                   runtimeMissing, draining>>

(* 2. A missing CRD is in the cluster again: activate it.                  *)
RecoverPresent(c) ==
    /\ phase = "recover" /\ c \in todo /\ c \in exists
    /\ todo' = todo \ {c}
    /\ ActivateCRD(c)
    /\ UNCHANGED <<cluster, queueDown, panicked, vitals, coordinate, phase, at,
                   runtimeMissing, stillMissing, draining>>

(* 2. It is still absent.                                                  *)
RecoverAbsent(c) ==
    /\ phase = "recover" /\ c \in todo /\ c \notin exists
    /\ todo' = todo \ {c}
    /\ stillMissing' = stillMissing \cup {c}
    /\ healthy' = healthy \ {c} /\ online' = FALSE
    /\ UNCHANGED <<cluster, factory, pools, channels, signaled, unsatisfied,
                   coordinate, phase, at, runtimeMissing, draining>>

(* 2. Unknown: keep it in the missing list and leave its health alone.     *)
RecoverUnknown(c) ==
    /\ phase = "recover" /\ c \in todo /\ TransientError
    /\ todo' = todo \ {c}
    /\ stillMissing' = stillMissing \cup {c}
    /\ UNCHANGED <<exists, flips, factory, pools, channels, vitals, coordinate,
                   phase, at, runtimeMissing, draining>>

RecoverDone ==
    /\ phase = "recover" /\ todo = {}
    /\ missing' = stillMissing
    /\ online' = (online /\ stillMissing = {})
    /\ phase' = "defer"
    /\ UNCHANGED <<cluster, entryMissing, neverStarted, pools, channels, signaled,
                   healthy, unsatisfied, coordinate, todo, at, runtimeMissing,
                   stillMissing, draining>>

(* Mutant of ActivateDeferred: the loop advances twice past a running CRD. *)
ActivateDeferredTwice ==
    LET c == StartupOrder[at]
    IN  /\ phase = "defer" /\ at <= Len(StartupOrder)
        /\ at' = IF c \in started THEN at + 2 ELSE at + 1
        /\ UNCHANGED <<cluster, factory, pools, channels, vitals, coordinate,
                       phase, todo, runtimeMissing, stillMissing, draining>>

(* Mutant of ActivateDeferred: never looks at deferred CRDs. *)
ActivateDeferredNever ==
    /\ phase = "defer" /\ at <= Len(StartupOrder)
    /\ at' = at + 1
    /\ UNCHANGED <<cluster, factory, pools, channels, vitals, coordinate, phase,
                   todo, runtimeMissing, stillMissing, draining>>

(* 3. In start-up order, activate what is neither started nor missing and  *)
(* has its dependencies ready.                                             *)
ActivateDeferred ==
    LET c == StartupOrder[at]
    IN  /\ phase = "defer" /\ at <= Len(StartupOrder)
        /\ at' = at + 1
        /\ IF c \notin started /\ c \notin missing /\ DependenciesReady(c)
           THEN ActivateCRD(c)
           ELSE UNCHANGED <<factory, started, pool, lingering, deactivated,
                            startedCh, healthyCh>>
        /\ UNCHANGED <<cluster, queueDown, panicked, vitals, coordinate, phase,
                       todo, runtimeMissing, stillMissing, draining>>

(* Mutant of Report: does not ask whether every CRD has started. *)
ReportUnlessMissing ==
    /\ phase = "defer" /\ at > Len(StartupOrder)
    /\ online' = (online \/ missing = {})
    /\ phase' = "wait"
    /\ UNCHANGED <<cluster, factory, pools, channels, signaled, healthy,
                   unsatisfied, coordinate, todo, at, runtimeMissing,
                   stillMissing, draining>>

(* 4. Nothing is missing and everything has started: the catalog is ready. *)
Report ==
    /\ phase = "defer" /\ at > Len(StartupOrder)
    /\ online' = (online \/ (missing = {} /\ started = CRDs))
    /\ phase' = "wait"
    /\ UNCHANGED <<cluster, factory, pools, channels, signaled, healthy,
                   unsatisfied, coordinate, todo, at, runtimeMissing,
                   stillMissing, draining>>

(* Between ticks the loop sees the end of the context.                     *)
RetryReturns ==
    /\ phase = "wait" /\ lost
    /\ phase' = "ended"
    /\ UNCHANGED <<cluster, factory, pools, channels, vitals, coordinate, todo,
                   at, runtimeMissing, stillMissing, draining>>

-----------------------------------------------------------------------------
Coordinate ==
    \/ BootStep \/ BootDone \/ StopBegins \/ StopCRD \/ StopWaitEnds
    \/ CoordinateReturns

RetryMissingCRDs ==
    \/ RetryTick \/ DrainEnds \/ DetectDone \/ RecoverDone
    \/ ActivateDeferred \/ Report \/ RetryReturns
    \/ \E c \in CRDs : \/ DetectSkip(c) \/ DetectGone(c) \/ RecoverPresent(c)
                       \/ RecoverAbsent(c) \/ RecoverUnknown(c)

DependencyHealthChecker ==
    \/ CheckerReturns
    \/ \E c, d \in CRDs : CheckDependency(c, d)

Environment ==
    \/ LoseLeadership \/ Signal
    \/ \E c \in CRDs : \/ Flip(c) \/ WorkersExit(c) \/ LingeringExit(c)
                       \/ WorkerRecords(c) \/ RegistryShutdown(c)

Next ==
    \/ Coordinate \/ RetryMissingCRDs \/ DependencyHealthChecker \/ Environment

Spec == Init /\ [][Next]_vars

(* The three goroutines are scheduled and their waits are bounded by       *)
(* timeouts; the checker's ticker comes round to every dependency.  Worker *)
(* exits, reconcile outcomes and the cluster promise nothing.              *)
Fairness ==
    /\ WF_vars(Coordinate) /\ WF_vars(RetryMissingCRDs)
    /\ \A c, d \in CRDs : WF_vars(CheckDependency(c, d))

FairSpec == Spec /\ Fairness

-----------------------------------------------------------------------------
(***************************************************************************)
(* Properties                                                              *)
(***************************************************************************)
TypeOK ==
    /\ exists \subseteq CRDs /\ flips \in 0 .. MaxFlips
    /\ errors \in 0 .. MaxErrors
    /\ missing \subseteq CRDs /\ entryMissing \subseteq CRDs
    /\ neverStarted \subseteq CRDs
    /\ started \subseteq CRDs /\ lingering \subseteq CRDs
    /\ deactivated \subseteq CRDs /\ queueDown \subseteq CRDs
    /\ pool \in [CRDs -> {"none", "run", "cancelled"}]
    /\ startedCh \subseteq CRDs /\ healthyCh \subseteq CRDs
    /\ signaled \subseteq CRDs /\ healthy \subseteq CRDs
    /\ unsatisfied \subseteq CRDs \X CRDs
    /\ {panicked, online, lost, terminating, leading, checking} \subseteq BOOLEAN
    /\ coord \in {"boot", "lead", "stop", "drain", "ended"}
    /\ idx \in 0 .. Len(StartupOrder) + 1 /\ at \in 1 .. Len(StartupOrder) + 1
    /\ phase \in {"wait", "detect", "drain", "recover", "defer", "ended"}
    /\ todo \subseteq CRDs /\ runtimeMissing \subseteq CRDs
    /\ stillMissing \subseteq CRDs /\ draining \subseteq CRDs

(* No channel is closed twice, whichever of the start-up loop, the retry   *)
(* loop and the health checker gets to it: a second close would panic the  *)
(* operator (coordinator.go close(startedCh), checker close(healthyCh)).   *)
NoDoubleClose == ~panicked

(* A CRD whose entry is marked missing, so that phase 1 passes it over,    *)
(* and that the replaced missing map no longer holds, so that phase 2 does *)
(* not look at it either: nothing brings it back once it had started.      *)
Forgotten(c) == c \in entryMissing \ missing

(* The catalog is reported online only while every CRD has live workers    *)
(* fed by a running informer, save those the retry loop has forgotten:     *)
(* final health of Coordinate, phases 1, 2 and 4 of the retry loop, until  *)
(* leadership is lost.                                                     *)
OnlineMeansServing ==
    online /\ ~lost =>
        \A c \in CRDs : Forgotten(c) \/ (pool[c] = "run" /\ c \notin neverStarted)

(* A CRD first starts after the CRDs it depends on, with the condition it  *)
(* declares on them met at least once, whether the start-up loop or phase  *)
(* 3 of the retry loop starts it and whatever comes and goes around it.    *)
(* The exception is a CRD in the factory's missing map: phase 2 activates  *)
(* it when it appears and does not ask for its dependencies.               *)
StartsInOrder ==
    [][\A c \in started' \ started : c \notin missing =>
          \A d \in DependsOn[c] :
              d \in started /\ (<<c, d>> \in HealthyDeps => d \in signaled)]_vars

(* Whoever starts workers for a CRD finds no live pool of it: two pools of *)
(* one CRD never run side by side.                                         *)
NoSecondPool ==
    [][\A c \in CRDs : c \in lingering' \ lingering => pool[c] = "cancelled"]_vars

(* Until the process is signalled to end, a CRD's queue is shut down only  *)
(* after the queues of its dependents, whenever leadership is lost.  After *)
(* a signal the queue registry shuts them down in no order.                *)
QueuesStopInOrder ==
    ~terminating => \A c \in queueDown : Edges(c) \subseteq queueDown

DependenciesFine(c) ==
    \A d \in DependsOn[c] :
        IF <<c, d>> \in HealthyDeps THEN d \in healthy ELSE d \in started

(* Once a CRD is in the cluster for good, is not forgotten, and its        *)
(* dependencies are what it declares (started, or healthy), its workers    *)
(* run for good, whether it was absent at startup, disappeared, or was     *)
(* deferred, as long as leadership is kept.                                *)
Recovers ==
    \A c \in CRDs :
        <>[](c \in exists /\ ~Forgotten(c) /\ DependenciesFine(c) /\ ~lost)
            => <>[](pool[c] = "run")

(* When leadership is lost Coordinate stops every queue and returns,       *)
(* however long workers take.                                              *)
LossEndsCoordinate == lost ~> (coord = "ended" /\ ~leading /\ queueDown = CRDs)
=============================================================================
