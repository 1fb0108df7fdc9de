----------------------------- MODULE Autoscaler -----------------------------
(***************************************************************************)
(* The autoscaler of one operatorBox (pkg/runtime/autoscaler) and what it  *)
(* controls through coordinatorTarget (pkg/runtime/coordinator): the       *)
(* worker pool and resync loop of its own activation, and the depth limit  *)
(* of the CRD's queue, which outlives activations.  Every activation of    *)
(* the CRD has an autoscaler goroutine of its own, which nobody waits for: *)
(* the one of a cancelled activation may still run beside its successor.   *)
(*                                                                         *)
(* What the conditions read (metrics, other CRDs, cron windows) is the     *)
(* environment: they are met or not at each evaluation.  No worker calls   *)
(* Acquire or Release, so of the semaphore only the capacity is state.     *)
(***************************************************************************)
EXTENDS Integers

CONSTANTS
    MaxGen,       \* bound: activations of the CRD
    MaxOverrides, \* bound: overrides applied
    BaseWorkers,  \* AutoscaleBaseline.Workers
    BaseDepth,    \* AutoscaleBaseline.MaxDepth
    DoWorkers,    \* do.workers, or Unset
    DoDepth,      \* do.queueDepth, or Unset
    DoResync,     \* do.resync, or Unset
    Cooldown      \* EffectiveCooldown, in units of time

Unset == -1

ASSUME BoundsAssumption == MaxGen \in Nat \ {0} /\ MaxOverrides \in Nat
ASSUME SpecAssumption ==
    /\ BaseWorkers \in Nat \ {0} /\ BaseDepth \in Nat /\ Cooldown \in Nat
    /\ {DoWorkers, DoDepth, DoResync} \subseteq Nat \cup {Unset}

Gen == 1 .. MaxGen
NoClock == -1      \* ConditionsFalseAt is the zero time

VARIABLES
    met,        \* the environment: the conditions hold
    depth,      \* the queue's limit, shared by all activations
    gen,        \* activations so far; the last is the current one
    cancelled,  \* activations whose context is cancelled
    pc,         \* per autoscaler: where Run stands
    stopping,   \* autoscalers on the ctx.Done branch of Run
    override,   \* autoscalers with OverrideActive
    falseFor,   \* per autoscaler: time since ConditionsFalseAt, or NoClock
    cap,        \* per activation: the semaphore's capacity
    workers,    \* per activation: worker goroutines in the wait group
    spawning,   \* per activation: spawnWorker goroutines not yet run
    resync,     \* per activation: resyncNs
    loop,       \* per activation: where the resync loop stands
    overrides,  \* overrides applied so far (for the bound)
    calm,       \* history: time since the conditions were last seen met
    late        \* history: resyncs fired since resyncNs was set to 0

control == <<gen, cancelled, pc, stopping>>
state == <<override, falseFor, overrides, calm>>
pool == <<cap, workers, spawning>>
resyncing == <<resync, loop, late>>
vars == <<met, depth, control, state, pool, resyncing>>

Init ==
    /\ met = FALSE /\ depth = BaseDepth
    /\ gen = 0 /\ cancelled = {} /\ stopping = {} /\ override = {}
    /\ pc = [a \in Gen |-> "none"]
    /\ falseFor = [a \in Gen |-> NoClock]
    /\ cap = [a \in Gen |-> BaseWorkers]
    /\ workers = [a \in Gen |-> 0] /\ spawning = [a \in Gen |-> 0]
    /\ resync = [a \in Gen |-> 0] /\ loop = [a \in Gen |-> "none"]
    /\ overrides = 0
    /\ calm = [a \in Gen |-> 0] /\ late = [a \in Gen |-> 0]

-----------------------------------------------------------------------------
(***************************************************************************)
(* The environment                                                         *)
(***************************************************************************)
(* The load changes, a window opens or closes.                             *)
ConditionsChange ==
    /\ met' = ~met
    /\ UNCHANGED <<depth, control, state, pool, resyncing>>

(* Time passes; nothing longer than the cooldown is told apart.            *)
Older(t) == IF t = NoClock \/ t = Cooldown THEN t ELSE t + 1
TimePasses ==
    /\ falseFor' = [a \in Gen |-> Older(falseFor[a])]
    /\ calm' = [a \in Gen |-> Older(calm[a])]
    /\ UNCHANGED <<met, depth, control, override, overrides, pool, resyncing>>

-----------------------------------------------------------------------------
(***************************************************************************)
(* Activations: startCRDWorkers with autoscale declared, and cancellation  *)
(***************************************************************************)
Activate ==
    LET a == gen + 1 IN
    /\ gen < MaxGen /\ (gen > 0 => gen \in cancelled)
    /\ gen' = a
    /\ pc' = [pc EXCEPT ![a] = "select"]
    /\ loop' = [loop EXCEPT ![a] = "load"]
    /\ workers' = [workers EXCEPT ![a] = BaseWorkers]
    /\ UNCHANGED <<met, depth, cancelled, stopping, state, cap, spawning,
                   resync, late>>

CancelActivation ==
    /\ gen > 0 /\ gen \notin cancelled
    /\ cancelled' = cancelled \cup {gen}
    /\ UNCHANGED <<met, depth, gen, pc, stopping, state, pool, resyncing>>

(* A spawnWorker goroutine joins the wait group and starts its worker.     *)
Spawn(a) ==
    /\ spawning[a] > 0
    /\ spawning' = [spawning EXCEPT ![a] = @ - 1]
    /\ workers' = [workers EXCEPT ![a] = @ + 1]
    /\ UNCHANGED <<met, depth, control, state, cap, resyncing>>

(* Workers leave their loop only when their context is cancelled.          *)
WorkerStops(a) ==
    /\ a \in cancelled /\ workers[a] > 0
    /\ workers' = [workers EXCEPT ![a] = @ - 1]
    /\ UNCHANGED <<met, depth, control, state, cap, spawning, resyncing>>

-----------------------------------------------------------------------------
(***************************************************************************)
(* coordinatorTarget                                                       *)
(***************************************************************************)
(* ResizableSemaphore.Resize: the capacity is at least 1 (nobody waits).   *)
Resize(n) == IF n < 1 THEN 1 ELSE n

(* Mutant of ResizeWorkers: one goroutine too few. *)
ResizeWorkersShort(a, n) ==
    /\ cap' = [cap EXCEPT ![a] = Resize(n)]
    /\ spawning' = [spawning EXCEPT
                      ![a] = @ + (IF n > cap[a] THEN n - cap[a] - 1 ELSE 0)]
    /\ UNCHANGED workers

(* ResizeWorkers: growing the capacity spawns goroutines, shrinking it     *)
(* stops none.                                                             *)
ResizeWorkers(a, n) ==
    /\ cap' = [cap EXCEPT ![a] = Resize(n)]
    /\ spawning' = [spawning EXCEPT
                      ![a] = @ + (IF n > cap[a] THEN n - cap[a] ELSE 0)]
    /\ UNCHANGED workers

(* startResyncLoop: the interval is read once per round.                   *)
ResyncLoads(a) ==
    /\ loop[a] = "load" /\ resync[a] # 0
    /\ loop' = [loop EXCEPT ![a] = "armed"]
    /\ UNCHANGED <<met, depth, control, state, pool, resync, late>>

(* Mutant of ResyncFires: the loop keeps the interval it read first. *)
ResyncFiresKeeping(a) ==
    /\ loop[a] = "armed"
    /\ late' = [late EXCEPT ![a] = IF resync[a] = 0 /\ @ < 2 THEN @ + 1 ELSE @]
    /\ UNCHANGED <<met, depth, control, state, pool, resync, loop>>

(* All objects of the informer are enqueued.                               *)
ResyncFires(a) ==
    /\ loop[a] = "armed"
    /\ loop' = [loop EXCEPT ![a] = "load"]
    /\ late' = [late EXCEPT ![a] = IF resync[a] = 0 /\ @ < 2 THEN @ + 1 ELSE @]
    /\ UNCHANGED <<met, depth, control, state, pool, resync>>

ResyncStops(a) ==
    /\ a \in cancelled /\ loop[a] \in {"load", "armed"}
    /\ loop' = [loop EXCEPT ![a] = "stopped"]
    /\ UNCHANGED <<met, depth, control, state, pool, resync, late>>
-----------------------------------------------------------------------------
(***************************************************************************)
(* Run: the goroutine stands at the select, or inside applyOverride or     *)
(* restoreBaseline, whose calls on the target are steps of their own.      *)
(***************************************************************************)
Goto(a, label) == pc' = [pc EXCEPT ![a] = label]

(* Mutant of EvaluateMet: the cooldown clock is not reset. *)
EvaluateMetKeepingClock(a) ==
    /\ pc[a] = "select" /\ met /\ a \in override
    /\ calm' = [calm EXCEPT ![a] = 0]
    /\ UNCHANGED <<met, depth, control, override, falseFor, overrides, pool,
                   resyncing>>

(* evaluate, conditions true and the override active.                      *)
EvaluateMet(a) ==
    /\ pc[a] = "select" /\ met /\ a \in override
    /\ falseFor' = [falseFor EXCEPT ![a] = NoClock]
    /\ calm' = [calm EXCEPT ![a] = 0]
    /\ UNCHANGED <<met, depth, control, override, overrides, pool, resyncing>>

(* evaluate, conditions true: applyOverride begins with the workers.       *)
ApplyWorkers(a) ==
    /\ pc[a] = "select" /\ met /\ a \notin override
    /\ overrides < MaxOverrides
    /\ overrides' = overrides + 1
    /\ calm' = [calm EXCEPT ![a] = 0]
    /\ Goto(a, "applyDepth")
    /\ IF DoWorkers = Unset THEN UNCHANGED pool ELSE ResizeWorkers(a, DoWorkers)
    /\ UNCHANGED <<met, depth, gen, cancelled, stopping, override, falseFor,
                   resyncing>>

ApplyDepth(a) ==
    /\ pc[a] = "applyDepth"
    /\ depth' = IF DoDepth = Unset THEN depth ELSE DoDepth
    /\ Goto(a, "applyResync")
    /\ UNCHANGED <<met, gen, cancelled, stopping, state, pool, resyncing>>

(* The last call, OverrideActive and the reset of the clock.               *)
ApplyResync(a) ==
    /\ pc[a] = "applyResync"
    /\ resync' = IF DoResync = Unset THEN resync
                 ELSE [resync EXCEPT ![a] = DoResync]
    /\ late' = [late EXCEPT ![a] = 0]
    /\ override' = override \cup {a}
    /\ falseFor' = [falseFor EXCEPT ![a] = NoClock]
    /\ Goto(a, "select")
    /\ UNCHANGED <<met, depth, gen, cancelled, stopping, overrides, calm, pool,
                   loop>>

(* evaluate, conditions false and the override active: the clock starts or *)
(* runs on; after the cooldown restoreBaseline begins with the workers.    *)
StartClock(a) ==
    IF falseFor[a] = NoClock THEN [falseFor EXCEPT ![a] = 0] ELSE falseFor

(* Mutant of Cool: the clock starts again at every evaluation. *)
CoolRestarting(a) ==
    /\ pc[a] = "select" /\ ~met /\ a \in override
    /\ falseFor' = [falseFor EXCEPT ![a] = 0]
    /\ Cooldown > 0
    /\ UNCHANGED <<met, depth, control, override, overrides, calm, pool,
                   resyncing>>

Cool(a) ==
    /\ pc[a] = "select" /\ ~met /\ a \in override
    /\ falseFor' = StartClock(a) /\ falseFor'[a] < Cooldown
    /\ UNCHANGED <<met, depth, control, override, overrides, calm, pool,
                   resyncing>>

RestoreWorkers(a) ==
    /\ pc[a] = "select" /\ ~met /\ a \in override
    /\ falseFor' = StartClock(a) /\ falseFor'[a] >= Cooldown
    /\ ResizeWorkers(a, BaseWorkers)
    /\ Goto(a, "restoreDepth")
    /\ UNCHANGED <<met, depth, gen, cancelled, stopping, override, overrides,
                   calm, resyncing>>

RestoreDepth(a) ==
    /\ pc[a] = "restoreDepth"
    /\ depth' = BaseDepth
    /\ Goto(a, "restoreResync")
    /\ UNCHANGED <<met, gen, cancelled, stopping, state, pool, resyncing>>

(* The last call and OverrideActive; Run returns when it was stopping.     *)
RestoreResync(a) ==
    /\ pc[a] = "restoreResync"
    /\ resync' = [resync EXCEPT ![a] = 0]
    /\ late' = [late EXCEPT ![a] = 0]
    /\ override' = override \ {a}
    /\ falseFor' = IF a \in stopping THEN falseFor
                   ELSE [falseFor EXCEPT ![a] = NoClock]
    /\ Goto(a, IF a \in stopping THEN "stopped" ELSE "select")
    /\ UNCHANGED <<met, depth, gen, cancelled, stopping, overrides, calm, pool,
                   loop>>

(* Mutant of StopRestoring: Run returns and leaves the override. *)
StopKeeping(a) ==
    /\ pc[a] = "select" /\ a \in cancelled /\ a \in override
    /\ Goto(a, "stopped")
    /\ override' = override \ {a}
    /\ UNCHANGED <<met, depth, gen, cancelled, stopping, falseFor, overrides,
                   calm, pool, resyncing>>

(* Run, ctx.Done: an active override is restored first.                    *)
StopRestoring(a) ==
    /\ pc[a] = "select" /\ a \in cancelled /\ a \in override
    /\ stopping' = stopping \cup {a}
    /\ ResizeWorkers(a, BaseWorkers)
    /\ Goto(a, "restoreDepth")
    /\ UNCHANGED <<met, depth, gen, cancelled, state, resyncing>>

Stop(a) ==
    /\ pc[a] = "select" /\ a \in cancelled /\ a \notin override
    /\ Goto(a, "stopped")
    /\ UNCHANGED <<met, depth, gen, cancelled, stopping, state, pool, resyncing>>

-----------------------------------------------------------------------------
Run(a) ==
    \/ EvaluateMet(a) \/ ApplyWorkers(a) \/ ApplyDepth(a) \/ ApplyResync(a)
    \/ Cool(a) \/ RestoreWorkers(a) \/ RestoreDepth(a) \/ RestoreResync(a)
    \/ StopRestoring(a) \/ Stop(a)
ResyncLoop(a) == ResyncLoads(a) \/ ResyncFires(a) \/ ResyncStops(a)
Next ==
    \/ ConditionsChange \/ TimePasses \/ Activate \/ CancelActivation
    \/ \E a \in Gen : Run(a) \/ ResyncLoop(a) \/ Spawn(a) \/ WorkerStops(a)

Spec == Init /\ [][Next]_vars

(* Time passes, the ticker keeps firing and a runnable goroutine runs.     *)
FairSpec ==
    /\ Spec /\ WF_vars(TimePasses)
    /\ \A a \in Gen : WF_vars(Run(a))

-----------------------------------------------------------------------------
(***************************************************************************)
(* Properties                                                              *)
(***************************************************************************)
Labels == {"none", "select", "applyDepth", "applyResync", "restoreDepth",
           "restoreResync", "stopped"}
Age == 0 .. Cooldown

ControlType ==
    /\ gen \in 0 .. MaxGen /\ cancelled \subseteq 1 .. gen
    /\ pc \in [Gen -> Labels] /\ stopping \subseteq cancelled
StateType ==
    /\ override \subseteq Gen /\ overrides \in 0 .. MaxOverrides
    /\ falseFor \in [Gen -> Age \cup {NoClock}] /\ calm \in [Gen -> Age]
PoolType ==
    /\ cap \in [Gen -> Nat \ {0}]
    /\ workers \in [Gen -> Nat] /\ spawning \in [Gen -> Nat]
ResyncType ==
    /\ resync \in [Gen -> Nat] /\ late \in [Gen -> 0 .. 2]
    /\ loop \in [Gen -> {"none", "load", "armed", "stopped"}]

(* Type correctness of the state of autoscaler.go, crd_runtime.go and the  *)
(* queue's limit.                                                          *)
TypeOK ==
    /\ met \in BOOLEAN /\ depth \in Nat
    /\ ControlType /\ StateType /\ PoolType /\ ResyncType

Settled(a) == a \notin override /\ pc[a] \in {"none", "select", "stopped"}

(* restoreBaseline leaves nothing of an override behind: whenever no       *)
(* autoscaler, current or of an earlier activation, has an override or is  *)
(* in the middle of applying or restoring one, the queue's limit is the    *)
(* declared one and every pool and resync loop is at its baseline.         *)
BaselineInForce ==
    (\A a \in Gen : Settled(a)) =>
        /\ depth = BaseDepth
        /\ \A a \in Gen : cap[a] = BaseWorkers /\ resync[a] = 0

(* evaluate holds an override for the cooldown: outside shutdown it is     *)
(* restored only when no evaluation of that long found the conditions met, *)
(* however they flapped.                                                   *)
CooldownRespected ==
    [][\A a \in Gen :
          pc[a] = "select" /\ pc'[a] = "restoreDepth" /\ a \notin stopping'
              => calm[a] = Cooldown]_vars

(* ResizeWorkers never leaves an activation with fewer goroutines, running *)
(* or about to, than the capacity it advertises, through any sequence of   *)
(* overrides and restores.                                                 *)
PoolCoversCapacity ==
    \A a \in Gen :
        pc[a] # "none" /\ a \notin cancelled
            => workers[a] + spawning[a] >= cap[a]

(* The resync loop may be asleep with an old interval when the baseline is *)
(* restored; it enqueues everything at most once more.                     *)
OneLateResync == \A a \in Gen : late[a] <= 1

(* Once the conditions stay false every override ends, of the current and  *)
(* of cancelled activations, and the queue keeps its declared limit.       *)
OverridesEnd ==
    <>[](~met) => <>[](override = {} /\ depth = BaseDepth)
=============================================================================
