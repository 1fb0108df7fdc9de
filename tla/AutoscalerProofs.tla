-------------------------- MODULE AutoscalerProofs --------------------------
(***************************************************************************)
(* Proofs about Autoscaler, for any number of activations and overrides    *)
(* and any declared baseline, override and cooldown.  The invariant says,  *)
(* next to the types,                                                      *)
(*  - who answers for a queue limit that is not the declared one: an       *)
(*    autoscaler that will store the declared one before it settles;       *)
(*  - where in restoreBaseline the pool and the resync loop are back;      *)
(*  - that the cooldown clock never runs ahead of the time since an        *)
(*    evaluation found the conditions met.                                 *)
(***************************************************************************)
EXTENDS Autoscaler, TLAPS

(* Activations that have not begun have no autoscaler. *)
Fresh ==
    \A a \in Gen : /\ a > gen => pc[a] = "none"
                   /\ pc[a] = "none" => a \notin override

(* A limit other than the declared one has an autoscaler that restores it. *)
DepthOwned ==
    depth # BaseDepth =>
        \E a \in Gen :
            \/ pc[a] = "applyResync"
            \/ a \in override /\ pc[a] \in {"select", "restoreDepth"}

(* An activation's own pool and resync loop are at their baseline unless   *)
(* its autoscaler has, or is applying, an override.                        *)
OwnBaseline ==
    \A a \in Gen :
        /\ Settled(a) => cap[a] = BaseWorkers /\ resync[a] = 0
        /\ pc[a] \in {"restoreDepth", "restoreResync"} => cap[a] = BaseWorkers

(* ConditionsFalseAt is the zero time without an override, and never older *)
(* than the last evaluation that found the conditions met.                 *)
ClockBehind ==
    \A a \in Gen :
        /\ a \notin override /\ pc[a] # "stopped" => falseFor[a] = NoClock
        /\ falseFor[a] # NoClock /\ pc[a] # "stopped" => falseFor[a] <= calm[a]

Inv ==
    /\ TypeOK /\ Fresh /\ DepthOwned /\ OwnBaseline /\ ClockBehind
    /\ PoolCoversCapacity

-----------------------------------------------------------------------------
(* Every step keeps the types: control, *)
LEMMA ControlStep ==
    ASSUME ControlType, [Next]_vars PROVE ControlType'
<1>1. CASE Activate
  BY <1>1, BoundsAssumption
  DEF Activate, control, state, pool, resyncing, ControlType, Gen, Labels
<1>2. CASE CancelActivation
  BY <1>2, BoundsAssumption
  DEF CancelActivation, control, state, pool, resyncing, ControlType, Gen,
      Labels
<1>3. ASSUME NEW a \in Gen, ApplyWorkers(a)
      PROVE  ControlType'
  BY <1>3, BoundsAssumption
  DEF ApplyWorkers, ResizeWorkers, Goto, control, state, pool, resyncing,
      ControlType, Gen, Labels
<1>4. ASSUME NEW a \in Gen, ApplyDepth(a)
      PROVE  ControlType'
  BY <1>4, BoundsAssumption
  DEF ApplyDepth, Goto, control, state, pool, resyncing, ControlType, Gen,
      Labels
<1>5. ASSUME NEW a \in Gen, ApplyResync(a)
      PROVE  ControlType'
  BY <1>5, BoundsAssumption
  DEF ApplyResync, Goto, control, state, pool, resyncing, ControlType, Gen,
      Labels
<1>6. ASSUME NEW a \in Gen, RestoreWorkers(a)
      PROVE  ControlType'
  BY <1>6, BoundsAssumption
  DEF RestoreWorkers, ResizeWorkers, Goto, StartClock, control, state, pool,
      resyncing, ControlType, Gen, Labels
<1>7. ASSUME NEW a \in Gen, RestoreDepth(a)
      PROVE  ControlType'
  BY <1>7, BoundsAssumption
  DEF RestoreDepth, Goto, control, state, pool, resyncing, ControlType, Gen,
      Labels
<1>8. ASSUME NEW a \in Gen, RestoreResync(a)
      PROVE  ControlType'
  BY <1>8, BoundsAssumption
  DEF RestoreResync, Goto, control, state, pool, resyncing, ControlType, Gen,
      Labels
<1>9. ASSUME NEW a \in Gen, StopRestoring(a)
      PROVE  ControlType'
  BY <1>9, BoundsAssumption
  DEF StopRestoring, ResizeWorkers, Goto, control, state, pool, resyncing,
      ControlType, Gen, Labels
<1>10. ASSUME NEW a \in Gen, Stop(a)
      PROVE  ControlType'
  BY <1>10, BoundsAssumption
  DEF Stop, Goto, control, state, pool, resyncing, ControlType, Gen, Labels
<1>11. CASE UNCHANGED <<gen, cancelled, pc, stopping>>
  BY <1>11 DEF ControlType, Gen, Labels
<1> QED
  BY <1>1, <1>2, <1>3, <1>4, <1>5, <1>6, <1>7, <1>8, <1>9, <1>10, <1>11
  DEF Next, Run, ResyncLoop, ConditionsChange, TimePasses, EvaluateMet, Cool,
      ResyncLoads, ResyncFires, ResyncStops, Spawn, WorkerStops, vars,
      control, state, pool, resyncing

(* the autoscalers' state, *)
LEMMA StateStep ==
    ASSUME StateType, [Next]_vars PROVE StateType'
<1>1. CASE TimePasses
  BY <1>1, BoundsAssumption, SpecAssumption
  DEF TimePasses, Older, Age, control, state, pool, resyncing, StateType, Gen,
      Age, NoClock
<1>2. ASSUME NEW a \in Gen, EvaluateMet(a)
      PROVE  StateType'
  BY <1>2, BoundsAssumption, SpecAssumption
  DEF EvaluateMet, control, state, pool, resyncing, StateType, Gen, Age,
      NoClock
<1>3. ASSUME NEW a \in Gen, ApplyWorkers(a)
      PROVE  StateType'
  BY <1>3, BoundsAssumption, SpecAssumption
  DEF ApplyWorkers, ResizeWorkers, Goto, control, state, pool, resyncing,
      StateType, Gen, Age, NoClock
<1>4. ASSUME NEW a \in Gen, ApplyResync(a)
      PROVE  StateType'
  BY <1>4, BoundsAssumption, SpecAssumption
  DEF ApplyResync, Goto, control, state, pool, resyncing, StateType, Gen, Age,
      NoClock
<1>5. ASSUME NEW a \in Gen, Cool(a)
      PROVE  StateType'
  BY <1>5, BoundsAssumption, SpecAssumption
  DEF Cool, StartClock, control, state, pool, resyncing, StateType, Gen, Age,
      NoClock
<1>6. ASSUME NEW a \in Gen, RestoreWorkers(a)
      PROVE  StateType'
  BY <1>6, BoundsAssumption, SpecAssumption
  DEF RestoreWorkers, ResizeWorkers, Goto, StartClock, control, state, pool,
      resyncing, StateType, Gen, Age, NoClock
<1>7. ASSUME NEW a \in Gen, RestoreResync(a)
      PROVE  StateType'
  BY <1>7, BoundsAssumption, SpecAssumption
  DEF RestoreResync, Goto, control, state, pool, resyncing, StateType, Gen,
      Age, NoClock
<1>8. CASE UNCHANGED <<override, falseFor, overrides, calm>>
  BY <1>8 DEF StateType, Gen, Age, NoClock
<1> QED
  BY <1>1, <1>2, <1>3, <1>4, <1>5, <1>6, <1>7, <1>8
  DEF Next, Run, ResyncLoop, ConditionsChange, Activate, CancelActivation,
      ApplyDepth, RestoreDepth, StopRestoring, Stop, ResyncLoads, ResyncFires,
      ResyncStops, Spawn, WorkerStops, vars, control, state, pool, resyncing

(* What ResizeWorkers does to one pool, and that it leaves the others. *)
LEMMA Resized ==
    ASSUME PoolType, NEW a \in Gen, NEW n \in Nat, ResizeWorkers(a, n)
    PROVE  /\ PoolType' /\ workers' = workers
           /\ \A b \in Gen \ {a} :
                 cap'[b] = cap[b] /\ spawning'[b] = spawning[b]
           /\ n # 0 => cap'[a] = n
           /\ workers[a] + spawning[a] >= cap[a]
                => workers'[a] + spawning'[a] >= cap'[a]
<1> DEFINE c == IF n < 1 THEN 1 ELSE n
           s == spawning[a] + (IF n > cap[a] THEN n - cap[a] ELSE 0)
<1>1. c \in Nat \ {0} /\ s \in Nat
  BY DEF PoolType
<1>2. /\ cap' = [cap EXCEPT ![a] = c] /\ spawning' = [spawning EXCEPT ![a] = s]
      /\ workers' = workers
  BY DEF ResizeWorkers, Resize
<1>3. cap'[a] = c /\ spawning'[a] = s
  BY <1>2 DEF PoolType
<1>4. PoolType'
  <2> HIDE DEF c, s
  <2> QED
    BY <1>1, <1>2 DEF PoolType
<1>5. workers[a] + spawning[a] >= cap[a] => workers[a] + s >= c
  BY DEF PoolType
<1>6. \A b \in Gen \ {a} : cap'[b] = cap[b] /\ spawning'[b] = spawning[b]
  <2> HIDE DEF c, s
  <2> QED
    BY <1>2 DEF PoolType
<1> QED
  BY <1>2, <1>3, <1>4, <1>5, <1>6

(* the pools, *)
LEMMA PoolTypeStep ==
    ASSUME PoolType, [Next]_vars PROVE PoolType'
<1>1. CASE Activate
  BY <1>1, BoundsAssumption, SpecAssumption
  DEF Activate, control, state, pool, resyncing, PoolType, Gen, Unset
<1>2. ASSUME NEW a \in Gen, ApplyWorkers(a)
      PROVE  PoolType'
  BY <1>2, Resized, SpecAssumption DEF ApplyWorkers, PoolType, pool, Unset
<1>3. ASSUME NEW a \in Gen, RestoreWorkers(a)
      PROVE  PoolType'
  BY <1>3, Resized, SpecAssumption DEF RestoreWorkers
<1>4. ASSUME NEW a \in Gen, StopRestoring(a)
      PROVE  PoolType'
  BY <1>4, Resized, SpecAssumption DEF StopRestoring
<1>5. ASSUME NEW a \in Gen, Spawn(a)
      PROVE  PoolType'
  <2>1. /\ spawning[a] - 1 \in Nat /\ workers[a] + 1 \in Nat
        /\ cap' = cap
    BY <1>5 DEF Spawn, PoolType
  <2> QED
    BY <1>5, <2>1 DEF Spawn, PoolType
<1>6. ASSUME NEW a \in Gen, WorkerStops(a)
      PROVE  PoolType'
  <2>1. workers[a] - 1 \in Nat /\ cap' = cap /\ spawning' = spawning
    BY <1>6 DEF WorkerStops, PoolType
  <2> QED
    BY <1>6, <2>1 DEF WorkerStops, PoolType
<1>7. CASE UNCHANGED <<cap, workers, spawning>>
  BY <1>7 DEF PoolType, Gen, Unset
<1> QED
  BY <1>1, <1>2, <1>3, <1>4, <1>5, <1>6, <1>7
  DEF Next, Run, ResyncLoop, ConditionsChange, TimePasses, CancelActivation,
      EvaluateMet, ApplyDepth, ApplyResync, Cool, RestoreDepth, RestoreResync,
      Stop, ResyncLoads, ResyncFires, ResyncStops, vars, control, state, pool,
      resyncing

(* the resync loops, *)
LEMMA ResyncStep ==
    ASSUME ResyncType, [Next]_vars PROVE ResyncType'
<1>1. CASE Activate
  BY <1>1, BoundsAssumption, SpecAssumption
  DEF Activate, control, state, pool, resyncing, ResyncType, Gen, Unset
<1>2. ASSUME NEW a \in Gen, ApplyResync(a)
      PROVE  ResyncType'
  BY <1>2, BoundsAssumption, SpecAssumption
  DEF ApplyResync, Goto, control, state, pool, resyncing, ResyncType, Gen,
      Unset
<1>3. ASSUME NEW a \in Gen, RestoreResync(a)
      PROVE  ResyncType'
  BY <1>3, BoundsAssumption, SpecAssumption
  DEF RestoreResync, Goto, control, state, pool, resyncing, ResyncType, Gen,
      Unset
<1>4. ASSUME NEW a \in Gen, ResyncLoads(a)
      PROVE  ResyncType'
  BY <1>4, BoundsAssumption, SpecAssumption
  DEF ResyncLoads, control, state, pool, resyncing, ResyncType, Gen, Unset
<1>5. ASSUME NEW a \in Gen, ResyncFires(a)
      PROVE  ResyncType'
  BY <1>5, BoundsAssumption, SpecAssumption
  DEF ResyncFires, control, state, pool, resyncing, ResyncType, Gen, Unset
<1>6. ASSUME NEW a \in Gen, ResyncStops(a)
      PROVE  ResyncType'
  BY <1>6, BoundsAssumption, SpecAssumption
  DEF ResyncStops, control, state, pool, resyncing, ResyncType, Gen, Unset
<1>7. CASE UNCHANGED <<resync, loop, late>>
  BY <1>7 DEF ResyncType, Gen, Unset
<1> QED
  BY <1>1, <1>2, <1>3, <1>4, <1>5, <1>6, <1>7
  DEF Next, Run, ResyncLoop, ConditionsChange, TimePasses, CancelActivation,
      EvaluateMet, ApplyWorkers, ApplyDepth, Cool, RestoreWorkers,
      RestoreDepth, StopRestoring, Stop, Spawn, WorkerStops, vars, control,
      state, pool, resyncing

(* and the conditions and the limit. *)
LEMMA TypeStep ==
    ASSUME TypeOK, [Next]_vars PROVE TypeOK'
<1>1. met' \in BOOLEAN
  <2>1. CASE ConditionsChange
    BY <2>1 DEF ConditionsChange
  <2>2. CASE met' = met
    BY <2>2 DEF TypeOK
  <2> QED
    BY <2>1, <2>2
    DEF Next, Run, ResyncLoop, TimePasses, Activate, CancelActivation,
        EvaluateMet, ApplyWorkers, ApplyDepth, ApplyResync, Cool,
        RestoreWorkers, RestoreDepth, RestoreResync, StopRestoring, Stop,
        ResyncLoads, ResyncFires, ResyncStops, Spawn, WorkerStops, vars
<1>2. depth' \in Nat
  <2>1. \/ depth' = depth \/ depth' = BaseDepth
        \/ DoDepth # Unset /\ depth' = DoDepth
    BY DEF Next, Run, ResyncLoop, ConditionsChange, TimePasses, Activate,
           CancelActivation, EvaluateMet, ApplyWorkers, ApplyDepth,
           ApplyResync, Cool, RestoreWorkers, RestoreDepth, RestoreResync,
           StopRestoring, Stop, ResyncLoads, ResyncFires, ResyncStops, Spawn,
           WorkerStops, vars
  <2> QED
    BY <2>1, SpecAssumption DEF TypeOK
<1> QED
  BY <1>1, <1>2, ControlStep, StateStep, PoolTypeStep, ResyncStep DEF TypeOK

(* No step touches an activation that has not begun. *)
LEMMA FreshStep ==
    ASSUME Inv, [Next]_vars PROVE Fresh'
<1>1. CASE Activate
  BY <1>1, BoundsAssumption
  DEF Activate, control, state, pool, resyncing, Inv, TypeOK, ControlType,
      StateType, Fresh, Gen, Labels
<1>2. ASSUME NEW a \in Gen, ApplyWorkers(a)
      PROVE  Fresh'
  BY <1>2, BoundsAssumption
  DEF ApplyWorkers, ResizeWorkers, Goto, control, state, pool, resyncing, Inv,
      TypeOK, ControlType, StateType, Fresh, Gen, Labels
<1>3. ASSUME NEW a \in Gen, ApplyDepth(a)
      PROVE  Fresh'
  BY <1>3, BoundsAssumption
  DEF ApplyDepth, Goto, control, state, pool, resyncing, Inv, TypeOK,
      ControlType, StateType, Fresh, Gen, Labels
<1>4. ASSUME NEW a \in Gen, ApplyResync(a)
      PROVE  Fresh'
  BY <1>4, BoundsAssumption
  DEF ApplyResync, Goto, control, state, pool, resyncing, Inv, TypeOK,
      ControlType, StateType, Fresh, Gen, Labels
<1>5. ASSUME NEW a \in Gen, RestoreWorkers(a)
      PROVE  Fresh'
  BY <1>5, BoundsAssumption
  DEF RestoreWorkers, ResizeWorkers, Goto, StartClock, control, state, pool,
      resyncing, Inv, TypeOK, ControlType, StateType, Fresh, Gen, Labels
<1>6. ASSUME NEW a \in Gen, RestoreDepth(a)
      PROVE  Fresh'
  BY <1>6, BoundsAssumption
  DEF RestoreDepth, Goto, control, state, pool, resyncing, Inv, TypeOK,
      ControlType, StateType, Fresh, Gen, Labels
<1>7. ASSUME NEW a \in Gen, RestoreResync(a)
      PROVE  Fresh'
  BY <1>7, BoundsAssumption
  DEF RestoreResync, Goto, control, state, pool, resyncing, Inv, TypeOK,
      ControlType, StateType, Fresh, Gen, Labels
<1>8. ASSUME NEW a \in Gen, StopRestoring(a)
      PROVE  Fresh'
  BY <1>8, BoundsAssumption
  DEF StopRestoring, ResizeWorkers, Goto, control, state, pool, resyncing,
      Inv, TypeOK, ControlType, StateType, Fresh, Gen, Labels
<1>9. ASSUME NEW a \in Gen, Stop(a)
      PROVE  Fresh'
  BY <1>9, BoundsAssumption
  DEF Stop, Goto, control, state, pool, resyncing, Inv, TypeOK, ControlType,
      StateType, Fresh, Gen, Labels
<1>10. CASE UNCHANGED <<gen, pc, override>>
  BY <1>10 DEF Inv, TypeOK, ControlType, StateType, Fresh, Gen, Labels
<1> QED
  BY <1>1, <1>2, <1>3, <1>4, <1>5, <1>6, <1>7, <1>8, <1>9, <1>10
  DEF Next, Run, ResyncLoop, ConditionsChange, TimePasses, CancelActivation,
      EvaluateMet, Cool, ResyncLoads, ResyncFires, ResyncStops, Spawn,
      WorkerStops, vars, control, state, pool, resyncing

(* Who changes the limit answers for it until it is restored. *)
LEMMA DepthStep ==
    ASSUME Inv, [Next]_vars PROVE DepthOwned'
<1>1. CASE Activate
  BY <1>1, BoundsAssumption
  DEF Activate, control, state, pool, resyncing, Inv, TypeOK, ControlType,
      StateType, DepthOwned, Fresh, Gen
<1>2. ASSUME NEW a \in Gen, ApplyWorkers(a)
      PROVE  DepthOwned'
  BY <1>2, BoundsAssumption
  DEF ApplyWorkers, ResizeWorkers, Goto, control, state, pool, resyncing, Inv,
      TypeOK, ControlType, StateType, DepthOwned, Fresh, Gen
<1>3. ASSUME NEW a \in Gen, ApplyDepth(a)
      PROVE  DepthOwned'
  BY <1>3, BoundsAssumption
  DEF ApplyDepth, Goto, control, state, pool, resyncing, Inv, TypeOK,
      ControlType, StateType, DepthOwned, Fresh, Gen
<1>4. ASSUME NEW a \in Gen, ApplyResync(a)
      PROVE  DepthOwned'
  BY <1>4, BoundsAssumption
  DEF ApplyResync, Goto, control, state, pool, resyncing, Inv, TypeOK,
      ControlType, StateType, DepthOwned, Fresh, Gen
<1>5. ASSUME NEW a \in Gen, RestoreWorkers(a)
      PROVE  DepthOwned'
  BY <1>5, BoundsAssumption
  DEF RestoreWorkers, ResizeWorkers, Goto, StartClock, control, state, pool,
      resyncing, Inv, TypeOK, ControlType, StateType, DepthOwned, Fresh, Gen
<1>6. ASSUME NEW a \in Gen, RestoreDepth(a)
      PROVE  DepthOwned'
  BY <1>6, BoundsAssumption
  DEF RestoreDepth, Goto, control, state, pool, resyncing, Inv, TypeOK,
      ControlType, StateType, DepthOwned, Fresh, Gen
<1>7. ASSUME NEW a \in Gen, RestoreResync(a)
      PROVE  DepthOwned'
  BY <1>7, BoundsAssumption
  DEF RestoreResync, Goto, control, state, pool, resyncing, Inv, TypeOK,
      ControlType, StateType, DepthOwned, Fresh, Gen
<1>8. ASSUME NEW a \in Gen, StopRestoring(a)
      PROVE  DepthOwned'
  BY <1>8, BoundsAssumption
  DEF StopRestoring, ResizeWorkers, Goto, control, state, pool, resyncing,
      Inv, TypeOK, ControlType, StateType, DepthOwned, Fresh, Gen
<1>9. ASSUME NEW a \in Gen, Stop(a)
      PROVE  DepthOwned'
  BY <1>9, BoundsAssumption
  DEF Stop, Goto, control, state, pool, resyncing, Inv, TypeOK, ControlType,
      StateType, DepthOwned, Fresh, Gen
<1>10. CASE UNCHANGED <<depth, pc, override>>
  BY <1>10 DEF Inv, TypeOK, ControlType, StateType, DepthOwned, Fresh, Gen
<1> QED
  BY <1>1, <1>2, <1>3, <1>4, <1>5, <1>6, <1>7, <1>8, <1>9, <1>10
  DEF Next, Run, ResyncLoop, ConditionsChange, TimePasses, CancelActivation,
      EvaluateMet, Cool, ResyncLoads, ResyncFires, ResyncStops, Spawn,
      WorkerStops, vars, control, state, pool, resyncing

(* The own pool and resync loop follow the override. *)
LEMMA BaselineStep ==
    ASSUME Inv, [Next]_vars PROVE OwnBaseline'
<1>1. CASE Activate
  BY <1>1, BoundsAssumption, SpecAssumption
  DEF Activate, control, state, pool, resyncing, Inv, TypeOK, ControlType,
      StateType, PoolType, ResyncType, OwnBaseline, Settled, Fresh, Gen, Unset
<1>2. ASSUME NEW a \in Gen, ApplyWorkers(a)
      PROVE  OwnBaseline'
  BY <1>2, BoundsAssumption, SpecAssumption
  DEF ApplyWorkers, ResizeWorkers, Goto, control, state, pool, resyncing, Inv,
      TypeOK, ControlType, StateType, PoolType, ResyncType, OwnBaseline,
      Settled, Fresh, Gen, Unset
<1>3. ASSUME NEW a \in Gen, ApplyDepth(a)
      PROVE  OwnBaseline'
  BY <1>3, BoundsAssumption, SpecAssumption
  DEF ApplyDepth, Goto, control, state, pool, resyncing, Inv, TypeOK,
      ControlType, StateType, PoolType, ResyncType, OwnBaseline, Settled,
      Fresh, Gen, Unset
<1>4. ASSUME NEW a \in Gen, ApplyResync(a)
      PROVE  OwnBaseline'
  BY <1>4, BoundsAssumption, SpecAssumption
  DEF ApplyResync, Goto, control, state, pool, resyncing, Inv, TypeOK,
      ControlType, StateType, PoolType, ResyncType, OwnBaseline, Settled,
      Fresh, Gen, Unset
<1>5. ASSUME NEW a \in Gen, RestoreWorkers(a)
      PROVE  OwnBaseline'
  <2>1. \A b \in Gen \ {a} :
            /\ cap'[b] = cap[b] /\ pc'[b] = pc[b]
            /\ (b \in override' <=> b \in override)
    BY <1>5, Resized, SpecAssumption
    DEF RestoreWorkers, Goto, state, Inv, TypeOK, ControlType
  <2>2. cap'[a] = BaseWorkers /\ pc'[a] = "restoreDepth" /\ resync' = resync
    BY <1>5, Resized, SpecAssumption
    DEF RestoreWorkers, Goto, resyncing, Inv, TypeOK, ControlType
  <2> QED
    BY <2>1, <2>2 DEF Inv, OwnBaseline, Settled
<1>6. ASSUME NEW a \in Gen, RestoreDepth(a)
      PROVE  OwnBaseline'
  BY <1>6, BoundsAssumption, SpecAssumption
  DEF RestoreDepth, Goto, control, state, pool, resyncing, Inv, TypeOK,
      ControlType, StateType, PoolType, ResyncType, OwnBaseline, Settled,
      Fresh, Gen, Unset
<1>7. ASSUME NEW a \in Gen, RestoreResync(a)
      PROVE  OwnBaseline'
  BY <1>7, BoundsAssumption, SpecAssumption
  DEF RestoreResync, Goto, control, state, pool, resyncing, Inv, TypeOK,
      ControlType, StateType, PoolType, ResyncType, OwnBaseline, Settled,
      Fresh, Gen, Unset
<1>8. ASSUME NEW a \in Gen, StopRestoring(a)
      PROVE  OwnBaseline'
  <2>1. \A b \in Gen \ {a} :
            /\ cap'[b] = cap[b] /\ pc'[b] = pc[b]
            /\ (b \in override' <=> b \in override)
    BY <1>8, Resized, SpecAssumption
    DEF StopRestoring, Goto, state, Inv, TypeOK, ControlType
  <2>2. cap'[a] = BaseWorkers /\ pc'[a] = "restoreDepth" /\ resync' = resync
    BY <1>8, Resized, SpecAssumption
    DEF StopRestoring, Goto, resyncing, Inv, TypeOK, ControlType
  <2> QED
    BY <2>1, <2>2 DEF Inv, OwnBaseline, Settled
<1>9. ASSUME NEW a \in Gen, Stop(a)
      PROVE  OwnBaseline'
  BY <1>9, BoundsAssumption, SpecAssumption
  DEF Stop, Goto, control, state, pool, resyncing, Inv, TypeOK, ControlType,
      StateType, PoolType, ResyncType, OwnBaseline, Settled, Fresh, Gen, Unset
<1>10. CASE UNCHANGED <<override, pc, cap, resync>>
  BY <1>10
  DEF Inv, TypeOK, ControlType, StateType, PoolType, ResyncType, OwnBaseline,
      Settled, Fresh, Gen, Unset
<1> QED
  BY <1>1, <1>2, <1>3, <1>4, <1>5, <1>6, <1>7, <1>8, <1>9, <1>10
  DEF Next, Run, ResyncLoop, ConditionsChange, TimePasses, CancelActivation,
      EvaluateMet, Cool, ResyncLoads, ResyncFires, ResyncStops, Spawn,
      WorkerStops, vars, control, state, pool, resyncing

(* The clock stays behind. *)
LEMMA ClockStep ==
    ASSUME Inv, [Next]_vars PROVE ClockBehind'
<1>1. CASE TimePasses
  BY <1>1, BoundsAssumption, SpecAssumption
  DEF TimePasses, Older, Age, control, state, pool, resyncing, Inv, TypeOK,
      ControlType, StateType, ClockBehind, Fresh, Gen, Age, NoClock
<1>2. ASSUME NEW a \in Gen, EvaluateMet(a)
      PROVE  ClockBehind'
  BY <1>2, BoundsAssumption, SpecAssumption
  DEF EvaluateMet, control, state, pool, resyncing, Inv, TypeOK, ControlType,
      StateType, ClockBehind, Fresh, Gen, Age, NoClock
<1>3. ASSUME NEW a \in Gen, Cool(a)
      PROVE  ClockBehind'
  BY <1>3, BoundsAssumption, SpecAssumption
  DEF Cool, StartClock, control, state, pool, resyncing, Inv, TypeOK,
      ControlType, StateType, ClockBehind, Fresh, Gen, Age, NoClock
<1>4. CASE Activate
  BY <1>4, BoundsAssumption, SpecAssumption
  DEF Activate, control, state, pool, resyncing, Inv, TypeOK, ControlType,
      StateType, ClockBehind, Fresh, Gen, Age, NoClock
<1>5. ASSUME NEW a \in Gen, ApplyWorkers(a)
      PROVE  ClockBehind'
  BY <1>5, BoundsAssumption, SpecAssumption
  DEF ApplyWorkers, ResizeWorkers, Goto, control, state, pool, resyncing, Inv,
      TypeOK, ControlType, StateType, ClockBehind, Fresh, Gen, Age, NoClock
<1>6. ASSUME NEW a \in Gen, ApplyDepth(a)
      PROVE  ClockBehind'
  BY <1>6, BoundsAssumption, SpecAssumption
  DEF ApplyDepth, Goto, control, state, pool, resyncing, Inv, TypeOK,
      ControlType, StateType, ClockBehind, Fresh, Gen, Age, NoClock
<1>7. ASSUME NEW a \in Gen, ApplyResync(a)
      PROVE  ClockBehind'
  BY <1>7, BoundsAssumption, SpecAssumption
  DEF ApplyResync, Goto, control, state, pool, resyncing, Inv, TypeOK,
      ControlType, StateType, ClockBehind, Fresh, Gen, Age, NoClock
<1>8. ASSUME NEW a \in Gen, RestoreWorkers(a)
      PROVE  ClockBehind'
  BY <1>8, BoundsAssumption, SpecAssumption
  DEF RestoreWorkers, ResizeWorkers, Goto, StartClock, control, state, pool,
      resyncing, Inv, TypeOK, ControlType, StateType, ClockBehind, Fresh, Gen,
      Age, NoClock
<1>9. ASSUME NEW a \in Gen, RestoreDepth(a)
      PROVE  ClockBehind'
  BY <1>9, BoundsAssumption, SpecAssumption
  DEF RestoreDepth, Goto, control, state, pool, resyncing, Inv, TypeOK,
      ControlType, StateType, ClockBehind, Fresh, Gen, Age, NoClock
<1>10. ASSUME NEW a \in Gen, RestoreResync(a)
      PROVE  ClockBehind'
  BY <1>10, BoundsAssumption, SpecAssumption
  DEF RestoreResync, Goto, control, state, pool, resyncing, Inv, TypeOK,
      ControlType, StateType, ClockBehind, Fresh, Gen, Age, NoClock
<1>11. ASSUME NEW a \in Gen, StopRestoring(a)
      PROVE  ClockBehind'
  BY <1>11, BoundsAssumption, SpecAssumption
  DEF StopRestoring, ResizeWorkers, Goto, control, state, pool, resyncing,
      Inv, TypeOK, ControlType, StateType, ClockBehind, Fresh, Gen, Age,
      NoClock
<1>12. ASSUME NEW a \in Gen, Stop(a)
      PROVE  ClockBehind'
  BY <1>12, BoundsAssumption, SpecAssumption
  DEF Stop, Goto, control, state, pool, resyncing, Inv, TypeOK, ControlType,
      StateType, ClockBehind, Fresh, Gen, Age, NoClock
<1>13. CASE UNCHANGED <<override, pc, falseFor, calm>>
  BY <1>13
  DEF Inv, TypeOK, ControlType, StateType, ClockBehind, Fresh, Gen, Age,
      NoClock
<1> QED
  BY <1>1, <1>2, <1>3, <1>4, <1>5, <1>6, <1>7, <1>8, <1>9, <1>10, <1>11,
      <1>12, <1>13
  DEF Next, Run, ResyncLoop, ConditionsChange, CancelActivation, ResyncLoads,
      ResyncFires, ResyncStops, Spawn, WorkerStops, vars, control, state,
      pool, resyncing

(* No step leaves a pool short. *)
LEMMA PoolStep ==
    ASSUME Inv, [Next]_vars PROVE PoolCoversCapacity'
<1>1. CASE CancelActivation
  BY <1>1, BoundsAssumption, SpecAssumption
  DEF CancelActivation, control, state, pool, resyncing, Inv, TypeOK,
      ControlType, StateType, PoolType, PoolCoversCapacity, OwnBaseline,
      Settled, Fresh, Gen, Unset
<1>2. ASSUME NEW a \in Gen, Spawn(a)
      PROVE  PoolCoversCapacity'
  BY <1>2, BoundsAssumption, SpecAssumption
  DEF Spawn, control, state, pool, resyncing, Inv, TypeOK, ControlType,
      StateType, PoolType, PoolCoversCapacity, OwnBaseline, Settled, Fresh,
      Gen, Unset
<1>3. ASSUME NEW a \in Gen, WorkerStops(a)
      PROVE  PoolCoversCapacity'
  BY <1>3, BoundsAssumption, SpecAssumption
  DEF WorkerStops, control, state, pool, resyncing, Inv, TypeOK, ControlType,
      StateType, PoolType, PoolCoversCapacity, OwnBaseline, Settled, Fresh,
      Gen, Unset
<1>4. CASE Activate
  BY <1>4, BoundsAssumption, SpecAssumption
  DEF Activate, control, state, pool, resyncing, Inv, TypeOK, ControlType,
      StateType, PoolType, PoolCoversCapacity, OwnBaseline, Settled, Fresh,
      Gen, Unset
<1>5. ASSUME NEW a \in Gen, ApplyWorkers(a)
      PROVE  PoolCoversCapacity'
  <2>1. CASE UNCHANGED pool
    BY <1>5, <2>1
    DEF ApplyWorkers, Goto, pool, Inv, TypeOK, ControlType, PoolCoversCapacity
  <2>2. CASE ResizeWorkers(a, DoWorkers) /\ DoWorkers # Unset
    BY <1>5, <2>2, Resized, SpecAssumption
    DEF ApplyWorkers, Goto, Inv, TypeOK, ControlType, PoolCoversCapacity
  <2> QED
    BY <1>5, <2>1, <2>2 DEF ApplyWorkers
<1>6. ASSUME NEW a \in Gen, ApplyDepth(a)
      PROVE  PoolCoversCapacity'
  BY <1>6, BoundsAssumption, SpecAssumption
  DEF ApplyDepth, Goto, control, state, pool, resyncing, Inv, TypeOK,
      ControlType, StateType, PoolType, PoolCoversCapacity, OwnBaseline,
      Settled, Fresh, Gen, Unset
<1>7. ASSUME NEW a \in Gen, ApplyResync(a)
      PROVE  PoolCoversCapacity'
  BY <1>7, BoundsAssumption, SpecAssumption
  DEF ApplyResync, Goto, control, state, pool, resyncing, Inv, TypeOK,
      ControlType, StateType, PoolType, PoolCoversCapacity, OwnBaseline,
      Settled, Fresh, Gen, Unset
<1>8. ASSUME NEW a \in Gen, RestoreWorkers(a)
      PROVE  PoolCoversCapacity'
  BY <1>8, Resized, SpecAssumption
  DEF RestoreWorkers, Goto, Inv, TypeOK, ControlType, PoolCoversCapacity
<1>9. ASSUME NEW a \in Gen, RestoreDepth(a)
      PROVE  PoolCoversCapacity'
  BY <1>9, BoundsAssumption, SpecAssumption
  DEF RestoreDepth, Goto, control, state, pool, resyncing, Inv, TypeOK,
      ControlType, StateType, PoolType, PoolCoversCapacity, OwnBaseline,
      Settled, Fresh, Gen, Unset
<1>10. ASSUME NEW a \in Gen, RestoreResync(a)
      PROVE  PoolCoversCapacity'
  BY <1>10, BoundsAssumption, SpecAssumption
  DEF RestoreResync, Goto, control, state, pool, resyncing, Inv, TypeOK,
      ControlType, StateType, PoolType, PoolCoversCapacity, OwnBaseline,
      Settled, Fresh, Gen, Unset
<1>11. ASSUME NEW a \in Gen, StopRestoring(a)
      PROVE  PoolCoversCapacity'
  BY <1>11, Resized, SpecAssumption
  DEF StopRestoring, Goto, Inv, TypeOK, ControlType, PoolCoversCapacity
<1>12. ASSUME NEW a \in Gen, Stop(a)
      PROVE  PoolCoversCapacity'
  BY <1>12, BoundsAssumption, SpecAssumption
  DEF Stop, Goto, control, state, pool, resyncing, Inv, TypeOK, ControlType,
      StateType, PoolType, PoolCoversCapacity, OwnBaseline, Settled, Fresh,
      Gen, Unset
<1>13. CASE UNCHANGED <<pc, cancelled, cap, workers, spawning>>
  BY <1>13
  DEF Inv, TypeOK, ControlType, StateType, PoolType, PoolCoversCapacity,
      OwnBaseline, Settled, Fresh, Gen, Unset
<1> QED
  BY <1>1, <1>2, <1>3, <1>4, <1>5, <1>6, <1>7, <1>8, <1>9, <1>10, <1>11,
      <1>12, <1>13
  DEF Next, Run, ResyncLoop, ConditionsChange, TimePasses, EvaluateMet, Cool,
      ResyncLoads, ResyncFires, ResyncStops, vars, control, state, pool,
      resyncing

-----------------------------------------------------------------------------
(* The invariant holds initially and is preserved. *)
LEMMA Invariance == Spec => []Inv
<1>1. ASSUME Init PROVE Inv
  <2>1. TypeOK
    <3>1. met \in BOOLEAN
      BY <1>1 DEF Init
    <3>2. depth \in Nat /\ ControlType
      BY <1>1, BoundsAssumption, SpecAssumption
      DEF Init, ControlType, Gen, Labels
    <3>3. StateType /\ PoolType /\ ResyncType
      BY <1>1, BoundsAssumption, SpecAssumption
      DEF Init, StateType, PoolType, ResyncType, Age, NoClock
    <3> QED
      BY <3>1, <3>2, <3>3 DEF TypeOK
  <2>2. Fresh /\ DepthOwned /\ OwnBaseline /\ ClockBehind /\ PoolCoversCapacity
    BY <1>1
    DEF Init, Fresh, DepthOwned, OwnBaseline, ClockBehind,
        PoolCoversCapacity, Settled
  <2> QED
    BY <2>1, <2>2 DEF Inv
<1>2. Inv /\ [Next]_vars => Inv'
  BY TypeStep, FreshStep, DepthStep, BaselineStep, ClockStep, PoolStep DEF Inv
<1> QED
  BY <1>1, <1>2, PTL DEF Spec

(* The state of autoscaler.go and crd_runtime.go keeps its types. *)
THEOREM TypeCorrect == Spec => []TypeOK
<1>1. Inv => TypeOK
  BY DEF Inv
<1> QED
  BY Invariance, <1>1, PTL

(* Whatever autoscalers of different activations do to the shared queue,   *)
(* restoreBaseline leaves the declared configuration in force.             *)
THEOREM BaselineRestored == Spec => []BaselineInForce
<1>1. Inv => BaselineInForce
  BY DEF Inv, BaselineInForce, DepthOwned, OwnBaseline, Settled
<1> QED
  BY Invariance, <1>1, PTL

(* ResizeWorkers never leaves a pool short of its capacity. *)
THEOREM PoolCovers == Spec => []PoolCoversCapacity
<1>1. Inv => PoolCoversCapacity
  BY DEF Inv
<1> QED
  BY Invariance, <1>1, PTL

(* evaluate restores the baseline only after a full cooldown without an    *)
(* evaluation that found the conditions met.                               *)
THEOREM CooldownHolds == Spec => CooldownRespected
<1> DEFINE Held(a) ==
      pc[a] = "select" /\ pc'[a] = "restoreDepth" /\ a \notin stopping'
          => calm[a] = Cooldown
<1>1. ASSUME Inv, [Next]_vars PROVE \A a \in Gen : Held(a)
  <2> SUFFICES ASSUME NEW a \in Gen, pc[a] = "select",
                      pc'[a] = "restoreDepth", a \notin stopping'
               PROVE  calm[a] = Cooldown
    OBVIOUS
  <2>1. CASE RestoreWorkers(a)
    BY <1>1, <2>1, SpecAssumption
    DEF RestoreWorkers, StartClock, Inv, TypeOK, StateType,
        ClockBehind, Age, NoClock, Gen
  <2>2. RestoreWorkers(a)
    <3>1. pc'[a] # pc[a]
      OBVIOUS
    <3>2. pc \in [Gen -> Labels]
      BY <1>1 DEF Inv, TypeOK, ControlType
    <3>3. CASE \E b \in Gen : Run(b)
      BY <3>1, <3>2, <3>3
      DEF Run, EvaluateMet, ApplyWorkers, ApplyDepth, ApplyResync, Cool,
          RestoreDepth, RestoreResync, StopRestoring, Stop, RestoreWorkers,
          Goto, control, state, pool, resyncing
    <3>4. CASE ConditionsChange \/ TimePasses \/ CancelActivation
                  \/ UNCHANGED vars
      BY <3>1, <3>4
      DEF ConditionsChange, TimePasses, CancelActivation, vars, control
    <3>5. CASE Activate
      BY <3>1, <3>2, <3>5, <1>1 DEF Activate, Inv, TypeOK, ControlType, Gen
    <3>6. CASE \E b \in Gen : ResyncLoop(b) \/ Spawn(b) \/ WorkerStops(b)
      BY <3>1, <3>6
      DEF ResyncLoop, ResyncLoads, ResyncFires, ResyncStops, Spawn,
          WorkerStops, control
    <3> QED
      BY <1>1, <3>3, <3>4, <3>5, <3>6 DEF Next
  <2> QED
    BY <2>1, <2>2
<1>2. Inv /\ [Next]_vars => [\A a \in Gen : Held(a)]_vars
  BY <1>1
<1> QED
  BY Invariance, <1>2, PTL DEF Spec, CooldownRespected

-----------------------------------------------------------------------------
(* A resync that was counted as late found the interval already 0 and left *)
(* the loop to read it.                                                    *)
LateSpent ==
    \A a \in Gen : late[a] # 0 =>
        late[a] = 1 /\ resync[a] = 0 /\ loop[a] # "armed"

(* Only the loop counts, arms itself or fires; only the autoscaler sets    *)
(* the interval, and it starts the count again.                            *)
LEMMA LateStep ==
    ASSUME TypeOK, LateSpent, [Next]_vars PROVE LateSpent'
<1> USE DEF LateSpent, TypeOK, ResyncType
<1>1. ASSUME NEW a \in Gen, ResyncLoads(a)
      PROVE  LateSpent'
  BY <1>1 DEF ResyncLoads
<1>2. ASSUME NEW a \in Gen, ResyncFires(a)
      PROVE  LateSpent'
  <2>1. late[a] = 0 /\ late'[a] \in {0, 1} /\ loop'[a] = "load"
        /\ (late'[a] = 1 => resync[a] = 0)
    BY <1>2 DEF ResyncFires
  <2>2. \A b \in Gen \ {a} : late'[b] = late[b] /\ loop'[b] = loop[b]
    BY <1>2 DEF ResyncFires
  <2> QED
    BY <1>2, <2>1, <2>2 DEF ResyncFires
<1>3. ASSUME NEW a \in Gen, ResyncStops(a)
      PROVE  LateSpent'
  BY <1>3 DEF ResyncStops
<1>4. CASE Activate
  BY <1>4 DEF Activate
<1>5. ASSUME NEW a \in Gen, ApplyResync(a)
      PROVE  LateSpent'
  <2>1. late'[a] = 0 /\ loop' = loop
        /\ \A b \in Gen \ {a} : late'[b] = late[b] /\ resync'[b] = resync[b]
    BY <1>5 DEF ApplyResync
  <2> QED
    BY <2>1
<1>6. ASSUME NEW a \in Gen, RestoreResync(a)
      PROVE  LateSpent'
  <2>1. late'[a] = 0 /\ loop' = loop
        /\ \A b \in Gen \ {a} : late'[b] = late[b] /\ resync'[b] = resync[b]
    BY <1>6 DEF RestoreResync
  <2> QED
    BY <2>1
<1>7. CASE UNCHANGED resyncing
  BY <1>7 DEF resyncing
<1> QED
  BY <1>1, <1>2, <1>3, <1>4, <1>5, <1>6, <1>7
  DEF Next, Run, ResyncLoop, ConditionsChange, TimePasses, CancelActivation,
      EvaluateMet, ApplyWorkers, ApplyDepth, Cool, RestoreWorkers,
      RestoreDepth, StopRestoring, Stop, Spawn, WorkerStops, vars

(* However the interval is set and restored while the resync loop sleeps,  *)
(* the loop enqueues everything at most once after the interval became 0.  *)
THEOREM LateOnce == Spec => []OneLateResync
<1>1. Init => LateSpent
  BY DEF Init, LateSpent
<1>2. TypeOK /\ LateSpent /\ [Next]_vars => LateSpent'
  BY LateStep
<1>3. LateSpent /\ TypeOK => OneLateResync
  BY DEF LateSpent, OneLateResync, TypeOK, ResyncType
<1> QED
  BY <1>1, <1>2, <1>3, TypeCorrect, PTL DEF Spec
=============================================================================
