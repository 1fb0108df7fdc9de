------------------------- MODULE CoordinatorProofs -------------------------
(***************************************************************************)
(* Safety of the coordinator for every catalog: types, channels closed     *)
(* once, starts after dependencies, queues stopped dependents first, and   *)
(* online only while served.                                               *)
(***************************************************************************)
EXTENDS Coordinator, TLAPS

SetsType ==
    /\ exists \subseteq CRDs /\ missing \subseteq CRDs
    /\ entryMissing \subseteq CRDs /\ neverStarted \subseteq CRDs
    /\ started \subseteq CRDs /\ lingering \subseteq CRDs
    /\ deactivated \subseteq CRDs /\ queueDown \subseteq CRDs
    /\ startedCh \subseteq CRDs /\ healthyCh \subseteq CRDs
    /\ signaled \subseteq CRDs /\ healthy \subseteq CRDs
    /\ todo \subseteq CRDs /\ runtimeMissing \subseteq CRDs
    /\ stillMissing \subseteq CRDs /\ draining \subseteq CRDs
PoolType ==
    /\ pool \in [CRDs -> {"none", "run", "cancelled"}]
    /\ unsatisfied \subseteq CRDs \X CRDs
FlagType ==
    {panicked, online, lost, terminating, leading, checking} \subseteq BOOLEAN

(* Control and the positions in the order, with what each says of the      *)
(* other: the loops of Coordinate stay within the order.                   *)
ControlType ==
    /\ flips \in 0 .. MaxFlips /\ errors \in 0 .. MaxErrors
    /\ coord \in {"boot", "lead", "stop", "drain", "ended"}
    /\ idx \in 0 .. Len(StartupOrder) + 1 /\ at \in 1 .. Len(StartupOrder) + 1
    /\ phase \in {"wait", "detect", "drain", "recover", "defer", "ended"}
    /\ coord \in {"boot", "drain"} => idx >= 1
    /\ coord \in {"stop", "drain", "ended"} => idx <= Len(StartupOrder)

(* Nobody has started the CRDs the start-up loop has yet to come to, and   *)
(* the retry loop starts none before it is over.                           *)
BootAlone ==
    coord = "boot" =>
        /\ phase \in {"wait", "ended"}
        /\ \A i \in idx .. Len(StartupOrder) : StartupOrder[i] \notin started

(* A closed health channel is a signalled one.                             *)
Signals == healthyCh \subseteq signaled

(* Only CRDs that have been started have workers, are found healthy, or    *)
(* have an open gate.                                                      *)
StartedFirst ==
    /\ startedCh \subseteq started /\ lingering \subseteq started
    /\ healthy \subseteq started /\ signaled \subseteq started
    /\ \A c \in CRDs : pool[c] # "none" => c \in started

(* What is on record as missing has no live workers, in the factory's map, *)
(* in the tick's maps and in what the tick still has to look at.           *)
Idle(S) == \A c \in S : pool[c] # "run"
MissingIdle ==
    /\ Idle(missing)
    /\ phase \in {"detect", "drain"} => Idle(runtimeMissing)
    /\ phase = "recover" => /\ Idle(todo) /\ Idle(stillMissing)
                            /\ todo \cap stillMissing = {}
    /\ \A c \in deactivated : pool[c] = "none"
    /\ coord = "boot" => deactivated = {}

(* What phase 2 of the retry loop still has to look at is on record as     *)
(* missing.                                                                *)
RecoverTodo == phase = "recover" => todo \subseteq missing

(* Every CRD that has been started is served or its entry is marked        *)
(* missing, and so is every one whose informer never ran; the catalog is   *)
(* online only when nothing is in the missing map.                         *)
Accounted ==
    /\ lost \/ \A c \in started : pool[c] = "run" \/ c \in entryMissing
    /\ neverStarted \subseteq entryMissing
    /\ coord \in {"stop", "drain"} => lost
Readiness ==
    /\ online => started = CRDs /\ missing = {}
    /\ coord = "boot" => started \cap missing = {} /\ ~online

(* The queues shut down so far are the tail of the start-up order, until   *)
(* the process is signalled.                                               *)
StopTail(j) == j > idx \/ (coord = "drain" /\ j = idx)
StopExact ==
    ~terminating =>
        /\ coord \in {"boot", "lead"} => queueDown = {}
        /\ coord \in {"stop", "drain", "ended"} =>
              \A j \in 1 .. Len(StartupOrder) :
                  StartupOrder[j] \in queueDown => StopTail(j)
        /\ coord \in {"stop", "drain", "ended"} =>
              \A j \in 1 .. Len(StartupOrder) :
                  StopTail(j) => StartupOrder[j] \in queueDown

Types == SetsType /\ PoolType /\ FlagType /\ ControlType
Inv ==
    /\ Types /\ BootAlone /\ Signals /\ StartedFirst /\ StopExact
    /\ MissingIdle /\ RecoverTodo /\ NoDoubleClose

(* The order is a sequence.                                                *)
LEMMA OrderLength == Len(StartupOrder) \in Nat
BY OrderAssumption

(* The positions the loops look at hold CRDs.                              *)
LEMMA Positions ==
    ASSUME ControlType
    PROVE  /\ 1 <= idx /\ idx <= Len(StartupOrder)
                => StartupOrder[idx] \in CRDs /\ idx \in 1 .. Len(StartupOrder)
           /\ coord = "boot" => idx >= 1
           /\ coord = "stop" => idx <= Len(StartupOrder)
           /\ at <= Len(StartupOrder) => StartupOrder[at] \in CRDs
BY OrderAssumption, OrderLength DEF ControlType

(* GetDependents returns names of the catalog.                             *)
LEMMA RequiringInCRDs == \A c \in CRDs : RequiringHealthy(c) \subseteq CRDs
BY DEF RequiringHealthy, GetDependents

(* The order is free of back edges, so activateCRD, which looks for the    *)
(* dependents of c among the CRDs c depends on, closes no health channel.  *)
LEMMA NoBackEdge == \A c \in CRDs : RequiringHealthy(c) = {}
<1>1. ASSUME NEW c \in CRDs, NEW d \in CRDs,
             d \in DependsOn[c], c \in DependsOn[d]
      PROVE  FALSE
  <2>1. PICK i \in 1 .. Len(StartupOrder) : StartupOrder[i] = c
    BY OrderAssumption
  <2>2. PICK j \in 1 .. Len(StartupOrder) : StartupOrder[j] = d
    BY OrderAssumption
  <2>3. j < i /\ i < j
    BY <1>1, <2>1, <2>2, OrderAssumption
  <2> QED
    BY <2>3, OrderAssumption
<1> QED
  BY <1>1, GraphAssumption DEF RequiringHealthy, GetDependents, Edges


(* Every step keeps the types: the sets of CRDs, *)
LEMMA SetsStep ==
    ASSUME SetsType, ControlType, [Next]_vars PROVE SetsType'
<1>1. CASE BootStep
  BY <1>1, FlakyAssumption, Positions
  DEF BootStep, StartCRDWorkers, cluster, factory, pools, channels, vitals,
      coordinate, retry, SetsType
<1>2. CASE StopCRD
  BY <1>2, FlakyAssumption, Positions
  DEF StopCRD, Cancel, cluster, factory, pools, channels, vitals, coordinate,
      retry, SetsType
<1>3. CASE RetryTick
  BY <1>3, FlakyAssumption, Positions
  DEF RetryTick, cluster, factory, pools, channels, vitals, coordinate,
      retry, SetsType
<1>4. CASE DrainEnds
  BY <1>4, FlakyAssumption, Positions
  DEF DrainEnds, cluster, factory, pools, channels, vitals, coordinate,
      retry, SetsType
<1>5. CASE DetectDone
  BY <1>5, FlakyAssumption, Positions
  DEF DetectDone, cluster, factory, pools, channels, vitals, coordinate,
      retry, SetsType
<1>6. CASE RecoverDone
  BY <1>6, FlakyAssumption, Positions
  DEF RecoverDone, cluster, factory, pools, channels, vitals, coordinate,
      retry, SetsType
<1>7. CASE ActivateDeferred
  BY <1>7, FlakyAssumption, Positions, NoBackEdge
  DEF ActivateDeferred, ActivateCRD, StartCRDWorkers, cluster, factory,
      pools, channels, vitals, coordinate, retry, SetsType
<1>8. ASSUME NEW c \in CRDs, Flip(c) PROVE SetsType'
  BY <1>8, FlakyAssumption, Positions
  DEF Flip, cluster, factory, pools, channels, vitals, coordinate, retry,
      SetsType
<1>9. ASSUME NEW c \in CRDs, LingeringExit(c) PROVE SetsType'
  BY <1>9, FlakyAssumption, Positions
  DEF LingeringExit, cluster, factory, pools, channels, vitals, coordinate,
      retry, SetsType
<1>10. ASSUME NEW c \in CRDs, WorkerRecords(c) PROVE SetsType'
  BY <1>10, FlakyAssumption, Positions
  DEF WorkerRecords, cluster, factory, pools, channels, vitals, coordinate,
      retry, SetsType
<1>11. ASSUME NEW c \in CRDs, DetectSkip(c) PROVE SetsType'
  BY <1>11, FlakyAssumption, Positions
  DEF DetectSkip, TransientError, cluster, factory, pools, channels, vitals,
      coordinate, retry, SetsType
<1>12. ASSUME NEW c \in CRDs, DetectGone(c) PROVE SetsType'
  BY <1>12, FlakyAssumption, Positions, RequiringInCRDs
  DEF DetectGone, Cancel, cluster, factory, pools, channels, vitals,
      coordinate, retry, SetsType
<1>13. ASSUME NEW c \in CRDs, RecoverPresent(c) PROVE SetsType'
  BY <1>13, FlakyAssumption, Positions, NoBackEdge
  DEF RecoverPresent, ActivateCRD, StartCRDWorkers, cluster, factory, pools,
      channels, vitals, coordinate, retry, SetsType
<1>14. ASSUME NEW c \in CRDs, RecoverAbsent(c) PROVE SetsType'
  BY <1>14, FlakyAssumption, Positions
  DEF RecoverAbsent, cluster, factory, pools, channels, vitals, coordinate,
      retry, SetsType
<1>15. ASSUME NEW c \in CRDs, RecoverUnknown(c) PROVE SetsType'
  BY <1>15, FlakyAssumption, Positions
  DEF RecoverUnknown, TransientError, cluster, factory, pools, channels,
      vitals, coordinate, retry, SetsType
<1>16. ASSUME NEW c \in CRDs, NEW d \in CRDs, CheckDependency(c, d)
      PROVE  SetsType'
  BY <1>16, FlakyAssumption, Positions
  DEF CheckDependency, cluster, factory, pools, channels, vitals, coordinate,
      retry, SetsType
<1>17. ASSUME NEW c \in CRDs, RegistryShutdown(c) PROVE SetsType'
  BY <1>17
  DEF RegistryShutdown, cluster, factory, pools, channels, vitals, coordinate,
      retry, SetsType
<1>18. CASE UNCHANGED <<exists, missing, entryMissing, neverStarted, started,
     lingering, deactivated, queueDown, startedCh, healthyCh, signaled,
     healthy, todo, runtimeMissing, stillMissing, draining>>
  BY <1>18
  DEF SetsType
<1> QED
  BY <1>1, <1>2, <1>3, <1>4, <1>5, <1>6, <1>7, <1>8, <1>9, <1>10, <1>11, <1>12,
      <1>13, <1>14, <1>15, <1>16, <1>17, <1>18
  DEF Next, Coordinate, RetryMissingCRDs, DependencyHealthChecker, Environment,
      Signal, BootDone, LoseLeadership, StopBegins, StopWaitEnds,
      CoordinateReturns, CheckerReturns, Report, RetryReturns, WorkersExit,
      vars, cluster, factory, pools, channels, vitals, coordinate, retry

(* the pools and the dependency statuses, *)
LEMMA PoolTypeStep ==
    ASSUME PoolType, ControlType, [Next]_vars PROVE PoolType'
<1>1. CASE BootStep
  BY <1>1, Positions
  DEF BootStep, StartCRDWorkers, cluster, factory, pools, channels, vitals,
      coordinate, retry, PoolType
<1>2. CASE LoseLeadership
  BY <1>2, Positions
  DEF LoseLeadership, Cancel, cluster, factory, pools, channels, vitals,
      coordinate, retry, PoolType
<1>3. CASE StopCRD
  BY <1>3, Positions
  DEF StopCRD, Cancel, cluster, factory, pools, channels, vitals, coordinate,
      retry, PoolType
<1>4. CASE ActivateDeferred
  BY <1>4, Positions
  DEF ActivateDeferred, ActivateCRD, StartCRDWorkers, cluster, factory,
      pools, channels, vitals, coordinate, retry, PoolType
<1>5. ASSUME NEW c \in CRDs, WorkersExit(c) PROVE PoolType'
  BY <1>5, Positions
  DEF WorkersExit, cluster, factory, pools, channels, vitals, coordinate,
      retry, PoolType
<1>6. ASSUME NEW c \in CRDs, DetectGone(c) PROVE PoolType'
  BY <1>6, Positions
  DEF DetectGone, Cancel, cluster, factory, pools, channels, vitals,
      coordinate, retry, PoolType
<1>7. ASSUME NEW c \in CRDs, RecoverPresent(c) PROVE PoolType'
  BY <1>7, Positions
  DEF RecoverPresent, ActivateCRD, StartCRDWorkers, cluster, factory, pools,
      channels, vitals, coordinate, retry, PoolType
<1>8. ASSUME NEW c \in CRDs, NEW d \in CRDs, CheckDependency(c, d)
      PROVE  PoolType'
  BY <1>8, Positions
  DEF CheckDependency, cluster, factory, pools, channels, vitals, coordinate,
      retry, PoolType
<1>9. CASE Signal
  BY <1>9
  DEF Signal, Cancel, cluster, factory, pools, channels, vitals, coordinate,
      retry, PoolType
<1>10. CASE UNCHANGED <<pool, unsatisfied>>
  BY <1>10
  DEF PoolType
<1> QED
  BY <1>1, <1>2, <1>3, <1>4, <1>5, <1>6, <1>7, <1>8, <1>9, <1>10
  DEF Next, Coordinate, RetryMissingCRDs, DependencyHealthChecker, Environment,
      RegistryShutdown, BootDone, StopBegins, StopWaitEnds, CoordinateReturns,
      CheckerReturns, RetryTick, DrainEnds, DetectDone, RecoverDone, Report,
      RetryReturns, Flip, LingeringExit, WorkerRecords, DetectSkip,
      RecoverAbsent, RecoverUnknown, TransientError, vars, cluster, factory,
      pools, channels, vitals, coordinate, retry

(* the flags, *)
LEMMA FlagStep ==
    ASSUME FlagType, [Next]_vars PROVE FlagType'
<1>1. CASE BootStep
  BY <1>1
  DEF BootStep, StartCRDWorkers, cluster, factory, pools, channels, vitals,
      coordinate, retry, FlagType
<1>2. CASE BootDone
  BY <1>2
  DEF BootDone, cluster, factory, pools, channels, vitals, coordinate, retry,
      FlagType
<1>3. CASE LoseLeadership
  BY <1>3
  DEF LoseLeadership, Cancel, cluster, factory, pools, channels, vitals,
      coordinate, retry, FlagType
<1>4. CASE StopBegins
  BY <1>4
  DEF StopBegins, cluster, factory, pools, channels, vitals, coordinate,
      retry, FlagType
<1>5. CASE CheckerReturns
  BY <1>5
  DEF CheckerReturns, cluster, factory, pools, channels, vitals, coordinate,
      retry, FlagType
<1>6. CASE RecoverDone
  BY <1>6
  DEF RecoverDone, cluster, factory, pools, channels, vitals, coordinate,
      retry, FlagType
<1>7. CASE Report
  BY <1>7
  DEF Report, cluster, factory, pools, channels, vitals, coordinate, retry,
      FlagType
<1>8. ASSUME NEW c \in CRDs, DetectGone(c) PROVE FlagType'
  BY <1>8
  DEF DetectGone, Cancel, cluster, factory, pools, channels, vitals,
      coordinate, retry, FlagType
<1>9. ASSUME NEW c \in CRDs, RecoverAbsent(c) PROVE FlagType'
  BY <1>9
  DEF RecoverAbsent, cluster, factory, pools, channels, vitals, coordinate,
      retry, FlagType
<1>10. ASSUME NEW c \in CRDs, NEW d \in CRDs, CheckDependency(c, d)
      PROVE  FlagType'
  BY <1>10
  DEF CheckDependency, cluster, factory, pools, channels, vitals, coordinate,
      retry, FlagType
<1>11. CASE Signal
  BY <1>11
  DEF Signal, Cancel, cluster, factory, pools, channels, vitals, coordinate,
      retry, FlagType
<1>12. CASE UNCHANGED <<panicked, online, lost, terminating, leading,
     checking>>
  BY <1>12
  DEF FlagType
<1> QED
  BY <1>1, <1>2, <1>3, <1>4, <1>5, <1>6, <1>7, <1>8, <1>9, <1>10, <1>11, <1>12
  DEF Next, Coordinate, RetryMissingCRDs, DependencyHealthChecker, Environment,
      RegistryShutdown, StopCRD, StopWaitEnds, CoordinateReturns, RetryTick,
      DrainEnds, DetectDone, ActivateDeferred, RetryReturns, Flip, WorkersExit,
      LingeringExit, WorkerRecords, DetectSkip, RecoverPresent, RecoverUnknown,
      TransientError, vars, cluster, factory, pools, channels, vitals,
      coordinate, retry

(* and the control. *)
LEMMA ControlStep ==
    ASSUME ControlType, [Next]_vars PROVE ControlType'
<1>1. CASE BootStep
  BY <1>1, BoundsAssumption, OrderLength
  DEF BootStep, StartCRDWorkers, cluster, factory, pools, channels, vitals,
      coordinate, retry, ControlType
<1>2. CASE BootDone
  BY <1>2, BoundsAssumption, OrderLength
  DEF BootDone, cluster, factory, pools, channels, vitals, coordinate, retry,
      ControlType
<1>3. CASE StopBegins
  BY <1>3, BoundsAssumption, OrderLength
  DEF StopBegins, cluster, factory, pools, channels, vitals, coordinate,
      retry, ControlType
<1>4. CASE StopCRD
  BY <1>4, BoundsAssumption, OrderLength
  DEF StopCRD, Cancel, cluster, factory, pools, channels, vitals, coordinate,
      retry, ControlType
<1>5. CASE StopWaitEnds
  BY <1>5, BoundsAssumption, OrderLength
  DEF StopWaitEnds, cluster, factory, pools, channels, vitals, coordinate,
      retry, ControlType
<1>6. CASE CoordinateReturns
  BY <1>6, BoundsAssumption, OrderLength
  DEF CoordinateReturns, cluster, factory, pools, channels, vitals,
      coordinate, retry, ControlType
<1>7. CASE RetryTick
  BY <1>7, BoundsAssumption, OrderLength
  DEF RetryTick, cluster, factory, pools, channels, vitals, coordinate,
      retry, ControlType
<1>8. CASE DrainEnds
  BY <1>8, BoundsAssumption, OrderLength
  DEF DrainEnds, cluster, factory, pools, channels, vitals, coordinate,
      retry, ControlType
<1>9. CASE DetectDone
  BY <1>9, BoundsAssumption, OrderLength
  DEF DetectDone, cluster, factory, pools, channels, vitals, coordinate,
      retry, ControlType
<1>10. CASE RecoverDone
  BY <1>10, BoundsAssumption, OrderLength
  DEF RecoverDone, cluster, factory, pools, channels, vitals, coordinate,
      retry, ControlType
<1>11. CASE ActivateDeferred
  BY <1>11, BoundsAssumption, OrderLength
  DEF ActivateDeferred, ActivateCRD, StartCRDWorkers, cluster, factory,
      pools, channels, vitals, coordinate, retry, ControlType
<1>12. CASE Report
  BY <1>12, BoundsAssumption, OrderLength
  DEF Report, cluster, factory, pools, channels, vitals, coordinate, retry,
      ControlType
<1>13. CASE RetryReturns
  BY <1>13, BoundsAssumption, OrderLength
  DEF RetryReturns, cluster, factory, pools, channels, vitals, coordinate,
      retry, ControlType
<1>14. ASSUME NEW c \in CRDs, Flip(c) PROVE ControlType'
  BY <1>14, BoundsAssumption, OrderLength
  DEF Flip, cluster, factory, pools, channels, vitals, coordinate, retry,
      ControlType
<1>15. ASSUME NEW c \in CRDs, DetectSkip(c) PROVE ControlType'
  BY <1>15, BoundsAssumption, OrderLength
  DEF DetectSkip, TransientError, cluster, factory, pools, channels, vitals,
      coordinate, retry, ControlType
<1>16. ASSUME NEW c \in CRDs, DetectGone(c) PROVE ControlType'
  BY <1>16, BoundsAssumption, OrderLength
  DEF DetectGone, Cancel, cluster, factory, pools, channels, vitals,
      coordinate, retry, ControlType
<1>17. ASSUME NEW c \in CRDs, RecoverUnknown(c) PROVE ControlType'
  BY <1>17, BoundsAssumption, OrderLength
  DEF RecoverUnknown, TransientError, cluster, factory, pools, channels,
      vitals, coordinate, retry, ControlType
<1>18. CASE UNCHANGED <<flips, errors, coord, idx, phase, at>>
  BY <1>18
  DEF ControlType
<1> QED
  BY <1>1, <1>2, <1>3, <1>4, <1>5, <1>6, <1>7, <1>8, <1>9, <1>10, <1>11,
      <1>12, <1>13, <1>14, <1>15, <1>16, <1>17, <1>18
  DEF Next, Coordinate, RetryMissingCRDs, DependencyHealthChecker, Environment,
      Signal, RegistryShutdown, LoseLeadership, CheckerReturns, WorkersExit,
      LingeringExit, WorkerRecords, RecoverPresent, RecoverAbsent,
      CheckDependency, vars, cluster, factory, pools, channels, vitals,
      coordinate, retry

(* While the start-up loop runs nobody else starts a CRD. *)
LEMMA BootStepAlone ==
    ASSUME ControlType, BootAlone, [Next]_vars PROVE BootAlone'
<1>1. CASE BootStep
  <2>1. idx \in 1 .. Len(StartupOrder) /\ idx' = idx + 1 /\ coord' = coord
    BY <1>1, Positions DEF BootStep, coordinate
  <2>2. phase' = phase /\ started' \subseteq started \cup {StartupOrder[idx]}
    BY <1>1 DEF BootStep, StartCRDWorkers, retry
  <2>3. \A i \in idx + 1 .. Len(StartupOrder) :
            StartupOrder[i] # StartupOrder[idx]
    BY <2>1, OrderAssumption, OrderLength
  <2> QED
    BY <1>1, <2>1, <2>2, <2>3, OrderLength DEF BootStep, BootAlone
<1>2. CASE BootDone
  BY <1>2, OrderAssumption, OrderLength
  DEF BootDone, cluster, factory, pools, channels, vitals, coordinate, retry,
      BootAlone, ControlType
<1>3. CASE StopBegins
  BY <1>3, OrderAssumption, OrderLength
  DEF StopBegins, cluster, factory, pools, channels, vitals, coordinate,
      retry, BootAlone, ControlType
<1>4. CASE StopCRD
  BY <1>4, OrderAssumption, OrderLength
  DEF StopCRD, Cancel, cluster, factory, pools, channels, vitals, coordinate,
      retry, BootAlone, ControlType
<1>5. CASE StopWaitEnds
  BY <1>5, OrderAssumption, OrderLength
  DEF StopWaitEnds, cluster, factory, pools, channels, vitals, coordinate,
      retry, BootAlone, ControlType
<1>6. CASE CoordinateReturns
  BY <1>6, OrderAssumption, OrderLength
  DEF CoordinateReturns, cluster, factory, pools, channels, vitals,
      coordinate, retry, BootAlone, ControlType
<1>7. CASE RetryTick
  BY <1>7, OrderAssumption, OrderLength
  DEF RetryTick, cluster, factory, pools, channels, vitals, coordinate,
      retry, BootAlone, ControlType
<1>8. CASE DrainEnds
  BY <1>8, OrderAssumption, OrderLength
  DEF DrainEnds, cluster, factory, pools, channels, vitals, coordinate,
      retry, BootAlone, ControlType
<1>9. CASE DetectDone
  BY <1>9, OrderAssumption, OrderLength
  DEF DetectDone, cluster, factory, pools, channels, vitals, coordinate,
      retry, BootAlone, ControlType
<1>10. CASE RecoverDone
  BY <1>10, OrderAssumption, OrderLength
  DEF RecoverDone, cluster, factory, pools, channels, vitals, coordinate,
      retry, BootAlone, ControlType
<1>11. CASE ActivateDeferred
  BY <1>11, OrderAssumption, OrderLength
  DEF ActivateDeferred, ActivateCRD, StartCRDWorkers, cluster, factory,
      pools, channels, vitals, coordinate, retry, BootAlone, ControlType
<1>12. CASE Report
  BY <1>12, OrderAssumption, OrderLength
  DEF Report, cluster, factory, pools, channels, vitals, coordinate, retry,
      BootAlone, ControlType
<1>13. CASE RetryReturns
  BY <1>13, OrderAssumption, OrderLength
  DEF RetryReturns, cluster, factory, pools, channels, vitals, coordinate,
      retry, BootAlone, ControlType
<1>14. ASSUME NEW c \in CRDs, DetectGone(c) PROVE BootAlone'
  BY <1>14, OrderAssumption, OrderLength
  DEF DetectGone, Cancel, cluster, factory, pools, channels, vitals,
      coordinate, retry, BootAlone, ControlType
<1>15. ASSUME NEW c \in CRDs, RecoverPresent(c) PROVE BootAlone'
  BY <1>15, OrderAssumption, OrderLength
  DEF RecoverPresent, ActivateCRD, StartCRDWorkers, cluster, factory, pools,
      channels, vitals, coordinate, retry, BootAlone, ControlType
<1>16. CASE UNCHANGED <<started, coord, idx, phase>>
  BY <1>16
  DEF BootAlone, ControlType
<1> QED
  BY <1>1, <1>2, <1>3, <1>4, <1>5, <1>6, <1>7, <1>8, <1>9, <1>10, <1>11,
      <1>12, <1>13, <1>14, <1>15, <1>16
  DEF Next, Coordinate, RetryMissingCRDs, DependencyHealthChecker, Environment,
      Signal, RegistryShutdown, LoseLeadership, CheckerReturns, Flip,
      WorkersExit, LingeringExit, WorkerRecords, DetectSkip, RecoverAbsent,
      RecoverUnknown, CheckDependency, TransientError, vars, cluster, factory,
      pools, channels, vitals, coordinate, retry

(* Only the checker closes health channels, and it marks each one. *)
LEMMA SignalsStep ==
    ASSUME ControlType, Signals, [Next]_vars PROVE Signals'
<1>1. CASE ActivateDeferred
  BY <1>1, NoBackEdge, Positions
  DEF ActivateDeferred, ActivateCRD, StartCRDWorkers, cluster, factory,
      pools, channels, vitals, coordinate, retry, Signals
<1>2. ASSUME NEW c \in CRDs, RecoverPresent(c) PROVE Signals'
  BY <1>2, NoBackEdge, Positions
  DEF RecoverPresent, ActivateCRD, StartCRDWorkers, cluster, factory, pools,
      channels, vitals, coordinate, retry, Signals
<1>3. ASSUME NEW c \in CRDs, NEW d \in CRDs, CheckDependency(c, d)
      PROVE  Signals'
  BY <1>3, NoBackEdge, Positions
  DEF CheckDependency, cluster, factory, pools, channels, vitals, coordinate,
      retry, Signals
<1>4. CASE UNCHANGED <<healthyCh, signaled>>
  BY <1>4
  DEF Signals
<1> QED
  BY <1>1, <1>2, <1>3, <1>4
  DEF Next, Coordinate, RetryMissingCRDs, DependencyHealthChecker, Environment,
      Signal, RegistryShutdown, BootStep, BootDone, LoseLeadership, StopBegins,
      StopCRD, StopWaitEnds, CoordinateReturns, CheckerReturns, RetryTick,
      DrainEnds, DetectDone, RecoverDone, Report, RetryReturns, Flip,
      WorkersExit, LingeringExit, WorkerRecords, DetectSkip, DetectGone,
      RecoverAbsent, RecoverUnknown, TransientError, vars, cluster, factory,
      pools, channels, vitals, coordinate, retry

(* Workers, health and gates are only of CRDs that have been started. *)
LEMMA StartedStep ==
    ASSUME SetsType, PoolType, ControlType, StartedFirst, [Next]_vars
    PROVE  StartedFirst'
<1>1. CASE BootStep
  BY <1>1, Positions, NoBackEdge
  DEF BootStep, StartCRDWorkers, cluster, factory, pools, channels, vitals,
      coordinate, retry, SetsType, PoolType, StartedFirst
<1>2. CASE LoseLeadership
  BY <1>2, Positions, NoBackEdge
  DEF LoseLeadership, Cancel, cluster, factory, pools, channels, vitals,
      coordinate, retry, SetsType, PoolType, StartedFirst
<1>3. CASE StopCRD
  BY <1>3, Positions, NoBackEdge
  DEF StopCRD, Cancel, cluster, factory, pools, channels, vitals, coordinate,
      retry, SetsType, PoolType, StartedFirst
<1>4. CASE ActivateDeferred
  BY <1>4, Positions, NoBackEdge
  DEF ActivateDeferred, ActivateCRD, StartCRDWorkers, cluster, factory,
      pools, channels, vitals, coordinate, retry, SetsType, PoolType,
      StartedFirst
<1>5. ASSUME NEW c \in CRDs, WorkersExit(c) PROVE StartedFirst'
  BY <1>5, Positions, NoBackEdge
  DEF WorkersExit, cluster, factory, pools, channels, vitals, coordinate,
      retry, SetsType, PoolType, StartedFirst
<1>6. ASSUME NEW c \in CRDs, LingeringExit(c) PROVE StartedFirst'
  BY <1>6, Positions, NoBackEdge
  DEF LingeringExit, cluster, factory, pools, channels, vitals, coordinate,
      retry, SetsType, PoolType, StartedFirst
<1>7. ASSUME NEW c \in CRDs, WorkerRecords(c) PROVE StartedFirst'
  BY <1>7, Positions, NoBackEdge
  DEF WorkerRecords, cluster, factory, pools, channels, vitals, coordinate,
      retry, SetsType, PoolType, StartedFirst
<1>8. ASSUME NEW c \in CRDs, DetectGone(c) PROVE StartedFirst'
  BY <1>8, Positions, NoBackEdge
  DEF DetectGone, Cancel, cluster, factory, pools, channels, vitals,
      coordinate, retry, SetsType, PoolType, StartedFirst
<1>9. ASSUME NEW c \in CRDs, RecoverPresent(c) PROVE StartedFirst'
  BY <1>9, Positions, NoBackEdge
  DEF RecoverPresent, ActivateCRD, StartCRDWorkers, cluster, factory, pools,
      channels, vitals, coordinate, retry, SetsType, PoolType, StartedFirst
<1>10. ASSUME NEW c \in CRDs, RecoverAbsent(c) PROVE StartedFirst'
  BY <1>10, Positions, NoBackEdge
  DEF RecoverAbsent, cluster, factory, pools, channels, vitals, coordinate,
      retry, SetsType, PoolType, StartedFirst
<1>11. ASSUME NEW c \in CRDs, NEW d \in CRDs, CheckDependency(c, d)
      PROVE  StartedFirst'
  BY <1>11, Positions, NoBackEdge
  DEF CheckDependency, cluster, factory, pools, channels, vitals, coordinate,
      retry, SetsType, PoolType, StartedFirst
<1>12. CASE Signal
  BY <1>12
  DEF Signal, Cancel, cluster, factory, pools, channels, vitals, coordinate,
      retry, SetsType, PoolType, StartedFirst
<1>13. CASE UNCHANGED <<started, pool, lingering, startedCh, healthyCh,
     signaled, healthy>>
  BY <1>13
  DEF SetsType, PoolType, StartedFirst
<1> QED
  BY <1>1, <1>2, <1>3, <1>4, <1>5, <1>6, <1>7, <1>8, <1>9, <1>10, <1>11, <1>12,
      <1>13
  DEF Next, Coordinate, RetryMissingCRDs, DependencyHealthChecker, Environment,
      RegistryShutdown, BootDone, StopBegins, StopWaitEnds, CoordinateReturns,
      CheckerReturns, RetryTick, DrainEnds, DetectDone, RecoverDone, Report,
      RetryReturns, Flip, DetectSkip, RecoverUnknown, TransientError, vars,
      cluster, factory, pools, channels, vitals, coordinate, retry

(* No close comes second. *)
LEMMA CloseStep ==
    ASSUME ControlType, BootAlone, Signals, StartedFirst, NoDoubleClose,
           [Next]_vars
    PROVE  NoDoubleClose'
<1>1. CASE BootStep
  <2>1. idx \in 1 .. Len(StartupOrder) /\ coord = "boot"
    BY <1>1, Positions DEF BootStep
  <2>2. StartupOrder[idx] \notin startedCh
    BY <2>1, OrderLength DEF BootAlone, StartedFirst
  <2> QED
    BY <1>1, <2>2 DEF BootStep, NoDoubleClose
<1>2. ASSUME NEW c \in CRDs, NEW d \in CRDs, CheckDependency(c, d)
      PROVE  NoDoubleClose'
  BY <1>2, OrderLength
  DEF CheckDependency, cluster, factory, pools, channels, vitals, coordinate,
      retry, NoDoubleClose, Signals
<1>3. CASE UNCHANGED <<panicked>>
  BY <1>3
  DEF NoDoubleClose, Signals
<1> QED
  BY <1>1, <1>2, <1>3
  DEF Next, Coordinate, RetryMissingCRDs, DependencyHealthChecker, Environment,
      Signal, RegistryShutdown, BootDone, LoseLeadership, StopBegins, StopCRD,
      StopWaitEnds, CoordinateReturns, CheckerReturns, RetryTick, DrainEnds,
      DetectDone, RecoverDone, ActivateDeferred, Report, RetryReturns, Flip,
      WorkersExit, LingeringExit, WorkerRecords, DetectSkip, DetectGone,
      RecoverPresent, RecoverAbsent, RecoverUnknown, TransientError, vars,
      cluster, factory, pools, channels, vitals, coordinate, retry

(* Coordinate shuts the queues down from the end of the order. *)
LEMMA StopStep ==
    ASSUME SetsType, ControlType, StopExact, [Next]_vars PROVE StopExact'
<1>1. CASE BootStep
  BY <1>1, OrderAssumption, OrderLength
  DEF BootStep, StartCRDWorkers, cluster, factory, pools, channels, vitals,
      coordinate, retry, StopExact, StopTail, ControlType
<1>2. CASE BootDone
  BY <1>2, OrderAssumption, OrderLength
  DEF BootDone, cluster, factory, pools, channels, vitals, coordinate, retry,
      StopExact, StopTail, ControlType
<1>3. CASE StopBegins
  BY <1>3, OrderAssumption, OrderLength
  DEF StopBegins, cluster, factory, pools, channels, vitals, coordinate,
      retry, StopExact, StopTail, ControlType
<1>4. CASE StopCRD
  <2>1. idx \in 1 .. Len(StartupOrder) /\ coord = "stop"
    BY <1>4, Positions, OrderLength DEF StopCRD, ControlType
  <2>2. queueDown' = queueDown \cup {StartupOrder[idx]}
    BY <1>4 DEF StopCRD
  <2>3. \/ coord' = "drain" /\ idx' = idx
        \/ coord' = "stop" /\ idx' = idx - 1
    BY <1>4 DEF StopCRD
  <2>4. \A j \in 1 .. Len(StartupOrder) :
            StopTail(j)' <=> StopTail(j) \/ j = idx
    BY <2>1, <2>3, OrderLength DEF StopTail
  <2>5. \A j \in 1 .. Len(StartupOrder) :
            StartupOrder[j] = StartupOrder[idx] => j = idx
    BY <2>1, OrderAssumption
  <2> QED
    BY <1>4, <2>1, <2>2, <2>3, <2>4, <2>5 DEF StopCRD, StopExact
<1>5. CASE StopWaitEnds
  <2>1. /\ coord = "drain" /\ coord' = "stop"
        /\ idx' = idx - 1 /\ queueDown' = queueDown
    BY <1>5 DEF StopWaitEnds, pools
  <2>2. \A j \in 1 .. Len(StartupOrder) : StopTail(j)' <=> StopTail(j)
    BY <2>1, OrderLength DEF StopTail, ControlType
  <2> QED
    BY <1>5, <2>1, <2>2 DEF StopWaitEnds, StopExact
<1>6. CASE CoordinateReturns
  BY <1>6, OrderAssumption, OrderLength
  DEF CoordinateReturns, cluster, factory, pools, channels, vitals,
      coordinate, retry, StopExact, StopTail, ControlType
<1>7. CASE Signal
  BY <1>7
  DEF Signal, StopExact
<1>8. ASSUME NEW c \in CRDs, RegistryShutdown(c) PROVE StopExact'
  BY <1>8
  DEF RegistryShutdown, coordinate, StopExact
<1>9. CASE UNCHANGED <<queueDown, coord, idx, terminating>>
  BY <1>9
  DEF StopExact, StopTail, ControlType
<1> QED
  BY <1>1, <1>2, <1>3, <1>4, <1>5, <1>6, <1>7, <1>8, <1>9
  DEF Next, Coordinate, RetryMissingCRDs, DependencyHealthChecker,
      Environment, LoseLeadership, CheckerReturns, RetryTick, DrainEnds,
      DetectDone, RecoverDone, ActivateDeferred, Report, RetryReturns, Flip,
      WorkersExit, LingeringExit, WorkerRecords, DetectSkip, DetectGone,
      RecoverPresent, RecoverAbsent, RecoverUnknown, CheckDependency,
      TransientError, vars, cluster, factory, pools, channels, vitals,
      coordinate, retry

(* What is on record as missing has no live workers. *)
LEMMA IdleStep ==
    ASSUME SetsType, PoolType, ControlType, BootAlone, MissingIdle, [Next]_vars
    PROVE  MissingIdle'
<1>1. CASE BootStep
  BY <1>1, Positions
  DEF BootStep, StartCRDWorkers, cluster, factory, pools, channels, vitals,
      coordinate, retry, SetsType, PoolType, BootAlone, MissingIdle, Idle
<1>2. CASE BootDone
  BY <1>2, Positions
  DEF BootDone, cluster, factory, pools, channels, vitals, coordinate, retry,
      SetsType, PoolType, BootAlone, MissingIdle, Idle
<1>3. CASE LoseLeadership
  BY <1>3, Positions
  DEF LoseLeadership, Cancel, cluster, factory, pools, channels, vitals,
      coordinate, retry, SetsType, PoolType, BootAlone, MissingIdle, Idle
<1>4. CASE StopBegins
  BY <1>4, Positions
  DEF StopBegins, cluster, factory, pools, channels, vitals, coordinate,
      retry, SetsType, PoolType, BootAlone, MissingIdle, Idle
<1>5. CASE StopCRD
  BY <1>5, Positions
  DEF StopCRD, Cancel, cluster, factory, pools, channels, vitals, coordinate,
      retry, SetsType, PoolType, BootAlone, MissingIdle, Idle
<1>6. CASE StopWaitEnds
  BY <1>6, Positions
  DEF StopWaitEnds, cluster, factory, pools, channels, vitals, coordinate,
      retry, SetsType, PoolType, BootAlone, MissingIdle, Idle
<1>7. CASE CoordinateReturns
  BY <1>7, Positions
  DEF CoordinateReturns, cluster, factory, pools, channels, vitals,
      coordinate, retry, SetsType, PoolType, BootAlone, MissingIdle, Idle
<1>8. CASE RetryTick
  BY <1>8, Positions
  DEF RetryTick, cluster, factory, pools, channels, vitals, coordinate,
      retry, SetsType, PoolType, BootAlone, MissingIdle, Idle
<1>9. CASE DrainEnds
  BY <1>9, Positions
  DEF DrainEnds, cluster, factory, pools, channels, vitals, coordinate,
      retry, SetsType, PoolType, BootAlone, MissingIdle, Idle
<1>10. CASE DetectDone
  BY <1>10, Positions
  DEF DetectDone, cluster, factory, pools, channels, vitals, coordinate,
      retry, SetsType, PoolType, BootAlone, MissingIdle, Idle
<1>11. CASE RecoverDone
  BY <1>11, Positions
  DEF RecoverDone, cluster, factory, pools, channels, vitals, coordinate,
      retry, SetsType, PoolType, BootAlone, MissingIdle, Idle
<1>12. CASE ActivateDeferred
  BY <1>12, Positions
  DEF ActivateDeferred, ActivateCRD, StartCRDWorkers, cluster, factory,
      pools, channels, vitals, coordinate, retry, SetsType, PoolType,
      BootAlone, MissingIdle, Idle
<1>13. CASE Report
  BY <1>13, Positions
  DEF Report, cluster, factory, pools, channels, vitals, coordinate, retry,
      SetsType, PoolType, BootAlone, MissingIdle, Idle
<1>14. CASE RetryReturns
  BY <1>14, Positions
  DEF RetryReturns, cluster, factory, pools, channels, vitals, coordinate,
      retry, SetsType, PoolType, BootAlone, MissingIdle, Idle
<1>15. ASSUME NEW c \in CRDs, WorkersExit(c) PROVE MissingIdle'
  BY <1>15, Positions
  DEF WorkersExit, cluster, factory, pools, channels, vitals, coordinate,
      retry, SetsType, PoolType, BootAlone, MissingIdle, Idle
<1>16. ASSUME NEW c \in CRDs, DetectSkip(c) PROVE MissingIdle'
  BY <1>16, Positions
  DEF DetectSkip, TransientError, cluster, factory, pools, channels, vitals,
      coordinate, retry, SetsType, PoolType, BootAlone, MissingIdle, Idle
<1>17. ASSUME NEW c \in CRDs, DetectGone(c) PROVE MissingIdle'
  BY <1>17, Positions
  DEF DetectGone, Cancel, cluster, factory, pools, channels, vitals,
      coordinate, retry, SetsType, PoolType, BootAlone, MissingIdle, Idle
<1>18. ASSUME NEW c \in CRDs, RecoverPresent(c) PROVE MissingIdle'
  BY <1>18, Positions
  DEF RecoverPresent, ActivateCRD, StartCRDWorkers, cluster, factory, pools,
      channels, vitals, coordinate, retry, SetsType, PoolType, BootAlone,
      MissingIdle, Idle
<1>19. ASSUME NEW c \in CRDs, RecoverAbsent(c) PROVE MissingIdle'
  BY <1>19, Positions
  DEF RecoverAbsent, cluster, factory, pools, channels, vitals, coordinate,
      retry, SetsType, PoolType, BootAlone, MissingIdle, Idle
<1>20. ASSUME NEW c \in CRDs, RecoverUnknown(c) PROVE MissingIdle'
  BY <1>20, Positions
  DEF RecoverUnknown, TransientError, cluster, factory, pools, channels,
      vitals, coordinate, retry, SetsType, PoolType, BootAlone, MissingIdle,
      Idle
<1>21. CASE Signal
  BY <1>21
  DEF Signal, Cancel, cluster, factory, pools, channels, vitals, coordinate,
      retry, SetsType, PoolType, BootAlone, MissingIdle, Idle
<1>22. CASE UNCHANGED <<missing, pool, deactivated, coord, phase, todo,
     runtimeMissing, stillMissing>>
  BY <1>22
  DEF SetsType, PoolType, BootAlone, MissingIdle, Idle
<1> QED
  BY <1>1, <1>2, <1>3, <1>4, <1>5, <1>6, <1>7, <1>8, <1>9, <1>10, <1>11, <1>12,
      <1>13, <1>14, <1>15, <1>16, <1>17, <1>18, <1>19, <1>20, <1>21, <1>22
  DEF Next, Coordinate, RetryMissingCRDs, DependencyHealthChecker, Environment,
      RegistryShutdown, CheckerReturns, Flip, LingeringExit, WorkerRecords,
      CheckDependency, vars, cluster, factory, pools, channels, vitals,
      coordinate, retry


(* Phase 2 works on a copy of the missing map that only phase 2 shrinks. *)
LEMMA RecoverStep ==
    ASSUME RecoverTodo, [Next]_vars PROVE RecoverTodo'
<1>1. CASE RetryTick
  BY <1>1 DEF RetryTick, pools, factory, retry, RecoverTodo
<1>2. CASE DetectDone
  BY <1>2 DEF DetectDone, pools, factory, retry, RecoverTodo
<1>3. CASE RecoverDone
  BY <1>3 DEF RecoverDone, pools, factory, retry, RecoverTodo
<1>4. CASE DrainEnds
  BY <1>4 DEF DrainEnds, pools, factory, retry, RecoverTodo
<1>5. CASE ActivateDeferred
  BY <1>5 DEF ActivateDeferred, ActivateCRD, StartCRDWorkers, pools, factory,
      retry, RecoverTodo
<1>6. CASE Report
  BY <1>6 DEF Report, pools, factory, retry, RecoverTodo
<1>7. CASE RetryReturns
  BY <1>7 DEF RetryReturns, pools, factory, retry, RecoverTodo
<1>8. ASSUME NEW c \in CRDs, DetectSkip(c) PROVE RecoverTodo'
  BY <1>8 DEF DetectSkip, TransientError, pools, factory, retry, RecoverTodo
<1>9. ASSUME NEW c \in CRDs, DetectGone(c) PROVE RecoverTodo'
  BY <1>9 DEF DetectGone, Cancel, pools, factory, retry, RecoverTodo
<1>10. ASSUME NEW c \in CRDs, RecoverPresent(c) PROVE RecoverTodo'
  BY <1>10 DEF RecoverPresent, ActivateCRD, StartCRDWorkers, pools, factory,
      retry, RecoverTodo
<1>11. ASSUME NEW c \in CRDs, RecoverAbsent(c) PROVE RecoverTodo'
  BY <1>11 DEF RecoverAbsent, pools, factory, retry, RecoverTodo
<1>12. ASSUME NEW c \in CRDs, RecoverUnknown(c) PROVE RecoverTodo'
  BY <1>12 DEF RecoverUnknown, TransientError, pools, factory, retry,
      RecoverTodo
<1>13. CASE UNCHANGED <<missing, phase, todo>>
  BY <1>13 DEF RecoverTodo
<1> QED
  BY <1>1, <1>2, <1>3, <1>4, <1>5, <1>6, <1>7, <1>8, <1>9, <1>10, <1>11, <1>12,
      <1>13
  DEF Next, Coordinate, RetryMissingCRDs, DependencyHealthChecker, Environment,
      Signal, RegistryShutdown, BootStep, BootDone, LoseLeadership, StopBegins,
      StopCRD, StopWaitEnds, CoordinateReturns, CheckerReturns, Flip,
      WorkersExit, LingeringExit, WorkerRecords, CheckDependency, vars,
      factory, retry


(* The invariant holds initially and every step keeps each of its parts.   *)
LEMMA Invariance == Spec => []Inv
<1>1. Init => Inv
  <2> SUFFICES ASSUME Init PROVE Inv
    OBVIOUS
  <2>1. SetsType
    BY FlakyAssumption DEF Init, SetsType
  <2>2. PoolType
    BY DEF Init, PoolType
  <2>3. FlagType
    BY DEF Init, FlagType
  <2>4. ControlType
    BY BoundsAssumption, OrderLength DEF Init, ControlType
  <2>5. BootAlone /\ Signals /\ StopExact /\ RecoverTodo /\ NoDoubleClose
    BY DEF Init, BootAlone, Signals, StopExact, RecoverTodo, NoDoubleClose
  <2>6. StartedFirst /\ MissingIdle
    BY FlakyAssumption DEF Init, StartedFirst, MissingIdle, Idle
  <2> QED
    BY <2>1, <2>2, <2>3, <2>4, <2>5, <2>6 DEF Inv, Types
<1>2. Inv /\ [Next]_vars => Inv'
  BY SetsStep, PoolTypeStep, FlagStep, ControlStep, BootStepAlone, SignalsStep,
     StartedStep, CloseStep, StopStep, IdleStep, RecoverStep
  DEF Inv, Types
<1> QED
  BY <1>1, <1>2, PTL DEF Spec

(* The coordinator's tables, flags and loop positions keep their types for *)
(* every catalog, every set of absent CRDs and any number of errors.       *)
THEOREM TypeCorrect == Spec => []TypeOK
<1>1. Inv => TypeOK
  BY DEF Inv, Types, SetsType, PoolType, FlagType, ControlType, TypeOK
<1> QED
  BY <1>1, Invariance, PTL

(* No start or health channel is closed twice, for every acyclic catalog   *)
(* and every interleaving of Coordinate, the retry loop and the checker.   *)
THEOREM ClosedOnce == Spec => []NoDoubleClose
<1>1. Inv => NoDoubleClose
  BY DEF Inv
<1> QED
  BY <1>1, Invariance, PTL

(* Until the process is signalled, stopCRDWorkers reaches the queue of a   *)
(* CRD after those of its dependents, for every catalog, whenever          *)
(* leadership is lost.                                                     *)
THEOREM StopsInOrder == Spec => []QueuesStopInOrder
<1>1. Inv => QueuesStopInOrder
  <2> SUFFICES ASSUME Inv, ~terminating, NEW c \in queueDown,
                      NEW e \in Edges(c)
               PROVE  e \in queueDown
    BY DEF QueuesStopInOrder
  <2>1. PICK i \in 1 .. Len(StartupOrder) : StartupOrder[i] = c
    BY OrderAssumption DEF Inv, Types, SetsType
  <2>2. PICK j \in 1 .. Len(StartupOrder) : StartupOrder[j] = e
    BY OrderAssumption DEF Edges
  <2>3. i < j
    BY <2>1, <2>2, OrderAssumption DEF Edges
  <2>4. coord \in {"stop", "drain", "ended"} /\ StopTail(i)
    BY <2>1 DEF Inv, Types, ControlType, StopExact
  <2>5. StopTail(j)
    BY <2>3, <2>4, OrderLength DEF StopTail, Inv, Types, ControlType
  <2> QED
    BY <2>2, <2>4, <2>5 DEF Inv, StopExact
<1> QED
  BY <1>1, Invariance, PTL


(* Whoever starts workers finds no live pool of the CRD: for every catalog *)
(* and any sequence of disappearances, drain time-outs and returns.        *)
THEOREM OnePool == Spec => NoSecondPool
<1> DEFINE Second ==
      \A c \in CRDs : c \in lingering' \ lingering => pool[c] = "cancelled"
<1>1. Inv /\ [Next]_vars => Second
  <2> SUFFICES ASSUME Inv, [Next]_vars PROVE Second
    OBVIOUS
  <2>1. CASE BootStep
    <3>1. /\ idx \in 1 .. Len(StartupOrder) /\ StartupOrder[idx] \in CRDs
          /\ coord = "boot"
      BY <2>1, Positions DEF BootStep, Inv, Types
    <3>2. pool[StartupOrder[idx]] = "none"
      BY <3>1, OrderLength DEF Inv, BootAlone, StartedFirst
    <3> QED
      BY <2>1, <3>2 DEF BootStep, StartCRDWorkers
  <2>2. CASE ActivateDeferred
    <3>1. ASSUME StartupOrder[at] \notin started, at <= Len(StartupOrder)
          PROVE  pool[StartupOrder[at]] = "none"
      BY <3>1, Positions DEF Inv, Types, StartedFirst
    <3> QED
      BY <2>2, <3>1 DEF ActivateDeferred, ActivateCRD, StartCRDWorkers
  <2>3. ASSUME NEW c \in CRDs, RecoverPresent(c) PROVE Second
    BY <2>3
    DEF RecoverPresent, ActivateCRD, StartCRDWorkers, Inv, Types, PoolType,
        MissingIdle, Idle
  <2>4. ASSUME NEW c \in CRDs, LingeringExit(c) PROVE Second
    BY <2>4 DEF LingeringExit
  <2>5. CASE UNCHANGED lingering
    BY <2>5
  <2> QED
    BY <2>1, <2>2, <2>3, <2>4, <2>5
    DEF Next, Coordinate, RetryMissingCRDs, DependencyHealthChecker,
        Environment, Signal, RegistryShutdown, BootDone, LoseLeadership,
        StopBegins, StopCRD, StopWaitEnds, CoordinateReturns, CheckerReturns,
        RetryTick, DrainEnds, DetectDone, RecoverDone, Report, RetryReturns,
        Flip, WorkersExit, WorkerRecords, DetectSkip, DetectGone,
        RecoverAbsent, RecoverUnknown, CheckDependency, vars, cluster, factory,
        pools, channels, vitals, coordinate, retry
<1>2. Inv /\ [Next]_vars => [Second]_vars
  BY <1>1
<1> QED
  BY <1>2, Invariance, PTL DEF Spec, NoSecondPool

(* The start-up loop and phase 3 of the retry loop start a CRD after the   *)
(* CRDs it depends on, healthy where it asks for it, for every catalog and *)
(* however CRDs come and go; only what phase 2 finds in the missing map    *)
(* may start without them.                                                 *)
THEOREM StartsAfterDependencies == Spec => StartsInOrder
<1> DEFINE Met(c) ==
      \A d \in DependsOn[c] :
          d \in started /\ (<<c, d>> \in HealthyDeps => d \in signaled)
<1> DEFINE Ordered == \A c \in started' \ started : c \notin missing => Met(c)
<1>1. Inv => \A c \in CRDs : DependenciesReady(c) => Met(c)
  BY DEF Inv, DependenciesReady, StartedFirst, Signals
<1>2. Inv /\ [Next]_vars => Ordered
  <2> SUFFICES ASSUME Inv, [Next]_vars PROVE Ordered
    OBVIOUS
  <2>1. CASE BootStep
    <3>1. StartupOrder[idx] \in CRDs
      BY <2>1, Positions DEF BootStep, Inv, Types
    <3>2. \/ started' = started
          \/ /\ started' = started \cup {StartupOrder[idx]}
             /\ DependenciesReady(StartupOrder[idx])
      BY <2>1 DEF BootStep, StartCRDWorkers
    <3> QED
      BY <1>1, <3>1, <3>2
  <2>2. CASE ActivateDeferred
    <3>1. StartupOrder[at] \in CRDs
      BY <2>2, Positions DEF ActivateDeferred, Inv, Types
    <3>2. \/ started' = started
          \/ /\ started' = started \cup {StartupOrder[at]}
             /\ DependenciesReady(StartupOrder[at])
      BY <2>2 DEF ActivateDeferred, ActivateCRD, StartCRDWorkers
    <3> QED
      BY <1>1, <3>1, <3>2
  <2>3. ASSUME NEW c \in CRDs, RecoverPresent(c) PROVE Ordered
    <3>1. c \in missing
      BY <2>3 DEF RecoverPresent, Inv, RecoverTodo
    <3>2. started' = started \cup {c}
      BY <2>3 DEF RecoverPresent, ActivateCRD, StartCRDWorkers
    <3> QED
      BY <3>1, <3>2
  <2>4. CASE UNCHANGED started
    BY <2>4
  <2> QED
    BY <2>1, <2>2, <2>3, <2>4
    DEF Next, Coordinate, RetryMissingCRDs, DependencyHealthChecker,
        Environment, Signal, RegistryShutdown, BootDone, LoseLeadership,
        StopBegins, StopCRD, StopWaitEnds, CoordinateReturns, CheckerReturns,
        RetryTick, DrainEnds, DetectDone, RecoverDone, Report, RetryReturns,
        Flip, WorkersExit, LingeringExit, WorkerRecords, DetectSkip,
        DetectGone, RecoverAbsent, RecoverUnknown, CheckDependency, vars,
        cluster, factory, pools, channels, vitals, coordinate, retry
<1>3. Inv /\ [Next]_vars => [Ordered]_vars
  BY <1>2
<1> QED
  BY <1>3, Invariance, PTL DEF Spec, StartsInOrder

-----------------------------------------------------------------------------
(* A started CRD stays served or marked missing. *)
LEMMA AccountedStep ==
    ASSUME SetsType, PoolType, ControlType, Accounted, [Next]_vars
    PROVE  Accounted'
<1>1. CASE BootStep
  BY <1>1, Positions
  DEF BootStep, StartCRDWorkers, cluster, factory, pools, channels, vitals,
      coordinate, retry, SetsType, PoolType, Accounted
<1>2. CASE BootDone
  BY <1>2, Positions
  DEF BootDone, cluster, factory, pools, channels, vitals, coordinate, retry,
      SetsType, PoolType, Accounted
<1>3. CASE LoseLeadership
  BY <1>3, Positions
  DEF LoseLeadership, Cancel, cluster, factory, pools, channels, vitals,
      coordinate, retry, SetsType, PoolType, Accounted
<1>4. CASE StopBegins
  BY <1>4, Positions
  DEF StopBegins, cluster, factory, pools, channels, vitals, coordinate,
      retry, SetsType, PoolType, Accounted
<1>5. CASE StopCRD
  BY <1>5, Positions
  DEF StopCRD, Cancel, cluster, factory, pools, channels, vitals, coordinate,
      retry, SetsType, PoolType, Accounted
<1>6. CASE StopWaitEnds
  BY <1>6, Positions
  DEF StopWaitEnds, cluster, factory, pools, channels, vitals, coordinate,
      retry, SetsType, PoolType, Accounted
<1>7. CASE CoordinateReturns
  BY <1>7, Positions
  DEF CoordinateReturns, cluster, factory, pools, channels, vitals,
      coordinate, retry, SetsType, PoolType, Accounted
<1>8. CASE RetryTick
  BY <1>8, Positions
  DEF RetryTick, cluster, factory, pools, channels, vitals, coordinate,
      retry, SetsType, PoolType, Accounted
<1>9. CASE DrainEnds
  BY <1>9, Positions
  DEF DrainEnds, cluster, factory, pools, channels, vitals, coordinate,
      retry, SetsType, PoolType, Accounted
<1>10. CASE DetectDone
  BY <1>10, Positions
  DEF DetectDone, cluster, factory, pools, channels, vitals, coordinate,
      retry, SetsType, PoolType, Accounted
<1>11. CASE RecoverDone
  BY <1>11, Positions
  DEF RecoverDone, cluster, factory, pools, channels, vitals, coordinate,
      retry, SetsType, PoolType, Accounted
<1>12. CASE ActivateDeferred
  BY <1>12, Positions
  DEF ActivateDeferred, ActivateCRD, StartCRDWorkers, cluster, factory,
      pools, channels, vitals, coordinate, retry, SetsType, PoolType,
      Accounted
<1>13. CASE Report
  BY <1>13, Positions
  DEF Report, cluster, factory, pools, channels, vitals, coordinate, retry,
      SetsType, PoolType, Accounted
<1>14. CASE RetryReturns
  BY <1>14, Positions
  DEF RetryReturns, cluster, factory, pools, channels, vitals, coordinate,
      retry, SetsType, PoolType, Accounted
<1>15. ASSUME NEW c \in CRDs, WorkersExit(c) PROVE Accounted'
  BY <1>15, Positions
  DEF WorkersExit, cluster, factory, pools, channels, vitals, coordinate,
      retry, SetsType, PoolType, Accounted
<1>16. ASSUME NEW c \in CRDs, DetectSkip(c) PROVE Accounted'
  BY <1>16, Positions
  DEF DetectSkip, TransientError, cluster, factory, pools, channels, vitals,
      coordinate, retry, SetsType, PoolType, Accounted
<1>17. ASSUME NEW c \in CRDs, DetectGone(c) PROVE Accounted'
  <2>1. \A d \in CRDs : d # c => pool'[d] = pool[d]
    BY <1>17 DEF DetectGone, Cancel, PoolType
  <2>2. /\ entryMissing' = entryMissing \cup {c} /\ coord' = coord
        /\ started' = started /\ neverStarted' = neverStarted /\ lost' = lost
    BY <1>17 DEF DetectGone, coordinate
  <2> QED
    BY <2>1, <2>2 DEF Accounted, SetsType
<1>18. ASSUME NEW c \in CRDs, RecoverPresent(c) PROVE Accounted'
  BY <1>18, Positions
  DEF RecoverPresent, ActivateCRD, StartCRDWorkers, cluster, factory, pools,
      channels, vitals, coordinate, retry, SetsType, PoolType, Accounted
<1>19. ASSUME NEW c \in CRDs, RecoverAbsent(c) PROVE Accounted'
  BY <1>19, Positions
  DEF RecoverAbsent, cluster, factory, pools, channels, vitals, coordinate,
      retry, SetsType, PoolType, Accounted
<1>20. ASSUME NEW c \in CRDs, RecoverUnknown(c) PROVE Accounted'
  BY <1>20, Positions
  DEF RecoverUnknown, TransientError, cluster, factory, pools, channels,
      vitals, coordinate, retry, SetsType, PoolType, Accounted
<1>21. CASE Signal
  BY <1>21
  DEF Signal, Cancel, cluster, factory, pools, channels, vitals, coordinate,
      retry, SetsType, PoolType, Accounted
<1>22. CASE UNCHANGED <<entryMissing, neverStarted, started, pool, coord,
     lost>>
  BY <1>22
  DEF SetsType, PoolType, Accounted
<1> QED
  BY <1>1, <1>2, <1>3, <1>4, <1>5, <1>6, <1>7, <1>8, <1>9, <1>10, <1>11, <1>12,
      <1>13, <1>14, <1>15, <1>16, <1>17, <1>18, <1>19, <1>20, <1>21, <1>22
  DEF Next, Coordinate, RetryMissingCRDs, DependencyHealthChecker, Environment,
      RegistryShutdown, CheckerReturns, Flip, LingeringExit, WorkerRecords,
      CheckDependency, vars, cluster, factory, pools, channels, vitals,
      coordinate, retry

(* The catalog is online only when nothing is on record as missing. *)
LEMMA ReadinessStep ==
    ASSUME SetsType, ControlType, BootAlone, Accounted, Readiness, [Next]_vars
    PROVE  Readiness'
<1>1. CASE BootStep
  BY <1>1, Positions
  DEF BootStep, StartCRDWorkers, cluster, factory, pools, channels, vitals,
      coordinate, retry, SetsType, BootAlone, Readiness
<1>2. CASE BootDone
  BY <1>2, Positions
  DEF BootDone, cluster, factory, pools, channels, vitals, coordinate, retry,
      SetsType, BootAlone, Readiness
<1>3. CASE StopBegins
  BY <1>3, Positions
  DEF StopBegins, cluster, factory, pools, channels, vitals, coordinate,
      retry, SetsType, BootAlone, Readiness
<1>4. CASE StopCRD
  BY <1>4, Positions
  DEF StopCRD, Cancel, cluster, factory, pools, channels, vitals, coordinate,
      retry, SetsType, BootAlone, Readiness
<1>5. CASE StopWaitEnds
  BY <1>5, Positions
  DEF StopWaitEnds, cluster, factory, pools, channels, vitals, coordinate,
      retry, SetsType, BootAlone, Readiness
<1>6. CASE CoordinateReturns
  BY <1>6, Positions
  DEF CoordinateReturns, cluster, factory, pools, channels, vitals,
      coordinate, retry, SetsType, BootAlone, Readiness
<1>7. CASE RecoverDone
  BY <1>7, Positions
  DEF RecoverDone, cluster, factory, pools, channels, vitals, coordinate,
      retry, SetsType, BootAlone, Readiness
<1>8. CASE ActivateDeferred
  BY <1>8, Positions
  DEF ActivateDeferred, ActivateCRD, StartCRDWorkers, cluster, factory,
      pools, channels, vitals, coordinate, retry, SetsType, BootAlone,
      Readiness
<1>9. CASE Report
  BY <1>9, Positions
  DEF Report, cluster, factory, pools, channels, vitals, coordinate, retry,
      SetsType, BootAlone, Readiness
<1>10. ASSUME NEW c \in CRDs, DetectGone(c) PROVE Readiness'
  BY <1>10, Positions
  DEF DetectGone, Cancel, cluster, factory, pools, channels, vitals,
      coordinate, retry, SetsType, BootAlone, Readiness
<1>11. ASSUME NEW c \in CRDs, RecoverPresent(c) PROVE Readiness'
  BY <1>11, Positions
  DEF RecoverPresent, ActivateCRD, StartCRDWorkers, cluster, factory, pools,
      channels, vitals, coordinate, retry, SetsType, BootAlone, Readiness
<1>12. ASSUME NEW c \in CRDs, RecoverAbsent(c) PROVE Readiness'
  BY <1>12, Positions
  DEF RecoverAbsent, cluster, factory, pools, channels, vitals, coordinate,
      retry, SetsType, BootAlone, Readiness
<1>13. CASE UNCHANGED <<missing, started, online, coord>>
  BY <1>13
  DEF SetsType, BootAlone, Readiness
<1> QED
  BY <1>1, <1>2, <1>3, <1>4, <1>5, <1>6, <1>7, <1>8, <1>9, <1>10, <1>11,
      <1>12, <1>13
  DEF Next, Coordinate, RetryMissingCRDs, DependencyHealthChecker, Environment,
      Signal, RegistryShutdown, LoseLeadership, CheckerReturns, RetryTick,
      DrainEnds, DetectDone, RetryReturns, Flip, WorkersExit, LingeringExit,
      WorkerRecords, DetectSkip, RecoverUnknown, CheckDependency,
      TransientError, vars, cluster, factory, pools, channels, vitals,
      coordinate, retry


(* For every catalog and however many CRDs disappear and return, the       *)
(* catalog is reported online only while every CRD has live workers and a  *)
(* running informer or has been forgotten by the retry loop, until         *)
(* leadership is lost.                                                     *)
THEOREM OnlineIsServing == Spec => []OnlineMeansServing
<1>1. Init => Accounted /\ Readiness
  BY DEF Init, Accounted, Readiness
<1>2. Inv /\ Accounted /\ Readiness /\ [Next]_vars
        => (Accounted /\ Readiness)'
  BY AccountedStep, ReadinessStep DEF Inv, Types
<1>3. Inv /\ Accounted /\ Readiness => OnlineMeansServing
  BY DEF Inv, Types, SetsType, Accounted, Readiness, OnlineMeansServing,
         Forgotten
<1> QED
  BY <1>1, <1>2, <1>3, Invariance, PTL DEF Spec
=============================================================================
