------------------------- MODULE LifecycleProofs -------------------------
(***************************************************************************)
(* Proofs about Lifecycle for any stages, resources and bounds.  Types are *)
(* shown of every custom resource; the finalizer's guarantee, the grace    *)
(* period and the refinement of one that Prepare hands out as a copy       *)
(* (~Aliased), with the inductive invariant IInv, which relates the        *)
(* server's custom resource to the copies of it that the cache and the     *)
(* worker hold, and to how far the teardown has come.                      *)
(***************************************************************************)
EXTENDS Lifecycle, TLAPS

FlagType == {unseen, queued, alias, trigger, failed} \subseteq BOOLEAN
ControlType ==
    /\ pc \in {"idle", "prepare", "cleanup", "maintain", "labels", "delete",
               "reconcile", "stage", "wait", "strip", "post"}
    /\ stage \in 1 .. Len(Stages) + 1
    /\ pending \subseteq Resources
TimeType ==
    /\ timer \in Nat
    /\ instant \in Nat /\ elapsed \in 0 .. instant
BoundsType ==
    /\ faults \in 0 .. MaxFaults /\ flips \in 0 .. MaxFlips
    /\ nudges \in 0 .. MaxNudges
ResType == res \in [Resources -> {"absent", "present", "terminating"}]

(* The worker waits for a stage that exists.                               *)
WaitBound == pc = "wait" => stage <= Len(Stages)

Clean ==
    /\ Awaited \cap Left = {}
    /\ ClusterScoped \cap Left \subseteq Doomed

(* Nothing of a custom resource that is gone remains on the server, and    *)
(* one that is being deleted is held by a finalizer.                       *)
Stored ==
    /\ server.here \/ server = NoCR
    /\ server.deleting => server.fin # {}

(* The worker holds an object from Prepare to Return, with the finalizer   *)
(* from EnsureFinalizers on, and tears down only for a deleted one.        *)
Holding ==
    /\ alias = FALSE
    /\ IF pc \in {"idle", "prepare"} THEN obj = NoCR ELSE obj.here
    /\ pc \in {"labels", "delete", "reconcile"} => Ours \in obj.fin
    /\ pc \in {"stage", "wait", "strip"} => obj.deleting

(* What a copy o of the custom resource, however stale, says of the        *)
(* server's s.                                                             *)
Truthful(o, s) ==
    /\ o.here \/ o = NoCR
    /\ ~o.deleting /\ Ours \in o.fin => Ours \in s.fin
    /\ o.deleting => s.deleting \/ ~s.here

Copies ==
    /\ Truthful(cache, server) /\ Truthful(obj, server)
    /\ obj.deleting /\ cache.here => cache.deleting

(* The finalizer is there until the teardown is complete, and how far the  *)
(* teardown has come.                                                      *)
Teardown ==
    /\ Ours \in server.fin \/ Clean
    /\ pc = "stage" => StagesBelow(stage) \cap Left = {}
    /\ pc = "wait" => /\ stage <= Len(Stages)
                      /\ StagesBelow(stage) \cap Left = {}
                      /\ (Stages[stage] \ pending) \cap Left = {}
    /\ pc = "strip" => Clean

IInv == TypeOK /\ Stored /\ Holding /\ Copies /\ Teardown

(* The server's custom resource keeps its type and its shape, never comes  *)
(* back, and stays condemned until it is gone.                             *)
Persists ==
    /\ server' \in CR /\ Stored'
    /\ server'.here => server.here
    /\ server.deleting => server'.deleting \/ ~server'.here

(* Until the strip, the finalizer stays.                                   *)
FinalizerStays == Ours \in server.fin => Ours \in server'.fin

-----------------------------------------------------------------------------
(* A sequence of sets has sets of resources as elements.                   *)
LEMMA StageSets ==
    ASSUME NEW i \in 1 .. Len(Stages) PROVE Stages[i] \subseteq Resources
  BY StagesAssumption

(* The conditional stages are stages (runOrderedDelete).                   *)
LEMMA StagesLen ==
    Len(Stages) \in Nat /\ Conditional \subseteq 1 .. Len(Stages)
  BY StagesAssumption

(* The time evaluateCleanup reads is an instant.                           *)
LEMMA NowNat ==
    ASSUME IInv PROVE Now \in Nat
  BY DEF IInv, TypeOK, Now

(* TypeOK, taken apart into what the different actions disturb.            *)
LEMMA TypeParts ==
    TypeOK <=> /\ server \in CR /\ cache \in CR /\ obj \in CR
               /\ FlagType /\ ControlType /\ TimeType /\ BoundsType /\ ResType
  BY DEF TypeOK, FlagType, ControlType, TimeType, BoundsType, ResType

(* Every step keeps the types: times, *)
LEMMA TimeStep ==
    ASSUME TimeType, obj \in CR, [Next]_vars PROVE TimeType'
<1>1. CASE StartGrace
  BY <1>1, OptionsAssumption
  DEF StartGrace, CleanupMet, Now, Mutated, Write, Settle, AddAfter,
      Return, Lost, Fault, Retry, api, queue, locals, held, clock, bounds,
      TimeType
<1>2. CASE WaitGrace
  <2>1. obj.stamp \in Nat
    BY DEF CR
  <2> QED
    BY <1>2, <2>1 DEF WaitGrace, AddAfter, api, clock, bounds, TimeType
<1>3. CASE CleanupTriggered
  BY <1>3, OptionsAssumption
  DEF CleanupTriggered, CleanupMet, Now, api, queue, locals, held,
      clock, bounds, TimeType
<1>4. CASE CleanupNotMet
  BY <1>4, OptionsAssumption
  DEF CleanupNotMet, Mutated, api, queue, locals, held, clock, bounds,
      TimeType
<1>5. CASE TimerFires
  BY <1>5, OptionsAssumption
  DEF TimerFires, api, queue, locals, held, clock, bounds, TimeType
<1>6. CASE Elapse
  BY <1>6, OptionsAssumption
  DEF Elapse, api, queue, locals, held, clock, bounds, TimeType
<1>7. CASE Restart
  BY <1>7, OptionsAssumption
  DEF Restart, Return, api, queue, locals, held, clock, bounds, TimeType
<1>8. CASE UNCHANGED <<timer, instant, elapsed>>
  BY <1>8, OptionsAssumption
  DEF TimeType
<1> QED
  BY <1>1, <1>2, <1>3, <1>4, <1>5, <1>6, <1>7, <1>8
  DEF Next, WorkerStep, Take, Prepare, PrepareSkips, PrepareFails,
      EnsureFinalizers, EnsureLabels, DeleteCR, Provision, BeginDeletion,
      SkipStage, SubmitStage, WaitFails, DeleteClusterScoped,
      StripFinalizers, Post, Watch, Resync, ConditionsChange, UserDeletes,
      CollectGarbage, PollGone, ResourceGone, Forget, Return, Retry, Fault,
      Mutated, Accepts, WithFinalizers, Write, Settle, Lost, Patched,
      WantLabels, Deleted, Fail, vars, api, queue, locals, held, clock,
      bounds

(* bounds, *)
LEMMA BoundsStep ==
    ASSUME BoundsType, [Next]_vars PROVE BoundsType'
<1>1. CASE PrepareFails
  BY <1>1, OptionsAssumption
  DEF PrepareFails, Retry, Return, Fault, api, queue, locals, held, clock,
      bounds, BoundsType, bounds
<1>2. CASE StartGrace
  BY <1>2, OptionsAssumption
  DEF StartGrace, CleanupMet, Now, Mutated, Write, Settle, AddAfter,
      Return, Lost, Fault, Retry, api, queue, locals, held, clock, bounds,
      BoundsType, bounds
<1>3. CASE EnsureFinalizers
  BY <1>3, OptionsAssumption
  DEF EnsureFinalizers, Mutated, Accepts, WithFinalizers, Write, Settle,
      Lost, Fault, Retry, Return, api, queue, locals, held, clock, bounds,
      BoundsType, bounds
<1>4. CASE EnsureLabels
  BY <1>4, OptionsAssumption
  DEF EnsureLabels, Mutated, Patched, Write, Settle, Lost, Fault, Retry,
      Return, WantLabels, api, queue, locals, held, clock, bounds,
      BoundsType, bounds
<1>5. CASE DeleteCR
  BY <1>5, OptionsAssumption
  DEF DeleteCR, Write, Settle, Lost, Fault, Forget, Retry, Return, api,
      queue, locals, held, clock, bounds, BoundsType, bounds
<1>6. CASE Provision
  BY <1>6, OptionsAssumption
  DEF Provision, Fault, api, queue, locals, held, clock, bounds, BoundsType,
      bounds
<1>7. CASE SubmitStage
  BY <1>7, OptionsAssumption
  DEF SubmitStage, Deleted, Fault, Fail, api, queue, locals, held, clock,
      bounds, BoundsType, bounds
<1>8. CASE WaitFails
  BY <1>8, OptionsAssumption
  DEF WaitFails, Fault, Fail, api, queue, locals, held, clock, bounds,
      BoundsType, bounds
<1>9. CASE DeleteClusterScoped
  BY <1>9, OptionsAssumption
  DEF DeleteClusterScoped, Deleted, Fault, Fail, api, queue, locals, held,
      clock, bounds, BoundsType, bounds
<1>10. CASE StripFinalizers
  BY <1>10, OptionsAssumption
  DEF StripFinalizers, Mutated, Accepts, WithFinalizers, Write, Settle,
      Lost, Fault, Fail, api, queue, locals, held, clock, bounds,
      BoundsType, bounds
<1>11. CASE Resync
  BY <1>11, OptionsAssumption
  DEF Resync, api, queue, locals, held, clock, bounds, BoundsType, bounds
<1>12. CASE Restart
  BY <1>12, OptionsAssumption
  DEF Restart, Return, api, queue, locals, held, clock, bounds, BoundsType,
      bounds
<1>13. CASE ConditionsChange
  BY <1>13, OptionsAssumption
  DEF ConditionsChange, Write, Settle, api, queue, locals, held, clock,
      bounds, BoundsType, bounds
<1>14. CASE UNCHANGED <<bounds>>
  BY <1>14, OptionsAssumption
  DEF BoundsType, bounds
<1> QED
  BY <1>1, <1>2, <1>3, <1>4, <1>5, <1>6, <1>7, <1>8, <1>9, <1>10, <1>11,
     <1>12, <1>13, <1>14
  DEF Next, WorkerStep, Take, Prepare, PrepareSkips, CleanupNotMet,
      WaitGrace, CleanupTriggered, BeginDeletion, SkipStage, Post, Watch,
      TimerFires, Elapse, UserDeletes, CollectGarbage, PollGone,
      ResourceGone, Forget, Return, Mutated, CleanupMet, Now,
      AddAfter, Write, Settle, vars, api, queue, locals, held, clock, bounds

(* resources, *)
LEMMA ResStep ==
    ASSUME ResType, [Next]_vars PROVE ResType'
<1>1. CASE Provision
  BY <1>1
  DEF Provision, Fault, api, queue, locals, held, clock, bounds, ResType
<1>2. CASE SubmitStage
  BY <1>2
  DEF SubmitStage, Deleted, Fault, Fail, api, queue, locals, held, clock,
      bounds, ResType
<1>3. CASE DeleteClusterScoped
  BY <1>3
  DEF DeleteClusterScoped, Deleted, Fault, Fail, api, queue, locals, held,
      clock, bounds, ResType
<1>4. ASSUME NEW r \in Resources, ResourceGone(r)
      PROVE  ResType'
  BY <1>4
  DEF ResourceGone, api, queue, locals, held, clock, bounds, ResType
<1>5. CASE UNCHANGED <<res>>
  BY <1>5
  DEF ResType
<1> QED
  BY <1>1, <1>2, <1>3, <1>4, <1>5
  DEF Next, WorkerStep, Take, Prepare, PrepareSkips, PrepareFails,
      CleanupNotMet, StartGrace, WaitGrace, CleanupTriggered,
      EnsureFinalizers, EnsureLabels, DeleteCR, BeginDeletion, SkipStage,
      WaitFails, StripFinalizers, Post, Watch, TimerFires, Elapse, Resync,
      Restart, ConditionsChange, UserDeletes, CollectGarbage, PollGone,
      Forget, Return, Retry, Fault, Mutated, CleanupMet, Now, Write,
      Settle, AddAfter, Lost, Accepts, WithFinalizers, Patched, WantLabels,
      Fail, vars, api, queue, locals, held, clock, bounds

(* flags, *)
LEMMA FlagStep ==
    ASSUME FlagType, server \in CR, [Next]_vars PROVE FlagType'
<1>1. CASE Take
  BY <1>1, OptionsAssumption
  DEF Take, api, queue, locals, held, clock, bounds, FlagType
<1>2. CASE Prepare
  BY <1>2, OptionsAssumption
  DEF Prepare, api, queue, locals, held, clock, bounds, FlagType
<1>3. CASE PrepareSkips
  BY <1>3, OptionsAssumption
  DEF PrepareSkips, Forget, Return, api, queue, locals, held, clock, bounds,
      FlagType
<1>4. CASE PrepareFails
  BY <1>4, OptionsAssumption
  DEF PrepareFails, Retry, Return, Fault, api, queue, locals, held, clock,
      bounds, FlagType
<1>5. CASE CleanupNotMet
  BY <1>5, OptionsAssumption
  DEF CleanupNotMet, Mutated, api, queue, locals, held, clock, bounds,
      FlagType
<1>6. CASE StartGrace
  BY <1>6, OptionsAssumption
  DEF StartGrace, CleanupMet, Now, Mutated, Write, Settle, AddAfter,
      Return, Lost, Fault, Retry, api, queue, locals, held, clock, bounds,
      FlagType
<1>7. CASE WaitGrace
  BY <1>7, OptionsAssumption
  DEF WaitGrace, CleanupMet, Now, AddAfter, Return, api, queue,
      locals, held, clock, bounds, FlagType
<1>8. CASE CleanupTriggered
  BY <1>8, OptionsAssumption
  DEF CleanupTriggered, CleanupMet, Now, api, queue, locals, held,
      clock, bounds, FlagType
<1>9. CASE EnsureFinalizers
  BY <1>9, OptionsAssumption
  DEF EnsureFinalizers, Mutated, Accepts, WithFinalizers, Write, Settle,
      Lost, Fault, Retry, Return, api, queue, locals, held, clock, bounds,
      FlagType
<1>10. CASE EnsureLabels
  BY <1>10, OptionsAssumption
  DEF EnsureLabels, Mutated, Patched, Write, Settle, Lost, Fault, Retry,
      Return, WantLabels, api, queue, locals, held, clock, bounds, FlagType
<1>11. CASE DeleteCR
  BY <1>11, OptionsAssumption
  DEF DeleteCR, Write, Settle, Lost, Fault, Forget, Retry, Return, api,
      queue, locals, held, clock, bounds, FlagType
<1>12. CASE Provision
  BY <1>12, OptionsAssumption
  DEF Provision, Fault, api, queue, locals, held, clock, bounds, FlagType
<1>13. CASE BeginDeletion
  BY <1>13, OptionsAssumption
  DEF BeginDeletion, api, queue, locals, held, clock, bounds, FlagType
<1>14. CASE SubmitStage
  BY <1>14, OptionsAssumption
  DEF SubmitStage, Deleted, Fault, Fail, api, queue, locals, held, clock,
      bounds, FlagType
<1>15. CASE WaitFails
  BY <1>15, OptionsAssumption
  DEF WaitFails, Fault, Fail, api, queue, locals, held, clock, bounds,
      FlagType
<1>16. CASE DeleteClusterScoped
  BY <1>16, OptionsAssumption
  DEF DeleteClusterScoped, Deleted, Fault, Fail, api, queue, locals, held,
      clock, bounds, FlagType
<1>17. CASE StripFinalizers
  BY <1>17, OptionsAssumption
  DEF StripFinalizers, Mutated, Accepts, WithFinalizers, Write, Settle,
      Lost, Fault, Fail, api, queue, locals, held, clock, bounds, FlagType
<1>18. CASE Post
  BY <1>18, OptionsAssumption
  DEF Post, Return, api, queue, locals, held, clock, bounds, FlagType
<1>19. CASE Watch
  BY <1>19, OptionsAssumption
  DEF Watch, api, queue, locals, held, clock, bounds, FlagType
<1>20. CASE TimerFires
  BY <1>20, OptionsAssumption
  DEF TimerFires, api, queue, locals, held, clock, bounds, FlagType
<1>21. CASE Resync
  BY <1>21, OptionsAssumption
  DEF Resync, api, queue, locals, held, clock, bounds, FlagType
<1>22. CASE Restart
  <2>1. server.here \in BOOLEAN
    BY DEF CR
  <2> QED BY <1>22, <2>1 DEF Restart, Return, FlagType
<1>23. CASE ConditionsChange
  BY <1>23, OptionsAssumption
  DEF ConditionsChange, Write, Settle, api, queue, locals, held, clock,
      bounds, FlagType
<1>24. CASE UserDeletes
  BY <1>24, OptionsAssumption
  DEF UserDeletes, Write, Settle, api, queue, locals, held, clock, bounds,
      FlagType
<1>25. CASE CollectGarbage
  BY <1>25, OptionsAssumption
  DEF CollectGarbage, Write, Settle, api, queue, locals, held, clock,
      bounds, FlagType
<1>26. CASE UNCHANGED <<unseen, queued, alias, trigger, failed>>
  BY <1>26, OptionsAssumption
  DEF FlagType
<1> QED
  BY <1>1, <1>2, <1>3, <1>4, <1>5, <1>6, <1>7, <1>8, <1>9, <1>10, <1>11,
     <1>12, <1>13, <1>14, <1>15, <1>16, <1>17, <1>18, <1>19, <1>20, <1>21,
     <1>22, <1>23, <1>24, <1>25, <1>26
  DEF Next, WorkerStep, SkipStage, Elapse, PollGone, ResourceGone, vars,
      api, queue, locals, held, clock, bounds

(* and control. *)
LEMMA ControlStep ==
    ASSUME ControlType, WaitBound, [Next]_vars
    PROVE  ControlType' /\ WaitBound'
<1>1. CASE Take
  BY <1>1, StagesLen, StageSets
  DEF Take, api, queue, locals, held, clock, bounds, ControlType, WaitBound
<1>2. CASE Prepare
  BY <1>2, StagesLen, StageSets
  DEF Prepare, api, queue, locals, held, clock, bounds, ControlType, WaitBound
<1>3. CASE PrepareSkips
  BY <1>3, StagesLen, StageSets
  DEF PrepareSkips, Forget, Return, api, queue, locals, held, clock, bounds,
      ControlType, WaitBound
<1>4. CASE PrepareFails
  BY <1>4, StagesLen, StageSets
  DEF PrepareFails, Retry, Return, Fault, api, queue, locals, held, clock,
      bounds, ControlType, WaitBound
<1>5. CASE CleanupNotMet
  BY <1>5, StagesLen, StageSets
  DEF CleanupNotMet, Mutated, api, queue, locals, held, clock, bounds,
      ControlType, WaitBound
<1>6. CASE StartGrace
  BY <1>6, StagesLen, StageSets
  DEF StartGrace, CleanupMet, Now, Mutated, Write, Settle, AddAfter,
      Return, Lost, Fault, Retry, api, queue, locals, held, clock, bounds,
      ControlType, WaitBound
<1>7. CASE WaitGrace
  BY <1>7, StagesLen, StageSets
  DEF WaitGrace, CleanupMet, Now, AddAfter, Return, api, queue,
      locals, held, clock, bounds, ControlType, WaitBound
<1>8. CASE CleanupTriggered
  BY <1>8, StagesLen, StageSets
  DEF CleanupTriggered, CleanupMet, Now, api, queue, locals, held,
      clock, bounds, ControlType, WaitBound
<1>9. CASE EnsureFinalizers
  BY <1>9, StagesLen, StageSets
  DEF EnsureFinalizers, Mutated, Accepts, WithFinalizers, Write, Settle,
      Lost, Fault, Retry, Return, api, queue, locals, held, clock, bounds,
      ControlType, WaitBound
<1>10. CASE EnsureLabels
  BY <1>10, StagesLen, StageSets
  DEF EnsureLabels, Mutated, Patched, Write, Settle, Lost, Fault, Retry,
      Return, WantLabels, api, queue, locals, held, clock, bounds,
      ControlType, WaitBound
<1>11. CASE DeleteCR
  BY <1>11, StagesLen, StageSets
  DEF DeleteCR, Write, Settle, Lost, Fault, Forget, Retry, Return, api,
      queue, locals, held, clock, bounds, ControlType, WaitBound
<1>12. CASE Provision
  BY <1>12, StagesLen, StageSets
  DEF Provision, Fault, api, queue, locals, held, clock, bounds,
      ControlType, WaitBound
<1>13. CASE BeginDeletion
  BY <1>13, StagesLen, StageSets
  DEF BeginDeletion, api, queue, locals, held, clock, bounds,
      ControlType, WaitBound
<1>14. CASE SkipStage
  BY <1>14, StagesLen, StageSets
  DEF SkipStage, api, queue, locals, held, clock, bounds,
      ControlType, WaitBound
<1>15. CASE SubmitStage
  BY <1>15, StagesLen, StageSets
  DEF SubmitStage, Deleted, Fault, Fail, api, queue, locals, held, clock,
      bounds, ControlType, WaitBound
<1>16. CASE WaitFails
  BY <1>16, StagesLen, StageSets
  DEF WaitFails, Fault, Fail, api, queue, locals, held, clock, bounds,
      ControlType, WaitBound
<1>17. CASE DeleteClusterScoped
  BY <1>17, StagesLen, StageSets
  DEF DeleteClusterScoped, Deleted, Fault, Fail, api, queue, locals, held,
      clock, bounds, ControlType, WaitBound
<1>18. CASE StripFinalizers
  BY <1>18, StagesLen, StageSets
  DEF StripFinalizers, Mutated, Accepts, WithFinalizers, Write, Settle,
      Lost, Fault, Fail, api, queue, locals, held, clock, bounds,
      ControlType, WaitBound
<1>19. CASE Post
  BY <1>19, StagesLen, StageSets
  DEF Post, Return, api, queue, locals, held, clock, bounds,
      ControlType, WaitBound
<1>20. CASE Restart
  BY <1>20, StagesLen, StageSets
  DEF Restart, Return, api, queue, locals, held, clock, bounds,
      ControlType, WaitBound
<1>21. ASSUME NEW r \in Resources, PollGone(r)
      PROVE  ControlType' /\ WaitBound'
  BY <1>21, StagesLen, StageSets
  DEF PollGone, api, queue, locals, held, clock, bounds,
      ControlType, WaitBound
<1>22. CASE UNCHANGED <<pc, stage, pending>>
  BY <1>22, StagesLen, StageSets
  DEF ControlType, WaitBound
<1> QED
  BY <1>1, <1>2, <1>3, <1>4, <1>5, <1>6, <1>7, <1>8, <1>9, <1>10, <1>11,
     <1>12, <1>13, <1>14, <1>15, <1>16, <1>17, <1>18, <1>19, <1>20, <1>21,
     <1>22
  DEF Next, WorkerStep, Watch, TimerFires, Elapse, Resync, ConditionsChange,
      UserDeletes, CollectGarbage, ResourceGone, Write, Settle, vars, api,
      queue, locals, held, clock, bounds

(* A write to the API server neither revives nor undeletes the CR.         *)
LEMMA SettleKeeps ==
    ASSUME server \in CR, Stored, NEW w \in CR,
           server.here => w.here, server.deleting => w.deleting,
           server' = server \/ (server.here /\ server' = Settle(w))
    PROVE  /\ Persists
           /\ (Ours \in server.fin => Ours \in w.fin) => FinalizerStays
<1>1. CASE server' = server
  BY <1>1 DEF Persists, Stored, FinalizerStays
<1>2. CASE server.here /\ server' = w /\ ~(w.deleting /\ w.fin = {})
  BY <1>2 DEF Persists, Stored, FinalizerStays
<1>3. CASE server.here /\ server' = NoCR /\ w.deleting /\ w.fin = {}
  <2>1. NoCR \in CR /\ NoCR.here = FALSE /\ NoCR.deleting = FALSE
    BY DEF CR, NoCR
  <2>2. Persists
    BY <1>3, <2>1 DEF Persists, Stored
  <2>3. Ours \notin w.fin
    BY <1>3
  <2> QED BY <2>2, <2>3 DEF FinalizerStays
<1> QED BY <1>1, <1>2, <1>3 DEF Settle

(* No step brings the custom resource back or takes back its deletion, and *)
(* only StripFinalizers takes the finalizer away.                          *)
LEMMA ServerStep ==
    ASSUME ~Aliased, IInv, [Next]_vars
    PROVE  Persists /\ (pc = "strip" \/ FinalizerStays)
<1>1. CASE StartGrace
  <2> DEFINE w == [server EXCEPT !.stamp = Now]
  <2>1. /\ w \in CR
        /\ server.here => w.here
        /\ server.deleting => w.deleting
        /\ Ours \in server.fin => Ours \in w.fin
    BY NowNat, TypeParts DEF IInv, CR
  <2>2. server' = server \/ (server.here /\ server' = Settle(w))
    BY <1>1
    DEF StartGrace, CleanupMet, Mutated, Write, AddAfter, Return, Lost,
        Fault, Retry, api, queue, locals, held, clock, bounds
  <2> HIDE DEF w
  <2> QED BY <1>1, <2>1, <2>2, TypeParts, SettleKeeps DEF IInv
<1>2. CASE EnsureFinalizers
  <2> DEFINE w == WithFinalizers(obj.fin \cup {Ours})
  <2>1. /\ w \in CR
        /\ server.here => w.here
        /\ server.deleting => w.deleting
        /\ Ours \in server.fin => Ours \in w.fin
    BY TypeParts DEF IInv, CR, WithFinalizers, Ours, Foreground
  <2>2. server' = server \/ (server.here /\ server' = Settle(w))
    BY <1>2
    DEF EnsureFinalizers, Mutated, Accepts, Write, Lost, Fault, Retry,
        Return, api, queue, locals, held, clock, bounds
  <2> HIDE DEF w
  <2> QED BY <1>2, <2>1, <2>2, TypeParts, SettleKeeps DEF IInv
<1>3. CASE EnsureLabels
  <2> DEFINE w == Patched(obj, IF Protect THEN WantLabels(obj) ELSE obj)
  <2>1. /\ w \in CR
        /\ server.here => w.here
        /\ server.deleting => w.deleting
        /\ Ours \in server.fin => Ours \in w.fin
    BY TypeParts DEF IInv, CR, Patched, WantLabels
  <2>2. server' = server \/ (server.here /\ server' = Settle(w))
    BY <1>3
    DEF EnsureLabels, Mutated, Write, Lost, Fault, Retry, Return, api, queue,
        locals, held, clock, bounds
  <2> HIDE DEF w
  <2> QED BY <1>3, <2>1, <2>2, TypeParts, SettleKeeps DEF IInv
<1>4. CASE DeleteCR
  <2> DEFINE w == IF server.deleting THEN server
                  ELSE [server EXCEPT !.deleting = TRUE,
                                      !.fin = @ \cup {Foreground}]
  <2>1. /\ w \in CR
        /\ server.here => w.here
        /\ server.deleting => w.deleting
        /\ Ours \in server.fin => Ours \in w.fin
    <3>1. CASE server.deleting
      BY <3>1, TypeParts DEF IInv
    <3>2. CASE ~server.deleting
      <4>1. w = [server EXCEPT !.deleting = TRUE,
                               !.fin = @ \cup {Foreground}]
        BY <3>2
      <4> QED BY <3>2, <4>1, TypeParts DEF IInv, CR, Foreground, Ours
    <3> QED BY <3>1, <3>2
  <2>2. server' = server \/ (server.here /\ server' = Settle(w))
    BY <1>4, Zenon DEF DeleteCR, Write, Lost
  <2> HIDE DEF w
  <2> QED BY <1>4, <2>1, <2>2, TypeParts, SettleKeeps DEF IInv
<1>5. CASE StripFinalizers
  <2> DEFINE w == WithFinalizers(obj.fin \ {Ours})
  <2>1. /\ w \in CR
        /\ server.here => w.here
        /\ server.deleting => w.deleting
    BY TypeParts DEF IInv, CR, WithFinalizers, Ours
  <2>2. server' = server \/ (server.here /\ server' = Settle(w))
    BY <1>5
    DEF StripFinalizers, Mutated, Accepts, Write, Lost, Fault, Fail, api,
        queue, locals, held, clock, bounds
  <2> HIDE DEF w
  <2> QED BY <1>5, <2>1, <2>2, TypeParts, SettleKeeps DEF IInv, StripFinalizers
<1>6. CASE ConditionsChange
  <2> DEFINE w == [server EXCEPT !.met = ~@]
  <2>1. /\ w \in CR
        /\ server.here => w.here
        /\ server.deleting => w.deleting
        /\ Ours \in server.fin => Ours \in w.fin
    BY TypeParts DEF IInv, CR
  <2>2. server' = server \/ (server.here /\ server' = Settle(w))
    BY <1>6, Zenon DEF ConditionsChange, Write
  <2> HIDE DEF w
  <2> QED BY <1>6, <2>1, <2>2, TypeParts, SettleKeeps DEF IInv
<1>7. CASE UserDeletes
  <2> DEFINE w == [server EXCEPT !.deleting = TRUE]
  <2>1. /\ w \in CR
        /\ server.here => w.here
        /\ server.deleting => w.deleting
        /\ Ours \in server.fin => Ours \in w.fin
    BY TypeParts DEF IInv, CR
  <2>2. server' = server \/ (server.here /\ server' = Settle(w))
    BY <1>7 DEF UserDeletes, Write, api, queue, locals, held, clock, bounds
  <2> HIDE DEF w
  <2> QED BY <1>7, <2>1, <2>2, TypeParts, SettleKeeps DEF IInv
<1>8. CASE CollectGarbage
  <2> DEFINE w == [server EXCEPT !.fin = @ \ {Foreground}]
  <2>1. /\ w \in CR
        /\ server.here => w.here
        /\ server.deleting => w.deleting
        /\ Ours \in server.fin => Ours \in w.fin
    <3>1. server \in CR
      BY TypeParts DEF IInv
    <3> QED BY <3>1 DEF CR, Ours, Foreground
  <2>2. server' = server \/ (server.here /\ server' = Settle(w))
    <3>1. server.here
      BY <1>8 DEF CollectGarbage, IInv, Stored, NoCR
    <3> QED BY <1>8, <3>1 DEF CollectGarbage, Write
  <2> HIDE DEF w
  <2> QED BY <1>8, <2>1, <2>2, TypeParts, SettleKeeps DEF IInv
<1>9. CASE UNCHANGED <<server>>
  BY <1>9, TypeParts
  DEF Persists, Stored, FinalizerStays, IInv
<1> QED
  BY <1>1, <1>2, <1>3, <1>4, <1>5, <1>6, <1>7, <1>8, <1>9
  DEF Next, WorkerStep, Take, Prepare, PrepareSkips, PrepareFails,
      CleanupNotMet, WaitGrace, CleanupTriggered, Provision, BeginDeletion,
      SkipStage, SubmitStage, WaitFails, DeleteClusterScoped, Post, Watch,
      TimerFires, Elapse, Resync, Restart, PollGone, ResourceGone, Forget,
      Return, Retry, Fault, Mutated, CleanupMet, Now, AddAfter,
      Deleted, Fail, vars, api, queue, locals, held, clock, bounds

(* The absent custom resource (NotFound) is one, without finalizers.       *)
LEMMA NoCRType == NoCR \in CR /\ ~NoCR.here /\ ~NoCR.deleting /\ NoCR.fin = {}
  BY DEF CR, NoCR

(* With a normalize block the worker writes to its own copy only.          *)
LEMMA Copied ==
    ASSUME Holding, NEW o PROVE Mutated(o) = cache
  BY DEF Holding, Mutated

(* Aliased is a Boolean.                                                   *)
LEMMA AliasedFalse ==
    ASSUME ~Aliased PROVE Aliased = FALSE
  BY OptionsAssumption

(* What the worker holds.                                                   *)
LEMMA HoldingStep ==
    ASSUME ~Aliased, IInv, [Next]_vars PROVE obj' \in CR /\ Holding'
<1>1. CASE Take
  BY <1>1, TypeParts, NoCRType
  DEF Take, api, queue, locals, held, clock, bounds, IInv, Holding
<1>2. CASE Prepare
  BY <1>2, TypeParts, AliasedFalse DEF Prepare, IInv, Holding, locals
<1>3. CASE PrepareSkips
  BY <1>3, TypeParts, NoCRType
  DEF PrepareSkips, Forget, Return, api, queue, locals, held, clock, bounds,
      IInv, Holding
<1>4. CASE PrepareFails
  BY <1>4, TypeParts, NoCRType
  DEF PrepareFails, Retry, Return, Fault, api, queue, locals, held, clock,
      bounds, IInv, Holding
<1>5. CASE CleanupNotMet
  <2>1. obj \in CR /\ obj.here
    BY <1>5, TypeParts DEF CleanupNotMet, IInv, Holding
  <2>2. /\ [obj EXCEPT !.stamp = 0] \in CR
        /\ [obj EXCEPT !.stamp = 0].here
    BY <2>1 DEF CR
  <2> QED BY <1>5, <2>1, <2>2 DEF CleanupNotMet, IInv, Holding, locals
<1>6. CASE StartGrace
  BY <1>6, TypeParts, NoCRType
  DEF StartGrace, CleanupMet, Now, Mutated, Write, Settle, AddAfter,
      Return, Lost, Fault, Retry, api, queue, locals, held, clock, bounds,
      IInv, Holding
<1>7. CASE WaitGrace
  BY <1>7, TypeParts, NoCRType
  DEF WaitGrace, CleanupMet, Now, AddAfter, Return, api, queue,
      locals, held, clock, bounds, IInv, Holding
<1>8. CASE CleanupTriggered
  BY <1>8, TypeParts, NoCRType
  DEF CleanupTriggered, CleanupMet, Now, api, queue, locals, held,
      clock, bounds, IInv, Holding
<1>9. CASE EnsureFinalizers
  <2>1. obj \in CR /\ obj.here
    BY <1>9, TypeParts DEF EnsureFinalizers, IInv, Holding
  <2>2. /\ [obj EXCEPT !.fin = obj.fin \cup {Ours}] \in CR
        /\ [obj EXCEPT !.fin = obj.fin \cup {Ours}].here
        /\ Ours \in [obj EXCEPT !.fin = obj.fin \cup {Ours}].fin
    BY <2>1 DEF CR, Ours
  <2> QED
    BY <1>9, <2>1, <2>2, NoCRType
    DEF EnsureFinalizers, IInv, Holding, Retry, Return, locals
<1>10. CASE EnsureLabels
  <2>1. obj \in CR /\ obj.here /\ Ours \in obj.fin
    BY <1>10, TypeParts DEF EnsureLabels, IInv, Holding
  <2> DEFINE w == IF Protect THEN WantLabels(obj) ELSE obj
  <2>2. w \in CR /\ w.here /\ Ours \in w.fin
    BY <2>1 DEF CR, WantLabels
  <2>3. \/ obj' = NoCR /\ alias' = FALSE /\ pc' = "idle"
        \/ /\ obj' = w \/ obj' = obj
           /\ alias' = alias /\ pc' \in {"delete", "reconcile"}
    BY <1>10 DEF EnsureLabels, Retry, Return
  <2> HIDE DEF w
  <2> QED
    BY <2>1, <2>2, <2>3, NoCRType DEF IInv, Holding
<1>11. CASE DeleteCR
  BY <1>11, TypeParts, NoCRType
  DEF DeleteCR, Write, Settle, Lost, Fault, Forget, Retry, Return, api,
      queue, locals, held, clock, bounds, IInv, Holding
<1>12. CASE Provision
  BY <1>12, TypeParts, NoCRType
  DEF Provision, Fault, api, queue, locals, held, clock, bounds, IInv,
      Holding
<1>13. CASE BeginDeletion
  BY <1>13, TypeParts, NoCRType
  DEF BeginDeletion, api, queue, locals, held, clock, bounds, IInv, Holding
<1>14. CASE SkipStage
  BY <1>14, TypeParts, NoCRType
  DEF SkipStage, api, queue, locals, held, clock, bounds, IInv, Holding
<1>15. CASE SubmitStage
  BY <1>15, TypeParts, NoCRType
  DEF SubmitStage, Deleted, Fault, Fail, api, queue, locals, held, clock,
      bounds, IInv, Holding
<1>16. CASE WaitFails
  BY <1>16, TypeParts, NoCRType
  DEF WaitFails, Fault, Fail, api, queue, locals, held, clock, bounds, IInv,
      Holding
<1>17. CASE DeleteClusterScoped
  BY <1>17, TypeParts, NoCRType
  DEF DeleteClusterScoped, Deleted, Fault, Fail, api, queue, locals, held,
      clock, bounds, IInv, Holding
<1>18. CASE StripFinalizers
  <2>1. obj \in CR /\ obj.here
    BY <1>18, TypeParts DEF StripFinalizers, IInv, Holding
  <2>2. /\ [obj EXCEPT !.fin = obj.fin \ {Ours}] \in CR
        /\ [obj EXCEPT !.fin = obj.fin \ {Ours}].here
    BY <2>1 DEF CR
  <2> QED
    BY <1>18, <2>1, <2>2 DEF StripFinalizers, Fail, IInv, Holding
<1>19. CASE Post
  BY <1>19, TypeParts, NoCRType
  DEF Post, Return, api, queue, locals, held, clock, bounds, IInv, Holding
<1>20. CASE Restart
  BY <1>20, TypeParts, NoCRType
  DEF Restart, Return, api, queue, locals, held, clock, bounds, IInv,
      Holding
<1>21. ASSUME NEW r \in Resources, PollGone(r)
      PROVE  obj' \in CR /\ Holding'
  BY <1>21, TypeParts, NoCRType
  DEF PollGone, api, queue, locals, held, clock, bounds, IInv, Holding
<1>22. CASE Watch
  BY <1>22, TypeParts, NoCRType
  DEF Watch, api, queue, locals, held, clock, bounds, IInv, Holding
<1>23. CASE UNCHANGED <<obj, alias, pc>>
  BY <1>23, TypeParts, NoCRType
  DEF IInv, Holding
<1> QED
  BY <1>1, <1>2, <1>3, <1>4, <1>5, <1>6, <1>7, <1>8, <1>9, <1>10, <1>11,
     <1>12, <1>13, <1>14, <1>15, <1>16, <1>17, <1>18, <1>19, <1>20, <1>21,
     <1>22, <1>23
  DEF Next, WorkerStep, TimerFires, Elapse, Resync, ConditionsChange,
      UserDeletes, CollectGarbage, ResourceGone, Write, Settle, vars, api,
      queue, locals, held, clock, bounds

(* Without aliasing, only the informer changes the cache.                  *)
LEMMA CacheStays ==
    ASSUME ~Aliased, IInv, [Next]_vars
    PROVE  cache' = cache \/ (cache' = server /\ server' = server)
<1>1. CASE CleanupNotMet
  BY <1>1, Copied
  DEF CleanupNotMet, Mutated, api, queue, locals, held, clock, bounds, IInv
<1>2. CASE StartGrace
  BY <1>2, Copied
  DEF StartGrace, CleanupMet, Now, Mutated, Write, Settle, AddAfter,
      Return, Lost, Fault, Retry, api, queue, locals, held, clock, bounds,
      IInv
<1>3. CASE EnsureFinalizers
  BY <1>3, Copied
  DEF EnsureFinalizers, Mutated, Accepts, WithFinalizers, Write, Settle,
      Lost, Fault, Retry, Return, api, queue, locals, held, clock, bounds,
      IInv
<1>4. CASE EnsureLabels
  BY <1>4, Copied
  DEF EnsureLabels, Mutated, Patched, Write, Settle, Lost, Fault, Retry,
      Return, WantLabels, api, queue, locals, held, clock, bounds, IInv
<1>5. CASE StripFinalizers
  BY <1>5, Copied
  DEF StripFinalizers, Mutated, Accepts, WithFinalizers, Write, Settle,
      Lost, Fault, Fail, api, queue, locals, held, clock, bounds, IInv
<1>6. CASE Watch
  BY <1>6, Copied
  DEF Watch, api, queue, locals, held, clock, bounds, IInv
<1>7. CASE Restart
  BY <1>7, Copied
  DEF Restart, Return, api, queue, locals, held, clock, bounds, IInv
<1>8. CASE UNCHANGED <<cache>>
  BY <1>8, Copied
  DEF IInv
<1> QED
  BY <1>1, <1>2, <1>3, <1>4, <1>5, <1>6, <1>7, <1>8
  DEF Next, WorkerStep, Take, Prepare, PrepareSkips, PrepareFails,
      WaitGrace, CleanupTriggered, DeleteCR, Provision, BeginDeletion,
      SkipStage, SubmitStage, WaitFails, DeleteClusterScoped, Post,
      TimerFires, Elapse, Resync, ConditionsChange, UserDeletes,
      CollectGarbage, PollGone, ResourceGone, Forget, Return, Retry, Fault,
      CleanupMet, Now, AddAfter, Write, Settle, Lost, Deleted, Fail,
      vars, api, queue, locals, held, clock, bounds

(* A copy that told the truth still does after a step, unless the step     *)
(* takes a finalizer away that it vouches for.                             *)
LEMMA CopyStays ==
    ASSUME NEW o, server \in CR, Truthful(o, server), Persists,
           FinalizerStays \/ o.deleting \/ ~o.here
    PROVE  Truthful(o, server')
  BY NoCRType DEF Truthful, Persists, FinalizerStays

(* What the cache and the worker believe of the server stays true.         *)
LEMMA CopiesStay ==
    ASSUME ~Aliased, IInv, [Next]_vars
    PROVE  Truthful(cache, server') /\ Truthful(obj, server')
<1>1. Persists /\ (pc = "strip" \/ FinalizerStays)
  BY ServerStep
<1>2. /\ server \in CR
      /\ Truthful(cache, server) /\ Truthful(obj, server)
  BY TypeParts DEF IInv, Copies
<1>3. pc = "strip" => obj.deleting /\ (cache.here => cache.deleting)
  BY DEF IInv, Holding, Copies
<1> QED BY <1>1, <1>2, <1>3, CopyStays

(* The worker's object stays truthful, *)
LEMMA ObjStep ==
    ASSUME ~Aliased, IInv, Persists,
           Truthful(cache, server'), Truthful(obj, server'), [Next]_vars PROVE Truthful(obj', server')
<1>1. CASE Prepare
  BY <1>1 DEF Prepare
<1>2. CASE CleanupNotMet
  <2>1. obj \in CR
    BY TypeParts DEF IInv
  <2>2. \/ obj' = obj
        \/ /\ obj'.here = obj.here /\ obj'.deleting = obj.deleting
           /\ obj'.fin = obj.fin
    BY <1>2, <2>1 DEF CleanupNotMet, CR
  <2>3. obj.here
    BY <1>2 DEF CleanupNotMet, IInv, Holding
  <2> QED BY <2>2, <2>3 DEF Truthful
<1>3. CASE EnsureFinalizers
  <2>1. obj \in CR /\ server \in CR /\ obj.here
    BY <1>3, TypeParts DEF IInv, EnsureFinalizers, Holding
  <2>2. CASE obj' = obj \/ obj' = NoCR
    BY <2>2, NoCRType DEF Truthful
  <2>3. CASE /\ obj' = [obj EXCEPT !.fin = obj.fin \cup {Ours}]
             /\ server' = Settle(WithFinalizers(obj.fin \cup {Ours}))
    <3>1. /\ obj'.here = obj.here /\ obj'.deleting = obj.deleting
          /\ Ours \in WithFinalizers(obj.fin \cup {Ours}).fin
      BY <2>1, <2>3 DEF CR, WithFinalizers
    <3>2. Ours \in server'.fin
      BY <2>3, <3>1 DEF Settle
    <3> QED BY <2>1, <3>1, <3>2 DEF Truthful
  <2> QED
    BY <1>3, <2>2, <2>3 DEF EnsureFinalizers, Write, Retry, Return
<1>4. CASE EnsureLabels
  <2>1. obj \in CR /\ obj.here
    BY <1>4, TypeParts DEF IInv, EnsureLabels, Holding
  <2> DEFINE w == IF Protect THEN WantLabels(obj) ELSE obj
  <2>2. w.here = obj.here /\ w.deleting = obj.deleting /\ w.fin = obj.fin
    BY <2>1 DEF CR, WantLabels
  <2>3. obj' = NoCR \/ obj' = w \/ obj' = obj
    BY <1>4 DEF EnsureLabels, Retry, Return
  <2> HIDE DEF w
  <2> QED BY <2>1, <2>2, <2>3, NoCRType DEF Truthful
<1>5. CASE StripFinalizers
  <2>1. obj \in CR /\ obj.here /\ obj.deleting
    BY <1>5, TypeParts DEF IInv, StripFinalizers, Holding
  <2>2. obj'.here = obj.here /\ obj'.deleting = obj.deleting
    BY <1>5, <2>1 DEF StripFinalizers, CR
  <2> QED BY <2>1, <2>2 DEF Truthful
<1>6. CASE PrepareSkips
  <2>1. obj' = NoCR \/ obj' = obj
    BY <1>6 DEF PrepareSkips, Forget, Return
  <2> QED BY <2>1, NoCRType DEF Truthful
<1>7. CASE PrepareFails
  <2>1. obj' = NoCR \/ obj' = obj
    BY <1>7 DEF PrepareFails, Retry, Return
  <2> QED BY <2>1, NoCRType DEF Truthful
<1>8. CASE StartGrace
  <2>1. obj' = NoCR \/ obj' = obj
    BY <1>8 DEF StartGrace, AddAfter, Return, Retry
  <2> QED BY <2>1, NoCRType DEF Truthful
<1>9. CASE WaitGrace
  <2>1. obj' = NoCR \/ obj' = obj
    BY <1>9 DEF WaitGrace, AddAfter, Return
  <2> QED BY <2>1, NoCRType DEF Truthful
<1>10. CASE DeleteCR
  <2>1. obj' = NoCR \/ obj' = obj
    BY <1>10 DEF DeleteCR, Forget, Retry, Return
  <2> QED BY <2>1, NoCRType DEF Truthful
<1>11. CASE Post
  <2>1. obj' = NoCR \/ obj' = obj
    BY <1>11 DEF Post, Return
  <2> QED BY <2>1, NoCRType DEF Truthful
<1>12. CASE Restart
  <2>1. obj' = NoCR \/ obj' = obj
    BY <1>12 DEF Restart, Return
  <2> QED BY <2>1, NoCRType DEF Truthful
<1>13. CASE UNCHANGED <<obj>>
  BY <1>13
<1> QED
  BY <1>1, <1>2, <1>3, <1>4, <1>5, <1>6, <1>7, <1>8, <1>9, <1>10, <1>11,
     <1>12, <1>13
  DEF Next, WorkerStep, Take, CleanupTriggered, Provision, BeginDeletion,
      SkipStage, SubmitStage, WaitFails, DeleteClusterScoped, Watch,
      TimerFires, Elapse, Resync, ConditionsChange, UserDeletes,
      CollectGarbage, PollGone, ResourceGone, CleanupMet, Now,
      Fault, Deleted, Fail, Write, Settle, vars, api, queue, locals, held,
      clock, bounds

(* The worker learns of a deletion from the cache.                         *)
LEMMA ObjDeleting ==
    ASSUME ~Aliased, IInv, [Next]_vars
    PROVE  obj'.deleting => obj.deleting \/ (obj' = cache /\ cache' = cache)
<1>1. CASE Prepare
  BY <1>1 DEF Prepare
<1>2. CASE CleanupNotMet
  <2>1. obj \in CR
    BY TypeParts DEF IInv
  <2> QED BY <1>2, <2>1 DEF CleanupNotMet, CR
<1>3. CASE EnsureFinalizers
  <2>1. obj \in CR
    BY TypeParts DEF IInv
  <2>2. [obj EXCEPT !.fin = obj.fin \cup {Ours}].deleting = obj.deleting
    BY <2>1 DEF CR
  <2> QED BY <1>3, <2>2, NoCRType DEF EnsureFinalizers, Retry, Return
<1>4. CASE EnsureLabels
  <2> DEFINE w == IF Protect THEN WantLabels(obj) ELSE obj
  <2>1. obj \in CR
    BY TypeParts DEF IInv
  <2>2. w.deleting = obj.deleting
    BY <2>1 DEF CR, WantLabels
  <2>3. obj' = NoCR \/ obj' = w \/ obj' = obj
    BY <1>4 DEF EnsureLabels, Retry, Return
  <2> HIDE DEF w
  <2> QED BY <2>2, <2>3, NoCRType
<1>5. CASE StripFinalizers
  <2>1. obj.deleting
    BY <1>5 DEF IInv, StripFinalizers, Holding
  <2> QED BY <2>1
<1>6. CASE PrepareSkips
  <2>1. obj' = NoCR \/ obj' = obj
    BY <1>6 DEF PrepareSkips, Forget, Return
  <2> QED BY <2>1, NoCRType
<1>7. CASE PrepareFails
  <2>1. obj' = NoCR \/ obj' = obj
    BY <1>7 DEF PrepareFails, Retry, Return
  <2> QED BY <2>1, NoCRType
<1>8. CASE StartGrace
  <2>1. obj' = NoCR \/ obj' = obj
    BY <1>8 DEF StartGrace, AddAfter, Return, Retry
  <2> QED BY <2>1, NoCRType
<1>9. CASE WaitGrace
  <2>1. obj' = NoCR \/ obj' = obj
    BY <1>9 DEF WaitGrace, AddAfter, Return
  <2> QED BY <2>1, NoCRType
<1>10. CASE DeleteCR
  <2>1. obj' = NoCR \/ obj' = obj
    BY <1>10 DEF DeleteCR, Forget, Retry, Return
  <2> QED BY <2>1, NoCRType
<1>11. CASE Post
  <2>1. obj' = NoCR \/ obj' = obj
    BY <1>11 DEF Post, Return
  <2> QED BY <2>1, NoCRType
<1>12. CASE Restart
  <2>1. obj' = NoCR \/ obj' = obj
    BY <1>12 DEF Restart, Return
  <2> QED BY <2>1, NoCRType
<1>13. CASE UNCHANGED <<obj>>
  BY <1>13
<1> QED
  BY <1>1, <1>2, <1>3, <1>4, <1>5, <1>6, <1>7, <1>8, <1>9, <1>10, <1>11,
     <1>12, <1>13
  DEF Next, WorkerStep, Take, CleanupTriggered, Provision, BeginDeletion,
      SkipStage, SubmitStage, WaitFails, DeleteClusterScoped, Watch,
      TimerFires, Elapse, Resync, ConditionsChange, UserDeletes,
      CollectGarbage, PollGone, ResourceGone, CleanupMet, Now,
      Fault, Deleted, Fail, Write, Settle, vars, api, queue, locals, held,
      clock, bounds

(* and so does the cache. *)
LEMMA CopiesStep ==
    ASSUME ~Aliased, IInv, [Next]_vars
    PROVE  cache' \in CR /\ Copies'
<1>1. Persists /\ Truthful(cache, server') /\ Truthful(obj, server')
  BY ServerStep, CopiesStay
<1>2. Truthful(obj', server')
  BY <1>1, ObjStep
<1>3. cache' \in CR /\ Truthful(cache', server')
  <2>1. CASE cache' = cache
    BY <1>1, <2>1, TypeParts DEF IInv
  <2>2. CASE cache' = server /\ server' = server
    BY <2>2, TypeParts DEF IInv, Stored, Truthful
  <2> QED BY <2>1, <2>2, CacheStays
<1>4. obj'.deleting /\ cache'.here => cache'.deleting
  <2>1. obj'.deleting => obj.deleting \/ (obj' = cache /\ cache' = cache)
    BY ObjDeleting
  <2>2. CASE cache' = cache
    BY <2>1, <2>2 DEF IInv, Copies
  <2>3. CASE cache' = server /\ server' = server
    BY <1>2, <2>3 DEF Truthful
  <2> QED BY <2>2, <2>3, CacheStays
<1> QED BY <1>2, <1>3, <1>4 DEF Copies

-----------------------------------------------------------------------------
(* No stage is below the first one.                                       *)
LEMMA BelowFirst == StagesBelow(1) = {}
  BY StagesLen DEF StagesBelow, Unconditional

(* The stages below the next one (runOrderedDelete).                       *)
LEMMA BelowNext ==
    ASSUME NEW n \in 1 .. Len(Stages)
    PROVE  StagesBelow(n + 1) = IF n \in Conditional THEN StagesBelow(n)
                                ELSE StagesBelow(n) \cup Stages[n]
<1>1. \A j \in Unconditional : j < n + 1 <=> j < n \/ j = n
  BY StagesLen DEF Unconditional
<1>2. n \in Unconditional <=> n \notin Conditional
  BY DEF Unconditional
<1> QED BY <1>1, <1>2, StagesLen DEF StagesBelow

(* Outside Provision, resources only go, and what is clean stays clean.    *)
Shrinks == Left' \subseteq Left /\ (Clean => Clean')

(* Submitting deletes adds nothing to what is left.                        *)
LEMMA DeletedShrinks ==
    ASSUME ResType, NEW S, res' = Deleted(S) PROVE Shrinks
  BY DEF Shrinks, Clean, Left, Doomed, Deleted, ResType

(* Every step but Provision shrinks what is left.                          *)
LEMMA ShrinkStep ==
    ASSUME ~Aliased, IInv, [Next]_vars PROVE Provision \/ Shrinks
<1>1. CASE Provision
  BY <1>1 DEF Provision
<1>2. CASE SubmitStage
  <2>1. \E S : res' = Deleted(S)
    BY <1>2 DEF SubmitStage
  <2> QED BY <2>1, TypeParts, DeletedShrinks DEF IInv
<1>3. CASE DeleteClusterScoped
  <2>1. \E S : res' = Deleted(S)
    BY <1>3 DEF DeleteClusterScoped
  <2> QED BY <2>1, TypeParts, DeletedShrinks DEF IInv
<1>4. ASSUME NEW r \in Resources, ResourceGone(r)
      PROVE  Provision \/ Shrinks
  BY <1>4, TypeParts
  DEF ResourceGone, IInv, ResType, Shrinks, Clean, Left, Doomed
<1>5. CASE UNCHANGED <<res>>
  BY <1>5
  DEF Shrinks, Clean, Left, Doomed
<1> QED
  BY <1>1, <1>2, <1>3, <1>4, <1>5
  DEF Next, WorkerStep, Take, Prepare, PrepareSkips, PrepareFails,
      CleanupNotMet, StartGrace, WaitGrace, CleanupTriggered,
      EnsureFinalizers, EnsureLabels, DeleteCR, BeginDeletion, SkipStage,
      WaitFails, StripFinalizers, Post, Watch, TimerFires, Elapse, Resync,
      Restart, ConditionsChange, UserDeletes, CollectGarbage, PollGone,
      Forget, Return, Retry, Fault, Mutated, CleanupMet, Now, Write,
      Settle, AddAfter, Lost, Accepts, WithFinalizers, Patched, WantLabels,
      Fail, vars, api, queue, locals, held, clock, bounds

(* Resources are created only under our finalizer.                         *)
LEMMA ProvisionHeld ==
    ASSUME IInv, Provision PROVE Ours \in server.fin /\ server' = server
  BY DEF IInv, Provision, Holding, Copies, Truthful

(* The finalizer is there until everything is clean.                       *)
LEMMA FinalizerGuards ==
    ASSUME ~Aliased, IInv, [Next]_vars
    PROVE  Ours \in server'.fin \/ Clean'
<1>1. CASE Provision
  BY <1>1, ProvisionHeld
<1>2. CASE Shrinks
  BY <1>2, ServerStep DEF IInv, Teardown, Shrinks, FinalizerStays
<1> QED BY <1>1, <1>2, ShrinkStep

(* How far the teardown has come, by the step that takes it further.       *)
Progress ==
    /\ pc = "stage" => StagesBelow(stage) \cap Left = {}
    /\ pc = "wait" => /\ stage <= Len(Stages)
                      /\ StagesBelow(stage) \cap Left = {}
                      /\ (Stages[stage] \ pending) \cap Left = {}
    /\ pc = "strip" => Clean

(* Each stage is gone when the next one begins.                            *)
LEMMA ProgressStep ==
    ASSUME ~Aliased, ControlType, ResType, Progress, Shrinks, [Next]_vars
    PROVE  Progress'
<1>1. CASE BeginDeletion
  BY <1>1, BelowFirst DEF BeginDeletion, Progress
<1>2. CASE SkipStage
  <2>1. stage \in 1 .. Len(Stages) /\ StagesBelow(stage + 1) = StagesBelow(stage)
    BY <1>2, StagesLen, BelowNext DEF SkipStage
  <2> QED BY <1>2, <2>1 DEF SkipStage, Progress, Shrinks
<1>3. CASE SubmitStage
  <2>1. stage \in 1 .. Len(Stages)
    BY <1>3, StagesLen DEF SubmitStage, ControlType
  <2>2. CASE pc' = "post"
    BY <2>2 DEF Progress
  <2>3. CASE Stages[stage] = {} /\ stage' = stage + 1 /\ pc' = pc
    BY <1>3, <2>1, <2>3, BelowNext DEF SubmitStage, Progress, Shrinks
  <2>4. CASE pc' = "wait" /\ pending' = Stages[stage] /\ stage' = stage
    BY <1>3, <2>1, <2>4 DEF SubmitStage, Progress, Shrinks
  <2> QED BY <1>3, <2>2, <2>3, <2>4 DEF SubmitStage, Fail
<1>4. CASE DeleteClusterScoped
  <2>1. Awaited \cap Left = {}
    BY <1>4 DEF DeleteClusterScoped, Progress, Awaited
  <2>2. CASE pc' = "post"
    BY <2>2 DEF Progress
  <2>3. CASE pc' = "strip" /\ res' = Deleted(ClusterScoped)
    <3>1. ClusterScoped \cap Left' \subseteq Doomed'
      BY <2>3 DEF Deleted, Left, Doomed, ResType
    <3> QED BY <2>1, <2>3, <3>1 DEF Progress, Clean, Shrinks
  <2> QED BY <1>4, <2>2, <2>3 DEF DeleteClusterScoped, Fail
<1>5. ASSUME NEW r \in Resources, PollGone(r)
      PROVE  Progress'
  <2>1. stage \in 1 .. Len(Stages) /\ r \notin Left
    BY <1>5, StagesLen DEF PollGone, ControlType, Progress, Left
  <2>2. CASE pending' = {} /\ stage' = stage + 1 /\ pc' = "stage"
    <3>1. Stages[stage] \cap Left = {}
      BY <1>5, <2>1, <2>2 DEF PollGone, Progress
    <3> QED BY <1>5, <2>1, <2>2, <3>1, BelowNext
        DEF PollGone, Progress, Shrinks
  <2>3. CASE stage' = stage /\ pc' = pc
    BY <1>5, <2>1, <2>3 DEF PollGone, Progress, Shrinks
  <2> QED BY <1>5, <2>2, <2>3 DEF PollGone
<1>6. CASE Take
  BY <1>6 DEF Take, Progress
<1>7. CASE Prepare
  BY <1>7 DEF Prepare, Progress
<1>8. CASE PrepareSkips
  BY <1>8 DEF PrepareSkips, Forget, Return, Progress
<1>9. CASE PrepareFails
  BY <1>9 DEF PrepareFails, Retry, Return, Progress
<1>10. CASE CleanupNotMet
  BY <1>10 DEF CleanupNotMet, Progress
<1>11. CASE StartGrace
  BY <1>11 DEF StartGrace, AddAfter, Return, Retry, Progress
<1>12. CASE WaitGrace
  BY <1>12 DEF WaitGrace, AddAfter, Return, Progress
<1>13. CASE CleanupTriggered
  BY <1>13 DEF CleanupTriggered, Progress
<1>14. CASE EnsureFinalizers
  BY <1>14 DEF EnsureFinalizers, Retry, Return, Progress
<1>15. CASE EnsureLabels
  BY <1>15 DEF EnsureLabels, Retry, Return, Progress
<1>16. CASE DeleteCR
  BY <1>16 DEF DeleteCR, Forget, Retry, Return, Progress
<1>17. CASE Provision
  BY <1>17 DEF Provision, Progress
<1>18. CASE WaitFails
  BY <1>18 DEF WaitFails, Fail, Progress
<1>19. CASE StripFinalizers
  BY <1>19 DEF StripFinalizers, Fail, Progress
<1>20. CASE Post
  BY <1>20 DEF Post, Return, Progress
<1>21. CASE Restart
  BY <1>21 DEF Restart, Return, Progress
<1>22. CASE UNCHANGED <<pc, stage, pending>>
  BY <1>22
  DEF Progress, Shrinks
<1> QED
  BY <1>1, <1>2, <1>3, <1>4, <1>5, <1>6, <1>7, <1>8, <1>9, <1>10, <1>11,
     <1>12, <1>13, <1>14, <1>15, <1>16, <1>17, <1>18, <1>19, <1>20, <1>21,
     <1>22
  DEF Next, WorkerStep, Watch, TimerFires, Elapse, Resync, ConditionsChange,
      UserDeletes, CollectGarbage, ResourceGone, Write, Settle, vars, api,
      queue, locals, held, clock, bounds

(* The progress of handleDeletion is kept by every step.                   *)
LEMMA TeardownStep ==
    ASSUME ~Aliased, IInv, [Next]_vars PROVE Teardown'
<1>1. Progress /\ ControlType /\ ResType
  BY TypeParts DEF IInv, Teardown, Progress
<1>2. CASE Provision
  <2>1. pc' = "post"
    BY <1>2 DEF Provision
  <2> QED BY <2>1, FinalizerGuards DEF Teardown
<1>3. CASE Shrinks
  <2>1. Progress'
    BY <1>1, <1>3, ProgressStep
  <2> QED BY <2>1, FinalizerGuards DEF Teardown, Progress
<1> QED BY <1>2, <1>3, ShrinkStep

-----------------------------------------------------------------------------
(* The three copies of the custom resource stay custom resources, whether  *)
(* or not the worker writes into the informer's own.                       *)
LEMMA CopyTypes ==
    ASSUME TypeOK, [Next]_vars
    PROVE  server' \in CR /\ cache' \in CR /\ obj' \in CR
<1>0. /\ server \in CR /\ cache \in CR /\ obj \in CR /\ NoCR \in CR
      /\ Now \in Nat
  BY NoCRType DEF TypeOK, Now
<1>1. ASSUME NEW w \in CR, server' = server \/ server' = Settle(w)
      PROVE  server' \in CR
  BY <1>0, <1>1 DEF Settle
<1>2. ASSUME NEW o \in CR PROVE Mutated(o) \in CR
  BY <1>0 DEF Mutated
<1>3. CASE CleanupNotMet
  <2>1. [obj EXCEPT !.stamp = 0] \in CR
    BY <1>0 DEF CR
  <2>2. obj' \in CR /\ server' = server
    BY <1>0, <1>3, <2>1 DEF CleanupNotMet, api
  <2>3. cache' = IF alias THEN obj' ELSE cache
    BY <1>3 DEF CleanupNotMet, Mutated
  <2> QED BY <1>0, <2>2, <2>3
<1>4. CASE StartGrace
  <2>1. /\ [obj EXCEPT !.stamp = Now] \in CR
        /\ [server EXCEPT !.stamp = Now] \in CR
    BY <1>0 DEF CR
  <2>2. cache' \in CR /\ obj' = NoCR
    BY <1>2, <1>4, <2>1 DEF StartGrace, AddAfter, Retry, Return
  <2>3. \/ server' = server
        \/ server' = Settle([server EXCEPT !.stamp = Now])
    BY <1>4 DEF StartGrace, Write, Lost
  <2> QED BY <1>0, <1>1, <2>1, <2>2, <2>3
<1>5. CASE EnsureFinalizers
  <2> DEFINE f == obj.fin \cup {Ours}
  <2>1. [obj EXCEPT !.fin = f] \in CR /\ WithFinalizers(f) \in CR
    BY <1>0 DEF CR, WithFinalizers, Ours
  <2>2. server' = server \/ server' = Settle(WithFinalizers(f))
    BY <1>5 DEF EnsureFinalizers, Write, Lost
  <2>3. cache' = cache \/ cache' = Mutated([obj EXCEPT !.fin = f])
    BY <1>5 DEF EnsureFinalizers
  <2>4. obj' \in {obj, NoCR, [obj EXCEPT !.fin = f]}
    BY <1>5 DEF EnsureFinalizers, Retry, Return
  <2> HIDE DEF f
  <2> QED BY <1>0, <1>1, <1>2, <2>1, <2>2, <2>3, <2>4
<1>6. CASE EnsureLabels
  <2> DEFINE w == IF Protect THEN WantLabels(obj) ELSE obj
  <2>1. w \in CR
    BY <1>0 DEF CR, WantLabels
  <2>2. Patched(obj, w) \in CR
    BY <1>0, <2>1 DEF CR, Patched
  <2>3. server' = server \/ server' = Settle(Patched(obj, w))
    BY <1>6 DEF EnsureLabels, Write, Lost
  <2>4. cache' = cache \/ cache' = Mutated(w)
    BY <1>6 DEF EnsureLabels
  <2>5. obj' \in {obj, NoCR, w}
    BY <1>6 DEF EnsureLabels, Retry, Return
  <2> HIDE DEF w
  <2> QED BY <1>0, <1>1, <1>2, <2>1, <2>2, <2>3, <2>4, <2>5
<1>7. CASE DeleteCR
  <2> DEFINE w == IF server.deleting THEN server
                  ELSE [server EXCEPT !.deleting = TRUE,
                                      !.fin = @ \cup {Foreground}]
  <2>1. w \in CR
    <3>1. server.deleting => w = server
      OBVIOUS
    <3>2. ~server.deleting
          => w = [server EXCEPT !.deleting = TRUE,
                                !.fin = @ \cup {Foreground}]
      OBVIOUS
    <3>3. [server EXCEPT !.deleting = TRUE, !.fin = @ \cup {Foreground}] \in CR
      BY <1>0 DEF CR, Foreground
    <3> HIDE DEF w
    <3> QED BY <1>0, <3>1, <3>2, <3>3
  <2>2. server' = server \/ server' = Settle(w)
    BY <1>7, Zenon DEF DeleteCR, Write, Lost
  <2>3. cache' = cache /\ obj' = NoCR
    BY <1>7 DEF DeleteCR, Forget, Retry, Return
  <2> HIDE DEF w
  <2> QED BY <1>0, <1>1, <2>1, <2>2, <2>3
<1>8. CASE StripFinalizers
  <2> DEFINE f == obj.fin \ {Ours}
  <2>1. [obj EXCEPT !.fin = f] \in CR /\ WithFinalizers(f) \in CR
    BY <1>0 DEF CR, WithFinalizers
  <2>2. server' = server \/ server' = Settle(WithFinalizers(f))
    BY <1>8 DEF StripFinalizers, Write, Lost
  <2>3. \/ obj' = obj /\ cache' = cache
        \/ obj' = [obj EXCEPT !.fin = f] /\ cache' = Mutated(obj')
    BY <1>8 DEF StripFinalizers
  <2>4. Mutated([obj EXCEPT !.fin = f]) \in CR
    BY <1>2, <2>1
  <2>5. obj' \in CR /\ cache' \in CR
    BY <1>0, <2>1, <2>3, <2>4 DEF Mutated
  <2> HIDE DEF f
  <2> QED BY <1>1, <2>1, <2>2, <2>5
<1>9. CASE ConditionsChange
  <2>1. [server EXCEPT !.met = ~@] \in CR
    BY <1>0 DEF CR
  <2> QED
    BY <1>0, <1>1, <1>9, <2>1 DEF ConditionsChange, Write, held
<1>10. CASE UserDeletes
  <2>1. [server EXCEPT !.deleting = TRUE] \in CR
    BY <1>0 DEF CR
  <2> QED
    BY <1>0, <1>1, <1>10, <2>1 DEF UserDeletes, Write, held
<1>11. CASE CollectGarbage
  <2>1. [server EXCEPT !.fin = @ \ {Foreground}] \in CR
    BY <1>0 DEF CR
  <2> QED
    BY <1>0, <1>1, <1>11, <2>1 DEF CollectGarbage, Write, held
<1>12. CASE /\ server' = server
            /\ cache' \in {cache, server}
            /\ obj' \in {obj, cache, NoCR}
  BY <1>0, <1>12
<1> QED
  BY <1>3, <1>4, <1>5, <1>6, <1>7, <1>8, <1>9, <1>10, <1>11, <1>12
  DEF Next, WorkerStep, Take, Prepare, PrepareSkips, PrepareFails,
      WaitGrace, CleanupTriggered, Provision, BeginDeletion, SkipStage,
      SubmitStage, PollGone, WaitFails, DeleteClusterScoped, Post, Watch,
      TimerFires, Elapse, Resync, Restart, ResourceGone, Forget, Return,
      Retry, AddAfter, vars, api, held

(* The types are inductive by themselves, with an aliased object too.      *)
LEMMA Typed ==
    Spec => [](TypeOK /\ WaitBound)
<1>1. Init => TypeOK /\ WaitBound
  <2> SUFFICES ASSUME Init PROVE TypeOK /\ WaitBound
    OBVIOUS
  <2>1. server \in CR /\ cache \in CR /\ obj \in CR
    BY NoCRType DEF Init, CR, NoCR
  <2>2. FlagType
    BY DEF Init, FlagType
  <2>3. ControlType /\ WaitBound
    BY StagesLen DEF Init, ControlType, WaitBound
  <2>4. TimeType /\ BoundsType /\ ResType
    BY OptionsAssumption DEF Init, TimeType, BoundsType, ResType
  <2> QED BY <2>1, <2>2, <2>3, <2>4, TypeParts
<1>2. TypeOK /\ WaitBound /\ [Next]_vars => (TypeOK /\ WaitBound)'
  <2> SUFFICES ASSUME TypeOK, WaitBound, [Next]_vars
               PROVE  TypeOK' /\ WaitBound'
    OBVIOUS
  <2>1. /\ FlagType /\ ControlType /\ TimeType /\ BoundsType /\ ResType
        /\ server \in CR /\ obj \in CR
    BY TypeParts
  <2>2. /\ FlagType' /\ ControlType' /\ WaitBound' /\ TimeType'
        /\ BoundsType' /\ ResType'
    BY <2>1, FlagStep, ControlStep, TimeStep, BoundsStep, ResStep
  <2> QED
    BY <2>2, CopyTypes
    DEF TypeOK, FlagType, ControlType, TimeType, BoundsType, ResType
<1> QED BY <1>1, <1>2, PTL DEF Spec

(* The variables keep their types through faults, restarts and any number  *)
(* of stages, whether Prepare hands out a copy or the informer's object.   *)
THEOREM TypeCorrect == Spec => []TypeOK
<1> QED BY Typed, PTL

(* The inductive invariant holds before the first event.                   *)
LEMMA Initially ==
    ASSUME ~Aliased, Init PROVE IInv
<1>1. server \in CR /\ cache \in CR /\ obj \in CR
  BY NoCRType DEF Init, CR, NoCR
<1>2. TypeOK
  <2>1. FlagType
    BY DEF Init, FlagType
  <2>2. ControlType
    BY StagesLen DEF Init, ControlType
  <2>3. TimeType /\ BoundsType /\ ResType
    BY OptionsAssumption DEF Init, TimeType, BoundsType, ResType
  <2> QED BY <1>1, <2>1, <2>2, <2>3, TypeParts
<1>3. Stored /\ Holding /\ Copies
  <2>1. server.here /\ ~server.deleting
    BY DEF Init, NoCR
  <2> QED BY <2>1, NoCRType DEF Init, Stored, Holding, Copies, Truthful
<1>4. Left = {}
  BY DEF Init, Left
<1>5. Teardown
  BY <1>4 DEF Init, Teardown, Clean
<1> QED BY <1>2, <1>3, <1>5 DEF IInv

(* The inductive invariant is kept by every step of the pipeline.          *)
LEMMA Inductive ==
    ASSUME ~Aliased, IInv, [Next]_vars PROVE IInv'
<1>1. /\ FlagType /\ ControlType /\ TimeType /\ BoundsType /\ ResType
      /\ server \in CR /\ obj \in CR
      /\ WaitBound
  BY TypeParts DEF IInv, Teardown, WaitBound
<1>2. FlagType' /\ ControlType' /\ TimeType' /\ BoundsType' /\ ResType'
  BY <1>1, FlagStep, ControlStep, TimeStep, BoundsStep, ResStep
<1>3. server' \in CR /\ Stored'
  BY ServerStep DEF Persists
<1>4. obj' \in CR /\ Holding'
  BY HoldingStep
<1>5. cache' \in CR /\ Copies'
  BY CopiesStep
<1>6. TypeOK'
  BY <1>2, <1>3, <1>4, <1>5
  DEF TypeOK, FlagType, ControlType, TimeType, BoundsType, ResType
<1> QED BY <1>3, <1>4, <1>5, <1>6, TeardownStep DEF IInv

(* The inductive invariant, when Prepare hands out a copy.                 *)
THEOREM Invariance ==
    ASSUME ~Aliased PROVE Spec => []IInv
<1>1. Init => IInv
  BY Initially
<1>2. IInv /\ [Next]_vars => IInv'
  BY Inductive
<1> QED BY <1>1, <1>2, PTL DEF Spec

(* The system finalizer guarantees that handleDeletion has succeeded when  *)
(* a custom resource is gone, whatever failed on the way.                  *)
THEOREM FinalizerGuarantee ==
    ASSUME ~Aliased PROVE Spec => []NothingOrphaned
<1>1. IInv => NothingOrphaned
  BY NoCRType DEF IInv, Stored, Teardown, Clean, NothingOrphaned
<1> QED BY <1>1, Invariance, PTL

-----------------------------------------------------------------------------
(* The refinement.                                                         *)
LEMMA StageOfUnique ==
    ASSUME NEW i \in 1 .. Len(Stages), NEW r \in Stages[i]
    PROVE  StageOf(r) = i /\ r \notin ClusterScoped /\ r \in Resources
<1>1. \A j \in 1 .. Len(Stages) : r \in Stages[j] => j = i
  BY StagesAssumption
<1>2. r \in Staged
  BY DEF Staged
<1> QED BY <1>1, <1>2, StagesAssumption DEF StageOf, Resources

(* The initial state of the pipeline is one of StagedTeardown.             *)
LEMMA PromiseInit ==
    ASSUME Init PROVE Promise!Init
<1>1. Left = {} /\ Doomed = {}
  BY DEF Init, Left, Doomed
<1>2. server.here /\ ~server.deleting
  BY DEF Init, NoCR
<1> QED BY <1>1, <1>2 DEF Promise!Init

(* A step of the custom resource alone: it is condemned, it ends, or the   *)
(* promise sees nothing.                                                   *)
LEMMA PromiseOfServer ==
    ASSUME ~Aliased, IInv, [Next]_vars, res' = res
    PROVE  [Promise!Next]_(Promise!vars)
<1>1. Left' = Left /\ Doomed' = Doomed
  BY DEF Left, Doomed
<1>2. Persists /\ (Ours \in server'.fin \/ Clean')
  BY ServerStep, FinalizerGuards
<1>3. CASE ~server'.here /\ server.here
  <2>1. Clean
    BY <1>1, <1>2, <1>3, NoCRType DEF Persists, Stored, Clean
  <2>2. Promise!End
    BY <1>1, <1>3, <2>1 DEF Promise!End, Clean
  <2> QED BY <2>2 DEF Promise!Next
<1>4. CASE ~server.here
  <2>1. ~server'.here
    BY <1>2, <1>4 DEF Persists
  <2> QED BY <1>1, <1>4, <2>1 DEF Promise!vars
<1>5. CASE server'.here /\ server.here /\ server.deleting
  <2>1. server'.deleting
    BY <1>2, <1>5 DEF Persists
  <2> QED BY <1>1, <1>5, <2>1 DEF Promise!vars
<1>6. CASE server'.here /\ server.here /\ ~server.deleting /\ ~server'.deleting
  BY <1>1, <1>6 DEF Promise!vars
<1>7. CASE server'.here /\ server.here /\ ~server.deleting /\ server'.deleting
  <2>1. Promise!Condemn
    BY <1>1, <1>7 DEF Promise!Condemn
  <2> QED BY <2>1 DEF Promise!Next
<1> QED BY <1>3, <1>4, <1>5, <1>6, <1>7

(* A delete of resources whose predecessors have gone.                     *)
LEMMA PromiseOfDelete ==
    ASSUME IInv, NEW S \in SUBSET Resources, res' = Deleted(S),
           server' = server, obj.deleting,
           \A r \in S : (IF r \in ClusterScoped THEN Awaited
                         ELSE StagesBelow(StageOf(r))) \cap Left = {}
    PROVE  Promise!Next
<1> DEFINE D == {r \in S : res[r] = "present"}
<1>1. Left' = Left /\ Doomed' = Doomed \cup D /\ D \subseteq Left
  BY TypeParts DEF IInv, ResType, Left, Doomed, Deleted
<1>2. server.deleting \/ ~server.here
  BY DEF IInv, Copies, Truthful
<1>3. D \in SUBSET Left /\ D \subseteq S
  BY <1>1
<1> HIDE DEF D
<1>4. Promise!Doom
  BY <1>1, <1>2, <1>3 DEF Promise!Doom
<1> QED BY <1>4 DEF Promise!Next

(* Every step of the pipeline is one of StagedTeardown or a stutter.       *)
LEMMA PromiseStep ==
    ASSUME ~Aliased, IInv, [Next]_vars
    PROVE  [Promise!Next]_(Promise!vars)
<1>1. CASE Provision
  <2>1. PICK S \in SUBSET Resources :
            res' = [r \in Resources |->
                       IF r \in S /\ res[r] = "absent" THEN "present"
                       ELSE res[r]]
    BY <1>1 DEF Provision
  <2>2. Left' = Left \cup S /\ Doomed' = Doomed
    BY <2>1, TypeParts DEF IInv, ResType, Left, Doomed
  <2>3. server' = server /\ server.here
    BY <1>1, ProvisionHeld, NoCRType DEF IInv, Stored
  <2>4. Promise!Provision
    BY <2>2, <2>3 DEF Promise!Provision
  <2> QED BY <2>4 DEF Promise!Next
<1>2. CASE SubmitStage
  <2>1. stage \in 1 .. Len(Stages) /\ StagesBelow(stage) \cap Left = {}
    BY <1>2, TypeParts, StagesLen
    DEF SubmitStage, IInv, ControlType, Teardown
  <2>2. PICK S \in SUBSET Stages[stage] : res' = Deleted(S)
    BY <1>2 DEF SubmitStage
  <2>3. server' = server /\ obj.deleting
    BY <1>2 DEF SubmitStage, IInv, Holding
  <2>4. \A r \in S : /\ r \in Resources /\ r \notin ClusterScoped
                     /\ StageOf(r) = stage
    BY <2>1, <2>2, StageOfUnique
  <2> QED BY <2>1, <2>2, <2>3, <2>4, PromiseOfDelete
<1>3. CASE DeleteClusterScoped
  <2>1. Awaited \cap Left = {}
    BY <1>3 DEF DeleteClusterScoped, IInv, Teardown, Awaited
  <2>2. PICK S \in SUBSET ClusterScoped : res' = Deleted(S)
    BY <1>3 DEF DeleteClusterScoped
  <2>3. server' = server /\ obj.deleting
    BY <1>3 DEF DeleteClusterScoped, IInv, Holding
  <2>4. S \in SUBSET Resources
    BY <2>2 DEF Resources
  <2> QED BY <2>1, <2>2, <2>3, <2>4, PromiseOfDelete
<1>4. ASSUME NEW r \in Resources, ResourceGone(r)
      PROVE  Promise!Next
  <2>1. r \in Doomed /\ Left' = Left \ {r} /\ Doomed' = Doomed \ {r}
    BY <1>4, TypeParts DEF ResourceGone, IInv, ResType, Left, Doomed
  <2>2. server' = server
    BY <1>4 DEF ResourceGone
  <2>3. Promise!Vanish
    BY <2>1, <2>2 DEF Promise!Vanish
  <2> QED BY <2>3 DEF Promise!Next
<1>5. CASE res' = res
  BY <1>5, PromiseOfServer
<1> QED
  BY <1>1, <1>2, <1>3, <1>4, <1>5
  DEF Next, WorkerStep, Take, Prepare, PrepareSkips, PrepareFails,
      CleanupNotMet, StartGrace, WaitGrace, CleanupTriggered,
      EnsureFinalizers, EnsureLabels, DeleteCR, BeginDeletion, SkipStage,
      WaitFails, StripFinalizers, Post, Watch, TimerFires, Elapse, Resync,
      Restart, ConditionsChange, UserDeletes, CollectGarbage, PollGone,
      Forget, Return, Retry, Fault, Mutated, CleanupMet, Now, Write,
      Settle, AddAfter, Lost, Accepts, WithFinalizers, Patched, WantLabels,
      Fail, vars, api, queue, locals, held, clock, bounds

(* The pipeline implements StagedTeardown: stages in order, the custom     *)
(* resource last, across retries, time-outs, partial failures, restarts    *)
(* and stale caches.                                                       *)
THEOREM Refinement ==
    ASSUME ~Aliased PROVE Spec => PromiseKept
<1>1. Init => Promise!Init
  BY PromiseInit
<1>2. IInv /\ [Next]_vars => [Promise!Next]_(Promise!vars)
  BY PromiseStep
<1> QED
  BY <1>1, <1>2, Invariance, PTL DEF Spec, PromiseKept, Promise!Spec

-----------------------------------------------------------------------------
(* A cleanup has been triggered only by a stamp whose deleteAfter is over, *)
(* and the worker still holds the object with that stamp when it deletes.  *)
Triggered ==
    /\ trigger => pc \in {"maintain", "labels", "delete"} /\ Due(obj.stamp)
    /\ pc = "delete" => trigger

(* The stamps of the cache and the worker are none, or not later than the  *)
(* server's, and nobody has a stamp from the future.                       *)
Recorded ==
    /\ server.stamp <= instant
    /\ server.here => cache.stamp <= server.stamp /\ obj.stamp <= server.stamp

(* applyLabels leaves the annotations alone.                               *)
LEMMA LabelsKeepStamp ==
    ASSUME obj \in CR, EnsureLabels
    PROVE  /\ obj'.stamp \in {obj.stamp, 0}
           /\ pc' # "idle" => obj'.stamp = obj.stamp
<1> DEFINE w == IF Protect THEN WantLabels(obj) ELSE obj
<1>1. w.stamp = obj.stamp
  BY DEF CR, WantLabels
<1>2. obj' \in {obj, w} \/ (obj' = NoCR /\ pc' = "idle")
  BY DEF EnsureLabels, Retry, Return
<1> HIDE DEF w
<1> QED BY <1>1, <1>2 DEF NoCR

(* Only the gate triggers a cleanup, and the clock never goes back.        *)
LEMMA TriggerStep ==
    ASSUME TimeType, obj \in CR, Triggered, [Next]_vars PROVE Triggered'
<1>0. obj.stamp \in Nat
  BY DEF CR
<1>1. CASE Take
  BY <1>0, <1>1
  DEF Take, api, queue, locals, held, clock, bounds, CR, Due, Triggered,
      TimeType
<1>2. CASE Prepare
  BY <1>0, <1>2
  DEF Prepare, api, queue, locals, held, clock, bounds, CR, Due, Triggered,
      TimeType
<1>3. CASE PrepareSkips
  BY <1>0, <1>3
  DEF PrepareSkips, Forget, Return, api, queue, locals, held, clock, bounds,
      CR, Due, Triggered, TimeType
<1>4. CASE PrepareFails
  BY <1>0, <1>4
  DEF PrepareFails, Retry, Return, Fault, api, queue, locals, held, clock,
      bounds, CR, Due, Triggered, TimeType
<1>5. CASE CleanupNotMet
  BY <1>0, <1>5
  DEF CleanupNotMet, Mutated, api, queue, locals, held, clock, bounds, CR, Due,
      Triggered, TimeType
<1>6. CASE StartGrace
  BY <1>0, <1>6
  DEF StartGrace, AddAfter, Return, Retry, api, queue, locals, held, clock,
      bounds, CR, Due, Triggered, TimeType
<1>7. CASE WaitGrace
  BY <1>0, <1>7
  DEF WaitGrace, AddAfter, Return, api, queue, locals, held, clock, bounds, CR,
      Due, Triggered, TimeType
<1>8. CASE CleanupTriggered
  BY <1>0, <1>8
  DEF CleanupTriggered, CleanupMet, api, queue, locals, held, clock, bounds,
      CR, Due, Triggered, TimeType
<1>9. CASE EnsureFinalizers
  BY <1>0, <1>9
  DEF EnsureFinalizers, Retry, Return, api, queue, locals, held, clock, bounds,
      CR, Due, Triggered, TimeType
<1>10. CASE EnsureLabels
  <2>1. \/ pc' = "idle" /\ trigger' = FALSE
        \/ /\ pc' = (IF trigger THEN "delete" ELSE "reconcile")
           /\ trigger' = trigger
    BY <1>10 DEF EnsureLabels, Retry, Return, locals
  <2>2. elapsed' = elapsed
    BY <1>10 DEF EnsureLabels, clock
  <2> QED BY <1>10, <2>1, <2>2, LabelsKeepStamp DEF Due, Triggered
<1>11. CASE DeleteCR
  BY <1>0, <1>11
  DEF DeleteCR, Forget, Retry, Return, api, queue, locals, held, clock, bounds,
      CR, Due, Triggered, TimeType
<1>12. CASE Provision
  BY <1>0, <1>12
  DEF Provision, Fault, api, queue, locals, held, clock, bounds, CR, Due,
      Triggered, TimeType
<1>13. CASE BeginDeletion
  BY <1>0, <1>13
  DEF BeginDeletion, api, queue, locals, held, clock, bounds, CR, Due,
      Triggered, TimeType
<1>14. CASE SkipStage
  BY <1>0, <1>14
  DEF SkipStage, api, queue, locals, held, clock, bounds, CR, Due, Triggered,
      TimeType
<1>15. CASE SubmitStage
  BY <1>0, <1>15
  DEF SubmitStage, Fail, api, queue, locals, held, clock, bounds, CR, Due,
      Triggered, TimeType
<1>16. CASE WaitFails
  BY <1>0, <1>16
  DEF WaitFails, Fail, api, queue, locals, held, clock, bounds, CR, Due,
      Triggered, TimeType
<1>17. CASE DeleteClusterScoped
  BY <1>0, <1>17
  DEF DeleteClusterScoped, Fail, api, queue, locals, held, clock, bounds, CR,
      Due, Triggered, TimeType
<1>18. CASE StripFinalizers
  BY <1>0, <1>18
  DEF StripFinalizers, Fail, api, queue, locals, held, clock, bounds, CR, Due,
      Triggered, TimeType
<1>19. CASE Post
  BY <1>0, <1>19
  DEF Post, Return, api, queue, locals, held, clock, bounds, CR, Due,
      Triggered, TimeType
<1>20. CASE Restart
  BY <1>0, <1>20
  DEF Restart, Return, api, queue, locals, held, clock, bounds, CR, Due,
      Triggered, TimeType
<1>21. CASE Elapse
  BY <1>0, <1>21
  DEF Elapse, api, queue, locals, held, clock, bounds, CR, Due, Triggered,
      TimeType
<1>22. ASSUME NEW r \in Resources, PollGone(r)
      PROVE  Triggered'
  BY <1>22
  DEF PollGone, api, queue, locals, held, clock, bounds, Due, Triggered,
      TimeType
<1>23. CASE UNCHANGED <<trigger, pc, obj, elapsed>>
  BY <1>23
  DEF Due, Triggered
<1> QED
  BY <1>1, <1>2, <1>3, <1>4, <1>5, <1>6, <1>7, <1>8, <1>9, <1>10, <1>11, <1>12,
      <1>13, <1>14, <1>15, <1>16, <1>17, <1>18, <1>19, <1>20, <1>21, <1>22,
      <1>23
  DEF Next, WorkerStep, Watch, TimerFires, Resync, ConditionsChange,
      UserDeletes, CollectGarbage, ResourceGone, Write, Settle, vars, api,
      queue, locals, held, clock, bounds

(* What the server stores keeps its stamp until it is gone, or is stamped  *)
(* by StartGrace with the latest instant.                                  *)
LEMMA StampStep ==
    ASSUME TypeOK, Stored, [Next]_vars
    PROVE  /\ instant' >= instant
           /\ server'.here => \/ server'.stamp = server.stamp
                              \/ server'.stamp = instant'
           /\ ~server'.here => server'.stamp = 0
<1>0. server \in CR /\ instant \in Nat /\ elapsed \in 0 .. instant
  BY DEF TypeOK
<1>1. CASE StartGrace
  BY <1>1, <1>0
  DEF StartGrace, CleanupMet, Now, Write, Settle, Lost, clock, CR, NoCR, Stored
<1>2. CASE EnsureFinalizers
  BY <1>2, <1>0
  DEF EnsureFinalizers, Accepts, WithFinalizers, Write, Settle, Lost, clock,
      CR, NoCR, Stored
<1>3. CASE EnsureLabels
  <2> DEFINE w == IF Protect THEN WantLabels(obj) ELSE obj
  <2>1. /\ Patched(obj, w).stamp = server.stamp
        /\ Patched(obj, w).here = server.here
    BY <1>0 DEF Patched, CR
  <2>2. server' = server \/ server' = Settle(Patched(obj, w))
    BY <1>3 DEF EnsureLabels, Write, Lost
  <2>3. instant' = instant
    BY <1>3 DEF EnsureLabels, clock
  <2>4. Settle(Patched(obj, w)) \in {Patched(obj, w), NoCR}
    BY DEF Settle
  <2> QED BY <1>0, <2>1, <2>2, <2>3, <2>4 DEF Stored, NoCR
<1>4. CASE DeleteCR
  <2> DEFINE new == IF server.deleting THEN server
                    ELSE [server EXCEPT !.deleting = TRUE,
                                        !.fin = @ \cup {Foreground}]
  <2>1. new.stamp = server.stamp /\ new.here = server.here
    BY <1>0 DEF CR
  <2>2. server' = server \/ server' = Settle(new)
    BY <1>4 DEF DeleteCR, Write, Lost
  <2>3. instant' = instant
    BY <1>4 DEF DeleteCR, clock
  <2> HIDE DEF new
  <2>4. Settle(new) \in {new, NoCR}
    BY DEF Settle
  <2> QED BY <1>0, <2>1, <2>2, <2>3, <2>4 DEF Stored, NoCR
<1>5. CASE StripFinalizers
  BY <1>5, <1>0
  DEF StripFinalizers, Accepts, WithFinalizers, Write, Settle, Lost, clock, CR,
      NoCR, Stored
<1>6. CASE ConditionsChange
  BY <1>6, <1>0
  DEF ConditionsChange, Write, Settle, clock, CR, NoCR, Stored
<1>7. CASE UserDeletes
  BY <1>7, <1>0
  DEF UserDeletes, Write, Settle, clock, CR, NoCR, Stored
<1>8. CASE CollectGarbage
  BY <1>8, <1>0
  DEF CollectGarbage, Write, Settle, clock, CR, NoCR, Stored
<1>9. CASE UNCHANGED <<server, instant>>
  BY <1>0, <1>9 DEF Stored, NoCR
<1> QED
  BY <1>1, <1>2, <1>3, <1>4, <1>5, <1>6, <1>7, <1>8, <1>9
  DEF Next, WorkerStep, Take, Prepare, PrepareSkips, PrepareFails,
      CleanupNotMet, WaitGrace, CleanupTriggered, Provision, BeginDeletion,
      SkipStage, SubmitStage, WaitFails, DeleteClusterScoped, Post, Watch,
      TimerFires, Elapse, Resync, Restart, PollGone, ResourceGone, vars, api,
      clock
(* The worker's stamp comes from the cache and goes with the object.       *)
LEMMA ObjStamp ==
    ASSUME TypeOK, [Next]_vars
    PROVE  obj'.stamp \in {obj.stamp, cache.stamp, 0}
<1>0. obj \in CR
  BY DEF TypeOK
<1>1. CASE Prepare
  BY <1>0, <1>1 DEF Prepare, CR, NoCR
<1>2. CASE PrepareSkips
  BY <1>0, <1>2 DEF PrepareSkips, Forget, Return, CR, NoCR
<1>3. CASE PrepareFails
  BY <1>0, <1>3 DEF PrepareFails, Retry, Return, CR, NoCR
<1>4. CASE CleanupNotMet
  BY <1>0, <1>4 DEF CleanupNotMet, CR, NoCR
<1>5. CASE StartGrace
  BY <1>0, <1>5 DEF StartGrace, AddAfter, Retry, Return, CR, NoCR
<1>6. CASE WaitGrace
  BY <1>0, <1>6 DEF WaitGrace, AddAfter, Return, CR, NoCR
<1>7. CASE EnsureFinalizers
  BY <1>0, <1>7 DEF EnsureFinalizers, Retry, Return, CR, NoCR
<1>8. CASE EnsureLabels
  BY <1>0, <1>8, LabelsKeepStamp
<1>9. CASE DeleteCR
  BY <1>0, <1>9 DEF DeleteCR, Forget, Retry, Return, CR, NoCR
<1>10. CASE StripFinalizers
  BY <1>0, <1>10 DEF StripFinalizers, CR, NoCR
<1>11. CASE Post
  BY <1>0, <1>11 DEF Post, Return, CR, NoCR
<1>12. CASE Restart
  BY <1>0, <1>12 DEF Restart, Return, CR, NoCR
<1>13. CASE UNCHANGED obj
  BY <1>13
<1> QED
  BY <1>1, <1>2, <1>3, <1>4, <1>5, <1>6, <1>7, <1>8, <1>9, <1>10, <1>11, <1>12,
      <1>13
  DEF Next, WorkerStep, Take, CleanupTriggered, Provision, BeginDeletion,
      SkipStage, SubmitStage, WaitFails, DeleteClusterScoped, Watch,
      TimerFires, Elapse, Resync, ConditionsChange, UserDeletes,
      CollectGarbage, PollGone, ResourceGone, vars, held

(* The copies follow the server's stamp.                                   *)
LEMMA RecordedStep ==
    ASSUME ~Aliased, IInv, Recorded, [Next]_vars PROVE Recorded'
<1>1. /\ server \in CR /\ server' \in CR /\ cache \in CR /\ obj \in CR
      /\ instant \in Nat /\ instant' \in Nat /\ alias = FALSE
      /\ server'.here => server.here
  BY Inductive, ServerStep DEF IInv, TypeOK, Holding, Persists
<1>2. /\ instant' >= instant
      /\ server'.here => server'.stamp \in {server.stamp, instant'}
      /\ ~server'.here => server'.stamp = 0
  BY StampStep DEF IInv
<1>3. server.stamp <= server'.stamp \/ ~server'.here
  BY <1>1, <1>2 DEF Recorded, CR
<1>4. cache'.stamp \in {cache.stamp, server.stamp} \/ ~server'.here
  BY CacheStays
<1>5. obj'.stamp \in {obj.stamp, cache.stamp, 0}
  BY ObjStamp DEF IInv
<1> QED
  BY <1>1, <1>2, <1>3, <1>4, <1>5 DEF Recorded, CR
(* When Prepare hands out a copy, the cleanup gate deletes only after a    *)
(* whole deleteAfter that the server has had on record, for any stages and *)
(* any number of lost answers, restarts and changes of the conditions.     *)
THEOREM GraceRespected ==
    ASSUME ~Aliased PROVE Spec => GraceRecorded
<1>1. Init => Triggered /\ Recorded
  BY DEF Init, Triggered, Recorded, NoCR
<1>2. IInv /\ Triggered /\ Recorded /\ [Next]_vars => (Triggered /\ Recorded)'
  BY TriggerStep, RecordedStep, TypeParts DEF IInv
<1>3. IInv /\ Triggered /\ Recorded /\ [Next]_vars
      => [pc = "delete" /\ server'.deleting /\ ~server.deleting /\ HasGrace
             => obj.stamp \in 1 .. elapsed /\ obj.stamp <= server.stamp]_vars
  <2> SUFFICES ASSUME IInv, Triggered, Recorded, [Next]_vars,
                      pc = "delete", server'.deleting, ~server.deleting,
                      HasGrace
               PROVE  obj.stamp \in 1 .. elapsed /\ obj.stamp <= server.stamp
    OBVIOUS
  <2>1. server.here
    <3>1. server'.here
      BY ServerStep, NoCRType DEF Persists, Stored
    <3> QED BY <3>1, ServerStep DEF Persists
  <2>2. obj.stamp \in Nat /\ elapsed \in Nat
    BY DEF IInv, TypeOK, CR
  <2> QED BY <2>1, <2>2 DEF Triggered, Due, Recorded
<1> QED
  BY <1>1, <1>2, <1>3, Invariance, PTL DEF Spec, GraceRecorded
=============================================================================
