----------------------------- MODULE Lifecycle -----------------------------
(***************************************************************************)
(* The life of one custom resource under the generic reconciler: the       *)
(* worker pipeline of pkg/runtime/coordinator/worker.go (prepare, cleanup  *)
(* gate, maintain, delete or reconcile, post) against the API server and   *)
(* the informer cache, up to the ordered deletion of what it provisioned   *)
(* (pkg/runtime/reconcilers/generic).                                      *)
(*                                                                         *)
(* One step is one call to the API server or one in-memory decision; users,*)
(* the garbage collector, the informer and restarts act between any two.   *)
(***************************************************************************)
EXTENDS Naturals, Sequences, FiniteSets

CONSTANTS
    Stages,         \* onDelete.groups: a sequence of sets of resources
    Conditional,    \* the numbers of the stages that have a when/or block
    ClusterScoped,  \* cluster-scoped resources outside the stages
    HasCleanup,     \* operatorBox.runtime.cleanup is declared
    HasGrace,       \* ... with a deleteAfter
    Protect,        \* deletion protection is on and covers this CRD
    Strict,         \* ... with strictMode
    Aliased,        \* no normalize block: Prepare hands out the informer's
                    \* own object, not a copy
    MaxFaults,      \* bound: failing calls, panics included
    MaxFlips,       \* bound: changes of the cleanup conditions
    MaxNudges       \* bound: resyncs and restarts of the process

Staged == UNION {Stages[i] : i \in 1 .. Len(Stages)}
Resources == Staged \cup ClusterScoped

ASSUME StagesAssumption ==
    /\ Stages \in Seq(SUBSET Resources)
    /\ Conditional \subseteq 1 .. Len(Stages)
    /\ \A i, j \in 1 .. Len(Stages) : i # j => Stages[i] \cap Stages[j] = {}
    /\ ClusterScoped \cap Staged = {}

ASSUME OptionsAssumption ==
    /\ {HasCleanup, HasGrace, Protect, Strict, Aliased} \subseteq BOOLEAN
    /\ MaxFaults \in Nat /\ MaxFlips \in Nat /\ MaxNudges \in Nat

Ours == "cleanup"               \* labels.CleanupFinalizer
Foreground == "foreground"      \* added by a foreground delete

VARIABLES
    server,     \* the custom resource as the API server stores it
    unseen,     \* the server wrote it after the informer last read it
    cache,      \* the informer's object
    queued,     \* the item is in the work queue, or will be after Done
    timer,      \* the instant an AddAfter waits for, 0 when there is none
    pc, obj,    \* the worker and the object Prepare handed to it
    alias,      \* obj is still the informer's own object
    trigger,    \* cleanupTriggered
    stage, pending,     \* runOrderedDelete: the stage and its resources
    failed,     \* reconcileErr # nil
    res,        \* the provisioned resources on the API server
    instant,    \* the instants a deleteAfter has been counted from
    elapsed,    \* those that are a whole deleteAfter ago
    faults, flips, nudges

api == <<server, unseen, res>>
queue == <<queued, timer>>
locals == <<trigger, stage, pending, failed>>
held == <<obj, alias, locals>>
clock == <<instant, elapsed>>
bounds == <<faults, flips, nudges>>
vars == <<api, cache, queue, pc, held, clock, bounds>>

CR == [here : BOOLEAN, deleting : BOOLEAN, fin : SUBSET {Ours, Foreground},
       stamp : Nat, met : BOOLEAN, prot : BOOLEAN, exempt : BOOLEAN]
NoCR == [here |-> FALSE, deleting |-> FALSE, fin |-> {}, stamp |-> 0,
         met |-> FALSE, prot |-> FALSE, exempt |-> FALSE]

Init ==
    /\ server = [NoCR EXCEPT !.here = TRUE]
    /\ unseen = TRUE
    /\ cache = NoCR
    /\ queued = FALSE /\ timer = 0
    /\ pc = "idle" /\ obj = NoCR /\ alias = FALSE
    /\ trigger = FALSE /\ stage = 1 /\ pending = {} /\ failed = FALSE
    /\ res = [r \in Resources |-> "absent"]
    /\ instant = 0 /\ elapsed = 0
    /\ faults = 0 /\ flips = 0 /\ nudges = 0

-----------------------------------------------------------------------------
(***************************************************************************)
(* The API server.                                                         *)
(***************************************************************************)
(* An object being deleted goes when its last finalizer goes.              *)
Settle(s) == IF s.deleting /\ s.fin = {} THEN NoCR ELSE s

Write(s) == server' = Settle(s) /\ unseen' = (unseen \/ Settle(s) # server)

(* PatchFinalizers replaces the list.  The server has no such object, or   *)
(* refuses to add a finalizer to an object that is being deleted.          *)
Accepts(f) == server.here /\ (server.deleting => f \subseteq server.fin)

WithFinalizers(f) == [server EXCEPT !.fin = f]

Fault ==
    /\ faults < MaxFaults /\ faults' = faults + 1
    /\ UNCHANGED <<flips, nudges>>

(* A call that fails: the server may or may not have carried it out.       *)
Lost(accepted, s) ==
    /\ Fault
    /\ (accepted /\ Write(s)) \/ UNCHANGED <<server, unseen>>

(* A change of the object in memory is one of the cache if they are one.   *)
Mutated(o) == IF alias THEN o ELSE cache

(* The worker is done with the item, and its locals are gone.              *)
Return ==
    /\ pc' = "idle" /\ obj' = NoCR /\ alias' = FALSE
    /\ trigger' = FALSE /\ stage' = 1 /\ pending' = {} /\ failed' = FALSE

(* AddRateLimited, Forget, and AddAfter: the delaying queue keeps the      *)
(* earlier of two times for an item.                                       *)
Retry == Return /\ queued' = TRUE /\ UNCHANGED timer
Forget == Return /\ UNCHANGED queue
AddAfter(t) ==
    /\ Return
    /\ timer' = IF timer = 0 \/ t < timer THEN t ELSE timer
    /\ UNCHANGED queued

-----------------------------------------------------------------------------
(***************************************************************************)
(* The worker: processItemForGVK.                                          *)
(***************************************************************************)
Take ==
    /\ pc = "idle" /\ queued
    /\ pc' = "prepare" /\ queued' = FALSE
    /\ UNCHANGED <<api, cache, timer, held, clock, bounds>>

(* Mutant of Prepare: hands out the informer's own object.                 *)
PrepareShared ==
    /\ pc = "prepare" /\ cache.here
    /\ obj' = cache /\ alias' = TRUE
    /\ pc' = "cleanup"
    /\ UNCHANGED <<api, cache, queue, locals, clock, bounds>>

Prepare ==
    /\ pc = "prepare" /\ cache.here
    /\ obj' = cache /\ alias' = Aliased
    /\ pc' = "cleanup"
    /\ UNCHANGED <<api, cache, queue, locals, clock, bounds>>

PrepareSkips ==
    /\ pc = "prepare" /\ ~cache.here
    /\ Forget
    /\ UNCHANGED <<api, cache, clock, bounds>>

PrepareFails ==
    /\ pc = "prepare" /\ cache.here
    /\ Fault /\ Retry
    /\ UNCHANGED <<api, cache, clock>>

(* evaluateCleanup: nothing declared, or the conditions are not met.  The  *)
(* annotation leaves the object in memory; PatchAnnotations merges the     *)
(* remaining keys, so the server keeps its copy.                           *)
CleanupNotMet ==
    /\ pc = "cleanup" /\ (HasCleanup => ~obj.met)
    /\ obj' = IF HasCleanup THEN [obj EXCEPT !.stamp = 0] ELSE obj
    /\ cache' = Mutated(obj')
    /\ pc' = "maintain"
    /\ UNCHANGED <<api, queue, alias, locals, clock, bounds>>

CleanupMet == pc = "cleanup" /\ HasCleanup /\ obj.met

Due(s) == HasGrace => s # 0 /\ s <= elapsed

(* Now, as an instant: all that happens before the next deleteAfter ends   *)
(* counts as simultaneous.                                                 *)
Now == IF instant = elapsed THEN instant + 1 ELSE instant

StartGrace ==
    /\ CleanupMet /\ HasGrace /\ obj.stamp = 0
    /\ instant' = Now
    /\ cache' = Mutated([obj EXCEPT !.stamp = Now])
    /\ LET new == [server EXCEPT !.stamp = Now] IN
       \/ server.here /\ Write(new) /\ AddAfter(Now) /\ UNCHANGED bounds
       \/ Lost(server.here, new) /\ Retry
       \/ ~server.here /\ Retry /\ UNCHANGED <<server, unseen, bounds>>
    /\ UNCHANGED <<res, elapsed>>

WaitGrace ==
    /\ CleanupMet /\ HasGrace /\ obj.stamp # 0 /\ ~Due(obj.stamp)
    /\ AddAfter(obj.stamp)
    /\ UNCHANGED <<api, cache, clock, bounds>>

CleanupTriggered ==
    /\ CleanupMet /\ Due(obj.stamp)
    /\ trigger' = TRUE /\ pc' = "maintain"
    /\ UNCHANGED <<api, cache, queue, obj, alias, stage, pending, failed,
                   clock, bounds>>

(* applyFinalizers: the object in memory first, then the patch.            *)
EnsureFinalizers ==
    /\ pc = "maintain"
    /\ LET want == obj.fin \cup {Ours} IN
       \/ /\ Ours \in obj.fin
          /\ pc' = "labels"
          /\ UNCHANGED <<server, unseen, cache, obj, queue, bounds, alias,
                         locals>>
       \/ /\ Ours \notin obj.fin
          /\ cache' = Mutated([obj EXCEPT !.fin = want])
          /\ \/ /\ Accepts(want) /\ Write(WithFinalizers(want))
                /\ obj' = [obj EXCEPT !.fin = want]
                /\ pc' = "labels" /\ UNCHANGED <<queue, bounds, alias, locals>>
             \/ Lost(Accepts(want), WithFinalizers(want)) /\ Retry
             \/ ~Accepts(want) /\ Retry /\ UNCHANGED <<server, unseen, bounds>>
    /\ UNCHANGED <<res, clock>>

(* Mutant of WantLabels: the protection goes without an exemption.         *)
WantLabelsAtOnce(o) == [o EXCEPT !.prot = ~trigger, !.exempt = ~Strict]

(* applyLabels: the labels the object should have.  The exemption stays on *)
(* for the patch that takes the protection away.                           *)
WantLabels(o) ==
    LET should == ~trigger
        strict == Strict /\ ~(~should /\ o.prot)
    IN  [o EXCEPT !.prot = should, !.exempt = ~strict]

(* PatchLabels sends what changed between the object as read and as it     *)
(* should be; the strict-mode webhook denies taking the protection away.   *)
Patched(o, w) ==
    [server EXCEPT !.prot = IF o.prot = w.prot THEN @ ELSE w.prot,
                   !.exempt = IF o.exempt = w.exempt THEN @ ELSE w.exempt]

StrictAllows(s) == Strict => s.exempt \/ (server.prot => s.prot)

EnsureLabels ==
    /\ pc = "labels"
    /\ LET w == IF Protect THEN WantLabels(obj) ELSE obj
           next == IF trigger THEN "delete" ELSE "reconcile"
           new == Patched(obj, w)
           accepted == server.here /\ StrictAllows(new)
       IN
       \/ /\ w = obj
          /\ pc' = next
          /\ UNCHANGED <<server, unseen, cache, obj, queue, bounds, alias,
                         locals>>
       \/ /\ w # obj
          /\ cache' = Mutated(w)
          /\ \/ /\ accepted /\ Write(new)
                /\ obj' = w
                /\ pc' = next /\ UNCHANGED <<queue, bounds, alias, locals>>
             \/ Lost(accepted, new) /\ Retry
             \/ ~accepted /\ Retry /\ UNCHANGED <<server, unseen, bounds>>
    /\ UNCHANGED <<res, clock>>

(* deleteCR: nothing to do for an object that is being deleted; otherwise  *)
(* a foreground delete, which the deletion-protection webhook may deny.    *)
DeleteCR ==
    /\ pc = "delete"
    /\ LET accepted == server.here /\ ~server.prot
           new == IF server.deleting THEN server
                  ELSE [server EXCEPT !.deleting = TRUE,
                                      !.fin = @ \cup {Foreground}]
       IN
       \/ obj.deleting /\ Forget /\ UNCHANGED <<server, unseen, bounds>>
       \/ ~obj.deleting /\ accepted /\ Write(new) /\ Forget /\ UNCHANGED bounds
       \/ ~obj.deleting /\ Lost(accepted, new) /\ Retry
       \/ /\ ~obj.deleting /\ ~accepted
          /\ Retry /\ UNCHANGED <<server, unseen, bounds>>
    /\ UNCHANGED <<res, cache, clock>>

(* Reconcile without a deletion timestamp: the resource groups are created *)
(* in turn, up to the first that fails.                                    *)
Provision ==
    /\ pc = "reconcile" /\ ~obj.deleting
    /\ \E S \in SUBSET Resources :
          /\ res' = [r \in Resources |->
                       IF r \in S /\ res[r] = "absent" THEN "present"
                       ELSE res[r]]
          /\ \/ S = Resources /\ failed' = FALSE /\ UNCHANGED bounds
             \/ Fault /\ failed' = TRUE
    /\ pc' = "post"
    /\ UNCHANGED <<server, unseen, cache, queue, obj, alias, trigger, stage,
                   pending, clock>>

-----------------------------------------------------------------------------
(***************************************************************************)
(* handleDeletion.                                                         *)
(***************************************************************************)
BeginDeletion ==
    /\ pc = "reconcile" /\ obj.deleting
    /\ pc' = "stage" /\ stage' = 1 /\ pending' = {}
    /\ UNCHANGED <<api, cache, queue, obj, alias, trigger, failed, clock,
                   bounds>>

Fail == pc' = "post" /\ failed' = TRUE

SkipStage ==
    /\ pc = "stage" /\ stage \in Conditional
    /\ stage' = stage + 1
    /\ UNCHANGED <<api, cache, queue, pc, obj, alias, trigger, pending, failed,
                   clock, bounds>>

(* A delete that succeeds leaves the resource to its own finalizers.       *)
Deleted(S) ==
    [r \in Resources |->
        IF r \in S /\ res[r] = "present" THEN "terminating" ELSE res[r]]

(* Mutant of SubmitStage: the next stage starts without a wait.            *)
SubmitStageOnly ==
    /\ pc = "stage" /\ stage <= Len(Stages)
    /\ res' = Deleted(Stages[stage])
    /\ stage' = stage + 1
    /\ UNCHANGED <<server, unseen, cache, queue, pc, obj, alias, trigger,
                   pending, failed, clock, bounds>>

(* submitGroupDeletion, up to the first delete that fails.                 *)
SubmitStage ==
    /\ pc = "stage" /\ stage <= Len(Stages)
    /\ \E S \in SUBSET Stages[stage] :
          /\ res' = Deleted(S)
          /\ \/ /\ S = Stages[stage] /\ UNCHANGED <<bounds, failed>>
                /\ IF S = {}
                   THEN stage' = stage + 1 /\ UNCHANGED <<pc, pending>>
                   ELSE pc' = "wait" /\ pending' = S /\ UNCHANGED stage
             \/ Fault /\ Fail /\ UNCHANGED <<stage, pending>>
    /\ UNCHANGED <<server, unseen, cache, queue, obj, alias, trigger, clock>>

(* waitForDeletionUntil: one Get that finds the resource gone.             *)
PollGone(r) ==
    /\ pc = "wait" /\ r \in pending /\ res[r] = "absent"
    /\ pending' = pending \ {r}
    /\ IF pending' = {}
       THEN pc' = "stage" /\ stage' = stage + 1
       ELSE UNCHANGED <<pc, stage>>
    /\ UNCHANGED <<api, cache, queue, obj, alias, trigger, failed, clock,
                   bounds>>

(* Mutant of WaitFails: the deadline ends the wait, not the deletion.      *)
WaitFailsSilently ==
    /\ pc = "wait" /\ \E r \in pending : res[r] # "absent"
    /\ pc' = "stage" /\ stage' = stage + 1 /\ pending' = {}
    /\ UNCHANGED <<api, cache, queue, obj, alias, trigger, failed, clock,
                   bounds>>

(* The deadline of the whole sequence passes.  It passing with everything  *)
(* gone but not seen gone, and a Get that fails, are faults.               *)
WaitFails ==
    /\ pc = "wait"
    /\ \/ (\E r \in pending : res[r] # "absent") /\ UNCHANGED bounds
       \/ Fault
    /\ Fail
    /\ UNCHANGED <<api, cache, queue, obj, alias, trigger, stage, pending,
                   clock>>

(* DeleteOwnedClusterScopedResources: deleted, not waited for.             *)
DeleteClusterScoped ==
    /\ pc = "stage" /\ stage = Len(Stages) + 1
    /\ \E S \in SUBSET ClusterScoped :
          /\ res' = Deleted(S)
          /\ \/ /\ S = ClusterScoped
                /\ pc' = "strip" /\ UNCHANGED <<bounds, failed>>
             \/ Fault /\ Fail
    /\ UNCHANGED <<server, unseen, cache, queue, obj, alias, trigger, stage,
                   pending, clock>>

(* patchStripFinalizers.                                                   *)
StripFinalizers ==
    /\ pc = "strip"
    /\ LET rest == obj.fin \ {Ours} IN
       \/ /\ Ours \notin obj.fin
          /\ pc' = "post" /\ failed' = FALSE
          /\ UNCHANGED <<server, unseen, cache, obj, bounds>>
       \/ /\ Ours \in obj.fin
          /\ obj' = [obj EXCEPT !.fin = rest] /\ cache' = Mutated(obj')
          /\ \/ /\ Accepts(rest) /\ Write(WithFinalizers(rest))
                /\ pc' = "post" /\ failed' = FALSE /\ UNCHANGED bounds
             \/ Lost(Accepts(rest), WithFinalizers(rest)) /\ Fail
             \/ /\ ~Accepts(rest)
                /\ Fail /\ UNCHANGED <<server, unseen, bounds>>
    /\ UNCHANGED <<res, queue, alias, trigger, stage, pending, clock>>

(* Mutant of Post: a failed reconcile is forgotten.                        *)
PostForgetting ==
    /\ pc = "post"
    /\ \E changed \in BOOLEAN : unseen' = (unseen \/ (changed /\ server.here))
    /\ Return
    /\ queued' = (queued \/ (~failed /\ HasCleanup))
    /\ UNCHANGED <<server, res, cache, timer, clock, bounds>>

(* runPost, whatever the outcome: the status patch may be a write.  Then   *)
(* AddRateLimited, or Forget and the requeue that a cleanup block asks for.*)
Post ==
    /\ pc = "post"
    /\ \E changed \in BOOLEAN : unseen' = (unseen \/ (changed /\ server.here))
    /\ Return
    /\ queued' = (queued \/ failed \/ HasCleanup)
    /\ UNCHANGED <<server, res, cache, timer, clock, bounds>>

-----------------------------------------------------------------------------
(***************************************************************************)
(* Around the worker.                                                      *)
(***************************************************************************)
(* The informer catches up with the server.  handleUpdate drops an update  *)
(* that leaves the generation alone; a deletion timestamp changes it.      *)
Watch ==
    /\ unseen
    /\ cache' = server /\ unseen' = FALSE /\ alias' = FALSE
    /\ queued' = (queued \/ cache.here # server.here
                         \/ cache.deleting # server.deleting)
    /\ UNCHANGED <<server, res, timer, pc, obj, locals, clock, bounds>>

TimerFires ==
    /\ timer # 0 /\ timer <= elapsed
    /\ queued' = TRUE /\ timer' = 0
    /\ UNCHANGED <<api, cache, pc, held, clock, bounds>>

(* A deleteAfter is taken to be longer than the informer lags.             *)
Elapse ==
    /\ elapsed < instant /\ ~unseen
    /\ elapsed' = elapsed + 1
    /\ UNCHANGED <<api, cache, queue, pc, held, instant, bounds>>

Resync ==
    /\ cache.here /\ nudges < MaxNudges
    /\ nudges' = nudges + 1 /\ queued' = TRUE
    /\ UNCHANGED <<api, cache, timer, pc, held, clock, faults, flips>>

(* The process dies anywhere and comes back with a fresh list.             *)
Restart ==
    /\ nudges < MaxNudges /\ nudges' = nudges + 1
    /\ cache' = server /\ unseen' = FALSE
    /\ queued' = server.here /\ timer' = 0
    /\ Return
    /\ UNCHANGED <<server, res, clock, faults, flips>>

(* The state the cleanup conditions read changes, without a generation.    *)
ConditionsChange ==
    /\ server.here /\ flips < MaxFlips
    /\ Write([server EXCEPT !.met = ~@])
    /\ flips' = flips + 1
    /\ UNCHANGED <<res, cache, queue, pc, held, clock, faults, nudges>>

(* A background delete by a user, unless the webhook denies it.            *)
UserDeletes ==
    /\ server.here /\ ~server.deleting /\ ~server.prot
    /\ Write([server EXCEPT !.deleting = TRUE])
    /\ UNCHANGED <<res, cache, queue, pc, held, clock, bounds>>

CollectGarbage ==
    /\ server.deleting /\ Foreground \in server.fin
    /\ Write([server EXCEPT !.fin = @ \ {Foreground}])
    /\ UNCHANGED <<res, cache, queue, pc, held, clock, bounds>>

ResourceGone(r) ==
    /\ res[r] = "terminating"
    /\ res' = [res EXCEPT ![r] = "absent"]
    /\ UNCHANGED <<server, unseen, cache, queue, pc, held, clock, bounds>>

-----------------------------------------------------------------------------
WorkerStep ==
    \/ Take \/ Prepare \/ PrepareSkips \/ PrepareFails
    \/ CleanupNotMet \/ StartGrace \/ WaitGrace \/ CleanupTriggered
    \/ EnsureFinalizers \/ EnsureLabels \/ DeleteCR \/ Provision
    \/ BeginDeletion \/ SkipStage \/ SubmitStage
    \/ (\E r \in Resources : PollGone(r)) \/ WaitFails
    \/ DeleteClusterScoped \/ StripFinalizers \/ Post

Next ==
    \/ WorkerStep \/ Watch \/ TimerFires \/ Elapse \/ Resync \/ Restart
    \/ ConditionsChange \/ UserDeletes \/ CollectGarbage
    \/ \E r \in Resources : ResourceGone(r)

Spec == Init /\ [][Next]_vars

(* The worker runs, watch events arrive, delays end, and the cluster       *)
(* carries out the deletions it accepted.  Users, conditions, resyncs and  *)
(* restarts are free.                                                      *)
Fairness ==
    /\ WF_vars(WorkerStep) /\ WF_vars(Watch)
    /\ WF_vars(TimerFires) /\ WF_vars(Elapse)
    /\ WF_vars(CollectGarbage)
    /\ \A r \in Resources : WF_vars(ResourceGone(r))

FairSpec == Spec /\ Fairness

-----------------------------------------------------------------------------
(***************************************************************************)
(* Properties                                                              *)
(***************************************************************************)
Unconditional == {i \in 1 .. Len(Stages) : i \notin Conditional}
StagesBelow(n) == UNION {Stages[i] : i \in {j \in Unconditional : j < n}}
Awaited == StagesBelow(Len(Stages) + 1)
Left == {r \in Resources : res[r] # "absent"}
Doomed == {r \in Resources : res[r] = "terminating"}

(* Every variable keeps the type of the field or local it stands for.      *)
TypeOK ==
    /\ server \in CR /\ cache \in CR /\ obj \in CR
    /\ {unseen, queued, alias, trigger, failed} \subseteq BOOLEAN
    /\ timer \in Nat
    /\ pc \in {"idle", "prepare", "cleanup", "maintain", "labels", "delete",
               "reconcile", "stage", "wait", "strip", "post"}
    /\ stage \in 1 .. Len(Stages) + 1
    /\ pending \subseteq Resources
    /\ res \in [Resources -> {"absent", "present", "terminating"}]
    /\ instant \in Nat /\ elapsed \in 0 .. instant
    /\ faults \in 0 .. MaxFaults /\ flips \in 0 .. MaxFlips
    /\ nudges \in 0 .. MaxNudges

(* When a custom resource is gone, nothing it awaited is left and every    *)
(* cluster-scoped resource has been deleted, whatever failed, restarted or *)
(* was read from a stale cache on the way: the system finalizer guarantees *)
(* that handleDeletion has succeeded.                                      *)
NothingOrphaned ==
    ~server.here => /\ Awaited \cap Left = {}
                    /\ ClusterScoped \cap Left \subseteq Doomed

StageOf(r) == CHOOSE i \in 1 .. Len(Stages) : r \in Stages[i]

Promise == INSTANCE StagedTeardown WITH
    Before <- [r \in Resources |-> IF r \in ClusterScoped THEN Awaited
                                   ELSE StagesBelow(StageOf(r))],
    Requested <- ClusterScoped,
    life <- IF ~server.here THEN "gone"
            ELSE IF server.deleting THEN "deleting" ELSE "live",
    left <- Left,
    doomed <- Doomed

(* The pipeline keeps the promise of StagedTeardown: the stages of an      *)
(* ordered deletion go in order across retries, time-outs, partial         *)
(* failures and restarts, and the custom resource goes last.               *)
PromiseKept == Promise!Spec

(* When the cleanup gate's delete takes effect, the stamp its worker read  *)
(* is a whole deleteAfter old, and the server has recorded it, or one      *)
(* since, all that time: no lost answer, stale cache, doubled stamp or     *)
(* restart makes the gate count a period the server does not know of.      *)
(* Conditions that fail in between do not restart the period: the stamp    *)
(* stays on the server (CleanupNotMet), whatever cleanup.go says of it.    *)
GraceRecorded ==
    [][pc = "delete" /\ server'.deleting /\ ~server.deleting /\ HasGrace
          => obj.stamp \in 1 .. elapsed /\ obj.stamp <= server.stamp]_vars

(* A custom resource whose cleanup conditions never hold is gone some time *)
(* after its deletion begins: failures, deadlines that start the stages    *)
(* anew and restarts only delay it.                                        *)
DeletionCompletes ==
    [](~server.met) => (server.deleting ~> ~server.here)

(* A custom resource whose cleanup conditions hold for good is deleted:    *)
(* neither the grace period nor its own deletion protection, in strict     *)
(* mode, stands in the way for ever.                                       *)
CleanupStarts ==
    server.met ~> (server.deleting \/ ~server.met)
=============================================================================
