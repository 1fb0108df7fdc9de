----------------------------- MODULE Workqueue -----------------------------
(***************************************************************************)
(* One CRD's work queue (pkg/runtime/queue), the goroutines that feed it   *)
(* (informer handlers and resync loops), and the worker pool that drains   *)
(* it (pkg/runtime/coordinator: worker.go, start.go, stop.go and           *)
(* deactivateCRD of post_start_hooks.go).                                  *)
(*                                                                         *)
(* Queue items carry identity only.  The event-time sentinel payload is    *)
(* kept beside the queue, under the item's identity, and is guarded by a   *)
(* mutex of its own: every call on the queue and every access to the       *)
(* payload map is a step, and steps of different goroutines interleave.    *)
(***************************************************************************)
EXTENDS Naturals, Sequences, FiniteSets

CONSTANTS
    Keys,        \* resource keys of the CRD
    Drain,       \* the drainSentinel key of constants.go
    Enqueuers,   \* goroutines that enqueue: informer handlers, resync loop
    Slots,       \* worker goroutines launched per activation
    MaxGen,      \* bound: activations of the worker pool
    MaxEvents,   \* bound: events offered to the queue
    Kinds,       \* ways events arrive: subset of {"plain","coalesced","aware"}
    CfgMaxDepth, \* declared queue.maxDepth; 0 = unlimited
    Threshold,   \* declared onThreshold percentage; 0 = none declared
    Conditions,  \* TRUE iff the declared behaviour has when/or conditions
    DepthLimits, \* values the autoscaler may store with SetQueueDepth
    MayRequeue,  \* TRUE iff a successful reconcile may ask for a requeue
    MayDeactivate, \* TRUE iff the CRD may disappear at run time
    MayStop      \* TRUE iff leadership may be lost

ASSUME BoundsAssumption ==
    /\ MaxGen \in Nat \ {0}
    /\ MaxEvents \in Nat
    /\ CfgMaxDepth \in Nat
    /\ Threshold \in 0 .. 100
    /\ DepthLimits \subseteq Nat
ASSUME FlagsAssumption ==
    /\ Kinds \subseteq {"plain", "coalesced", "aware"}
    /\ {Conditions, MayRequeue, MayDeactivate, MayStop} \subseteq BOOLEAN
ASSUME DrainAssumption == Drain \notin Keys
ASSUME SlotsAssumption == IsFiniteSet(Slots)

(***************************************************************************)
(* QueueItem: the GVK is fixed (one queue per CRD).  id is the EventID: 0  *)
(* for coalescing work, unique for event-aware work.                       *)
(***************************************************************************)
Item == [key : Keys \cup {Drain}, id : 0 .. MaxEvents]
DrainItem == [key |-> Drain, id |-> 0]
NoPayload == 0                        \* no entry in the sentinels map
Worker == (1 .. MaxGen) \X Slots      \* <<activation, slot>>

VARIABLES
    queue, dirty, processing, \* client-go queue: order, to do, in hand
    waiting,                  \* client-go delaying queue (AddAfter)
    shuttingDown,             \* client-go ShutDown was called
    sentinels,                \* Workqueue.sentinels, NoPayload = absent
    nextEventID,              \* Workqueue.nextEventID; also numbers payloads
    maxDepth,                 \* Workqueue.maxDepth (run-time limit)
    enq,                      \* per enqueuer: pc, item and payload in hand
    pc, item, seen,           \* per worker: control, item, sentinelMap read
    gen,                      \* current activation of the pool
    cancelled,                \* activations whose context is cancelled
    pool,                     \* control of activate/deactivate
    drainsLeft,               \* drain items deactivateCRD still has to add
    deactivated               \* coordinator's deactivated[gvk]

clientGo == <<queue, dirty, processing, waiting, shuttingDown>>
workers == <<pc, item, seen>>
poolVars == <<gen, cancelled, pool, drainsLeft, deactivated>>
vars == <<clientGo, sentinels, nextEventID, maxDepth, enq, workers, poolVars>>

Idle == [pc |-> "idle", item |-> DrainItem, payload |-> NoPayload]

Init ==
    /\ queue = <<>> /\ dirty = {} /\ processing = {} /\ waiting = {}
    /\ shuttingDown = FALSE
    /\ sentinels = [i \in Item |-> NoPayload]
    /\ nextEventID = 0
    /\ maxDepth = CfgMaxDepth
    /\ enq = [e \in Enqueuers |-> Idle]
    /\ pc = [w \in Worker |-> IF w[1] = 1 THEN "top" ELSE "off"]
    /\ item = [w \in Worker |-> DrainItem]
    /\ seen = [w \in Worker |-> NoPayload]
    /\ gen = 1 /\ cancelled = {} /\ pool = "active" /\ drainsLeft = 0
    /\ deactivated = FALSE

-----------------------------------------------------------------------------
(***************************************************************************)
(* The client-go rate limiting queue, from its documented contract.        *)
(***************************************************************************)
(* Add: nothing while shutting down or already marked; an item in hand is  *)
(* only marked, and goes back to the queue when its worker calls Done.     *)
Add(i) ==
    IF shuttingDown \/ i \in dirty
    THEN UNCHANGED <<queue, dirty>>
    ELSE /\ dirty' = dirty \cup {i}
         /\ queue' = IF i \in processing THEN queue ELSE Append(queue, i)

(* AddAfter / AddRateLimited: the item waits for its delay; dropped while  *)
(* shutting down.                                                          *)
AddAfter(i) == waiting' = IF shuttingDown THEN waiting ELSE waiting \cup {i}

(* The delaying loop hands an item whose delay is over to Add.             *)
TimerFires(i) ==
    /\ i \in waiting /\ ~shuttingDown
    /\ waiting' = waiting \ {i}
    /\ Add(i)
    /\ UNCHANGED <<processing, shuttingDown, sentinels, nextEventID, maxDepth,
                   enq, workers, poolVars>>

(* Done: the item leaves the hand; if it was marked meanwhile it is queued. *)
Done(i) ==
    /\ processing' = processing \ {i}
    /\ queue' = IF i \in dirty THEN Append(queue, i) ELSE queue
    /\ UNCHANGED dirty

-----------------------------------------------------------------------------
(***************************************************************************)
(* Enqueueing                                                              *)
(***************************************************************************)
(* evaluateQueueBehaviour finds the declared threshold or limit reached.   *)
(* The threshold is a percentage of the declared depth, the limit is the   *)
(* run-time one.                                                           *)
BehaviourFires ==
    /\ CfgMaxDepth # 0
    /\ IF Threshold # 0
       THEN Threshold * CfgMaxDepth <= 100 * Len(queue)
       ELSE Len(queue) >= maxDepth

(* Mutant of Enqueue: the payload is stored before the behaviour is evaluated. *)
EnqueueStoringFirst(e, k, kind) ==
    LET n == nextEventID + 1
        i == [key |-> k, id |-> IF kind = "aware" THEN n ELSE 0]
    IN  /\ enq[e].pc = "idle" /\ nextEventID < MaxEvents
        /\ nextEventID' = n
        /\ sentinels' = IF kind = "plain" THEN sentinels
                        ELSE [sentinels EXCEPT ![i] = n]
        /\ enq' = [enq EXCEPT ![e] =
                     IF BehaviourFires THEN Idle
                     ELSE [pc |-> "add", item |-> i, payload |-> n]]
        /\ UNCHANGED <<clientGo, maxDepth, workers, poolVars>>

(* One event for key k: assign the EventID, evaluate the queue behaviour.  *)
(* A fired behaviour drops the item, or, with conditions, dereferences the *)
(* evaluateCond pointer that no code assigns.                              *)
Enqueue(e, k, kind) ==
    LET n == nextEventID + 1
        i == [key |-> k, id |-> IF kind = "aware" THEN n ELSE 0]
    IN  /\ enq[e].pc = "idle" /\ nextEventID < MaxEvents
        /\ nextEventID' = n
        /\ enq' = [enq EXCEPT ![e] =
                     IF ~BehaviourFires
                     THEN [pc |-> IF kind = "plain" THEN "add" ELSE "store",
                           item |-> i, payload |-> n]
                     ELSE IF Conditions THEN [Idle EXCEPT !.pc = "panic"]
                     ELSE Idle]
        /\ UNCHANGED <<clientGo, sentinels, maxDepth, workers, poolVars>>

(* enqueueWithSentinels: the payload is stored under the item's identity.  *)
StoreSentinels(e) ==
    /\ enq[e].pc = "store"
    /\ sentinels' = [sentinels EXCEPT ![enq[e].item] = enq[e].payload]
    /\ enq' = [enq EXCEPT ![e].pc = "add"]
    /\ UNCHANGED <<clientGo, nextEventID, maxDepth, workers, poolVars>>

(* The item itself goes to the client-go queue.                            *)
AddItem(e) ==
    /\ enq[e].pc = "add"
    /\ Add(enq[e].item)
    /\ enq' = [enq EXCEPT ![e] = Idle]
    /\ UNCHANGED <<processing, waiting, shuttingDown, sentinels, nextEventID,
                   maxDepth, workers, poolVars>>

(* SetQueueDepth, called by the autoscaler.                                *)
SetQueueDepth(n) ==
    /\ maxDepth' = n
    /\ UNCHANGED <<clientGo, sentinels, nextEventID, enq, workers, poolVars>>

-----------------------------------------------------------------------------
(***************************************************************************)
(* Workers: runWorkerForGVK and processItemForGVK                          *)
(***************************************************************************)
Cancelled(w) == w[1] \in cancelled

(* Loop head: leave when the context is done, otherwise wait in Get.       *)
WorkerTop(w) ==
    /\ pc[w] = "top"
    /\ pc' = [pc EXCEPT ![w] = IF Cancelled(w) THEN "stopped" ELSE "get"]
    /\ UNCHANGED <<clientGo, sentinels, nextEventID, maxDepth, enq, item, seen,
                   poolVars>>

(* Get returns the head of the queue.                                      *)
WorkerGet(w) ==
    /\ pc[w] = "get" /\ queue # <<>>
    /\ item' = [item EXCEPT ![w] = Head(queue)]
    /\ queue' = Tail(queue)
    /\ dirty' = dirty \ {Head(queue)}
    /\ processing' = processing \cup {Head(queue)}
    /\ pc' = [pc EXCEPT ![w] = "item"]
    /\ UNCHANGED <<waiting, shuttingDown, sentinels, nextEventID, maxDepth, enq,
                   seen, poolVars>>

(* Get reports shutdown once the queue is empty.                           *)
WorkerShutdown(w) ==
    /\ pc[w] = "get" /\ queue = <<>> /\ shuttingDown
    /\ pc' = [pc EXCEPT ![w] = "stopped"]
    /\ UNCHANGED <<clientGo, sentinels, nextEventID, maxDepth, enq, item, seen,
                   poolVars>>

(* The payload is released together with the rate limiter's memory.        *)
Forget(i) == sentinels' = [sentinels EXCEPT ![i] = NoPayload]

(* Mutant of WorkerAccept: Done is called on dequeue, not on return.       *)
WorkerAcceptDoneEarly(w) ==
    /\ pc[w] = "item"
    /\ Done(item[w])
    /\ seen' = [seen EXCEPT ![w] = sentinels[item[w]]]
    /\ pc' = [pc EXCEPT ![w] = "work"]
    /\ UNCHANGED <<waiting, shuttingDown, sentinels, nextEventID, maxDepth, enq,
                   item, poolVars>>

(* processItemForGVK's early returns: a cancelled context gives the item   *)
(* up as it is, a drain item is forgotten; otherwise the reconcile gate    *)
(* reads the payload.                                                      *)
WorkerAccept(w) ==
    /\ pc[w] = "item"
    /\ \/ /\ Cancelled(w)
          /\ pc' = [pc EXCEPT ![w] = "drop"]
          /\ UNCHANGED <<sentinels, seen>>
       \/ /\ ~Cancelled(w) /\ item[w].key = Drain
          /\ Forget(item[w])
          /\ pc' = [pc EXCEPT ![w] = "done"]
          /\ UNCHANGED seen
       \/ /\ ~Cancelled(w) /\ item[w].key # Drain
          /\ seen' = [seen EXCEPT ![w] = sentinels[item[w]]]
          /\ pc' = [pc EXCEPT ![w] = "work"]
          /\ UNCHANGED sentinels
    /\ UNCHANGED <<clientGo, nextEventID, maxDepth, enq, item, poolVars>>

(* Mutant of WorkerFails: the item is forgotten before it is re-added.     *)
WorkerFailsForgetting(w) ==
    /\ pc[w] = "work"
    /\ Forget(item[w]) /\ AddAfter(item[w])
    /\ pc' = [pc EXCEPT ![w] = "again"]
    /\ UNCHANGED <<queue, dirty, processing, shuttingDown, nextEventID, maxDepth,
                   enq, item, seen, poolVars>>

(* Mutant of WorkerFails: the failed item is not re-added.                 *)
WorkerFailsForGood(w) ==
    /\ pc[w] = "work"
    /\ pc' = [pc EXCEPT ![w] = "again"]
    /\ UNCHANGED <<clientGo, sentinels, nextEventID, maxDepth, enq, item, seen,
                   poolVars>>

(* Prepare, cleanup, maintain, deleteCR, reconcile or post returned an     *)
(* error: retry with back-off, keeping the payload.                        *)
WorkerFails(w) ==
    /\ pc[w] = "work"
    /\ AddAfter(item[w])
    /\ pc' = [pc EXCEPT ![w] = "again"]
    /\ UNCHANGED <<queue, dirty, processing, shuttingDown, sentinels,
                   nextEventID, maxDepth, enq, item, seen, poolVars>>

(* Gated, skipped, deleted or reconciled: Forget.  A reconcile or a        *)
(* running grace period may go on to ask for a requeue.                    *)
WorkerForgets(w) ==
    /\ pc[w] = "work"
    /\ Forget(item[w])
    /\ \/ pc' = [pc EXCEPT ![w] = "done"]
       \/ MayRequeue /\ pc' = [pc EXCEPT ![w] = "requeue"]
    /\ UNCHANGED <<clientGo, nextEventID, maxDepth, enq, item, seen, poolVars>>

(* AddAfter(item, d) after the Forget: d = 0 adds at once.                 *)
WorkerRequeues(w) ==
    /\ pc[w] = "requeue"
    /\ \/ AddAfter(item[w]) /\ UNCHANGED <<queue, dirty>>
       \/ Add(item[w]) /\ UNCHANGED waiting
    /\ pc' = [pc EXCEPT ![w] = "again"]
    /\ UNCHANGED <<processing, shuttingDown, sentinels, nextEventID, maxDepth,
                   enq, item, seen, poolVars>>

(* The deferred Done, on every way out of processItemForGVK, where the     *)
(* item and its payload go out of scope.                                   *)
WorkerDone(w) ==
    /\ pc[w] \in {"done", "again", "drop"}
    /\ Done(item[w])
    /\ pc' = [pc EXCEPT ![w] = "top"]
    /\ item' = [item EXCEPT ![w] = DrainItem]
    /\ seen' = [seen EXCEPT ![w] = NoPayload]
    /\ UNCHANGED <<waiting, shuttingDown, sentinels, nextEventID, maxDepth, enq,
                   poolVars>>

WorkerStep(w) ==
    \/ WorkerTop(w) \/ WorkerGet(w) \/ WorkerShutdown(w) \/ WorkerAccept(w)
    \/ WorkerFails(w) \/ WorkerForgets(w) \/ WorkerRequeues(w) \/ WorkerDone(w)

-----------------------------------------------------------------------------
(***************************************************************************)
(* The pool's life: deactivateCRD, activateCRD, stopCRDWorkers             *)
(***************************************************************************)
Drained(g) == \A s \in Slots : pc[<<g, s>>] \in {"off", "stopped"}

(* Mutant of Deactivate: no drain items follow.                            *)
DeactivateWithoutDrain ==
    /\ MayDeactivate /\ pool = "active"
    /\ cancelled' = cancelled \cup {gen}
    /\ drainsLeft' = 0
    /\ pool' = "draining"
    /\ UNCHANGED <<clientGo, sentinels, nextEventID, maxDepth, enq, workers, gen,
                   deactivated>>

(* deactivateCRD: cancel the activation's context ...                      *)
Deactivate ==
    /\ MayDeactivate /\ pool = "active"
    /\ cancelled' = cancelled \cup {gen}
    /\ drainsLeft' = Cardinality(Slots)
    /\ pool' = "draining"
    /\ UNCHANGED <<clientGo, sentinels, nextEventID, maxDepth, enq, workers, gen,
                   deactivated>>

(* Mutant of AddDrainItem: the loop runs once too often.                   *)
AddDrainItemOnceMore ==
    /\ pool = "draining"
    /\ Add(DrainItem)
    /\ drainsLeft' = drainsLeft - 1
    /\ UNCHANGED <<processing, waiting, shuttingDown, sentinels, nextEventID,
                   maxDepth, enq, workers, gen, cancelled, pool, deactivated>>

(* ... add one drain item per worker, all of them equal ...                *)
AddDrainItem ==
    /\ pool = "draining" /\ drainsLeft > 0
    /\ Add(DrainItem)
    /\ drainsLeft' = drainsLeft - 1
    /\ UNCHANGED <<processing, waiting, shuttingDown, sentinels, nextEventID,
                   maxDepth, enq, workers, gen, cancelled, pool, deactivated>>

(* ... and wait for the workers, or for drainTimeout.  The timeout is long *)
(* (10 s) beside a scheduling delay: it ends a wait only when each worker  *)
(* left is inside a reconcile or blocked on an empty queue.                *)
DrainEnds ==
    /\ pool = "draining" /\ drainsLeft = 0
    /\ Drained(gen)
    /\ deactivated' = TRUE /\ pool' = "inactive"
    /\ UNCHANGED <<clientGo, sentinels, nextEventID, maxDepth, enq, workers, gen,
                   cancelled, drainsLeft>>
DrainTimeout ==
    /\ pool = "draining" /\ drainsLeft = 0
    /\ ~Drained(gen)
    /\ \A s \in Slots : \/ pc[<<gen, s>>] \in {"off", "stopped", "work"}
                        \/ pc[<<gen, s>>] = "get" /\ queue = <<>>
    /\ pool' = "inactive"
    /\ UNCHANGED <<clientGo, sentinels, nextEventID, maxDepth, enq, workers, gen,
                   cancelled, drainsLeft, deactivated>>

(* activateCRD / startCRDWorkers: a fresh context and fresh workers on the *)
(* same queue.                                                             *)
Activate ==
    /\ pool = "inactive" /\ gen < MaxGen
    /\ gen' = gen + 1
    /\ pc' = [w \in Worker |-> IF w[1] = gen + 1 THEN "top" ELSE pc[w]]
    /\ deactivated' = FALSE /\ pool' = "active"
    /\ UNCHANGED <<clientGo, sentinels, nextEventID, maxDepth, enq, item, seen,
                   cancelled, drainsLeft>>

(* Leadership lost: the parent context of every activation is cancelled.   *)
LoseLeadership ==
    /\ MayStop /\ cancelled # 1 .. MaxGen
    /\ cancelled' = 1 .. MaxGen
    /\ UNCHANGED <<clientGo, sentinels, nextEventID, maxDepth, enq, workers, gen,
                   pool, drainsLeft, deactivated>>

(* stopCRDWorkers then shuts the queue down to wake the workers in Get.    *)
ShutDown ==
    /\ MayStop /\ cancelled = 1 .. MaxGen
    /\ shuttingDown' = TRUE
    /\ UNCHANGED <<queue, dirty, processing, waiting, sentinels, nextEventID,
                   maxDepth, enq, workers, poolVars>>

-----------------------------------------------------------------------------
Running == \A e \in Enqueuers : enq[e].pc # "panic"

EnqueueStep(e) == StoreSentinels(e) \/ AddItem(e)

Next ==
    /\ Running
    /\ \/ \E e \in Enqueuers, k \in Keys, kind \in Kinds : Enqueue(e, k, kind)
       \/ \E e \in Enqueuers : EnqueueStep(e)
       \/ \E n \in DepthLimits : SetQueueDepth(n)
       \/ \E i \in Item : TimerFires(i)
       \/ \E w \in Worker : WorkerStep(w)
       \/ Deactivate \/ AddDrainItem \/ DrainEnds \/ DrainTimeout \/ Activate
       \/ LoseLeadership \/ ShutDown

Spec == Init /\ [][Next]_vars

(* Goroutines that can run do run, delays end, a reconcile returns, and    *)
(* stopCRDWorkers follows the loss of leadership.  Nothing is assumed of   *)
(* events, of the cluster or of the drain timeout.                         *)
Fairness ==
    /\ \A w \in Worker : WF_vars(Running /\ WorkerStep(w))
    /\ \A e \in Enqueuers : WF_vars(Running /\ EnqueueStep(e))
    /\ \A i \in Item : WF_vars(Running /\ TimerFires(i))
    /\ WF_vars(Running /\ AddDrainItem) /\ WF_vars(Running /\ DrainEnds)
    /\ WF_vars(Running /\ ShutDown)

FairSpec == Spec /\ Fairness

-----------------------------------------------------------------------------
(***************************************************************************)
(* Properties                                                              *)
(***************************************************************************)
Busy(w) == pc[w] \in {"item", "work", "requeue", "done", "again", "drop"}
Pending(i) == i \in dirty \cup processing \cup waiting
Held(i) == \E e \in Enqueuers : enq[e].pc \in {"store", "add"} /\ enq[e].item = i
Real(i) == i.key # Drain
Elems(q) == {q[n] : n \in 1 .. Len(q)}
Distinct(q) == \A m, n \in 1 .. Len(q) : q[m] = q[n] => m = n
InHand == {item[w] : w \in {v \in Worker : Busy(v)}}
EventAware(i) == i.id # 0

(* Every variable keeps the type of the field or local it stands for.      *)
TypeOK ==
    /\ queue \in Seq(Item)
    /\ dirty \subseteq Item /\ processing \subseteq Item /\ waiting \subseteq Item
    /\ shuttingDown \in BOOLEAN
    /\ sentinels \in [Item -> 0 .. MaxEvents]
    /\ nextEventID \in 0 .. MaxEvents
    /\ maxDepth \in Nat
    /\ enq \in [Enqueuers -> [pc : {"idle", "store", "add", "panic"},
                              item : Item, payload : 0 .. MaxEvents]]
    /\ pc \in [Worker -> {"off", "top", "get", "item", "work", "requeue",
                          "done", "again", "drop", "stopped"}]
    /\ item \in [Worker -> Item]
    /\ seen \in [Worker -> 0 .. MaxEvents]
    /\ gen \in 1 .. MaxGen
    /\ cancelled \subseteq 1 .. MaxGen
    /\ pool \in {"active", "draining", "inactive"}
    /\ drainsLeft \in 0 .. Cardinality(Slots)
    /\ deactivated \in BOOLEAN

(* No item is in the hands of two workers, be they of one activation or of *)
(* two, of which the older outlived its drain.  This is about the identity *)
(* of items, so coalescing work of one resource is never done twice at     *)
(* once; two event-aware items of one resource are two items, and two      *)
(* workers may well reconcile that resource at the same time.              *)
OneWorkerPerItem ==
    \A v, w \in Worker : Busy(v) /\ Busy(w) /\ item[v] = item[w] => v = w

(* What is marked dirty is queued exactly once, or in the hands of a       *)
(* worker whose Done will queue it: no event is lost or doubled between    *)
(* Add, Get and Done.                                                      *)
QueueConsistent ==
    /\ Distinct(queue)
    /\ Elems(queue) = dirty \ processing
    /\ processing = InHand

(* As long as no context is cancelled, a stored payload belongs to an item *)
(* that is still to be handled: a rejected or finished item leaves none.   *)
NoOrphanedPayload ==
    cancelled = {} =>
        \A i \in Item : sentinels[i] # NoPayload => Pending(i) \/ Held(i)

(* The reconcile gate of an event-aware item evaluates the payload of that *)
(* very event, on the first run and on every retry.                        *)
GateSeesOwnEvent ==
    \A w \in Worker : pc[w] = "work" /\ EventAware(item[w]) =>
                          seen[w] = item[w].id

(* The payload of an event-aware item is brought to a reconcile gate,      *)
(* again after each failure, until it is released.  Coalescing items are   *)
(* left out: the Forget of a running one wipes the payload a newer event   *)
(* stored under the same identity, unseen.                                 *)
PayloadsReachTheGate ==
    \A i \in Item : EventAware(i) /\ sentinels[i] # NoPayload ~>
        \E w \in Worker : pc[w] = "work" /\ item[w] = i /\ seen[w] = i.id

(* Work that is due leaves the queue's books only by the Done of a worker  *)
(* that settled it and did not ask for it to come back.  The exceptions    *)
(* are the two the code makes: a worker whose context was cancelled gives  *)
(* its item up, although the queue lives on for the next activation, and   *)
(* a retry or requeue asked for after the queue's shutdown is refused.     *)
WorkKept ==
    [][\A i \in Item : Pending(i) /\ ~Pending(i)' /\ Real(i) =>
          \E w \in Worker : /\ item[w] = i
                            /\ \/ pc[w] = "done"
                               \/ pc[w] = "drop" /\ Cancelled(w)
                               \/ pc[w] = "again" /\ shuttingDown]_vars

(* A worker whose context is cancelled ends unless it is blocked in Get:   *)
(* it takes no further item.  The drain items wake at least one of the     *)
(* first pool's blocked workers.  They are equal and coalesce, so others   *)
(* may stay blocked, and may take the drain item meant for a later pool.   *)
(* Once the queue is shut down all workers of all activations end.         *)
CancelledWorkersStop ==
    /\ \A w \in Worker : Cancelled(w) /\ pc[w] \notin {"off", "get"} ~>
                              pc[w] = "stopped"
    /\ 1 \in cancelled ~> \E s \in Slots : pc[<<1, s>>] = "stopped"
    /\ shuttingDown ~> \A g \in 1 .. MaxGen : Drained(g)
=============================================================================
