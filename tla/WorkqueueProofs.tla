-------------------------- MODULE WorkqueueProofs --------------------------
(***************************************************************************)
(* Proofs, for every value of the constants, that the work queue keeps its *)
(* types, that no item is lost or doubled between Add, Get and Done, and   *)
(* that no item is in the hands of two workers.                            *)
(***************************************************************************)
EXTENDS Workqueue, TLAPS, FiniteSetTheorems

USE DEF NoPayload

EnqState == [pc : {"idle", "store", "add", "panic"},
             item : Item, payload : 0 .. MaxEvents]

(* The drain item and the items Enqueue builds are queue items.            *)
LEMMA ItemFacts ==
    /\ DrainItem \in Item
    /\ \A k \in Keys, n \in 0 .. MaxEvents : [key |-> k, id |-> n] \in Item
    /\ Idle \in EnqState
  BY BoundsAssumption DEF DrainItem, Item, Idle, EnqState

(* The client-go Add keeps the types of what it writes.                    *)
LEMMA AddType ==
    ASSUME NEW i \in Item, queue \in Seq(Item), dirty \subseteq Item, Add(i)
    PROVE  queue' \in Seq(Item) /\ dirty' \subseteq Item
  BY DEF Add

(* Releasing a payload keeps the type of the payload map.                  *)
LEMMA ForgetType ==
    ASSUME NEW i \in Item, sentinels \in [Item -> 0 .. MaxEvents], Forget(i)
    PROVE  sentinels' \in [Item -> 0 .. MaxEvents]
  <1>1. NoPayload \in 0 .. MaxEvents
    BY BoundsAssumption
  <1> QED
    BY <1>1 DEF Forget

(* Every step keeps the types.                                             *)
THEOREM TypeCorrect == Spec => []TypeOK
<1> USE BoundsAssumption
<1>0. Cardinality(Slots) \in Nat
  BY SlotsAssumption, FS_CardinalityType
<1>1. Init => TypeOK
  <2> SUFFICES ASSUME Init PROVE TypeOK
    OBVIOUS
  <2>1. enq \in [Enqueuers -> EnqState]
    BY ItemFacts DEF Init
  <2>2. pc \in [Worker -> {"off", "top", "get", "item", "work", "requeue",
                          "done", "again", "drop", "stopped"}]
    BY DEF Init
  <2>3. /\ sentinels \in [Item -> 0 .. MaxEvents]
        /\ item \in [Worker -> Item]
        /\ seen \in [Worker -> 0 .. MaxEvents]
    BY ItemFacts DEF Init
  <2>4. queue \in Seq(Item)
    BY DEF Init
  <2>5. /\ dirty = {} /\ processing = {} /\ waiting = {}
        /\ shuttingDown \in BOOLEAN /\ deactivated \in BOOLEAN
        /\ nextEventID = 0 /\ maxDepth = CfgMaxDepth
        /\ gen = 1 /\ cancelled = {} /\ pool = "active" /\ drainsLeft = 0
    BY DEF Init
  <2> QED
    BY <1>0, <2>1, <2>2, <2>3, <2>4, <2>5 DEF TypeOK, EnqState
<1>2. ASSUME TypeOK, [Next]_vars
      PROVE  TypeOK'
  <2> USE <1>2, ItemFacts DEF TypeOK
  <2>1. ASSUME NEW e \in Enqueuers, NEW k \in Keys, NEW kind \in Kinds,
               Enqueue(e, k, kind)
        PROVE  TypeOK'
    <3> DEFINE n == nextEventID + 1
               i == [key |-> k, id |-> IF kind = "aware" THEN n ELSE 0]
    <3>1. n \in 0 .. MaxEvents /\ i \in Item
      BY <2>1 DEF Enqueue, Item
    <3>2. /\ [Idle EXCEPT !.pc = "panic"] \in EnqState
          /\ \A p \in {"add", "store"} :
                [pc |-> p, item |-> i, payload |-> n] \in EnqState
      BY <3>1, ItemFacts DEF EnqState
    <3>3. enq' \in [Enqueuers -> EnqState]
      BY <2>1, <3>2, ItemFacts DEF Enqueue, EnqState
    <3> QED
      BY <2>1, <3>1, <3>3 DEF Enqueue, EnqState, clientGo, workers, poolVars
  <2>2. ASSUME NEW e \in Enqueuers, EnqueueStep(e)
        PROVE  TypeOK'
    <3>1. CASE StoreSentinels(e)
      BY <3>1 DEF StoreSentinels, clientGo, workers, poolVars
    <3>2. CASE AddItem(e)
      <4>1. enq' \in [Enqueuers -> EnqState]
        BY <3>2 DEF AddItem, EnqState
      <4>2. enq[e].item \in Item
        OBVIOUS
      <4> QED
        BY <3>2, <4>1, <4>2, AddType DEF AddItem, EnqState, workers, poolVars
    <3> QED
      BY <2>2, <3>1, <3>2 DEF EnqueueStep
  <2>3. ASSUME NEW n \in DepthLimits, SetQueueDepth(n)
        PROVE  TypeOK'
    BY <2>3 DEF SetQueueDepth, clientGo, workers, poolVars
  <2>4. ASSUME NEW i \in Item, TimerFires(i)
        PROVE  TypeOK'
    BY <2>4, AddType DEF TimerFires, workers, poolVars
  <2>5. ASSUME NEW w \in Worker, WorkerStep(w)
        PROVE  TypeOK'
    <3>1. CASE WorkerTop(w)
      BY <3>1 DEF WorkerTop, clientGo, poolVars
    <3>2. CASE WorkerGet(w)
      BY <3>2 DEF WorkerGet, poolVars
    <3>3. CASE WorkerShutdown(w)
      BY <3>3 DEF WorkerShutdown, clientGo, poolVars
    <3>4. CASE WorkerAccept(w)
      <4>0. Forget(item[w]) \/ UNCHANGED sentinels
        BY <3>4 DEF WorkerAccept
      <4>1. sentinels' \in [Item -> 0 .. MaxEvents]
        BY <4>0, ForgetType
      <4>3. seen' \in [Worker -> 0 .. MaxEvents]
        BY <3>4 DEF WorkerAccept
      <4>2. pc' \in [Worker -> {"off", "top", "get", "item", "work", "requeue",
                               "done", "again", "drop", "stopped"}]
        BY <3>4 DEF WorkerAccept
      <4> QED
        BY <3>4, <4>1, <4>2, <4>3 DEF WorkerAccept, clientGo, poolVars
    <3>5. CASE WorkerFails(w)
      BY <3>5 DEF WorkerFails, AddAfter, poolVars
    <3>6. CASE WorkerForgets(w)
      <4>1. sentinels' \in [Item -> 0 .. MaxEvents]
        BY <3>6, ForgetType DEF WorkerForgets
      <4>2. pc' \in [Worker -> {"off", "top", "get", "item", "work", "requeue",
                               "done", "again", "drop", "stopped"}]
        BY <3>6 DEF WorkerForgets
      <4> QED
        BY <3>6, <4>1, <4>2 DEF WorkerForgets, clientGo, poolVars
    <3>7. CASE WorkerRequeues(w)
      BY <3>7, AddType DEF WorkerRequeues, AddAfter, poolVars
    <3>8. CASE WorkerDone(w)
      BY <3>8 DEF WorkerDone, Done, poolVars
    <3> QED
      BY <2>5, <3>1, <3>2, <3>3, <3>4, <3>5, <3>6, <3>7, <3>8 DEF WorkerStep
  <2>6. CASE Deactivate
    BY <2>6, <1>0 DEF Deactivate, clientGo, workers
  <2>7. CASE AddDrainItem
    BY <2>7, <1>0, AddType DEF AddDrainItem, workers
  <2>8. CASE DrainEnds
    BY <2>8 DEF DrainEnds, clientGo, workers
  <2>9. CASE DrainTimeout
    BY <2>9 DEF DrainTimeout, clientGo, workers
  <2>10. CASE Activate
    <3>1. pc' \in [Worker -> {"off", "top", "get", "item", "work", "requeue",
                             "done", "again", "drop", "stopped"}]
      BY <2>10 DEF Activate
    <3>2. gen' \in 1 .. MaxGen
      BY <2>10 DEF Activate
    <3>4. deactivated' \in BOOLEAN /\ pool' = "active"
      BY <2>10 DEF Activate
    <3>3. /\ UNCHANGED clientGo /\ sentinels' = sentinels
          /\ nextEventID' = nextEventID /\ maxDepth' = maxDepth /\ enq' = enq
          /\ item' = item /\ seen' = seen /\ cancelled' = cancelled
          /\ drainsLeft' = drainsLeft
      BY <2>10 DEF Activate
    <3> QED
      BY <3>1, <3>2, <3>3, <3>4 DEF clientGo
  <2>11. CASE LoseLeadership
    BY <2>11 DEF LoseLeadership, clientGo, workers
  <2>12. CASE ShutDown
    BY <2>12 DEF ShutDown, workers, poolVars
  <2>13. CASE UNCHANGED vars
    BY <2>13 DEF vars, clientGo, workers, poolVars
  <2> QED
    BY <2>1, <2>2, <2>3, <2>4, <2>5, <2>6, <2>7, <2>8, <2>9, <2>10, <2>11,
       <2>12, <2>13 DEF Next
<1> QED
  BY <1>1, <1>2, PTL DEF Spec

-----------------------------------------------------------------------------
(* Appending a new element keeps a sequence free of duplicates.            *)
LEMMA AppendNew ==
    ASSUME NEW S, NEW q \in Seq(S), NEW x \in S, Distinct(q), x \notin Elems(q)
    PROVE  Distinct(Append(q, x)) /\ Elems(Append(q, x)) = Elems(q) \cup {x}
  BY DEF Distinct, Elems

(* Taking the head off removes exactly that element.                       *)
LEMMA TailRemoves ==
    ASSUME NEW S, NEW q \in Seq(S), q # <<>>, Distinct(q)
    PROVE  /\ Distinct(Tail(q)) /\ Elems(Tail(q)) = Elems(q) \ {Head(q)}
           /\ Head(q) \in Elems(q) /\ Head(q) \in S
  <1>1. /\ Len(q) \in Nat \ {0} /\ Head(q) = q[1] /\ Len(Tail(q)) = Len(q) - 1
        /\ \A n \in 1 .. Len(q) - 1 : Tail(q)[n] = q[n + 1]
    OBVIOUS
  <1>2. Distinct(Tail(q))
    BY <1>1 DEF Distinct
  <1>3. ASSUME NEW x \in Elems(Tail(q)) PROVE x \in Elems(q) \ {Head(q)}
    BY <1>1, <1>3 DEF Distinct, Elems
  <1>4. ASSUME NEW x \in Elems(q) \ {Head(q)} PROVE x \in Elems(Tail(q))
    <2>1. PICK n \in 1 .. Len(q) : x = q[n]
      BY <1>4 DEF Elems
    <2>2. n - 1 \in 1 .. Len(q) - 1 /\ Tail(q)[n - 1] = x
      BY <1>1, <2>1, <1>4
    <2> QED
      BY <1>1, <2>2 DEF Elems
  <1>5. Head(q) \in Elems(q) /\ Head(q) \in S
    BY <1>1 DEF Elems
  <1> QED
    BY <1>2, <1>3, <1>4, <1>5

(* Workers of later activations do not run yet: Activate disturbs no one.  *)
LaterOff == \A w \in Worker : w[1] > gen => pc[w] = "off"

(* The inductive invariant.                                                *)
Inv == TypeOK /\ LaterOff /\ QueueConsistent /\ OneWorkerPerItem

(* The client-go Add keeps the queue consistent.                           *)
LEMMA AddConsistent ==
    ASSUME Inv, NEW i \in Item, Add(i), processing' = processing, item' = item,
           \A v \in Worker : Busy(v)' <=> Busy(v)
    PROVE  QueueConsistent' /\ OneWorkerPerItem'
  <1>1. OneWorkerPerItem' /\ InHand' = InHand
    BY DEF Inv, OneWorkerPerItem, InHand
  <1>2. CASE shuttingDown \/ i \in dirty
    BY <1>1, <1>2 DEF Inv, Add, QueueConsistent, Distinct, Elems
  <1>3. CASE ~(shuttingDown \/ i \in dirty) /\ i \in processing
    BY <1>1, <1>3 DEF Inv, Add, QueueConsistent, Distinct, Elems
  <1>4. CASE ~(shuttingDown \/ i \in dirty) /\ i \notin processing
    <2>1. queue' = Append(queue, i) /\ dirty' = dirty \cup {i}
      BY <1>4 DEF Add
    <2>2. Distinct(queue') /\ Elems(queue') = Elems(queue) \cup {i}
      BY <1>4, <2>1, AppendNew DEF Inv, TypeOK, QueueConsistent
    <2> QED
      BY <1>1, <1>4, <2>1, <2>2 DEF Inv, QueueConsistent, Distinct, Elems
  <1> QED
    BY <1>2, <1>3, <1>4

(* A step that leaves the queue, and who holds what, alone.                *)
LEMMA QuietStep ==
    ASSUME Inv, queue' = queue, dirty' = dirty, processing' = processing,
           item' = item, \A v \in Worker : Busy(v)' <=> Busy(v)
    PROVE  QueueConsistent' /\ OneWorkerPerItem'
  BY DEF Inv, QueueConsistent, OneWorkerPerItem, InHand, Distinct, Elems

(* Get moves the head from the queue to the hands of one worker.           *)
LEMMA GetConsistent ==
    ASSUME Inv, NEW w \in Worker, WorkerGet(w)
    PROVE  QueueConsistent' /\ OneWorkerPerItem'
  <1> DEFINE h == Head(queue)
  <1>1. /\ Distinct(Tail(queue)) /\ Elems(Tail(queue)) = Elems(queue) \ {h}
        /\ h \in Elems(queue)
    BY TailRemoves DEF WorkerGet, Inv, TypeOK, QueueConsistent
  <1>2. /\ queue' = Tail(queue) /\ dirty' = dirty \ {h}
        /\ processing' = processing \cup {h}
        /\ item' = [item EXCEPT ![w] = h] /\ pc' = [pc EXCEPT ![w] = "item"]
    BY DEF WorkerGet
  <1>3. /\ ~Busy(w) /\ Busy(w)'
        /\ \A v \in Worker \ {w} : (Busy(v)' <=> Busy(v)) /\ item'[v] = item[v]
        /\ item'[w] = h
    BY <1>2 DEF WorkerGet, Busy, Inv, TypeOK
  <1>4. \A v \in Worker : Busy(v) => item[v] # h
    BY <1>1 DEF Inv, QueueConsistent, InHand
  <1>5. OneWorkerPerItem'
    BY <1>3, <1>4 DEF Inv, OneWorkerPerItem
  <1>6. InHand' = InHand \cup {h}
    BY <1>3 DEF InHand
  <1>7. Distinct(queue') /\ Elems(queue') = dirty' \ processing'
    BY <1>1, <1>2 DEF Inv, QueueConsistent
  <1>8. processing' = InHand'
    BY <1>2, <1>6 DEF Inv, QueueConsistent
  <1> QED
    BY <1>5, <1>7, <1>8 DEF QueueConsistent, Distinct, Elems

(* Done takes the item out of the worker's hands, and back to the queue if *)
(* it was marked meanwhile.                                                *)
LEMMA DoneConsistent ==
    ASSUME Inv, NEW w \in Worker, WorkerDone(w)
    PROVE  QueueConsistent' /\ OneWorkerPerItem'
  <1> DEFINE i == item[w]
  <1>1. /\ processing' = processing \ {i} /\ dirty' = dirty
        /\ queue' = IF i \in dirty THEN Append(queue, i) ELSE queue
        /\ item' = [item EXCEPT ![w] = DrainItem]
        /\ pc' = [pc EXCEPT ![w] = "top"]
    BY DEF WorkerDone, Done
  <1>2. /\ Busy(w) /\ ~Busy(w)' /\ i \in Item
        /\ \A v \in Worker \ {w} : (Busy(v)' <=> Busy(v)) /\ item'[v] = item[v]
    BY <1>1 DEF WorkerDone, Busy, Inv, TypeOK
  <1>3. OneWorkerPerItem'
    BY <1>2 DEF Inv, OneWorkerPerItem
  <1>4. \A v \in Worker : Busy(v) /\ item[v] = i => v = w
    BY <1>2 DEF Inv, OneWorkerPerItem
  <1>5. InHand' = InHand \ {i} /\ i \in InHand
    BY <1>1, <1>2, <1>4 DEF InHand
  <1>6. i \in processing /\ i \notin Elems(queue)
    BY <1>5 DEF Inv, QueueConsistent
  <1>7. Distinct(queue') /\ Elems(queue') = dirty' \ processing'
    <2>1. CASE i \in dirty
      <3>1. Distinct(queue') /\ Elems(queue') = Elems(queue) \cup {i}
        BY <1>1, <1>2, <1>6, <2>1, AppendNew DEF Inv, TypeOK, QueueConsistent
      <3> QED
        BY <1>1, <1>6, <2>1, <3>1 DEF Inv, QueueConsistent
    <2>2. CASE i \notin dirty
      BY <1>1, <1>6, <2>2 DEF Inv, QueueConsistent
    <2> QED
      BY <2>1, <2>2
  <1> QED
    BY <1>1, <1>3, <1>5, <1>7 DEF Inv, QueueConsistent, Distinct, Elems

(* Only Activate wakes workers, and those of its own activation only.      *)
LEMMA LaterOffStep ==
    ASSUME TypeOK, LaterOff, [Next]_vars
    PROVE  LaterOff'
  <1> USE DEF LaterOff
  <1>1. ASSUME pc' = pc, gen' = gen PROVE LaterOff'
    BY <1>1
  <1>2. ASSUME NEW w \in Worker, pc[w] # "off", gen' = gen,
               \A v \in Worker \ {w} : pc'[v] = pc[v]
        PROVE  LaterOff'
    BY <1>2
  <1>3. ASSUME NEW w \in Worker, WorkerStep(w) PROVE LaterOff'
    <2>1. pc[w] # "off" /\ gen' = gen
      BY <1>3 DEF WorkerStep, WorkerTop, WorkerGet, WorkerShutdown, WorkerAccept,
         WorkerFails, WorkerForgets, WorkerRequeues, WorkerDone, poolVars
    <2>2. \A v \in Worker \ {w} : pc'[v] = pc[v]
      BY <1>3 DEF TypeOK, WorkerStep, WorkerTop, WorkerGet, WorkerShutdown,
         WorkerAccept, WorkerFails, WorkerForgets, WorkerRequeues, WorkerDone
    <2> QED
      BY <1>2, <2>1, <2>2
  <1>4. CASE Activate
    <2>1. gen \in Nat /\ gen' = gen + 1
      BY <1>4, BoundsAssumption DEF Activate, TypeOK
    <2>2. \A w \in Worker : w[1] \in Nat
      BY BoundsAssumption DEF Worker
    <2>3. \A w \in Worker : w[1] > gen + 1 => pc'[w] = pc[w]
      BY <1>4, <2>1, <2>2 DEF Activate
    <2> QED
      BY <2>1, <2>2, <2>3
  <1>5. ASSUME NEW e \in Enqueuers, NEW k \in Keys, NEW kind \in Kinds,
               Enqueue(e, k, kind)
        PROVE  LaterOff'
    BY <1>1, <1>5 DEF Enqueue, workers, poolVars
  <1>6. ASSUME NEW e \in Enqueuers, EnqueueStep(e) PROVE LaterOff'
    BY <1>1, <1>6 DEF EnqueueStep, StoreSentinels, AddItem, workers, poolVars
  <1>7. ASSUME NEW n \in DepthLimits, SetQueueDepth(n) PROVE LaterOff'
    BY <1>1, <1>7 DEF SetQueueDepth, workers, poolVars
  <1>8. ASSUME NEW i \in Item, TimerFires(i) PROVE LaterOff'
    BY <1>1, <1>8 DEF TimerFires, workers, poolVars
  <1>9. ASSUME Deactivate \/ AddDrainItem \/ DrainEnds \/ DrainTimeout
               \/ LoseLeadership \/ ShutDown \/ UNCHANGED vars
        PROVE  LaterOff'
    BY <1>1, <1>9 DEF Deactivate, AddDrainItem, DrainEnds, DrainTimeout,
       LoseLeadership, ShutDown, vars, workers, poolVars
  <1> QED
    BY <1>3, <1>4, <1>5, <1>6, <1>7, <1>8, <1>9 DEF Next

(* For every number of keys, enqueuers, workers and activations: the queue *)
(* loses and doubles nothing, and no two workers hold the same item.       *)
THEOREM QueueSafe == Spec => [](QueueConsistent /\ OneWorkerPerItem)
<1>1. Init => LaterOff /\ QueueConsistent /\ OneWorkerPerItem
  <2> SUFFICES ASSUME Init PROVE LaterOff /\ QueueConsistent /\ OneWorkerPerItem
    OBVIOUS
  <2>4. LaterOff
    BY DEF Init, LaterOff, Worker
  <2>1. \A w \in Worker : ~Busy(w)
    BY DEF Init, Busy
  <2>2. InHand = {} /\ OneWorkerPerItem
    BY <2>1 DEF InHand, OneWorkerPerItem
  <2>3. queue = <<>> /\ dirty = {} /\ processing = {}
    BY DEF Init
  <2> QED
    BY <2>2, <2>3, <2>4 DEF QueueConsistent, Distinct, Elems
<1>2. ASSUME Inv, [Next]_vars
      PROVE  QueueConsistent' /\ OneWorkerPerItem'
  <2> USE <1>2
  <2>0. ASSUME pc' = pc
        PROVE  \A v \in Worker : Busy(v)' <=> Busy(v)
    BY <2>0 DEF Busy
  <2>1. ASSUME NEW e \in Enqueuers, NEW k \in Keys, NEW kind \in Kinds,
               Enqueue(e, k, kind)
        PROVE  QueueConsistent' /\ OneWorkerPerItem'
    BY <2>0, <2>1, QuietStep DEF Enqueue, clientGo, workers
  <2>2. ASSUME NEW e \in Enqueuers, EnqueueStep(e)
        PROVE  QueueConsistent' /\ OneWorkerPerItem'
    <3>1. CASE StoreSentinels(e)
      BY <2>0, <3>1, QuietStep DEF StoreSentinels, clientGo, workers
    <3>2. CASE AddItem(e)
      <4>1. enq[e].item \in Item
        BY DEF Inv, TypeOK
      <4> QED
        BY <2>0, <3>2, <4>1, AddConsistent DEF AddItem, workers
    <3> QED
      BY <2>2, <3>1, <3>2 DEF EnqueueStep
  <2>3. ASSUME NEW n \in DepthLimits, SetQueueDepth(n)
        PROVE  QueueConsistent' /\ OneWorkerPerItem'
    BY <2>0, <2>3, QuietStep DEF SetQueueDepth, clientGo, workers
  <2>4. ASSUME NEW i \in Item, TimerFires(i)
        PROVE  QueueConsistent' /\ OneWorkerPerItem'
    BY <2>0, <2>4, AddConsistent DEF TimerFires, workers
  <2>5. ASSUME NEW w \in Worker, WorkerStep(w)
        PROVE  QueueConsistent' /\ OneWorkerPerItem'
    <3>0. pc \in [Worker -> {"off", "top", "get", "item", "work", "requeue",
                             "done", "again", "drop", "stopped"}] /\ item[w] \in Item
      BY DEF Inv, TypeOK
    <3>1. CASE WorkerTop(w)
      <4>1. \A v \in Worker : Busy(v)' <=> Busy(v)
        BY <3>0, <3>1 DEF WorkerTop, Busy
      <4> QED
        BY <3>1, <4>1, QuietStep DEF WorkerTop, clientGo
    <3>2. CASE WorkerGet(w)
      BY <3>2, GetConsistent
    <3>3. CASE WorkerShutdown(w)
      <4>1. \A v \in Worker : Busy(v)' <=> Busy(v)
        BY <3>0, <3>3 DEF WorkerShutdown, Busy
      <4> QED
        BY <3>3, <4>1, QuietStep DEF WorkerShutdown, clientGo
    <3>4. CASE WorkerAccept(w)
      <4>1. \A v \in Worker : Busy(v)' <=> Busy(v)
        BY <3>0, <3>4 DEF WorkerAccept, Busy
      <4> QED
        BY <3>4, <4>1, QuietStep DEF WorkerAccept, clientGo
    <3>5. CASE WorkerFails(w)
      <4>1. \A v \in Worker : Busy(v)' <=> Busy(v)
        BY <3>0, <3>5 DEF WorkerFails, Busy
      <4> QED
        BY <3>5, <4>1, QuietStep DEF WorkerFails
    <3>6. CASE WorkerForgets(w)
      <4>1. \A v \in Worker : Busy(v)' <=> Busy(v)
        BY <3>0, <3>6 DEF WorkerForgets, Busy
      <4> QED
        BY <3>6, <4>1, QuietStep DEF WorkerForgets, clientGo
    <3>7. CASE WorkerRequeues(w)
      <4>1. \A v \in Worker : Busy(v)' <=> Busy(v)
        BY <3>0, <3>7 DEF WorkerRequeues, Busy
      <4> QED
        BY <3>0, <3>7, <4>1, QuietStep, AddConsistent DEF WorkerRequeues
    <3>8. CASE WorkerDone(w)
      BY <3>8, DoneConsistent
    <3> QED
      BY <2>5, <3>1, <3>2, <3>3, <3>4, <3>5, <3>6, <3>7, <3>8 DEF WorkerStep
  <2>6. CASE Deactivate
    BY <2>0, <2>6, QuietStep DEF Deactivate, clientGo, workers
  <2>7. CASE AddDrainItem
    BY <2>0, <2>7, ItemFacts, AddConsistent DEF AddDrainItem, workers
  <2>8. CASE DrainEnds
    BY <2>0, <2>8, QuietStep DEF DrainEnds, clientGo, workers
  <2>9. CASE DrainTimeout
    BY <2>0, <2>9, QuietStep DEF DrainTimeout, clientGo, workers
  <2>10. CASE Activate
    <3>1. \A v \in Worker : v[1] = gen + 1 => pc[v] = "off"
      BY BoundsAssumption DEF Inv, TypeOK, LaterOff
    <3>2. \A v \in Worker : Busy(v)' <=> Busy(v)
      BY <2>10, <3>1 DEF Activate, Busy
    <3> QED
      BY <2>10, <3>2, QuietStep DEF Activate, clientGo
  <2>11. CASE LoseLeadership
    BY <2>0, <2>11, QuietStep DEF LoseLeadership, clientGo, workers
  <2>12. CASE ShutDown
    BY <2>0, <2>12, QuietStep DEF ShutDown, workers
  <2>13. CASE UNCHANGED vars
    BY <2>0, <2>13, QuietStep DEF vars, clientGo, workers
  <2> QED
    BY <2>1, <2>2, <2>3, <2>4, <2>5, <2>6, <2>7, <2>8, <2>9, <2>10,
       <2>11, <2>12, <2>13 DEF Next
<1>3. ASSUME Inv, [Next]_vars
      PROVE  LaterOff'
  BY <1>3, LaterOffStep DEF Inv
<1> QED
  BY <1>1, <1>2, <1>3, TypeCorrect, PTL DEF Spec, Inv

-----------------------------------------------------------------------------
(* Add marks its item, unless the queue is shutting down, and nothing else. *)
LEMMA AddMarks ==
    ASSUME NEW i, Add(i)
    PROVE  /\ dirty \subseteq dirty' /\ dirty' \subseteq dirty \cup {i}
           /\ ~shuttingDown => i \in dirty'
  BY DEF Add

(* A worker gives an item up only with its context cancelled, and it stays *)
(* cancelled.                                                              *)
DropCancelled == \A w \in Worker : pc[w] = "drop" => Cancelled(w)

(* Contexts are cancelled for good.                                        *)
LEMMA CancelledGrows ==
    ASSUME TypeOK, [Next]_vars
    PROVE  cancelled \subseteq cancelled'
  <1>1. ASSUME NEW e \in Enqueuers, EnqueueStep(e)
        PROVE  cancelled' = cancelled
    BY <1>1 DEF EnqueueStep, StoreSentinels, AddItem, poolVars
  <1>2. ASSUME NEW w \in Worker, WorkerStep(w)
        PROVE  cancelled' = cancelled
    BY <1>2 DEF WorkerStep, WorkerTop, WorkerGet, WorkerShutdown, WorkerAccept,
       WorkerFails, WorkerForgets, WorkerRequeues, WorkerDone, poolVars
  <1>3. ASSUME Deactivate \/ AddDrainItem \/ DrainEnds \/ DrainTimeout
               \/ Activate \/ LoseLeadership \/ ShutDown \/ UNCHANGED vars
        PROVE  cancelled \subseteq cancelled'
    BY <1>3 DEF Deactivate, AddDrainItem, DrainEnds, DrainTimeout, Activate,
       LoseLeadership, ShutDown, vars, poolVars, TypeOK
  <1> QED
    BY <1>1, <1>2, <1>3 DEF Next, Enqueue, SetQueueDepth, TimerFires, poolVars

(* What a worker step does to the control of the workers.                  *)
LEMMA OtherWorkers ==
    ASSUME TypeOK, NEW w \in Worker, WorkerStep(w)
    PROVE  /\ \A v \in Worker \ {w} : /\ pc'[v] = pc[v] /\ item'[v] = item[v]
                                      /\ seen'[v] = seen[v]
           /\ pc'[w] = "drop" => Cancelled(w)
           /\ UNCHANGED <<cancelled, shuttingDown, enq, nextEventID>>
  <1>1. \A v \in Worker \ {w} : /\ pc'[v] = pc[v] /\ item'[v] = item[v]
                                /\ seen'[v] = seen[v]
    BY DEF TypeOK, WorkerStep, WorkerTop, WorkerGet, WorkerShutdown,
       WorkerAccept, WorkerFails, WorkerForgets, WorkerRequeues, WorkerDone
  <1>2. pc'[w] = "drop" => Cancelled(w)
    BY DEF TypeOK, WorkerStep, WorkerTop, WorkerGet, WorkerShutdown,
       WorkerAccept, WorkerFails, WorkerForgets, WorkerRequeues, WorkerDone
  <1>3. UNCHANGED <<cancelled, shuttingDown, enq, nextEventID>>
    BY DEF WorkerStep, WorkerTop, WorkerGet, WorkerShutdown, WorkerAccept,
       WorkerFails, WorkerForgets, WorkerRequeues, WorkerDone, clientGo,
       poolVars
  <1> QED
    BY <1>1, <1>2, <1>3

(* Every other step leaves the control of the workers alone, but for the   *)
(* workers that Activate starts.                                           *)
LEMMA WorkersRest ==
    ASSUME TypeOK, [Next]_vars, \A w \in Worker : ~WorkerStep(w)
    PROVE  /\ item' = item /\ seen' = seen
           /\ \A w \in Worker : pc'[w] = pc[w] \/ pc'[w] = "top"
           /\ processing' = processing
  <1>1. ASSUME NEW e \in Enqueuers, EnqueueStep(e)
        PROVE  UNCHANGED <<workers, processing>>
    BY <1>1 DEF EnqueueStep, StoreSentinels, AddItem, clientGo
  <1>2. ASSUME Deactivate \/ AddDrainItem \/ DrainEnds \/ DrainTimeout
               \/ LoseLeadership \/ ShutDown \/ UNCHANGED vars
        PROVE  UNCHANGED <<workers, processing>>
    BY <1>2 DEF Deactivate, AddDrainItem, DrainEnds, DrainTimeout,
       LoseLeadership, ShutDown, vars, clientGo
  <1>3. CASE Activate
    BY <1>3 DEF Activate, clientGo, TypeOK
  <1>4. CASE UNCHANGED <<workers, processing>>
    BY <1>4 DEF workers
  <1> QED
    BY <1>1, <1>2, <1>3, <1>4
       DEF Next, Enqueue, SetQueueDepth, TimerFires, clientGo

(* What was given up with a cancelled context stays so.                    *)
LEMMA DropCancelledStep ==
    ASSUME TypeOK, DropCancelled, [Next]_vars
    PROVE  DropCancelled'
  <1>1. cancelled \subseteq cancelled'
    BY CancelledGrows
  <1>2. ASSUME NEW w \in Worker, WorkerStep(w) PROVE DropCancelled'
    BY <1>1, <1>2, OtherWorkers DEF DropCancelled, Cancelled
  <1>3. ASSUME \A w \in Worker : ~WorkerStep(w) PROVE DropCancelled'
    BY <1>1, <1>3, WorkersRest DEF DropCancelled, Cancelled
  <1> QED
    BY <1>2, <1>3

(* What a worker sent back to the queue is due again while it is still in  *)
(* its hands.                                                              *)
ComesBack ==
    \A w \in Worker : pc[w] = "again" /\ ~shuttingDown =>
                          item[w] \in dirty \cup waiting

(* No step but Get takes an item off the marked and waiting ones, and Get  *)
(* takes one that no worker has.                                           *)
LEMMA ComesBackStep ==
    ASSUME TypeOK, QueueConsistent, ComesBack, [Next]_vars
    PROVE  ComesBack'
  <1> USE DEF ComesBack
  <1>1. ASSUME NEW w \in Worker, WorkerStep(w) PROVE ComesBack'
    <2>0. /\ \A v \in Worker \ {w} : pc'[v] = pc[v] /\ item'[v] = item[v]
          /\ shuttingDown' = shuttingDown
      BY <1>1, OtherWorkers
    <2>1. ASSUME dirty \cup waiting \subseteq dirty' \cup waiting',
                 pc'[w] = "again" /\ ~shuttingDown =>
                     item'[w] \in dirty' \cup waiting'
          PROVE  ComesBack'
      BY <2>0, <2>1
    <2>2. CASE WorkerTop(w) \/ WorkerShutdown(w) \/ WorkerAccept(w)
               \/ WorkerForgets(w) \/ WorkerDone(w)
      <3>1. UNCHANGED <<dirty, waiting>> /\ pc'[w] # "again"
        BY <2>2 DEF WorkerTop, WorkerShutdown, WorkerAccept, WorkerForgets,
           WorkerDone, Done, clientGo, TypeOK
      <3> QED
        BY <2>1, <3>1
    <2>3. CASE WorkerGet(w)
      <3>1. /\ dirty' = dirty \ {Head(queue)} /\ waiting' = waiting
            /\ pc'[w] = "item"
        BY <2>3 DEF WorkerGet, TypeOK
      <3>2. Head(queue) \in Elems(queue)
        BY <2>3, TailRemoves DEF WorkerGet, TypeOK, QueueConsistent
      <3>3. \A v \in Worker : pc[v] = "again" => item[v] # Head(queue)
        BY <3>2 DEF QueueConsistent, InHand, Busy
      <3> QED
        BY <2>0, <3>1, <3>3
    <2>4. CASE WorkerFails(w)
      BY <2>1, <2>4 DEF WorkerFails, AddAfter
    <2>5. CASE WorkerRequeues(w)
      <3>1. /\ dirty \subseteq dirty' /\ waiting \subseteq waiting'
            /\ ~shuttingDown => item[w] \in dirty' \cup waiting'
            /\ item' = item
        BY <2>5, AddMarks DEF WorkerRequeues, AddAfter
      <3> QED
        BY <2>1, <3>1
    <2> QED
      BY <1>1, <2>2, <2>3, <2>4, <2>5 DEF WorkerStep
  <1>2. ASSUME \A w \in Worker : ~WorkerStep(w) PROVE ComesBack'
    <2>0. /\ item' = item
          /\ \A w \in Worker : pc'[w] = pc[w] \/ pc'[w] = "top"
      BY <1>2, WorkersRest
    <2>1. ASSUME dirty \cup waiting \subseteq dirty' \cup waiting',
                 shuttingDown => shuttingDown'
          PROVE  ComesBack'
      BY <2>0, <2>1
    <2>2. ASSUME NEW e \in Enqueuers, EnqueueStep(e) PROVE ComesBack'
      BY <2>1, <2>2, AddMarks DEF EnqueueStep, StoreSentinels, AddItem, clientGo
    <2>3. ASSUME NEW j \in Item, TimerFires(j) PROVE ComesBack'
      BY <2>1, <2>3, AddMarks DEF TimerFires
    <2>4. CASE AddDrainItem
      BY <2>1, <2>4, AddMarks DEF AddDrainItem
    <2>5. ASSUME Deactivate \/ DrainEnds \/ DrainTimeout \/ Activate
                 \/ LoseLeadership \/ ShutDown \/ UNCHANGED vars
          PROVE  ComesBack'
      BY <2>1, <2>5 DEF Deactivate, DrainEnds, DrainTimeout, Activate,
         LoseLeadership, ShutDown, vars, clientGo
    <2> QED
      BY <1>2, <2>1, <2>2, <2>3, <2>4, <2>5
         DEF Next, Enqueue, SetQueueDepth, clientGo
  <1> QED
    BY <1>1, <1>2

(* Work that is due is never lost: it leaves the books of the queue only   *)
(* by the Done of a worker that settled it, that had to give it up because *)
(* its context was cancelled, or that sent it back to a closed queue.      *)
THEOREM NothingDropped == Spec => WorkKept
<1>1. Init => DropCancelled /\ ComesBack
  BY DEF Init, DropCancelled, ComesBack
<1>2. ASSUME TypeOK, QueueConsistent, DropCancelled, ComesBack, [Next]_vars
      PROVE  DropCancelled' /\ ComesBack'
  BY <1>2, DropCancelledStep, ComesBackStep
<1>3. ASSUME TypeOK, DropCancelled, ComesBack, [Next]_vars,
             NEW i \in Item, Pending(i), ~Pending(i)'
      PROVE  \E w \in Worker : /\ item[w] = i
                               /\ \/ pc[w] = "done"
                                  \/ pc[w] = "drop" /\ Cancelled(w)
                                  \/ pc[w] = "again" /\ shuttingDown
  <2> USE <1>3
  <2>1. ASSUME NEW w \in Worker, WorkerStep(w)
        PROVE  WorkerDone(w) /\ item[w] = i
    <3>1. CASE WorkerTop(w) \/ WorkerShutdown(w) \/ WorkerAccept(w)
               \/ WorkerForgets(w)
      BY <3>1 DEF WorkerTop, WorkerShutdown, WorkerAccept, WorkerForgets,
         clientGo, Pending
    <3>2. CASE WorkerGet(w)
      BY <3>2 DEF WorkerGet, Pending
    <3>3. CASE WorkerFails(w)
      BY <3>3 DEF WorkerFails, AddAfter, Pending
    <3>4. CASE WorkerRequeues(w)
      BY <3>4, AddMarks DEF WorkerRequeues, AddAfter, Pending
    <3>5. CASE WorkerDone(w)
      BY <3>5 DEF WorkerDone, Done, Pending
    <3> QED
      BY <2>1, <3>1, <3>2, <3>3, <3>4, <3>5 DEF WorkerStep
  <2>2. ASSUME \A w \in Worker : ~WorkerStep(w) PROVE FALSE
    <3>1. ASSUME NEW e \in Enqueuers, EnqueueStep(e) PROVE FALSE
      BY <3>1, AddMarks DEF EnqueueStep, StoreSentinels, AddItem, clientGo,
         Pending
    <3>2. ASSUME NEW j \in Item, TimerFires(j) PROVE FALSE
      BY <3>2, AddMarks DEF TimerFires, Pending
    <3>3. CASE AddDrainItem
      BY <3>3, AddMarks DEF AddDrainItem, Pending
    <3>4. ASSUME Deactivate \/ DrainEnds \/ DrainTimeout \/ Activate
                 \/ LoseLeadership \/ ShutDown \/ UNCHANGED vars
          PROVE  FALSE
      BY <3>4 DEF Deactivate, DrainEnds, DrainTimeout, Activate,
         LoseLeadership, ShutDown, vars, clientGo, Pending
    <3>5. ASSUME NEW e \in Enqueuers, NEW k \in Keys, NEW kind \in Kinds,
                 Enqueue(e, k, kind)
          PROVE  FALSE
      BY <3>5 DEF Enqueue, clientGo, Pending
    <3>6. ASSUME NEW n \in DepthLimits, SetQueueDepth(n) PROVE FALSE
      BY <3>6 DEF SetQueueDepth, clientGo, Pending
    <3> QED
      BY <2>2, <3>1, <3>2, <3>3, <3>4, <3>5, <3>6 DEF Next
  <2>3. PICK w \in Worker : WorkerDone(w) /\ item[w] = i
    BY <2>1, <2>2
  <2>4. i \notin dirty \cup waiting
    BY <2>3 DEF WorkerDone, Done, Pending
  <2> QED
    BY <2>3, <2>4 DEF WorkerDone, DropCancelled, ComesBack
<1>4. ASSUME TypeOK, DropCancelled, ComesBack, [Next]_vars
      PROVE  [\A i \in Item : Pending(i) /\ ~Pending(i)' /\ Real(i) =>
                 \E w \in Worker : /\ item[w] = i
                                   /\ \/ pc[w] = "done"
                                      \/ pc[w] = "drop" /\ Cancelled(w)
                                      \/ pc[w] = "again" /\ shuttingDown]_vars
  BY <1>3, <1>4
<1> QED
  BY <1>1, <1>2, <1>4, TypeCorrect, QueueSafe, PTL DEF Spec, WorkKept

-----------------------------------------------------------------------------
(* The queue is shut down after every context was cancelled.               *)
ShutLast == shuttingDown => cancelled # {}

(* What a worker is done with has no payload left, unless it is to come    *)
(* again: a failure re-added it, or an enqueuer has stored a new payload.  *)
Settled ==
    cancelled = {} =>
        \A w \in Worker : pc[w] \in {"done", "again", "requeue"} =>
            \/ sentinels[item[w]] = NoPayload
            \/ item[w] \in dirty \cup waiting
            \/ Held(item[w])

(* The inductive invariant for payloads.                                   *)
PayloadInv ==
    /\ TypeOK /\ QueueConsistent /\ OneWorkerPerItem
    /\ DropCancelled /\ ShutLast /\ Settled /\ NoOrphanedPayload

(* Once shut down, stopped.                                                *)
LEMMA ShutLastStep ==
    ASSUME TypeOK, ShutLast, [Next]_vars
    PROVE  ShutLast'
  <1>1. cancelled \subseteq cancelled'
    BY CancelledGrows
  <1>2. CASE ShutDown
    <2>1. 1 \in 1 .. MaxGen
      BY BoundsAssumption
    <2> QED
      BY <1>1, <1>2, <2>1 DEF ShutDown, ShutLast
  <1>3. ASSUME ~ShutDown PROVE UNCHANGED shuttingDown
    <2>1. ASSUME NEW e \in Enqueuers, EnqueueStep(e)
          PROVE  UNCHANGED shuttingDown
      BY <2>1 DEF EnqueueStep, StoreSentinels, AddItem, clientGo
    <2>2. ASSUME NEW w \in Worker, WorkerStep(w)
          PROVE  UNCHANGED shuttingDown
      BY <2>2, OtherWorkers
    <2> QED
      BY <1>3, <2>1, <2>2
         DEF Next, Enqueue, SetQueueDepth, TimerFires, Deactivate,
             AddDrainItem, DrainEnds, DrainTimeout, Activate, LoseLeadership,
             vars, clientGo
  <1> QED
    BY <1>1, <1>2, <1>3 DEF ShutLast

(* A step that stores no payload, and keeps what is marked, waiting or     *)
(* held, keeps payloads with their items.                                  *)
LEMMA PayloadsStay ==
    ASSUME PayloadInv, cancelled' = {} => cancelled = {},
           sentinels' = sentinels, dirty \subseteq dirty',
           processing' = processing, item' = item,
           \A w \in Worker : pc'[w] = pc[w] \/ pc'[w] = "top",
           \A i \in Item : i \in waiting => i \in waiting' \cup dirty',
           \A i \in Item : Held(i) => Held(i)' \/ i \in dirty'
    PROVE  Settled' /\ NoOrphanedPayload'
  <1>1. Settled'
    BY DEF PayloadInv, TypeOK, Settled
  <1>2. NoOrphanedPayload'
    BY DEF PayloadInv, NoOrphanedPayload, Pending
  <1> QED
    BY <1>1, <1>2

(* An enqueuer's own step: storing makes it hold the item, adding marks it. *)
LEMMA EnqueueKeepsPayloads ==
    ASSUME PayloadInv, NEW e \in Enqueuers, EnqueueStep(e)
    PROVE  Settled' /\ NoOrphanedPayload'
  <1> DEFINE i == enq[e].item
  <1> USE DEF PayloadInv
  <1>0. i \in Item /\ cancelled' = cancelled
    BY DEF TypeOK, EnqueueStep, StoreSentinels, AddItem, poolVars
  <1>1. CASE StoreSentinels(e)
    <2>1. /\ enq' = [enq EXCEPT ![e].pc = "add"] /\ enq[e].pc = "store"
          /\ sentinels' = [sentinels EXCEPT ![i] = enq[e].payload]
          /\ UNCHANGED <<dirty, processing, waiting, workers>>
      BY <1>1 DEF StoreSentinels, clientGo
    <2>2. \A j : Held(j) => Held(j)'
      BY <2>1 DEF Held, TypeOK
    <2>3. Held(i)'
      BY <2>1 DEF Held, TypeOK
    <2>4. \A j \in Item : j # i => sentinels'[j] = sentinels[j]
      BY <2>1 DEF TypeOK
    <2>5. NoOrphanedPayload'
      BY <1>0, <2>1, <2>2, <2>3, <2>4 DEF NoOrphanedPayload, Pending
    <2>6. Settled'
      BY <1>0, <2>1, <2>2, <2>3, <2>4 DEF Settled, workers, TypeOK
    <2> QED
      BY <2>5, <2>6
  <1>2. CASE AddItem(e)
    <2>1. CASE cancelled # {}
      BY <1>0, <2>1 DEF Settled, NoOrphanedPayload
    <2>2. CASE cancelled = {}
      <3>1. i \in dirty' /\ dirty \subseteq dirty'
        BY <1>2, <2>2, AddMarks DEF AddItem, ShutLast
      <3>2. \A j \in Item : Held(j) => Held(j)' \/ j \in dirty'
        BY <1>2, <3>1 DEF Held, AddItem, TypeOK
      <3>3. /\ sentinels' = sentinels /\ processing' = processing
            /\ waiting' = waiting /\ pc' = pc /\ item' = item
        BY <1>2 DEF AddItem, workers
      <3> QED
        BY <1>0, <3>1, <3>2, <3>3, PayloadsStay
    <2> QED
      BY <2>1, <2>2
  <1> QED
    BY <1>1, <1>2 DEF EnqueueStep

(* A worker's step: a failure re-adds, a release wipes, Done puts back what *)
(* was marked meanwhile.                                                   *)
LEMMA WorkerKeepsPayloads ==
    ASSUME PayloadInv, NEW w \in Worker, WorkerStep(w)
    PROVE  Settled' /\ NoOrphanedPayload'
  <1> DEFINE i == item[w]
  <1> USE DEF PayloadInv
  <1>0. /\ i \in Item /\ UNCHANGED <<cancelled, enq, shuttingDown>>
        /\ \A v \in Worker \ {w} : pc'[v] = pc[v] /\ item'[v] = item[v]
        /\ \A j : Held(j)' <=> Held(j)
    BY OtherWorkers DEF TypeOK, Held
  <1>1. CASE cancelled # {}
    BY <1>0, <1>1 DEF Settled, NoOrphanedPayload
  <1>2. CASE cancelled = {}
    <2> USE <1>2
    <2>0. ~shuttingDown /\ \A v \in Worker : pc[v] # "drop" /\ ~Cancelled(v)
      BY DEF ShutLast, DropCancelled, Cancelled
    <2>1. CASE WorkerTop(w) \/ WorkerShutdown(w)
      <3>1. /\ UNCHANGED <<sentinels, dirty, processing, waiting>>
            /\ pc'[w] \notin {"done", "again", "requeue"}
        BY <2>1 DEF WorkerTop, WorkerShutdown, clientGo, TypeOK
      <3> QED
        BY <1>0, <3>1 DEF Settled, NoOrphanedPayload, Pending
    <2>2. CASE WorkerGet(w)
      <3> DEFINE h == Head(queue)
      <3>1. /\ dirty' = dirty \ {h} /\ processing' = processing \cup {h}
            /\ UNCHANGED <<sentinels, waiting>> /\ pc'[w] = "item"
            /\ pc[w] = "get"
        BY <2>2 DEF WorkerGet, TypeOK
      <3>2. h \in Elems(queue)
        BY <2>2, TailRemoves DEF WorkerGet, TypeOK, QueueConsistent
      <3>3. \A v \in Worker : Busy(v) => item[v] # h
        BY <3>2 DEF QueueConsistent, InHand
      <3>4. Settled'
        BY <1>0, <3>1, <3>3 DEF Settled, Busy
      <3>5. NoOrphanedPayload'
        BY <1>0, <3>1 DEF NoOrphanedPayload, Pending
      <3> QED
        BY <3>4, <3>5
    <2>3. ASSUME WorkerAccept(w) \/ WorkerForgets(w), Forget(i)
          PROVE  Settled' /\ NoOrphanedPayload'
      <3>1. /\ UNCHANGED <<dirty, processing, waiting, item>>
            /\ sentinels'[i] = NoPayload
            /\ \A j \in Item \ {i} : sentinels'[j] = sentinels[j]
        BY <1>0, <2>3 DEF WorkerAccept, WorkerForgets, Forget, clientGo, TypeOK
      <3> QED
        BY <1>0, <3>1 DEF Settled, NoOrphanedPayload, Pending, TypeOK
    <2>4. ASSUME WorkerAccept(w), UNCHANGED sentinels
          PROVE  Settled' /\ NoOrphanedPayload'
      <3>1. /\ UNCHANGED <<dirty, processing, waiting, item>>
            /\ pc'[w] \in {"done", "work"}
            /\ pc'[w] = "done" => Forget(i)
        BY <2>0, <2>4 DEF WorkerAccept, clientGo, TypeOK
      <3>2. CASE pc'[w] = "done"
        BY <2>3, <2>4, <3>1, <3>2
      <3>3. CASE pc'[w] = "work"
        BY <1>0, <2>4, <3>1, <3>3 DEF Settled, NoOrphanedPayload, Pending
      <3> QED
        BY <3>1, <3>2, <3>3
    <2>5. CASE WorkerFails(w)
      <3>1. /\ UNCHANGED <<dirty, processing, sentinels, item>>
            /\ waiting' = waiting \cup {i}
        BY <2>0, <2>5 DEF WorkerFails, AddAfter
      <3> QED
        BY <1>0, <3>1 DEF Settled, NoOrphanedPayload, Pending
    <2>6. CASE WorkerRequeues(w)
      <3>1. /\ UNCHANGED <<processing, sentinels, item>>
            /\ dirty \subseteq dirty' /\ waiting \subseteq waiting'
            /\ i \in dirty' \cup waiting'
        BY <2>0, <2>6, AddMarks DEF WorkerRequeues, AddAfter
      <3> QED
        BY <1>0, <3>1 DEF Settled, NoOrphanedPayload, Pending
    <2>7. CASE WorkerDone(w)
      <3>1. /\ UNCHANGED <<dirty, waiting, sentinels>>
            /\ processing' = processing \ {i}
            /\ pc[w] \in {"done", "again"} /\ pc'[w] = "top"
        BY <2>0, <2>7 DEF WorkerDone, Done, TypeOK
      <3>2. Settled'
        BY <1>0, <3>1 DEF Settled
      <3>3. \/ sentinels[i] = NoPayload \/ i \in dirty \cup waiting \/ Held(i)
        BY <3>1 DEF Settled
      <3>4. NoOrphanedPayload'
        BY <1>0, <3>1, <3>3 DEF NoOrphanedPayload, Pending
      <3> QED
        BY <3>2, <3>4
    <2>8. CASE WorkerAccept(w)
      BY <2>3, <2>4, <2>8 DEF WorkerAccept
    <2>9. CASE WorkerForgets(w)
      BY <2>3, <2>9 DEF WorkerForgets
    <2> QED
      BY <2>1, <2>2, <2>5, <2>6, <2>7, <2>8, <2>9 DEF WorkerStep
  <1> QED
    BY <1>1, <1>2

(* As long as no context is cancelled, a stored payload belongs to an item *)
(* that is still to be handled, for any behaviour and any depth limit.     *)
THEOREM PayloadsBelong == Spec => []NoOrphanedPayload
<1>1. Init => DropCancelled /\ ShutLast /\ Settled /\ NoOrphanedPayload
  BY DEF Init, DropCancelled, ShutLast, Settled, NoOrphanedPayload
<1>2. ASSUME PayloadInv, [Next]_vars
      PROVE  Settled' /\ NoOrphanedPayload'
  <2> USE <1>2
  <2>0. cancelled' = {} => cancelled = {}
    BY CancelledGrows DEF PayloadInv
  <2>1. ASSUME NEW e \in Enqueuers, EnqueueStep(e)
        PROVE  Settled' /\ NoOrphanedPayload'
    BY <2>1, EnqueueKeepsPayloads
  <2>2. ASSUME NEW w \in Worker, WorkerStep(w)
        PROVE  Settled' /\ NoOrphanedPayload'
    BY <2>2, WorkerKeepsPayloads
  <2>3. ASSUME NEW e \in Enqueuers, NEW k \in Keys, NEW kind \in Kinds,
               Enqueue(e, k, kind)
        PROVE  Settled' /\ NoOrphanedPayload'
    <3>1. \A j : Held(j) => Held(j)'
      <4>1. /\ enq[e].pc = "idle"
            /\ \A f \in Enqueuers \ {e} : enq'[f] = enq[f]
        BY <2>3 DEF Enqueue, PayloadInv, TypeOK
      <4> QED
        BY <4>1 DEF Held
    <3> QED
      BY <2>0, <2>3, <3>1, PayloadsStay DEF Enqueue, clientGo, workers
  <2>4. ASSUME NEW i \in Item, TimerFires(i)
        PROVE  Settled' /\ NoOrphanedPayload'
    <3>1. dirty \subseteq dirty' /\ i \in dirty' /\ waiting' = waiting \ {i}
      BY <2>4, AddMarks DEF TimerFires
    <3>2. \A j : Held(j) => Held(j)'
      BY <2>4 DEF TimerFires, Held
    <3> QED
      BY <2>0, <2>4, <3>1, <3>2, PayloadsStay DEF TimerFires, workers
  <2>5. CASE AddDrainItem
    <3>1. dirty \subseteq dirty'
      BY <2>5, AddMarks DEF AddDrainItem
    <3>2. \A j : Held(j) => Held(j)'
      BY <2>5 DEF AddDrainItem, Held
    <3> QED
      BY <2>0, <2>5, <3>1, <3>2, PayloadsStay DEF AddDrainItem, workers
  <2>6. ASSUME (\E n \in DepthLimits : SetQueueDepth(n))
               \/ Deactivate \/ DrainEnds \/ DrainTimeout
               \/ LoseLeadership \/ ShutDown \/ UNCHANGED vars
        PROVE  Settled' /\ NoOrphanedPayload'
    <3>1. /\ UNCHANGED <<sentinels, dirty, processing, waiting, enq, pc, item>>
      BY <2>6 DEF SetQueueDepth, Deactivate, DrainEnds, DrainTimeout,
         LoseLeadership, ShutDown, vars, clientGo, workers
    <3>2. \A j : Held(j) => Held(j)'
      BY <3>1 DEF Held
    <3> QED
      BY <2>0, <3>1, <3>2, PayloadsStay
  <2>7. CASE Activate
    <3>1. /\ UNCHANGED <<sentinels, dirty, processing, waiting, enq, item>>
          /\ \A w \in Worker : pc'[w] = pc[w] \/ pc'[w] = "top"
      BY <2>7 DEF Activate, clientGo, PayloadInv, TypeOK
    <3>2. \A j : Held(j) => Held(j)'
      BY <3>1 DEF Held
    <3> QED
      BY <2>0, <3>1, <3>2, PayloadsStay
  <2> QED
    BY <2>1, <2>2, <2>3, <2>4, <2>5, <2>6, <2>7 DEF Next
<1>3. ASSUME PayloadInv, [Next]_vars
      PROVE  DropCancelled' /\ ShutLast'
  BY <1>3, DropCancelledStep, ShutLastStep DEF PayloadInv
<1> QED
  BY <1>1, <1>2, <1>3, TypeCorrect, QueueSafe, PTL DEF Spec, PayloadInv

-----------------------------------------------------------------------------
(* An event-aware item is in one place only: with the enqueuer that made   *)
(* it, marked, waiting for its retry, or in the hands of a worker that has *)
(* not settled it; and wherever it is, its payload is that of its event.   *)
Token(i) ==
    /\ Pending(i) \/ Held(i) => i.id <= nextEventID
    /\ Held(i) => ~Pending(i)
    /\ i \in dirty => i \notin waiting
    /\ i \in dirty \cup waiting =>
          /\ sentinels[i] = i.id
          /\ \A w \in Worker : item[w] = i => pc[w] \notin {"item", "work"}
    /\ \A w \in Worker : item[w] = i /\ pc[w] \in {"item", "work"} =>
          sentinels[i] = i.id
    /\ \A w \in Worker : item[w] = i /\ pc[w] = "work" => seen[w] = i.id

OneToken == \A i \in Item : EventAware(i) => Token(i)

Holding(e) == enq[e].pc \in {"store", "add"}

(* Nobody else enqueues an event-aware item, and its payload is stored     *)
(* before it is added.                                                     *)
OneHolder ==
    \A e \in Enqueuers : Holding(e) /\ EventAware(enq[e].item) =>
        /\ enq[e].payload = enq[e].item.id
        /\ enq[e].pc = "add" => sentinels[enq[e].item] = enq[e].item.id
        /\ \A f \in Enqueuers :
              Holding(f) /\ enq[f].item = enq[e].item => f = e

(* No worker asks for a requeue.                                           *)
NoRequeue == \A w \in Worker : pc[w] # "requeue"

(* The inductive invariant for event-aware work.                           *)
EventInv ==
    /\ TypeOK /\ QueueConsistent /\ OneWorkerPerItem
    /\ OneToken /\ OneHolder /\ NoRequeue

(* Held, in terms of Holding.                                              *)
LEMMA HeldBy ==
    \A i : Held(i) <=> \E e \in Enqueuers : Holding(e) /\ enq[e].item = i
  BY DEF Held, Holding

(* An item in the hands of a worker is being processed.                    *)
LEMMA BusyProcessing ==
    ASSUME QueueConsistent, NEW w \in Worker, Busy(w)
    PROVE  item[w] \in processing
  BY DEF QueueConsistent, InHand

(* A step that moves no event-aware item.                                  *)
LEMMA EventsRest ==
    ASSUME EventInv, sentinels' = sentinels, processing' = processing,
           waiting' = waiting, enq' = enq, nextEventID' = nextEventID,
           item' = item, seen' = seen,
           \A i \in Item : EventAware(i) => (i \in dirty' <=> i \in dirty),
           \A w \in Worker : pc'[w] = pc[w] \/ pc'[w] = "top"
    PROVE  OneToken' /\ OneHolder' /\ NoRequeue'
  <1>1. \A i : Held(i)' <=> Held(i)
    BY DEF Held
  <1>2. \A i \in Item : EventAware(i) => (Pending(i)' <=> Pending(i))
    BY DEF Pending
  <1>3. ASSUME NEW i \in Item, EventAware(i), Token(i) PROVE Token(i)'
    BY <1>1, <1>2, <1>3 DEF Token
  <1>4. OneToken'
    BY <1>3 DEF EventInv, OneToken, EventAware
  <1>5. OneHolder'
    BY DEF EventInv, OneHolder, Holding, EventAware
  <1> QED
    BY <1>4, <1>5 DEF EventInv, NoRequeue

(* A new event: the item it makes is nowhere yet.                          *)
LEMMA EnqueueToken ==
    ASSUME EventInv, NEW e \in Enqueuers, NEW k \in Keys, NEW kind \in Kinds,
           Enqueue(e, k, kind)
    PROVE  OneToken' /\ OneHolder' /\ NoRequeue'
  <1> DEFINE n == nextEventID + 1
             x == [key |-> k, id |-> IF kind = "aware" THEN n ELSE 0]
  <1> USE DEF EventInv, NoRequeue
  <1>0. nextEventID \in Nat /\ n \in 0 .. MaxEvents /\ n > nextEventID
    BY BoundsAssumption DEF TypeOK, Enqueue
  <1>1. /\ UNCHANGED <<sentinels, dirty, processing, waiting, pc, item, seen>>
        /\ nextEventID' = n
        /\ ~Holding(e)
    BY DEF Enqueue, clientGo, workers, Holding
  <1>2. /\ \A f \in Enqueuers \ {e} : enq'[f] = enq[f]
        /\ Holding(e)' => /\ enq'[e].item = x /\ enq'[e].payload = n
                          /\ EventAware(x) => enq'[e].pc = "store"
    BY DEF Enqueue, TypeOK, Holding, Idle, EventAware
  <1>3. x \in Item /\ (EventAware(x) => x.id = n)
    BY <1>0, BoundsAssumption DEF Item, EventAware
  <1>4. EventAware(x) => ~Pending(x) /\ ~Held(x)
    BY <1>0, <1>3 DEF OneToken, Token
  <1>5. \A f \in Enqueuers \ {e} : Holding(f)' <=> Holding(f)
    BY <1>2 DEF Holding
  <1>6. \A i : Held(i)' => Held(i) \/ (i = x /\ Holding(e)')
    BY <1>2, <1>5, HeldBy DEF Held, Holding
  <1>7. ASSUME NEW i \in Item, EventAware(i) PROVE Token(i)'
    <2>1. Token(i) /\ i.id \in Nat
      BY <1>7, BoundsAssumption DEF OneToken, Item
    <2>2. Pending(i)' <=> Pending(i)
      BY <1>1 DEF Pending
    <2>3. Pending(i)' \/ Held(i)' => i.id <= nextEventID'
      BY <1>0, <1>1, <1>3, <1>6, <1>7, <2>1, <2>2 DEF Token
    <2>4. Held(i)' => ~Pending(i)'
      BY <1>4, <1>6, <1>7, <2>1, <2>2 DEF Token
    <2> QED
      BY <1>1, <2>1, <2>3, <2>4 DEF Token
  <1>8. OneToken'
    BY <1>7 DEF OneToken, EventAware
  <1>9. OneHolder'
    <2> SUFFICES ASSUME NEW f \in Enqueuers, Holding(f)',
                        EventAware(enq'[f].item)
                 PROVE  /\ enq'[f].payload = enq'[f].item.id
                        /\ enq'[f].pc = "add" =>
                              sentinels'[enq'[f].item] = enq'[f].item.id
                        /\ \A g \in Enqueuers :
                              Holding(g)' /\ enq'[g].item = enq'[f].item
                                  => g = f
      BY DEF OneHolder, EventAware
    <2>1. CASE f = e
      <3>1. enq'[f].item = x /\ EventAware(x)
        BY <1>2, <2>1
      <3>2. \A g \in Enqueuers \ {e} : Holding(g)' => enq'[g].item # x
        BY <1>2, <1>4, <1>5, <3>1 DEF Held, Holding
      <3> QED
        BY <1>2, <1>3, <2>1, <3>1, <3>2
    <2>2. CASE f # e
      <3>1. Holding(f) /\ enq'[f] = enq[f] /\ Held(enq[f].item)
        BY <1>2, <1>5, <2>2 DEF Held, Holding
      <3>2. Holding(e)' => enq'[e].item # enq[f].item
        BY <1>2, <1>4, <3>1
      <3> QED
        BY <1>1, <1>2, <1>5, <3>1, <3>2 DEF OneHolder
    <2> QED
      BY <2>1, <2>2
  <1> QED
    BY <1>1, <1>8, <1>9

(* The enqueuer stores the payload of its item, then hands it to the queue. *)
LEMMA HolderToken ==
    ASSUME EventInv, NEW e \in Enqueuers, EnqueueStep(e)
    PROVE  OneToken' /\ OneHolder' /\ NoRequeue'
  <1> DEFINE x == enq[e].item
  <1> USE DEF EventInv, NoRequeue
  <1>0. x \in Item /\ UNCHANGED <<nextEventID, pc, item, seen, processing>>
        /\ Holding(e)
    BY DEF TypeOK, EnqueueStep, StoreSentinels, AddItem, clientGo, workers,
       Holding
  <1>1. EventAware(x) => /\ enq[e].payload = x.id
                         /\ ~Pending(x) /\ x.id <= nextEventID
                         /\ Held(x)
    BY <1>0 DEF OneHolder, OneToken, Token, Held, Holding
  <1>2. CASE StoreSentinels(e)
    <2>1. /\ \A i \in Item \ {x} : sentinels'[i] = sentinels[i]
          /\ EventAware(x) => sentinels'[x] = x.id
          /\ UNCHANGED <<dirty, waiting>>
      BY <1>0, <1>1, <1>2 DEF StoreSentinels, TypeOK, clientGo
    <2>2. /\ \A f \in Enqueuers \ {e} : enq'[f] = enq[f]
          /\ enq'[e].item = x /\ enq'[e].payload = enq[e].payload
          /\ \A f \in Enqueuers : Holding(f)' <=> Holding(f)
      BY <1>2 DEF StoreSentinels, TypeOK, Holding
    <2>3. \A i : (Held(i)' <=> Held(i)) /\ (Pending(i)' <=> Pending(i))
      BY <1>0, <2>1, <2>2, HeldBy DEF Held, Holding, Pending
    <2>4. ASSUME NEW i \in Item, EventAware(i) PROVE Token(i)'
      <3>1. Token(i) /\ (i = x => sentinels'[i] = i.id)
            /\ (i # x => sentinels'[i] = sentinels[i])
        BY <2>1, <2>4 DEF OneToken
      <3> QED
        BY <1>0, <2>1, <2>3, <3>1 DEF Token
    <2>5. OneHolder'
      <3> SUFFICES ASSUME NEW f \in Enqueuers, Holding(f)',
                          EventAware(enq'[f].item)
                   PROVE  /\ enq'[f].payload = enq'[f].item.id
                          /\ enq'[f].pc = "add" =>
                                sentinels'[enq'[f].item] = enq'[f].item.id
                          /\ \A g \in Enqueuers :
                                Holding(g)' /\ enq'[g].item = enq'[f].item
                                    => g = f
        BY DEF OneHolder, EventAware
      <3>1. \A g \in Enqueuers : enq'[g].item = enq[g].item
        BY <2>2
      <3>2. /\ Holding(f) /\ EventAware(enq[f].item)
            /\ enq'[f].payload = enq[f].payload
            /\ enq[f].item \in Item
        BY <2>2, <3>1 DEF TypeOK
      <3>3. \A g \in Enqueuers : Holding(g)' /\ enq'[g].item = enq'[f].item
                                    => g = f
        BY <2>2, <3>1, <3>2 DEF OneHolder
      <3>4. enq'[f].pc = "add" => sentinels'[enq[f].item] = enq[f].item.id
        <4>1. CASE f = e
          BY <2>1, <3>2, <4>1
        <4>2. CASE f # e
          <5>1. enq[f].item # x
            BY <1>0, <3>2, <4>2 DEF OneHolder
          <5>2. enq'[f] = enq[f]
            BY <2>2, <4>2
          <5> QED
            BY <2>1, <3>2, <5>1, <5>2 DEF OneHolder
        <4> QED
          BY <4>1, <4>2
      <3> QED
        BY <3>1, <3>2, <3>3, <3>4 DEF OneHolder
    <2> QED
      BY <1>0, <2>4, <2>5 DEF OneToken, EventAware
  <1>3. CASE AddItem(e)
    <2>1. /\ UNCHANGED <<sentinels, waiting>>
          /\ dirty \subseteq dirty' /\ dirty' \subseteq dirty \cup {x}
          /\ enq[e].pc = "add"
      BY <1>3, AddMarks DEF AddItem
    <2>2. /\ \A f \in Enqueuers \ {e} : enq'[f] = enq[f]
          /\ ~Holding(e)'
          /\ \A f \in Enqueuers \ {e} : Holding(f)' <=> Holding(f)
      BY <1>3 DEF AddItem, TypeOK, Holding, Idle
    <2>3. \A i : Held(i)' => Held(i)
      BY <2>2, HeldBy DEF Held, Holding
    <2>4. ASSUME NEW i \in Item, i = x, EventAware(i), Held(i)' PROVE FALSE
      <3>1. PICK f \in Enqueuers : enq'[f].pc \in {"store", "add"}
                                    /\ enq'[f].item = x
        BY <2>4, HeldBy DEF Held
      <3>2. Holding(f)' /\ f # e
        BY <2>2, <3>1 DEF Holding
      <3>3. Holding(f) /\ enq[f].item = x
        BY <2>2, <3>1, <3>2
      <3> QED
        BY <1>0, <2>4, <3>2, <3>3 DEF OneHolder
    <2>5. EventAware(x) =>
              /\ sentinels[x] = x.id
              /\ \A w \in Worker : item[w] = x => pc[w] \notin {"item", "work"}
      BY <1>0, <1>1, <2>1, BusyProcessing DEF OneHolder, Pending, Busy
    <2>6. ASSUME NEW i \in Item, EventAware(i) PROVE Token(i)'
      <3>1. Token(i)
        BY <2>6 DEF OneToken
      <3>2. CASE i = x
        <4>1. ~Held(i)' /\ i.id <= nextEventID'
          BY <1>0, <1>1, <2>4, <2>6, <3>2
        <4>2. i \notin waiting' /\ sentinels'[i] = i.id
          BY <1>1, <2>1, <2>5, <2>6, <3>2 DEF Pending
        <4>3. \A w \in Worker : item'[w] = i => pc'[w] \notin {"item", "work"}
          BY <1>0, <2>5, <2>6, <3>2
        <4> QED
          BY <4>1, <4>2, <4>3 DEF Token
      <3>3. CASE i # x
        <4>1. Pending(i)' <=> Pending(i)
          BY <1>0, <2>1, <3>3 DEF Pending
        <4>2. i \in dirty' <=> i \in dirty
          BY <2>1, <3>3
        <4> QED
          BY <1>0, <2>1, <2>3, <3>1, <4>1, <4>2 DEF Token
      <3> QED
        BY <3>2, <3>3
    <2>7. OneHolder'
      BY <2>1, <2>2 DEF OneHolder, EventAware
    <2> QED
      BY <1>0, <2>6, <2>7 DEF OneToken, EventAware
  <1> QED
    BY <1>2, <1>3 DEF EnqueueStep

(* The retry of an item whose delay is over marks it again.                *)
LEMMA TimerToken ==
    ASSUME EventInv, NEW x \in Item, TimerFires(x)
    PROVE  OneToken' /\ OneHolder' /\ NoRequeue'
  <1> USE DEF EventInv, NoRequeue
  <1>1. /\ UNCHANGED <<sentinels, processing, nextEventID, enq, pc, item,
                      seen>>
        /\ x \in waiting /\ waiting' = waiting \ {x}
        /\ dirty' = dirty \cup {x}
    BY AddMarks DEF TimerFires, workers
  <1>2. \A i : (Held(i)' <=> Held(i)) /\ (Pending(i)' <=> Pending(i))
    BY <1>1 DEF Held, Pending
  <1>3. ASSUME NEW i \in Item, EventAware(i) PROVE Token(i)'
    <2>1. Token(i)
      BY <1>3 DEF OneToken
    <2> QED
      BY <1>1, <1>2, <2>1 DEF Token
  <1>4. OneHolder'
    BY <1>1 DEF OneHolder, Holding, EventAware
  <1> QED
    BY <1>1, <1>3, <1>4 DEF OneToken, EventAware

(* A worker takes the item, reads its payload, and then settles it for     *)
(* good or puts it aside with its payload for the retry.                   *)
LEMMA WorkerToken ==
    ASSUME ~MayRequeue, EventInv, NEW w \in Worker, WorkerStep(w)
    PROVE  OneToken' /\ OneHolder' /\ NoRequeue'
  <1> DEFINE x == item[w]
  <1> USE DEF EventInv, NoRequeue
  <1>0. /\ x \in Item /\ UNCHANGED <<enq, nextEventID>>
        /\ \A v \in Worker \ {w} : /\ pc'[v] = pc[v] /\ item'[v] = item[v]
                                   /\ seen'[v] = seen[v]
        /\ \A i : Held(i)' <=> Held(i)
    BY OtherWorkers DEF TypeOK, Held
  <1>1. pc'[w] # "requeue"
    BY DEF TypeOK, WorkerStep, WorkerTop, WorkerGet, WorkerShutdown,
       WorkerAccept, WorkerFails, WorkerForgets, WorkerRequeues, WorkerDone
  <1>2. ASSUME Busy(w), EventAware(x) PROVE ~Held(x)
    BY <1>0, <1>2, BusyProcessing DEF OneToken, Token, Pending
  <1>3. ASSUME \A i \in Item :
                  i # x \/ ~Busy(w) => sentinels'[i] = sentinels[i]
        PROVE  OneHolder'
    BY <1>0, <1>2, <1>3, HeldBy DEF OneHolder, Holding, EventAware, TypeOK
  <1>4. \A v \in Worker \ {w} : Busy(w) /\ item[v] = x =>
                                    pc[v] \notin {"item", "work"}
    BY DEF OneWorkerPerItem, Busy
  <1>5. CASE WorkerTop(w) \/ WorkerShutdown(w)
    <2>1. /\ UNCHANGED <<sentinels, dirty, processing, waiting, item, seen>>
          /\ pc'[w] \notin {"item", "work"}
      BY <1>5 DEF WorkerTop, WorkerShutdown, clientGo, TypeOK
    <2>2. \A i : Pending(i)' <=> Pending(i)
      BY <2>1 DEF Pending
    <2>3. ASSUME NEW i \in Item, EventAware(i) PROVE Token(i)'
      <3>1. Token(i)
        BY <2>3 DEF OneToken
      <3> QED
        BY <1>0, <2>1, <2>2, <3>1 DEF Token
    <2> QED
      BY <1>0, <1>1, <1>3, <2>1, <2>3 DEF OneToken, EventAware
  <1>6. CASE WorkerGet(w)
    <2> DEFINE h == Head(queue)
    <2>1. /\ dirty' = dirty \ {h} /\ processing' = processing \cup {h}
          /\ UNCHANGED <<sentinels, waiting, seen>>
          /\ pc'[w] = "item" /\ item'[w] = h /\ pc[w] = "get"
      BY <1>6 DEF WorkerGet, TypeOK
    <2>2. h \in dirty
      BY <1>6, TailRemoves DEF WorkerGet, TypeOK, QueueConsistent
    <2>3. \A i : Pending(i)' <=> Pending(i)
      BY <2>1, <2>2 DEF Pending
    <2>4. ASSUME NEW i \in Item, EventAware(i) PROVE Token(i)'
      <3>1. Token(i)
        BY <2>4 DEF OneToken
      <3>2. CASE i = h
        BY <1>0, <2>1, <2>2, <2>3, <3>1, <3>2 DEF Token
      <3>3. CASE i # h
        BY <1>0, <2>1, <2>3, <3>1, <3>3 DEF Token
      <3> QED
        BY <3>2, <3>3
    <2> QED
      BY <1>0, <1>1, <1>3, <2>1, <2>4 DEF OneToken, EventAware
  <1>7. ASSUME UNCHANGED <<dirty, processing, waiting, item>>,
               pc[w] \in {"item", "work"}, pc'[w] \notin {"item", "work"},
               \A i \in Item \ {x} : sentinels'[i] = sentinels[i]
        PROVE  OneToken' /\ OneHolder'
    <2>0. Busy(w)
      BY <1>7 DEF Busy
    <2>1. \A i : Pending(i)' <=> Pending(i)
      BY <1>7 DEF Pending
    <2>2. ASSUME NEW i \in Item, EventAware(i) PROVE Token(i)'
      <3>1. Token(i)
        BY <2>2 DEF OneToken
      <3>2. CASE i = x
        <4>1. i \notin dirty \cup waiting
          BY <1>7, <3>1, <3>2 DEF Token
        <4> QED
          BY <1>0, <1>4, <1>7, <2>0, <2>1, <3>1, <3>2, <4>1 DEF Token
      <3>3. CASE i # x
        BY <1>0, <1>7, <2>1, <3>1, <3>3 DEF Token
      <3> QED
        BY <3>2, <3>3
    <2> QED
      BY <1>3, <1>7, <2>0, <2>2 DEF OneToken, EventAware
  <1>8. CASE WorkerAccept(w)
    <2>0. /\ UNCHANGED <<dirty, processing, waiting, item>>
          /\ pc[w] = "item" /\ pc'[w] \in {"drop", "done", "work"}
      BY <1>8 DEF WorkerAccept, clientGo, TypeOK
    <2>1. CASE pc'[w] # "work"
      <3>1. \A i \in Item \ {x} : sentinels'[i] = sentinels[i]
        BY <1>0, <1>8, <2>1 DEF WorkerAccept, Forget, TypeOK
      <3> QED
        BY <1>0, <1>1, <1>7, <2>0, <2>1, <3>1
    <2>2. CASE pc'[w] = "work"
      <3>1. UNCHANGED sentinels /\ seen'[w] = sentinels[x]
        BY <1>8, <2>2 DEF WorkerAccept, TypeOK
      <3>2. \A i : Pending(i)' <=> Pending(i)
        BY <2>0 DEF Pending
      <3>3. ASSUME NEW i \in Item, EventAware(i) PROVE Token(i)'
        <4>1. Token(i)
          BY <3>3 DEF OneToken
        <4> QED
          BY <1>0, <2>0, <2>2, <3>1, <3>2, <4>1 DEF Token
      <3> QED
        BY <1>0, <1>1, <1>3, <3>1, <3>3 DEF OneToken, EventAware
    <2> QED
      BY <2>1, <2>2
  <1>9. CASE WorkerForgets(w)
    <2>1. /\ UNCHANGED <<dirty, processing, waiting, item>>
          /\ pc[w] = "work" /\ pc'[w] = "done"
          /\ \A i \in Item \ {x} : sentinels'[i] = sentinels[i]
      BY <1>0, <1>9 DEF WorkerForgets, Forget, clientGo, TypeOK
    <2> QED
      BY <1>0, <1>1, <1>7, <2>1
  <1>10. CASE WorkerFails(w)
    <2>1. /\ UNCHANGED <<sentinels, dirty, processing, item, seen>>
          /\ waiting \subseteq waiting' /\ waiting' \subseteq waiting \cup {x}
          /\ pc[w] = "work" /\ pc'[w] = "again"
      BY <1>10 DEF WorkerFails, AddAfter, TypeOK
    <2>2. Busy(w) /\ x \in processing
      BY <2>1, BusyProcessing DEF Busy
    <2>3. \A i : Pending(i)' <=> Pending(i)
      BY <2>1, <2>2 DEF Pending
    <2>4. ASSUME NEW i \in Item, EventAware(i) PROVE Token(i)'
      <3>1. Token(i)
        BY <2>4 DEF OneToken
      <3>2. CASE i = x
        <4>1. i \notin dirty /\ sentinels[i] = i.id
          BY <2>1, <3>1, <3>2 DEF Token
        <4> QED
          BY <1>0, <1>4, <2>1, <2>2, <2>3, <3>1, <3>2, <4>1 DEF Token
      <3>3. CASE i # x
        BY <1>0, <2>1, <2>3, <3>1, <3>3 DEF Token
      <3> QED
        BY <3>2, <3>3
    <2> QED
      BY <1>0, <1>1, <1>3, <2>1, <2>4 DEF OneToken, EventAware
  <1>11. CASE WorkerDone(w)
    <2>1. /\ UNCHANGED <<sentinels, dirty, waiting>>
          /\ processing' \subseteq processing
          /\ pc'[w] = "top"
      BY <1>11 DEF WorkerDone, Done, TypeOK
    <2>2. \A i : Pending(i)' => Pending(i)
      BY <2>1 DEF Pending
    <2>3. ASSUME NEW i \in Item, EventAware(i) PROVE Token(i)'
      <3>1. Token(i)
        BY <2>3 DEF OneToken
      <3> QED
        BY <1>0, <2>1, <2>2, <3>1 DEF Token
    <2> QED
      BY <1>0, <1>1, <1>3, <2>1, <2>3 DEF OneToken, EventAware
  <1>12. ~WorkerRequeues(w)
    BY DEF WorkerRequeues
  <1> QED
    BY <1>5, <1>6, <1>8, <1>9, <1>10, <1>11, <1>12 DEF WorkerStep

(* Without requeues, the reconcile gate of an event-aware item evaluates   *)
(* the payload of that very event, on the first run and on every retry.  A *)
(* requeue follows a Forget, which has released the payload.               *)
THEOREM GateIsExact == ~MayRequeue => (Spec => []GateSeesOwnEvent)
<1> SUFFICES ASSUME ~MayRequeue PROVE Spec => []GateSeesOwnEvent
  OBVIOUS
<1>1. Init => OneToken /\ OneHolder /\ NoRequeue
  <2> SUFFICES ASSUME Init
               PROVE  OneToken /\ OneHolder /\ NoRequeue
    OBVIOUS
  <2>1. \A e \in Enqueuers : ~Holding(e)
    BY DEF Init, Holding, Idle
  <2>2. \A w \in Worker : pc[w] \notin {"item", "work", "requeue"}
    BY DEF Init
  <2>3. \A i : ~Pending(i) /\ ~Held(i)
    BY <2>1 DEF Init, Pending, Held, Holding
  <2> QED
    BY <2>1, <2>2, <2>3
    DEF Init, OneToken, Token, OneHolder, Pending, NoRequeue
<1>2. ASSUME EventInv, [Next]_vars
      PROVE  OneToken' /\ OneHolder' /\ NoRequeue'
  <2> USE <1>2
  <2>1. CASE AddDrainItem
    <3>1. \A i \in Item : EventAware(i) => (i \in dirty' <=> i \in dirty)
      BY <2>1, AddMarks DEF AddDrainItem, EventAware, DrainItem
    <3> QED
      BY <2>1, <3>1, EventsRest DEF AddDrainItem, workers
  <2>2. ASSUME (\E n \in DepthLimits : SetQueueDepth(n))
               \/ Deactivate \/ DrainEnds \/ DrainTimeout
               \/ LoseLeadership \/ ShutDown \/ UNCHANGED vars
        PROVE  OneToken' /\ OneHolder' /\ NoRequeue'
    <3>1. /\ UNCHANGED <<sentinels, dirty, processing, waiting>>
          /\ UNCHANGED <<enq, nextEventID, pc, item, seen>>
      BY <2>2 DEF SetQueueDepth, Deactivate, DrainEnds, DrainTimeout,
         LoseLeadership, ShutDown, vars, clientGo, workers
    <3> QED
      BY <3>1, EventsRest
  <2>3. CASE Activate
    <3>1. \A w \in Worker : pc'[w] = pc[w] \/ pc'[w] = "top"
      BY <2>3 DEF Activate
    <3> QED
      BY <2>3, <3>1, EventsRest DEF Activate, clientGo
  <2>4. ASSUME NEW e \in Enqueuers, NEW k \in Keys, NEW kind \in Kinds,
               Enqueue(e, k, kind)
        PROVE  OneToken' /\ OneHolder' /\ NoRequeue'
    BY <2>4, EnqueueToken
  <2>5. ASSUME NEW e \in Enqueuers, EnqueueStep(e)
        PROVE  OneToken' /\ OneHolder' /\ NoRequeue'
    BY <2>5, HolderToken
  <2>6. ASSUME NEW i \in Item, TimerFires(i)
        PROVE  OneToken' /\ OneHolder' /\ NoRequeue'
    BY <2>6, TimerToken
  <2>7. ASSUME NEW w \in Worker, WorkerStep(w)
        PROVE  OneToken' /\ OneHolder' /\ NoRequeue'
    BY <2>7, WorkerToken
  <2> QED
    BY <2>1, <2>2, <2>3, <2>4, <2>5, <2>6, <2>7 DEF Next
<1>3. ASSUME TypeOK, OneToken
      PROVE  GateSeesOwnEvent
  BY <1>3 DEF TypeOK, OneToken, Token, GateSeesOwnEvent
<1> QED
  BY <1>1, <1>2, <1>3, TypeCorrect, QueueSafe, PTL DEF Spec, EventInv
=============================================================================
