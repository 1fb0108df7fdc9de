--------------------------- MODULE ObserveProofs ----------------------------
(***************************************************************************)
(* Proofs about Observe, for any resources, watched objects, owners and    *)
(* namespace rules and any number of workers, changes and faults: types    *)
(* are kept, restricted resources are never written, and no change is lost *)
(* but in the ways the history variable names.                             *)
(***************************************************************************)
EXTENDS Observe, FiniteSetTheorems, SequenceTheorems, TLAPS

Objects  == CRs \cup {Absent}
Versions == CRs \cup {Absent, Tombstone}
Takes    == [gen : Gens, status : Statuses, view : Views]
Budgets  == [changes : 0 .. MaxChanges, faults : 0 .. MaxFaults]

-----------------------------------------------------------------------------
(* The sets and flags of the factory, the loop and the queue.              *)
LoopType ==
    /\ restricted \in RuleSets /\ installed \subseteq Kinds
    /\ sec \subseteq Secondaries
    /\ registered \subseteq Kinds
    /\ flagged \subseteq registered /\ missing \subseteq registered
    /\ lister \in {"off", "listing", "synced"} /\ news \subseteq Secondaries
    /\ queue \subseteq Keys \cup {DrainSentinel}
    /\ owed \subseteq Keys

FlagType ==
    /\ up \in BOOLEAN /\ coordinated \in BOOLEAN /\ neverStarted \in BOOLEAN
    /\ active \in BOOLEAN

(* What is known of the objects.  A generation grows only at the cost of a *)
(* change.                                                                 *)
DataType ==
    /\ budget \in Budgets
    /\ cr \in [Keys -> Objects]
    /\ \A k \in Keys : cr[k] # Absent =>
          cr[k].gen + budget.changes <= MaxChanges + 1
    /\ pend \in [Keys -> Seq(Versions)]
    /\ cache \in [Keys -> Objects]
    /\ work \in [Keys -> {"none", "reading", "late"}]
    /\ got \in [Keys -> Takes \cup {Absent}]
    /\ \A k \in Keys : work[k] # "none" => got[k] \in Takes

(* A watched object names keys of this CRD only.                           *)
LEMMA RouteKeys ==
    ASSUME NEW ss \in SUBSET Secondaries PROVE Route(ss) \subseteq Keys
  <1> SUFFICES ASSUME NEW k \in Route(ss) PROVE k \in Keys
    OBVIOUS
  <1>1. PICK s \in ss \ restricted : k \in Resolve(s)
    BY DEF Route
  <1> QED
    BY <1>1, ObserveAssumption DEF Resolve

(* Every step keeps the types of the sets and the flags.                   *)
LEMMA LoopStep ==
    ASSUME LoopType, [Next]_vars PROVE LoopType'
  <1> USE DEF LoopType, cluster, loop, primary, second, pool
  <1>1. ASSUME NEW k \in Keys,
               \/ ChangeCR(k) \/ Deliver(k) \/ Relist(k) \/ Resync(k)
               \/ Take(k) \/ GhostTakes(k) \/ Finish(k) \/ Fail(k)
        PROVE  LoopType'
    <2>1. queue' \subseteq Keys \cup {DrainSentinel}
      BY <1>1 DEF ChangeCR, Deliver, Relist, Resync, Take, GhostTakes, Finish,
         Fail, Get, HandleEvent, HandleUpdate
    <2>2. owed' \subseteq Keys
      BY <1>1 DEF ChangeCR, Deliver, Relist, Resync, Take, GhostTakes, Finish,
         Fail, Lose
    <2>3. UNCHANGED <<restricted, installed, sec, registered, flagged, missing,
                      lister, news>>
      BY <1>1 DEF ChangeCR, Deliver, Relist, Resync, Take, GhostTakes, Finish,
         Fail
    <2> QED
      BY <2>1, <2>2, <2>3
  <1>2. ASSUME NEW s \in Secondaries, ChangeSecondary(s) \/ HandleWatchEvent(s)
        PROVE  LoopType'
    <2>1. Route({s}) \subseteq Keys /\ Concerned({s}) \subseteq Keys
      BY RouteKeys DEF Concerned
    <2> QED
      BY <1>2, <2>1 DEF ChangeSecondary, HandleWatchEvent, Lose
  <1>3. CASE RemovePrimary \/ RemoveSecondary
             \/ \E kind \in Kinds : Install(kind)
    BY <1>3 DEF RemovePrimary, RemoveSecondary, Install
  <1>4. CASE List
    <2>1. PICK late \in SUBSET sec :
              queue' = queue \cup Route(late) /\ Lose(Keys \ Route(late))
      BY <1>4 DEF List
    <2>2. Route(late) \subseteq Keys
      BY RouteKeys
    <2> QED
      BY <1>4, <2>1, <2>2 DEF List, Lose
  <1>5. CASE Coordinate \/ Activate
    BY <1>5 DEF Coordinate, Activate, StartWorkers, Kinds
  <1>6. CASE Detect
    BY <1>6 DEF Detect, Deactivate
  <1>7. CASE Fatal \/ TakeSentinel
    BY <1>7 DEF Fatal, TakeSentinel, Get
  <1>8. CASE Boot
    BY <1>8 DEF Boot, Kinds
  <1>9. CASE UNCHANGED vars
    BY <1>9 DEF vars
  <1> QED
    BY <1>1, <1>2, <1>3, <1>4, <1>5, <1>6, <1>7, <1>8, <1>9 DEF Next

(* The flags.                                                              *)
LEMMA FlagStep ==
    ASSUME FlagType, [Next]_vars PROVE FlagType'
  <1> USE DEF FlagType, cluster, loop, primary, second, pool
  <1>1. CASE UNCHANGED <<up, coordinated, neverStarted, active>>
    BY <1>1
  <1>2. CASE Coordinate \/ Activate
    BY <1>2 DEF Coordinate, Activate, StartWorkers
  <1>3. CASE Detect
    BY <1>3 DEF Detect, Deactivate
  <1>4. CASE Fatal
    BY <1>4 DEF Fatal
  <1>5. CASE Boot
    BY <1>5 DEF Boot
  <1> QED
    BY <1>1, <1>2, <1>3, <1>4, <1>5
    DEF Next, vars, ChangeCR, Deliver, Relist, Resync, Take, GhostTakes,
        Finish, Fail, Done, ChangeSecondary, HandleWatchEvent, RemovePrimary,
        RemoveSecondary, Install, List, TakeSentinel

-----------------------------------------------------------------------------
(* The values an object may take.                                          *)
LEMMA Values ==
    /\ MaxChanges \in Nat /\ MaxFaults \in Nat
    /\ Absent \notin CRs /\ Tombstone \notin CRs /\ Absent # Tombstone
    /\ NoStatus \in Statuses
    /\ \A v \in Specs : Fresh(v) \in CRs /\ Fresh(v).gen = 1
                        /\ Fresh(v).status = NoStatus
  <1>1. /\ MaxChanges \in Nat /\ MaxFaults \in Nat
        /\ Absent \notin CRs /\ Tombstone \notin CRs /\ Absent # Tombstone
    BY ObserveAssumption, ValuesAssumption
  <1>2. 0 \in Gens /\ 1 \in Gens
    BY <1>1 DEF Gens
  <1>3. NoStatus \in Statuses
    BY <1>2 DEF NoStatus, Statuses
  <1>4. \A v \in Specs : Fresh(v) \in CRs /\ Fresh(v).gen = 1
                        /\ Fresh(v).status = NoStatus
    BY <1>2, <1>3 DEF Fresh, CRs
  <1> QED
    BY <1>1, <1>3, <1>4

(* A bound is spent.                                                       *)
LEMMA SpendType ==
    ASSUME budget \in Budgets, NEW what \in {"changes", "faults"}, Spend(what)
    PROVE  /\ budget' \in Budgets
           /\ budget'.changes <= budget.changes
           /\ what = "changes" => budget'.changes = budget.changes - 1
           /\ what = "faults" => /\ budget'.faults = budget.faults - 1
                                 /\ budget'.changes = budget.changes
  BY Values DEF Spend, Budgets

(* A version that is told to the informer.                                 *)
LEMMA TellType ==
    ASSUME DataType, NEW k \in Keys, NEW v \in Objects, Tell(k, v),
           budget' \in Budgets, budget'.changes <= budget.changes,
           v # Absent => v.gen + budget'.changes <= MaxChanges + 1
    PROVE  /\ cr' \in [Keys -> Objects] /\ pend' \in [Keys -> Seq(Versions)]
           /\ \A q \in Keys : cr'[q] # Absent =>
                 cr'[q].gen + budget'.changes <= MaxChanges + 1
  <1>1. cr' \in [Keys -> Objects]
        /\ cr'[k] = v /\ \A q \in Keys \ {k} : cr'[q] = cr[q]
    BY DEF DataType, Tell
  <1>2. pend' \in [Keys -> Seq(Versions)]
    <2>1. pend \in [Keys -> Seq(Versions)] /\ v \in Versions
      BY DEF DataType, Objects, Versions
    <2>2. Append(pend[k], v) \in Seq(Versions)
      BY <2>1
    <2> QED
      BY <2>1, <2>2 DEF Tell
  <1>3. ASSUME NEW q \in Keys, cr'[q] # Absent
        PROVE  cr'[q].gen + budget'.changes <= MaxChanges + 1
    <2>1. CASE q = k
      BY <1>1, <1>3, <2>1
    <2>2. CASE q # k
      <3>1. cr[q] \in CRs /\ cr'[q] = cr[q]
        BY <1>1, <1>3, <2>2 DEF DataType, Objects
      <3>2. cr[q].gen \in Nat
        BY <3>1, Values DEF CRs, Gens
      <3>3. cr[q].gen + budget.changes <= MaxChanges + 1
        BY <1>3, <3>1 DEF DataType
      <3> QED
        BY <3>1, <3>2, <3>3, Values DEF DataType, Budgets
    <2> QED
      BY <2>1, <2>2
  <1> QED
    BY <1>1, <1>2, <1>3

(* An object is created, edited or deleted.                                *)
LEMMA ChangeType ==
    ASSUME DataType, NEW k \in Keys, ChangeCR(k) PROVE DataType'
  <1>0. /\ budget' \in Budgets /\ budget'.changes = budget.changes - 1
        /\ budget.changes \in 0 .. MaxChanges
        /\ budget'.changes \in 0 .. MaxChanges
    BY SpendType DEF ChangeCR, DataType, Budgets
  <1>1. ASSUME NEW v \in Objects, Tell(k, v),
               v # Absent => v.gen + budget'.changes <= MaxChanges + 1
        PROVE  DataType'
    <2>1. budget'.changes <= budget.changes
      BY <1>0, Values
    <2> QED
      BY <1>0, <1>1, <2>1, TellType DEF ChangeCR, DataType, pool
  <1>2. ASSUME NEW v \in Specs, Tell(k, Fresh(v)) PROVE DataType'
    <2>1. /\ Fresh(v) \in Objects
          /\ Fresh(v).gen + budget'.changes <= MaxChanges + 1
      BY <1>0, Values DEF Objects
    <2> QED
      BY <1>1, <1>2, <2>1
  <1>3. ASSUME NEW v \in Specs, cr[k] # Absent,
               Tell(k, [cr[k] EXCEPT !.gen = @ + 1, !.spec = v])
        PROVE  DataType'
    <2> DEFINE n == [cr[k] EXCEPT !.gen = @ + 1, !.spec = v]
    <2>1. cr[k] \in CRs /\ cr[k].gen + budget.changes <= MaxChanges + 1
      BY <1>3 DEF DataType, Objects
    <2>2. cr[k].gen \in Nat /\ n.gen = cr[k].gen + 1
      BY <2>1, Values DEF CRs, Gens
    <2>3. n.gen + budget'.changes <= MaxChanges + 1 /\ n.gen \in Gens
      <3> HIDE DEF n
      <3> QED
        BY <1>0, <2>1, <2>2, Values DEF Gens
    <2>4. n \in CRs
      BY <2>1, <2>2, <2>3 DEF CRs
    <2> QED
      BY <1>1, <1>3, <2>3, <2>4 DEF Objects
  <1>4. CASE Tell(k, Absent)
    BY <1>1, <1>4 DEF Objects
  <1> QED
    BY <1>2, <1>3, <1>4 DEF ChangeCR

(* The primary's definition is removed.                                    *)
LEMMA RemoveType ==
    ASSUME DataType, RemovePrimary PROVE DataType'
  <1>0. budget' \in Budgets
    BY SpendType DEF RemovePrimary, DataType
  <1>1. pend' \in [Keys -> Seq(Versions)]
    <2>1. \A k \in Keys : Append(pend[k], Absent) \in Seq(Versions)
      BY DEF DataType, Versions
    <2> QED
      BY <2>1 DEF RemovePrimary, DataType
  <1> QED
    BY <1>0, <1>1 DEF RemovePrimary, DataType, Objects, pool

(* A version is delivered, or the informer lists.                          *)
LEMMA DeliverType ==
    ASSUME DataType, NEW k \in Keys, Deliver(k) \/ Relist(k) PROVE DataType'
  <1>0. pend[k] \in Seq(Versions) /\ pend[k] # <<>>
    BY DEF Deliver, Relist, DataType
  <1>1. /\ Head(pend[k]) \in Versions /\ Tail(pend[k]) \in Seq(Versions)
        /\ pend[k][Len(pend[k])] \in Versions
    BY <1>0
  <1>2. CASE Deliver(k)
    <2>1. cache' \in [Keys -> Objects]
      BY <1>1, <1>2 DEF Deliver, DataType, Objects, Versions
    <2>2. pend' \in [Keys -> Seq(Versions)]
      BY <1>1, <1>2 DEF Deliver, DataType
    <2> QED
      BY <1>2, <2>1, <2>2 DEF Deliver, DataType, cluster
  <1>3. CASE Relist(k)
    <2>1. budget' \in Budgets /\ budget'.changes = budget.changes
      BY <1>3, SpendType DEF Relist, DataType
    <2>2. pend' \in [Keys -> Seq(Versions)]
      BY <1>1, <1>3 DEF Relist, DataType, Versions
    <2> QED
      BY <1>3, <2>1, <2>2 DEF Relist, DataType, pool
  <1> QED
    BY <1>2, <1>3

(* A worker reads the object and its secondaries.                          *)
LEMMA TakeType ==
    ASSUME DataType, LoopType, NEW k \in Keys, Take(k) PROVE DataType'
  <1>1. CASE Prepared(k)
    <2> DEFINE t == [gen |-> cache[k].gen, status |-> cache[k].status,
                     view |-> View(k, cache[k].spec)]
    <2>1. cache[k] \in CRs
      BY <1>1 DEF Prepared, DataType, Objects
    <2>2. View(k, cache[k].spec) \in Views
      BY <2>1 DEF View, Views, CRs, Reads
    <2>3. t \in Takes
      BY <2>1, <2>2 DEF Takes, CRs
    <2>4. /\ got' = [got EXCEPT ![k] = t]
          /\ work' = [work EXCEPT ![k] = "reading"]
          /\ UNCHANGED <<budget, cr, pend, cache>>
      BY <1>1 DEF Take, cluster, primary
    <2> HIDE DEF t
    <2> QED
      BY <2>3, <2>4 DEF DataType
  <1>2. CASE ~Prepared(k)
    BY <1>2 DEF Take, DataType, cluster, primary
  <1> QED
    BY <1>1, <1>2

(* A status is written.                                                    *)
LEMMA PatchType ==
    ASSUME DataType, NEW k \in Keys, NEW status \in Statuses,
           PatchStatus(k, status),
           budget' \in Budgets, budget'.changes = budget.changes
    PROVE  /\ cr' \in [Keys -> Objects] /\ pend' \in [Keys -> Seq(Versions)]
           /\ \A q \in Keys : cr'[q] # Absent =>
                 cr'[q].gen + budget'.changes <= MaxChanges + 1
  <1>1. CASE UNCHANGED <<cr, pend>>
    BY <1>1 DEF DataType
  <1>2. CASE cr[k] # Absent /\ Tell(k, [cr[k] EXCEPT !.status = status])
    <2> DEFINE n == [cr[k] EXCEPT !.status = status]
    <2>1. cr[k] \in CRs /\ cr[k].gen + budget.changes <= MaxChanges + 1
      BY <1>2 DEF DataType, Objects
    <2>2. n \in Objects /\ n.gen = cr[k].gen
      BY <2>1 DEF CRs, Objects
    <2>3. budget'.changes <= budget.changes
      BY Values DEF Budgets, DataType
    <2> QED
      BY <1>2, <2>1, <2>2, <2>3, TellType
  <1> QED
    BY <1>1, <1>2 DEF PatchStatus

(* A reconcile ends.                                                       *)
LEMMA FinishType ==
    ASSUME DataType, NEW k \in Keys, Finish(k) \/ Fail(k) PROVE DataType'
  <1>0. got[k] \in Takes /\ Done(k) /\ cache' = cache
    BY DEF Finish, Fail, Reconciling, DataType
  <1>1. /\ work' \in [Keys -> {"none", "reading", "late"}]
        /\ got' \in [Keys -> Takes \cup {Absent}]
        /\ \A q \in Keys : work'[q] # "none" => got'[q] \in Takes
    BY <1>0 DEF Done, DataType
  <1>2. Success(k) \in Statuses
    BY <1>0 DEF Success, Statuses, Takes
  <1>3. cr[k] # Absent => Failure(k) \in Statuses
    BY <1>0 DEF Failure, Statuses, Takes, DataType, Objects, CRs
  <1>4. budget' \in Budgets /\ budget'.changes = budget.changes
    BY SpendType DEF Finish, Fail, DataType
  <1>5. CASE UNCHANGED <<cr, pend>>
    BY <1>0, <1>1, <1>4, <1>5 DEF DataType
  <1>6. ASSUME NEW status \in Statuses, PatchStatus(k, status)
        PROVE  DataType'
    BY <1>0, <1>1, <1>4, <1>6, PatchType DEF DataType
  <1> QED
    BY <1>2, <1>3, <1>5, <1>6 DEF Finish, Fail

(* What the informer starts with.                                          *)
LEMMA ListedType ==
    ASSUME DataType PROVE Listed \in [Keys -> Seq(Versions)]
  <1>1. \A k \in Keys : <<cr[k]>> \in Seq(Versions) /\ <<>> \in Seq(Versions)
    BY DEF DataType, Objects, Versions
  <1> QED
    BY <1>1 DEF Listed

(* Every step keeps the types of the objects.                              *)
LEMMA DataStep ==
    ASSUME DataType, LoopType, [Next]_vars PROVE DataType'
  <1> USE DEF cluster, loop, primary, second, pool
  <1>1. ASSUME NEW s \in Secondaries, ChangeSecondary(s) PROVE DataType'
    <2>1. /\ budget' \in Budgets /\ budget'.changes <= budget.changes
          /\ budget'.changes \in Int /\ budget.changes \in Int
      BY <1>1, SpendType DEF ChangeSecondary, DataType, Budgets
    <2>2. \A k \in Keys : cr[k] # Absent => cr[k].gen \in Int
      BY Values DEF DataType, Objects, CRs, Gens
    <2> QED
      BY <1>1, <2>1, <2>2, Values DEF ChangeSecondary, DataType
  <1>2. CASE RemoveSecondary
    <2>1. budget' \in Budgets /\ budget'.changes = budget.changes
      BY <1>2, SpendType DEF RemoveSecondary, DataType
    <2> QED
      BY <1>2, <2>1 DEF RemoveSecondary, DataType
  <1>3. CASE Detect
    BY <1>3 DEF Detect, Deactivate, DataType
  <1>4. CASE Activate
    BY <1>4, ListedType DEF Activate, DataType
  <1>5. CASE Boot
    BY <1>5, ListedType DEF Boot, DataType, Objects
  <1>6. CASE UNCHANGED <<budget, cr, pend, cache, work, got>>
    BY <1>6 DEF DataType
  <1>7. ASSUME NEW k \in Keys,
               \/ ChangeCR(k) \/ Deliver(k) \/ Relist(k) \/ Take(k)
               \/ Finish(k) \/ Fail(k)
        PROVE  DataType'
    BY <1>7, ChangeType, DeliverType, TakeType, FinishType
  <1>8. CASE RemovePrimary
    BY <1>8, RemoveType
  <1> QED
    BY <1>1, <1>2, <1>3, <1>4, <1>5, <1>6, <1>7, <1>8
    DEF Next, vars, Resync, GhostTakes, HandleWatchEvent, Install, List,
        Coordinate, Fatal, TakeSentinel

-----------------------------------------------------------------------------
(* The workers of the pool: waiting in Get, or in a reconcile.             *)
Reading == {k \in Keys : work[k] = "reading"}

(* A removal of the primary's definition that the loop has not seen.       *)
Unseen == IF Primary \notin installed /\ Primary \in registered \ flagged
          THEN 1 ELSE 0

(* Nobody leaves the pool unnoticed, and each time a pool is cancelled a   *)
(* removal of the definition has paid for it.                              *)
PoolType ==
    /\ free \in Nat /\ ghosts \in Nat
    /\ IsFiniteSet(Reading)
    /\ active => free + Cardinality(Reading) = Workers
    /\ ~active => free = 0 /\ Reading = {}
    /\ active => coordinated /\ Primary \notin missing
    /\ ghosts + Workers * (budget.faults + Unseen) <= Workers * MaxFaults

(* A fault that is not a removal.                                          *)
LEMMA LessFaults ==
    ASSUME NEW n \in Nat, NEW m \in Nat, n <= m
    PROVE  Workers * n <= Workers * m
  <1>1. Workers \in Nat
    BY ObserveAssumption
  <1>2. Workers * m = Workers * n + Workers * (m - n)
    BY <1>1
  <1>3. m - n \in Nat
    OBVIOUS
  <1>4. Workers * (m - n) \in Nat /\ Workers * n \in Nat
    BY <1>1, <1>3
  <1> QED
    BY <1>2, <1>4

(* A step that leaves the pool alone, and may use up a fault or make a     *)
(* removal seen.                                                           *)
LEMMA PoolRests ==
    ASSUME PoolType, budget \in Budgets, budget' \in Budgets,
           budget'.faults + Unseen' <= budget.faults + Unseen,
           UNCHANGED <<free, ghosts, work, active>>,
           active => coordinated' /\ Primary \notin missing'
    PROVE  PoolType'
  <1>1. Reading' = Reading
    BY DEF Reading
  <1>2. /\ budget'.faults + Unseen' \in Nat /\ budget.faults + Unseen \in Nat
        /\ Workers \in Nat /\ MaxFaults \in Nat
    BY Values, ObserveAssumption DEF Budgets, Unseen
  <1>3. Workers * (budget'.faults + Unseen')
          <= Workers * (budget.faults + Unseen)
    BY <1>2, LessFaults
  <1> DEFINE x == Workers * (budget'.faults + Unseen')
             y == Workers * (budget.faults + Unseen)
             z == Workers * MaxFaults
  <1>4. x \in Nat /\ y \in Nat /\ z \in Nat
    BY <1>2
  <1>5. ghosts' + x <= z
    <2>1. ghosts + y <= z /\ x <= y /\ ghosts' = ghosts /\ ghosts \in Nat
      BY <1>3 DEF PoolType
    <2> HIDE DEF x, y, z
    <2> QED
      BY <1>4, <2>1
  <1> QED
    BY <1>1, <1>5 DEF PoolType

(* Where the ghosts come from is accounted for whatever the pool does.     *)
GhostsPaid ==
    ghosts + Workers * (budget.faults + Unseen) <= Workers * MaxFaults

(* A worker enters or leaves a reconcile, or a ghost ends.                 *)
LEMMA WorkerPool ==
    ASSUME PoolType, LoopType, DataType, FlagType, NEW k \in Keys,
           Take(k) \/ Finish(k) \/ Fail(k) \/ GhostTakes(k)
    PROVE  PoolType'
  <1> USE DEF cluster, loop, primary, second, pool
  <1>0. /\ UNCHANGED <<installed, registered, flagged, missing, coordinated,
                       active>>
        /\ Unseen' = Unseen /\ Unseen \in Nat
        /\ budget \in Budgets /\ budget' \in Budgets
        /\ Workers \in Nat /\ MaxFaults \in Nat
    <2>1. budget \in Budgets /\ Workers \in Nat /\ MaxFaults \in Nat
      BY ObserveAssumption DEF DataType
    <2>2. /\ UNCHANGED <<installed, registered, flagged, missing, coordinated,
                         active>>
          /\ budget' \in Budgets
      BY <2>1, SpendType DEF Take, Finish, Fail, GhostTakes
    <2> QED
      BY <2>1, <2>2 DEF Unseen
  <1>1. ghosts' \in Nat /\ ghosts' <= ghosts /\ budget'.faults <= budget.faults
    <2>1. ghosts' \in Nat /\ ghosts' <= ghosts
      BY DEF Take, Finish, Fail, GhostTakes, PoolType
    <2>2. budget.faults \in Nat /\ budget'.faults \in Nat
      BY <1>0 DEF Budgets
    <2>3. budget' = budget \/ Spend("faults")
      BY DEF Take, Finish, Fail, GhostTakes
    <2> QED
      BY <1>0, <2>1, <2>2, <2>3, SpendType
  <1>2. GhostsPaid'
    <2> DEFINE x == Workers * (budget'.faults + Unseen')
               y == Workers * (budget.faults + Unseen)
               z == Workers * MaxFaults
    <2>1. /\ budget'.faults + Unseen' \in Nat /\ budget.faults + Unseen \in Nat
          /\ budget'.faults + Unseen' <= budget.faults + Unseen
      BY <1>0, <1>1 DEF Budgets
    <2>2. x <= y /\ x \in Nat /\ y \in Nat /\ z \in Nat
      BY <1>0, <2>1, LessFaults
    <2>3. /\ ghosts + y <= z /\ ghosts \in Nat
          /\ ghosts' \in Nat /\ ghosts' <= ghosts
      BY <1>1 DEF PoolType
    <2>4. ghosts' + x <= z
      <3>1. \A a, b, c, d, e \in Nat :
                a <= b /\ c <= d /\ b + d <= e => a + c <= e
        OBVIOUS
      <3> HIDE DEF x, y, z
      <3> QED
        BY <2>2, <2>3, <3>1
    <2> QED
      BY <2>4 DEF GhostsPaid
  <1>3. /\ free' \in Nat /\ IsFiniteSet(Reading')
        /\ active => free' + Cardinality(Reading') = Workers
        /\ ~active => free' = 0 /\ Reading' = {}
    <2>0. Cardinality(Reading) \in Nat
      BY FS_CardinalityType DEF PoolType
    <2>1. CASE Take(k) /\ Prepared(k)
      <3>1. Reading' = Reading \cup {k} /\ k \notin Reading
        BY <2>1 DEF Take, Reading, DataType
      <3>2. /\ IsFiniteSet(Reading')
            /\ Cardinality(Reading') = Cardinality(Reading) + 1
        BY <3>1, FS_AddElement DEF PoolType
      <3> QED
        BY <2>0, <2>1, <3>2 DEF Take, PoolType
    <2>2. CASE (Finish(k) \/ Fail(k)) /\ work[k] = "reading"
      <3>1. Reading' = Reading \ {k} /\ k \in Reading /\ free' = free + 1
        BY <2>2 DEF Finish, Fail, Done, Reading, DataType
      <3>2. /\ IsFiniteSet(Reading')
            /\ Cardinality(Reading') = Cardinality(Reading) - 1
        BY <3>1, FS_RemoveElement DEF PoolType
      <3>3. active
        BY <3>1 DEF PoolType
      <3> QED
        BY <2>0, <3>1, <3>2, <3>3 DEF PoolType
    <2>3. CASE \/ Take(k) /\ ~Prepared(k)
               \/ GhostTakes(k)
               \/ (Finish(k) \/ Fail(k)) /\ work[k] # "reading"
      <3>1. Reading' = Reading /\ free' = free
        BY <2>3 DEF Take, GhostTakes, Finish, Fail, Done, Reading, DataType
      <3> QED
        BY <3>1 DEF PoolType
    <2> QED
      BY <2>1, <2>2, <2>3
  <1> QED
    BY <1>0, <1>1, <1>2, <1>3 DEF PoolType, GhostsPaid

(* The loop starts or cancels a pool.                                      *)
LEMMA LoopPool ==
    ASSUME PoolType, LoopType, DataType, FlagType,
           Coordinate \/ Detect \/ Activate \/ Boot
    PROVE  PoolType'
  <1> USE DEF cluster, loop, primary, second, pool
  <1>0. /\ budget' = budget /\ budget \in Budgets /\ budget.faults \in Nat
        /\ budget.faults <= MaxFaults
        /\ Workers \in Nat /\ MaxFaults \in Nat /\ Unseen \in {0, 1}
    BY ObserveAssumption
    DEF DataType, Budgets, Unseen, Coordinate, Detect, Activate, Boot
  <1>1. /\ Workers * budget.faults \in Nat /\ Workers * MaxFaults \in Nat
        /\ Workers * budget.faults <= Workers * MaxFaults
        /\ budget.faults + 0 = budget.faults
        /\ Workers * (budget.faults + 1) = Workers * budget.faults + Workers
    BY <1>0, LessFaults
  <1>2. CASE Coordinate
    <2>1. Unseen' = Unseen
      BY <1>2 DEF Coordinate, StartWorkers, Unseen, Primary, Secondary
    <2>2. CASE Primary \in missing
      BY <1>0, <1>2, <2>1, <2>2, PoolRests DEF Coordinate, PoolType
    <2>3. CASE Primary \notin missing
      <3>1. /\ active' = TRUE /\ free' = Workers /\ work' = work
            /\ missing' = missing /\ coordinated' = TRUE
            /\ ghosts' = ghosts
        BY <1>2, <2>3 DEF Coordinate, StartWorkers
      <3>2. Reading' = Reading /\ Reading = {}
        BY <1>2, <3>1 DEF Coordinate, PoolType, Reading, FlagType
      <3> QED
        BY <1>0, <2>1, <2>3, <3>1, <3>2, FS_EmptySet DEF PoolType
    <2> QED
      BY <2>2, <2>3
  <1>3. CASE Activate
    <2>1. Unseen' = 0
      BY <1>3 DEF Activate, Unseen
    <2>2. /\ active' = TRUE /\ free' = Workers /\ work' = work
          /\ missing' = missing \ {Primary} /\ coordinated'
          /\ ghosts' = ghosts
      BY <1>3 DEF Activate, StartWorkers
    <2>3. Reading' = Reading /\ Reading = {}
      BY <1>3, <2>2 DEF Activate, PoolType, Reading, FlagType
    <2>4. GhostsPaid'
      BY <1>0, <1>1, <2>1, <2>2 DEF PoolType, GhostsPaid
    <2> QED
      BY <1>0, <2>2, <2>3, <2>4, FS_EmptySet DEF PoolType, GhostsPaid
  <1>4. CASE Boot
    <2>1. Unseen' = 0
      BY <1>4 DEF Boot, Unseen
    <2>2. Reading' = {} /\ ~active' /\ free' = 0 /\ ghosts' = 0
      BY <1>4 DEF Boot, Reading
    <2> QED
      BY <1>0, <1>1, <2>1, <2>2, FS_EmptySet DEF PoolType
  <1>5. CASE Detect
    <2> DEFINE gone == (registered \ flagged) \ installed
    <2>1. CASE Primary \notin gone
      <3>1. Unseen' = Unseen
        BY <1>5, <2>1 DEF Detect, Unseen
      <3>2. /\ UNCHANGED <<free, ghosts, work, active, coordinated>>
            /\ Primary \notin missing'
        BY <1>5, <2>1 DEF Detect
      <3> QED
        BY <1>0, <3>1, <3>2, PoolRests DEF PoolType
    <2>2. CASE Primary \in gone
      <3>1. Unseen = 1 /\ Unseen' = 0
        BY <1>5, <2>2 DEF Detect, Unseen
      <3>2. active' = FALSE /\ free' = 0 /\ ghosts' = ghosts + free
            /\ Reading' = {}
        BY <1>5, <2>2 DEF Detect, Deactivate, Reading, DataType
      <3>3. free \in Nat /\ free <= Workers /\ ghosts \in Nat
        <4>1. Cardinality(Reading) \in Nat
          BY FS_CardinalityType DEF PoolType
        <4> QED
          BY <1>0, <4>1 DEF PoolType, FlagType
      <3>4. ghosts + (Workers * budget.faults + Workers) <= Workers * MaxFaults
        BY <1>1, <3>1 DEF PoolType
      <3>5. GhostsPaid'
        BY <1>0, <1>1, <3>1, <3>2, <3>3, <3>4 DEF GhostsPaid
      <3> QED
        BY <3>2, <3>3, <3>5, FS_EmptySet DEF PoolType, GhostsPaid
    <2> QED
      BY <2>1, <2>2
  <1> QED
    BY <1>2, <1>3, <1>4, <1>5

(* Every step keeps the account of the workers.                            *)
LEMMA PoolStep ==
    ASSUME PoolType, LoopType, DataType, FlagType, [Next]_vars
    PROVE  PoolType'
  <1> USE DEF cluster, loop, primary, second, pool
  <1>0. /\ budget \in Budgets /\ budget.faults \in Nat
        /\ Workers \in Nat /\ MaxFaults \in Nat /\ Unseen \in {0, 1}
    BY ObserveAssumption DEF DataType, Budgets, Unseen
  <1>1. ASSUME \/ \E k \in Keys : ChangeCR(k) \/ Deliver(k) \/ Relist(k)
                                  \/ Resync(k)
               \/ \E s \in Secondaries : \/ ChangeSecondary(s)
                                         \/ HandleWatchEvent(s)
               \/ RemovePrimary \/ RemoveSecondary
               \/ \E kind \in Kinds : Install(kind)
               \/ List \/ Fatal \/ UNCHANGED vars
        PROVE  PoolType'
    <2>1. /\ UNCHANGED <<free, ghosts, work, active, registered, flagged>>
          /\ UNCHANGED <<coordinated, missing>>
      BY <1>1 DEF ChangeCR, Deliver, Relist, Resync, ChangeSecondary,
         HandleWatchEvent, RemovePrimary, RemoveSecondary, Install, List,
         Fatal, vars
    <2>2. budget' = budget \/ Spend("changes") \/ Spend("faults")
      BY <1>1 DEF ChangeCR, Deliver, Relist, Resync, ChangeSecondary,
         HandleWatchEvent, RemovePrimary, RemoveSecondary, Install, List,
         Fatal, vars
    <2>3. budget' \in Budgets /\ budget'.faults \in Nat
          /\ budget'.faults <= budget.faults
      <3>1. Spend("changes") => budget'.faults = budget.faults
        BY <1>0 DEF Spend, Budgets
      <3>2. budget' \in Budgets
        BY <1>0, <2>2, SpendType
      <3> QED
        BY <1>0, <2>2, <3>1, <3>2, SpendType DEF Budgets
    <2>4. budget'.faults + Unseen' <= budget.faults + Unseen
      <3>1. CASE RemovePrimary
        <4>1. Unseen = 0 /\ Unseen' \in {0, 1}
          BY <3>1 DEF RemovePrimary, Unseen
        <4>2. budget'.faults = budget.faults - 1
          BY <1>0, <3>1, SpendType DEF RemovePrimary
        <4> QED
          BY <1>0, <4>1, <4>2
      <3>2. CASE ~RemovePrimary
        <4>1. Primary \in installed => Primary \in installed'
          BY <1>1, <3>2 DEF ChangeCR, Deliver, Relist, Resync,
             ChangeSecondary, HandleWatchEvent, RemoveSecondary, Install,
             List, Fatal, vars, Primary, Secondary
        <4>2. Unseen' \in {0, 1} /\ Unseen' <= Unseen
          BY <2>1, <4>1 DEF Unseen
        <4> QED
          BY <1>0, <2>3, <4>2
      <3> QED
        BY <3>1, <3>2
    <2> QED
      BY <1>0, <2>1, <2>3, <2>4, PoolRests DEF PoolType
  <1>2. CASE TakeSentinel
    <2>1. /\ UNCHANGED <<free, work, active, coordinated, missing, budget>>
          /\ Unseen' = Unseen /\ Reading' = Reading
          /\ ghosts' \in Nat /\ ghosts' <= ghosts
      BY <1>2 DEF TakeSentinel, Unseen, Reading, PoolType
    <2>2. /\ Workers * (budget.faults + Unseen) \in Nat
          /\ Workers * MaxFaults \in Nat
      BY <1>0
    <2> QED
      BY <2>1, <2>2 DEF PoolType
  <1>3. CASE Coordinate \/ Detect \/ Activate \/ Boot
    BY <1>3, LoopPool
  <1>4. ASSUME NEW k \in Keys,
               Take(k) \/ Finish(k) \/ Fail(k) \/ GhostTakes(k)
        PROVE  PoolType'
    BY <1>4, WorkerPool
  <1> QED
    BY <1>1, <1>2, <1>3, <1>4 DEF Next

(* The types together.                                                     *)
Types == LoopType /\ FlagType /\ DataType /\ PoolType

(* They hold in every reachable state.                                     *)
LEMMA TypesHold == Spec => []Types
<1>1. Init => Types
  <2> SUFFICES ASSUME Init PROVE Types
    OBVIOUS
  <2>1. LoopType
    BY DEF Init, LoopType, Kinds
  <2>2. FlagType
    BY DEF Init, FlagType
  <2>3. DataType
    <3> DEFINE f == Fresh(CHOOSE v \in Specs : TRUE)
    <3>1. f \in CRs /\ f.gen = 1
      BY Values, ValuesAssumption
    <3>2. cr \in [Keys -> Objects]
          /\ \A k \in Keys : cr[k] # Absent => cr[k].gen = 1
      <4>1. cr \in [Keys -> {Absent, f}]
        BY DEF Init
      <4> HIDE DEF f
      <4> QED
        BY <3>1, <4>1 DEF Objects
    <3>3. budget \in Budgets /\ budget.changes = MaxChanges
      BY Values DEF Init, Budgets
    <3>4. \A k \in Keys : cr[k] # Absent =>
              cr[k].gen + budget.changes <= MaxChanges + 1
      BY <3>2, <3>3, Values
    <3>5. pend \in [Keys -> Seq(Versions)]
      <4>1. \A k \in Keys : <<cr[k]>> \in Seq(Versions)
                           /\ <<>> \in Seq(Versions)
        BY <3>2 DEF Objects, Versions
      <4> QED
        BY <4>1 DEF Init, Listed
    <3> QED
      BY <3>2, <3>3, <3>4, <3>5 DEF Init, DataType, Objects
  <2>4. PoolType
    <3>1. Reading = {} /\ Unseen = 0 /\ budget.faults = MaxFaults
      BY DEF Init, Reading, Unseen
    <3>2. Workers \in Nat /\ MaxFaults + 0 = MaxFaults
          /\ Workers * MaxFaults \in Nat
      BY ObserveAssumption
    <3> QED
      BY <3>1, <3>2, FS_EmptySet DEF Init, PoolType
  <2> QED
    BY <2>1, <2>2, <2>3, <2>4 DEF Types
<1>2. Types /\ [Next]_vars => Types'
  BY LoopStep, FlagStep, DataStep, PoolStep DEF Types
<1> QED
  BY <1>1, <1>2, PTL DEF Spec

(* The state of the factory, the informers, the retry loop and the pool    *)
(* keeps its types.  Generations stay within the changes made, the workers *)
(* waiting in Get within the pool, and the workers that a deactivation     *)
(* leaves in Get within a pool for each removal of the definition.         *)
THEOREM TypeCorrect == Spec => []TypeOK
<1>1. Types => TypeOK
  <2> SUFFICES ASSUME Types PROVE TypeOK
    OBVIOUS
  <2>1. free \in 0 .. Workers /\ (active \/ free = 0)
    <3>1. Cardinality(Reading) \in Nat /\ Workers \in Nat
      BY ObserveAssumption, FS_CardinalityType DEF Types, PoolType
    <3> QED
      BY <3>1 DEF Types, PoolType, FlagType
  <2>2. ghosts \in 0 .. Workers * MaxFaults
    <3>1. /\ Workers * (budget.faults + Unseen) \in Nat
          /\ Workers * MaxFaults \in Nat
      BY ObserveAssumption DEF Types, DataType, Budgets, Unseen
    <3> QED
      BY <3>1 DEF Types, PoolType
  <2> QED
    BY <2>1, <2>2
    DEF Types, LoopType, FlagType, DataType, TypeOK, Objects, Versions, Takes,
        Budgets
<1> QED
  BY <1>1, TypesHold, PTL

-----------------------------------------------------------------------------
(* A restricted resource is in nobody's hands, and nobody has written it.  *)
HandsOff ==
    \A k \in Keys \cap restricted :
        /\ work[k] = "none"
        /\ cr[k] # Absent => cr[k].status = NoStatus

(* Only a worker writes a status, and Prepare lets none have the resource. *)
LEMMA HandsOffStep ==
    ASSUME Types, HandsOff, [Next]_vars PROVE HandsOff'
  <1> USE DEF cluster, loop, primary, second, pool
  <1>0. restricted' = restricted
    BY DEF Next, ChangeCR, Deliver, Relist, Resync, Take, GhostTakes, Finish,
       Fail, ChangeSecondary, HandleWatchEvent, RemovePrimary,
       RemoveSecondary, Install, List, Coordinate, Detect, Activate, Fatal,
       Boot, TakeSentinel, vars
  <1> SUFFICES ASSUME NEW q \in Keys \cap restricted
               PROVE  /\ work'[q] = "none"
                      /\ cr'[q] # Absent => cr'[q].status = NoStatus
    BY <1>0 DEF HandsOff
  <1>1. /\ work[q] = "none"
        /\ cr[q] # Absent => cr[q].status = NoStatus /\ cr[q] \in CRs
    BY DEF HandsOff, Types, DataType, Objects
  <1>2. ASSUME NEW k \in Keys, ChangeCR(k)
        PROVE  /\ work'[q] = "none"
               /\ cr'[q] # Absent => cr'[q].status = NoStatus
    <2>1. work' = work
      BY <1>2 DEF ChangeCR
    <2>2. CASE q # k
      <3>1. cr'[q] = cr[q]
        BY <1>2, <2>2 DEF ChangeCR, Tell, Types, DataType
      <3> QED
        BY <1>1, <2>1, <3>1
    <2>3. CASE q = k
      <3>1. \A v : Tell(k, v) => cr'[k] = v
        BY DEF Tell, Types, DataType
      <3>2. cr[k] # Absent => \A v \in Specs :
                [cr[k] EXCEPT !.gen = @ + 1, !.spec = v].status = NoStatus
        BY <1>1, <2>3 DEF CRs
      <3> QED
        BY <1>1, <1>2, <2>1, <2>3, <3>1, <3>2, Values DEF ChangeCR
    <2> QED
      BY <2>2, <2>3
  <1>3. ASSUME NEW k \in Keys, Take(k)
        PROVE  work'[q] = "none" /\ cr' = cr
    BY <1>1, <1>3 DEF Take, Prepared, Types, DataType
  <1>4. ASSUME NEW k \in Keys, Finish(k) \/ Fail(k)
        PROVE  work'[q] = "none" /\ cr'[q] = cr[q]
    <2>1. q # k
      BY <1>1, <1>4 DEF Finish, Fail, Reconciling
    <2> QED
      BY <1>1, <1>4, <2>1
      DEF Finish, Fail, Done, PatchStatus, Tell, Types, DataType
  <1>5. CASE RemovePrimary
    BY <1>1, <1>5 DEF RemovePrimary
  <1>6. CASE Detect
    BY <1>1, <1>6 DEF Detect, Deactivate
  <1>7. CASE Boot
    BY <1>1, <1>7 DEF Boot
  <1>8. CASE UNCHANGED <<work, cr>>
    BY <1>1, <1>8
  <1> QED
    BY <1>1, <1>2, <1>3, <1>4, <1>5, <1>6, <1>7, <1>8
    DEF Next, vars, Deliver, Relist, Resync, GhostTakes, ChangeSecondary,
        HandleWatchEvent, RemoveSecondary, Install, List, Coordinate,
        Activate, StartWorkers, Fatal, TakeSentinel

(* However a restricted resource comes into the queue, its status is never *)
(* written.                                                                *)
THEOREM RestrictedNeverWritten == Spec => []RestrictedUntouched
<1>1. Init => HandsOff
  <2> SUFFICES ASSUME Init, NEW k \in Keys \cap restricted
               PROVE  /\ work[k] = "none"
                      /\ cr[k] # Absent => cr[k].status = NoStatus
    BY DEF HandsOff
  <2> DEFINE f == Fresh(CHOOSE v \in Specs : TRUE)
  <2>1. f.status = NoStatus
    BY DEF Fresh
  <2>2. cr \in [Keys -> {Absent, f}]
    BY DEF Init
  <2> HIDE DEF f
  <2> QED
    BY <2>1, <2>2 DEF Init
<1>2. Types /\ HandsOff /\ [Next]_vars => HandsOff'
  BY HandsOffStep
<1>3. HandsOff => RestrictedUntouched
  BY DEF HandsOff, RestrictedUntouched
<1> QED
  BY <1>1, <1>2, <1>3, TypesHold, PTL DEF Spec

-----------------------------------------------------------------------------
(* What a store holds once a watch has delivered everything.               *)
Final(store, versions) ==
    IF versions = <<>> THEN store
    ELSE LET last == versions[Len(versions)]
         IN  IF last = Tombstone THEN Absent ELSE last

(* Before the informer is started, its definition is missing and nothing   *)
(* runs.                                                                   *)
Unstarted ==
    neverStarted =>
        /\ registered = {Primary} /\ Primary \in flagged \cap missing
        /\ lister = "off"
        /\ \A k \in Keys : cache[k] = Absent

(* The primary informer ends up with what the cluster has.                 *)
Linked ==
    up /\ ~neverStarted => \A k \in Keys : Final(cache[k], pend[k]) = cr[k]

(* A version more.                                                         *)
LEMMA FinalAppend ==
    ASSUME NEW store, NEW s \in Seq(Versions), NEW v \in Objects
    PROVE  Append(s, v) # <<>> /\ Final(store, Append(s, v)) = v
  <1>1. v \in Versions /\ v # Tombstone
    BY Values DEF Objects, Versions
  <1>2. Append(s, v) # <<>> /\ Append(s, v)[Len(Append(s, v))] = v
    BY <1>1
  <1> QED
    BY <1>1, <1>2 DEF Final

(* A version delivered.                                                    *)
LEMMA FinalTail ==
    ASSUME NEW store, NEW s \in Seq(Versions), s # <<>>
    PROVE  Final(IF Head(s) \in {Absent, Tombstone} THEN Absent ELSE Head(s),
                 Tail(s))
             = Final(store, s)
  <1>1. /\ Len(s) \in Nat \ {0} /\ Head(s) = s[1]
        /\ Tail(s) \in Seq(Versions) /\ Len(Tail(s)) = Len(s) - 1
        /\ \A i \in 1 .. Len(Tail(s)) : Tail(s)[i] = s[i + 1]
    BY EmptySeq, HeadTailProperties
  <1>2. Tail(s) = <<>> <=> Len(Tail(s)) = 0
    BY <1>1, EmptySeq
  <1>3. CASE Len(s) = 1
    <2>1. Tail(s) = <<>>
      <3>1. Len(Tail(s)) = 0
        BY <1>1, <1>3
      <3> QED
        BY <1>1, <1>2, <3>1
    <2>2. s[Len(s)] = Head(s)
      BY <1>1, <1>3
    <2> QED
      BY <2>1, <2>2 DEF Final
  <1>4. CASE Len(s) # 1
    <2>1. Tail(s) # <<>> /\ Tail(s)[Len(Tail(s))] = s[Len(s)]
      <3>1. Len(Tail(s)) \in 1 .. Len(Tail(s)) /\ Len(Tail(s)) + 1 = Len(s)
        BY <1>1, <1>4
      <3>2. Tail(s) # <<>>
        BY <1>1, <1>2, <3>1
      <3>3. Tail(s)[Len(Tail(s))] = s[Len(Tail(s)) + 1]
        BY <1>1, <1>2, <3>1
      <3> QED
        BY <3>1, <3>2, <3>3
    <2> QED
      BY <2>1 DEF Final
  <1> QED
    BY <1>3, <1>4

(* One version, or none, to deliver.                                       *)
LEMMA FinalOne ==
    ASSUME NEW store, NEW v
    PROVE  /\ <<v>> # <<>>
           /\ Final(store, <<v>>) = IF v = Tombstone THEN Absent ELSE v
           /\ Final(store, <<>>) = store
  BY DEF Final

(* The loop finds nothing to do for a kind that never started.             *)
LEMMA UnstartedStep ==
    ASSUME Types, Unstarted, [Next]_vars PROVE Unstarted'
  <1> USE DEF cluster, loop, primary, second, pool
  <1> SUFFICES ASSUME neverStarted'
               PROVE  /\ registered' = {Primary}
                      /\ Primary \in flagged' \cap missing'
                      /\ lister' = "off"
                      /\ \A k \in Keys : cache'[k] = Absent
    BY DEF Unstarted
  <1>1. CASE Boot
    BY <1>1 DEF Boot
  <1>2. CASE Activate
    BY <1>2 DEF Activate
  <1>3. CASE Coordinate
    BY <1>3 DEF Coordinate, Unstarted
  <1>4. CASE Detect
    BY <1>4 DEF Detect, Unstarted
  <1>5. CASE List \/ \E k \in Keys : Deliver(k)
    BY <1>5 DEF List, Deliver, Unstarted
  <1>6. CASE UNCHANGED <<neverStarted, registered, flagged, missing, lister,
                         cache>>
    BY <1>6 DEF Unstarted
  <1> QED
    BY <1>1, <1>2, <1>3, <1>4, <1>5, <1>6
    DEF Next, vars, ChangeCR, Relist, Resync, Take, GhostTakes, Finish, Fail,
        ChangeSecondary, HandleWatchEvent, RemovePrimary, RemoveSecondary,
        Install, Fatal, TakeSentinel

(* A version that is written is told.                                      *)
LEMMA TellLinks ==
    ASSUME Types, Linked, NEW k \in Keys, NEW v \in Objects, Tell(k, v),
           UNCHANGED <<up, neverStarted, cache>>
    PROVE  Linked'
  <1> SUFFICES ASSUME up, ~neverStarted, NEW q \in Keys
               PROVE  Final(cache[q], pend'[q]) = cr'[q]
    BY DEF Linked
  <1>0. pend \in [Keys -> Seq(Versions)] /\ cr \in [Keys -> Objects]
    BY DEF Types, DataType
  <1>1. pend[k] \in Seq(Versions) /\ pend'[k] = Append(pend[k], v)
        /\ cr'[k] = v
    BY <1>0 DEF Tell
  <1>2. q # k => pend'[q] = pend[q] /\ cr'[q] = cr[q]
    BY <1>0 DEF Tell
  <1>3. CASE q = k
    <2>1. Final(cache[k], Append(pend[k], v)) = v
      BY <1>1, FinalAppend
    <2> QED
      BY <1>1, <1>3, <2>1
  <1>4. CASE q # k
    <2>1. Final(cache[q], pend[q]) = cr[q]
      BY DEF Linked
    <2> QED
      BY <1>2, <1>4, <2>1
  <1> QED
    BY <1>3, <1>4

(* Every step keeps informer and cluster linked.                           *)
LEMMA LinkedStep ==
    ASSUME Types, Unstarted, Linked, [Next]_vars PROVE Linked'
  <1> USE DEF cluster, loop, primary, second, pool
  <1>0. /\ cr \in [Keys -> Objects] /\ pend \in [Keys -> Seq(Versions)]
        /\ cache \in [Keys -> Objects]
    BY DEF Types, DataType
  <1>1. ASSUME NEW k \in Keys, ChangeCR(k) PROVE Linked'
    <2>1. ASSUME NEW v \in Objects, Tell(k, v) PROVE Linked'
      BY <1>1, <2>1, TellLinks DEF ChangeCR
    <2>2. ASSUME NEW v \in Specs, Tell(k, Fresh(v)) PROVE Linked'
      BY <2>1, <2>2, Values DEF Objects
    <2>3. CASE Tell(k, Absent)
      BY <2>1, <2>3 DEF Objects
    <2>4. ASSUME NEW v \in Specs, cr[k] # Absent,
                 Tell(k, [cr[k] EXCEPT !.gen = @ + 1, !.spec = v])
          PROVE  Linked'
      <3> DEFINE n == [cr[k] EXCEPT !.gen = @ + 1, !.spec = v]
      <3>1. cr'[k] = n
        BY <1>0, <2>4 DEF Tell
      <3>2. cr' \in [Keys -> Objects]
        BY <1>1, DataStep DEF Types, DataType, Next
      <3> QED
        BY <2>1, <2>4, <3>1, <3>2
    <2> QED
      BY <1>1, <2>2, <2>3, <2>4 DEF ChangeCR
  <1>2. ASSUME NEW k \in Keys, Finish(k) \/ Fail(k) PROVE Linked'
    <2>1. CASE UNCHANGED <<cr, pend>>
      BY <1>2, <2>1 DEF Finish, Fail, Linked
    <2>2. ASSUME NEW v, Tell(k, v) PROVE Linked'
      <3>1. cr'[k] = v
        BY <1>0, <2>2 DEF Tell
      <3>2. cr' \in [Keys -> Objects]
        BY <1>2, DataStep DEF Types, DataType, Next
      <3> QED
        BY <1>2, <2>2, <3>1, <3>2, TellLinks DEF Finish, Fail
    <2> QED
      BY <1>2, <2>1, <2>2 DEF Finish, Fail, PatchStatus
  <1>3. ASSUME NEW k \in Keys, Deliver(k) PROVE Linked'
    <2> SUFFICES ASSUME up, ~neverStarted, NEW q \in Keys
                 PROVE  Final(cache'[q], pend'[q]) = cr[q]
      BY <1>3 DEF Linked, Deliver
    <2>1. CASE q # k
      BY <1>0, <1>3, <2>1 DEF Deliver, Linked
    <2>2. CASE q = k
      <3>1. /\ cache'[k] = IF Head(pend[k]) \in {Absent, Tombstone}
                           THEN Absent ELSE Head(pend[k])
            /\ pend'[k] = Tail(pend[k]) /\ pend[k] # <<>>
        BY <1>0, <1>3 DEF Deliver
      <3>2. Final(cache'[k], pend'[k]) = Final(cache[k], pend[k])
        BY <1>0, <3>1, FinalTail
      <3> QED
        BY <2>2, <3>2 DEF Linked
    <2> QED
      BY <2>1, <2>2
  <1>4. ASSUME NEW k \in Keys, Relist(k) PROVE Linked'
    <2> SUFFICES ASSUME up, ~neverStarted, NEW q \in Keys
                 PROVE  Final(cache[q], pend'[q]) = cr[q]
      BY <1>4 DEF Linked, Relist
    <2>1. CASE q # k
      BY <1>0, <1>4, <2>1 DEF Relist, Linked
    <2>2. CASE q = k
      <3> DEFINE last == pend[k][Len(pend[k])]
      <3>1. /\ pend'[k] = <<IF last = Absent THEN Tombstone ELSE last>>
            /\ pend[k] # <<>>
        BY <1>0, <1>4 DEF Relist
      <3>2. Final(cache[k], pend[k])
              = IF last = Tombstone THEN Absent ELSE last
        BY <3>1 DEF Final
      <3>3. Final(cache[k], pend'[k]) = IF last = Absent \/ last = Tombstone
                                       THEN Absent ELSE last
        <4> HIDE DEF last
        <4> QED
          BY <3>1, FinalOne
      <3> QED
        BY <2>2, <3>2, <3>3 DEF Linked
    <2> QED
      BY <2>1, <2>2
  <1>5. CASE RemovePrimary
    <2> SUFFICES ASSUME up, ~neverStarted, NEW q \in Keys
                 PROVE  Final(cache[q], pend'[q]) = Absent
      BY <1>5 DEF Linked, RemovePrimary
    <2>1. CASE cr[q] = Absent
      BY <1>5, <2>1 DEF RemovePrimary, Linked
    <2>2. CASE cr[q] # Absent
      <3>1. pend'[q] = Append(pend[q], Absent)
        BY <1>5, <2>2 DEF RemovePrimary
      <3> QED
        BY <1>0, <3>1, FinalAppend DEF Objects
    <2> QED
      BY <2>1, <2>2
  <1>6. ASSUME \A k \in Keys : cache'[k] = Absent, pend' = Listed, cr' = cr
        PROVE  Linked'
    <2> SUFFICES ASSUME NEW q \in Keys
                 PROVE  Final(cache'[q], pend'[q]) = cr[q]
      BY <1>6 DEF Linked
    <2>1. pend'[q] = IF cr[q] = Absent THEN <<>> ELSE <<cr[q]>>
      BY <1>6 DEF Listed
    <2>2. cr[q] # Tombstone
      BY <1>0, Values DEF Objects
    <2> QED
      BY <1>6, <2>1, <2>2, FinalOne
  <1>7. CASE Boot
    BY <1>6, <1>7 DEF Boot
  <1>8. CASE Activate
    <2>1. CASE neverStarted
      BY <1>6, <1>8, <2>1 DEF Activate, Unstarted
    <2>2. CASE ~neverStarted
      BY <1>8, <2>2 DEF Activate, Linked
    <2> QED
      BY <2>1, <2>2
  <1>9. CASE Fatal
    BY <1>9 DEF Fatal, Linked
  <1>10. CASE UNCHANGED <<up, neverStarted, cache, pend, cr>>
    BY <1>10 DEF Linked
  <1> QED
    BY <1>1, <1>2, <1>3, <1>4, <1>5, <1>7, <1>8, <1>9, <1>10
    DEF Next, vars, Resync, Take, GhostTakes, ChangeSecondary,
        HandleWatchEvent, RemoveSecondary, Install, List, Coordinate, Detect,
        TakeSentinel

-----------------------------------------------------------------------------
(* No event about k is under way to the queue or lost.                     *)
Tended(k) ==
    /\ up /\ lister = "synced" /\ news \cap Reads(k) = {}
    /\ k \notin queue \cup owed \cup restricted

(* What a reconcile of the cached object would write.                      *)
Expected(k) ==
    [gen |-> cache[k].gen, ready |-> TRUE, view |-> View(k, cache[k].spec)]

(* Who has read k has read what the cache and the cluster have now; who    *)
(* has written it has written that, whatever has become of the object in   *)
(* the cluster; and an object that no reconcile has written yet is not the *)
(* last the cache will see of it.                                          *)
InStep(k) ==
    Tended(k) /\ cache[k] # Absent =>
        /\ work[k] # "none" => /\ got[k].gen = cache[k].gen
                               /\ got[k].view = View(k, cache[k].spec)
        /\ work[k] = "none" /\ cr[k] # Absent /\ cr[k].status # NoStatus =>
              cr[k].status = Expected(k)
        /\ work[k] = "none" /\ cache[k].status = NoStatus => pend[k] # <<>>

AllInStep == \A k \in Keys : InStep(k)

(* A step that is not about k: nothing is read, delivered or written.      *)
LEMMA InStepRests ==
    ASSUME NEW k \in Keys, InStep(k),
           Tended(k)' /\ cache'[k] # Absent =>
               Tended(k) /\ sec' \cap Reads(k) = sec \cap Reads(k),
           cache'[k] = cache[k], work'[k] = work[k], got'[k] = got[k],
           \/ cr'[k] = cr[k] \/ cr'[k] = Absent
           \/ cr'[k].status = NoStatus
           \/ cr[k] # Absent /\ cr'[k].status = cr[k].status,
           pend[k] # <<>> => pend'[k] # <<>>
    PROVE  InStep(k)'
  <1> SUFFICES ASSUME Tended(k)', cache'[k] # Absent
               PROVE  (/\ work[k] # "none" =>
                              /\ got[k].gen = cache[k].gen
                              /\ got[k].view = View(k, cache[k].spec)
                       /\ work[k] = "none" /\ cr[k] # Absent
                             /\ cr[k].status # NoStatus =>
                                cr[k].status = Expected(k)
                       /\ work[k] = "none" /\ cache[k].status = NoStatus =>
                                pend[k] # <<>>)'
    BY DEF InStep
  <1>1. Tended(k) /\ cache[k] # Absent
    OBVIOUS
  <1>2. View(k, cache[k].spec)' = View(k, cache[k].spec)
        /\ Expected(k)' = Expected(k)
    BY DEF View, Expected, Reads
  <1> QED
    BY <1>1, <1>2 DEF InStep

(* Changes of the watched objects: they are news to every resource that    *)
(* reads them, until their event brings it into the queue.                 *)
LEMMA SecondaryInStep ==
    ASSUME Types, NEW q \in Keys, InStep(q),
           \/ \E s \in Secondaries : ChangeSecondary(s) \/ HandleWatchEvent(s)
           \/ RemoveSecondary \/ List
    PROVE  InStep(q)'
  <1> USE DEF cluster, loop, primary, second, pool
  <1>0. UNCHANGED <<cache, work, got, cr, pend, restricted, up>>
    BY DEF ChangeSecondary, HandleWatchEvent, RemoveSecondary, List
  <1>1. ASSUME NEW s \in Secondaries, ChangeSecondary(s) PROVE InStep(q)'
    <2>1. Tended(q)' => /\ Tended(q)
                        /\ sec' \cap Reads(q) = sec \cap Reads(q)
      BY <1>1 DEF ChangeSecondary, Tended, Reads
    <2> QED
      BY <1>0, <2>1, InStepRests
  <1>2. CASE RemoveSecondary
    <2>1. Tended(q)' => /\ Tended(q)
                        /\ sec' \cap Reads(q) = sec \cap Reads(q)
      BY <1>2 DEF RemoveSecondary, Tended, Reads
    <2> QED
      BY <1>0, <2>1, InStepRests
  <1>3. ASSUME NEW s \in Secondaries, HandleWatchEvent(s) PROVE InStep(q)'
    <2>1. CASE s \notin Reads(q)
      <3>1. Tended(q)' => Tended(q) /\ sec' = sec
        BY <1>3, <2>1 DEF HandleWatchEvent, Tended, Reads, Lose
      <3> QED
        BY <1>0, <3>1, InStepRests
    <2>2. CASE s \in Reads(q) /\ s \in restricted
      <3>1. q \in Concerned({s})
        BY <2>2 DEF Concerned
      <3>2. ~Tended(q)'
        BY <1>3, <2>2, <3>1 DEF HandleWatchEvent, Tended, Lose
      <3> QED
        BY <3>2 DEF InStep
    <2>3. CASE s \in Reads(q) /\ s \notin restricted
      <3>1. cache[q] # Absent => q \in Resolve(s)
        BY <2>3 DEF Resolve, Reads
      <3>2. cache[q] # Absent => q \in Route({s})
        BY <2>3, <3>1 DEF Route
      <3>3. cache[q] # Absent => ~Tended(q)'
        BY <1>3, <3>2 DEF HandleWatchEvent, Tended
      <3> QED
        BY <1>0, <3>3 DEF InStep
    <2> QED
      BY <2>1, <2>2, <2>3
  <1>4. CASE List
    <2>1. ~Tended(q)'
      BY <1>4 DEF List, Tended, Lose
    <2> QED
      BY <2>1 DEF InStep
  <1> QED
    BY <1>1, <1>2, <1>3, <1>4

(* The loop: a new activation starts with a list.                          *)
LEMMA LoopInStep ==
    ASSUME Types, NEW q \in Keys, InStep(q),
           \/ Coordinate \/ Detect \/ Activate \/ Fatal \/ Boot
           \/ TakeSentinel \/ UNCHANGED vars
           \/ \E kind \in Kinds : Install(kind)
    PROVE  InStep(q)'
  <1> USE DEF cluster, loop, primary, second, pool
  <1>1. CASE ~Tended(q)'
    BY <1>1 DEF InStep
  <1>2. CASE Tended(q)'
    <2>1. /\ UNCHANGED <<cache, work, got, cr, pend, sec>>
          /\ Tended(q)
      <3>1. CASE Coordinate
        BY <1>2, <3>1 DEF Coordinate, StartWorkers, Tended, Reads
      <3>2. CASE Detect
        BY <1>2, <3>2 DEF Detect, Deactivate, Tended, Reads
      <3>3. CASE Activate \/ Fatal \/ Boot
        BY <1>2, <3>3 DEF Activate, StartWorkers, Fatal, Boot, Tended
      <3>4. CASE TakeSentinel
        BY <1>2, <3>4, ObserveAssumption DEF TakeSentinel, Get, Tended, Reads
      <3>5. CASE UNCHANGED vars \/ \E kind \in Kinds : Install(kind)
        BY <1>2, <3>5 DEF vars, Install, Tended, Reads
      <3> QED
        BY <3>1, <3>2, <3>3, <3>4, <3>5
    <2> QED
      BY <2>1, InStepRests
  <1> QED
    BY <1>1, <1>2

(* Changes of the resource: an edit leaves the status alone, a new object  *)
(* has none.                                                               *)
LEMMA ChangeInStep ==
    ASSUME Types, NEW q \in Keys, InStep(q),
           RemovePrimary \/ \E k \in Keys : ChangeCR(k) \/ Relist(k)
    PROVE  InStep(q)'
  <1> USE DEF cluster, loop, primary, second, pool
  <1>0. /\ cr \in [Keys -> Objects] /\ pend \in [Keys -> Seq(Versions)]
        /\ UNCHANGED <<cache, work, got, sec>>
        /\ Tended(q)' => Tended(q)
    <2>1. cr \in [Keys -> Objects] /\ pend \in [Keys -> Seq(Versions)]
      BY DEF Types, DataType
    <2>2. /\ UNCHANGED <<cache, work, got, sec>>
          /\ UNCHANGED <<up, lister, news, queue, owed, restricted>>
      BY DEF RemovePrimary, ChangeCR, Relist
    <2> QED
      BY <2>1, <2>2 DEF Tended, Reads
  <1>1. CASE RemovePrimary
    <2>1. Append(pend[q], Absent) # <<>>
      BY <1>0, FinalAppend DEF Objects
    <2>2. cr'[q] = Absent /\ (pend[q] # <<>> => pend'[q] # <<>>)
      BY <1>1, <2>1 DEF RemovePrimary
    <2> QED
      BY <1>0, <2>2, InStepRests
  <1>2. ASSUME NEW k \in Keys, Relist(k) PROVE InStep(q)'
    <2>1. cr' = cr /\ (pend[q] # <<>> => pend'[q] # <<>>)
      <3>1. \A v : <<v>> # <<>>
        BY FinalOne
      <3> QED
        BY <1>0, <1>2, <3>1 DEF Relist
    <2> QED
      BY <1>0, <2>1, InStepRests
  <1>3. ASSUME NEW k \in Keys, ChangeCR(k) PROVE InStep(q)'
    <2>1. pend[q] # <<>> => pend'[q] # <<>>
      <3>1. \A v : pend[q] # <<>> => Append(pend[q], v) # <<>>
        BY <1>0
      <3>2. PICK v : Tell(k, v)
        BY <1>3 DEF ChangeCR
      <3>3. pend'[q] = pend[q] \/ pend'[q] = Append(pend[q], v)
        BY <1>0, <3>2 DEF Tell
      <3> QED
        BY <3>1, <3>3
    <2>2. \/ cr'[q] = cr[q] \/ cr'[q] = Absent
          \/ cr'[q].status = NoStatus
          \/ cr[q] # Absent /\ cr'[q].status = cr[q].status
      <3>1. \A v : Tell(k, v) => /\ cr'[k] = v
                                 /\ q # k => cr'[q] = cr[q]
        BY <1>0 DEF Tell
      <3>2. cr[k] # Absent => \A v \in Specs :
                [cr[k] EXCEPT !.gen = @ + 1, !.spec = v].status = cr[k].status
        BY <1>0 DEF Objects, CRs
      <3>3. CASE q # k
        <4>1. PICK v : Tell(k, v)
          BY <1>3 DEF ChangeCR
        <4> QED
          BY <3>1, <3>3, <4>1
      <3>4. CASE q = k
        <4>1. CASE \E v \in Specs : Tell(k, Fresh(v))
          BY <3>1, <3>4, <4>1, Values
        <4>2. CASE Tell(k, Absent)
          BY <3>1, <3>4, <4>2
        <4>3. ASSUME cr[k] # Absent, NEW v \in Specs,
                     Tell(k, [cr[k] EXCEPT !.gen = @ + 1, !.spec = v])
              PROVE  cr[q] # Absent /\ cr'[q].status = cr[q].status
          BY <3>1, <3>2, <3>4, <4>3
        <4> QED
          BY <1>3, <4>1, <4>2, <4>3 DEF ChangeCR
      <3> QED
        BY <3>3, <3>4
    <2> QED
      BY <1>0, <2>1, <2>2, InStepRests
  <1> QED
    BY <1>1, <1>2, <1>3

(* The primary informer: what is skipped is the runtime's own write, or is *)
(* counted as lost.                                                        *)
LEMMA DeliverInStep ==
    ASSUME Types, NEW q \in Keys, InStep(q),
           \E k \in Keys : Deliver(k) \/ Resync(k)
    PROVE  InStep(q)'
  <1> USE DEF cluster, loop, primary, second, pool
  <1>0. UNCHANGED <<work, got, cr, sec, news, lister, up, restricted>>
    BY DEF Deliver, Resync
  <1>1. ASSUME NEW k \in Keys, Resync(k) PROVE InStep(q)'
    <2>1. queue \subseteq queue' /\ UNCHANGED <<owed, cache, pend>>
      BY <1>1 DEF Resync, HandleUpdate
    <2>2. Tended(q)' => Tended(q)
      BY <1>0, <2>1 DEF Tended, Reads
    <2> QED
      BY <1>0, <2>1, <2>2, InStepRests
  <1>2. ASSUME NEW k \in Keys, Deliver(k) PROVE InStep(q)'
    <2>0. queue \subseteq queue' /\ owed \subseteq owed'
      BY <1>2 DEF Deliver, HandleEvent, HandleUpdate, Lose
    <2>1. Tended(q)' => Tended(q)
      BY <1>0, <2>0 DEF Tended, Reads
    <2>2. CASE q # k
      <3>1. cache'[q] = cache[q] /\ pend'[q] = pend[q]
        BY <1>2, <2>2 DEF Deliver, Types, DataType
      <3> QED
        BY <1>0, <2>1, <3>1, InStepRests
    <2>3. CASE q = k
      <3> DEFINE old == cache[k]
                 new == Head(pend[k])
                 gone == new \in {Absent, Tombstone}
      <3>1. cache'[k] = IF gone THEN Absent ELSE new
        BY <1>2 DEF Deliver, Types, DataType
      <3>2. CASE gone
        BY <2>3, <3>1, <3>2 DEF InStep
      <3>3. CASE ~gone /\ Tended(q)'
        <4>0. k \notin queue' /\ k \notin owed' /\ k \notin restricted
          BY <1>0, <2>3, <3>3 DEF Tended
        <4>1. old # Absent
          BY <1>2, <3>3, <4>0 DEF Deliver, HandleEvent
        <4>2. Skips(old, new, FALSE) /\ ~Lost(old, new)
          BY <1>2, <3>3, <4>0, <4>1 DEF Deliver, HandleUpdate, Lose
        <4>3. /\ cache'[k].gen = cache[k].gen /\ cache'[k].spec = cache[k].spec
              /\ cache'[k].status # NoStatus
          BY <3>1, <3>3, <4>2 DEF Skips, Lost
        <4>4. View(k, cache[k].spec)' = View(k, cache[k].spec)
              /\ Expected(k)' = Expected(k)
          BY <1>0, <4>3 DEF View, Expected, Reads
        <4>5. Tended(k) /\ cache[k] # Absent
          BY <2>1, <2>3, <3>3, <4>1
        <4> HIDE DEF old, new, gone
        <4> QED
          BY <1>0, <2>3, <4>3, <4>4, <4>5 DEF InStep
      <3>4. CASE ~Tended(q)'
        BY <3>4 DEF InStep
      <3> QED
        BY <3>2, <3>3, <3>4
    <2> QED
      BY <2>2, <2>3
  <1> QED
    BY <1>1, <1>2

(* The workers: what is read is the cache, what is written is what was     *)
(* read, and what is given up is counted as lost.                          *)
LEMMA TakeInStep ==
    ASSUME Types, NEW q \in Keys, InStep(q),
           \E k \in Keys : Take(k) \/ GhostTakes(k)
    PROVE  InStep(q)'
  <1> USE DEF cluster, loop, primary, second, pool
  <1>0. UNCHANGED <<cache, cr, pend, sec, news, lister, up, restricted>>
    BY DEF Take, GhostTakes
  <1>1. ASSUME NEW k \in Keys, Take(k) \/ GhostTakes(k), q # k
        PROVE  InStep(q)'
    <2>1. work'[q] = work[q] /\ got'[q] = got[q]
      BY <1>1 DEF Take, GhostTakes, Types, DataType
    <2>2. (q \in queue => q \in queue') /\ (q \in owed => q \in owed')
      BY <1>1 DEF Take, GhostTakes, Get, Lose
    <2>3. Tended(q)' => Tended(q)
      BY <1>0, <2>2 DEF Tended, Reads
    <2> QED
      BY <1>0, <2>1, <2>3, InStepRests
  <1>2. CASE GhostTakes(q)
    <2>1. ~Tended(q)'
      BY <1>2 DEF GhostTakes, Lose, Tended
    <2> QED
      BY <2>1 DEF InStep
  <1>3. CASE Take(q) /\ Prepared(q)
    <2>1. /\ work'[q] = "reading" /\ got'[q].gen = cache[q].gen
          /\ got'[q].view = View(q, cache[q].spec)
      BY <1>3 DEF Take, Types, DataType
    <2>2. View(q, cache[q].spec)' = View(q, cache[q].spec)
      BY <1>0 DEF View, Reads
    <2> QED
      BY <1>0, <2>1, <2>2 DEF InStep
  <1>4. CASE Take(q) /\ ~Prepared(q)
    BY <1>0, <1>4 DEF InStep, Tended, Prepared
  <1> QED
    BY <1>1, <1>2, <1>3, <1>4

(* A reconcile ends.  The object it writes may be another than the one it  *)
(* read: the status is that of the cached object all the same, and the     *)
(* cache has yet to see the new one.                                       *)
LEMMA FinishInStep ==
    ASSUME Types, Unstarted, Linked, NEW q \in Keys, InStep(q),
           \E k \in Keys : Finish(k) \/ Fail(k)
    PROVE  InStep(q)'
  <1> USE DEF cluster, loop, primary, second, pool
  <1>0. /\ UNCHANGED <<cache, sec, news, lister, up, restricted>>
        /\ UNCHANGED neverStarted
        /\ cr \in [Keys -> Objects] /\ pend \in [Keys -> Seq(Versions)]
    BY DEF Finish, Fail, Types, DataType
  <1>1. ASSUME NEW k \in Keys, Finish(k) \/ Fail(k), q # k
        PROVE  InStep(q)'
    <2>1. work'[q] = work[q] /\ got'[q] = got[q]
      BY <1>1 DEF Finish, Fail, Done, Types, DataType
    <2>2. queue \subseteq queue' /\ owed \subseteq owed'
      BY <1>1 DEF Finish, Fail, Lose
    <2>3. Tended(q)' => Tended(q)
      BY <1>0, <2>2 DEF Tended, Reads
    <2>4. cr'[q] = cr[q] /\ pend'[q] = pend[q]
      <3>1. UNCHANGED <<cr, pend>> \/ \E v : Tell(k, v)
        BY <1>1 DEF Finish, Fail, PatchStatus
      <3>2. \A v : Tell(k, v) => cr'[q] = cr[q] /\ pend'[q] = pend[q]
        BY <1>0, <1>1 DEF Tell
      <3> QED
        BY <3>1, <3>2
    <2> QED
      BY <1>0, <2>1, <2>3, <2>4, InStepRests
  <1>2. CASE Fail(q)
    <2>1. ~Tended(q)'
      BY <1>2 DEF Fail, Tended
    <2> QED
      BY <2>1 DEF InStep
  <1>3. CASE Finish(q) /\ (Tended(q)' /\ cache[q] # Absent)
    <2>1. Tended(q) /\ work[q] # "none" /\ work'[q] = "none"
          /\ q \notin owed' /\ q \notin restricted
      BY <1>0, <1>3
      DEF Finish, Done, Lose, Reconciling, Tended, Reads, Types, DataType
    <2>2. Success(q) = Expected(q)
      BY <1>3, <2>1 DEF InStep, Success, Expected
    <2>3. Success(q) # NoStatus
      BY DEF Success, NoStatus
    <2>4. Expected(q)' = Expected(q)
      BY <1>0 DEF Expected, View, Reads
    <2>5. /\ up /\ ~neverStarted
          /\ cr[q] = Final(cache[q], pend[q])
      BY <2>1 DEF Tended, Unstarted, Linked
    <2>6. CASE NeedsSuccess(q) /\ PatchStatus(q, Success(q))
               /\ cr[q] # Absent /\ cr[q].status # Success(q)
      <3> DEFINE n == [cr[q] EXCEPT !.status = Success(q)]
      <3>1. Tell(q, n)
        BY <2>6 DEF PatchStatus
      <3>2. cr'[q] = n /\ pend'[q] = Append(pend[q], n)
        BY <1>0, <2>5, <3>1 DEF Tell
      <3>3. n.status = Success(q)
        BY <1>0, <2>6 DEF Objects, CRs
      <3>4. pend'[q] # <<>>
        <4>1. \A v : Append(pend[q], v) # <<>>
          BY <1>0
        <4> QED
          BY <3>2, <4>1
      <3> HIDE DEF n
      <3> QED
        BY <2>1, <2>2, <2>4, <3>2, <3>3, <3>4 DEF InStep
    <2>7. CASE UNCHANGED <<cr, pend>>
               /\ (cr[q] = Absent \/ cr[q].status = Success(q))
      <3>1. cache[q].status = NoStatus => pend[q] # <<>>
        BY <1>3, <2>3, <2>5, <2>7 DEF Final
      <3> QED
        BY <1>0, <2>1, <2>2, <2>4, <2>7, <3>1 DEF InStep
    <2> QED
      BY <1>3, <2>1, <2>6, <2>7 DEF Finish, PatchStatus, Lose
  <1>4. CASE ~(Tended(q)' /\ cache[q] # Absent)
    BY <1>0, <1>4 DEF InStep
  <1> QED
    BY <1>1, <1>2, <1>3, <1>4

(* Every change is under way, counted as lost, or in the status: for every *)
(* interleaving of the watches, the loop and the workers, and across every *)
(* removal, restart and broken watch.                                      *)
THEOREM NoChangeUnaccounted == Spec => []LossAccounted
<1>1. Init => Unstarted /\ Linked /\ AllInStep
  <2> SUFFICES ASSUME Init PROVE Unstarted /\ Linked /\ AllInStep
    OBVIOUS
  <2>1. Unstarted
    BY DEF Init, Unstarted
  <2>2. AllInStep
    BY DEF Init, AllInStep, InStep, Tended
  <2>3. Linked
    <3> SUFFICES ASSUME NEW q \in Keys
                 PROVE  Final(cache[q], pend[q]) = cr[q]
      BY DEF Linked
    <3> DEFINE f == Fresh(CHOOSE v \in Specs : TRUE)
    <3>1. f # Tombstone
      BY Values, ValuesAssumption
    <3>2. cr \in [Keys -> {Absent, f}]
      BY DEF Init
    <3>3. cr[q] # Tombstone
      <4> HIDE DEF f
      <4> QED
        BY <3>1, <3>2, Values
    <3>4. pend[q] = IF cr[q] = Absent THEN <<>> ELSE <<cr[q]>>
      BY DEF Init, Listed
    <3>5. cache[q] = Absent
      BY DEF Init
    <3> QED
      BY <3>3, <3>4, <3>5, FinalOne
  <2> QED
    BY <2>1, <2>2, <2>3
<1>2. ASSUME Types, Unstarted, Linked, AllInStep, [Next]_vars
      PROVE  Unstarted' /\ Linked' /\ AllInStep'
  <2>1. ASSUME NEW q \in Keys PROVE InStep(q)'
    <3>1. InStep(q)
      BY <1>2 DEF AllInStep
    <3> QED
      BY <1>2, <3>1, SecondaryInStep, LoopInStep, ChangeInStep, DeliverInStep,
         TakeInStep, FinishInStep DEF Next
  <2> QED
    BY <1>2, <2>1, UnstartedStep, LinkedStep DEF AllInStep
<1>3. ASSUME Types, Unstarted, Linked, AllInStep
      PROVE  LossAccounted
  <2> SUFFICES ASSUME NEW k \in Keys \ (restricted \cup owed), Quiet(k),
                      cr[k] # Absent
               PROVE  cr[k].status = Current(k)
    BY DEF LossAccounted, UpToDate
  <2>1. Tended(k) /\ ~neverStarted /\ work[k] = "none" /\ pend[k] = <<>>
    BY <1>3 DEF Quiet, Tended, Unstarted
  <2>2. cache[k] = cr[k]
    BY <1>3, <2>1 DEF Linked, Final, Tended
  <2>3. InStep(k)
    BY <1>3 DEF AllInStep
  <2> QED
    BY <2>1, <2>2, <2>3 DEF InStep, Expected, Current
<1> QED
  BY <1>1, <1>2, <1>3, TypesHold, PTL DEF Spec
=============================================================================
