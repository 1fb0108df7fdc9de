------------------------------ MODULE Observe -------------------------------
(***************************************************************************)
(* How a change in the cluster becomes a reconcile of one CRD: the primary *)
(* informer of the factory (pkg/runtime/informer), the secondary informers *)
(* of its watch entries (pkg/runtime/informer/observe), the retry loop     *)
(* that stops and starts the CRD when its definition goes and comes back   *)
(* (coordinator/post_start_hooks.go), and the workers that take the keys.  *)
(*                                                                         *)
(* Events carry no content: a reconcile reads the CR from the primary      *)
(* cache and the secondaries from the API server, and writes what it read  *)
(* to the CR's status.  So the question is whether every CR is reconciled  *)
(* again after what it depends on has changed, though events are filtered, *)
(* dropped and swallowed on the way.                                       *)
(***************************************************************************)
EXTENDS Naturals, Sequences, FiniteSets

CONSTANTS
    Keys,           \* the names of the custom resources of the CRD
    Secondaries,    \* the objects of the kind it watches
    Owner,          \* Owner[s]: the CR that owns s, or Nobody
    Nobody,
    RuleSets,       \* the namespace rules a catalog may have: which keys
                    \* and secondaries are in restricted namespaces
    Specs,          \* the contents an object may have
    Workers,
    Absent, Tombstone, DrainSentinel,
    MaxChanges,     \* bound: creations, edits and deletions
    MaxFaults       \* bound: removals of a definition, broken watches,
                    \* failed reconciles and failed patches

Primary   == "primary"
Secondary == "secondary"
Kinds     == {Primary, Secondary}

ASSUME ObserveAssumption ==
    /\ Owner \in [Secondaries -> Keys \cup {Nobody}]
    /\ Nobody \notin Keys /\ DrainSentinel \notin Keys
    /\ RuleSets \subseteq SUBSET (Keys \cup Secondaries)
    /\ Absent \notin Specs /\ Absent # Tombstone
    /\ Workers \in Nat \ {0}
    /\ {MaxChanges, MaxFaults} \subseteq Nat

VARIABLES
    restricted,     \* the rule set of this catalog
    installed,      \* the kinds whose definition is in the cluster
    cr,             \* cr[k]: the custom resource, or Absent
    sec,            \* the secondaries that exist
    budget,         \* what is left of each bound
    up,             \* the process runs
    coordinated,    \* Coordinate has started the CRDs
    registered,     \* Factory.informers: the kinds that have an entry
    flagged,        \* the kinds whose entry says Missing
    missing,        \* Factory.missing
    neverStarted,   \* WasNeverStarted of the primary's entry
    pend,           \* pend[k]: what the watch has still to deliver of k
    cache,          \* cache[k]: the primary informer's store
    lister,         \* the secondary informer of this activation
    news,           \* the secondaries it has still to report
    queue,          \* the keys in the CRD's queue
    work,           \* work[k]: the worker that holds k
    got,            \* got[k]: what it has read
    active, free,   \* the pool: it runs; its workers waiting in Get
    ghosts,         \* workers of cancelled pools still waiting in Get
    owed            \* history: keys one of whose events has been lost

cluster == <<restricted, installed, cr, sec, budget>>
loop    == <<up, coordinated, registered, flagged, missing>>
primary == <<neverStarted, pend, cache>>
second  == <<lister, news>>
pool    == <<queue, work, got, active, free, ghosts>>
vars    == <<cluster, loop, primary, second, pool, owed>>

\* What a reconcile sees: the spec and the secondaries.
Views    == [spec : Specs, sec : SUBSET Secondaries]
Gens     == 0 .. MaxChanges + 1
Statuses == [gen : Gens, ready : BOOLEAN, view : Views \cup {Absent}]
CRs      == [gen : Gens, spec : Specs, status : Statuses]
NoStatus == [gen |-> 0, ready |-> FALSE, view |-> Absent]

ASSUME ValuesAssumption == Specs # {} /\ {Absent, Tombstone} \cap CRs = {}

\* Every variable keeps the type of the field or local it stands for.
TypeOK ==
    /\ restricted \in RuleSets
    /\ installed \subseteq Kinds
    /\ cr \in [Keys -> CRs \cup {Absent}]
    /\ sec \subseteq Secondaries
    /\ budget \in [changes : 0 .. MaxChanges, faults : 0 .. MaxFaults]
    /\ up \in BOOLEAN
    /\ coordinated \in BOOLEAN
    /\ registered \subseteq Kinds
    /\ flagged \subseteq registered /\ missing \subseteq registered
    /\ neverStarted \in BOOLEAN
    /\ \A k \in Keys : pend[k] \in Seq(CRs \cup {Absent, Tombstone})
    /\ cache \in [Keys -> CRs \cup {Absent}]
    /\ lister \in {"off", "listing", "synced"}
    /\ news \subseteq Secondaries
    /\ queue \subseteq Keys \cup {DrainSentinel}
    /\ work \in [Keys -> {"none", "reading", "late"}]
    /\ got \in [Keys -> [gen : Gens, status : Statuses, view : Views]
                        \cup {Absent}]
    /\ active \in BOOLEAN
    /\ free \in 0 .. Workers /\ (active \/ free = 0)
    /\ ghosts \in 0 .. Workers * MaxFaults
    /\ owed \subseteq Keys

-----------------------------------------------------------------------------
(* The cluster. *)

\* An informer that runs is told of every version of k, in order.
Tell(k, v) ==
    /\ cr' = [cr EXCEPT ![k] = v]
    /\ pend' = IF up /\ ~neverStarted
               THEN [pend EXCEPT ![k] = Append(@, v)] ELSE pend

Spend(what) ==
    /\ budget[what] > 0
    /\ budget' = [budget EXCEPT ![what] = @ - 1]

Fresh(v) == [gen |-> 1, spec |-> v, status |-> NoStatus]

\* The API server raises the generation with the spec only, and starts
\* again at 1 when a name is used again.
ChangeCR(k) ==
    /\ Primary \in installed
    /\ Spend("changes")
    /\ \/ /\ cr[k] = Absent
          /\ \E v \in Specs : Tell(k, Fresh(v))
       \/ /\ cr[k] # Absent
          /\ \E v \in Specs \ {cr[k].spec} :
                Tell(k, [cr[k] EXCEPT !.gen = @ + 1, !.spec = v])
       \/ /\ cr[k] # Absent
          /\ Tell(k, Absent)
    /\ UNCHANGED <<restricted, installed, sec, loop, neverStarted, cache,
                   second, pool, owed>>

ChangeSecondary(s) ==
    /\ Secondary \in installed
    /\ Spend("changes")
    /\ sec' = IF s \in sec THEN sec \ {s} ELSE sec \cup {s}
    /\ news' = IF lister = "synced" THEN news \cup {s} ELSE news
    /\ UNCHANGED <<restricted, installed, cr, loop, primary, lister, pool,
                   owed>>

\* Removing a definition removes the objects of its kind.
RemovePrimary ==
    /\ Primary \in installed
    /\ Spend("faults")
    /\ installed' = installed \ {Primary}
    /\ cr' = [k \in Keys |-> Absent]
    /\ pend' = IF up /\ ~neverStarted
               THEN [k \in Keys |-> IF cr[k] = Absent THEN pend[k]
                                    ELSE Append(pend[k], Absent)]
               ELSE pend
    /\ UNCHANGED <<restricted, sec, loop, neverStarted, cache, second, pool,
                   owed>>

RemoveSecondary ==
    /\ Secondary \in installed
    /\ Spend("faults")
    /\ installed' = installed \ {Secondary}
    /\ sec' = {}
    /\ news' = IF lister = "synced" THEN news \cup sec ELSE news
    /\ UNCHANGED <<restricted, cr, loop, primary, lister, pool, owed>>

Install(kind) ==
    /\ kind \notin installed
    /\ installed' = installed \cup {kind}
    /\ UNCHANGED <<restricted, cr, sec, budget, loop, primary, second, pool,
                   owed>>

-----------------------------------------------------------------------------
(* The primary informer. *)

\* handleEvent: a tombstone is no runtime.Object, so gvkFromObj fails.
HandleEvent(k, v) ==
    queue' = IF v = Tombstone \/ k \in restricted
             THEN queue ELSE queue \cup {k}

\* Mutants: patches told by the status they change; resyncs skipped too.
SkipsStatus(old, new, sameRV) == old.status # new.status /\ ~sameRV
SkipsResync(old, new, sameRV) == old.gen = new.gen

\* handleUpdate takes an unchanged generation for a patch of the status,
\* unless the resource version is unchanged too: then it is a resync.
Skips(old, new, sameRV) == old.gen = new.gen /\ ~sameRV

HandleUpdate(k, old, new, sameRV) ==
    queue' = IF Skips(old, new, sameRV) \/ k \in restricted
             THEN queue ELSE queue \cup {k}

Lose(ks) == owed' = owed \cup (ks \ restricted)

\* History: a skipped version that is not the work of this runtime.
Lost(old, new) ==
    /\ Skips(old, new, FALSE)
    /\ new.spec # old.spec \/ new.status = NoStatus

Deliver(k) ==
    /\ up /\ ~neverStarted
    /\ pend[k] # <<>>
    /\ LET old == cache[k]
           new == Head(pend[k])
           gone == new \in {Absent, Tombstone}
       IN  /\ cache' = [cache EXCEPT ![k] = IF gone THEN Absent ELSE new]
           /\ IF old = Absent /\ gone THEN UNCHANGED queue
              ELSE IF old = Absent \/ gone THEN HandleEvent(k, new)
              ELSE HandleUpdate(k, old, new, FALSE)
           /\ Lose(IF old # Absent /\ ~gone /\ Lost(old, new)
                   THEN {k} ELSE {})
    /\ pend' = [pend EXCEPT ![k] = Tail(@)]
    /\ UNCHANGED <<cluster, loop, neverStarted, second, work, got, active,
                   free, ghosts>>

\* The watch breaks: the informer lists, and sees the last version only.
\* It learns of a deletion from the absence in the list.
Relist(k) ==
    /\ up /\ ~neverStarted
    /\ pend[k] # <<>>
    /\ Spend("faults")
    /\ LET last == pend[k][Len(pend[k])]
       IN  pend' = [pend EXCEPT ![k] =
                       <<IF last = Absent THEN Tombstone ELSE last>>]
    /\ UNCHANGED <<restricted, installed, cr, sec, loop, neverStarted, cache,
                   second, pool, owed>>

Resync(k) ==
    /\ up /\ ~neverStarted
    /\ cache[k] # Absent
    /\ k \notin queue \cup restricted
    /\ HandleUpdate(k, cache[k], cache[k], TRUE)
    /\ UNCHANGED <<cluster, loop, primary, second, work, got, active, free,
                   ghosts, owed>>

-----------------------------------------------------------------------------
(* The secondary informers. *)

\* resolveWatchKeys: the owner, or every key of the primary cache.
Resolve(s) == IF Owner[s] # Nobody THEN {Owner[s]}
              ELSE {k \in Keys : cache[k] # Absent}

\* AllowAndEnqueueKey looks at the namespace of the observed object.
Route(ss) == UNION {Resolve(s) : s \in ss \ restricted}

Reads(k) == {s \in Secondaries : Owner[s] \in {k, Nobody}}

\* History: the CRs that a change of these secondaries concerns.
Concerned(ss) == {k \in Keys : Reads(k) \cap ss # {}}

\* The initial list.  A handler returns unless HasSynced, which turns true
\* while the handlers are still being called: any of them may be late.
List ==
    /\ up /\ lister = "listing" /\ Secondary \in installed
    /\ lister' = "synced"
    /\ news' = {}
    /\ \E late \in SUBSET sec :
          /\ queue' = queue \cup Route(late)
          /\ Lose(Keys \ Route(late))
    /\ UNCHANGED <<cluster, loop, primary, work, got, active, free, ghosts>>

HandleWatchEvent(s) ==
    /\ up /\ lister = "synced"
    /\ s \in news
    /\ news' = news \ {s}
    /\ queue' = queue \cup Route({s})
    /\ Lose(IF s \in restricted THEN Concerned({s}) ELSE {})
    /\ UNCHANGED <<cluster, loop, primary, lister, work, got, active, free,
                   ghosts>>

-----------------------------------------------------------------------------
(* The coordinator starts and stops the CRD. *)

Listed == [k \in Keys |-> IF cr[k] = Absent THEN <<>> ELSE <<cr[k]>>]

\* startCRDWorkers: a new pool, and Observe starts new secondary informers
\* under its context.  RegisterInformer keeps the first one it was given.
StartWorkers ==
    /\ active' = TRUE
    /\ free' = Workers
    /\ lister' = "listing"
    /\ news' = {}
    /\ registered' = registered \cup {Secondary}

Coordinate ==
    /\ up /\ ~coordinated
    /\ coordinated' = TRUE
    /\ IF Primary \in missing
       THEN UNCHANGED <<active, free, lister, news, registered>>
       ELSE StartWorkers
    /\ UNCHANGED <<cluster, up, flagged, missing, primary, queue, work, got,
                   ghosts, owed>>

\* deactivateCRD cancels the context of the pool and of the informers.  A
\* worker in Get stays there until it is given an item.  The sentinels are
\* equal, and the queue holds equal items once.
Deactivate ==
    /\ active' = FALSE
    /\ free' = 0
    /\ ghosts' = ghosts + free
    /\ work' = [k \in Keys |-> IF work[k] = "none" THEN "none" ELSE "late"]
    /\ queue' = queue \cup {DrainSentinel}
    /\ lister' = "off" /\ news' = {}

\* Phase 1 of the retry loop, over every entry of the factory.
Detect ==
    /\ up /\ coordinated
    /\ LET gone == (registered \ flagged) \ installed
       IN  /\ gone # {}
           /\ flagged' = flagged \cup gone
           /\ missing' = gone
           /\ IF Primary \in gone THEN Deactivate
              ELSE UNCHANGED <<queue, work, active, free, ghosts, second>>
    /\ UNCHANGED <<cluster, up, coordinated, registered, primary,
                   got, owed>>

\* Phase 2: activateCRD, and startCRDWorkers in it.
Activate ==
    /\ up /\ coordinated
    /\ Primary \in missing \cap installed
    /\ missing' = missing \ {Primary}
    /\ flagged' = flagged \ {Primary}
    /\ neverStarted' = FALSE
    /\ pend' = IF neverStarted THEN Listed ELSE pend
    /\ StartWorkers
    /\ UNCHANGED <<cluster, up, coordinated, cache, queue, work, got,
                   ghosts, owed>>

\* The same for the entry of a secondary: the catalog has none for it, and
\* startCRDWorkers ends the process.
Fatal ==
    /\ up /\ coordinated
    /\ Secondary \in missing \cap installed
    /\ up' = FALSE
    /\ UNCHANGED <<cluster, coordinated, registered, flagged, missing,
                   primary, second, pool, owed>>

\* A new process creates the primary's informer, and starts it if the
\* definition is there.
Boot ==
    /\ ~up
    /\ up' = TRUE /\ coordinated' = FALSE /\ registered' = {Primary}
    /\ flagged' = {Primary} \ installed /\ missing' = {Primary} \ installed
    /\ neverStarted' = (Primary \notin installed)
    /\ pend' = Listed
    /\ cache' = [k \in Keys |-> Absent]
    /\ lister' = "off" /\ news' = {}
    /\ queue' = {} /\ work' = [k \in Keys |-> "none"]
    /\ got' = [k \in Keys |-> Absent]
    /\ active' = FALSE /\ free' = 0 /\ ghosts' = 0
    /\ owed' = {}
    /\ UNCHANGED cluster

-----------------------------------------------------------------------------
(* The workers. *)

Get(item) ==
    /\ up /\ item \in queue
    /\ queue' = queue \ {item}

View(k, spec) == [spec |-> spec, sec |-> sec \cap Reads(k)]

\* Mutant: the namespaces are left to the informer's filter.
PreparedUnguarded(k) == cache[k] # Absent

\* Prepare: the object from the cache, and the namespace guard.
Prepared(k) == cache[k] # Absent /\ k \notin restricted

Take(k) ==
    /\ Get(k) /\ work[k] = "none"
    /\ active /\ free > 0
    /\ IF Prepared(k)
       THEN /\ free' = free - 1
            /\ work' = [work EXCEPT ![k] = "reading"]
            /\ got' = [got EXCEPT ![k] =
                          [gen |-> cache[k].gen, status |-> cache[k].status,
                           view |-> View(k, cache[k].spec)]]
            /\ owed' = owed \ {k}
       ELSE UNCHANGED <<free, work, got, owed>>
    /\ UNCHANGED <<cluster, loop, primary, second, active, ghosts>>

\* processItemForGVK forgets the sentinel; a cancelled worker then ends.
TakeSentinel ==
    /\ Get(DrainSentinel)
    /\ \/ active /\ free > 0 /\ UNCHANGED ghosts
       \/ ghosts > 0 /\ ghosts' = ghosts - 1
    /\ UNCHANGED <<cluster, loop, primary, second, work, got, active, free,
                   owed>>

\* A cancelled worker is given a key: processItemForGVK returns at once,
\* and Done lets the key go.
GhostTakes(k) ==
    /\ Get(k) /\ work[k] = "none"
    /\ ghosts > 0
    /\ ghosts' = ghosts - 1
    /\ Lose({k})
    /\ UNCHANGED <<cluster, loop, primary, second, work, got, active, free>>

Done(k) ==
    /\ work' = [work EXCEPT ![k] = "none"]
    /\ got' = [got EXCEPT ![k] = Absent]
    /\ free' = IF work[k] = "reading" THEN free + 1 ELSE free

Success(k) == [gen |-> got[k].gen, ready |-> TRUE, view |-> got[k].view]

Failure(k) == [cr[k].status EXCEPT !.gen = got[k].gen, !.ready = FALSE]

\* statusPatchNeeded compares with the object that Prepare took.
NeedsSuccess(k) == got[k].status # Success(k)
NeedsFailure(k) == got[k].status.gen # got[k].gen \/ got[k].status.ready

PatchStatus(k, status) ==
    IF cr[k] = Absent \/ cr[k].status = status THEN UNCHANGED <<cr, pend>>
    ELSE Tell(k, [cr[k] EXCEPT !.status = status])

Reconciling(k) == up /\ work[k] # "none"

\* A patch that fails is logged, and the item is forgotten all the same.
Finish(k) ==
    /\ Reconciling(k)
    /\ Done(k)
    /\ \/ /\ NeedsSuccess(k)
          /\ PatchStatus(k, Success(k))
          /\ UNCHANGED <<budget, owed>>
       \/ /\ NeedsSuccess(k)
          /\ Spend("faults")
          /\ Lose({k})
          /\ UNCHANGED <<cr, pend>>
       \/ /\ ~NeedsSuccess(k)
          /\ Lose(IF cr[k] # Absent /\ cr[k].status # Success(k)
                  THEN {k} ELSE {})
          /\ UNCHANGED <<cr, pend, budget>>
    /\ UNCHANGED <<restricted, installed, sec, loop, neverStarted, cache,
                   second, queue, active, ghosts>>

Fail(k) ==
    /\ Reconciling(k)
    /\ Spend("faults")
    /\ Done(k)
    /\ queue' = queue \cup {k}
    /\ IF NeedsFailure(k) /\ cr[k] # Absent THEN PatchStatus(k, Failure(k))
       ELSE UNCHANGED <<cr, pend>>
    /\ UNCHANGED <<restricted, installed, sec, loop, neverStarted, cache,
                   second, active, ghosts, owed>>

-----------------------------------------------------------------------------
\* The contents are interchangeable: one of them will do to begin with.
Init ==
    /\ restricted \in RuleSets
    /\ installed \in (SUBSET Kinds) \ {{}}
    /\ cr \in [Keys -> {Absent, Fresh(CHOOSE v \in Specs : TRUE)}]
    /\ Primary \in installed \/ \A k \in Keys : cr[k] = Absent
    /\ sec \in SUBSET Secondaries
    /\ Secondary \in installed \/ sec = {}
    /\ budget = [changes |-> MaxChanges, faults |-> MaxFaults]
    /\ up = TRUE /\ coordinated = FALSE /\ registered = {Primary}
    /\ flagged = {Primary} \ installed /\ missing = {Primary} \ installed
    /\ neverStarted = (Primary \notin installed)
    /\ pend = Listed
    /\ cache = [k \in Keys |-> Absent]
    /\ lister = "off" /\ news = {}
    /\ queue = {} /\ work = [k \in Keys |-> "none"]
    /\ got = [k \in Keys |-> Absent]
    /\ active = FALSE /\ free = 0 /\ ghosts = 0
    /\ owed = {}

Next ==
    \/ \E k \in Keys : \/ ChangeCR(k) \/ Deliver(k) \/ Relist(k) \/ Resync(k)
                       \/ Take(k) \/ GhostTakes(k)
                       \/ Finish(k) \/ Fail(k)
    \/ \E s \in Secondaries : ChangeSecondary(s) \/ HandleWatchEvent(s)
    \/ RemovePrimary \/ RemoveSecondary \/ \E kind \in Kinds : Install(kind)
    \/ List \/ Coordinate \/ Detect \/ Activate \/ Fatal \/ Boot
    \/ TakeSentinel

Spec == Init /\ [][Next]_vars

\* The informers, the loop and the workers run; the queue is first in,
\* first out; the primary informer resyncs (DEFAULT_RESYNC, 15 s); the
\* kubelet starts a container that has exited.
FairSpec ==
    /\ Spec
    /\ \A k \in Keys :
          /\ WF_vars(Deliver(k)) /\ WF_vars(Resync(k))
          /\ SF_vars(Take(k)) /\ WF_vars(Finish(k))
    /\ \A s \in Secondaries : WF_vars(HandleWatchEvent(s))
    /\ WF_vars(List) /\ WF_vars(Coordinate) /\ WF_vars(Detect)
    /\ WF_vars(Activate) /\ WF_vars(Fatal) /\ WF_vars(Boot)

-----------------------------------------------------------------------------
Current(k) == [gen |-> cr[k].gen, ready |-> TRUE, view |-> View(k, cr[k].spec)]

UpToDate(k) == cr[k] = Absent \/ cr[k].status = Current(k)

\* Nothing about k is on its way.
Quiet(k) ==
    /\ up /\ active
    /\ pend[k] = <<>>
    /\ lister = "synced" /\ news \cap Reads(k) = {}
    /\ k \notin queue /\ work[k] = "none"

\* No change is lost but in the ways the history variable names: a CR that
\* was created again under its name while the watch was broken, a change
\* older than a secondary informer's first list, an object in a restricted
\* namespace, an item that a cancelled worker takes, and a status that was
\* not written (the write failed, or an old copy of the CR had it already).
\* In every other state in which nothing about a CR is on its way, the
\* status says what a reconcile would find now (event.go, observe/watch.go,
\* worker.go, post/status.go).
LossAccounted ==
    \A k \in Keys \ (restricted \cup owed) : Quiet(k) => UpToDate(k)

\* The namespace guard of Prepare holds where the filter of the informer
\* does not: a broadcast names every CR in the cache, and AllowAndEnqueueKey
\* looks at the namespace of the observed object (prepare.go:67).
RestrictedUntouched ==
    \A k \in Keys \cap restricted :
        cr[k] # Absent => cr[k].status = NoStatus

\* Whatever was lost, the resync of the primary informer finds it: when the
\* cluster is left alone, every CR comes to be up to date and stays so, after
\* any one fault.  Two outages that overlap may leave a CRD that the retry
\* loop has forgotten, and its CRs behind (Coordinator, Forgotten)
\* (event.go:67, "allow it through so the reconciler can observe child state
\* that changed outside of a spec update").
Converges == <>[](\A k \in Keys \ restricted : UpToDate(k))

\* startCRDWorkers is only called for kinds of the catalog: "no catalog
\* entry found" never ends the process (start.go:20).
CatalogEntryFound == up
=============================================================================
