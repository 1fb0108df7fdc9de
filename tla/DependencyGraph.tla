-------------------------- MODULE DependencyGraph --------------------------
(***************************************************************************)
(* The CRD dependency graph of a catalog (pkg/catalog/dependencies.go):    *)
(* construction from the dependsOn declarations, and StartupOrder, Kahn's  *)
(* algorithm with the queue kept sorted by name.  Names are numbers, in    *)
(* their sorting order; the sorted queue, which never holds a name twice,  *)
(* is a set whose least member is next.                                    *)
(***************************************************************************)
EXTENDS Naturals, Sequences, FiniteSets

CONSTANTS
    Names,    \* the enabled CRDs
    Unknown,  \* names of CRDs that are not enabled
    MaxDeps   \* bound: dependencies a CRD declares

ASSUME NamesAssumption ==
    /\ Names \subseteq Nat /\ IsFiniteSet(Names)
    /\ Unknown \cap Names = {} /\ IsFiniteSet(Unknown)
    /\ MaxDeps \in Nat

VARIABLES
    dependsOn, \* the declarations, fixed
    unread,    \* CRDs whose declarations are not in the graph yet
    edges,     \* edges[d]: the CRDs that depend on d
    indegree,  \* Node.InDegree, then StartupOrder's copy of it
    queue,     \* StartupOrder's queue
    order,     \* StartupOrder's result so far
    pc         \* "build", "sort", "done", or "exit" after utils.Exit

vars == <<dependsOn, unread, edges, indegree, queue, order, pc>>

Declarations == {D \in SUBSET (Names \cup Unknown) : Cardinality(D) <= MaxDeps}

Init ==
    /\ dependsOn \in [Names -> Declarations]
    /\ unread = Names
    /\ edges = [d \in Names |-> {}]
    /\ indegree = [n \in Names |-> 0]
    /\ queue = {} /\ order = <<>> /\ pc = "build"

(* Add the edges of one CRD; an unknown dependency ends the process.       *)
AddNode(n) ==
    /\ pc = "build" /\ n \in unread
    /\ unread' = unread \ {n}
    /\ IF dependsOn[n] \subseteq Names
       THEN /\ edges' = [d \in Names |-> IF d \in dependsOn[n]
                                         THEN edges[d] \cup {n} ELSE edges[d]]
            /\ indegree' = [indegree EXCEPT ![n] = Cardinality(dependsOn[n])]
            /\ UNCHANGED pc
       ELSE pc' = "exit" /\ UNCHANGED <<edges, indegree>>
    /\ UNCHANGED <<dependsOn, queue, order>>

(* StartupOrder is called: queue the nodes that depend on nothing.         *)
BeginSort ==
    /\ pc = "build" /\ unread = {}
    /\ pc' = "sort"
    /\ queue' = {n \in Names : indegree[n] = 0}
    /\ UNCHANGED <<dependsOn, unread, edges, indegree, order>>

(* Mutant of Emit: takes any queued node, the queue is not sorted. *)
EmitUnsorted ==
    \E c \in queue :
        /\ pc = "sort"
        /\ order' = Append(order, c)
        /\ indegree' = [n \in Names |-> IF n \in edges[c] THEN indegree[n] - 1
                                        ELSE indegree[n]]
        /\ queue' = (queue \ {c}) \cup {n \in edges[c] : indegree[n] = 1}
        /\ UNCHANGED <<dependsOn, unread, edges, pc>>

(* Mutant of Emit: queues a dependent as soon as one dependency is out. *)
EmitEagerly ==
    \E c \in queue :
        /\ pc = "sort" /\ \A n \in queue : c <= n
        /\ order' = Append(order, c)
        /\ indegree' = [n \in Names |-> IF n \in edges[c] THEN 0
                                        ELSE indegree[n]]
        /\ queue' = (queue \ {c}) \cup {n \in edges[c] : indegree[n] >= 1}
        /\ UNCHANGED <<dependsOn, unread, edges, pc>>

(* Take the first of the queue and release its dependents.                 *)
Emit ==
    \E c \in queue :
        /\ pc = "sort" /\ \A n \in queue : c <= n
        /\ order' = Append(order, c)
        /\ indegree' = [n \in Names |-> IF n \in edges[c] THEN indegree[n] - 1
                                        ELSE indegree[n]]
        /\ queue' = (queue \ {c}) \cup {n \in edges[c] : indegree[n] = 1}
        /\ UNCHANGED <<dependsOn, unread, edges, pc>>

(* Mutant of EndSort: a short order is returned. *)
EndSortUnchecked ==
    /\ pc = "sort" /\ queue = {}
    /\ pc' = "done"
    /\ UNCHANGED <<dependsOn, unread, edges, indegree, queue, order>>

(* The queue is empty: every node is in the order, or there is a cycle.    *)
EndSort ==
    /\ pc = "sort" /\ queue = {}
    /\ pc' = IF Len(order) = Cardinality(Names) THEN "done" ELSE "exit"
    /\ UNCHANGED <<dependsOn, unread, edges, indegree, queue, order>>

Next == BeginSort \/ Emit \/ EndSort \/ \E n \in Names : AddNode(n)

Spec == Init /\ [][Next]_vars

-----------------------------------------------------------------------------
(***************************************************************************)
(* Properties                                                              *)
(***************************************************************************)
Ordered == {order[i] : i \in 1 .. Len(order)}
Before(i) == {order[j] : j \in 1 .. i - 1}

TypeOK ==
    /\ dependsOn \in [Names -> SUBSET (Names \cup Unknown)]
    /\ unread \subseteq Names /\ queue \subseteq Names
    /\ edges \in [Names -> SUBSET Names]
    /\ indegree \in [Names -> Nat]
    /\ order \in Seq(Names)
    /\ pc \in {"build", "sort", "done", "exit"}

(* Every CRD in the start-up order comes after all CRDs it depends on, and *)
(* none comes twice, while StartupOrder runs and in what it returns.       *)
Topological ==
    \A i \in 1 .. Len(order) :
        dependsOn[order[i]] \subseteq Before(i) /\ order[i] \notin Before(i)

(* The order does not depend on the order in which the maps are iterated:  *)
(* each position holds the least name whose dependencies are all before.   *)
Deterministic ==
    \A i \in 1 .. Len(order) : \A n \in Names \ Before(i) :
        dependsOn[n] \subseteq Before(i) => order[i] <= n

(* Reference definition: some CRDs wait for each other for ever.           *)
Cyclic == \E S \in (SUBSET Names) \ {{}} : \A n \in S : dependsOn[n] \cap S # {}

(* StartupOrder returns an order of all the CRDs if the declarations can   *)
(* be met, and ends the process if one is unknown or they are circular.    *)
Decides ==
    /\ pc = "done" => Ordered = Names /\ ~Cyclic
    /\ pc = "exit" => Cyclic \/ \E n \in Names : ~(dependsOn[n] \subseteq Names)

(* The graph and the counters StartupOrder goes by are exact: an edge for  *)
(* every declaration read, per node the number of its dependencies that    *)
(* are not yet in the order, and a queue of exactly the nodes with none.   *)
CountersExact ==
    pc \in {"build", "sort"} =>
        /\ pc = "sort" => unread = {}
        /\ \A n \in Names \ unread :
              /\ dependsOn[n] \subseteq Names
              /\ indegree[n] = Cardinality(dependsOn[n] \ Ordered)
        /\ \A d \in Names : edges[d] = {n \in Names \ unread : d \in dependsOn[n]}
        /\ IF pc = "build" THEN queue = {} /\ order = <<>>
           ELSE queue = {n \in Names \ Ordered : dependsOn[n] \subseteq Ordered}
=============================================================================
