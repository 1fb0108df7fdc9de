------------------------ MODULE DependencyGraphProofs ------------------------
(***************************************************************************)
(* StartupOrder is correct for every finite catalog: what it returns is    *)
(* the least topological order of all CRDs, and it ends the process only   *)
(* if a dependency is unknown or the declarations are circular.            *)
(***************************************************************************)
EXTENDS DependencyGraph, FiniteSetTheorems, TLAPS

(* The order so far has as many members as positions.                      *)
Counted == IsFiniteSet(Ordered) /\ Cardinality(Ordered) = Len(order)

(* CRDs that wait for each other stay out of the order.                    *)
Waiting(S) == \A n \in S : dependsOn[n] \cap S # {}
NoneWaiting == \A S \in SUBSET Names : Waiting(S) => S \cap Ordered = {}

Inv ==
    /\ TypeOK /\ CountersExact /\ Topological /\ Deterministic /\ Counted
    /\ NoneWaiting

-----------------------------------------------------------------------------
(* What a CRD declares is a finite set, as Names and Unknown are.          *)
LEMMA DeclaredFinite ==
    ASSUME TypeOK, NEW n \in Names, NEW S
    PROVE  IsFiniteSet(dependsOn[n] \ S)
<1>1. IsFiniteSet(Names \cup Unknown)
  BY NamesAssumption, FS_Union
<1>2. dependsOn[n] \ S \in SUBSET (Names \cup Unknown)
  BY DEF TypeOK
<1> QED
  BY <1>1, <1>2, FS_Subset

(* Appending a name to the order: positions, members and predecessors.     *)
LEMMA AppendFacts ==
    ASSUME order \in Seq(Names), NEW c \in Names, order' = Append(order, c)
    PROVE  /\ order' \in Seq(Names)
           /\ Len(order') = Len(order) + 1
           /\ order'[Len(order) + 1] = c
           /\ \A i \in 1 .. Len(order) : order'[i] = order[i]
           /\ Ordered' = Ordered \cup {c}
           /\ \A i \in 1 .. Len(order) + 1 : Before(i)' = Before(i)
           /\ Before(Len(order) + 1) = Ordered
<1>1. /\ order' \in Seq(Names)
      /\ Len(order') = Len(order) + 1
      /\ order'[Len(order) + 1] = c
      /\ \A i \in 1 .. Len(order) : order'[i] = order[i]
      /\ Len(order) \in Nat
  OBVIOUS
<1>2. Ordered' = Ordered \cup {c}
  <2>1. ASSUME NEW x \in Ordered' PROVE x \in Ordered \cup {c}
    BY <1>1, <2>1 DEF Ordered
  <2>2. ASSUME NEW x \in Ordered PROVE x \in Ordered'
    <3>1. PICK i \in 1 .. Len(order) : x = order[i]
      BY <2>2 DEF Ordered
    <3>2. i \in 1 .. Len(order') /\ order'[i] = x
      BY <1>1, <3>1
    <3> QED
      BY <3>2 DEF Ordered
  <2>3. c \in Ordered'
    <3>1. Len(order) + 1 \in 1 .. Len(order')
      BY <1>1
    <3> QED
      BY <1>1, <3>1 DEF Ordered
  <2> QED
    BY <2>1, <2>2, <2>3
<1>3. ASSUME NEW i \in 1 .. Len(order) + 1 PROVE Before(i)' = Before(i)
  <2>1. \A j \in 1 .. i - 1 : order'[j] = order[j]
    BY <1>1
  <2> QED
    BY <2>1 DEF Before
<1>4. Before(Len(order) + 1) = Ordered
  BY <1>1 DEF Before, Ordered
<1> QED
  BY <1>1, <1>2, <1>3, <1>4

(* What is in the order depends on nothing outside it.                     *)
LEMMA OrderedClosed ==
    ASSUME TypeOK, Topological, NEW n \in Ordered
    PROVE  n \in Names /\ dependsOn[n] \subseteq Ordered
<1>1. PICK i \in 1 .. Len(order) : n = order[i]
  BY DEF Ordered
<1>2. Before(i) \subseteq Ordered
  BY <1>1 DEF Before, Ordered, TypeOK
<1> QED
  BY <1>1, <1>2 DEF Topological, TypeOK

-----------------------------------------------------------------------------
(* Reading the declarations of one CRD keeps the invariant.                *)
LEMMA AddNodeKeepsInv ==
    ASSUME Inv, NEW n \in Names, AddNode(n)
    PROVE  Inv'
<1> USE DEF Inv
<1>1. /\ order' = order /\ queue' = queue /\ dependsOn' = dependsOn
      /\ unread' = unread \ {n} /\ pc = "build" /\ n \in unread
      /\ order = <<>> /\ queue = {}
  BY DEF AddNode, CountersExact
<1>2. Ordered' = {} /\ Ordered = {}
  BY <1>1 DEF Ordered
<1>3. Topological' /\ Deterministic'
  BY <1>1 DEF Topological, Deterministic
<1>4. Counted' /\ NoneWaiting'
  BY <1>1, <1>2, FS_EmptySet DEF Counted, NoneWaiting
<1>5. CASE dependsOn[n] \subseteq Names
  <2>1. /\ edges' = [d \in Names |-> IF d \in dependsOn[n]
                                     THEN edges[d] \cup {n} ELSE edges[d]]
        /\ indegree' = [indegree EXCEPT ![n] = Cardinality(dependsOn[n])]
        /\ pc' = "build"
    BY <1>1, <1>5 DEF AddNode
  <2>2. Cardinality(dependsOn[n]) \in Nat
    <3>1. IsFiniteSet(dependsOn[n] \ {})
      BY DeclaredFinite
    <3>2. dependsOn[n] \ {} = dependsOn[n]
      OBVIOUS
    <3> QED
      BY <3>1, <3>2, FS_CardinalityType
  <2>3. TypeOK'
    <3>1. edges' \in [Names -> SUBSET Names]
      BY <2>1 DEF TypeOK
    <3>2. indegree' \in [Names -> Nat]
      BY <2>1, <2>2 DEF TypeOK
    <3> QED
      BY <1>1, <2>1, <3>1, <3>2 DEF TypeOK
  <2>4. \A m \in Names \ unread' :
            /\ dependsOn[m] \subseteq Names
            /\ indegree'[m] = Cardinality(dependsOn[m])
    <3>1. ASSUME NEW m \in Names \ unread', m # n
          PROVE  /\ dependsOn[m] \subseteq Names
                 /\ indegree'[m] = Cardinality(dependsOn[m])
      <4>1. m \in Names \ unread
        BY <1>1, <3>1
      <4>2. dependsOn[m] \ Ordered = dependsOn[m]
        BY <1>2
      <4>3. dependsOn[m] \subseteq Names
        BY <1>1, <4>1 DEF CountersExact
      <4>4. indegree[m] = Cardinality(dependsOn[m])
        BY <1>1, <4>1, <4>2 DEF CountersExact
      <4>5. indegree'[m] = indegree[m]
        BY <2>1, <3>1 DEF TypeOK
      <4> QED
        BY <4>3, <4>4, <4>5
    <3>2. indegree'[n] = Cardinality(dependsOn[n])
      BY <2>1 DEF TypeOK
    <3> QED
      BY <1>5, <3>1, <3>2
  <2>5. \A d \in Names : edges'[d] = {m \in Names \ unread' : d \in dependsOn[m]}
    <3>1. \A d \in Names : edges[d] = {m \in Names \ unread : d \in dependsOn[m]}
      BY <1>1 DEF CountersExact
    <3> QED
      BY <1>1, <2>1, <3>1
  <2>6. \A m \in Names : dependsOn[m] \ Ordered' = dependsOn[m]
    BY <1>2
  <2>7. CountersExact'
    BY <1>1, <2>1, <2>4, <2>5, <2>6 DEF CountersExact
  <2> QED
    BY <1>3, <1>4, <2>3, <2>7
<1>6. CASE ~(dependsOn[n] \subseteq Names)
  <2>1. pc' = "exit" /\ edges' = edges /\ indegree' = indegree
    BY <1>6 DEF AddNode
  <2>2. TypeOK'
    BY <1>1, <2>1 DEF TypeOK
  <2>3. CountersExact'
    BY <2>1 DEF CountersExact
  <2> QED
    BY <1>3, <1>4, <2>2, <2>3
<1> QED
  BY <1>5, <1>6

(* Filling the queue keeps the invariant: no counter is 0 by accident.     *)
LEMMA BeginSortKeepsInv ==
    ASSUME Inv, BeginSort
    PROVE  Inv'
<1> USE DEF Inv
<1>1. /\ order' = order /\ dependsOn' = dependsOn /\ unread' = unread
      /\ edges' = edges /\ indegree' = indegree
      /\ pc = "build" /\ pc' = "sort" /\ unread = {} /\ order = <<>>
      /\ queue' = {n \in Names : indegree[n] = 0}
  BY DEF BeginSort, CountersExact
<1>2. Ordered' = {} /\ Ordered = {}
  BY <1>1 DEF Ordered
<1>3. Topological' /\ Deterministic'
  BY <1>1 DEF Topological, Deterministic
<1>4. Counted' /\ NoneWaiting'
  BY <1>1, <1>2, FS_EmptySet DEF Counted, NoneWaiting
<1>5. TypeOK'
  BY <1>1 DEF TypeOK
<1>6. \A n \in Names : /\ dependsOn[n] \subseteq Names
                       /\ indegree[n] = Cardinality(dependsOn[n] \ Ordered)
  BY <1>1 DEF CountersExact
<1>7. \A n \in Names : indegree[n] = 0 <=> dependsOn[n] \subseteq {}
  <2> TAKE n \in Names
  <2>1. IsFiniteSet(dependsOn[n] \ Ordered)
    BY DeclaredFinite
  <2>2. indegree[n] = 0 <=> dependsOn[n] \ Ordered = {}
    BY <1>6, <2>1, FS_EmptySet
  <2> QED
    BY <1>2, <2>2
<1>8. queue' = {n \in Names \ Ordered' : dependsOn[n] \subseteq Ordered'}
  BY <1>1, <1>2, <1>7
<1>9. CountersExact'
  <2>1. \A d \in Names : edges[d] = {n \in Names \ unread : d \in dependsOn[n]}
    BY <1>1 DEF CountersExact
  <2>2. \A n \in Names : dependsOn[n] \ Ordered' = dependsOn[n] \ Ordered
    BY <1>2
  <2> QED
    BY <1>1, <1>6, <1>8, <2>1, <2>2 DEF CountersExact
<1> QED
  BY <1>3, <1>4, <1>5, <1>9

(* Emitting the least queued CRD keeps the invariant.                      *)
LEMMA EmitKeepsInv ==
    ASSUME Inv, Emit
    PROVE  Inv'
<1> USE DEF Inv
<1>1. PICK c \in queue :
        /\ pc = "sort" /\ \A n \in queue : c <= n
        /\ order' = Append(order, c)
        /\ indegree' = [n \in Names |-> IF n \in edges[c] THEN indegree[n] - 1
                                        ELSE indegree[n]]
        /\ queue' = (queue \ {c}) \cup {n \in edges[c] : indegree[n] = 1}
        /\ dependsOn' = dependsOn /\ unread' = unread /\ edges' = edges
        /\ pc' = pc
  BY DEF Emit
<1>2. /\ unread = {}
      /\ \A n \in Names : /\ dependsOn[n] \subseteq Names
                          /\ indegree[n] = Cardinality(dependsOn[n] \ Ordered)
      /\ \A d \in Names : edges[d] = {n \in Names : d \in dependsOn[n]}
      /\ queue = {n \in Names \ Ordered : dependsOn[n] \subseteq Ordered}
  BY <1>1 DEF CountersExact
<1>3. c \in Names /\ c \notin Ordered /\ dependsOn[c] \subseteq Ordered
  BY <1>2
<1>4. order \in Seq(Names) /\ Len(order) \in Nat
  BY DEF TypeOK
<1>5. /\ order' \in Seq(Names)
      /\ Len(order') = Len(order) + 1
      /\ order'[Len(order) + 1] = c
      /\ \A i \in 1 .. Len(order) : order'[i] = order[i]
      /\ Ordered' = Ordered \cup {c}
      /\ \A i \in 1 .. Len(order) + 1 : Before(i)' = Before(i)
      /\ Before(Len(order) + 1) = Ordered
  BY <1>1, <1>3, <1>4, AppendFacts
<1>6. \A n \in Names : /\ indegree'[n] \in Nat
                       /\ indegree'[n] = Cardinality(dependsOn[n] \ Ordered')
  <2> TAKE n \in Names
  <2>1. IsFiniteSet(dependsOn[n] \ Ordered)
    BY DeclaredFinite
  <2>2. (dependsOn[n] \ Ordered) \ {c} = dependsOn[n] \ Ordered'
    BY <1>5
  <2>3. /\ IsFiniteSet(dependsOn[n] \ Ordered')
        /\ Cardinality(dependsOn[n] \ Ordered') =
             IF c \in dependsOn[n] \ Ordered
             THEN Cardinality(dependsOn[n] \ Ordered) - 1
             ELSE Cardinality(dependsOn[n] \ Ordered)
    BY <2>1, <2>2, FS_RemoveElement
  <2>4. n \in edges[c] <=> c \in dependsOn[n] \ Ordered
    BY <1>2, <1>3
  <2>5. indegree'[n] = Cardinality(dependsOn[n] \ Ordered')
    BY <1>1, <1>2, <2>3, <2>4
  <2> QED
    BY <2>3, <2>5, FS_CardinalityType
<1>7. queue' = {n \in Names \ Ordered' : dependsOn[n] \subseteq Ordered'}
  <2>1. ASSUME NEW n \in queue'
        PROVE  n \in Names \ Ordered' /\ dependsOn[n] \subseteq Ordered'
    <3>1. CASE n \in queue \ {c}
      BY <1>2, <1>5, <3>1
    <3>2. CASE n \in edges[c] /\ indegree[n] = 1
      <4>1. n \in Names /\ c \in dependsOn[n]
        BY <1>2, <1>3, <3>2
      <4>2. n \notin Ordered
        BY <1>3, <4>1, OrderedClosed
      <4>3. n # c
        BY <1>3, <4>1
      <4>4. IsFiniteSet(dependsOn[n] \ Ordered')
        BY <4>1, DeclaredFinite
      <4>5. indegree'[n] = 0
        BY <1>1, <3>2, <4>1
      <4>6. dependsOn[n] \ Ordered' = {}
        BY <1>6, <4>1, <4>4, <4>5, FS_EmptySet
      <4> QED
        BY <1>5, <4>1, <4>2, <4>3, <4>6
    <3> QED
      BY <1>1, <2>1, <3>1, <3>2
  <2>2. ASSUME NEW n \in Names \ Ordered', dependsOn[n] \subseteq Ordered'
        PROVE  n \in queue'
    <3>1. CASE c \in dependsOn[n]
      <4>1. n \in edges[c]
        BY <1>2, <1>3, <3>1
      <4>2. dependsOn[n] \ Ordered' = {}
        BY <2>2
      <4>3. indegree'[n] = 0
        BY <1>6, <4>2, FS_EmptySet
      <4>4. indegree[n] \in Nat /\ indegree'[n] = indegree[n] - 1
        BY <1>1, <4>1 DEF TypeOK
      <4> QED
        BY <1>1, <4>1, <4>3, <4>4
    <3>2. CASE c \notin dependsOn[n]
      <4>1. n \in queue /\ n # c
        BY <1>2, <1>5, <2>2, <3>2
      <4> QED
        BY <1>1, <4>1
    <3> QED
      BY <3>1, <3>2
  <2> QED
    BY <2>1, <2>2
<1>8. TypeOK'
  <2>1. indegree' \in [Names -> Nat]
    BY <1>1, <1>6
  <2>2. queue' \subseteq Names
    BY <1>7
  <2> QED
    BY <1>1, <1>5, <2>1, <2>2 DEF TypeOK
<1>9. CountersExact'
  <2>1. unread' = {} /\ pc' = "sort"
    BY <1>1, <1>2
  <2>2. \A n \in Names \ unread' :
            /\ dependsOn'[n] \subseteq Names
            /\ indegree'[n] = Cardinality(dependsOn'[n] \ Ordered')
    BY <1>1, <1>2, <1>6
  <2>3. \A d \in Names : edges'[d] = {n \in Names \ unread' : d \in dependsOn'[n]}
    BY <1>1, <1>2, <2>1
  <2>4. queue' = {n \in Names \ Ordered' : dependsOn'[n] \subseteq Ordered'}
    BY <1>1, <1>7
  <2> QED
    BY <2>1, <2>2, <2>3, <2>4 DEF CountersExact
<1>10. Topological'
  <2> SUFFICES ASSUME NEW i \in 1 .. Len(order')
               PROVE  /\ dependsOn[order'[i]] \subseteq Before(i)'
                      /\ order'[i] \notin Before(i)'
    BY <1>1 DEF Topological
  <2>1. CASE i \in 1 .. Len(order)
    <3>1. order'[i] = order[i] /\ Before(i)' = Before(i)
      BY <1>4, <1>5, <2>1
    <3> QED
      BY <2>1, <3>1 DEF Topological
  <2>2. CASE i = Len(order) + 1
    BY <1>3, <1>4, <1>5, <2>2
  <2> QED
    BY <1>4, <1>5, <2>1, <2>2
<1>11. Deterministic'
  <2> SUFFICES ASSUME NEW i \in 1 .. Len(order'), NEW n \in Names \ Before(i)',
                      dependsOn[n] \subseteq Before(i)'
               PROVE  order'[i] <= n
    BY <1>1 DEF Deterministic
  <2>1. CASE i \in 1 .. Len(order)
    <3>1. order'[i] = order[i] /\ Before(i)' = Before(i)
      BY <1>4, <1>5, <2>1
    <3> QED
      BY <2>1, <3>1 DEF Deterministic
  <2>2. CASE i = Len(order) + 1
    <3>1. Before(i)' = Ordered /\ order'[i] = c
      BY <1>4, <1>5, <2>2
    <3>2. n \in queue
      BY <1>2, <3>1
    <3> QED
      BY <1>1, <3>1, <3>2
  <2> QED
    BY <1>4, <1>5, <2>1, <2>2
<1>12. Counted'
  BY <1>3, <1>5, FS_AddElement DEF Counted
<1>13. NoneWaiting'
  <2> SUFFICES ASSUME NEW S \in SUBSET Names, Waiting(S)'
               PROVE  S \cap Ordered' = {}
    BY DEF NoneWaiting
  <2>1. Waiting(S)
    BY <1>1 DEF Waiting
  <2>2. S \cap Ordered = {}
    BY <2>1 DEF NoneWaiting
  <2>3. c \notin S
    BY <1>3, <2>1, <2>2 DEF Waiting
  <2> QED
    BY <1>5, <2>2, <2>3
<1> QED
  BY <1>8, <1>9, <1>10, <1>11, <1>12, <1>13

-----------------------------------------------------------------------------
(* The end of the sort leaves the order alone.                             *)
LEMMA EndSortKeepsInv ==
    ASSUME Inv, EndSort
    PROVE  Inv'
<1> USE DEF Inv
<1>1. /\ pc' \in {"done", "exit"}
      /\ order' = order /\ dependsOn' = dependsOn /\ unread' = unread
      /\ edges' = edges /\ indegree' = indegree /\ queue' = queue
  BY DEF EndSort
<1>2. Ordered' = Ordered /\ \A i : Before(i)' = Before(i)
  BY <1>1 DEF Ordered, Before
<1>3. TypeOK'
  BY <1>1 DEF TypeOK
<1>4. CountersExact'
  BY <1>1 DEF CountersExact
<1>5. Topological' /\ Deterministic'
  BY <1>1, <1>2 DEF Topological, Deterministic
<1>6. Counted' /\ NoneWaiting'
  BY <1>1, <1>2 DEF Counted, NoneWaiting, Waiting
<1> QED
  BY <1>3, <1>4, <1>5, <1>6

(* The invariant of the sort holds of the bare node set.                   *)
LEMMA InitInv == Init => Inv
<1> SUFFICES ASSUME Init PROVE Inv
  OBVIOUS
<1> USE DEF Init
<1>1. Ordered = {}
  BY DEF Ordered
<1>2. dependsOn \in [Names -> SUBSET (Names \cup Unknown)]
  BY DEF Declarations
<1>3. edges \in [Names -> SUBSET Names] /\ indegree \in [Names -> Nat]
  OBVIOUS
<1>4. TypeOK
  BY <1>2, <1>3 DEF TypeOK
<1>5. CountersExact
  BY DEF CountersExact
<1>6. Topological /\ Deterministic
  BY DEF Topological, Deterministic
<1>7. Counted /\ NoneWaiting
  BY <1>1, FS_EmptySet DEF Counted, NoneWaiting
<1> QED
  BY <1>4, <1>5, <1>6, <1>7 DEF Inv

(* and is kept by building the graph and by every round of the sort.      *)
LEMMA NextKeepsInv == Inv /\ [Next]_vars => Inv'
<1> SUFFICES ASSUME Inv, [Next]_vars PROVE Inv'
  OBVIOUS
<1>1. CASE \E n \in Names : AddNode(n)
  BY <1>1, AddNodeKeepsInv
<1>2. CASE BeginSort
  BY <1>2, BeginSortKeepsInv
<1>3. CASE Emit
  BY <1>3, EmitKeepsInv
<1>4. CASE EndSort
  BY <1>4, EndSortKeepsInv
<1>5. CASE UNCHANGED vars
  <2>1. /\ order' = order /\ dependsOn' = dependsOn /\ unread' = unread
        /\ edges' = edges /\ indegree' = indegree /\ queue' = queue /\ pc' = pc
    BY <1>5 DEF vars
  <2>2. Ordered' = Ordered /\ \A i : Before(i)' = Before(i)
    BY <2>1 DEF Ordered, Before
  <2>3. TypeOK' /\ Counted' /\ NoneWaiting'
    BY <2>1, <2>2 DEF Inv, TypeOK, Counted, NoneWaiting, Waiting
  <2>4. CountersExact'
    BY <2>1, <2>2 DEF Inv, CountersExact
  <2>5. Topological' /\ Deterministic'
    BY <2>1, <2>2 DEF Inv, Topological, Deterministic
  <2> QED
    BY <2>3, <2>4, <2>5 DEF Inv
<1> QED
  BY <1>1, <1>2, <1>3, <1>4, <1>5 DEF Next

-----------------------------------------------------------------------------
(* A sort that stops short leaves a set in which everyone waits.           *)
LEMMA StuckIsCyclic ==
    ASSUME Inv, pc = "sort", queue = {}, Len(order) # Cardinality(Names)
    PROVE  Cyclic
<1> USE DEF Inv
<1> DEFINE S == Names \ Ordered
<1>1. Ordered # Names
  BY DEF Counted
<1>2. Ordered \subseteq Names
  BY DEF Ordered, TypeOK
<1>3. S \in (SUBSET Names) \ {{}}
  BY <1>1, <1>2
<1>4. \A n \in Names : dependsOn[n] \subseteq Names
  BY DEF CountersExact
<1>5. \A n \in S : ~(dependsOn[n] \subseteq Ordered)
  BY DEF CountersExact
<1>6. \A n \in S : dependsOn[n] \cap S # {}
  BY <1>4, <1>5
<1> HIDE DEF S
<1> QED
  BY <1>3, <1>6 DEF Cyclic

(* Every step that ends the run ends it rightly.                           *)
LEMMA NextDecides == Inv /\ Decides /\ [Next]_vars => Decides'
<1> SUFFICES ASSUME Inv, Decides, [Next]_vars PROVE Decides'
  OBVIOUS
<1>1. CASE \E n \in Names : AddNode(n)
  <2>1. PICK n \in Names : AddNode(n)
    BY <1>1
  <2>2. pc' = "build" \/ (pc' = "exit" /\ ~(dependsOn'[n] \subseteq Names))
    BY <2>1 DEF AddNode
  <2> QED
    BY <2>2 DEF Decides
<1>2. CASE BeginSort \/ Emit
  <2>1. pc' = "sort"
    BY <1>2 DEF BeginSort, Emit
  <2> QED
    BY <2>1 DEF Decides
<1>3. CASE EndSort
  <2>1. /\ pc = "sort" /\ queue = {} /\ dependsOn' = dependsOn /\ order' = order
        /\ pc' = IF Len(order) = Cardinality(Names) THEN "done" ELSE "exit"
    BY <1>3 DEF EndSort
  <2>2. Ordered' = Ordered /\ (Cyclic' <=> Cyclic)
    BY <2>1 DEF Ordered, Cyclic
  <2>3. CASE Len(order) = Cardinality(Names)
    <3>1. Ordered \in SUBSET Names
      BY DEF Inv, Ordered, TypeOK
    <3>2. Cardinality(Names) = Cardinality(Ordered)
      BY <2>3 DEF Inv, Counted
    <3>3. Ordered = Names
      BY <3>1, <3>2, FS_Subset, NamesAssumption
    <3>4. ~Cyclic
      <4> SUFFICES ASSUME NEW S \in SUBSET Names, S # {}, Waiting(S)
                   PROVE  FALSE
        BY DEF Cyclic, Waiting
      <4>1. S \cap Ordered = {}
        BY DEF Inv, NoneWaiting
      <4> QED
        BY <3>3, <4>1
    <3> QED
      BY <2>1, <2>2, <2>3, <3>3, <3>4 DEF Decides
  <2>4. CASE Len(order) # Cardinality(Names)
    <3>1. Cyclic
      BY <2>1, <2>4, StuckIsCyclic
    <3> QED
      BY <2>1, <2>2, <2>4, <3>1 DEF Decides
  <2> QED
    BY <2>3, <2>4
<1>4. CASE UNCHANGED vars
  <2>1. order' = order /\ dependsOn' = dependsOn /\ pc' = pc
    BY <1>4 DEF vars
  <2> QED
    BY <2>1 DEF Decides, Cyclic, Ordered
<1> QED
  BY <1>1, <1>2, <1>3, <1>4 DEF Next

(* StartupOrder, at every point of its run and in what it returns, lists   *)
(* every CRD after the CRDs it depends on (NewDependencyGraph and          *)
(* StartupOrder of dependencies.go, for every finite catalog).             *)
THEOREM OrderIsTopological == Spec => []Topological
<1>1. Inv => Topological
  BY DEF Inv
<1> QED
  BY InitInv, NextKeepsInv, <1>1, PTL DEF Spec

(* The order is the least one, whatever order the maps are iterated in.    *)
THEOREM OrderIsDeterministic == Spec => []Deterministic
<1>1. Inv => Deterministic
  BY DEF Inv
<1> QED
  BY InitInv, NextKeepsInv, <1>1, PTL DEF Spec

(* StartupOrder returns all CRDs exactly when the declarations can be met: *)
(* it exits only on an unknown dependency or a cycle, and never returns an *)
(* order for a circular catalog.                                           *)
THEOREM OrderDecides == Spec => []Decides
<1>1. Init => Decides
  BY DEF Init, Decides
<1> QED
  BY InitInv, NextKeepsInv, NextDecides, <1>1, PTL DEF Spec

(* What the coordinator takes for granted of the order it is given: it     *)
(* lists every CRD once, dependencies first.                               *)
Orderly(s) ==
    /\ s \in Seq(Names)
    /\ \A c \in Names : \E i \in 1 .. Len(s) : s[i] = c
    /\ \A i, j \in 1 .. Len(s) :
          /\ s[i] = s[j] => i = j
          /\ s[j] \in dependsOn[s[i]] => j < i

(* An order that StartupOrder returns is one that Coordinate may rely on:  *)
(* OrderAssumption of Coordinator, with its constants for this module's    *)
(* names and declarations.                                                 *)
THEOREM OrderSuitsCoordinate == Spec => [](pc = "done" => Orderly(order))
<1>1. Inv /\ Decides => (pc = "done" => Orderly(order))
  <2> SUFFICES ASSUME Inv, Decides, pc = "done" PROVE Orderly(order)
    OBVIOUS
  <2>1. order \in Seq(Names) /\ Len(order) \in Nat
    BY DEF Inv, TypeOK
  <2>2. ASSUME NEW c \in Names
        PROVE  \E i \in 1 .. Len(order) : order[i] = c
    BY DEF Decides, Ordered
  <2>3. ASSUME NEW i \in 1 .. Len(order), NEW j \in 1 .. Len(order), i < j
        PROVE  order[i] # order[j]
    <3>1. order[i] \in Before(j)
      BY <2>1, <2>3 DEF Before
    <3> QED
      BY <3>1 DEF Inv, Topological
  <2>4. ASSUME NEW i \in 1 .. Len(order), NEW j \in 1 .. Len(order),
               order[i] = order[j]
        PROVE  i = j
    BY <2>1, <2>3, <2>4
  <2>5. ASSUME NEW i \in 1 .. Len(order), NEW j \in 1 .. Len(order),
               order[j] \in dependsOn[order[i]]
        PROVE  j < i
    <3>1. PICK k \in 1 .. i - 1 : order[k] = order[j]
      BY <2>5 DEF Inv, Topological, Before
    <3>2. k \in 1 .. Len(order) /\ k < i
      BY <2>1, <3>1
    <3> QED
      BY <2>4, <3>1, <3>2
  <2> QED
    BY <2>1, <2>2, <2>4, <2>5 DEF Orderly
<1>2. Init => Decides
  BY DEF Init, Decides
<1> QED
  BY InitInv, NextKeepsInv, NextDecides, <1>1, <1>2, PTL DEF Spec
=============================================================================
