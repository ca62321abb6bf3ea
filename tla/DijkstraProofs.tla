--------------------------- MODULE DijkstraProofs ---------------------------
(***************************************************************************)
(* runDijkstra returns a shortest-path tree of every graph, and            *)
(* resolveNextHop walks it back to an immediate neighbour.                 *)
(*                                                                         *)
(* The result only holds when the heap is empty; it follows from the       *)
(* classical invariant of the algorithm: what is visited is final because  *)
(* nothing in the heap is nearer.                                          *)
(***************************************************************************)
EXTENDS Dijkstra, FiniteSetTheorems, WellFoundedInduction, TLAPS

Reached(n) == dist[n] # Unreached

(* The root. *)
RootInv == dist[Local] = 0 /\ prev[Local] = NoNode

(* The tree: a reached node hangs one link below a visited predecessor. *)
TreeInv ==
    \A v \in Node \ {Local} : Reached(v) =>
        /\ prev[v] \in visited /\ <<prev[v], v>> \in adj
        /\ Reached(prev[v]) /\ dist[v] = dist[prev[v]] + 1

(* Visited nodes are reached; reached nodes are visited or in the heap,    *)
(* with their distance; an item never promises less than the distance.     *)
VisitedInv == \A u \in visited : Reached(u)
HeapInv    == \A item \in pq : Reached(item[1]) /\ dist[item[1]] <= item[2]
FrontierInv == \A v \in Node \ visited : Reached(v) => <<v, dist[v]>> \in pq

(* Nothing in the heap is nearer than what was visited. *)
OrderInv == \A u \in visited : \A item \in pq : dist[u] <= item[2]

(* The links of visited nodes are relaxed. *)
RelaxedInv ==
    \A u \in visited : \A v \in Node :
        <<u, v>> \in adj => Reached(v) /\ dist[v] <= dist[u] + 1

TreeInvs == RootInv /\ TreeInv /\ VisitedInv /\ HeapInv /\ FrontierInv /\ OrderInv /\ RelaxedInv

(* Distances, predecessors and the items of the heap keep their types in   *)
(* every turn of runDijkstra and of resolveNextHop.                        *)
THEOREM TypeCorrect == Spec => []TypeOK
<1>1. Init => TypeOK
  BY NodeAssumption DEF Init, TypeOK, Unreached
<1>2. TypeOK /\ [Next]_vars => TypeOK'
  <2> SUFFICES ASSUME TypeOK, [Next]_vars PROVE TypeOK'
    OBVIOUS
  <2> USE NodeAssumption DEF TypeOK
  <2>1. ASSUME NEW item \in pq, Visit(item) PROVE TypeOK'
    <3>1. item[1] \in Node
      OBVIOUS
    <3>2. CASE item[1] \in visited
      BY <2>1, <3>2 DEF Visit
    <3>3. CASE item[1] \notin visited
      <4>1. dist[item[1]] + 1 \in Nat
        BY <3>1 DEF Unreached
      <4>2. dist' \in [Node -> Nat \cup {Unreached}]
        BY <2>1, <3>3, <4>1 DEF Visit
      <4>3. prev' \in [Node -> Node \cup {NoNode}]
        BY <2>1, <3>1, <3>3 DEF Visit
      <4>4. pq' \subseteq Node \X Nat
        <5>1. pq' = (pq \ {item}) \cup {<<v, dist[item[1]] + 1>> : v \in Improved(item[1])}
          BY <2>1, <3>3 DEF Visit
        <5>2. Improved(item[1]) \subseteq Node
          BY DEF Improved
        <5> QED
          BY <4>1, <5>1, <5>2
      <4> QED
        BY <2>1, <3>1, <3>3, <4>2, <4>3, <4>4 DEF Visit
    <3> QED
      BY <3>2, <3>3
  <2>2. ASSUME NEW d \in Node, CallResolve(d) PROVE TypeOK'
    BY <2>2 DEF CallResolve
  <2>3. ASSUME WalkBack PROVE TypeOK'
    <3>1. hops + 1 \in Nat /\ curr' \in Node
      BY <2>3 DEF WalkBack
    <3> QED
      BY <2>3, <3>1 DEF WalkBack
  <2>4. CASE UNCHANGED vars
    BY <2>4 DEF vars
  <2> QED
    BY <2>1, <2>2, <2>3, <2>4 DEF Next
<1> QED
  BY <1>1, <1>2, PTL DEF Spec

-----------------------------------------------------------------------------
(* The item popped for a node that is not visited carries its distance,    *)
(* no visited node is farther, and relaxing its links leaves the visited   *)
(* nodes alone.                                                            *)
LEMMA PoppedIsNearest ==
    ASSUME TypeOK, TreeInvs, NEW item \in pq, Visit(item), item[1] \notin visited
    PROVE  /\ item[1] \in Node /\ dist[item[1]] \in Nat
           /\ item = <<item[1], dist[item[1]]>>
           /\ \A w \in visited : dist[w] <= dist[item[1]]
           /\ \A v \in Improved(item[1]) : v \in Node /\ v \notin visited /\ v # Local /\ v # item[1]
<1> DEFINE u == item[1]
<1>1. u \in Node /\ item[2] \in Nat /\ item = <<u, item[2]>>
  BY DEF TypeOK
<1>2. dist[u] \in Nat /\ dist[u] <= item[2]
  BY <1>1 DEF TypeOK, TreeInvs, HeapInv, Reached
<1>3. <<u, dist[u]>> \in pq
  BY <1>1 DEF TreeInvs, FrontierInv, HeapInv
<1>4. item[2] <= dist[u]
  BY <1>3 DEF Visit, IsMin
<1>5. item[2] = dist[u]
  BY <1>1, <1>2, <1>4
<1>6. \A w \in visited : dist[w] <= dist[u]
  BY <1>3 DEF TreeInvs, OrderInv
<1>7. ASSUME NEW v \in Improved(u) PROVE v \in Node /\ v \notin visited /\ v # Local /\ v # u
  <2>1. v \in Node /\ (~Reached(v) \/ dist[u] + 1 < dist[v])
    BY <1>7 DEF Improved, Reached
  <2>2. v \notin visited
    BY <1>2, <1>6, <2>1 DEF TypeOK, TreeInvs, VisitedInv, Reached, Unreached
  <2>3. v # Local /\ v # u
    BY <1>2, <2>1 DEF TreeInvs, RootInv, Reached, Unreached
  <2> QED
    BY <2>1, <2>2, <2>3
<1> QED
  BY <1>1, <1>2, <1>5, <1>6, <1>7

(* The invariant survives a turn of the loop. *)
LEMMA VisitPreserves ==
    ASSUME TypeOK, TypeOK', TreeInvs, NEW item \in pq, Visit(item)
    PROVE  TreeInvs'
<1> DEFINE u == item[1]
<1>1. CASE u \in visited
  <2>1. pq' = pq \ {item} /\ UNCHANGED <<adj, dist, prev, visited>>
    BY <1>1 DEF Visit
  <2>2. RootInv' /\ TreeInv' /\ VisitedInv' /\ HeapInv' /\ OrderInv' /\ RelaxedInv'
    BY <2>1 DEF TreeInvs, RootInv, TreeInv, VisitedInv, HeapInv, OrderInv, RelaxedInv, Reached
  <2>3. FrontierInv'
    <3> SUFFICES ASSUME NEW v \in Node \ visited, Reached(v) PROVE <<v, dist[v]>> \in pq \ {item}
      BY <2>1 DEF FrontierInv, Reached
    <3> QED
      BY <1>1 DEF TreeInvs, FrontierInv
  <2> QED
    BY <2>2, <2>3 DEF TreeInvs
<1>2. CASE u \notin visited
  <2>1. /\ u \in Node /\ dist[u] \in Nat /\ item = <<u, dist[u]>>
        /\ \A w \in visited : dist[w] <= dist[u]
        /\ \A v \in Improved(u) : v \in Node /\ v \notin visited /\ v # Local /\ v # u
    BY <1>2, PoppedIsNearest
  <2>2. /\ visited' = visited \cup {u} /\ adj' = adj
        /\ \A v \in Node : dist'[v] = IF v \in Improved(u) THEN dist[u] + 1 ELSE dist[v]
        /\ \A v \in Node : prev'[v] = IF v \in Improved(u) THEN u ELSE prev[v]
        /\ pq' = (pq \ {item}) \cup {<<v, dist[u] + 1>> : v \in Improved(u)}
    BY <1>2 DEF Visit
  <2>3. visited \subseteq Node /\ Local \in Node
    BY NodeAssumption DEF TypeOK
  <2>4. \A w \in visited \cup {u} : dist'[w] = dist[w]
    BY <2>1, <2>2, <2>3
  <2>5. \A v \in Node : Reached(v) => dist[v] \in Nat /\ Reached(v)' /\ dist'[v] <= dist[v]
    <3> SUFFICES ASSUME NEW v \in Node, Reached(v)
                 PROVE  dist[v] \in Nat /\ Reached(v)' /\ dist'[v] <= dist[v]
      OBVIOUS
    <3>1. dist[v] \in Nat
      BY DEF Reached, TypeOK
    <3>2. v \in Improved(u) => dist[u] + 1 < dist[v]
      BY DEF Improved, Reached
    <3> QED
      BY <2>1, <2>2, <3>1, <3>2 DEF Reached, Unreached
  <2>6. RootInv'
    BY <2>1, <2>2, <2>3 DEF TreeInvs, RootInv
  <2>7. VisitedInv'
    BY <2>1, <2>2, <2>3, <2>4 DEF TreeInvs, VisitedInv, Reached, Unreached
  <2>8. TreeInv'
    <3> SUFFICES ASSUME NEW v \in Node \ {Local}, Reached(v)'
                 PROVE  /\ prev'[v] \in visited' /\ <<prev'[v], v>> \in adj'
                        /\ dist'[prev'[v]] # Unreached /\ dist'[v] = dist'[prev'[v]] + 1
      BY DEF TreeInv, Reached
    <3>1. CASE v \in Improved(u)
      BY <2>1, <2>2, <2>4, <3>1 DEF Improved, Unreached
    <3>2. CASE v \notin Improved(u)
      <4>1. prev'[v] = prev[v] /\ dist'[v] = dist[v] /\ Reached(v)
        BY <2>2, <3>2 DEF Reached
      <4>2. /\ prev[v] \in visited /\ <<prev[v], v>> \in adj
            /\ dist[prev[v]] # Unreached /\ dist[v] = dist[prev[v]] + 1
        BY <4>1 DEF TreeInvs, TreeInv, Reached
      <4> QED
        BY <2>2, <2>4, <4>1, <4>2
    <3> QED
      BY <3>1, <3>2
  <2>9. HeapInv'
    <3> SUFFICES ASSUME NEW i \in pq' PROVE Reached(i[1])' /\ dist'[i[1]] <= i[2]
      BY DEF HeapInv
    <3>1. CASE i \in pq
      <4>1. i[1] \in Node /\ i[2] \in Nat /\ Reached(i[1]) /\ dist[i[1]] <= i[2]
        BY <3>1 DEF TypeOK, TreeInvs, HeapInv
      <4>2. dist'[i[1]] \in Int /\ dist'[i[1]] <= dist[i[1]] /\ dist[i[1]] \in Nat /\ Reached(i[1])'
        BY <2>5, <4>1 DEF TypeOK, Unreached
      <4> QED
        BY <4>1, <4>2
    <3>2. CASE i \notin pq
      <4>1. PICK v \in Improved(u) : i = <<v, dist[u] + 1>>
        BY <2>2, <3>2
      <4>2. i[1] = v /\ i[2] = dist[u] + 1 /\ dist'[v] = dist[u] + 1
        BY <2>1, <2>2, <4>1
      <4> QED
        BY <2>1, <4>2 DEF Reached, Unreached
    <3> QED
      BY <3>1, <3>2
  <2>10. FrontierInv'
    <3> SUFFICES ASSUME NEW v \in Node \ visited', Reached(v)' PROVE <<v, dist'[v]>> \in pq'
      BY DEF FrontierInv
    <3>1. v # u /\ v \notin visited
      BY <2>2
    <3>2. CASE v \in Improved(u)
      BY <2>2, <3>2
    <3>3. CASE v \notin Improved(u)
      <4>1. dist'[v] = dist[v] /\ Reached(v)
        BY <2>2, <3>3 DEF Reached
      <4>2. <<v, dist[v]>> \in pq
        BY <3>1, <4>1 DEF TreeInvs, FrontierInv
      <4> QED
        BY <2>1, <2>2, <3>1, <4>1, <4>2
    <3> QED
      BY <3>2, <3>3
  <2>11. OrderInv'
    <3> SUFFICES ASSUME NEW w \in visited \cup {u}, NEW i \in pq' PROVE dist[w] <= i[2]
      BY <2>2, <2>4 DEF OrderInv
    <3>1. dist[w] \in Int /\ dist[w] <= dist[u]
      BY <2>1, <2>3 DEF TypeOK, Unreached
    <3>2. CASE i \in pq
      <4>1. dist[u] <= i[2] /\ i[2] \in Nat
        BY <2>1, <3>2 DEF Visit, IsMin, TypeOK
      <4> QED
        BY <2>1, <3>1, <4>1
    <3>3. CASE i \notin pq
      <4>1. i[2] = dist[u] + 1
        BY <2>2, <3>3
      <4> QED
        BY <2>1, <3>1, <4>1
    <3> QED
      BY <3>2, <3>3
  <2>12. RelaxedInv'
    <3> SUFFICES ASSUME NEW w \in visited \cup {u}, NEW v \in Node, <<w, v>> \in adj
                 PROVE  Reached(v)' /\ dist'[v] <= dist[w] + 1
      BY <2>2, <2>4 DEF RelaxedInv
    <3>1. CASE w = u
      <4>1. CASE v \in Improved(u)
        BY <2>1, <2>2, <3>1, <4>1 DEF Reached, Unreached
      <4>2. CASE v \notin Improved(u)
        <5>1. dist[v] # Unreached /\ ~(dist[u] + 1 < dist[v])
          BY <3>1, <4>2 DEF Improved
        <5>2. dist[v] \in Int /\ dist'[v] = dist[v]
          BY <2>2, <4>2 DEF TypeOK, Unreached
        <5> QED
          BY <2>1, <3>1, <5>1, <5>2 DEF Reached
      <4> QED
        BY <4>1, <4>2
    <3>2. CASE w \in visited
      <4>1. Reached(v) /\ dist[v] <= dist[w] + 1
        BY <3>2 DEF TreeInvs, RelaxedInv
      <4>2. dist[w] \in Int /\ dist'[v] \in Int /\ dist[v] \in Int
        BY <2>3, <3>2 DEF TypeOK, Unreached
      <4> QED
        BY <2>5, <4>1, <4>2
    <3> QED
      BY <3>1, <3>2
  <2> QED
    BY <2>6, <2>7, <2>8, <2>9, <2>10, <2>11, <2>12 DEF TreeInvs
<1> QED
  BY <1>1, <1>2

-----------------------------------------------------------------------------
(* The invariant of the walk of resolveNextHop: it stays on reached nodes, *)
(* and what was walked and what is left add up to the distance of dest.    *)
WalkInv ==
    dest # NoNode =>
        /\ pq = {} /\ Reached(curr) /\ Reached(dest)
        /\ hops + dist[curr] = dist[dest]
        /\ curr = Local => dest = Local

NotStartedInv == dest = NoNode => hops = 0

SPFInv == TreeInvs /\ WalkInv /\ NotStartedInv

LEMMA SPFInvariant == Spec => []SPFInv
<1> USE NodeAssumption
<1>1. Init => SPFInv
  <2> SUFFICES ASSUME Init PROVE SPFInv
    OBVIOUS
  <2>1. /\ dist[Local] = 0 /\ \A v \in Node \ {Local} : dist[v] = Unreached
        /\ prev[Local] = NoNode
    BY DEF Init
  <2>2. TreeInvs
    BY <2>1 DEF Init, TreeInvs, RootInv, TreeInv, VisitedInv, HeapInv, FrontierInv, OrderInv,
                RelaxedInv, Reached, Unreached
  <2> QED
    BY <2>2 DEF Init, SPFInv, WalkInv, NotStartedInv
<1>2. TypeOK /\ TypeOK' /\ SPFInv /\ [Next]_vars => SPFInv'
  <2> SUFFICES ASSUME TypeOK, TypeOK', SPFInv, [Next]_vars PROVE SPFInv'
    OBVIOUS
  <2>1. ASSUME NEW item \in pq, Visit(item) PROVE SPFInv'
    <3>1. TreeInvs'
      BY <2>1, VisitPreserves DEF SPFInv
    <3>2. dest = NoNode /\ dest' = dest /\ hops' = hops
      BY <2>1 DEF SPFInv, WalkInv, Visit
    <3> QED
      BY <3>1, <3>2 DEF SPFInv, WalkInv, NotStartedInv
  <2>2. ASSUME NEW d \in Node, CallResolve(d) PROVE SPFInv'
    <3>1. TreeInvs'
      BY <2>2 DEF CallResolve, SPFInv, TreeInvs, RootInv, TreeInv, VisitedInv, HeapInv,
                  FrontierInv, OrderInv, RelaxedInv, Reached
    <3>2. /\ pq' = {} /\ hops' = 0 /\ dest' = d /\ curr' = d /\ dist' = dist
          /\ dist[d] \in Nat /\ dist[d] # Unreached
      BY <2>2 DEF CallResolve, SPFInv, NotStartedInv, TypeOK
    <3> QED
      BY <3>1, <3>2 DEF SPFInv, WalkInv, NotStartedInv, Reached
  <2>3. ASSUME WalkBack PROVE SPFInv'
    <3>1. TreeInvs'
      BY <2>3 DEF WalkBack, SPFInv, TreeInvs, RootInv, TreeInv, VisitedInv, HeapInv,
                  FrontierInv, OrderInv, RelaxedInv, Reached
    <3>2. /\ curr' = prev[curr] /\ hops' = hops + 1 /\ dest' = dest /\ dest # NoNode
          /\ prev[curr] \notin {NoNode, Local} /\ UNCHANGED <<dist, pq>>
      BY <2>3 DEF WalkBack
    <3>3. /\ curr \in Node /\ dest \in Node /\ Reached(curr) /\ Reached(dest) /\ pq = {}
          /\ hops + dist[curr] = dist[dest]
      BY <3>2 DEF TypeOK, SPFInv, WalkInv
    <3>4. curr # Local
      BY <3>2 DEF SPFInv, TreeInvs, RootInv
    <3>5. prev[curr] \in Node /\ Reached(prev[curr]) /\ dist[curr] = dist[prev[curr]] + 1
      BY <3>3, <3>4 DEF SPFInv, TreeInvs, TreeInv, TypeOK
    <3>6. dist[prev[curr]] \in Nat /\ hops \in Nat /\ dist[dest] \in Nat
      BY <3>3, <3>5 DEF TypeOK, Reached
    <3>7. (hops + 1) + dist[prev[curr]] = dist[dest]
      BY <3>3, <3>5, <3>6
    <3> QED
      BY <3>1, <3>2, <3>3, <3>5, <3>7 DEF SPFInv, WalkInv, NotStartedInv, Reached
  <2>4. CASE UNCHANGED vars
    BY <2>4 DEF vars, SPFInv, TreeInvs, RootInv, TreeInv, VisitedInv, HeapInv, FrontierInv,
                OrderInv, RelaxedInv, Reached, WalkInv, NotStartedInv
  <2> QED
    BY <2>1, <2>2, <2>3, <2>4 DEF Next
<1> QED
  BY <1>1, <1>2, TypeCorrect, PTL DEF Spec

(* runDijkstra returns a shortest-path tree, for every set of routers,     *)
(* every graph and every order in which the heap breaks ties.              *)
THEOREM SPFCorrect == Spec => []ReturnsShortestPathTree
<1>1. TypeOK /\ SPFInv => ReturnsShortestPathTree
  <2> SUFFICES ASSUME TypeOK, SPFInv, pq = {} PROVE ShortestPathTree
    BY DEF ReturnsShortestPathTree
  <2>1. \A v \in Node : Reached(v) => v \in visited
    BY DEF SPFInv, TreeInvs, FrontierInv
  <2>2. dist[Local] = 0
    BY DEF SPFInv, TreeInvs, RootInv
  <2>3. \A u, v \in Node : <<u, v>> \in adj /\ dist[u] # Unreached =>
            dist[v] # Unreached /\ dist[v] <= dist[u] + 1
    BY <2>1 DEF SPFInv, TreeInvs, RelaxedInv, Reached
  <2>4. \A v \in Node \ {Local} : dist[v] # Unreached =>
            /\ prev[v] \in Node /\ <<prev[v], v>> \in adj
            /\ dist[prev[v]] # Unreached /\ dist[v] = dist[prev[v]] + 1
    BY DEF SPFInv, TreeInvs, TreeInv, Reached, TypeOK
  <2> QED
    BY <2>2, <2>3, <2>4 DEF ShortestPathTree
<1> QED
  BY <1>1, SPFInvariant, TypeCorrect, PTL

-----------------------------------------------------------------------------
(* Arguments by least counterexample. *)
LEMMA LeastElement ==
    ASSUME NEW T \in SUBSET Nat, T # {}
    PROVE  \E x \in T : \A y \in T : x <= y
<1>1. PICK x \in T : \A y \in T : ~ (<<y, x>> \in OpToRel(<, Nat))
  BY WFMin, NatLessThanWellFounded
<1>2. \A y \in T : ~ (y < x)
  BY <1>1 DEF OpToRel
<1> QED
  BY <1>2

(* Every number up to the distance of v is the distance of some node, so   *)
(* no distance exceeds the number of nodes.                                *)
LEMMA DistancesBelowSize ==
    ASSUME TypeOK, ShortestPathTree, NEW v \in Node, dist[v] # Unreached
    PROVE  dist[v] \in 0..Cardinality(Node)
<1> DEFINE n == dist[v]
<1>1. n \in Nat /\ Cardinality(Node) \in Nat
  BY NodeAssumption, FS_CardinalityType DEF TypeOK
<1> HIDE DEF n
<1>2. \A m \in 0..n : \E w \in Node : dist[w] = n - m
  <2> DEFINE missing == {m \in 0..n : ~ \E w \in Node : dist[w] = n - m}
  <2> SUFFICES ASSUME missing # {} PROVE FALSE
    OBVIOUS
  <2>1. missing \in SUBSET Nat
    BY <1>1
  <2>2. PICK m \in missing : \A j \in missing : m <= j
    BY <2>1, LeastElement
  <2>3. m # 0
    BY <1>1 DEF n
  <2>4. m - 1 \in 0..n /\ m - 1 \notin missing
    BY <1>1, <2>2, <2>3
  <2>5. PICK w \in Node : dist[w] = n - (m - 1)
    BY <2>4
  <2>6. dist[w] \in Nat /\ dist[w] # 0
    BY <1>1, <2>2, <2>5
  <2>7. prev[w] \in Node /\ dist[prev[w]] \in Nat /\ dist[w] = dist[prev[w]] + 1
    <3>1. w # Local /\ dist[w] # Unreached
      BY <2>6 DEF ShortestPathTree, Unreached
    <3>2. prev[w] \in Node /\ dist[prev[w]] # Unreached /\ dist[w] = dist[prev[w]] + 1
      BY <3>1 DEF ShortestPathTree
    <3> QED
      BY <3>2 DEF TypeOK
  <2>8. dist[prev[w]] = n - m
    BY <1>1, <2>2, <2>5, <2>7
  <2> QED
    BY <2>7, <2>8
<1>3. \A k \in 0..n : \E w \in Node : dist[w] = k
  <2> SUFFICES ASSUME NEW k \in 0..n PROVE \E w \in Node : dist[w] = k
    OBVIOUS
  <2>1. n - k \in 0..n /\ n - (n - k) = k
    BY <1>1
  <2> QED
    BY <1>2, <2>1
<1> DEFINE at == [k \in 0..n |-> CHOOSE w \in Node : dist[w] = k]
<1>4. at \in Injection(0..n, Node)
  <2>1. \A k \in 0..n : at[k] \in Node /\ dist[at[k]] = k
    BY <1>3
  <2>2. at \in [0..n -> Node]
    BY <2>1
  <2> HIDE DEF at
  <2>3. \A j, k \in 0..n : at[j] = at[k] => j = k
    BY <2>1
  <2> QED
    BY <2>2, <2>3 DEF Injection, IsInjective
<1>5. Cardinality(0..n) <= Cardinality(Node)
  BY <1>4, FS_Injection, NodeAssumption
<1>6. Cardinality(0..n) = n + 1
  BY <1>1, FS_Interval
<1>7. n <= Cardinality(Node)
  BY <1>1, <1>5, <1>6
<1> QED
  BY <1>1, <1>7 DEF n

(* The reference, when the calculation has ended.  Within is the only      *)
(* function that satisfies its equation, and the distances do.             *)
LEMMA WithinDistance ==
    ASSUME TypeOK, ShortestPathTree
    PROVE  \A k \in 0..Cardinality(Node) :
               Within[k] = {v \in Node : dist[v] # Unreached /\ dist[v] <= k}
<1> DEFINE N == 0..Cardinality(Node)
<1> DEFINE Step(f, k) ==
        IF k = 0 THEN {Local}
        ELSE f[k - 1] \cup {v \in Node : \E u \in f[k - 1] : <<u, v>> \in adj}
<1> DEFINE near == [k \in N |-> {v \in Node : dist[v] # Unreached /\ dist[v] <= k}]
<1>1. Cardinality(Node) \in Nat /\ \A k \in N : k \in Nat /\ (k # 0 => k - 1 \in N)
  BY NodeAssumption, FS_CardinalityType
<1>2. \A v \in Node : dist[v] # Unreached => dist[v] \in Nat
  BY DEF TypeOK
<1>3. ASSUME NEW k \in N PROVE near[k] = Step(near, k)
  <2>1. CASE k = 0
    <3>1. \A v \in Node \ {Local} : dist[v] # Unreached => dist[v] > 0
      <4> SUFFICES ASSUME NEW v \in Node \ {Local}, dist[v] # Unreached PROVE dist[v] > 0
        OBVIOUS
      <4>1. prev[v] \in Node /\ dist[prev[v]] # Unreached /\ dist[v] = dist[prev[v]] + 1
        BY DEF ShortestPathTree
      <4> QED
        BY <1>2, <4>1
    <3>2. dist[Local] = 0 /\ Local \in Node
      BY NodeAssumption DEF ShortestPathTree
    <3> QED
      BY <1>2, <2>1, <3>1, <3>2 DEF Unreached
  <2>2. CASE k # 0
    <3>1. k \in Nat /\ k - 1 \in N /\ k - 1 \in Nat
      BY <1>1, <2>2
    <3>2. \A j \in N : near[j] = {v \in Node : dist[v] # Unreached /\ dist[v] <= j}
      OBVIOUS
    <3>3. ASSUME NEW v \in near[k] PROVE v \in Step(near, k)
      <4>1. v \in Node /\ dist[v] # Unreached /\ dist[v] <= k
        BY <3>2, <3>3
      <4>2. CASE v = Local
        BY <2>2, <3>1, <3>2, <4>1, <4>2 DEF ShortestPathTree
      <4>3. CASE v # Local
        <5>1. /\ prev[v] \in Node /\ <<prev[v], v>> \in adj
              /\ dist[prev[v]] # Unreached /\ dist[v] = dist[prev[v]] + 1
          BY <4>1, <4>3 DEF ShortestPathTree
        <5>2. prev[v] \in near[k - 1]
          BY <1>2, <3>1, <3>2, <4>1, <5>1
        <5> HIDE DEF near
        <5> QED
          BY <2>2, <4>1, <5>1, <5>2
      <4> QED
        BY <4>2, <4>3
    <3>4. ASSUME NEW v \in Step(near, k) PROVE v \in near[k]
      <4>1. CASE v \in near[k - 1]
        BY <1>2, <3>1, <3>2, <4>1
      <4>2. ASSUME v \in Node, NEW u \in near[k - 1], <<u, v>> \in adj PROVE v \in near[k]
        <5>1. u \in Node /\ dist[u] # Unreached /\ dist[u] <= k - 1
          BY <3>1, <3>2, <4>2
        <5>2. dist[v] # Unreached /\ dist[v] <= dist[u] + 1
          BY <4>2, <5>1 DEF ShortestPathTree
        <5> QED
          BY <1>2, <3>1, <3>2, <4>2, <5>1, <5>2
      <4> HIDE DEF near
      <4> QED
        BY <2>2, <3>4, <4>1, <4>2
    <3> QED
      BY <3>3, <3>4
  <2> QED
    BY <2>1, <2>2
<1>4. near = [k \in N |-> Step(near, k)]
  <2>1. near = [k \in N |-> near[k]]
    OBVIOUS
  <2> HIDE DEF near
  <2> QED
    BY <1>3, <2>1
<1>5. Within = [k \in N |-> Step(Within, k)]
  <2>1. \E f : f = [k \in N |-> Step(f, k)]
    BY <1>4
  <2> HIDE DEF near
  <2> QED
    BY <2>1 DEF Within
<1>6. \A k \in N : Within[k] = near[k]
  <2> DEFINE wrong == {k \in N : Within[k] # near[k]}
  <2> SUFFICES ASSUME wrong # {} PROVE FALSE
    OBVIOUS
  <2>1. wrong \in SUBSET Nat
    BY <1>1
  <2>2. PICK k \in wrong : \A j \in wrong : k <= j
    BY <2>1, LeastElement
  <2>3. k \in N /\ Within[k] # near[k]
    OBVIOUS
  <2>4. Within[k] = Step(Within, k) /\ near[k] = Step(near, k)
    BY <1>3, <1>5, <2>3
  <2>5. CASE k = 0
    BY <2>3, <2>4, <2>5
  <2>6. CASE k # 0
    <3>1. k - 1 \in N /\ k - 1 \notin wrong
      <4>1. k \in Nat /\ k - 1 \in N /\ ~(k <= k - 1)
        BY <1>1, <2>3, <2>6
      <4> QED
        BY <2>2, <4>1
    <3>2. Within[k - 1] = near[k - 1]
      BY <3>1
    <3> HIDE DEF near
    <3> QED
      BY <2>3, <2>4, <2>6, <3>2
  <2> QED
    BY <2>5, <2>6
<1> QED
  BY <1>6

(* The distances are those of the reference: the length of a shortest walk *)
(* from Local, and Unreached where there is none.                          *)
THEOREM DistancesCorrect == Spec => []DistancesAreShortest
<1>1. TypeOK /\ ReturnsShortestPathTree => DistancesAreShortest
  <2> SUFFICES ASSUME TypeOK, ShortestPathTree, NEW v \in Node
               PROVE  LET ks == {k \in 0..Cardinality(Node) : v \in Within[k]}
                      IN  dist[v] = IF ks = {} THEN Unreached ELSE Min(ks)
    BY DEF ReturnsShortestPathTree, DistancesAreShortest
  <2> DEFINE ks == {k \in 0..Cardinality(Node) : v \in Within[k]}
  <2>1. ks = {k \in 0..Cardinality(Node) : dist[v] # Unreached /\ dist[v] <= k}
    BY WithinDistance
  <2> HIDE DEF ks
  <2>2. ASSUME dist[v] = Unreached PROVE ks = {}
    BY <2>1, <2>2
  <2>3. ASSUME dist[v] # Unreached PROVE ks # {} /\ Min(ks) = dist[v]
    <3>1. dist[v] \in 0..Cardinality(Node)
      BY <2>3, DistancesBelowSize
    <3>2. dist[v] \in ks /\ \A k \in ks : dist[v] <= k
      BY <2>1, <2>3, <3>1
    <3>3. \A x \in ks : (\A k \in ks : x <= k) => x = dist[v]
      BY <2>1, <3>1, <3>2
    <3>4. Min(ks) = dist[v]
      BY <3>2, <3>3 DEF Min
    <3> QED
      BY <3>2, <3>4
  <2> QED
    BY <2>2, <2>3 DEF ks
<1> QED
  BY <1>1, SPFCorrect, TypeCorrect, PTL

-----------------------------------------------------------------------------
(* resolveNextHop returns an immediate neighbour that lies on a shortest   *)
(* path to the destination.                                                *)
THEOREM NextHopCorrect == Spec => []NextHopIsOnShortestPath
<1> USE NodeAssumption
<1>1. TypeOK /\ SPFInv => NextHopIsOnShortestPath
  <2> SUFFICES ASSUME TypeOK, SPFInv, dest # NoNode, prev[curr] = Local
               PROVE  <<Local, curr>> \in adj /\ dist[curr] = 1 /\ hops + 1 = dist[dest]
    BY DEF NextHopIsOnShortestPath, Resolved
  <2>1. curr \in Node /\ Reached(curr) /\ hops + dist[curr] = dist[dest]
    BY DEF TypeOK, SPFInv, WalkInv
  <2>2. curr # Local /\ dist[Local] = 0
    BY DEF SPFInv, TreeInvs, RootInv
  <2>3. <<Local, curr>> \in adj /\ dist[curr] = dist[Local] + 1
    BY <2>1, <2>2 DEF SPFInv, TreeInvs, TreeInv
  <2> QED
    BY <2>1, <2>2, <2>3
<1> QED
  BY <1>1, SPFInvariant, TypeCorrect, PTL

(* resolveNextHop fails for the router itself only. *)
THEOREM OnlyLocalGivesUp == Spec => []OnlyLocalUnresolved
<1> USE NodeAssumption
<1>1. TypeOK /\ SPFInv => OnlyLocalUnresolved
  <2> SUFFICES ASSUME TypeOK, SPFInv, dest # NoNode, prev[curr] = NoNode
               PROVE  dest = Local
    BY DEF OnlyLocalUnresolved, Unresolved
  <2>1. curr \in Node /\ Reached(curr)
    BY DEF TypeOK, SPFInv, WalkInv
  <2>2. curr = Local
    BY <2>1 DEF SPFInv, TreeInvs, TreeInv, TypeOK
  <2> QED
    BY <2>2 DEF SPFInv, WalkInv
<1> QED
  BY <1>1, SPFInvariant, TypeCorrect, PTL

-----------------------------------------------------------------------------
(* What bounds a calculation.  With cost 1 on every link the heap spans two *)
(* levels, so an item is never outdated.                                    *)
LevelInv ==
    /\ \A item \in pq : item[1] \notin visited /\ item[2] = dist[item[1]]
    /\ \A v \in Node : \A item \in pq : Reached(v) => dist[v] <= item[2] + 1

LEMMA LevelInvariant == Spec => []LevelInv
<1> USE NodeAssumption
<1>1. Init => LevelInv
  BY DEF Init, LevelInv, Reached, Unreached
<1>2. TypeOK /\ SPFInv /\ LevelInv /\ [Next]_vars => LevelInv'
  <2> SUFFICES ASSUME TypeOK, SPFInv, LevelInv, [Next]_vars PROVE LevelInv'
    OBVIOUS
  <2>1. ASSUME NEW item \in pq, Visit(item) PROVE LevelInv'
    <3> DEFINE u == item[1]
               d == dist[u]
               new == {<<v, d + 1>> : v \in Improved(u)}
    <3>1. u \in Node /\ u \notin visited /\ item[2] = d /\ item = <<u, d>> /\ d \in Nat
      BY DEF LevelInv, TypeOK
    <3>2. \A other \in pq : d <= other[2] /\ other[2] \in Nat /\ other = <<other[1], other[2]>>
      BY <2>1, <3>1 DEF Visit, IsMin, TypeOK
    <3>3. \A v \in Node : Reached(v) => dist[v] \in Nat /\ dist[v] <= d + 1
      BY <3>1 DEF LevelInv, TypeOK, Reached
    <3>4. \A v \in Improved(u) : v \in Node /\ ~Reached(v)
      BY <3>1, <3>3 DEF Improved, Reached
    <3>5. /\ visited' = visited \cup {u} /\ pq' = (pq \ {item}) \cup new
          /\ dist' = [v \in Node |-> IF v \in Improved(u) THEN d + 1 ELSE dist[v]]
      BY <2>1, <3>1 DEF Visit
    <3>6. \A v \in Node : dist'[v] = IF v \in Improved(u) THEN d + 1 ELSE dist[v]
      BY <3>5
    <3>7. ASSUME NEW other \in pq'
          PROVE  /\ other[1] \notin visited' /\ other[2] = dist'[other[1]]
                 /\ other[2] \in Nat /\ d <= other[2]
      <4>1. CASE other \in pq \ {item}
        <5>1. other[1] \in Node /\ other[1] \notin visited /\ other[2] = dist[other[1]]
          BY <4>1 DEF LevelInv, TypeOK
        <5>2. other[1] # u
          BY <3>1, <3>2, <4>1, <5>1
        <5>3. other[1] \notin Improved(u)
          BY <3>4, <4>1 DEF SPFInv, TreeInvs, HeapInv
        <5> QED
          BY <3>2, <3>5, <3>6, <4>1, <5>1, <5>2, <5>3
      <4>2. CASE other \in new
        <5>1. PICK v \in Improved(u) : other = <<v, d + 1>>
          BY <4>2
        <5>2. v \notin visited /\ v # u
          BY <3>1, <3>4 DEF SPFInv, TreeInvs, VisitedInv, Reached, Unreached
        <5> QED
          BY <3>1, <3>4, <3>5, <3>6, <5>1, <5>2
      <4> QED
        BY <3>5, <4>1, <4>2
    <3>8. ASSUME NEW v \in Node, NEW other \in pq', dist'[v] # Unreached
          PROVE  dist'[v] <= other[2] + 1
      <4>1. dist'[v] \in Nat /\ dist'[v] <= d + 1
        BY <3>1, <3>3, <3>6, <3>8 DEF Reached
      <4> QED
        BY <3>1, <3>7, <4>1
    <3> QED
      BY <3>7, <3>8 DEF LevelInv, Reached, Unreached
  <2>2. ASSUME (\E n \in Node : CallResolve(n)) \/ WalkBack \/ UNCHANGED vars PROVE LevelInv'
    BY <2>2 DEF CallResolve, WalkBack, vars, LevelInv, Reached
  <2> QED
    BY <2>1, <2>2 DEF Next
<1> QED
  BY <1>1, <1>2, TypeCorrect, SPFInvariant, PTL DEF Spec

(* Every turn of runDijkstra's loop visits a new node: its test of visited  *)
(* never skips an item, and there are at most as many turns as nodes.       *)
THEOREM TurnsBounded == Spec => EveryTurnVisits
<1>1. LevelInv => [\A item \in pq : Visit(item) => item[1] \notin visited]_vars
  BY DEF LevelInv
<1> QED
  BY <1>1, LevelInvariant, PTL DEF EveryTurnVisits

(* No call gets stuck half way: a heap that is not empty has an item to pop *)
(* (heap.Pop), and the walk of resolveNextHop takes at most as many steps   *)
(* as there are nodes, each one towards the router.                         *)
THEOREM CalculationBounded ==
    Spec => /\ [](pq # {} => \E item \in pq : IsMin(item))
            /\ [](hops <= Cardinality(Node))
            /\ [][WalkBack => dist[curr'] < dist[curr]]_vars
<1> USE NodeAssumption
<1>1. TypeOK => (pq # {} => \E item \in pq : IsMin(item))
  <2> SUFFICES ASSUME TypeOK, pq # {} PROVE \E item \in pq : IsMin(item)
    OBVIOUS
  <2> DEFINE T == {item[2] : item \in pq}
  <2>1. T \in SUBSET Nat /\ T # {}
    BY DEF TypeOK
  <2>2. PICK x \in T : \A y \in T : x <= y
    <3> HIDE DEF T
    <3> QED BY <2>1, LeastElement
  <2> QED
    BY <2>2 DEF IsMin
<1>2. TypeOK /\ SPFInv /\ ReturnsShortestPathTree => hops <= Cardinality(Node)
  <2> SUFFICES ASSUME TypeOK, SPFInv, ReturnsShortestPathTree PROVE hops <= Cardinality(Node)
    OBVIOUS
  <2>1. Cardinality(Node) \in Nat
    BY FS_CardinalityType
  <2>2. CASE dest = NoNode
    BY <2>1, <2>2 DEF SPFInv, NotStartedInv
  <2>3. CASE dest # NoNode
    <3>1. /\ dest \in Node /\ curr \in Node /\ dist[dest] # Unreached /\ dist[curr] # Unreached
          /\ hops + dist[curr] = dist[dest] /\ ShortestPathTree
      BY <2>3 DEF TypeOK, SPFInv, WalkInv, Reached, ReturnsShortestPathTree
    <3>2. dist[dest] \in 0..Cardinality(Node)
      BY <3>1, DistancesBelowSize
    <3>3. dist[curr] \in Nat /\ hops \in Nat
      BY <3>1 DEF TypeOK
    <3> QED
      BY <2>1, <3>1, <3>2, <3>3
  <2> QED
    BY <2>2, <2>3
<1>3. TypeOK /\ SPFInv => [WalkBack => dist[curr'] < dist[curr]]_vars
  <2> SUFFICES ASSUME TypeOK, SPFInv, WalkBack PROVE dist[curr'] < dist[curr]
    OBVIOUS
  <2>1. curr \in Node /\ Reached(curr) /\ prev[curr] # NoNode /\ curr' = prev[curr]
    BY DEF WalkBack, TypeOK, SPFInv, WalkInv
  <2>2. curr # Local
    BY <2>1 DEF SPFInv, TreeInvs, RootInv
  <2>3. prev[curr] \in Node /\ Reached(prev[curr]) /\ dist[curr] = dist[prev[curr]] + 1
    BY <2>1, <2>2 DEF SPFInv, TreeInvs, TreeInv, TypeOK
  <2>4. dist[prev[curr]] \in Nat
    BY <2>3 DEF TypeOK, Reached
  <2> QED
    BY <2>1, <2>3, <2>4
<1> QED
  BY <1>1, <1>2, <1>3, TypeCorrect, SPFInvariant, SPFCorrect, PTL
=============================================================================
