------------------------------ MODULE Dijkstra ------------------------------
(***************************************************************************)
(* runDijkstra and resolveNextHop of internal/olsr/spf.go, step by step,   *)
(* on an arbitrary directed graph: buildAdjacencyList gives every link the *)
(* cost 1, and TC tuples make links one-way.                               *)
(*                                                                         *)
(* The heap is a set of <<node, priority>> items: a node is pushed again   *)
(* only with a smaller priority, so no item occurs twice, and items of     *)
(* equal priority are popped in any order.                                 *)
(***************************************************************************)
EXTENDS Integers, FiniteSets, FiniteSetsExt

CONSTANTS
    Node,     \* addresses that occur in the adjacency list
    Links,    \* the links that HELLOs and TCs may report
    Local,    \* localID
    NoNode    \* a key that is not in the map prev

ASSUME NodeAssumption ==
    /\ IsFiniteSet(Node) /\ Local \in Node /\ NoNode \notin Node
    /\ Links \subseteq Node \X Node

VARIABLES
    adj,       \* the links, a set of pairs
    dist,      \* [Node -> Int], Unreached when there is no entry
    prev,      \* [Node -> Node \cup {NoNode}]
    visited,   \* SUBSET Node
    pq,        \* the heap
    dest,      \* the argument of resolveNextHop, NoNode before the call
    curr,      \* its local variable curr
    hops       \* history: links walked back from dest so far

vars == <<adj, dist, prev, visited, pq, dest, curr, hops>>

Unreached == -1

TypeOK ==
    /\ adj \subseteq Links
    /\ dist \in [Node -> Nat \cup {Unreached}]
    /\ prev \in [Node -> Node \cup {NoNode}]
    /\ visited \subseteq Node
    /\ pq \subseteq Node \X Nat
    /\ dest \in Node \cup {NoNode}
    /\ curr \in Node \cup {NoNode} /\ (curr = NoNode <=> dest = NoNode)
    /\ hops \in Nat

Init ==
    /\ adj \in SUBSET Links
    /\ dist = [n \in Node |-> IF n = Local THEN 0 ELSE Unreached]
    /\ prev = [n \in Node |-> NoNode]
    /\ visited = {}
    /\ pq = {<<Local, 0>>}
    /\ dest = NoNode
    /\ curr = NoNode
    /\ hops = 0

IsMin(item) == \A other \in pq : item[2] <= other[2]

(* Mutant of Improved: the comparison of the distances is missing. *)
ImprovedAlways(u) == {v \in Node : <<u, v>> \in adj}

(* Mutant of Improved: the links are followed backwards. *)
ImprovedBackwards(u) ==
    {v \in Node : <<v, u>> \in adj /\ (dist[v] = Unreached \/ dist[u] + 1 < dist[v])}

(* The successors of u whose distance the visit of u improves. *)
Improved(u) ==
    {v \in Node : <<u, v>> \in adj /\ (dist[v] = Unreached \/ dist[u] + 1 < dist[v])}

(* Mutant of Visit: the item is looked at and not popped. *)
VisitWithoutPop(item) ==
    LET u == item[1] IN
    /\ item \in pq /\ IsMin(item)
    /\ u \notin visited
    /\ visited' = visited \cup {u}
    /\ dist' = [v \in Node |-> IF v \in Improved(u) THEN dist[u] + 1 ELSE dist[v]]
    /\ prev' = [v \in Node |-> IF v \in Improved(u) THEN u ELSE prev[v]]
    /\ pq' = pq \cup {<<v, dist[u] + 1>> : v \in Improved(u)}
    /\ UNCHANGED <<adj, dest, curr, hops>>

(* Mutant of Visit: every neighbour is pushed, improved or not. *)
VisitPushesAll(item) ==
    LET u == item[1] IN
    /\ item \in pq /\ IsMin(item)
    /\ visited' = visited \cup {u}
    /\ dist' = [v \in Node |-> IF v \in Improved(u) THEN dist[u] + 1 ELSE dist[v]]
    /\ prev' = [v \in Node |-> IF v \in Improved(u) THEN u ELSE prev[v]]
    /\ pq' = (pq \ {item}) \cup
                 (IF u \in visited THEN {} ELSE {<<v, dist[u] + 1>> : v \in {w \in Node : <<u, w>> \in adj}})
    /\ UNCHANGED <<adj, dest, curr, hops>>

(* One turn of the loop: pop an item; skip it if its node was visited,     *)
(* relax its links otherwise.  The links lead to different nodes, so the   *)
(* order in which they are relaxed does not matter.                        *)
Visit(item) ==
    LET u == item[1] IN
    /\ item \in pq /\ IsMin(item)
    /\ IF u \in visited
       THEN /\ pq' = pq \ {item}
            /\ UNCHANGED <<dist, prev, visited>>
       ELSE /\ visited' = visited \cup {u}
            /\ dist' = [v \in Node |-> IF v \in Improved(u) THEN dist[u] + 1 ELSE dist[v]]
            /\ prev' = [v \in Node |-> IF v \in Improved(u) THEN u ELSE prev[v]]
            /\ pq' = (pq \ {item}) \cup {<<v, dist[u] + 1>> : v \in Improved(u)}
    /\ UNCHANGED <<adj, dest, curr, hops>>

(* CalculateRoutes calls resolveNextHop for the reached nodes and for the  *)
(* reached HNA gateways; Local can be a gateway of a received HNA entry.   *)
CallResolve(d) ==
    /\ pq = {} /\ dest = NoNode
    /\ dist[d] # Unreached
    /\ dest' = d /\ curr' = d
    /\ UNCHANGED <<adj, dist, prev, visited, pq, hops>>

(* Mutant of WalkBack: the loop does not stop below the router itself. *)
WalkBackTooFar ==
    /\ dest # NoNode
    /\ prev[curr] # NoNode
    /\ curr' = prev[curr] /\ hops' = hops + 1
    /\ UNCHANGED <<adj, dist, prev, visited, pq, dest>>

(* curr = parent, the step of resolveNextHop's loop. *)
WalkBack ==
    /\ dest # NoNode
    /\ prev[curr] \notin {NoNode, Local}
    /\ curr' = prev[curr] /\ hops' = hops + 1
    /\ UNCHANGED <<adj, dist, prev, visited, pq, dest>>

(* Mutant of Resolved: any predecessor ends the walk. *)
ResolvedTooEarly == dest # NoNode /\ prev[curr] # NoNode

(* The two returns of resolveNextHop: with a next hop, or ok = false. *)
Resolved   == dest # NoNode /\ prev[curr] = Local
Unresolved == dest # NoNode /\ prev[curr] = NoNode

Next ==
    \/ \E item \in pq : Visit(item)
    \/ \E d \in Node : CallResolve(d)
    \/ WalkBack

Spec == Init /\ [][Next]_vars

(* CalculateRoutes runs to its end once called. *)
FairSpec == Spec /\ WF_vars(Next)

-----------------------------------------------------------------------------
(* dist and prev form a shortest-path tree rooted at Local: every link out *)
(* of a reached node is relaxed, so no walk is shorter than dist says, and *)
(* every reached node hangs one link below its predecessor, so a walk of   *)
(* that length exists.                                                     *)
ShortestPathTree ==
    /\ dist[Local] = 0
    /\ \A u, v \in Node : <<u, v>> \in adj /\ dist[u] # Unreached =>
          dist[v] # Unreached /\ dist[v] <= dist[u] + 1
    /\ \A v \in Node \ {Local} : dist[v] # Unreached =>
          /\ prev[v] \in Node /\ <<prev[v], v>> \in adj
          /\ dist[prev[v]] # Unreached /\ dist[v] = dist[prev[v]] + 1

(* runDijkstra returns a shortest-path tree of any graph, whatever the     *)
(* order in which the heap returns items of equal priority.                *)
ReturnsShortestPathTree == pq = {} => ShortestPathTree

(* Reference: the nodes that some walk of at most k links reaches. *)
Within[k \in 0..Cardinality(Node)] ==
    IF k = 0 THEN {Local}
    ELSE Within[k - 1] \cup {v \in Node : \E u \in Within[k - 1] : <<u, v>> \in adj}

(* The distances returned are those of the reference. *)
DistancesAreShortest ==
    pq = {} => \A v \in Node :
        LET ks == {k \in 0..Cardinality(Node) : v \in Within[k]}
        IN  dist[v] = IF ks = {} THEN Unreached ELSE Min(ks)

(* The next hop of a route is an immediate neighbour of Local from which   *)
(* dest is reached in the remaining hops: following it shortens the way.   *)
NextHopIsOnShortestPath ==
    Resolved => /\ <<Local, curr>> \in adj /\ dist[curr] = 1
                /\ hops + 1 = dist[dest]

(* resolveNextHop gives up only when asked about the router itself. *)
OnlyLocalUnresolved == Unresolved => dest = Local

(* With cost 1 on every link an item of the heap is never outdated: every  *)
(* turn of the loop visits a new node, the test `if visited[u]' never      *)
(* skips one, and there are at most as many turns as nodes.                *)
EveryTurnVisits == [][\A item \in pq : Visit(item) => item[1] \notin visited]_vars

(* runDijkstra and the walk of resolveNextHop terminate: the predecessors  *)
(* form no cycle.                                                          *)
CalculationTerminates == <>(Resolved \/ Unresolved)
=============================================================================
