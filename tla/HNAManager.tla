----------------------------- MODULE HNAManager -----------------------------
(***************************************************************************)
(* internal/olsr/hna.go: the networks this router announces and the        *)
(* gateways it has heard of, and the loop of CalculateRoutes (spf.go) that *)
(* turns the gateways into routes.                                         *)
(*                                                                         *)
(* The manager's methods run under h.mu and are one action each; the loop  *)
(* works on the copy that GetHNAEntries returned, so HNA messages and      *)
(* aging may come between its turns.  Times are relative to the present,   *)
(* as in NeighborManager.  The distances that Dijkstra found are any       *)
(* function on the gateways; a network is not a host route of theirs.      *)
(***************************************************************************)
EXTENDS RelativeTime, FiniteSets

CONSTANTS
    Network,   \* network prefixes
    Gateway,   \* routers that announce them
    Vtime,     \* validity time of an HNA message
    MaxDist    \* bound on the distance of a gateway

ASSUME HNAAssumption == Vtime \in Nat \ {0} /\ MaxDist \in Nat \ {0}

Unreached == 0

VARIABLES
    localHNAs,   \* SUBSET Network                      h.localHNAs
    hnaSet,      \* [Network -> [Gateway -> Timer]]     h.hnaSet
    published,   \* the last step published an EventTopologyUpdate
    dist,        \* [Gateway -> 0..MaxDist]: the result of runDijkstra
    read,        \* the remote entries GetHNAEntries returned
    entries,     \* those the loop has yet to look at
    resolving,   \* the loop is running
    newRoutes    \* [Network -> [gw, metric]], metric 0 when there is no route

tables == <<localHNAs, hnaSet>>
loop   == <<dist, read, entries, resolving, newRoutes>>
vars   == <<tables, published, loop>>

Timer   == Absent..Vtime
NoRoute == [gw |-> "none", metric |-> 0]

TypeOK ==
    /\ localHNAs \subseteq Network
    /\ hnaSet \in [Network -> [Gateway -> Timer]]
    /\ published \in BOOLEAN
    /\ dist \in [Gateway -> 0..MaxDist]
    /\ read \subseteq Network \X Gateway /\ entries \subseteq read
    /\ resolving \in BOOLEAN
    /\ newRoutes \in [Network -> {NoRoute} \cup [gw : Gateway, metric : 1..(MaxDist + 1)]]

Init ==
    /\ localHNAs = {}
    /\ hnaSet = [n \in Network |-> [g \in Gateway |-> Absent]]
    /\ published = FALSE
    /\ dist = [g \in Gateway |-> Unreached]
    /\ read = {} /\ entries = {}
    /\ resolving = FALSE
    /\ newRoutes = [n \in Network |-> NoRoute]

-----------------------------------------------------------------------------
(* handleHNA (internal/api/handlers.go) with a valid prefix; all other     *)
(* requests change nothing.  The event is published with the context of    *)
(* the request: after the client has hung up it may be left out.           *)
AddLocalHNA(n) == localHNAs' = localHNAs \cup {n}

RemoveLocalHNA(n) == localHNAs' = localHNAs \ {n}

HandleHNA ==
    /\ \E n \in Network : AddLocalHNA(n) \/ RemoveLocalHNA(n)
    /\ published' \in BOOLEAN
    /\ UNCHANGED <<hnaSet, loop>>

(* Gateway g announces the networks nets; only a new entry is published. *)
ProcessHNA(g, nets) ==
    /\ hnaSet' = [n \in Network |-> [x \in Gateway |->
                     IF x = g /\ n \in nets THEN Vtime ELSE hnaSet[n][x]]]
    /\ published' = (\E n \in nets : hnaSet[n][g] = Absent)
    /\ UNCHANGED <<localHNAs, loop>>

(* Mutant of AgeOut: removals are not published. *)
AgeOutSilent ==
    /\ hnaSet' = [n \in Network |-> [g \in Gateway |->
                     IF hnaSet[n][g] = Expired THEN Absent ELSE hnaSet[n][g]]]
    /\ published' = FALSE
    /\ UNCHANGED <<localHNAs, loop>>

(* Mutant of AgeOut: the last gateway of a network is never removed. *)
AgeOutKeepsLast ==
    LET Removed(n, g) == hnaSet[n][g] = Expired /\ \E x \in Gateway \ {g} : hnaSet[n][x] # Absent
    IN  /\ hnaSet' = [n \in Network |-> [g \in Gateway |->
                         IF Removed(n, g) THEN Absent ELSE hnaSet[n][g]]]
        /\ published' = (\E n \in Network, g \in Gateway : Removed(n, g))
        /\ UNCHANGED <<localHNAs, loop>>

AgeOut ==
    /\ hnaSet' = [n \in Network |-> [g \in Gateway |->
                     IF hnaSet[n][g] = Expired THEN Absent ELSE hnaSet[n][g]]]
    /\ published' = (\E n \in Network, g \in Gateway : hnaSet[n][g] = Expired)
    /\ UNCHANGED <<localHNAs, loop>>

Tick ==
    /\ hnaSet' = [n \in Network |-> [g \in Gateway |-> Elapse(hnaSet[n][g])]]
    /\ published' = FALSE
    /\ UNCHANGED <<localHNAs, loop>>

(* GetHNAEntries, without the local entries, which the loop skips. *)
RemoteEntries == {e \in Network \X Gateway : hnaSet[e[1]][e[2]] # Absent}

-----------------------------------------------------------------------------
(* CalculateRoutes reaches step 4.  A gateway is another router, so it is  *)
(* reached at a distance of at least 1 or not at all.                      *)
BeginResolve ==
    /\ ~resolving
    /\ resolving' = TRUE
    /\ dist' \in [Gateway -> 0..MaxDist]
    /\ read' = RemoteEntries /\ entries' = RemoteEntries
    /\ newRoutes' = [n \in Network |-> NoRoute]
    /\ published' = FALSE
    /\ UNCHANGED tables

(* Mutant of Replaces: off by one in the comparison. *)
ReplacesFarther(gwDist, existing) == existing = NoRoute \/ gwDist <= existing.metric

(* The test under which an entry replaces the route found so far, whose    *)
(* metric is the distance of its gateway plus one.                         *)
Replaces(gwDist, existing) == existing = NoRoute \/ gwDist < existing.metric

(* One turn of the loop; the map is iterated in any order. *)
ResolveEntry(e) ==
    LET n == e[1]
        g == e[2]
    IN  /\ resolving /\ e \in entries
        /\ entries' = entries \ {e}
        /\ newRoutes' = [newRoutes EXCEPT ![n] =
              IF dist[g] # Unreached /\ Replaces(dist[g], @)
              THEN [gw |-> g, metric |-> dist[g] + 1] ELSE @]
        /\ published' = FALSE
        /\ UNCHANGED <<tables, dist, read, resolving>>

EndResolve ==
    /\ resolving /\ entries = {}
    /\ resolving' = FALSE
    /\ published' = FALSE
    /\ UNCHANGED <<tables, dist, read, entries, newRoutes>>

Next ==
    \/ HandleHNA
    \/ \E g \in Gateway, nets \in SUBSET Network : ProcessHNA(g, nets)
    \/ AgeOut
    \/ Tick
    \/ BeginResolve
    \/ \E e \in entries : ResolveEntry(e)
    \/ EndResolve

Spec == Init /\ [][Next]_vars

(* The aging ticker and time do not stop. *)
FairSpec == Spec /\ WF_vars(AgeOut) /\ WF_vars(Tick)

-----------------------------------------------------------------------------
(* The reached gateways of n that the loop has looked at. *)
Seen(n) == {g \in Gateway : <<n, g>> \in read \ entries /\ dist[g] # Unreached}

(* Whatever the order of the loop, and although the test compares a        *)
(* distance with a metric, a network is routed through the nearest of its  *)
(* gateways, and left without a route only if none of them is reached.     *)
NearestGateway ==
    \A n \in Network :
        IF newRoutes[n] = NoRoute THEN Seen(n) = {}
        ELSE /\ newRoutes[n].gw \in Seen(n)
             /\ newRoutes[n].metric = dist[newRoutes[n].gw] + 1
             /\ \A g \in Seen(n) : dist[newRoutes[n].gw] <= dist[g]

(* The SPF engine hears of every gateway that appears or disappears. *)
GatewayChangePublished == [][RemoteEntries' # RemoteEntries => published']_vars

(* A gateway that stops announcing a network is dropped for good. *)
Announces(g, n) == \E nets \in SUBSET Network : n \in nets /\ ProcessHNA(g, nets)

SilentGatewayForgotten ==
    \A g \in Gateway, n \in Network :
        <>[][~Announces(g, n)]_vars => <>[](hnaSet[n][g] = Absent)
=============================================================================
