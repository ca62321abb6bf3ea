-------------------------- MODULE HNAManagerProofs --------------------------
(***************************************************************************)
(* The choice of the gateway by step 4 of CalculateRoutes, and what the    *)
(* SPF engine is told, for any networks, gateways and distances.           *)
(***************************************************************************)
EXTENDS HNAManager, TLAPS

(* The tables of the manager and of the loop have their types. *)
THEOREM TypeCorrect == Spec => []TypeOK
<1>1. Init => TypeOK
  <2>1. Absent \in Timer /\ Unreached \in 0..MaxDist
    BY HNAAssumption DEF Timer, Absent, Unreached
  <2> QED
    BY <2>1 DEF Init, TypeOK
<1>2. TypeOK /\ [Next]_vars => TypeOK'
  <2> SUFFICES ASSUME TypeOK, [Next]_vars
               PROVE  TypeOK'
    OBVIOUS
  <2> USE DEF TypeOK
  <2>1. CASE HandleHNA
    BY <2>1 DEF HandleHNA, AddLocalHNA, RemoveLocalHNA, loop
  <2>2. ASSUME NEW g \in Gateway, NEW nets \in SUBSET Network, ProcessHNA(g, nets)
        PROVE  TypeOK'
    <3>1. Vtime \in Timer
      BY HNAAssumption DEF Timer, Absent
    <3> QED
      BY <2>2, <3>1 DEF ProcessHNA, loop
  <2>3. CASE AgeOut
    <3>1. Absent \in Timer
      BY HNAAssumption DEF Timer, Absent
    <3> QED
      BY <2>3, <3>1 DEF AgeOut, loop
  <2>4. CASE Tick
    <3>1. \A t \in Timer : t > Expired => t - 1 \in Timer
      BY HNAAssumption DEF Timer, Absent, Expired
    <3> QED
      BY <2>4, <3>1 DEF Tick, Elapse, loop
  <2>5. CASE BeginResolve
    BY <2>5 DEF BeginResolve, RemoteEntries, tables
  <2>6. ASSUME NEW e \in entries, ResolveEntry(e)
        PROVE  TypeOK'
    <3>1. e[1] \in Network /\ e[2] \in Gateway
      OBVIOUS
    <3>2. dist[e[2]] # Unreached => dist[e[2]] + 1 \in 1..(MaxDist + 1)
      BY <3>1, HNAAssumption DEF Unreached
    <3> QED
      BY <2>6, <3>1, <3>2 DEF ResolveEntry, tables
  <2>7. CASE EndResolve
    BY <2>7 DEF EndResolve, tables
  <2>8. CASE UNCHANGED vars
    BY <2>8 DEF vars, tables, loop
  <2> QED
    BY <2>1, <2>2, <2>3, <2>4, <2>5, <2>6, <2>7, <2>8 DEF Next
<1> QED
  BY <1>1, <1>2, PTL DEF Spec

-----------------------------------------------------------------------------
(* A network is routed through the nearest of its gateways whatever the    *)
(* order in which the loop meets them: comparing a distance with a metric, *)
(* which is one more, lets an equally near gateway take over, no worse one.*)
THEOREM NearestGatewayChosen == Spec => []NearestGateway
<1>1. Init => NearestGateway
  BY DEF Init, NearestGateway, Seen
<1>2. TypeOK /\ NearestGateway /\ [Next]_vars => NearestGateway'
  <2> SUFFICES ASSUME TypeOK, NearestGateway, [Next]_vars
               PROVE  NearestGateway'
    OBVIOUS
  <2>1. CASE UNCHANGED <<dist, read, entries, newRoutes>>
    BY <2>1 DEF NearestGateway, Seen
  <2>2. CASE BeginResolve
    BY <2>2 DEF BeginResolve, NearestGateway, Seen
  <2>3. ASSUME NEW e \in entries, ResolveEntry(e)
        PROVE  NearestGateway'
    <3> DEFINE n == e[1]
               g == e[2]
    <3>1. n \in Network /\ g \in Gateway /\ e = <<n, g>> /\ e \in read
      BY DEF TypeOK
    <3>2. \A x \in Network :
             Seen(x)' = IF x = n /\ dist[g] # Unreached THEN Seen(x) \cup {g} ELSE Seen(x)
      BY <2>3, <3>1 DEF ResolveEntry, Seen
    <3>3. \A x \in Network \ {n} : newRoutes'[x] = newRoutes[x]
      BY <2>3, <3>1 DEF ResolveEntry, TypeOK
    <3>4. newRoutes'[n] = IF dist[g] # Unreached /\ Replaces(dist[g], newRoutes[n])
                          THEN [gw |-> g, metric |-> dist[g] + 1] ELSE newRoutes[n]
      BY <2>3, <3>1 DEF ResolveEntry, TypeOK
    <3>5. dist' = dist /\ dist \in [Gateway -> Nat]
      BY <2>3 DEF ResolveEntry, TypeOK
    <3>6. CASE dist[g] = Unreached
      BY <3>2, <3>3, <3>4, <3>5, <3>6 DEF NearestGateway
    <3>7. CASE dist[g] # Unreached
      <4>1. Seen(n)' = Seen(n) \cup {g} /\ Seen(n) \subseteq Gateway
        BY <3>1, <3>2, <3>7 DEF Seen
      <4>2. CASE Replaces(dist[g], newRoutes[n])
        <5>1. newRoutes'[n] = [gw |-> g, metric |-> dist[g] + 1] /\ newRoutes'[n] # NoRoute
          BY <3>1, <3>4, <3>5, <3>7, <4>2 DEF NoRoute
        <5>2. \A h \in Seen(n) : dist[g] <= dist[h]
          <6>1. CASE newRoutes[n] = NoRoute
            BY <3>1, <6>1 DEF NearestGateway
          <6>2. CASE newRoutes[n] # NoRoute
            BY <3>1, <3>5, <4>1, <4>2, <6>2 DEF NearestGateway, Replaces
          <6> QED
            BY <6>1, <6>2
        <5>3. dist'[g] <= dist'[g]
          BY <3>1, <3>5
        <5> QED
          BY <3>1, <3>2, <3>3, <3>5, <4>1, <5>1, <5>2, <5>3 DEF NearestGateway
      <4>3. CASE ~Replaces(dist[g], newRoutes[n])
        <5>1. newRoutes'[n] = newRoutes[n] /\ newRoutes[n] # NoRoute
          BY <3>4, <4>3 DEF Replaces
        <5>2. dist[newRoutes[n].gw] <= dist[g]
          BY <3>1, <3>5, <4>1, <4>3, <5>1 DEF NearestGateway, Replaces
        <5> QED
          BY <3>1, <3>2, <3>3, <3>5, <4>1, <5>1, <5>2 DEF NearestGateway
      <4> QED
        BY <4>2, <4>3
    <3> QED
      BY <3>6, <3>7
  <2>4. Next => \/ UNCHANGED <<dist, read, entries, newRoutes>>
                \/ BeginResolve
                \/ \E e \in entries : ResolveEntry(e)
    BY DEF Next, HandleHNA, ProcessHNA, AgeOut, Tick, Elapse, EndResolve, loop
  <2> QED
    BY <2>1, <2>2, <2>3, <2>4 DEF vars, loop
<1> QED
  BY <1>1, <1>2, TypeCorrect, PTL DEF Spec

-----------------------------------------------------------------------------
(* ProcessHNA and AgeOut publish whenever they add or remove a gateway. *)
THEOREM GatewayChangesArePublished == Spec => GatewayChangePublished
<1>1. TypeOK /\ [Next]_vars => [RemoteEntries' # RemoteEntries => published']_vars
  <2> SUFFICES ASSUME TypeOK, Next, ~published'
               PROVE  RemoteEntries' = RemoteEntries
    BY DEF vars
  <2> SUFFICES \A n \in Network, g \in Gateway :
                  (hnaSet'[n][g] = Absent) <=> (hnaSet[n][g] = Absent)
    BY DEF RemoteEntries
  <2>1. ASSUME NEW g \in Gateway, NEW nets \in SUBSET Network, ProcessHNA(g, nets)
        PROVE  \A n \in Network, x \in Gateway :
                  (hnaSet'[n][x] = Absent) <=> (hnaSet[n][x] = Absent)
    <3>1. \A n \in nets : hnaSet[n][g] # Absent
      BY <2>1 DEF ProcessHNA
    <3>2. Vtime # Absent
      BY HNAAssumption DEF Absent
    <3> QED
      BY <2>1, <3>1, <3>2 DEF ProcessHNA
  <2>2. CASE AgeOut
    BY <2>2 DEF AgeOut
  <2>3. CASE Tick
    BY <2>3 DEF Tick, Elapse, TypeOK, Timer, Expired, Absent
  <2>4. Next => \/ UNCHANGED hnaSet \/ AgeOut \/ Tick
                \/ \E g \in Gateway, nets \in SUBSET Network : ProcessHNA(g, nets)
    BY DEF Next, HandleHNA, BeginResolve, ResolveEntry, EndResolve, tables
  <2> QED
    BY <2>1, <2>2, <2>3, <2>4
<1> QED
  BY <1>1, TypeCorrect, PTL DEF Spec, GatewayChangePublished
=============================================================================
