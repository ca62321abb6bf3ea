----------------------- MODULE NeighborManagerProofs -----------------------
(***************************************************************************)
(* Safety of NeighborManager for every set of addresses, every mapping of  *)
(* interfaces to routers, and all willingness and validity times; then of  *)
(* the routers of HelloExchange, each shown to be such a manager.          *)
(***************************************************************************)
EXTENDS NeighborManager, HelloExchange, TLAPS

-----------------------------------------------------------------------------
(* What recalculateMPRs guarantees for every neighbourhood, whatever the   *)
(* order in which Go iterates its maps.                                    *)

(* The input recalculateMPRs builds: each 2-hop address in the map has at  *)
(* least one provider, and providers are eligible neighbours.              *)
Neighbourhood(one, via) ==
    \A t \in DOMAIN via : via[t] # {} /\ via[t] \subseteq one

(* SoleProviders only names providers. *)
LEMMA SoleProvidersAreNeighbours ==
    ASSUME NEW one, NEW via, Neighbourhood(one, via)
    PROVE  SoleProviders(via) \subseteq one
BY DEF SoleProviders, Neighbourhood

(* The relays chosen are eligible 1-hop neighbours: recalculateMPRs never  *)
(* puts another address into mprSet.                                       *)
THEOREM MPRsAreNeighbours ==
    ASSUME NEW one, NEW via, NEW will, NEW deg, Neighbourhood(one, via),
           NEW m \in RecalculateMPRs(one, via, will, deg)
    PROVE  m \subseteq one
<1>1. PICK picks \in GreedyRuns(one, via, will, deg) :
          m = SoleProviders(via) \cup Range(picks)
  BY DEF RecalculateMPRs
<1>2. \A i \in DOMAIN picks : picks[i] \in one
  BY <1>1 DEF GreedyRuns, SelectGreedyMPR, Candidates
<1>3. Range(picks) \subseteq one
  BY <1>2 DEF Range
<1> QED
  BY <1>1, <1>3, SoleProvidersAreNeighbours

(* Every 2-hop address has a relay among its providers when the loop of    *)
(* recalculateMPRs is left, also when it is left because selectGreedyMPR   *)
(* found no candidate.                                                     *)
THEOREM MPRsCoverEveryTwoHop ==
    ASSUME NEW one, NEW via, NEW will, NEW deg, Neighbourhood(one, via),
           NEW m \in RecalculateMPRs(one, via, will, deg)
    PROVE  \A t \in DOMAIN via : via[t] \cap m # {}
<1>1. PICK picks \in GreedyRuns(one, via, will, deg) :
          m = SoleProviders(via) \cup Range(picks)
  BY DEF RecalculateMPRs
<1>2. Candidates(one, via, m) = {}
  BY <1>1 DEF GreedyRuns
<1> SUFFICES ASSUME NEW t \in DOMAIN via, via[t] \cap m = {}
             PROVE  FALSE
  OBVIOUS
<1>3. PICK n \in via[t] : n \in one
  BY DEF Neighbourhood
<1>4. n \in Candidates(one, via, m)
  BY <1>3 DEF Candidates, Uncovered
<1> QED
  BY <1>2, <1>4

-----------------------------------------------------------------------------
(* The map that buildTwoHopNeighborsMap hands to the MPR heuristic is a    *)
(* neighbourhood in the sense above.                                       *)
LEMMA BuiltMapIsNeighbourhood ==
    ASSUME NEW nbrs, NEW two
    PROVE  Neighbourhood(Symmetric1Hop(nbrs), BuildTwoHopNeighborsMap(nbrs, two))
BY DEF Neighbourhood, BuildTwoHopNeighborsMap, Symmetric1Hop

(* A recomputed MPR set consists of eligible neighbours and covers. *)
LEMMA NewMPRSetIsGood ==
    ASSUME NEW nbrs, NEW two, NEW m \in NewMPRSets(nbrs, two)
    PROVE  /\ m \subseteq Symmetric1Hop(nbrs)
           /\ \A t \in DOMAIN BuildTwoHopNeighborsMap(nbrs, two) :
                 BuildTwoHopNeighborsMap(nbrs, two)[t] \cap m # {}
BY BuiltMapIsNeighbourhood, MPRsAreNeighbours, MPRsCoverEveryTwoHop DEF NewMPRSets

(* Each table keeps its type. *)
THEOREM TypeCorrect == Spec => []TypeOK
<1>1. Init => TypeOK
  <2>1. Expired \in Expired..MaxVtime /\ Absent \in Timer
    BY ConstantAssumption DEF Timer, Expired, Absent
  <2>2. 0 \in 0..7
    OBVIOUS
  <2>3. Init => neighbors \in [Addr -> [known : BOOLEAN, sym : BOOLEAN, will : 0..7]]
    BY <2>2 DEF Init
  <2>4. Init => links \in [Addr -> [state : LinkStates, exp : Expired..MaxVtime]]
    BY <2>1 DEF Init, LinkStates
  <2>5. Init => /\ twoHopLinks \in [Addr -> [Addr -> Timer]]
                /\ mprSelectors \in [Addr -> Timer]
    BY <2>1 DEF Init
  <2>6. Init => mprSet \subseteq Addr /\ published \in BOOLEAN
    BY DEF Init
  <2> QED
    BY <2>3, <2>4, <2>5, <2>6 DEF TypeOK
<1>2. TypeOK /\ [Next]_vars => TypeOK'
  <2> SUFFICES ASSUME TypeOK, [Next]_vars PROVE TypeOK'
    OBVIOUS
  <2> USE ConstantAssumption
  <2>1. ASSUME NEW s \in Sender, NEW h \in Hellos(Main[s]), ProcessHello(s, h)
        PROVE  TypeOK'
    <3>1. /\ s \in Addr /\ Main[s] \in Addr
          /\ h.vtime \in 1..MaxVtime /\ h.will \in 0..7
      BY DEF Hellos
    <3>2. links' \in [Addr -> [state : LinkStates, exp : Expired..MaxVtime]]
      BY <2>1, <3>1 DEF ProcessHello, TypeOK, LinkStates, Expired
    <3>3. CheckLocalSymmetricLink(h) \in BOOLEAN
      BY DEF CheckLocalSymmetricLink
    <3>4. neighbors' \in [Addr -> [known : BOOLEAN, sym : BOOLEAN, will : 0..7]]
      BY <2>1, <3>1, <3>3 DEF ProcessHello, TypeOK
    <3>5. twoHopLinks' \in [Addr -> [Addr -> Timer]]
      BY <2>1, <3>1 DEF ProcessHello, TypeOK, UpdateTwoHopLinks, Timer, Absent
    <3>6. mprSelectors' \in [Addr -> Timer]
      BY <2>1, <3>1 DEF ProcessHello, TypeOK, Timer, Absent
    <3>7. mprSet' \subseteq Addr
      BY <2>1, NewMPRSetIsGood DEF ProcessHello, TypeOK, Symmetric1Hop
    <3>8. published' \in BOOLEAN
      BY <2>1 DEF ProcessHello
    <3> QED
      BY <3>2, <3>4, <3>5, <3>6, <3>7, <3>8 DEF TypeOK
  <2>2. ASSUME AgeOut PROVE TypeOK'
    <3>1. links' \in [Addr -> [state : LinkStates, exp : Expired..MaxVtime]]
      BY <2>2 DEF AgeOut, TypeOK, LinkStates
    <3>2. neighbors' \in [Addr -> [known : BOOLEAN, sym : BOOLEAN, will : 0..7]]
      BY <2>2 DEF AgeOut, TypeOK
    <3>3. twoHopLinks' \in [Addr -> [Addr -> Timer]]
      BY <2>2 DEF AgeOut, TypeOK, Timer, Absent
    <3>4. mprSelectors' \in [Addr -> Timer]
      BY <2>2 DEF AgeOut, TypeOK, Timer, Absent
    <3>5. mprSet' \subseteq Addr
      BY <2>2, NewMPRSetIsGood DEF AgeOut, TypeOK, Symmetric1Hop
    <3>6. published' \in BOOLEAN
      BY <2>2 DEF AgeOut
    <3> QED
      BY <3>1, <3>2, <3>3, <3>4, <3>5, <3>6 DEF TypeOK
  <2>3. ASSUME Tick PROVE TypeOK'
    <3>1. \A t \in Timer : Elapse(t) \in Timer
      BY DEF Elapse, Timer, Expired, Absent
    <3>2. \A t \in Expired..MaxVtime : Elapse(t) \in Expired..MaxVtime
      BY DEF Elapse, Expired
    <3>3. links' \in [Addr -> [state : LinkStates, exp : Expired..MaxVtime]]
      BY <2>3, <3>2 DEF Tick, TypeOK
    <3>4. twoHopLinks' \in [Addr -> [Addr -> Timer]] /\ mprSelectors' \in [Addr -> Timer]
      BY <2>3, <3>1 DEF Tick, TypeOK
    <3> QED
      BY <2>3, <3>3, <3>4 DEF Tick, TypeOK
  <2>4. CASE UNCHANGED vars
    BY <2>4 DEF TypeOK, vars
  <2> QED
    BY <2>1, <2>2, <2>3, <2>4 DEF Next, HelloFrom
<1> QED
  BY <1>1, <1>2, PTL DEF Spec

-----------------------------------------------------------------------------
(* A 2-hop entry is only held through a symmetric neighbour.  This needs   *)
(* no assumption on interfaces: updateTwoHopLinks and AgeOut delete the    *)
(* entries whenever they clear the neighbour's Symmetric flag.             *)
THEOREM TwoHopSafety == Spec => []TwoHopThroughSymmetric
<1>1. Init => TwoHopThroughSymmetric
  BY DEF Init, TwoHopThroughSymmetric
<1>2. TypeOK /\ TwoHopThroughSymmetric /\ [Next]_vars => TwoHopThroughSymmetric'
  <2> SUFFICES ASSUME TypeOK, TwoHopThroughSymmetric, [Next]_vars,
                      NEW a \in Addr, NEW t \in Addr, twoHopLinks'[a][t] # Absent
               PROVE  neighbors'[a].sym /\ t # a
    BY DEF TwoHopThroughSymmetric
  <2> USE ConstantAssumption
  <2>1. ASSUME NEW s \in Sender, NEW h \in Hellos(Main[s]), ProcessHello(s, h)
        PROVE  neighbors'[a].sym /\ t # a
    <3>1. CASE a = Main[s]
      <4>1. twoHopLinks'[a][t] = IF CheckLocalSymmetricLink(h) /\ t \in h.sym \ {a}
                                 THEN h.vtime ELSE Absent
        BY <2>1, <3>1 DEF ProcessHello, UpdateTwoHopLinks, TypeOK
      <4>2. CheckLocalSymmetricLink(h) /\ t # a
        BY <4>1
      <4>3. neighbors'[a] = [known |-> TRUE, sym |-> CheckLocalSymmetricLink(h), will |-> h.will]
        BY <2>1, <3>1 DEF ProcessHello, TypeOK
      <4> QED
        BY <4>2, <4>3
    <3>2. CASE a # Main[s]
      <4>1. twoHopLinks'[a] = twoHopLinks[a] /\ neighbors'[a] = neighbors[a]
        BY <2>1, <3>2 DEF ProcessHello, UpdateTwoHopLinks, TypeOK
      <4> QED
        BY <4>1 DEF TwoHopThroughSymmetric
    <3> QED
      BY <3>1, <3>2
  <2>2. ASSUME AgeOut PROVE neighbors'[a].sym /\ t # a
    <3>1. a \notin AgedLinks /\ twoHopLinks[a][t] # Absent
      BY <2>2 DEF AgeOut
    <3>2. neighbors'[a].sym = (neighbors[a].sym /\ a \notin AgedLinks)
      BY <2>2 DEF AgeOut
    <3> QED
      BY <3>1, <3>2 DEF TwoHopThroughSymmetric
  <2>3. ASSUME Tick PROVE neighbors'[a].sym /\ t # a
    BY <2>3 DEF Tick, Elapse, Expired, Absent, TwoHopThroughSymmetric
  <2>4. CASE UNCHANGED vars
    BY <2>4 DEF vars, TwoHopThroughSymmetric
  <2> QED
    BY <2>1, <2>2, <2>3, <2>4 DEF Next, HelloFrom
<1> QED
  BY <1>1, <1>2, TypeCorrect, PTL DEF Spec

-----------------------------------------------------------------------------
(* What makes MPRsAreEligible inductive when peers have one address and a  *)
(* fixed willingness: the two tables agree, and the willingness kept of a  *)
(* symmetric neighbour is the one it announces.                            *)
KnownWillingness == \A a \in Addr : neighbors[a].sym => neighbors[a].will \in Willing[a]

EligibilityInv == LinkNeighbourAgreement /\ KnownWillingness /\ MPRsAreEligible

(* A HELLO from a single-address peer keeps the two tables in agreement,   *)
(* and when it changes no link state it leaves every Symmetric flag alone. *)
LEMMA HelloAgreement ==
    ASSUME TypeOK, LinkNeighbourAgreement, SingleInterface,
           NEW s \in Sender, NEW h \in Hellos(Main[s]), ProcessHello(s, h)
    PROVE  /\ LinkNeighbourAgreement'
           /\ ~published' => \A a \in Addr : neighbors'[a].sym = neighbors[a].sym
<1> USE ConstantAssumption
<1>1. s \in Addr /\ Main[s] = s
  BY DEF SingleInterface
<1>2. \A a \in Addr : a # s => links'[a] = links[a] /\ neighbors'[a] = neighbors[a]
  BY <1>1 DEF ProcessHello, TypeOK
<1>3. links'[s].state = IF CheckLocalSymmetricLink(h) THEN "Symmetric" ELSE "Asymmetric"
  BY <1>1 DEF ProcessHello, TypeOK
<1>4. neighbors'[s].sym = CheckLocalSymmetricLink(h)
  BY <1>1 DEF ProcessHello, TypeOK
<1>5. LinkNeighbourAgreement'
  BY <1>1, <1>2, <1>3, <1>4 DEF LinkNeighbourAgreement
<1>6. ASSUME ~published' PROVE links'[s].state = "Symmetric" <=> links[s].state = "Symmetric"
  BY <1>3, <1>6 DEF ProcessHello
<1>7. ~published' => (neighbors'[s].sym <=> neighbors[s].sym)
  BY <1>1, <1>5, <1>6 DEF LinkNeighbourAgreement
<1>8. neighbors'[s].sym \in BOOLEAN /\ neighbors[s].sym \in BOOLEAN
  BY <1>1, <1>4 DEF TypeOK, CheckLocalSymmetricLink
<1> QED
  BY <1>1, <1>2, <1>5, <1>7, <1>8

(* With single-address peers of fixed willingness, the link set and the    *)
(* neighbour set never disagree and every MPR is a symmetric neighbour     *)
(* willing to relay, in every order of HELLOs, losses and aging.           *)
THEOREM MPREligibility ==
    ASSUME SingleInterface, FixedWillingness
    PROVE  Spec => [](LinkNeighbourAgreement /\ MPRsAreEligible)
<1> USE ConstantAssumption
<1>1. Init => EligibilityInv
  BY DEF Init, EligibilityInv, LinkNeighbourAgreement, KnownWillingness, MPRsAreEligible
<1>2. TypeOK /\ EligibilityInv /\ [Next]_vars => EligibilityInv'
  <2> SUFFICES ASSUME TypeOK, EligibilityInv, [Next]_vars PROVE EligibilityInv'
    OBVIOUS
  <2> USE DEF EligibilityInv
  <2>1. ASSUME NEW s \in Sender, NEW h \in Hellos(Main[s]), ProcessHello(s, h)
        PROVE  EligibilityInv'
    <3>1. LinkNeighbourAgreement'
      BY <2>1, HelloAgreement
    <3>2. s \in Addr /\ Main[s] = s /\ h.will \in Willing[s]
      BY DEF SingleInterface, Hellos
    <3>3. /\ neighbors'[s].will = h.will
          /\ \A a \in Addr : a # s => neighbors'[a] = neighbors[a]
      BY <2>1, <3>2 DEF ProcessHello, TypeOK
    <3>4. KnownWillingness'
      BY <3>2, <3>3 DEF KnownWillingness
    <3>5. ASSUME published' PROVE MPRsAreEligible'
      BY <2>1, <3>5, NewMPRSetIsGood DEF ProcessHello, MPRsAreEligible
    <3>6. ASSUME ~published' PROVE MPRsAreEligible'
      <4>1. mprSet' = mprSet /\ mprSet \subseteq Symmetric1Hop(neighbors)
        BY <2>1, <3>6 DEF ProcessHello, MPRsAreEligible
      <4>2. \A a \in Addr : neighbors'[a].sym = neighbors[a].sym
        BY <2>1, <3>6, HelloAgreement
      <4>3. ASSUME NEW a \in Addr, neighbors[a].sym PROVE neighbors'[a].will = neighbors[a].will
        BY <3>2, <3>3, <4>3 DEF KnownWillingness, FixedWillingness
      <4> QED
        BY <4>1, <4>2, <4>3 DEF MPRsAreEligible, Symmetric1Hop
    <3> QED
      BY <3>1, <3>4, <3>5, <3>6
  <2>2. ASSUME AgeOut PROVE EligibilityInv'
    <3>1. \A a \in Addr : neighbors'[a].sym = (neighbors[a].sym /\ a \notin AgedLinks)
      BY <2>2 DEF AgeOut
    <3>2. \A a \in Addr : neighbors'[a].will = neighbors[a].will
      BY <2>2 DEF AgeOut
    <3>3. \A a \in Addr : links'[a].state = IF a \in AgedLinks THEN "Lost" ELSE links[a].state
      BY <2>2 DEF AgeOut
    <3>4. LinkNeighbourAgreement'
      BY <3>1, <3>3 DEF LinkNeighbourAgreement
    <3>5. KnownWillingness'
      BY <3>1, <3>2 DEF KnownWillingness
    <3>6. ASSUME published' PROVE MPRsAreEligible'
      BY <2>2, <3>6, NewMPRSetIsGood DEF AgeOut, MPRsAreEligible
    <3>7. ASSUME ~published' PROVE MPRsAreEligible'
      <4>1. mprSet' = mprSet /\ AgedLinks = {}
        BY <2>2, <3>7 DEF AgeOut, AgeOutChanged
      <4> QED
        BY <3>1, <3>2, <4>1 DEF MPRsAreEligible, Symmetric1Hop
    <3> QED
      BY <3>4, <3>5, <3>6, <3>7
  <2>3. ASSUME Tick PROVE EligibilityInv'
    <3>1. \A a \in Addr : links'[a].state = links[a].state
      BY <2>3 DEF Tick
    <3> QED
      BY <2>3, <3>1 DEF Tick, LinkNeighbourAgreement, KnownWillingness, MPRsAreEligible, Symmetric1Hop
  <2>4. CASE UNCHANGED vars
    BY <2>4 DEF vars, LinkNeighbourAgreement, KnownWillingness, MPRsAreEligible, Symmetric1Hop
  <2> QED
    BY <2>1, <2>2, <2>3, <2>4 DEF Next, HelloFrom
<1>3. EligibilityInv => LinkNeighbourAgreement /\ MPRsAreEligible
  BY DEF EligibilityInv
<1> QED
  BY <1>1, <1>2, <1>3, TypeCorrect, PTL DEF Spec

(* Link and neighbour table agree, as ProcessHello and AgeOut intend. *)
THEOREM TablesAgree ==
    ASSUME SingleInterface, FixedWillingness
    PROVE  Spec => []LinkNeighbourAgreement
BY MPREligibility, PTL

(* With single-address peers no Symmetric flag changes silently: a HELLO   *)
(* that flips it changes the state of the link too, and AgeOut reports     *)
(* every lost link.                                                        *)
THEOREM SymmetricChangesArePublished ==
    ASSUME SingleInterface, FixedWillingness
    PROVE  Spec => SymmetricChangePublished
<1>1. TypeOK /\ LinkNeighbourAgreement /\ [Next]_vars =>
         [(\E a \in Addr : neighbors'[a].sym # neighbors[a].sym) => published']_vars
  <2> SUFFICES ASSUME TypeOK, LinkNeighbourAgreement, Next, ~published',
                      NEW a \in Addr
               PROVE  neighbors'[a].sym = neighbors[a].sym
    OBVIOUS
  <2>1. ASSUME NEW s \in Sender, NEW h \in Hellos(Main[s]), ProcessHello(s, h)
        PROVE  neighbors'[a].sym = neighbors[a].sym
    BY <2>1, HelloAgreement
  <2>2. CASE AgeOut
    <3>1. AgedLinks = {}
      BY <2>2 DEF AgeOut, AgeOutChanged
    <3>2. neighbors[a].sym \in BOOLEAN
      BY DEF TypeOK
    <3> QED
      BY <2>2, <3>1, <3>2 DEF AgeOut
  <2>3. CASE Tick
    BY <2>3 DEF Tick
  <2> QED
    BY <2>1, <2>2, <2>3 DEF Next, HelloFrom
<1> QED
  BY <1>1, TypeCorrect, TablesAgree, PTL DEF Spec, SymmetricChangePublished

(* Every step that publishes a NeighborUpdate leaves an MPR set that       *)
(* covers the whole 2-hop set.                                             *)
THEOREM CoverageOnPublish == Spec => CoverageWhenPublished
<1>1. [Next]_vars => [published' => MPRsCoverTwoHop']_vars
  <2> SUFFICES ASSUME Next, published' PROVE MPRsCoverTwoHop'
    OBVIOUS
  <2>1. mprSet' \in NewMPRSets(neighbors', twoHopLinks')
    BY DEF Next, HelloFrom, ProcessHello, AgeOut, AgeOutChanged, Tick
  <2> QED
    BY <2>1, NewMPRSetIsGood DEF MPRsCoverTwoHop
<1> QED
  BY <1>1, PTL DEF Spec, CoverageWhenPublished

-----------------------------------------------------------------------------
(***************************************************************************)
(* A network of such routers.                                              *)
(***************************************************************************)

(* The heuristic that each router's manager brings along is the one of     *)
(* MPRSelection.                                                           *)
LEMMA SameHeuristic ==
    ASSUME NEW one, NEW via, NEW will, NEW deg, NEW r
    PROVE  Manager(r)!RecalculateMPRs(one, via, will, deg) = RecalculateMPRs(one, via, will, deg)
  BY Zenon
      DEF RecalculateMPRs, GreedyRuns, SelectGreedyMPR, Better, ChosenBefore, Candidates,
          CoverCount, Uncovered, SoleProviders, Range, Cardinality,
          Manager!RecalculateMPRs, Manager!GreedyRuns, Manager!SelectGreedyMPR,
          Manager!Better, Manager!ChosenBefore, Manager!Candidates, Manager!CoverCount,
          Manager!Uncovered, Manager!SoleProviders, Manager!Range, Manager!Cardinality

(* recalculateMPRs looks up the willingness and the degree of eligible     *)
(* neighbours only.                                                        *)
LEMMA HeuristicReadsNeighbours ==
    ASSUME NEW one, NEW via, NEW will, NEW deg, NEW will2, NEW deg2,
           \A n \in one : will[n] = will2[n] /\ deg[n] = deg2[n]
    PROVE  RecalculateMPRs(one, via, will, deg) = RecalculateMPRs(one, via, will2, deg2)
<1>1. \A mpr : SelectGreedyMPR(one, via, mpr, will, deg) = SelectGreedyMPR(one, via, mpr, will2, deg2)
  BY DEF SelectGreedyMPR, Candidates, Better
<1> QED
  BY <1>1 DEF RecalculateMPRs, GreedyRuns

-----------------------------------------------------------------------------
(* The neighbour tuples and 2-hop entries of r that ImplementsNeighbor-    *)
(* Manager reads off its links and its sets of 2-hop addresses.            *)
NeighborsIn(r, lks) ==
    [p \in Router \ {r} |->
        [known |-> lks[p].state # "None",
         sym   |-> lks[p].state = "Symmetric",
         will  |-> IF lks[p].state = "None" THEN 0 ELSE WillDefault]]

TwoHopsIn(r, lks, two) ==
    [p \in Router \ {r} |-> [t \in Router \ {r} |-> IF t \in two[p] THEN lks[p].exp ELSE Absent]]

(* One timer for a link and its 2-hop entries is enough for the MPRs:      *)
(* recalculateMPRs computes the same sets from either form of the tables.  *)
LEMMA ManagerMPRs ==
    ASSUME NEW r \in Router, NEW lks, NEW two \in [Router -> SUBSET Router],
           \A p \in Router : lks[p].exp \in Expired..HelloVtime,
           HelloVtime \in Nat,
           lks[r].state = "None", \A p \in Router : r \notin two[p]
    PROVE  NewMPRSetsAt(lks, two)
              = Manager(r)!NewMPRSets(NeighborsIn(r, lks), TwoHopsIn(r, lks, two))
<1> DEFINE one == OneHop(lks)
           via == TwoHopMap(lks, two)
           A   == Router \ {r}
           nbrs == NeighborsIn(r, lks)
           thl == TwoHopsIn(r, lks, two)
           will == [a \in A |-> nbrs[a].will]
           deg == [a \in A |-> Cardinality({t \in A : thl[a][t] # Absent})]
<1>1. Manager(r)!Symmetric1Hop(nbrs) = one
  <2>1. ASSUME NEW a \in A
        PROVE  nbrs[a].sym <=> lks[a].state = "Symmetric"
    BY Zenon DEF NeighborsIn
  <2>2. ASSUME NEW a \in A, lks[a].state = "Symmetric"
        PROVE  nbrs[a].will > 0
    BY <2>2 DEF NeighborsIn, WillDefault
  <2>3. Manager(r)!Symmetric1Hop(nbrs) = {a \in A : nbrs[a].sym /\ nbrs[a].will > 0}
    BY Zenon DEF Manager!Symmetric1Hop, Manager!WillNever
  <2>4. \A a \in A : (nbrs[a].sym /\ nbrs[a].will > 0) <=> lks[a].state = "Symmetric"
    BY <2>1, <2>2, Zenon
  <2>5. {a \in A : nbrs[a].sym /\ nbrs[a].will > 0} = {a \in A : lks[a].state = "Symmetric"}
    BY <2>4, Zenon
  <2>6. {a \in A : lks[a].state = "Symmetric"} = one
    BY DEF OneHop
  <2> QED
    BY <2>3, <2>5, <2>6, Zenon
<1>2. r \notin one
  BY DEF OneHop
<1>3. ASSUME NEW t \in A
      PROVE  {a \in one : thl[a][t] > Manager(r)!Expired}
               = {p \in one : t \in two[p] /\ lks[p].exp > Expired}
  BY <1>2, <1>3 DEF TwoHopsIn, OneHop, Absent, Expired, Manager!Expired
<1>4. Manager(r)!BuildTwoHopNeighborsMap(nbrs, thl) = via
  <2> DEFINE v1(t) == {a \in one : thl[a][t] > Manager(r)!Expired}
             v2(t) == {p \in one : t \in two[p] /\ lks[p].exp > Expired}
             D1 == {u \in A \ one : v1(u) # {}}
             D2 == {u \in Router \ one : v2(u) # {}}
  <2>1. v2(r) = {}
    BY DEF OneHop
  <2>2. \A t \in A : v1(t) = v2(t)
    BY <1>3
  <2>3. D1 = D2
    <3> HIDE DEF v1, v2
    <3> QED BY <2>1, <2>2, <1>2
  <2>4. [t \in D1 |-> v1(t)] = [t \in D2 |-> v2(t)]
    <3>1. \A t \in D1 : t \in A
      OBVIOUS
    <3> HIDE DEF v1, v2, D1, D2
    <3> QED BY <2>2, <2>3, <3>1
  <2>5. Manager(r)!BuildTwoHopNeighborsMap(nbrs, thl) = [t \in D1 |-> v1(t)]
    BY <1>1, Zenon DEF Manager!BuildTwoHopNeighborsMap
  <2>6. via = [t \in D2 |-> v2(t)]
    BY Zenon DEF TwoHopMap
  <2> QED
    BY <2>4, <2>5, <2>6
<1>5. \A S : Manager(r)!Cardinality(S) = Cardinality(S)
  BY Zenon DEF Cardinality, Manager!Cardinality
<1>6. NewMPRSetsAt(lks, two)
        = RecalculateMPRs(one, via, [p \in Router |-> WillDefault],
                                    [p \in Router |-> Cardinality(two[p])])
  BY <1>5, SameHeuristic, Zenon DEF NewMPRSetsAt
<1>7. Manager(r)!NewMPRSets(nbrs, thl) = RecalculateMPRs(one, via, will, deg)
  <2>1. Manager(r)!NewMPRSets(nbrs, thl)
          = RecalculateMPRs(Manager(r)!Symmetric1Hop(nbrs),
                            Manager(r)!BuildTwoHopNeighborsMap(nbrs, thl),
                            will, [a \in A |-> Cardinality({t \in A : thl[a][t] # Manager(r)!Absent})])
    BY <1>5, SameHeuristic, Zenon DEF Manager!NewMPRSets
  <2> QED
    BY <2>1, <1>1, <1>4 DEF Absent, Manager!Absent
<1>8. ASSUME NEW n \in one
      PROVE  /\ [p \in Router |-> WillDefault][n] = will[n]
             /\ [p \in Router |-> Cardinality(two[p])][n] = deg[n]
  <2>1. n \in A /\ lks[n].state = "Symmetric"
    BY <1>2 DEF OneHop
  <2>2. {t \in A : thl[n][t] # Absent} = two[n]
    BY <2>1 DEF TwoHopsIn, Absent, Expired
  <2> QED
    BY <2>1, <2>2 DEF NeighborsIn
<1> DEFINE will0 == [p \in Router |-> WillDefault]
           deg0  == [p \in Router |-> Cardinality(two[p])]
<1>9. \A n \in one : will0[n] = will[n] /\ deg0[n] = deg[n]
  BY <1>8
<1>10. RecalculateMPRs(one, via, will0, deg0) = RecalculateMPRs(one, via, will, deg)
  <2> HIDE DEF one, via, will, deg, will0, deg0
  <2> QED BY <1>9, HeuristicReadsNeighbours
<1> QED
  BY <1>6, <1>7, <1>10, Zenon

-----------------------------------------------------------------------------
(* A router keeps nothing about itself, and 2-hop entries through          *)
(* symmetric links only.  The second half is what makes one timer serve a  *)
(* link and its 2-hop entries: they leave together.                        *)
OwnTables ==
    \A r \in Router :
        /\ linksOf[r][r].state = "None"
        /\ mprSelectorsOf[r][r] = Absent
        /\ \A p \in Router : /\ r \notin twoHopOf[r][p]
                             /\ twoHopOf[r][p] # {} => linksOf[r][p].state = "Symmetric"

NetworkInv == ExchangeTypeOK /\ OwnTables

(* The MPRs of a router are its symmetric neighbours. *)
LEMMA NetworkMPRs ==
    ASSUME NEW lks, NEW two, NEW m \in NewMPRSetsAt(lks, two)
    PROVE  m \subseteq OneHop(lks) /\ m \subseteq Router
<1>1. Neighbourhood(OneHop(lks), TwoHopMap(lks, two))
  BY DEF Neighbourhood, OneHop, TwoHopMap
<1>2. m \subseteq OneHop(lks)
  BY <1>1, SameHeuristic, MPRsAreNeighbours DEF NewMPRSetsAt
<1> QED
  BY <1>2 DEF OneHop

(* A HELLO of s leaves the tables of a router it does not reach alone. *)
LEMMA HelloElsewhere ==
    ASSUME NEW s \in Router, NEW heard, Hello(s, heard), NEW r \in Router, r \notin heard
    PROVE  /\ linksOf'[r] = linksOf[r] /\ twoHopOf'[r] = twoHopOf[r]
           /\ mprSetOf'[r] = mprSetOf[r] /\ mprSelectorsOf'[r] = mprSelectorsOf[r]
           /\ r \in publishers' <=> r \in publishers
<1>1. linksOf'[r] = linksOf[r] /\ twoHopOf'[r] = twoHopOf[r] /\ mprSelectorsOf'[r] = mprSelectorsOf[r]
  BY DEF Hello
<1>2. mprSetOf'[r] = mprSetOf[r]
  BY DEF Hello, MPRChoices
<1>3. r \in publishers' <=> r \in publishers
  BY DEF Hello
<1> QED
  BY <1>1, <1>2, <1>3

(* What a HELLO of s does to the tables of a router r that it reaches. *)
LEMMA HelloAtRouter ==
    ASSUME NetworkInv, NEW s \in Router, NEW heard \in SUBSET InRange(s),
           Hello(s, heard), NEW r \in heard
    PROVE  /\ r \in Router /\ r # s
           /\ linksOf'[r] = [linksOf[r] EXCEPT ![s] =
                               [state |-> NewState(s, r), exp |-> HelloVtime]]
           /\ twoHopOf'[r] = [twoHopOf[r] EXCEPT ![s] =
                 IF NewState(s, r) = "Symmetric"
                 THEN {t \in Router \ {r, s} : linksOf[s][t].state = "Symmetric"} ELSE {}]
           /\ mprSelectorsOf'[r] = mprSelectorsOf[r]
           /\ r \in publishers' <=> NewState(s, r) # OldState(s, r)
           /\ IF NewState(s, r) # OldState(s, r)
              THEN mprSetOf'[r] \in NewMPRSetsAt(linksOf'[r], twoHopOf'[r])
              ELSE mprSetOf'[r] = mprSetOf[r]
           /\ NewState(s, r) \in {"Symmetric", "Asymmetric"}
           /\ NewState(s, r) = "Symmetric"
                 <=> linksOf[s][r].state \in {"Symmetric", "Asymmetric"}
<1>1. r \in Router /\ r # s
  BY DEF InRange
<1>2. ASSUME NEW t \in Router
      PROVE  /\ LinkCode(s, t)[2] \in {"Sym", "MPR"} <=> linksOf[s][t].state = "Symmetric"
             /\ LinkCode(s, t)[2] # "MPR"
             /\ LinkCode(s, t)[1] \in {"Sym", "Asym"}
                   <=> linksOf[s][t].state \in {"Symmetric", "Asymmetric"}
  <2>1. linksOf[s][t].state \in TupleStates
    BY DEF NetworkInv, ExchangeTypeOK
  <2> QED
    BY <2>1 DEF LinkCode, TupleStates
<1>3. /\ NewState(s, r) \in {"Symmetric", "Asymmetric"}
      /\ NewState(s, r) = "Symmetric" <=> linksOf[s][r].state \in {"Symmetric", "Asymmetric"}
  BY <1>1, <1>2 DEF NewState, CheckLocalSymmetricLinkAt
<1>4. mprSelectorsOf'[r] = mprSelectorsOf[r]
  BY <1>1, <1>2 DEF Hello, CheckMPRSelectionAt
<1>5. {t \in Router \ {r, s} : LinkCode(s, t)[2] \in {"Sym", "MPR"}}
        = {t \in Router \ {r, s} : linksOf[s][t].state = "Symmetric"}
  BY <1>2
<1>6. linksOf'[r] = NewLinks(s, r) /\ twoHopOf'[r] = NewTwoHop(s, r)
  BY <1>1 DEF Hello
<1>7. mprSetOf'[r] \in MPRChoices(s, heard, r)
  BY <1>1 DEF Hello
<1>8. twoHopOf'[r] = [twoHopOf[r] EXCEPT ![s] =
                        IF NewState(s, r) = "Symmetric"
                        THEN {t \in Router \ {r, s} : linksOf[s][t].state = "Symmetric"} ELSE {}]
  BY <1>5, <1>6, Zenon DEF NewTwoHop
<1>9. linksOf'[r] = [linksOf[r] EXCEPT ![s] = [state |-> NewState(s, r), exp |-> HelloVtime]]
  BY <1>6, Zenon DEF NewLinks
<1>10. IF NewState(s, r) # OldState(s, r)
       THEN mprSetOf'[r] \in NewMPRSetsAt(linksOf'[r], twoHopOf'[r])
       ELSE mprSetOf'[r] = mprSetOf[r]
  BY <1>6, <1>7 DEF MPRChoices
<1>11. r \in publishers' <=> NewState(s, r) # OldState(s, r)
  BY DEF Hello
<1> QED
  BY <1>1, <1>3, <1>4, <1>8, <1>9, <1>10, <1>11

(* OwnTables is inductive together with the types. *)
LEMMA NetworkInit == ExchangeInit => NetworkInv
<1> SUFFICES ASSUME ExchangeInit PROVE NetworkInv
  OBVIOUS
<1>1. Expired \in Expired..HelloVtime /\ Absent \in HelloTimer
  BY ExchangeAssumption DEF Expired, Absent, HelloTimer
<1>2. ExchangeTypeOK
  BY <1>1 DEF ExchangeInit, ExchangeTypeOK, TupleStates
<1>3. OwnTables
  BY DEF ExchangeInit, OwnTables
<1> QED
  BY <1>2, <1>3 DEF NetworkInv

(* One step per action of the network. *)
LEMMA NetworkNext ==
    ASSUME NetworkInv, [ExchangeNext]_exchangeVars
    PROVE  NetworkInv'
<1> USE ExchangeAssumption
<1>1. ASSUME NEW s \in Router, NEW heard \in SUBSET InRange(s), Hello(s, heard)
      PROVE  NetworkInv'
  <2>1. /\ linksOf' = [r \in Router |-> linksOf'[r]]
        /\ twoHopOf' = [r \in Router |-> twoHopOf'[r]]
        /\ mprSetOf' = [r \in Router |-> mprSetOf'[r]]
        /\ mprSelectorsOf' = [r \in Router |-> mprSelectorsOf'[r]]
    BY <1>1 DEF Hello
  <2>2. ASSUME NEW r \in Router
        PROVE  /\ linksOf'[r] \in [Router -> [state : TupleStates, exp : Expired..HelloVtime]]
               /\ twoHopOf'[r] \in [Router -> SUBSET Router]
               /\ mprSetOf'[r] \subseteq Router
               /\ mprSelectorsOf'[r] \in [Router -> HelloTimer]
               /\ linksOf'[r][r].state = "None"
               /\ mprSelectorsOf'[r][r] = Absent
               /\ \A p \in Router : /\ r \notin twoHopOf'[r][p]
                                    /\ twoHopOf'[r][p] # {} => linksOf'[r][p].state = "Symmetric"
    <3>1. /\ linksOf[r] \in [Router -> [state : TupleStates, exp : Expired..HelloVtime]]
          /\ twoHopOf[r] \in [Router -> SUBSET Router]
          /\ mprSetOf[r] \subseteq Router
          /\ mprSelectorsOf[r] \in [Router -> HelloTimer]
      BY DEF NetworkInv, ExchangeTypeOK
    <3>2. /\ linksOf[r][r].state = "None"
          /\ mprSelectorsOf[r][r] = Absent
          /\ \A p \in Router : /\ r \notin twoHopOf[r][p]
                               /\ twoHopOf[r][p] # {} => linksOf[r][p].state = "Symmetric"
      BY DEF NetworkInv, OwnTables
    <3>3. CASE r \notin heard
      <4>1. /\ linksOf'[r] = linksOf[r] /\ twoHopOf'[r] = twoHopOf[r]
            /\ mprSetOf'[r] = mprSetOf[r] /\ mprSelectorsOf'[r] = mprSelectorsOf[r]
        BY <1>1, <3>3, HelloElsewhere
      <4> QED
        BY <3>1, <3>2, <4>1, Zenon
    <3>4. CASE r \in heard
      <4> DEFINE new == NewState(s, r)
                 set == IF new = "Symmetric"
                        THEN {t \in Router \ {r, s} : linksOf[s][t].state = "Symmetric"} ELSE {}
      <4>1. /\ r # s
            /\ linksOf'[r] = [linksOf[r] EXCEPT ![s] = [state |-> new, exp |-> HelloVtime]]
            /\ twoHopOf'[r] = [twoHopOf[r] EXCEPT ![s] = set]
            /\ new \in {"Symmetric", "Asymmetric"}
            /\ mprSelectorsOf'[r] = mprSelectorsOf[r]
        BY <1>1, <3>4, HelloAtRouter
      <4>2. mprSetOf'[r] \subseteq Router
        <5>1. \/ mprSetOf'[r] \in NewMPRSetsAt(linksOf'[r], twoHopOf'[r])
              \/ mprSetOf'[r] = mprSetOf[r]
          BY <1>1, <3>4, HelloAtRouter
        <5> QED
          BY <3>1, <5>1, NetworkMPRs
      <4>3. [state |-> new, exp |-> HelloVtime]
               \in [state : TupleStates, exp : Expired..HelloVtime]
        BY <4>1 DEF TupleStates, Expired
      <4>4. set \subseteq Router /\ r \notin set /\ (set # {} => new = "Symmetric")
        OBVIOUS
      <4> HIDE DEF new, set
      <4>5. ASSUME NEW p \in Router
            PROVE  /\ r \notin twoHopOf'[r][p]
                   /\ twoHopOf'[r][p] # {} => linksOf'[r][p].state = "Symmetric"
        BY <3>1, <3>2, <4>1, <4>4
      <4> QED
        BY <3>1, <3>2, <4>1, <4>2, <4>3, <4>4, <4>5
    <3> QED
      BY <3>3, <3>4
  <2>3. range' \in Topologies /\ due' \subseteq Router /\ publishers' \subseteq Router
    BY <1>1 DEF Hello, InRange, NetworkInv, ExchangeTypeOK
  <2>4. ExchangeTypeOK'
    BY <2>1, <2>2, <2>3 DEF ExchangeTypeOK, TupleStates, Expired, HelloTimer, Absent
  <2>5. OwnTables'
    BY <2>2 DEF OwnTables, Absent
  <2> QED
    BY <2>4, <2>5 DEF NetworkInv
<1>2. ASSUME NEW r \in Router, AgeOutAt(r)
      PROVE  NetworkInv'
  <2>1. PICK m \in NewMPRSetsAt(linksOf'[r], twoHopOf'[r]) : mprSetOf' = [mprSetOf EXCEPT ![r] = m]
    BY <1>2 DEF AgeOutAt
  <2>2. m \subseteq Router
    BY NetworkMPRs
  <2>3. mprSetOf' \in [Router -> SUBSET Router]
    BY <2>1, <2>2 DEF NetworkInv, ExchangeTypeOK
  <2>4. linksOf' \in [Router -> [Router -> [state : TupleStates, exp : Expired..HelloVtime]]]
    BY <1>2 DEF AgeOutAt, NetworkInv, ExchangeTypeOK, TupleStates, Expired
  <2>5. twoHopOf' \in [Router -> [Router -> SUBSET Router]]
    BY <1>2 DEF AgeOutAt, NetworkInv, ExchangeTypeOK
  <2>6. mprSelectorsOf' \in [Router -> [Router -> HelloTimer]]
    BY <1>2 DEF AgeOutAt, NetworkInv, ExchangeTypeOK, HelloTimer, Absent
  <2>7. range' \in Topologies /\ due' \subseteq Router /\ publishers' \subseteq Router
    BY <1>2 DEF AgeOutAt, NetworkInv, ExchangeTypeOK
  <2>8. OwnTables'
    BY <1>2 DEF OwnTables, AgeOutAt, AgedLinksAt, NetworkInv, ExchangeTypeOK, Absent
  <2> QED
    BY <2>3, <2>4, <2>5, <2>6, <2>7, <2>8
    DEF NetworkInv, ExchangeTypeOK, TupleStates, Expired, HelloTimer, Absent
<1>3. CASE Move
  BY <1>3 DEF Move, NetworkInv, ExchangeTypeOK, OwnTables, TupleStates, Expired,
              HelloTimer, Absent
<1>4. CASE HelloInterval
  <2>1. /\ linksOf' \in [Router -> [Router -> [state : TupleStates, exp : Expired..HelloVtime]]]
        /\ mprSelectorsOf' \in [Router -> [Router -> HelloTimer]]
    BY <1>4 DEF HelloInterval, NetworkInv, ExchangeTypeOK, TupleStates, Expired,
                HelloTimer, Absent, Elapse
  <2>2. OwnTables'
    BY <1>4 DEF HelloInterval, NetworkInv, OwnTables, Absent, Expired, Elapse
  <2>3. /\ range' \in Topologies /\ due' \subseteq Router /\ publishers' \subseteq Router
        /\ twoHopOf' \in [Router -> [Router -> SUBSET Router]] /\ mprSetOf' \in [Router -> SUBSET Router]
    BY <1>4 DEF HelloInterval, NetworkInv, ExchangeTypeOK
  <2> QED
    BY <2>1, <2>2, <2>3 DEF NetworkInv, ExchangeTypeOK, TupleStates, Expired,
                            HelloTimer, Absent
<1>5. CASE UNCHANGED exchangeVars
  BY <1>5 DEF exchangeVars, NetworkInv, ExchangeTypeOK, OwnTables, TupleStates, Expired,
              HelloTimer, Absent
<1> QED
  BY <1>1, <1>2, <1>3, <1>4, <1>5 DEF ExchangeNext, SendHello

-----------------------------------------------------------------------------
(* Each step of the network, seen from the tables of router r. *)
LEMMA TickIsTick ==
    ASSUME NetworkInv, NEW r \in Router, HelloInterval
    PROVE  Manager(r)!Tick
<1> DEFINE A == Router \ {r}
<1>1. ASSUME NEW p \in A
      PROVE  linksOf'[r][p] = [state |-> linksOf[r][p].state, exp |-> Elapse(linksOf[r][p].exp)]
  BY DEF HelloInterval
<1>2. [p \in A |-> linksOf'[r][p]]
         = [p \in A |-> [state |-> [q \in A |-> linksOf[r][q]][p].state,
                        exp |-> Manager(r)!Elapse([q \in A |-> linksOf[r][q]][p].exp)]]
  BY <1>1 DEF Manager!Elapse, Elapse, Expired, Manager!Expired
<1>3. NeighborsIn(r, linksOf'[r]) = NeighborsIn(r, linksOf[r])
  <2>1. ASSUME NEW p \in A
        PROVE  linksOf'[r][p].state = linksOf[r][p].state
    <3>1. linksOf'[r][p] = [state |-> linksOf[r][p].state, exp |-> Elapse(linksOf[r][p].exp)]
      BY <1>1
    <3> QED
      BY <3>1
  <2> QED
    BY <2>1, Zenon DEF NeighborsIn
<1>4. ASSUME NEW p \in A, NEW t \in A
      PROVE  TwoHopsIn(r, linksOf'[r], twoHopOf'[r])[p][t]
                = Manager(r)!Elapse(TwoHopsIn(r, linksOf[r], twoHopOf[r])[p][t])
  BY <1>1 DEF TwoHopsIn, HelloInterval, Manager!Elapse, Elapse, Expired,
              Manager!Expired, Absent
<1>5. TwoHopsIn(r, linksOf'[r], twoHopOf'[r])
        = [p \in A |-> [t \in A |-> Manager(r)!Elapse(TwoHopsIn(r, linksOf[r], twoHopOf[r])[p][t])]]
  BY <1>4 DEF TwoHopsIn
<1>6. [p \in A |-> mprSelectorsOf'[r][p]]
         = [p \in A |-> Manager(r)!Elapse([q \in A |-> mprSelectorsOf[r][q]][p])]
  BY DEF HelloInterval, Manager!Elapse, Elapse, Expired, Manager!Expired
<1>7. (r \in publishers') = FALSE
  BY DEF HelloInterval
<1>8. mprSetOf'[r] = mprSetOf[r]
  BY DEF HelloInterval
<1> QED
  BY <1>2, <1>3, <1>5, <1>6, <1>7, <1>8, Zenon DEF Manager!Tick, NeighborsIn, TwoHopsIn

(* Router r stutters when none of its tables changes. *)
LEMMA ElsewhereIsStutter ==
    ASSUME NEW r \in Router, linksOf'[r] = linksOf[r], twoHopOf'[r] = twoHopOf[r],
           mprSetOf'[r] = mprSetOf[r], mprSelectorsOf'[r] = mprSelectorsOf[r],
           r \in publishers' <=> r \in publishers
    PROVE  UNCHANGED Manager(r)!vars
<1>1. (r \in publishers') = (r \in publishers)
  OBVIOUS
<1> QED
  BY <1>1, Zenon DEF Manager!vars

(* AgeOut of r.  NeighborManager's separate expiry of 2-hop entries finds   *)
(* nothing to do: an entry expires with its link.                          *)
LEMMA AgeOutIsAgeOut ==
    ASSUME NetworkInv, NEW r \in Router, AgeOutAt(r)
    PROVE  Manager(r)!AgeOut
<1> DEFINE A    == Router \ {r}
           lk   == [p \in A |-> linksOf[r][p]]
           nb   == NeighborsIn(r, linksOf[r])
           nb2  == NeighborsIn(r, linksOf'[r])
           th   == TwoHopsIn(r, linksOf[r], twoHopOf[r])
           th2  == TwoHopsIn(r, linksOf'[r], twoHopOf'[r])
           sel  == [p \in A |-> mprSelectorsOf[r][p]]
           aged == AgedLinksAt(r)
           agedSel == AgedSelectorsAt(r)
<1>1. /\ linksOf[r] \in [Router -> [state : TupleStates, exp : Expired..HelloVtime]]
      /\ twoHopOf[r] \in [Router -> SUBSET Router]
      /\ linksOf[r][r].state = "None" /\ mprSelectorsOf[r][r] = Absent
      /\ \A p \in Router : /\ r \notin twoHopOf[r][p]
                           /\ twoHopOf[r][p] # {} => linksOf[r][p].state = "Symmetric"
  BY DEF NetworkInv, ExchangeTypeOK, OwnTables
<1>2. /\ linksOf'[r] = [p \in Router |-> IF p \in aged THEN [state |-> "Lost", exp |-> Expired]
                                         ELSE linksOf[r][p]]
      /\ twoHopOf'[r] = [p \in Router |-> IF p \in aged THEN {} ELSE twoHopOf[r][p]]
      /\ mprSelectorsOf'[r] = [p \in Router |-> IF p \in agedSel THEN Absent ELSE mprSelectorsOf[r][p]]
      /\ mprSetOf'[r] \in NewMPRSetsAt(linksOf'[r], twoHopOf'[r])
      /\ r \in publishers'
  BY DEF AgeOutAt, NetworkInv, ExchangeTypeOK
<1>3. Manager(r)!AgedLinks = aged
  BY <1>1 DEF Manager!AgedLinks, AgedLinksAt, Expired, Manager!Expired
<1>4. Manager(r)!AgedSelectors = agedSel
  BY <1>1 DEF Manager!AgedSelectors, AgedSelectorsAt, Expired,
              Manager!Expired, Absent
<1>5. \A p \in aged : linksOf[r][p].exp = Expired /\ p \in Router
  BY DEF AgedLinksAt
<1>6. Manager(r)!AgedTwoHops = {}
  <2>1. ASSUME NEW p \in A, NEW t \in A, p \notin aged, t \in twoHopOf[r][p]
        PROVE  linksOf[r][p].exp # Expired
    BY <1>1, <2>1 DEF AgedLinksAt
  <2>2. ASSUME NEW p \in A, NEW t \in A, p \notin aged
        PROVE  th[p][t] # Expired
    BY <2>1, <2>2 DEF TwoHopsIn, Expired, Absent
  <2>3. Manager(r)!AgedTwoHops = {p \in A \X A : p[1] \notin aged /\ th[p[1]][p[2]] = Expired}
    BY <1>3, Zenon DEF Manager!AgedTwoHops, TwoHopsIn, Expired, Manager!Expired
  <2> HIDE DEF th
  <2> QED
    BY <2>2, <2>3
<1>7. Manager(r)!AgeOutChanged
  BY <1>3, <1>4 DEF AgeOutAt, Manager!AgeOutChanged
<1>8. [p \in A |-> linksOf'[r][p]]
         = [a \in A |-> IF a \in aged THEN [state |-> "Lost", exp |-> lk[a].exp] ELSE lk[a]]
  BY <1>2, <1>5
<1>9. nb2 = [a \in A |-> [known |-> nb[a].known, will |-> nb[a].will, sym |-> nb[a].sym /\ a \notin aged]]
  <2>1. ASSUME NEW a \in A
        PROVE  /\ nb2[a].known = nb[a].known
               /\ nb2[a].will = nb[a].will
               /\ nb2[a].sym = (nb[a].sym /\ a \notin aged)
    <3>1. /\ (linksOf'[r][a].state # "None") = (linksOf[r][a].state # "None")
          /\ (linksOf'[r][a].state = "Symmetric") = (linksOf[r][a].state = "Symmetric" /\ a \notin aged)
      BY <1>2 DEF AgedLinksAt
    <3> QED
      BY <3>1, Zenon DEF NeighborsIn
  <2> DEFINE F(a) == [known |-> nb[a].known, will |-> nb[a].will, sym |-> nb[a].sym /\ a \notin aged]
  <2>2. ASSUME NEW a \in A PROVE nb2[a] = F(a)
    <3>1. nb2[a] = [known |-> nb2[a].known, sym |-> nb2[a].sym, will |-> nb2[a].will]
      BY Zenon DEF NeighborsIn
    <3> HIDE DEF nb, nb2
    <3> QED
      BY <2>1, <3>1
  <2>3. nb2 = [a \in A |-> nb2[a]]
    BY Zenon DEF NeighborsIn
  <2> QED
    BY <2>2, <2>3, Zenon
<1>10. th2 = [a \in A |-> [t \in A |-> IF a \in aged \/ <<a, t>> \in {} THEN Absent ELSE th[a][t]]]
  <2>1. ASSUME NEW a \in A, NEW t \in A
        PROVE  th2[a][t] = IF a \in aged THEN Absent ELSE th[a][t]
    BY <1>2 DEF TwoHopsIn
  <2> QED
    BY <2>1 DEF TwoHopsIn
<1>11. [p \in A |-> mprSelectorsOf'[r][p]]
          = [a \in A |-> IF a \in agedSel THEN Absent ELSE sel[a]]
  BY <1>2
<1>12. mprSetOf'[r] \in Manager(r)!NewMPRSets(nb2, th2)
  <2>1. /\ \A p \in Router : linksOf'[r][p].exp \in Expired..HelloVtime
        /\ linksOf'[r][r].state = "None"
        /\ twoHopOf'[r] \in [Router -> SUBSET Router]
        /\ \A p \in Router : r \notin twoHopOf'[r][p]
    BY <1>1, <1>2, <1>5 DEF AgedLinksAt
  <2>2. HelloVtime \in Nat
    BY ExchangeAssumption
  <2> QED
    BY <1>2, <2>1, <2>2, ManagerMPRs
<1>13. (r \in publishers') = TRUE
  BY <1>2
<1> DEFINE mAged == Manager(r)!AgedLinks
           mTwo  == Manager(r)!AgedTwoHops
           mSel  == Manager(r)!AgedSelectors
           mAbs  == Manager(r)!Absent
<1>14. mAbs = Absent
  BY DEF Absent, Manager!Absent
<1>15. [p \in A |-> linksOf'[r][p]]
         = [a \in A |-> IF a \in mAged THEN [state |-> "Lost", exp |-> lk[a].exp] ELSE lk[a]]
  BY <1>3, <1>8, Zenon
<1>16. nb2 = [a \in A |-> [known |-> nb[a].known, will |-> nb[a].will, sym |-> nb[a].sym /\ a \notin mAged]]
  BY <1>3, <1>9, Zenon
<1>17. th2 = [a \in A |-> [t \in A |-> IF a \in mAged \/ <<a, t>> \in mTwo THEN mAbs ELSE th[a][t]]]
  <2>1. \A a, t \in A : (a \in aged \/ <<a, t>> \in {}) <=> (a \in mAged \/ <<a, t>> \in mTwo)
    BY <1>3, <1>6, Zenon
  <2> HIDE DEF th, th2, mAged, mTwo, aged, mAbs
  <2> QED
    BY <1>10, <1>14, <2>1, Zenon
<1>18. [p \in A |-> mprSelectorsOf'[r][p]]
          = [a \in A |-> IF a \in mSel THEN mAbs ELSE sel[a]]
  BY <1>4, <1>11, <1>14, Zenon
<1> QED
  BY <1>7, <1>12, <1>13, <1>15, <1>16, <1>17, <1>18, Zenon
  DEF Manager!AgeOut, NeighborsIn, TwoHopsIn

(* The HELLO of s, as r reads it. *)
HelloOf(s, r) ==
    [codes |-> IF linksOf[s][r].state = "None" THEN {} ELSE {LinkCode(s, r)},
     sym   |-> {t \in Router \ {r} : linksOf[s][t].state = "Symmetric"},
     will  |-> WillDefault, vtime |-> HelloVtime]

(* A HELLO of s that reaches r. *)
LEMMA HelloIsProcessHello ==
    ASSUME NetworkInv, NEW s \in Router,
           NEW heard \in SUBSET InRange(s), NEW r \in heard, Hello(s, heard)
    PROVE  s \in Router \ {r} /\ Manager(r)!HelloFrom(s)
<1> DEFINE A    == Router \ {r}
           new  == NewState(s, r)
           old  == OldState(s, r)
           lk   == [p \in A |-> linksOf[r][p]]
           lk2  == [p \in A |-> linksOf'[r][p]]
           nb   == NeighborsIn(r, linksOf[r])
           nb2  == NeighborsIn(r, linksOf'[r])
           th   == TwoHopsIn(r, linksOf[r], twoHopOf[r])
           th2  == TwoHopsIn(r, linksOf'[r], twoHopOf'[r])
           sel  == [p \in A |-> mprSelectorsOf[r][p]]
           set  == IF new = "Symmetric" THEN {t \in Router \ {r, s} : linksOf[s][t].state = "Symmetric"} ELSE {}
<1>0. PICK h : h = HelloOf(s, r)
  OBVIOUS
<1> DEFINE o    == [p \in A |-> p][s]
           csym == Manager(r)!CheckLocalSymmetricLink(h)
           cmpr == Manager(r)!CheckMPRSelection(h)
<1>1. r \in Router /\ r # s /\ s \in A
  BY DEF InRange
<1>2. /\ linksOf[r] \in [Router -> [state : TupleStates, exp : Expired..HelloVtime]]
      /\ twoHopOf[r] \in [Router -> SUBSET Router]
      /\ linksOf[s][r].state \in TupleStates
      /\ linksOf[r][r].state = "None"
      /\ \A p \in Router : r \notin twoHopOf[r][p]
  BY <1>1 DEF NetworkInv, ExchangeTypeOK, OwnTables
<1>3. /\ linksOf'[r] = [linksOf[r] EXCEPT ![s] = [state |-> new, exp |-> HelloVtime]]
      /\ twoHopOf'[r] = [twoHopOf[r] EXCEPT ![s] = set]
      /\ r \in publishers' <=> new # old
      /\ IF new # old THEN mprSetOf'[r] \in NewMPRSetsAt(linksOf'[r], twoHopOf'[r])
         ELSE mprSetOf'[r] = mprSetOf[r]
      /\ mprSelectorsOf'[r] = mprSelectorsOf[r]
      /\ new \in {"Symmetric", "Asymmetric"}
      /\ new = "Symmetric" <=> linksOf[s][r].state \in {"Symmetric", "Asymmetric"}
  BY HelloAtRouter
<1>4. HelloVtime \in Nat \ {0}
  BY ExchangeAssumption
<1>5. /\ linksOf[s][r].state # "None" => LinkCode(s, r) \in Codes
      /\ linksOf[s][r].state # "None" => LinkCode(s, r)[2] # "MPR"
      /\ (linksOf[s][r].state # "None" /\ (\/ LinkCode(s, r)[1] \in {"Sym", "Asym"}
                                           \/ LinkCode(s, r)[2] \in {"Sym", "MPR"}))
            <=> linksOf[s][r].state \in {"Symmetric", "Asymmetric"}
  BY <1>2 DEF LinkCode, Codes, TupleStates
<1>6. h \in Manager(r)!Hellos([p \in A |-> p][s])
  <2>1. h.codes \subseteq Codes /\ h.sym \subseteq A
    BY <1>0, <1>5 DEF HelloOf
  <2>2. /\ h = [codes |-> h.codes, sym |-> h.sym, will |-> WillDefault, vtime |-> HelloVtime]
    BY <1>0 DEF HelloOf
  <2>3. h \in [codes : SUBSET Codes, sym : SUBSET A, will : {WillDefault}, vtime : {HelloVtime}]
    BY <2>1, <2>2
  <2>4. [p \in A |-> p][s] = s /\ [p \in A |-> {WillDefault}][s] = {WillDefault}
          /\ [p \in A |-> {HelloVtime}][s] = {HelloVtime}
    BY <1>1
  <2>5. Manager(r)!Hellos(s) =
          [codes : SUBSET Codes, sym : SUBSET A, will : {WillDefault}, vtime : {HelloVtime}]
    BY <2>4, Zenon DEF Manager!Hellos
  <2> QED
    BY <2>3, <2>4, <2>5, Zenon
<1>7. csym = (new = "Symmetric")
  <2>1. csym = \E c \in h.codes : c[1] \in {"Sym", "Asym"} \/ c[2] \in {"Sym", "MPR"}
    BY Zenon DEF Manager!CheckLocalSymmetricLink
  <2>2. h.codes = IF linksOf[s][r].state = "None" THEN {} ELSE {LinkCode(s, r)}
    BY <1>0 DEF HelloOf
  <2> HIDE DEF csym, new
  <2> QED
    BY <2>1, <2>2, <1>3, <1>5
<1>8. ~cmpr
  <2>1. cmpr <=> \E c \in h.codes : c[2] = "MPR"
    BY Zenon DEF Manager!CheckMPRSelection
  <2>2. h.codes = IF linksOf[s][r].state = "None" THEN {} ELSE {LinkCode(s, r)}
    BY <1>0 DEF HelloOf
  <2> HIDE DEF cmpr
  <2> QED
    BY <2>1, <2>2, <1>5
<1>9. h.vtime = HelloVtime /\ h.will = WillDefault /\ h.sym = {t \in A : linksOf[s][t].state = "Symmetric"}
  BY <1>0 DEF HelloOf
<1>10. (IF csym THEN "Symmetric" ELSE "Asymmetric") = new
  BY <1>3, <1>7
<1>11. (IF lk[s].state = "None" THEN "Asymmetric" ELSE lk[s].state) = old
  BY <1>1 DEF OldState
<1>12. lk2 = [lk EXCEPT ![s] = [state |-> new, exp |-> HelloVtime]]
  BY <1>1, <1>2, <1>3
<1>13. nb2 = [nb EXCEPT ![s] = [known |-> TRUE, sym |-> csym, will |-> WillDefault]]
  <2>1. ASSUME NEW p \in A, p # s
        PROVE  nb2[p] = nb[p]
    <3>1. linksOf'[r][p] = linksOf[r][p]
      BY <1>1, <1>2, <1>3, <2>1
    <3> QED
      BY <3>1, Zenon DEF NeighborsIn
  <2>2. nb2[s] = [known |-> TRUE, sym |-> csym, will |-> WillDefault]
    <3>1. linksOf'[r][s].state = new
      BY <1>1, <1>2, <1>3
    <3>2. /\ (linksOf'[r][s].state # "None") = TRUE
          /\ (linksOf'[r][s].state = "Symmetric") = csym
          /\ (IF linksOf'[r][s].state = "None" THEN 0 ELSE WillDefault) = WillDefault
      BY <1>3, <1>7, <3>1
    <3> QED
      BY <1>1, <3>2, Zenon DEF NeighborsIn
  <2>3. nb = [p \in A |-> nb[p]] /\ nb2 = [p \in A |-> nb2[p]]
    BY Zenon DEF NeighborsIn
  <2> HIDE DEF nb, nb2, csym
  <2> QED
    BY <1>1, <2>1, <2>2, <2>3
<1>14. th2 = [th EXCEPT ![s] = [t \in A |-> IF csym /\ t \in h.sym \ {s} THEN HelloVtime ELSE Absent]]
  <2>1. ASSUME NEW p \in A, p # s
        PROVE  th2[p] = th[p]
    BY <1>1, <1>2, <1>3, <2>1 DEF TwoHopsIn
  <2>2. ASSUME NEW t \in A
        PROVE  th2[s][t] = IF csym /\ t \in h.sym \ {s} THEN HelloVtime ELSE Absent
    <3>1. t \in twoHopOf'[r][s] <=> csym /\ t \in h.sym \ {s}
      <4>1. twoHopOf'[r][s] = set
        BY <1>1, <1>2, <1>3
      <4>2. t \in set <=> new = "Symmetric" /\ t \in h.sym \ {s}
        BY <1>9
      <4> HIDE DEF set, new, csym
      <4> QED
        BY <1>7, <4>1, <4>2
    <3>2. linksOf'[r][s].exp = HelloVtime
      BY <1>1, <1>2, <1>3
    <3>3. th2[s][t] = IF t \in twoHopOf'[r][s] THEN linksOf'[r][s].exp ELSE Absent
      BY <1>1 DEF TwoHopsIn
    <3> HIDE DEF th2, csym
    <3> QED
      BY <3>1, <3>2, <3>3
  <2>3. th = [p \in A |-> th[p]] /\ th2 = [p \in A |-> th2[p]] /\ th2[s] = [t \in A |-> th2[s][t]]
    BY <1>1 DEF TwoHopsIn
  <2> DEFINE F == [t \in A |-> IF csym /\ t \in h.sym \ {s} THEN HelloVtime ELSE Absent]
  <2> HIDE DEF th, th2, csym
  <2>4. th2[s] = F
    BY <2>2, <2>3
  <2> HIDE DEF F
  <2>5. th2 = [th EXCEPT ![s] = F]
    BY <1>1, <2>1, <2>3, <2>4
  <2> QED
    BY <2>5, Zenon DEF F
<1>15. [p \in A |-> mprSelectorsOf'[r][p]] = [sel EXCEPT ![s] = IF cmpr /\ csym THEN HelloVtime ELSE sel[s]]
  <2> HIDE DEF cmpr, csym
  <2> QED
    BY <1>1, <1>3, <1>8
<1>16. new # old => mprSetOf'[r] \in Manager(r)!NewMPRSets(nb2, th2)
  <2>1. /\ \A p \in Router : linksOf'[r][p].exp \in Expired..HelloVtime
        /\ linksOf'[r][r].state = "None"
        /\ twoHopOf'[r] \in [Router -> SUBSET Router]
        /\ \A p \in Router : r \notin twoHopOf'[r][p]
    BY <1>1, <1>2, <1>3, <1>4 DEF Expired
  <2>2. HelloVtime \in Nat
    BY <1>4
  <2>3. NewMPRSetsAt(linksOf'[r], twoHopOf'[r]) = Manager(r)!NewMPRSets(nb2, th2)
    BY <1>1, <2>1, <2>2, ManagerMPRs
  <2> HIDE DEF new, old, nb2, th2
  <2> QED
    BY <1>3, <2>3
<1>17. (r \in publishers') = (new # old)
  BY <1>3
<1>18. Manager(r)!ProcessHello(s, h)
  <2>1. o = s
    BY <1>1
  <2>2. Manager(r)!UpdateTwoHopLinks(o, h, csym)
          = [th EXCEPT ![o] = [t \in A |-> IF csym /\ t \in h.sym \ {o} THEN h.vtime ELSE Manager(r)!Absent]]
    BY Zenon DEF Manager!UpdateTwoHopLinks, TwoHopsIn
  <2>3. Manager(r)!Absent = Absent
    BY DEF Manager!Absent, Absent
  <2>4. th2 = Manager(r)!UpdateTwoHopLinks(o, h, csym)
    BY <1>9, <1>14, <2>1, <2>2, <2>3, Zenon
  <2> HIDE DEF csym, cmpr
  <2>5. lk2 = [lk EXCEPT ![s] = [state |-> IF csym THEN "Symmetric" ELSE "Asymmetric", exp |-> h.vtime]]
    BY <1>9, <1>10, <1>12, Zenon
  <2>6. nb2 = [nb EXCEPT ![o] = [known |-> TRUE, sym |-> csym, will |-> h.will]]
    BY <1>9, <1>13, <2>1, Zenon
  <2>7. [p \in A |-> mprSelectorsOf'[r][p]] = [sel EXCEPT ![o] = IF cmpr /\ csym THEN h.vtime ELSE sel[o]]
    BY <1>9, <1>15, <2>1, Zenon
  <2>8. IF (IF csym THEN "Symmetric" ELSE "Asymmetric") # (IF lk[s].state = "None" THEN "Asymmetric" ELSE lk[s].state)
        THEN (r \in publishers') = TRUE /\ mprSetOf'[r] \in Manager(r)!NewMPRSets(nb2, th2)
        ELSE (r \in publishers') = FALSE /\ mprSetOf'[r] = mprSetOf[r]
    BY <1>3, <1>10, <1>11, <1>16, <1>17, Zenon
  <2> QED
    BY <2>1, <2>4, <2>5, <2>6, <2>7, <2>8, Zenon
    DEF csym, cmpr, Manager!ProcessHello, NeighborsIn, TwoHopsIn
<1>19. \E g \in Manager(r)!Hellos([p \in A |-> p][s]) : Manager(r)!ProcessHello(s, g)
  BY <1>6, <1>18, Zenon
<1> QED
  BY <1>1, <1>19, Zenon DEF Manager!HelloFrom

(* The empty tables of NewNeighborManager. *)
LEMMA ManagerInit ==
    ASSUME ExchangeInit, NEW r \in Router
    PROVE  Manager(r)!Init
<1> DEFINE A == Router \ {r}
<1>1. ASSUME NEW p \in A
      PROVE  /\ linksOf[r][p] = [state |-> "None", exp |-> Expired]
             /\ linksOf[r][p].state = "None" /\ twoHopOf[r][p] = {}
             /\ mprSelectorsOf[r][p] = Absent
  BY DEF ExchangeInit
<1>2. mprSetOf[r] = {} /\ (r \in publishers) = FALSE
  BY DEF ExchangeInit
<1>3. Manager(r)!Expired = Expired /\ Manager(r)!Absent = Absent
  BY DEF Expired, Manager!Expired, Absent, Manager!Absent
<1>4. [p \in A |-> linksOf[r][p]] = [a \in A |-> [state |-> "None", exp |-> Manager(r)!Expired]]
  BY <1>1, <1>3, Zenon
<1>5. NeighborsIn(r, linksOf[r]) = [a \in A |-> [known |-> FALSE, sym |-> FALSE, will |-> 0]]
  <2>1. ASSUME NEW p \in A
        PROVE  /\ (linksOf[r][p].state # "None") = FALSE
               /\ (linksOf[r][p].state = "Symmetric") = FALSE
               /\ (IF linksOf[r][p].state = "None" THEN 0 ELSE WillDefault) = 0
    BY <1>1
  <2> QED
    BY <2>1, Zenon DEF NeighborsIn
<1>6. TwoHopsIn(r, linksOf[r], twoHopOf[r]) = [a \in A |-> [t \in A |-> Manager(r)!Absent]]
  BY <1>1, <1>3 DEF TwoHopsIn
<1>7. [p \in A |-> mprSelectorsOf[r][p]] = [a \in A |-> Manager(r)!Absent]
  BY <1>1, <1>3
<1> QED
  BY <1>2, <1>4, <1>5, <1>6, <1>7, Zenon DEF Manager!Init, NeighborsIn, TwoHopsIn

(* The constants of the neighbour manager of a router satisfy what its     *)
(* module assumes, and the two conditions of MPREligibility.               *)
LEMMA ManagerConstants ==
    ASSUME NEW r \in Router
    PROVE  /\ Manager(r)!ConstantAssumption
           /\ Manager(r)!SingleInterface
           /\ Manager(r)!FixedWillingness
<1> USE DEF WillDefault
<1>1. HelloVtime \in Nat \ {0} /\ HelloVtime \in 1..HelloVtime
  BY ExchangeAssumption
<1>2. Codes \subseteq Manager(r)!LinkTypes \X Manager(r)!NeighTypes
  BY DEF Codes, Manager!LinkTypes, Manager!NeighTypes
<1>3. Manager(r)!ConstantAssumption
  BY <1>1, <1>2 DEF Manager!ConstantAssumption
<1>4. Manager(r)!SingleInterface
  BY DEF Manager!SingleInterface
<1>5. Manager(r)!FixedWillingness
  BY DEF Manager!FixedWillingness
<1> QED
  BY <1>3, <1>4, <1>5

(* A step of the network is, at every router, a step of its neighbour      *)
(* manager or none.                                                        *)
LEMMA NetworkStepAtRouter ==
    ASSUME NetworkInv, NEW r \in Router, [ExchangeNext]_exchangeVars
    PROVE  [Manager(r)!Next]_(Manager(r)!vars)
<1>1. ASSUME NEW s \in Router, NEW heard \in SUBSET InRange(s), Hello(s, heard)
      PROVE  [Manager(r)!Next]_(Manager(r)!vars)
  <2>1. CASE r \in heard
    <3>1. s \in Router \ {r} /\ Manager(r)!HelloFrom(s)
      BY <1>1, <2>1, HelloIsProcessHello
    <3> QED
      BY <3>1, Zenon DEF Manager!Next
  <2>2. CASE r \notin heard
    <3>1. /\ linksOf'[r] = linksOf[r] /\ twoHopOf'[r] = twoHopOf[r]
          /\ mprSetOf'[r] = mprSetOf[r] /\ mprSelectorsOf'[r] = mprSelectorsOf[r]
          /\ r \in publishers' <=> r \in publishers
      BY <1>1, <2>2, HelloElsewhere
    <3> QED
      BY <3>1, ElsewhereIsStutter
  <2> QED
    BY <2>1, <2>2
<1>2. ASSUME NEW s \in Router, AgeOutAt(s)
      PROVE  [Manager(r)!Next]_(Manager(r)!vars)
  <2>1. CASE s = r
    <3>1. Manager(r)!AgeOut
      BY <1>2, <2>1, AgeOutIsAgeOut
    <3> QED
      BY <3>1 DEF Manager!Next
  <2>2. CASE s # r
    <3>1. /\ linksOf'[r] = linksOf[r] /\ twoHopOf'[r] = twoHopOf[r]
          /\ mprSetOf'[r] = mprSetOf[r] /\ mprSelectorsOf'[r] = mprSelectorsOf[r]
          /\ r \in publishers' <=> r \in publishers
      BY <1>2, <2>2 DEF AgeOutAt, NetworkInv, ExchangeTypeOK
    <3> QED
      BY <3>1, ElsewhereIsStutter
  <2> QED
    BY <2>1, <2>2
<1>3. CASE Move
  BY <1>3, ElsewhereIsStutter DEF Move
<1>4. CASE HelloInterval
  <2>1. Manager(r)!Tick
    BY <1>4, TickIsTick
  <2> QED
    BY <2>1 DEF Manager!Next
<1>5. CASE UNCHANGED exchangeVars
  BY <1>5, ElsewhereIsStutter DEF exchangeVars
<1> QED
  BY <1>1, <1>2, <1>3, <1>4, <1>5 DEF ExchangeNext, SendHello

(* The tables of all routers are well formed, and OwnTables holds, after   *)
(* any exchange of HELLOs, losses, moves and aging.                        *)
THEOREM NetworkTypeCorrect ==
    ExchangeSpec => []NetworkInv
<1>1. ExchangeInit => NetworkInv
  BY NetworkInit
<1>2. NetworkInv /\ [ExchangeNext]_exchangeVars => NetworkInv'
  BY NetworkNext
<1> QED
  BY <1>1, <1>2, PTL DEF ExchangeSpec

(* Every router of the network is a NeighborManager: its neighbours'       *)
(* HELLOs, made by sendHello from their tables, are HELLOs ProcessHello    *)
(* was modelled for, and nothing that happens elsewhere touches its        *)
(* tables.  With ManagerConstants, all that is proved above of             *)
(* NeighborManager holds of every router.                                  *)
THEOREM ExchangeRefinesManager ==
    ExchangeSpec => ImplementsNeighborManager
<1>1. ExchangeInit => \A r \in Router : Manager(r)!Init
  BY ManagerInit
<1>2. NetworkInv /\ [ExchangeNext]_exchangeVars
         => [\A r \in Router : [Manager(r)!Next]_(Manager(r)!vars)]_exchangeVars
  BY NetworkStepAtRouter
<1>3. ExchangeSpec => []NetworkInv
  BY NetworkTypeCorrect
<1> QED
  BY <1>1, <1>2, <1>3, PTL DEF ExchangeSpec, ImplementsNeighborManager

(* A router takes a link as symmetric only if the other end has heard it:  *)
(* ProcessHello makes it so on a HELLO whose sender lists this router, and *)
(* neither AgeOut nor a later HELLO ever removes a link tuple again.       *)
THEOREM SymmetricLinksAreHeard ==
    ExchangeSpec => []SymmetricIsHeard
<1>1. ExchangeInit => SymmetricIsHeard
  BY DEF ExchangeInit, SymmetricIsHeard, Symmetric
<1>2. NetworkInv /\ SymmetricIsHeard /\ [ExchangeNext]_exchangeVars => SymmetricIsHeard'
  <2> SUFFICES ASSUME NetworkInv, SymmetricIsHeard, [ExchangeNext]_exchangeVars,
                      NEW r \in Router, NEW p \in Router, linksOf'[r][p].state = "Symmetric"
               PROVE  linksOf'[p][r].state # "None"
    BY DEF SymmetricIsHeard, Symmetric
  <2>1. linksOf[r][p].state = "Symmetric" => linksOf[p][r].state # "None"
    BY DEF SymmetricIsHeard, Symmetric
  <2>2. linksOf \in [Router -> [Router -> [state : TupleStates, exp : Expired..HelloVtime]]]
    BY DEF NetworkInv, ExchangeTypeOK
  <2>3. ASSUME NEW s \in Router, NEW heard \in SUBSET InRange(s), Hello(s, heard)
        PROVE  linksOf'[p][r].state # "None"
    <3>1. ASSUME NEW q \in Router, NEW n \in Router
          PROVE  /\ linksOf'[q][n].state = IF q \in heard /\ n = s THEN NewState(s, q)
                                           ELSE linksOf[q][n].state
                 /\ NewState(s, q) # "None"
                 /\ q \in heard /\ NewState(s, q) = "Symmetric" => linksOf[s][q].state # "None"
      <4>1. linksOf'[q] = IF q \in heard THEN NewLinks(s, q) ELSE linksOf[q]
        BY <2>3 DEF Hello
      <4>2. q \in heard /\ NewState(s, q) = "Symmetric" => linksOf[s][q].state # "None"
        BY <2>3, HelloAtRouter
      <4> QED
        BY <2>2, <4>1, <4>2 DEF NewLinks, NewState
    <3>2. linksOf[p][r].state # "None"
      BY <2>1, <3>1
    <3> QED
      BY <3>1, <3>2
  <2>4. ASSUME NEW s \in Router, AgeOutAt(s)
        PROVE  linksOf'[p][r].state # "None"
    BY <2>1, <2>2, <2>4 DEF AgeOutAt, AgedLinksAt
  <2>5. CASE Move \/ UNCHANGED exchangeVars
    BY <2>1, <2>5 DEF Move, exchangeVars
  <2>6. CASE HelloInterval
    BY <2>1, <2>2, <2>6 DEF HelloInterval
  <2> QED
    BY <2>3, <2>4, <2>5, <2>6 DEF ExchangeNext, SendHello
<1>3. ExchangeSpec => []NetworkInv
  BY NetworkTypeCorrect
<1> QED
  BY <1>1, <1>2, <1>3, PTL DEF ExchangeSpec

(* An MPR has a symmetric link and has heard the router that chose it,     *)
(* although mprSet is not recomputed on every HELLO.                       *)
RelaysHaveHeard ==
    \A r \in Router : \A p \in mprSetOf[r] :
        linksOf[r][p].state = "Symmetric" /\ linksOf[p][r].state # "None"

RelaysAreSymmetric == \A r \in Router : mprSetOf[r] \subseteq OneHop(linksOf[r])

(* Nobody is chosen as relay by a router that it has never heard, with any *)
(* radio range and any loss of HELLOs: ProcessHello recalculates the MPRs  *)
(* on every change of a link's state.                                      *)
THEOREM NetworkRelaysHaveHeard ==
    ExchangeSpec => []RelaysHaveHeard
<1>1. ExchangeInit => RelaysAreSymmetric
  BY DEF ExchangeInit, RelaysAreSymmetric
<1>2. ASSUME NetworkInv, RelaysAreSymmetric, [ExchangeNext]_exchangeVars
      PROVE  RelaysAreSymmetric'
  <2> SUFFICES ASSUME NEW r \in Router
               PROVE  mprSetOf'[r] \subseteq OneHop(linksOf'[r])
    BY DEF RelaysAreSymmetric, OneHop
  <2>1. ASSUME NEW lks, NEW two, NEW m \in NewMPRSetsAt(lks, two)
        PROVE  m \subseteq OneHop(lks)
    BY NetworkMPRs
  <2>2. linksOf[r] \in [Router -> [state : TupleStates, exp : Expired..HelloVtime]]
    BY <1>2 DEF NetworkInv, ExchangeTypeOK
  <2>3. mprSetOf[r] \subseteq OneHop(linksOf[r])
    BY <1>2 DEF RelaysAreSymmetric
  <2>4. ASSUME NEW s \in Router, NEW heard \in SUBSET InRange(s), Hello(s, heard)
        PROVE  mprSetOf'[r] \subseteq OneHop(linksOf'[r])
    <3> DEFINE new == NewState(s, r)
               old == OldState(s, r)
    <3>1. CASE r \notin heard
      <4>1. linksOf'[r] = linksOf[r] /\ mprSetOf'[r] = mprSetOf[r]
        BY <2>4, <3>1, HelloElsewhere
      <4> QED
        BY <2>3, <4>1
    <3>2. CASE r \in heard /\ new # old
      <4>1. mprSetOf'[r] \in NewMPRSetsAt(linksOf'[r], twoHopOf'[r])
        BY <1>2, <2>4, <3>2, HelloAtRouter
      <4> QED
        BY <2>1, <4>1
    <3>3. CASE r \in heard /\ new = old
      <4>1. /\ linksOf'[r] = [linksOf[r] EXCEPT ![s] = [state |-> new, exp |-> HelloVtime]]
            /\ mprSetOf'[r] = mprSetOf[r]
        <5>1. linksOf'[r] = [linksOf[r] EXCEPT ![s] = [state |-> new, exp |-> HelloVtime]]
          BY <2>4, <3>3 DEF Hello, NewLinks
        <5>2. mprSetOf'[r] = mprSetOf[r]
          BY <2>4, <3>3 DEF Hello, MPRChoices
        <5> QED
          BY <5>1, <5>2
      <4>2. linksOf[r][s].state = "Symmetric" => new = "Symmetric"
        BY <3>3 DEF OldState
      <4> HIDE DEF new
      <4> QED
        BY <2>2, <2>3, <4>1, <4>2 DEF OneHop
    <3> QED
      BY <3>1, <3>2, <3>3
  <2>5. ASSUME NEW s \in Router, AgeOutAt(s)
        PROVE  mprSetOf'[r] \subseteq OneHop(linksOf'[r])
    <3>1. CASE s = r
      <4>1. mprSetOf'[r] \in NewMPRSetsAt(linksOf'[r], twoHopOf'[r])
        BY <1>2, <2>5, <3>1 DEF AgeOutAt, NetworkInv, ExchangeTypeOK
      <4> QED
        BY <2>1, <4>1
    <3>2. CASE s # r
      <4>1. linksOf'[r] = linksOf[r] /\ mprSetOf'[r] = mprSetOf[r]
        BY <1>2, <2>5, <3>2 DEF AgeOutAt, NetworkInv, ExchangeTypeOK
      <4> QED
        BY <2>3, <4>1
    <3> QED
      BY <3>1, <3>2
  <2>6. CASE Move \/ UNCHANGED exchangeVars
    BY <2>3, <2>6 DEF Move, exchangeVars
  <2>7. CASE HelloInterval
    BY <2>2, <2>3, <2>7 DEF HelloInterval, OneHop
  <2> QED
    BY <1>2, <2>4, <2>5, <2>6, <2>7 DEF ExchangeNext, SendHello
<1>3. RelaysAreSymmetric /\ SymmetricIsHeard /\ NetworkInv => RelaysHaveHeard
  BY DEF RelaysAreSymmetric, RelaysHaveHeard, OneHop, SymmetricIsHeard,
         Symmetric, NetworkInv, ExchangeTypeOK
<1>4. NetworkInv /\ RelaysAreSymmetric /\ [ExchangeNext]_exchangeVars => RelaysAreSymmetric'
  BY <1>2
<1> QED
  BY <1>1, <1>3, <1>4, NetworkTypeCorrect, SymmetricLinksAreHeard, PTL DEF ExchangeSpec
=============================================================================
