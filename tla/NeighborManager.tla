-------------------------- MODULE NeighborManager --------------------------
(***************************************************************************)
(* internal/olsr/neighbor.go: the link set, the neighbour set, the 2-hop   *)
(* set, the MPR set and the MPR selector set of one router.                *)
(*                                                                         *)
(* Every method holds nm.mu from its first to its last line, so each is    *)
(* one action.  A time.Time is kept as its distance from the present:      *)
(* now.Before(exp) is exp > 0, now.After(exp) is exp < 0, and Tick moves   *)
(* every stored time one unit closer.  Once a time is past, how long ago   *)
(* is never asked, so it stays at Expired.                                 *)
(*                                                                         *)
(* The router's own address (nm.routerID) is not in Addr.  A map without   *)
(* a key holds Absent (or state "None") at that key.  LinkTuple.AsymTime   *)
(* and SymTime are written and never read, and are left out.               *)
(***************************************************************************)
EXTENDS RelativeTime, FiniteSets, MPRSelection

CONSTANTS
    Addr,        \* addresses of the other routers
    Sender,      \* source addresses a HELLO may arrive from
    Main,        \* Main[s]: the originator address of the HELLOs sent from s
    Willing,     \* Willing[o]: the willingness values o announces
    Vtime,       \* Vtime[o]: the validity times o announces
    LinkCodes,   \* link codes under which a HELLO may list this router
    MaxVtime     \* bound on the validity times

LinkTypes  == {"Unspec", "Asym", "Sym", "Lost"}
NeighTypes == {"NotNeigh", "Sym", "MPR"}

ASSUME ConstantAssumption ==
    /\ Sender \subseteq Addr
    /\ Main \in [Sender -> Addr]
    /\ MaxVtime \in Nat \ {0}
    /\ Willing \in [Addr -> SUBSET (0..7)]
    /\ Vtime \in [Addr -> SUBSET (1..MaxVtime)]
    /\ LinkCodes \subseteq LinkTypes \X NeighTypes

VARIABLES
    links,         \* [Addr -> [state, exp]]            nm.links, by sender
    neighbors,     \* [Addr -> [known, sym, will]]      nm.neighbors, by originator
    twoHopLinks,   \* [Addr -> [Addr -> Timer]]         nm.twoHopLinks
    mprSet,        \* SUBSET Addr                       nm.mprSet
    mprSelectors,  \* [Addr -> Timer]                   nm.mprSelectors
    published      \* the last step published an EventNeighborUpdate

vars == <<links, neighbors, twoHopLinks, mprSet, mprSelectors, published>>

WillNever == 0
Timer     == Absent..MaxVtime

LinkStates == {"None", "Asymmetric", "Symmetric", "Lost"}

(* A HELLO of originator o, reduced to what ProcessHello reads of it:      *)
(* the link codes of the link messages that list this router, and the      *)
(* addresses listed with neighbour type SYM or MPR.                        *)
Hellos(o) == [codes : SUBSET LinkCodes, sym : SUBSET Addr,
              will : Willing[o], vtime : Vtime[o]]

TypeOK ==
    /\ links \in [Addr -> [state : LinkStates, exp : Expired..MaxVtime]]
    /\ neighbors \in [Addr -> [known : BOOLEAN, sym : BOOLEAN, will : 0..7]]
    /\ twoHopLinks \in [Addr -> [Addr -> Timer]]
    /\ mprSet \subseteq Addr
    /\ mprSelectors \in [Addr -> Timer]
    /\ published \in BOOLEAN

Init ==
    /\ links = [a \in Addr |-> [state |-> "None", exp |-> Expired]]
    /\ neighbors = [a \in Addr |-> [known |-> FALSE, sym |-> FALSE, will |-> 0]]
    /\ twoHopLinks = [a \in Addr |-> [t \in Addr |-> Absent]]
    /\ mprSet = {}
    /\ mprSelectors = [a \in Addr |-> Absent]
    /\ published = FALSE

-----------------------------------------------------------------------------
(* checkLocalSymmetricLink: the sender hears this router. *)
CheckLocalSymmetricLink(h) ==
    \E c \in h.codes : c[1] \in {"Sym", "Asym"} \/ c[2] \in {"Sym", "MPR"}

(* checkMPRSelection: the sender relays through this router. *)
CheckMPRSelection(h) == \E c \in h.codes : c[2] = "MPR"

(* symmetric1Hop of recalculateMPRs. *)
Symmetric1Hop(nbrs) == {a \in Addr : nbrs[a].sym /\ nbrs[a].will > WillNever}

(* buildTwoHopNeighborsMap: a 2-hop address that is itself an eligible     *)
(* neighbour does not count, nor does an expired entry.                    *)
BuildTwoHopNeighborsMap(nbrs, two) ==
    LET one    == Symmetric1Hop(nbrs)
        via(t) == {a \in one : two[a][t] > Expired}
    IN  [t \in {u \in Addr \ one : via(u) # {}} |-> via(t)]

(* Mutant of NewMPRSets: newMpr starts from the old mprSet. *)
MPRSetsNotReset(nbrs, two) ==
    {m \cup mprSet : m \in RecalculateMPRs(Symmetric1Hop(nbrs), BuildTwoHopNeighborsMap(nbrs, two),
                                           [a \in Addr |-> nbrs[a].will], [a \in Addr |-> 0])}

(* Mutant of NewMPRSets: the greedy loop is left out. *)
OnlySoleProviders(nbrs, two) == {SoleProviders(BuildTwoHopNeighborsMap(nbrs, two))}

(* The MPR sets recalculateMPRs may compute from these tables. *)
NewMPRSets(nbrs, two) ==
    RecalculateMPRs(Symmetric1Hop(nbrs), BuildTwoHopNeighborsMap(nbrs, two),
                    [a \in Addr |-> nbrs[a].will],
                    [a \in Addr |-> Cardinality({t \in Addr : two[a][t] # Absent})])

(* Mutant of UpdateTwoHopLinks: the test of the link state is missing. *)
TwoHopLinksOfAnyLink(o, h, sym) ==
    [twoHopLinks EXCEPT ![o] =
        [t \in Addr |-> IF t \in h.sym \ {o} THEN h.vtime ELSE Absent]]

(* updateTwoHopLinks: the entries of o are replaced, or dropped when the   *)
(* link is not symmetric.                                                  *)
UpdateTwoHopLinks(o, h, sym) ==
    [twoHopLinks EXCEPT ![o] =
        [t \in Addr |-> IF sym /\ t \in h.sym \ {o} THEN h.vtime ELSE Absent]]

(***************************************************************************)
(* ProcessHello: the HELLO h arrives from address s.                       *)
(***************************************************************************)
ProcessHello(s, h) ==
    LET o        == Main[s]
        sym      == CheckLocalSymmetricLink(h)
        newState == IF sym THEN "Symmetric" ELSE "Asymmetric"
        oldState == IF links[s].state = "None" THEN "Asymmetric" ELSE links[s].state
    IN  /\ links' = [links EXCEPT ![s] = [state |-> newState, exp |-> h.vtime]]
        /\ neighbors' = [neighbors EXCEPT ![o] = [known |-> TRUE, sym |-> sym, will |-> h.will]]
        /\ mprSelectors' = [mprSelectors EXCEPT ![o] =
                               IF CheckMPRSelection(h) /\ sym THEN h.vtime ELSE @]
        /\ twoHopLinks' = UpdateTwoHopLinks(o, h, sym)
        /\ IF newState # oldState
           THEN published' = TRUE /\ mprSet' \in NewMPRSets(neighbors', twoHopLinks')
           ELSE published' = FALSE /\ mprSet' = mprSet

(***************************************************************************)
(* AgeOut: links past their time become Lost and take the neighbour of     *)
(* the same address and its 2-hop entries with them; then expired 2-hop    *)
(* entries and MPR selectors are removed.                                  *)
(***************************************************************************)
AgedLinks == {a \in Addr : links[a].state \notin {"None", "Lost"} /\ links[a].exp = Expired}

AgedTwoHops == {p \in Addr \X Addr : p[1] \notin AgedLinks /\ twoHopLinks[p[1]][p[2]] = Expired}

(* Mutant of AgedSelectors: MPR selectors are not aged. *)
NoAgedSelectors == {}

AgedSelectors == {a \in Addr : mprSelectors[a] = Expired}

(* Mutant of AgeOutChanged: a lost link does not set the flag. *)
AgeOutChangedNoLink == AgedTwoHops # {} \/ AgedSelectors # {}

(* The flag `changed' of AgeOut. *)
AgeOutChanged == AgedLinks # {} \/ AgedTwoHops # {} \/ AgedSelectors # {}

(* Mutant of AgeOut: the neighbour of a lost link stays symmetric. *)
AgeOutKeepsNeighbor ==
    /\ links' = [a \in Addr |-> IF a \in AgedLinks
                                      THEN [state |-> "Lost", exp |-> links[a].exp]
                                      ELSE links[a]]
    /\ twoHopLinks' = [a \in Addr |-> [t \in Addr |->
                          IF a \in AgedLinks \/ <<a, t>> \in AgedTwoHops
                          THEN Absent ELSE twoHopLinks[a][t]]]
    /\ mprSelectors' = [a \in Addr |-> IF a \in AgedSelectors THEN Absent ELSE mprSelectors[a]]
    /\ published' = TRUE
    /\ mprSet' \in NewMPRSets(neighbors, twoHopLinks')
    /\ UNCHANGED neighbors

AgeOut ==
    /\ links' = [a \in Addr |-> IF a \in AgedLinks
                                      THEN [state |-> "Lost", exp |-> links[a].exp]
                                      ELSE links[a]]
    /\ neighbors' = [a \in Addr |-> [known |-> neighbors[a].known, will |-> neighbors[a].will,
                                     sym |-> neighbors[a].sym /\ a \notin AgedLinks]]
    /\ twoHopLinks' = [a \in Addr |-> [t \in Addr |->
                          IF a \in AgedLinks \/ <<a, t>> \in AgedTwoHops
                          THEN Absent ELSE twoHopLinks[a][t]]]
    /\ mprSelectors' = [a \in Addr |-> IF a \in AgedSelectors THEN Absent ELSE mprSelectors[a]]
    /\ IF AgeOutChanged
       THEN published' = TRUE /\ mprSet' \in NewMPRSets(neighbors', twoHopLinks')
       ELSE published' = FALSE /\ mprSet' = mprSet

(* Time passes. *)
Tick ==
    /\ links' = [a \in Addr |-> [state |-> links[a].state, exp |-> Elapse(links[a].exp)]]
    /\ twoHopLinks' = [a \in Addr |-> [t \in Addr |-> Elapse(twoHopLinks[a][t])]]
    /\ mprSelectors' = [a \in Addr |-> Elapse(mprSelectors[a])]
    /\ published' = FALSE
    /\ UNCHANGED <<neighbors, mprSet>>

HelloFrom(s) == \E h \in Hellos(Main[s]) : ProcessHello(s, h)

Next == (\E s \in Sender : HelloFrom(s)) \/ AgeOut \/ Tick

Spec == Init /\ [][Next]_vars

(* The 500 ms aging ticker of Daemon.run, and time itself, never stop. *)
FairSpec == Spec /\ WF_vars(AgeOut) /\ WF_vars(Tick)

-----------------------------------------------------------------------------
(* What the getters return at this instant. *)
GetNeighbors == {a \in Addr : neighbors[a].known /\ links[a].state \notin {"None", "Lost"}}

GetMPRSelectors == {a \in Addr : mprSelectors[a] > 0}

GetTwoHopNeighbors == {p \in Addr \X Addr : twoHopLinks[p[1]][p[2]] > 0}

-----------------------------------------------------------------------------
(* Every peer has one address, the assumption under which links (keyed by  *)
(* sender) and neighbours (keyed by originator) talk about the same peer.  *)
SingleInterface == \A s \in Sender : Main[s] = s

(* Peers do not change the willingness they announce. *)
FixedWillingness == \A o \in Addr : \A w1, w2 \in Willing[o] : w1 = w2

(* Link set and neighbour set agree: a neighbour counts as symmetric       *)
(* exactly while its link is, although ProcessHello and AgeOut update the  *)
(* two tables separately, under different keys.                            *)
LinkNeighbourAgreement ==
    \A a \in Addr : neighbors[a].sym <=> links[a].state = "Symmetric"

(* A 2-hop entry is only ever held through a neighbour that is symmetric,  *)
(* so neither the MPR computation nor the SPF engine counts on one that    *)
(* stopped hearing this router to reach a 2-hop address.  (The link to the *)
(* neighbour itself enters the SPF graph while it is asymmetric too.)      *)
TwoHopThroughSymmetric ==
    \A a, t \in Addr : twoHopLinks[a][t] # Absent => neighbors[a].sym /\ t # a

(* An MPR is a symmetric neighbour that is willing to relay, even though   *)
(* mprSet is recomputed on some events only.                               *)
MPRsAreEligible == mprSet \subseteq Symmetric1Hop(neighbors)

(* The README's promise, "coverage to all symmetric 2-hop neighbors": each *)
(* 2-hop address has an MPR among the neighbours that reach it.  It does   *)
(* not hold at all times: a HELLO that lists new addresses and leaves the  *)
(* state of its link alone makes no recalculation.                         *)
MPRsCoverTwoHop ==
    LET via == BuildTwoHopNeighborsMap(neighbors, twoHopLinks)
    IN  \A t \in DOMAIN via : via[t] \cap mprSet # {}

(* Whatever the order in which links come, change and are lost, the MPR    *)
(* set covers the 2-hop set right after every step that published a        *)
(* NeighborUpdate.  (Between such steps it need not: MPRsCoverTwoHop.)     *)
CoverageWhenPublished == [][published' => MPRsCoverTwoHop']_vars

(* No neighbour becomes symmetric or ceases to be without a NeighborUpdate *)
(* for the SPF engine, although ProcessHello decides by the state of the   *)
(* sender's link and the flag belongs to the originator's tuple.  (New     *)
(* 2-hop entries of an unchanged link are not published.)                  *)
SymmetricChangePublished ==
    [][(\E a \in Addr : neighbors'[a].sym # neighbors[a].sym) => published']_vars

(* Nothing of peer s is left in the tables. *)
Forgotten(s) ==
    /\ links[s].state \in {"None", "Lost"}
    /\ s \notin mprSet
    /\ mprSelectors[s] = Absent
    /\ \A t \in Addr : twoHopLinks[s][t] = Absent

(* A peer from which no HELLO arrives any more is eventually forgotten for *)
(* good: as a link, as a way to 2-hop addresses, as MPR and as selector.   *)
SilentPeerForgotten ==
    \A s \in Sender : <>[][~HelloFrom(s)]_vars => <>[]Forgotten(s)
=============================================================================
