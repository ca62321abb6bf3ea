--------------------------- MODULE HelloExchange ---------------------------
(***************************************************************************)
(* Several routers that run this daemon and exchange HELLO messages:       *)
(* sendHello of cmd/olsrd/daemon.go on one side, ProcessHello and AgeOut   *)
(* of internal/olsr/neighbor.go on the other.                              *)
(*                                                                         *)
(* One unit of time is the HELLO interval: helloTicker makes every router  *)
(* send once per unit, and HelloVtime is the validity time in these units  *)
(* (6 s against the default interval of 2 s).  The radio range is directed *)
(* and changes; a HELLO reaches any part of the routers in range.  Its     *)
(* travel time is short against the interval and taken as zero.            *)
(*                                                                         *)
(* Each router has one address.  A link, and the 2-hop entries through it, *)
(* are set by the same HELLO to the same time, so one timer serves both.   *)
(* Willingness is WILL_DEFAULT for all, as in sendHello.  The tables have  *)
(* names other than in NeighborManager, so that one module can speak of    *)
(* both.                                                                   *)
(***************************************************************************)
EXTENDS RelativeTime, FiniteSets, MPRSelection

CONSTANTS
    Router,
    Topologies,   \* the directed ranges that occur, sets of <<from, to>>
    HelloVtime

ASSUME ExchangeAssumption ==
    /\ HelloVtime \in Nat \ {0}
    /\ Topologies \subseteq SUBSET (Router \X Router)

VARIABLES
    range,           \* who hears whom now
    linksOf,         \* [Router -> [Router -> [state, exp]]]
    twoHopOf,        \* [Router -> [Router -> SUBSET Router]]
    mprSetOf,        \* [Router -> SUBSET Router]
    mprSelectorsOf,  \* [Router -> [Router -> HelloTimer]]
    due,             \* the routers that have not sent yet in this unit of time
    publishers       \* the routers whose last step published an EventNeighborUpdate

exchangeVars == <<range, linksOf, twoHopOf, mprSetOf, mprSelectorsOf, due, publishers>>

HelloTimer  == Absent..HelloVtime
WillDefault == 3
TupleStates == {"None", "Asymmetric", "Symmetric", "Lost"}

ExchangeTypeOK ==
    /\ range \in Topologies
    /\ linksOf \in [Router -> [Router -> [state : TupleStates, exp : Expired..HelloVtime]]]
    /\ twoHopOf \in [Router -> [Router -> SUBSET Router]]
    /\ mprSetOf \in [Router -> SUBSET Router]
    /\ mprSelectorsOf \in [Router -> [Router -> HelloTimer]]
    /\ due \subseteq Router /\ publishers \subseteq Router

ExchangeInit ==
    /\ range \in Topologies
    /\ linksOf = [r \in Router |-> [p \in Router |-> [state |-> "None", exp |-> Expired]]]
    /\ twoHopOf = [r \in Router |-> [p \in Router |-> {}]]
    /\ mprSetOf = [r \in Router |-> {}]
    /\ mprSelectorsOf = [r \in Router |-> [p \in Router |-> Absent]]
    /\ due = Router /\ publishers = {}

-----------------------------------------------------------------------------
(* The link codes that sendHello uses: never neighbour type MPR. *)
Codes == {<<"Sym", "Sym">>, <<"Asym", "NotNeigh">>, <<"Lost", "NotNeigh">>}

(* sendHello: the link code under which s lists p, by the state of its     *)
(* link.                                                                   *)
LinkCode(s, p) ==
    CASE linksOf[s][p].state = "Symmetric"  -> <<"Sym", "Sym">>
      [] linksOf[s][p].state = "Asymmetric" -> <<"Asym", "NotNeigh">>
      [] linksOf[s][p].state = "Lost"       -> <<"Lost", "NotNeigh">>
      [] linksOf[s][p].state = "None"       -> <<"Unlisted", "NotNeigh">>

(* Mutant of CheckLocalSymmetricLinkAt: every HELLO makes a symmetric link. *)
AnyHelloIsSymmetric(s, r) == TRUE

(* Mutant of CheckLocalSymmetricLinkAt: being listed as lost is enough. *)
AnyListingIsSymmetric(s, r) == LinkCode(s, r)[1] # "Unlisted"

(* Mutant of CheckLocalSymmetricLinkAt: only a symmetric listing counts. *)
OnlySymIsSymmetric(s, r) == LinkCode(s, r)[1] = "Sym"

(* checkLocalSymmetricLink and checkMPRSelection, at r for a HELLO of s. *)
CheckLocalSymmetricLinkAt(s, r) ==
    LinkCode(s, r)[1] \in {"Sym", "Asym"} \/ LinkCode(s, r)[2] \in {"Sym", "MPR"}

CheckMPRSelectionAt(s, r) == LinkCode(s, r)[2] = "MPR"

(* buildTwoHopNeighborsMap and recalculateMPRs of a router with these      *)
(* links and 2-hop entries.  Entries that are past their time and not aged *)
(* yet count for the degree of a neighbour only.                           *)
OneHop(lks) == {p \in Router : lks[p].state = "Symmetric"}

TwoHopMap(lks, two) ==
    LET via(t) == {p \in OneHop(lks) : t \in two[p] /\ lks[p].exp > Expired}
    IN  [t \in {u \in Router \ OneHop(lks) : via(u) # {}} |-> via(t)]

NewMPRSetsAt(lks, two) ==
    RecalculateMPRs(OneHop(lks), TwoHopMap(lks, two),
                    [p \in Router |-> WillDefault], [p \in Router |-> Cardinality(two[p])])

(* The tables of r after ProcessHello of a HELLO of s; a 2-hop entry is an *)
(* address, other than r and s, that s lists as symmetric.                 *)
NewState(s, r) == IF CheckLocalSymmetricLinkAt(s, r) THEN "Symmetric" ELSE "Asymmetric"

OldState(s, r) == IF linksOf[r][s].state = "None" THEN "Asymmetric" ELSE linksOf[r][s].state

NewLinks(s, r) == [linksOf[r] EXCEPT ![s] = [state |-> NewState(s, r), exp |-> HelloVtime]]

NewTwoHop(s, r) ==
    [twoHopOf[r] EXCEPT ![s] =
        IF NewState(s, r) = "Symmetric"
        THEN {t \in Router \ {r, s} : LinkCode(s, t)[2] \in {"Sym", "MPR"}} ELSE {}]

(* recalculateMPRs runs only when the state of the link has changed. *)
MPRChoices(s, heard, r) ==
    IF r \in heard /\ NewState(s, r) # OldState(s, r)
    THEN NewMPRSetsAt(NewLinks(s, r), NewTwoHop(s, r)) ELSE {mprSetOf[r]}

(* s sends its HELLO, and the routers in heard process it. *)
Hello(s, heard) ==
    /\ s \in due /\ due' = due \ {s}
    /\ linksOf' = [r \in Router |-> IF r \in heard THEN NewLinks(s, r) ELSE linksOf[r]]
    /\ twoHopOf' = [r \in Router |-> IF r \in heard THEN NewTwoHop(s, r) ELSE twoHopOf[r]]
    /\ mprSelectorsOf' = [r \in Router |->
          IF r \in heard /\ CheckMPRSelectionAt(s, r) /\ NewState(s, r) = "Symmetric"
          THEN [mprSelectorsOf[r] EXCEPT ![s] = HelloVtime] ELSE mprSelectorsOf[r]]
    /\ mprSetOf' \in {f \in [Router -> UNION {MPRChoices(s, heard, r) : r \in Router}] :
                      \A r \in Router : f[r] \in MPRChoices(s, heard, r)}
    /\ publishers' = (publishers \ heard) \cup {r \in heard : NewState(s, r) # OldState(s, r)}
    /\ UNCHANGED range

InRange(s) == {r \in Router \ {s} : <<s, r>> \in range}

LossyHello(s) == \E heard \in SUBSET InRange(s) : heard # InRange(s) /\ Hello(s, heard)

(* AgeOut of router r. *)
AgedLinksAt(r) ==
    {p \in Router : linksOf[r][p].state \notin {"None", "Lost"} /\ linksOf[r][p].exp = Expired}

AgedSelectorsAt(r) == {p \in Router : mprSelectorsOf[r][p] = Expired}

(* Mutant of AgeOutAt: the 2-hop entries of a lost link stay. *)
AgeOutAtKeepsTwoHops(r) ==
    /\ AgedLinksAt(r) # {} \/ AgedSelectorsAt(r) # {}
    /\ linksOf' = [linksOf EXCEPT ![r] = [p \in Router |->
          IF p \in AgedLinksAt(r) THEN [state |-> "Lost", exp |-> Expired] ELSE linksOf[r][p]]]
    /\ mprSelectorsOf' = [mprSelectorsOf EXCEPT ![r] = [p \in Router |->
          IF p \in AgedSelectorsAt(r) THEN Absent ELSE mprSelectorsOf[r][p]]]
    /\ \E m \in NewMPRSetsAt(linksOf'[r], twoHopOf[r]) : mprSetOf' = [mprSetOf EXCEPT ![r] = m]
    /\ publishers' = publishers \cup {r}
    /\ UNCHANGED <<range, twoHopOf, due>>

AgeOutAt(r) ==
    /\ AgedLinksAt(r) # {} \/ AgedSelectorsAt(r) # {}
    /\ linksOf' = [linksOf EXCEPT ![r] = [p \in Router |->
          IF p \in AgedLinksAt(r) THEN [state |-> "Lost", exp |-> Expired] ELSE linksOf[r][p]]]
    /\ twoHopOf' = [twoHopOf EXCEPT ![r] = [p \in Router |->
          IF p \in AgedLinksAt(r) THEN {} ELSE twoHopOf[r][p]]]
    /\ mprSelectorsOf' = [mprSelectorsOf EXCEPT ![r] = [p \in Router |->
          IF p \in AgedSelectorsAt(r) THEN Absent ELSE mprSelectorsOf[r][p]]]
    /\ \E m \in NewMPRSetsAt(linksOf'[r], twoHopOf'[r]) : mprSetOf' = [mprSetOf EXCEPT ![r] = m]
    /\ publishers' = publishers \cup {r}
    /\ UNCHANGED <<range, due>>

(* The routers or the obstacles between them move. *)
Move ==
    /\ range' \in Topologies /\ range' # range
    /\ UNCHANGED <<linksOf, twoHopOf, mprSetOf, mprSelectorsOf, due, publishers>>

(* The HELLO interval is over. *)
HelloInterval ==
    /\ due = {} /\ due' = Router /\ publishers' = {}
    /\ linksOf' = [r \in Router |-> [p \in Router |->
          [state |-> linksOf[r][p].state, exp |-> Elapse(linksOf[r][p].exp)]]]
    /\ mprSelectorsOf' = [r \in Router |-> [p \in Router |-> Elapse(mprSelectorsOf[r][p])]]
    /\ UNCHANGED <<range, twoHopOf, mprSetOf>>

SendHello(s) == \E heard \in SUBSET InRange(s) : Hello(s, heard)

ExchangeNext ==
    \/ \E s \in Router : SendHello(s) \/ AgeOutAt(s)
    \/ Move
    \/ HelloInterval

ExchangeSpec == ExchangeInit /\ [][ExchangeNext]_exchangeVars

(* The tickers of Daemon.run keep firing; nothing is assumed about the     *)
(* radio.                                                                  *)
FairExchange ==
    /\ ExchangeSpec
    /\ \A r \in Router : WF_exchangeVars(SendHello(r)) /\ WF_exchangeVars(AgeOutAt(r))
    /\ WF_exchangeVars(HelloInterval)

-----------------------------------------------------------------------------
Symmetric(r, p) == linksOf[r][p].state = "Symmetric"

(* Link sensing needs both directions: r takes its link to p as symmetric  *)
(* only if p has heard r, so a one-way range never makes a symmetric link. *)
SymmetricIsHeard == \A r, p \in Router : Symmetric(r, p) => linksOf[p][r].state # "None"

(* When p stops hearing r, r learns of it and gives the link up for good,  *)
(* whether or not r still hears p.                                         *)
OneWayDetected ==
    \A r, p \in Router : <>[](<<r, p>> \notin range) => <>[]~Symmetric(r, p)

(* When two routers stay in range of each other and no HELLO is lost any   *)
(* more, their link becomes and stays symmetric on both sides, whatever    *)
(* happened before.                                                        *)
Undisturbed(r, p) ==
    /\ <>[](<<r, p>> \in range /\ <<p, r>> \in range)
    /\ <>[][\A s \in Router : ~LossyHello(s)]_exchangeVars

LinkEstablished ==
    \A r, p \in Router : r # p /\ Undisturbed(r, p) => <>[](Symmetric(r, p) /\ Symmetric(p, r))

(* What router r does is a behaviour of NeighborManager, its neighbours'   *)
(* HELLOs being what sendHello makes of their tables, although here one    *)
(* timer serves a link, its neighbour tuple and its 2-hop entries.  What   *)
(* NeighborManager promises for any HELLOs holds of every router here.     *)
Manager(r) ==
    INSTANCE NeighborManager WITH
        Addr      <- Router \ {r},
        Sender    <- Router \ {r},
        Main      <- [p \in Router \ {r} |-> p],
        Willing   <- [p \in Router \ {r} |-> {WillDefault}],
        Vtime     <- [p \in Router \ {r} |-> {HelloVtime}],
        MaxVtime  <- HelloVtime,
        LinkCodes <- Codes,
        links     <- [p \in Router \ {r} |-> linksOf[r][p]],
        neighbors <- [p \in Router \ {r} |->
                        [known |-> linksOf[r][p].state # "None",
                         sym   |-> linksOf[r][p].state = "Symmetric",
                         will  |-> IF linksOf[r][p].state = "None" THEN 0 ELSE WillDefault]],
        twoHopLinks  <- [p \in Router \ {r} |-> [t \in Router \ {r} |->
                            IF t \in twoHopOf[r][p] THEN linksOf[r][p].exp ELSE Absent]],
        mprSet       <- mprSetOf[r],
        mprSelectors <- [p \in Router \ {r} |-> mprSelectorsOf[r][p]],
        published    <- r \in publishers

ImplementsNeighborManager ==
    /\ \A r \in Router : Manager(r)!Init
    /\ [][\A r \in Router : [Manager(r)!Next]_(Manager(r)!vars)]_exchangeVars

(* "This subset is responsible for retransmitting flooded topology control *)
(* messages": a router that stays another one's MPR learns of it, which is *)
(* what makes it send and forward TC messages.                             *)
RelayKnowsSelector ==
    \A r, p \in Router : <>[](p \in mprSetOf[r]) => <>(mprSelectorsOf[p][r] > 0)
=============================================================================
