------------------------------ MODULE Flooding ------------------------------
(***************************************************************************)
(* One message on its way through a network of routers that run this       *)
(* daemon: sendTC, sendHNA and broadcastPacket at its originator;          *)
(* udpReceiverLoop, processReceivedData, IsDuplicate and                   *)
(* shouldForwardMessage at every router.                                   *)
(*                                                                         *)
(* Each router has one receiver goroutine, which reads one UDP socket:     *)
(* queue[r].  Handling a message and forwarding it is one step of that     *)
(* goroutine.  A transmission reaches any part of the neighbours, in the   *)
(* order of the transmissions (one shared channel, negligible delay), and  *)
(* the sender itself: multicast loops back to the local socket.            *)
(*                                                                         *)
(* selectors[r] are the neighbours that chose r as MPR, as the HELLOs of   *)
(* other OLSR routers announce it.  This daemon's own sendHello does not   *)
(* announce MPRs (see HelloExchange), so networks without any selectors    *)
(* occur too.  The routers' tables do not change while one message travels,*)
(* except by a restart.                                                    *)
(***************************************************************************)
EXTENDS Integers, Sequences, FiniteSets

CONSTANTS
    Router,
    Scenarios,   \* records [links, selectors, unsteady, kind]: networks and messages
    InitialTTL   \* the TTL of a fresh message (255)

MessageTypes == {"Hello", "TC", "HNA", "MID", "SourceClaim", "ConfirmParent"}

ASSUME FloodingAssumption ==
    /\ IsFiniteSet(Router)
    /\ InitialTTL \in 1..255 /\ InitialTTL >= Cardinality(Router)
    /\ \A n \in Scenarios :
           /\ n.kind \in MessageTypes
           /\ n.links \in [Router -> SUBSET Router]
           /\ n.selectors \in [Router -> SUBSET Router]
           /\ n.unsteady \subseteq Router
           /\ \A r, s \in Router : r \in n.links[s] => s \in n.links[r]
           /\ \A r \in Router : r \notin n.links[r]

VARIABLES
    links,        \* [Router -> SUBSET Router]: the neighbours of each router
    selectors,    \* [Router -> SUBSET Router]: mprSelectors
    unsteady,     \* the routers that may miss copies, restart or forget
    originator,
    kind,
    sent,
    queue,        \* [Router -> Seq(Copy)]: datagrams waiting at each socket
    duplicates,   \* the routers whose duplicate set holds the message
    relayed,      \* history: the routers that have transmitted the message
    handled,      \* history: times the switch was entered since the last Forget
    faulty        \* history: a copy was lost, or a duplicate entry was

vars == <<links, selectors, unsteady, originator, kind, sent, queue,
          duplicates, relayed, handled, faulty>>

Copy == [from : Router, ttl : 0..255]

TypeOK ==
    /\ links \in [Router -> SUBSET Router]
    /\ selectors \in [Router -> SUBSET Router]
    /\ unsteady \subseteq Router
    /\ originator \in Router
    /\ kind \in MessageTypes
    /\ sent \in BOOLEAN
    /\ queue \in [Router -> Seq(Copy)]
    /\ duplicates \subseteq Router
    /\ relayed \subseteq Router
    /\ handled \in [Router -> Nat]
    /\ faulty \in BOOLEAN

Init ==
    /\ \E n \in Scenarios : /\ links = n.links /\ selectors = n.selectors
                            /\ unsteady = n.unsteady /\ kind = n.kind
    /\ originator \in Router
    /\ sent = FALSE
    /\ queue = [r \in Router |-> <<>>]
    /\ duplicates = {}
    /\ relayed = {}
    /\ handled = [r \in Router |-> 0]
    /\ faulty = FALSE

-----------------------------------------------------------------------------
(* Who may hear a transmission of r: all steady neighbours, and any part of *)
(* the others.                                                              *)
Hearers(r) == {heard \in SUBSET links[r] : links[r] \ unsteady \subseteq heard}

(* broadcastPacket of router r, whose own waiting datagrams are `rest': the *)
(* neighbours in `heard', and r itself, get a copy.                         *)
BroadcastPacket(r, ttl, heard, rest) ==
    LET copy == [from |-> r, ttl |-> ttl]
        waiting == [queue EXCEPT ![r] = rest]
    IN  /\ queue' = [s \in Router |->
                        IF s \in heard \cup {r} THEN Append(waiting[s], copy)
                                                ELSE waiting[s]]
        /\ relayed' = relayed \cup {r}
        /\ faulty' = (faulty \/ heard # links[r])

(* sendTC returns at once at a router that nobody has selected; sendHNA has *)
(* no such condition, and HELLOs have a TTL of 1.                           *)
Send ==
    /\ ~sent /\ sent' = TRUE
    /\ kind = "TC" => selectors[originator] # {}
    /\ \E heard \in Hearers(originator) :
           BroadcastPacket(originator, IF kind = "Hello" THEN 1 ELSE InitialTTL,
                           heard, queue[originator])
    /\ UNCHANGED <<links, selectors, unsteady, originator, kind, duplicates, handled>>

(* Mutant of Suppressed: duplicates are not recognised. *)
SuppressedOwnOnly(r) == r = originator

(* The two early `continue's: the router's own message, or a duplicate. *)
Suppressed(r) == r = originator \/ r \in duplicates

(* Mutant of ShouldForwardMessage: looks for the originator of the message. *)
ForwardForOriginator(r, copy) ==
    /\ copy.ttl > 1
    /\ kind \notin {"Hello", "ConfirmParent"}
    /\ kind = "SourceClaim" \/ originator \in selectors[r]

(* shouldForwardMessage: a source claim is forwarded by everybody, other    *)
(* flooded messages only for a sender that chose this router as MPR.        *)
ShouldForwardMessage(r, copy) ==
    /\ copy.ttl > 1
    /\ kind \notin {"Hello", "ConfirmParent"}
    /\ kind = "SourceClaim" \/ copy.from \in selectors[r]

(* Mutant of ForwardedTTL: the TTL is not decremented. *)
SameTTL(copy) == copy.ttl

(* TTL-- on an uint8, which cannot wrap: the TTL is greater than 1. *)
ForwardedTTL(copy) == copy.ttl - 1

(* One message of processReceivedData.  IsDuplicate registers the message   *)
(* before it is handled and before the forwarding decision is taken.        *)
Drop(r) ==
    /\ queue[r] # <<>> /\ Suppressed(r)
    /\ queue' = [queue EXCEPT ![r] = Tail(queue[r])]
    /\ UNCHANGED <<links, selectors, unsteady, originator, kind, sent, duplicates,
                   relayed, handled, faulty>>

Handle(r) ==
    /\ queue[r] # <<>> /\ ~Suppressed(r)
    /\ duplicates' = duplicates \cup {r}
    /\ handled' = [handled EXCEPT ![r] = @ + 1]
    /\ LET copy == Head(queue[r])
       IN  IF ShouldForwardMessage(r, copy)
           THEN \E heard \in Hearers(r) :
                    BroadcastPacket(r, ForwardedTTL(copy), heard, Tail(queue[r]))
           ELSE /\ queue' = [queue EXCEPT ![r] = Tail(queue[r])]
                /\ UNCHANGED <<relayed, faulty>>
    /\ UNCHANGED <<links, selectors, unsteady, originator, kind, sent>>

Process(r) == Drop(r) \/ Handle(r)

(* The duplicate entry is past its time: IsDuplicate ignores it, and        *)
(* AgeOut removes it.                                                       *)
Expire(r) ==
    /\ r \in unsteady
    /\ r \in duplicates /\ duplicates' = duplicates \ {r}
    /\ handled' = [handled EXCEPT ![r] = 0]
    /\ faulty' = TRUE
    /\ UNCHANGED <<links, selectors, unsteady, originator, kind, sent, queue, relayed>>

(* The daemon of r restarts with empty tables and an empty socket. *)
Restart(r) ==
    /\ r \in unsteady
    /\ sent
    /\ duplicates' = duplicates \ {r}
    /\ selectors' = [selectors EXCEPT ![r] = {}]
    /\ queue' = [queue EXCEPT ![r] = <<>>]
    /\ handled' = [handled EXCEPT ![r] = 0]
    /\ faulty' = TRUE
    /\ UNCHANGED <<links, unsteady, originator, kind, sent, relayed>>

Next == Send \/ \E r \in Router : Process(r) \/ Expire(r) \/ Restart(r)

(* The receiver goroutine of every router keeps running. *)
Spec == Init /\ [][Next]_vars /\ \A r \in Router : WF_vars(Process(r))

-----------------------------------------------------------------------------
(* Every router that transmits reaches each of its strict 2-hop neighbours  *)
(* through a router it has selected and that knows it: what MPRSelection    *)
(* guarantees, once the selection has been announced.                       *)
MPRsCover ==
    \A r, t \in Router :
        /\ t # r /\ t \notin links[r]
        /\ links[r] \cap links[t] # {}
        => \E m \in links[r] \cap links[t] : r \in selectors[m]

(* The message is of a kind that is flooded, in a network that floods it. *)
Flooded == kind = "SourceClaim" \/ (kind \in {"TC", "HNA", "MID"} /\ MPRsCover)

ClosedUnderLinks(S) == \A r \in S : links[r] \subseteq S

(* The routers connected with the originator: those in every set that       *)
(* contains it and is closed under links.                                   *)
Connected ==
    {r \in Router : \A S \in SUBSET Router :
                       (originator \in S /\ ClosedUnderLinks(S)) => r \in S}

Quiet == \A r \in Router : queue[r] = <<>>

(* processReceivedData, IsDuplicate and shouldForwardMessage together: when *)
(* no copy is under way any more and nothing was lost or forgotten, every   *)
(* router connected with the originator has handled a flooded message,      *)
(* although most of them did not forward it and each one decided at the     *)
(* first copy it saw.                                                       *)
FloodReachesAll ==
    sent /\ Quiet /\ ~faulty /\ Flooded
        => \A r \in Connected \ {originator} : handled[r] = 1

(* shouldForwardMessage: the TTL ends every flood, even when duplicate      *)
(* entries expire or routers restart while copies are still under way.      *)
FloodEnds == <>[]Quiet

(* The daemon's flooding implements Dissemination: at most once, never at   *)
(* the originator, and, without faults, by every connected router.          *)
Audience == IF sent /\ Flooded THEN Connected \ {originator} ELSE {}

Abstract == INSTANCE Dissemination WITH published <- sent, audience <- Audience

ImplementsDissemination == Abstract!Spec
=============================================================================
