-------------------------- MODULE TopologyManager --------------------------
(***************************************************************************)
(* internal/olsr/topology.go: the topology set learned from TC messages,   *)
(* the duplicate set and the interface declarations (MID) of one router,   *)
(* together with what feeds them: other routers that number their messages *)
(* with a 16-bit counter (sendTC uses the message number as ANSN too) and  *)
(* restart, and a network that loses, repeats and delays messages.  MIDs   *)
(* carry no number that ProcessMID looks at; they arrive in any order.     *)
(*                                                                         *)
(* udpReceiverLoop is one goroutine, so IsDuplicate and the handler that   *)
(* follows it are one action; only AgeOut could come between the two, and  *)
(* it neither adds nor removes what the handler reads.  Times are kept     *)
(* relative to the present, as in NeighborManager.                         *)
(***************************************************************************)
EXTENDS RelativeTime, FiniteSets

CONSTANTS
    Addr,         \* addresses
    Originators,  \* the routers whose messages arrive
    Advertised,   \* the addresses they advertise in TCs
    Declarers,    \* the routers that send MIDs
    Aliases,      \* the interface addresses they declare
    NoAddr,       \* no address
    SeqMod,       \* number of sequence numbers, 2^16 in the code
    Window,       \* how many messages of one router the network may hold
    Vtime         \* validity time of a message

ASSUME TopologyAssumption ==
    /\ Originators \subseteq Addr /\ Advertised \subseteq Addr
    /\ Declarers \subseteq Addr /\ Aliases \subseteq Addr
    /\ NoAddr \notin Addr
    /\ Vtime \in Nat \ {0}
    /\ Window \in Nat \ {0}
    /\ SeqMod \in Nat /\ SeqMod % 2 = 0
    /\ SeqMod > 2 * Window

VARIABLES
    topology,       \* [Addr -> [Addr -> [seq, exp]]]  tm.topology, dest then last
    duplicates,     \* [Addr -> [Seq -> Timer]]        tm.duplicates
    midMap,         \* [Addr -> SUBSET Addr]           tm.midMap
    reverseMidMap,  \* [Addr -> Addr \cup {NoAddr}]    tm.reverseMidMap
    published,      \* the last step published an EventTopologyUpdate
    messageSeq,     \* [Originators -> Seq]            the senders' counters
    ready,          \* the routers that may send before the next Tick
    air             \* messages that can still arrive

tables  == <<topology, duplicates>>
mids    == <<midMap, reverseMidMap>>
network == <<messageSeq, ready, air>>
vars    == <<tables, mids, published, network>>

Seq     == 0..(SeqMod - 1)
Half    == SeqMod \div 2
Timer   == Absent..Vtime

(* age: how many messages the router has sent since. *)
Message == [orig : Originators, seq : Seq, addrs : SUBSET Advertised, age : 0..(Window - 1)]

TypeOK ==
    /\ topology \in [Addr -> [Addr -> [seq : Seq, exp : Timer]]]
    /\ duplicates \in [Addr -> [Seq -> Timer]]
    /\ midMap \in [Addr -> SUBSET Addr]
    /\ reverseMidMap \in [Addr -> Addr \cup {NoAddr}]
    /\ published \in BOOLEAN
    /\ messageSeq \in [Originators -> Seq]
    /\ ready \subseteq Originators
    /\ air \subseteq Message

Init ==
    /\ topology = [d \in Addr |-> [l \in Addr |-> [seq |-> 0, exp |-> Absent]]]
    /\ duplicates = [o \in Addr |-> [q \in Seq |-> Absent]]
    /\ midMap = [p \in Addr |-> {}]
    /\ reverseMidMap = [x \in Addr |-> NoAddr]
    /\ published = FALSE
    /\ messageSeq = [o \in Originators |-> 0]
    /\ ready = Originators
    /\ air = {}

-----------------------------------------------------------------------------
(* IsDuplicate's test. *)
IsDuplicate(m) == duplicates[m.orig][m.seq] > 0

(* Mutant of AcceptANSN: the wrap of the number is not handled. *)
AcceptWithoutWrap(n, t) == t.exp = Absent \/ n >= t.seq

(* The condition under which ProcessTC renews the tuple t with ANSN n. *)
AcceptANSN(n, t) ==
    \/ t.exp = Absent
    \/ n >= t.seq
    \/ (t.seq - n) % SeqMod > Half

(* Mutant of Accepted: every tuple of the originator is renewed. *)
AcceptedAll(m) == {d \in Advertised : AcceptANSN(m.seq, topology[d][m.orig])}

(* The topology set after ProcessTC: a tuple per advertised address; the   *)
(* others, and the ones with a newer number, stay as they are.             *)
Accepted(m) == {d \in m.addrs : AcceptANSN(m.seq, topology[d][m.orig])}

(* Mutant of ProcessTC: only a renewed tuple sets the changed flag. *)
ProcessTCSilent(m) ==
    /\ topology' = [d \in Addr |-> [l \in Addr |->
                       IF l = m.orig /\ d \in Accepted(m)
                       THEN [seq |-> m.seq, exp |-> Vtime] ELSE topology[d][l]]]
    /\ published' = (\E d \in Accepted(m) : topology[d][m.orig].exp # Absent)

ProcessTC(m) ==
    /\ topology' = [d \in Addr |-> [l \in Addr |->
                       IF l = m.orig /\ d \in Accepted(m)
                       THEN [seq |-> m.seq, exp |-> Vtime] ELSE topology[d][l]]]
    /\ published' = (Accepted(m) # {})

(* processReceivedData for a TC message. *)
Drop(m) ==
    /\ m \in air /\ IsDuplicate(m)
    /\ published' = FALSE
    /\ UNCHANGED <<tables, mids, network>>

Process(m) ==
    /\ m \in air /\ ~IsDuplicate(m)
    /\ duplicates' = [duplicates EXCEPT ![m.orig] = [@ EXCEPT ![m.seq] = Vtime]]
    /\ ProcessTC(m)
    /\ UNCHANGED <<mids, network>>

(* Mutant of AgeOut: only the duplicate set is aged. *)
AgeOutDuplicates ==
    /\ duplicates' = [o \in Addr |-> [q \in Seq |->
                         IF duplicates[o][q] = Expired THEN Absent ELSE duplicates[o][q]]]
    /\ published' = FALSE
    /\ UNCHANGED <<topology, mids, network>>

(* AgeOut: expired tuples and duplicate entries are removed. *)
AgeOut ==
    /\ topology' = [d \in Addr |-> [l \in Addr |->
                       IF topology[d][l].exp = Expired THEN [seq |-> 0, exp |-> Absent]
                                                       ELSE topology[d][l]]]
    /\ duplicates' = [o \in Addr |-> [q \in Seq |->
                         IF duplicates[o][q] = Expired THEN Absent ELSE duplicates[o][q]]]
    /\ published' = (\E d, l \in Addr : topology[d][l].exp = Expired)
    /\ UNCHANGED <<mids, network>>

(* Mutant of ProcessMID: former aliases stay in the reverse map. *)
ProcessMIDKeepsAliases(p, aliases) ==
    /\ reverseMidMap' = [x \in Addr |-> IF x \in aliases THEN p ELSE reverseMidMap[x]]
    /\ midMap' = [midMap EXCEPT ![p] = aliases]
    /\ published' = TRUE

(* Router p declares the addresses in aliases: its former aliases are      *)
(* taken out of the reverse map, then the new ones are entered in both.    *)
(* Nothing ever ages these maps.                                           *)
ProcessMID(p, aliases) ==
    /\ reverseMidMap' = [x \in Addr |-> IF x \in aliases THEN p
                                        ELSE IF x \in midMap[p] THEN NoAddr
                                        ELSE reverseMidMap[x]]
    /\ midMap' = [midMap EXCEPT ![p] = aliases]
    /\ published' = TRUE

(* A MID that is no duplicate lists any addresses. *)
ReceiveMID ==
    /\ \E p \in Declarers : \E aliases \in SUBSET Aliases : ProcessMID(p, aliases)
    /\ UNCHANGED <<tables, network>>

GetPrimaryAddress(x) == IF reverseMidMap[x] # NoAddr THEN reverseMidMap[x] ELSE x

(* GetTopology, which the SPF engine reads. *)
GetTopology == {p \in Addr \X Addr : topology[p[1]][p[2]].exp # Absent}

-----------------------------------------------------------------------------
(* The environment.  A router sends at most one message per unit of time,  *)
(* numbered from its counter.  The network holds its last Window messages: *)
(* each may arrive late, repeatedly or never.                              *)
Older(m) == [orig |-> m.orig, seq |-> m.seq, addrs |-> m.addrs, age |-> m.age + 1]

Send(o, addrs) ==
    LET others == {m \in air : m.orig # o}
        recent == {m \in air : m.orig = o /\ m.age + 1 < Window}
        new    == [orig |-> o, seq |-> messageSeq[o], addrs |-> addrs, age |-> 0]
    IN  /\ o \in ready
        /\ ready' = ready \ {o}
        /\ messageSeq' = [messageSeq EXCEPT ![o] = (@ + 1) % SeqMod]
        /\ air' = others \cup {Older(m) : m \in recent} \cup {new}
        /\ published' = FALSE
        /\ UNCHANGED <<tables, mids>>

(* A router's daemon restarts; its counters start from zero again.  What   *)
(* it has sent before can still arrive, also after its new messages.       *)
Restart(o) ==
    /\ messageSeq' = [messageSeq EXCEPT ![o] = 0]
    /\ published' = FALSE
    /\ UNCHANGED <<tables, mids, ready, air>>

Tick ==
    /\ topology' = [d \in Addr |-> [l \in Addr |->
                       [seq |-> topology[d][l].seq, exp |-> Elapse(topology[d][l].exp)]]]
    /\ duplicates' = [o \in Addr |-> [q \in Seq |-> Elapse(duplicates[o][q])]]
    /\ ready' = Originators
    /\ published' = FALSE
    /\ UNCHANGED <<mids, messageSeq, air>>

SendSome == \E o \in Originators, s \in SUBSET Advertised : Send(o, s)

TCNext ==
    \/ \E m \in air : Process(m) \/ Drop(m)
    \/ SendSome
    \/ \E o \in Originators : Restart(o)
    \/ AgeOut
    \/ Tick

Next == TCNext \/ ReceiveMID

Spec == Init /\ [][Next]_vars

(* The aging ticker and time do not stop.  Nothing is assumed about the    *)
(* other routers or the network.                                           *)
FairSpec == Spec /\ WF_vars(AgeOut) /\ WF_vars(Tick)

-----------------------------------------------------------------------------
(* The SPF engine hears of every change of what it reads. *)
TopologyChangePublished == [][GetTopology' # GetTopology => published']_vars

(* Serial-number order: a follows b by less than half the number space. *)
Newer(a, b) == (a - b) % SeqMod \in 1..(Half - 1)

(* A TC that is newer than the tuple always renews it, also across the     *)
(* wrap of the 16-bit number.                                              *)
NewerTCAccepted ==
    [][\A m \in air : Process(m) =>
          \A d \in m.addrs : Newer(m.seq, topology[d][m.orig].seq) =>
              topology'[d][m.orig] = [seq |-> m.seq, exp |-> Vtime]]_vars

(* A router that restarts with small numbers is not ignored for ever,      *)
(* although late messages of its former life may come in between: as long  *)
(* as TCs of o that advertise d are processed, its tuple is renewed again  *)
(* and again.  (What the duplicate set discards is not processed.)         *)
Advertises(o, d) == \E m \in air : m.orig = o /\ d \in m.addrs /\ Process(m)

AdvertisedLinkRenewed ==
    \A o \in Originators, d \in Advertised :
        []<><<Advertises(o, d)>>_vars => []<>(topology[d][o].exp = Vtime)

(* A link that its router no longer advertises disappears for good. *)
WithdrawnLinkForgotten ==
    \A o \in Originators, d \in Advertised :
        <>[][~Advertises(o, d)]_vars => <>[](topology[d][o].exp = Absent)

(* An address is resolved to another router only while that router's       *)
(* latest declaration lists it, however the declarations of several        *)
(* routers overlap and change.                                             *)
PrimaryIsDeclared ==
    \A x \in Addr : GetPrimaryAddress(x) # x => x \in midMap[GetPrimaryAddress(x)]
=============================================================================
