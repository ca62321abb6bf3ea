---------------------- MODULE MulticastForwardingProofs ----------------------
(***************************************************************************)
(* The forwarding cache and the packet filter follow the multicast tree,   *)
(* for any sources, children, neighbours, interfaces, routing tables and   *)
(* size of the channel.                                                    *)
(***************************************************************************)
EXTENDS MulticastForwarding, FiniteSetTheorems, TLAPS

Waiting(s) == \E i \in 1..Len(queue) : queue[i].src = s

(* RecalculateMroutes has dealt with s, and no SPF run came after it. *)
Current(s) == loop # "recalculate" /\ s \notin changes

(* The unicast routes, and the rule, lead to the incoming interface of s. *)
HopFits(s)  == hop[s] # None /\ Iface[hop[s]] = activeMfc[s].iif
RuleFits(s) == rule[s] # None /\ Iface[rule[s]] = activeMfc[s].iif

(* What m.activeMfc says when the tables have not changed since. *)
CacheInv ==
    /\ loop = "publish" => \A s \in Source \ changes : activeMfc[s] = BuildNewMFC[s]
    /\ loop = "idle" /\ ~pending /\ ~abandoned => activeMfc = BuildNewMFC
    /\ \A s \in changes : BuildNewMFC[s] = NoEntry => activeMfc[s] # NoEntry
    /\ \A s \in Source : Current(s) /\ activeMfc[s] # NoEntry => HopFits(s)

(* The last event of a source that waits in the channel is about the entry *)
(* that m.activeMfc holds for it.                                          *)
Latest(e) ==
    IF e.action = "add_multicast" THEN activeMfc[e.src] = e.entry
                                  ELSE activeMfc[e.src] = NoEntry

QueueInv ==
    ~dropped => \A i \in 1..Len(queue) :
        (\A j \in i+1..Len(queue) : queue[j].src # queue[i].src) => Latest(queue[i])

(* The rule of a source none of whose events waits. *)
RuleInv ==
    ~dropped => \A s \in Source : ~Waiting(s) =>
        /\ activeMfc[s] = NoEntry => rule[s] = None
        /\ activeMfc[s] # NoEntry /\ s \notin unresolved => RuleFits(s) \/ ~HopFits(s)

(* The chain holds two rules for every route of the filter, since a Start  *)
(* or an applyRules all of whose commands worked.                          *)
FilterInv ==
    ~partial => \A s \in Source : chain[s] =
        IF rule[s] = None THEN <<>>
        ELSE << [from |-> rule[s], verdict |-> "accept"], [from |-> None, verdict |-> "drop"] >>

(* While the kernel refuses nothing, every interface has one number. *)
VifInv == failures = 0 => nextVif = Cardinality(vifs) /\ unadded = {}

(* The interface has its number before the i-th event is handled. *)
Numbered(f, i) ==
    \/ f \in vifs
    \/ \E j \in 1..i-1 : queue[j].action = "add_multicast" /\ queue[j].entry.iif = f

(* The entry of a source none of whose events waits.  An entry can only be *)
(* deleted when its incoming interface has a number.                       *)
InstallInv ==
    failures = 0 /\ ~dropped =>
        /\ \A s \in Source : ~Waiting(s) => installed[s] = activeMfc[s]
        /\ \A s \in Source : activeMfc[s] # NoEntry => Numbered(activeMfc[s].iif, Len(queue) + 1)
        /\ \A i \in 1..Len(queue) :
              queue[i].action = "delete_multicast" => Numbered(queue[i].entry.iif, i)

MulticastInv ==
    /\ TypeOK /\ CacheInv /\ QueueInv /\ RuleInv /\ FilterInv /\ VifInv /\ InstallInv

-----------------------------------------------------------------------------
LEMMA FiniteData == IsFiniteSet(Ifaces) /\ IsFiniteSet(Command)
<1>1. IsFiniteSet(Ifaces)
  <2> DEFINE f == [n \in NextHop |-> Iface[n]]
  <2>1. f \in Surjection(NextHop, Ifaces)
    BY DEF Surjection, Ifaces
  <2> QED
    BY <2>1, FS_Surjection, MulticastAssumption
<1>2. IsFiniteSet({"accept", "drop"}) /\ IsFiniteSet({Flush})
  <2>1. IsFiniteSet({"accept"}) /\ IsFiniteSet({"drop"}) /\ IsFiniteSet({Flush})
    BY FS_Singleton
  <2>2. {"accept", "drop"} = {"accept"} \cup {"drop"}
    OBVIOUS
  <2> QED
    BY <2>1, <2>2, FS_Union
<1>3. IsFiniteSet(Source \X {"accept", "drop"})
  BY <1>2, FS_Product, MulticastAssumption
<1> QED
  BY <1>1, <1>2, <1>3, FS_Union DEF Command

(* The entries that buildNewMFC makes. *)
LEMMA NewEntries ==
    ASSUME TypeOK
    PROVE  /\ hop \in [Source \cup Child -> NextHop \cup {None}]
           /\ BuildNewMFC \in [Source -> Entry \cup {NoEntry}]
           /\ \A s \in Source : BuildNewMFC[s] # NoEntry =>
                 hop[s] # None /\ BuildNewMFC[s].iif = Iface[hop[s]]
<1>1. hop \in [Source \cup Child -> NextHop \cup {None}]
  BY MulticastAssumption DEF TypeOK, NoRoutes
<1>2. ASSUME NEW s \in Source, ~(Children(s) = {} \/ hop[s] = None)
      PROVE  /\ BuildNewMFC[s] \in Entry
             /\ BuildNewMFC[s].iif = Iface[hop[s]]
  <2> DEFINE out == {Iface[hop[c]] : c \in {c \in Children(s) : hop[c] # None}}
  <2>1. Iface[hop[s]] \in Ifaces /\ out \subseteq Ifaces
    BY <1>1, <1>2 DEF Ifaces, Children
  <2>2. BuildNewMFC[s] = [iif |-> Iface[hop[s]], oifs |-> out \ {Iface[hop[s]]}]
    BY <1>2 DEF BuildNewMFC, GetNextHopForDest
  <2> HIDE DEF out
  <2> QED
    BY <2>1, <2>2 DEF Entry
<1>3. ASSUME NEW s \in Source, Children(s) = {} \/ hop[s] = None
      PROVE  BuildNewMFC[s] = NoEntry
  BY <1>3 DEF BuildNewMFC, GetNextHopForDest
<1>4. BuildNewMFC = [s \in Source |-> BuildNewMFC[s]]
  BY DEF BuildNewMFC
<1> QED
  BY <1>1, <1>2, <1>3, <1>4

(* No entry is the absence of one. *)
LEMMA EntryIsSome == NoEntry \notin Entry
BY MulticastAssumption DEF NoEntry, Entry

(* New entries depend on the routes and on which children there are. *)
LEMMA SameEntries ==
    ASSUME TypeOK, hop' = hop,
           \A s \in Source, c \in Child :
               confirmParents'[s][c] = Absent <=> confirmParents[s][c] = Absent
    PROVE  BuildNewMFC' = BuildNewMFC
<1>1. \A s \in Source : Children(s)' = Children(s)
  BY DEF Children
<1> QED
  BY <1>1 DEF BuildNewMFC, GetNextHopForDest

(* The entries that RecalculateMroutes publishes are new, or the old ones  *)
(* are withdrawn.                                                          *)
LEMMA Publishable ==
    ASSUME TypeOK, CacheInv, NEW s \in changes
    PROVE  EventFor(s, BuildNewMFC) \in Event
<1>1. CASE BuildNewMFC[s] = NoEntry
  BY <1>1, NewEntries DEF EventFor, Event, CacheInv, TypeOK
<1>2. CASE BuildNewMFC[s] # NoEntry
  BY <1>2, NewEntries DEF EventFor, Event, TypeOK
<1> QED
  BY <1>1, <1>2

LEMMA InitType == Init => TypeOK
<1> SUFFICES ASSUME Init PROVE TypeOK
  OBVIOUS
<1>1. /\ confirmParents \in [Source -> [Child -> Absent..Vtime]]
      /\ nextVif \in 0..MaxVifs /\ failures \in 0..MaxFailures
  BY MulticastAssumption DEF Init, Absent
<1>2. queue \in Seq(Event) /\ Len(queue) <= BufferSize /\ chain \in [Source -> Seq(Rule)]
  BY MulticastAssumption DEF Init
<1> QED
  BY <1>1, <1>2 DEF Init, TypeOK

(* The timers are set, reset, aged and decremented within their range. *)
LEMMA ManagerType == ASSUME TypeOK, Manager PROVE TypeOK'
<1>1. /\ UNCHANGED <<queue, router, filter, failures, dropped>>
      /\ TableStep
  BY DEF Manager
<1>2. /\ Vtime \in Absent..Vtime /\ Absent \in Absent..Vtime
      /\ \A t \in Absent..Vtime : t > Expired => t - 1 \in Absent..Vtime
  BY MulticastAssumption DEF Absent, Expired
<1>3. /\ confirmParents' \in [Source -> [Child -> Absent..Vtime]]
      /\ pending' \in BOOLEAN /\ abandoned' \in BOOLEAN
      /\ loop' \in {loop, "recalculate"} /\ (loop = "publish" => loop' = loop)
      /\ UNCHANGED <<changes, activeMfc>>
      /\ hop' \in HopTables \cup {NoRoutes}
  <2> USE DEF TypeOK, Unlocked, SetChild
  <2>1. ASSUME NEW s \in Source, NEW c \in Child, ProcessConfirmParent(s, c)
        PROVE  <1>3!:
    BY <1>2, <2>1 DEF ProcessConfirmParent
  <2>2. ASSUME NEW s \in Source, NEW c \in Child, HandleConfirmParents(s, c)
        PROVE  <1>3!:
    <3>1. pending' \in BOOLEAN /\ abandoned' \in BOOLEAN
      <4>1. pending \in BOOLEAN /\ abandoned \in BOOLEAN
        OBVIOUS
      <4>2. CASE pending' = TRUE /\ UNCHANGED abandoned
        BY <4>1, <4>2
      <4>3. CASE pending' = pending /\ abandoned' = (abandoned \/ ~pending)
        BY <4>1, <4>3, Zenon
      <4> QED
        BY <2>2, <4>2, <4>3 DEF HandleConfirmParents, PublishForClient
    <3>2. confirmParents' \in [Source -> [Child -> Absent..Vtime]]
      <4>1. SetChild(s, c, Vtime) \/ SetChild(s, c, Absent)
        BY <2>2, Zenon DEF HandleConfirmParents, AddLocalConfirmParent, DeleteLocalConfirmParent
      <4>2. CASE SetChild(s, c, Vtime)
        BY <1>2, <4>2
      <4>3. CASE SetChild(s, c, Absent)
        BY <1>2, <4>3
      <4> QED
        BY <4>1, <4>2, <4>3
    <3>3. UNCHANGED <<hop, loop, changes, activeMfc>>
      BY <2>2 DEF HandleConfirmParents
    <3> QED
      BY <3>1, <3>2, <3>3
  <2>3. CASE ProcessSourceClaim
    BY <2>3 DEF ProcessSourceClaim
  <2>4. CASE HandleSourceClaims
    BY <2>4 DEF HandleSourceClaims
  <2>5. CASE AgeOut
    BY <1>2, <2>5 DEF AgeOut
  <2>6. CASE Tick
    BY <1>2, <2>6 DEF Tick, Elapse
  <2>7. CASE SPFRun
    BY <2>7 DEF SPFRun, CalculateRoutes
  <2> QED
    BY <1>1, <2>1, <2>2, <2>3, <2>4, <2>5, <2>6, <2>7 DEF TableStep
<1>4. /\ queue' \in Seq(Event) /\ Len(queue') <= BufferSize
      /\ {dropped', partial', hasChain'} \subseteq BOOLEAN
      /\ installed' \in [Source -> Entry \cup {NoEntry}]
      /\ vifs' \subseteq Ifaces /\ nextVif' \in 0..MaxVifs
      /\ rule' \in [Source -> NextHop \cup {None}]
      /\ chain' \in [Source -> Seq(Rule)]
      /\ unresolved' \subseteq Source /\ unadded' \subseteq Source
      /\ failures' \in 0..MaxFailures
  BY <1>1 DEF TypeOK, router, filter
<1>5. /\ loop' \in {"idle", "recalculate", "publish"}
      /\ changes' \subseteq Source /\ (loop' = "publish" <=> changes' # {})
      /\ activeMfc' \in [Source -> Entry \cup {NoEntry}]
  BY <1>3 DEF TypeOK
<1> QED
  BY <1>3, <1>4, <1>5 DEF TypeOK

(* AddMulticastRoute installs the entry and numbers its interfaces, unless *)
(* the kernel refuses: there are enough numbers for all interfaces.        *)
LEMMA AddRoute ==
    ASSUME TypeOK, VifInv, NEW e \in Event, NEW refused \in 0..1, AddMulticastRoute(e, refused)
    PROVE  /\ vifs' \subseteq Ifaces /\ nextVif' \in 0..MaxVifs
           /\ installed' \in [Source -> Entry \cup {NoEntry}] /\ unadded' \subseteq Source
           /\ \A s \in Source \ {e.src} : installed'[s] = installed[s]
           /\ failures = 0 /\ refused = 0 =>
                 /\ nextVif' = Cardinality(vifs') /\ unadded' = {}
                 /\ vifs' = vifs \cup {e.entry.iif} \cup e.entry.oifs
                 /\ installed'[e.src] = e.entry
<1> DEFINE new == ({e.entry.iif} \cup e.entry.oifs) \ vifs
<1>1. /\ e.src \in Source /\ e.entry \in Entry
      /\ new \subseteq Ifaces /\ vifs \cap new = {}
  BY DEF Event, Entry
<1>2. \A S \in SUBSET Ifaces : IsFiniteSet(S) /\ Cardinality(S) \in Nat
  BY FiniteData, FS_Subset, FS_CardinalityType
<1>3. \A S \in SUBSET new : Cardinality(vifs \cup S) = Cardinality(vifs) + Cardinality(S)
  <2> SUFFICES ASSUME NEW S \in SUBSET new
               PROVE  Cardinality(vifs \cup S) = Cardinality(vifs) + Cardinality(S)
    OBVIOUS
  <2>1. IsFiniteSet(vifs) /\ IsFiniteSet(S) /\ vifs \cap S = {}
    BY <1>1, <1>2 DEF TypeOK
  <2>2. Cardinality(vifs \cup S) =
            Cardinality(vifs) + Cardinality(S) - Cardinality(vifs \cap S)
    BY <2>1, FS_Union
  <2>3. Cardinality(vifs) \in Nat /\ Cardinality(S) \in Nat
    BY <2>1, FS_CardinalityType
  <2>4. Cardinality(vifs \cap S) = 0
    BY <2>1, FS_EmptySet
  <2> HIDE DEF new
  <2> QED
    BY <2>2, <2>3, <2>4
<1>4. MaxVifs \in Nat /\ nextVif \in 0..MaxVifs /\ failures \in Nat
  BY MulticastAssumption DEF TypeOK
<1>5. CASE /\ nextVif + Cardinality(new) <= MaxVifs
           /\ vifs' = VifsKept(new) /\ nextVif' = nextVif + Cardinality(new)
           /\ \/ /\ refused = 0
                 /\ installed' = [installed EXCEPT ![e.src] = e.entry]
                 /\ unadded' = unadded \ {e.src}
              \/ /\ refused = 1
                 /\ unadded' = unadded \cup {e.src}
                 /\ UNCHANGED installed
  <2>1. vifs' = vifs \cup new /\ vifs' = vifs \cup {e.entry.iif} \cup e.entry.oifs
    BY <1>5 DEF VifsKept
  <2>2. Cardinality(new) \in Nat /\ Cardinality(vifs') = Cardinality(vifs) + Cardinality(new)
    BY <1>1, <1>2, <1>3, <2>1
  <2>3. vifs' \subseteq Ifaces /\ nextVif' \in 0..MaxVifs
    <3>1. vifs' \subseteq Ifaces
      BY <1>1, <2>1 DEF TypeOK
    <3>2. nextVif' \in 0..MaxVifs
      <4> HIDE DEF new
      <4> QED
        BY <1>4, <1>5, <2>2
    <3> QED
      BY <3>1, <3>2
  <2>4. /\ installed' \in [Source -> Entry \cup {NoEntry}] /\ unadded' \subseteq Source
        /\ \A s \in Source \ {e.src} : installed'[s] = installed[s]
    BY <1>1, <1>5 DEF TypeOK
  <2>5. ASSUME failures = 0, refused = 0
        PROVE  nextVif' = Cardinality(vifs') /\ unadded' = {} /\ installed'[e.src] = e.entry
    BY <1>1, <1>5, <2>2, <2>5 DEF VifInv, TypeOK
  <2> HIDE DEF new
  <2> QED
    BY <2>1, <2>3, <2>4, <2>5
<1>6. ASSUME NEW bad \in new, NEW done \in SUBSET (new \ {bad}),
             \/ nextVif + Cardinality(done) < MaxVifs /\ refused = 1
                   /\ nextVif' = nextVif + Cardinality(done) + 1
             \/ nextVif + Cardinality(done) = MaxVifs /\ refused = 0 /\ nextVif' = MaxVifs,
             vifs' = VifsKept(done), unadded' = unadded \cup {e.src}, UNCHANGED installed
      PROVE  /\ vifs' \subseteq Ifaces /\ nextVif' \in 0..MaxVifs
             /\ installed' \in [Source -> Entry \cup {NoEntry}] /\ unadded' \subseteq Source
             /\ \A s \in Source \ {e.src} : installed'[s] = installed[s]
             /\ ~(failures = 0 /\ refused = 0)
  <2>1. done \in SUBSET Ifaces /\ Cardinality(done) \in Nat /\ vifs' = vifs \cup done
    BY <1>1, <1>2, <1>6 DEF VifsKept
  <2>2. nextVif' \in 0..MaxVifs /\ vifs' \subseteq Ifaces
    <3> HIDE DEF new
    <3>1. nextVif' \in 0..MaxVifs
      BY <1>4, <1>6, <2>1
    <3> QED
      BY <2>1, <3>1 DEF TypeOK
  <2>3. ASSUME failures = 0, refused = 0 PROVE FALSE
    <3>1. Cardinality(vifs \cup done) = MaxVifs
      <4>1. nextVif = Cardinality(vifs) /\ nextVif + Cardinality(done) = MaxVifs
        BY <1>6, <2>3 DEF VifInv
      <4> QED
        BY <4>1, <1>3, <1>6
    <3>2. /\ IsFiniteSet(vifs \cup done) /\ bad \notin vifs \cup done
          /\ (vifs \cup done) \cup {bad} \subseteq Ifaces
      BY <1>1, <1>2, <1>6, <2>1 DEF TypeOK
    <3>3. Cardinality((vifs \cup done) \cup {bad}) = MaxVifs + 1
      BY <3>1, <3>2, FS_AddElement
    <3>4. Cardinality((vifs \cup done) \cup {bad}) <= Cardinality(Ifaces)
      BY <3>2, FiniteData, FS_Subset
    <3>5. Cardinality(Ifaces) \in Nat
      BY FiniteData, FS_CardinalityType
    <3> HIDE DEF new
    <3> QED
      BY <3>3, <3>4, <3>5, MulticastAssumption
  <2>4. /\ installed' \in [Source -> Entry \cup {NoEntry}] /\ unadded' \subseteq Source
        /\ \A s \in Source \ {e.src} : installed'[s] = installed[s]
    BY <1>1, <1>6 DEF TypeOK
  <2> QED
    BY <2>2, <2>3, <2>4
<1> QED
  BY <1>5, <1>6 DEF AddMulticastRoute

(* applyRules rebuilds the chain when none of its commands fails, which is *)
(* never so without a chain.                                               *)
LEMMA SetRules ==
    ASSUME TypeOK, NEW routes \in [Source -> NextHop \cup {None}],
           NEW failed \in SUBSET Command, ApplyRules(routes, failed)
    PROVE  /\ chain' \in [Source -> Seq(Rule)] /\ partial' \in BOOLEAN /\ hasChain' \in BOOLEAN
           /\ ~partial' => \A s \in Source : chain'[s] =
                 IF routes[s] = None THEN <<>>
                 ELSE << [from |-> routes[s], verdict |-> "accept"],
                         [from |-> None, verdict |-> "drop"] >>
<1>1. \A s \in Source : << [from |-> routes[s], verdict |-> "accept"] >> \in Seq(Rule)
  BY DEF Rule
<1>2. << [from |-> None, verdict |-> "drop"] >> \in Seq(Rule)
  BY DEF Rule
<1>3. <<>> \in Seq(Rule)
  OBVIOUS
<1>4. \A s \in Source : Added(s, routes[s], failed) \in Seq(Rule)
  BY <1>1, <1>2, <1>3 DEF Added
<1>5. chain' \in [Source -> Seq(Rule)]
  <2>1. \A s \in Source : (IF Flush \in failed THEN chain[s] ELSE <<>>) \in Seq(Rule)
    BY <1>3 DEF TypeOK
  <2>2. \A s \in Source :
            (IF routes[s] = None THEN <<>> ELSE Added(s, routes[s], failed)) \in Seq(Rule)
    BY <1>3, <1>4
  <2>3. \A s \in Source :
            (IF Flush \in failed THEN chain[s] ELSE <<>>)
                \o (IF routes[s] = None THEN <<>> ELSE Added(s, routes[s], failed)) \in Seq(Rule)
    BY <2>1, <2>2
  <2>4. CASE hasChain
    BY <2>3, <2>4, Zenon DEF ApplyRules
  <2>5. CASE ~hasChain
    BY <2>5 DEF ApplyRules, TypeOK
  <2> QED
    BY <2>4, <2>5
<1>6. partial' \in BOOLEAN /\ hasChain' \in BOOLEAN
  <2>1. hasChain' \in BOOLEAN
    BY DEF ApplyRules, TypeOK
  <2>2. partial' \in BOOLEAN
    BY Zenon DEF ApplyRules
  <2> QED
    BY <2>1, <2>2
<1>7. ASSUME ~partial', NEW s \in Source
      PROVE  chain'[s] = IF routes[s] = None THEN <<>>
                         ELSE << [from |-> routes[s], verdict |-> "accept"],
                                 [from |-> None, verdict |-> "drop"] >>
  <2>1. hasChain /\ failed = {}
    BY <1>7, Zenon DEF ApplyRules
  <2>2. chain'[s] = <<>> \o (IF routes[s] = None THEN <<>> ELSE Added(s, routes[s], {}))
    BY <2>1 DEF ApplyRules
  <2>3. Added(s, routes[s], {}) = << [from |-> routes[s], verdict |-> "accept"] >>
                                     \o << [from |-> None, verdict |-> "drop"] >>
    BY DEF Added
  <2>4. CASE routes[s] = None
    BY <2>2, <2>4
  <2>5. CASE routes[s] # None
    BY <1>1, <1>2, <2>2, <2>3, <2>5
  <2> QED
    BY <2>4, <2>5
<1> QED
  BY <1>5, <1>6, <1>7

FilterType ==
    /\ rule \in [Source -> NextHop \cup {None}] /\ chain \in [Source -> Seq(Rule)]
    /\ partial \in BOOLEAN /\ hasChain \in BOOLEAN /\ unresolved \subseteq Source

(* Nothing of the filter changes for sources other than s. *)
FilterOfOthers(s) ==
    \A t \in Source \ {s} : rule'[t] = rule[t] /\ (t \in unresolved' <=> t \in unresolved)

LEMMA FilterAdd ==
    ASSUME TypeOK, FilterInv, NEW s \in Source, NEW n \in NextHop, NEW failed \in SUBSET Command,
           OnMulticastRouteAdd(s, n, failed)
    PROVE  /\ FilterType' /\ FilterInv' /\ FilterOfOthers(s)
           /\ rule'[s] = n \/ s \in unresolved'
<1>1. CASE /\ rule' = [rule EXCEPT ![s] = n]
           /\ ApplyRules(rule', failed)
           /\ unresolved' = unresolved \ {s}
  <2>1. rule' \in [Source -> NextHop \cup {None}]
    BY <1>1 DEF TypeOK
  <2>2. /\ FilterInv' /\ chain' \in [Source -> Seq(Rule)]
        /\ partial' \in BOOLEAN /\ hasChain' \in BOOLEAN
    BY <1>1, <2>1, SetRules DEF FilterInv
  <2> QED
    BY <1>1, <2>1, <2>2 DEF FilterType, FilterOfOthers, TypeOK
<1>2. CASE /\ unresolved' = unresolved \cup {s}
           /\ UNCHANGED <<rule, chain, hasChain, partial>>
  BY <1>2 DEF FilterInv, FilterType, FilterOfOthers, TypeOK
<1> QED
  BY <1>1, <1>2 DEF OnMulticastRouteAdd

LEMMA FilterDelete ==
    ASSUME TypeOK, FilterInv, NEW s \in Source, NEW failed \in SUBSET Command,
           OnMulticastRouteDelete(s, failed)
    PROVE  FilterType' /\ FilterInv' /\ FilterOfOthers(s) /\ rule'[s] = None
<1>1. /\ rule' = [rule EXCEPT ![s] = None]
      /\ ApplyRules(rule', failed)
      /\ unresolved' = unresolved \ {s}
  BY DEF OnMulticastRouteDelete
<1>2. rule' \in [Source -> NextHop \cup {None}]
  BY <1>1 DEF TypeOK
<1>3. /\ FilterInv' /\ chain' \in [Source -> Seq(Rule)]
      /\ partial' \in BOOLEAN /\ hasChain' \in BOOLEAN
  BY <1>1, <1>2, SetRules DEF FilterInv
<1> QED
  BY <1>1, <1>2, <1>3 DEF FilterType, FilterOfOthers, TypeOK

RouterType ==
    /\ vifs \subseteq Ifaces /\ nextVif \in 0..MaxVifs
    /\ installed \in [Source -> Entry \cup {NoEntry}] /\ unadded \subseteq Source
    /\ failures \in 0..MaxFailures

(* What the handling of an event changes and leaves alone. *)
LEMMA ConsumeEffect ==
    ASSUME TypeOK, FilterInv, VifInv, Consume, NEW e, e = Head(queue)
    PROVE  /\ e \in Event
           /\ RouterType' /\ FilterType' /\ FilterInv' /\ VifInv'
           /\ failures' = 0 => failures = 0
           /\ FilterOfOthers(e.src)
           /\ \A s \in Source \ {e.src} : installed'[s] = installed[s]
           /\ vifs \subseteq vifs' \/ failures' # 0
           /\ e.action = "add_multicast" =>
                 /\ hop[e.src] = None \/ rule'[e.src] = hop[e.src] \/ e.src \in unresolved'
                 /\ failures' = 0 => installed'[e.src] = e.entry /\ e.entry.iif \in vifs'
           /\ e.action = "delete_multicast" =>
                 /\ rule'[e.src] = None
                 /\ e.entry.iif \in vifs => installed'[e.src] = NoEntry
<1>1. e \in Event
  BY DEF Consume, TypeOK
<1>2. e.src \in Source /\ e.entry \in Entry /\ e.action \in {"add_multicast", "delete_multicast"}
  BY <1>1 DEF Event
<1>3. PICK refused \in 0..1, failed \in SUBSET Command :
          /\ failures' = failures + refused + Cardinality(failed)
          /\ failures' <= MaxFailures
          /\ \/ e.action = "add_multicast" /\ HandleMulticastAdd(e, refused, failed)
             \/ e.action = "delete_multicast" /\ HandleMulticastDelete(e, refused, failed)
  BY DEF Consume
<1>4. /\ failures' \in 0..MaxFailures
      /\ failures' = 0 => failures = 0 /\ refused = 0
  <2>1. Cardinality(failed) \in Nat
    BY FiniteData, FS_Subset, FS_CardinalityType
  <2>2. failures \in 0..MaxFailures /\ MaxFailures \in Nat
    BY MulticastAssumption DEF TypeOK
  <2> QED
    BY <1>3, <2>1, <2>2
<1>5. CASE e.action = "add_multicast" /\ HandleMulticastAdd(e, refused, failed)
  <2>1. AddMulticastRoute(e, refused)
    BY <1>5 DEF HandleMulticastAdd
  <2>2. /\ vifs' \subseteq Ifaces /\ nextVif' \in 0..MaxVifs
        /\ installed' \in [Source -> Entry \cup {NoEntry}] /\ unadded' \subseteq Source
        /\ \A s \in Source \ {e.src} : installed'[s] = installed[s]
        /\ failures = 0 /\ refused = 0 =>
              /\ nextVif' = Cardinality(vifs') /\ unadded' = {}
              /\ vifs' = vifs \cup {e.entry.iif} \cup e.entry.oifs
              /\ installed'[e.src] = e.entry
    BY <1>1, <2>1, AddRoute
  <2>3. RouterType' /\ VifInv'
    BY <1>4, <2>2 DEF RouterType, VifInv
  <2>4. /\ FilterType' /\ FilterInv' /\ FilterOfOthers(e.src)
        /\ hop[e.src] = None \/ rule'[e.src] = hop[e.src] \/ e.src \in unresolved'
    <3>1. CASE hop[e.src] = None /\ UNCHANGED filter
      BY <3>1 DEF filter, FilterType, FilterInv, FilterOfOthers, TypeOK
    <3>2. CASE hop[e.src] # None /\ OnMulticastRouteAdd(e.src, hop[e.src], failed)
      BY <1>2, <3>2, NewEntries, FilterAdd
    <3> QED
      BY <1>5, <3>1, <3>2 DEF HandleMulticastAdd, GetNextHopForDest
  <2> QED
    BY <1>1, <1>4, <1>5, <2>2, <2>3, <2>4
<1>6. CASE e.action = "delete_multicast" /\ HandleMulticastDelete(e, refused, failed)
  <2>1. DeleteMulticastRoute(e) /\ OnMulticastRouteDelete(e.src, failed)
    BY <1>6 DEF HandleMulticastDelete
  <2>2. FilterType' /\ FilterInv' /\ FilterOfOthers(e.src) /\ rule'[e.src] = None
    BY <1>2, <2>1, FilterDelete
  <2>3. /\ RouterType' /\ VifInv' /\ vifs' = vifs
        /\ \A s \in Source \ {e.src} : installed'[s] = installed[s]
        /\ e.entry.iif \in vifs => installed'[e.src] = NoEntry
    BY <1>2, <1>4, <2>1 DEF DeleteMulticastRoute, RouterType, VifInv, TypeOK
  <2> QED
    BY <1>1, <1>4, <1>6, <2>2, <2>3
<1> QED
  BY <1>3, <1>5, <1>6

(* An event goes into the channel, or is given up. *)
LEMMA PublishEffect ==
    ASSUME TypeOK, CacheInv, NEW s \in changes, PublishMroute(s) \/ PublishTimeout(s)
    PROVE  /\ \/ /\ queue' = Append(queue, EventFor(s, BuildNewMFC))
                 /\ Len(queue) < BufferSize /\ dropped' = dropped
              \/ queue' = queue /\ dropped' = TRUE
           /\ queue' \in Seq(Event) /\ Len(queue') <= BufferSize
           /\ Synced(s)
<1>1. EventFor(s, BuildNewMFC) \in Event
  BY Publishable
<1>2. queue \in Seq(Event) /\ Len(queue) <= BufferSize /\ BufferSize \in Nat
  BY MulticastAssumption DEF TypeOK
<1>3. CASE PublishMroute(s)
  <2>1. /\ queue' = Append(queue, EventFor(s, BuildNewMFC))
        /\ Len(queue) < BufferSize /\ dropped' = dropped /\ Synced(s)
    BY <1>3 DEF PublishMroute
  <2>2. queue' \in Seq(Event) /\ Len(queue') = Len(queue) + 1
    BY <1>1, <1>2, <2>1
  <2>3. Len(queue') <= BufferSize
    BY <1>2, <2>1, <2>2
  <2> QED
    BY <2>1, <2>2, <2>3
<1>4. CASE PublishTimeout(s)
  BY <1>2, <1>4 DEF PublishTimeout
<1> QED
  BY <1>3, <1>4

LEMMA NextType ==
    ASSUME TypeOK, CacheInv, FilterInv, VifInv, [Next]_vars PROVE TypeOK'
<1>1. CASE Manager
  BY <1>1, ManagerType
<1>2. CASE Recalculation
  <2>1. UNCHANGED <<router, filter, failures, confirmParents, pending, hop>>
    BY <1>2 DEF Recalculation, RecalculateMroutes, PublishMroute, PublishTimeout, Synced
  <2>2. /\ abandoned' \in BOOLEAN /\ dropped' \in BOOLEAN
        /\ loop' \in {"idle", "recalculate", "publish"}
        /\ changes' \subseteq Source /\ (loop' = "publish" <=> changes' # {})
        /\ activeMfc' \in [Source -> Entry \cup {NoEntry}]
        /\ queue' \in Seq(Event) /\ Len(queue') <= BufferSize
    <3>1. CASE RecalculateMroutes
      BY <3>1 DEF RecalculateMroutes, Changed, Shuffled, TypeOK
    <3>2. ASSUME NEW s \in changes, PublishMroute(s) \/ PublishTimeout(s)
          PROVE  <2>2!:
      <4>1. Synced(s) /\ queue' \in Seq(Event) /\ Len(queue') <= BufferSize
            /\ dropped' \in {dropped, TRUE}
        BY <3>2, PublishEffect
      <4> QED
        BY <4>1, NewEntries DEF Synced, TypeOK
    <3> QED
      BY <1>2, <3>1, <3>2 DEF Recalculation
  <2> QED
    BY <2>1, <2>2 DEF TypeOK, router, filter
<1>3. CASE Consume
  <2>1. RouterType' /\ FilterType'
    BY <1>3, ConsumeEffect
  <2>2. queue' \in Seq(Event) /\ Len(queue') <= BufferSize
    BY <1>3, MulticastAssumption DEF Consume, TypeOK
  <2>3. UNCHANGED <<tables, dropped, abandoned>>
    BY <1>3 DEF Consume
  <2> QED
    BY <2>1, <2>2, <2>3 DEF TypeOK, RouterType, FilterType, tables
<1>4. CASE Restart
  <2>1. /\ confirmParents' \in [Source -> [Child -> Absent..Vtime]]
        /\ nextVif' \in 0..MaxVifs
    BY <1>4, MulticastAssumption DEF Restart, Absent
  <2>2. queue' \in Seq(Event) /\ Len(queue') <= BufferSize
    BY <1>4, MulticastAssumption DEF Restart
  <2>3. PICK failed \in SUBSET {"delete", "add"} :
            /\ failures' = failures + Cardinality(failed) /\ failures' <= MaxFailures
            /\ Start(failed)
    BY <1>4 DEF Restart
  <2>4. failures' \in 0..MaxFailures
    <3>1. IsFiniteSet({"delete", "add"})
      <4>1. IsFiniteSet({"delete"} \cup {"add"})
        BY FS_Singleton, FS_AddElement
      <4>2. {"delete", "add"} = {"delete"} \cup {"add"}
        OBVIOUS
      <4> QED
        BY <4>1, <4>2
    <3>2. Cardinality(failed) \in Nat
      BY <3>1, FS_Subset, FS_CardinalityType
    <3> QED
      BY <2>3, <3>2, MulticastAssumption DEF TypeOK
  <2>5. chain' \in [Source -> Seq(Rule)]
    BY <2>3 DEF Start, TypeOK
  <2>6. partial' \in BOOLEAN /\ hasChain' \in BOOLEAN
    BY <2>3, Zenon DEF Start
  <2>7. /\ pending' = FALSE /\ dropped' = FALSE /\ abandoned' = FALSE
        /\ loop' = "idle" /\ changes' = {} /\ hop' = NoRoutes
        /\ activeMfc' \in [Source -> Entry \cup {NoEntry}]
        /\ installed' \in [Source -> Entry \cup {NoEntry}]
        /\ vifs' = {} /\ unresolved' = {} /\ unadded' = {}
        /\ rule' \in [Source -> NextHop \cup {None}]
    BY <1>4 DEF Restart
  <2> QED
    BY <2>1, <2>2, <2>4, <2>5, <2>6, <2>7 DEF TypeOK
<1>5. CASE UNCHANGED vars
  BY <1>5 DEF vars, tables, router, filter, TypeOK
<1> QED
  BY <1>1, <1>2, <1>3, <1>4, <1>5 DEF Next

-----------------------------------------------------------------------------
(* m.activeMfc follows the tables. *)
LEMMA NextCache ==
    ASSUME TypeOK, TypeOK', CacheInv, [Next]_vars PROVE CacheInv'
<1>1. ASSUME NEW s \in Source, BuildNewMFC[s] # NoEntry
      PROVE  hop[s] # None /\ BuildNewMFC[s].iif = Iface[hop[s]]
  BY <1>1, NewEntries
<1>2. CASE UNCHANGED <<confirmParents, hop, loop, changes, activeMfc, pending, abandoned>>
  <2>1. BuildNewMFC' = BuildNewMFC
    BY <1>2, SameEntries
  <2> QED
    BY <1>2, <2>1 DEF CacheInv, Current, HopFits
<1>3. CASE Manager
  <2>1. CASE SPFRun
    BY <2>1 DEF SPFRun, CalculateRoutes, CacheInv, Current, TypeOK
  <2>2. CASE Tick
    <3>1. BuildNewMFC' = BuildNewMFC
      <4>1. \A s \in Source, c \in Child :
               confirmParents'[s][c] = Absent <=> confirmParents[s][c] = Absent
        BY <2>2 DEF Tick, Elapse, TypeOK, Absent, Expired
      <4> QED
        BY <2>2, <4>1, SameEntries DEF Tick, Elapse
    <3> QED
      BY <2>2, <3>1 DEF Tick, Elapse, CacheInv, Current, HopFits
  <2>3. CASE /\ loop # "publish" /\ UNCHANGED <<hop, loop, changes, activeMfc>>
             /\ pending' \/ abandoned'
    BY <2>3 DEF CacheInv, Current, HopFits, TypeOK
  <2>4. CASE HandleSourceClaims
    <3>1. BuildNewMFC' = BuildNewMFC
      BY <2>4, SameEntries DEF HandleSourceClaims
    <3>2. ~pending' => ~pending
      BY <2>4, Zenon DEF HandleSourceClaims
    <3> QED
      BY <2>4, <3>1, <3>2 DEF HandleSourceClaims, CacheInv, Current, HopFits
  <2>5. ASSUME NEW s \in Source, NEW c \in Child, HandleConfirmParents(s, c)
        PROVE  pending' \/ abandoned'
    <3>1. PublishForClient
      BY <2>5 DEF HandleConfirmParents
    <3>2. pending \in BOOLEAN /\ abandoned \in BOOLEAN
      BY DEF TypeOK
    <3> QED
      BY <3>1, <3>2, Zenon DEF PublishForClient
  <2>6. CASE \/ \E s \in Source, c \in Child : \/ ProcessConfirmParent(s, c)
                                               \/ HandleConfirmParents(s, c)
             \/ ProcessSourceClaim
             \/ AgeOut
    BY <2>3, <2>5, <2>6 DEF ProcessConfirmParent, HandleConfirmParents, ProcessSourceClaim,
                            AgeOut, Unlocked
  <2> QED
    BY <1>3, <2>1, <2>2, <2>4, <2>6 DEF Manager, TableStep
<1>4. CASE Recalculation
  <2>1. UNCHANGED <<confirmParents, hop, pending>>
    BY <1>4 DEF Recalculation, RecalculateMroutes, PublishMroute, PublishTimeout, Synced
  <2>2. BuildNewMFC' = BuildNewMFC
    BY <2>1, SameEntries
  <2>3. CASE RecalculateMroutes
    <3>1. PICK extra \in SUBSET Shuffled(BuildNewMFC) :
              changes' = Changed(BuildNewMFC) \cup extra
      BY <2>3 DEF RecalculateMroutes
    <3>2. \A s \in Source \ changes' : activeMfc[s] = BuildNewMFC[s]
      BY <3>1 DEF Changed
    <3>3. \A s \in changes' : BuildNewMFC[s] = NoEntry => activeMfc[s] # NoEntry
      <4>1. \A s \in Source : BuildNewMFC[s] = NoEntry => s \notin Shuffled(BuildNewMFC)
        BY FS_EmptySet DEF Shuffled, NoEntry
      <4>2. \A s \in changes' : s \in Changed(BuildNewMFC) \/ s \in Shuffled(BuildNewMFC)
        BY <3>1
      <4> QED
        BY <4>1, <4>2 DEF Changed, Shuffled
    <3>4. activeMfc' = activeMfc /\ loop' = IF changes' = {} THEN "idle" ELSE "publish"
      BY <2>3 DEF RecalculateMroutes
    <3>5. changes' = {} => activeMfc' = BuildNewMFC
      BY <3>2, <3>4, NewEntries DEF TypeOK
    <3>6. \A s \in Source : Current(s)' /\ activeMfc'[s] # NoEntry => HopFits(s)'
      BY <1>1, <2>1, <3>2, <3>4 DEF Current, HopFits
    <3> QED
      BY <2>2, <3>2, <3>3, <3>4, <3>5, <3>6 DEF CacheInv
  <2>4. ASSUME NEW s \in changes, PublishMroute(s) \/ PublishTimeout(s)
        PROVE  CacheInv'
    <3>1. Synced(s)
      BY <2>4 DEF PublishMroute, PublishTimeout
    <3>2. loop = "publish" /\ s \in Source
      BY DEF TypeOK
    <3>3. \A t \in Source \ changes' : activeMfc'[t] = BuildNewMFC[t]
      BY <3>1, <3>2 DEF Synced, CacheInv, TypeOK
    <3>4. \A t \in changes' : BuildNewMFC[t] = NoEntry => activeMfc'[t] # NoEntry
      BY <3>1, <3>2 DEF Synced, CacheInv, TypeOK
    <3>5. changes' = {} => activeMfc' = BuildNewMFC
      BY <3>3, NewEntries DEF TypeOK
    <3>6. \A t \in Source : Current(t)' /\ activeMfc'[t] # NoEntry => HopFits(t)'
      BY <1>1, <2>1, <3>3 DEF Current, HopFits
    <3>7. loop' = IF changes' = {} THEN "idle" ELSE "publish"
      BY <3>1 DEF Synced
    <3> QED
      BY <2>2, <3>3, <3>4, <3>5, <3>6, <3>7 DEF CacheInv
  <2> QED
    BY <1>4, <2>3, <2>4 DEF Recalculation
<1>5. CASE Consume
  BY <1>2, <1>5 DEF Consume, tables
<1>6. CASE Restart
  <2>1. \A s \in Source : Children(s)' = {}
    BY <1>6 DEF Restart, Children
  <2>2. BuildNewMFC' = [s \in Source |-> NoEntry]
    BY <2>1 DEF BuildNewMFC
  <2> QED
    BY <1>6, <2>2 DEF Restart, CacheInv
<1>7. CASE UNCHANGED vars
  BY <1>2, <1>7 DEF vars, tables
<1> QED
  BY <1>3, <1>4, <1>5, <1>6, <1>7 DEF Next

(* What is in the channel, the filter and the kernel follows m.activeMfc:  *)
(* publishing an event.                                                    *)
LEMMA PublishKeeps ==
    ASSUME TypeOK, CacheInv, QueueInv, RuleInv, InstallInv, NEW s \in changes,
           PublishMroute(s) \/ PublishTimeout(s), UNCHANGED <<router, filter, failures>>
    PROVE  QueueInv' /\ RuleInv' /\ InstallInv'
<1> DEFINE ev == EventFor(s, BuildNewMFC)
<1>1. CASE dropped'
  BY <1>1 DEF QueueInv, RuleInv, InstallInv
<1>2. CASE ~dropped'
  <2>1. /\ queue' = Append(queue, ev) /\ ~dropped /\ Synced(s)
        /\ ev \in Event /\ queue \in Seq(Event) /\ s \in Source
    BY <1>2, PublishEffect, Publishable DEF TypeOK
  <2>2. /\ Len(queue) \in Nat /\ Len(queue') = Len(queue) + 1
        /\ queue'[Len(queue) + 1] = ev /\ \A i \in 1..Len(queue) : queue'[i] = queue[i]
    <3> HIDE DEF ev
    <3> QED
      BY <2>1
  <2>3. /\ ev.src = s
        /\ BuildNewMFC[s] = NoEntry =>
              /\ ev.action = "delete_multicast" /\ ev.entry = activeMfc[s]
              /\ activeMfc[s] # NoEntry
        /\ BuildNewMFC[s] # NoEntry => ev.action = "add_multicast" /\ ev.entry = BuildNewMFC[s]
    BY DEF EventFor, CacheInv
  <2>4. /\ activeMfc'[s] = BuildNewMFC[s]
        /\ \A t \in Source \ {s} : activeMfc'[t] = activeMfc[t]
        /\ hop' = hop
    BY <2>1 DEF Synced, TypeOK
  <2>5. \A i \in 1..Len(queue) : queue[i].src \in Source
    <3>1. \A i \in 1..Len(queue) : queue[i] \in Event
      BY <2>1
    <3> QED
      BY <3>1 DEF Event
  <2>6. Waiting(s)' /\ \A t \in Source \ {s} : Waiting(t)' <=> Waiting(t)
    <3> HIDE DEF ev
    <3> QED
      BY <2>2, <2>3 DEF Waiting
  <2> HIDE DEF ev
  <2>7. QueueInv'
    <3> SUFFICES ASSUME NEW i \in 1..Len(queue'),
                        \A j \in i+1..Len(queue') : queue'[j].src # queue'[i].src
                 PROVE  Latest(queue[i])'
      BY DEF QueueInv
    <3>1. CASE i = Len(queue) + 1
      BY <2>2, <2>3, <2>4, <3>1 DEF Latest
    <3>2. CASE i \in 1..Len(queue)
      <4>1. queue[i].src # s /\ queue'[i] = queue[i]
        BY <2>2, <2>3, <3>2
      <4>2. \A j \in i+1..Len(queue) : queue[j].src # queue[i].src
        BY <2>2, <3>2
      <4>3. Latest(queue[i])
        BY <2>1, <3>2, <4>2 DEF QueueInv
      <4> QED
        BY <2>4, <2>5, <3>2, <4>1, <4>3 DEF Latest
    <3> QED
      BY <2>2, <3>1, <3>2
  <2>8. RuleInv'
    BY <2>1, <2>4, <2>6 DEF RuleInv, RuleFits, HopFits, filter
  <2>9. ASSUME failures' = 0 PROVE InstallInv'
    <3>1. failures = 0 /\ installed' = installed /\ vifs' = vifs
      BY <2>9 DEF router
    <3>2. \A t \in Source : ~Waiting(t)' => installed'[t] = activeMfc'[t]
      BY <2>1, <2>4, <2>6, <3>1 DEF InstallInv
    <3>3. \A f : \A i \in 1..Len(queue) + 1 :
             Numbered(f, i) => Numbered(f, i)' /\ Numbered(f, i + 1)'
      BY <2>2, <3>1 DEF Numbered
    <3>4. \A t \in Source : activeMfc'[t] # NoEntry => Numbered(activeMfc[t].iif, Len(queue) + 1)'
      <4>1. ASSUME activeMfc'[s] # NoEntry PROVE Numbered(activeMfc[s].iif, Len(queue) + 1)'
        BY <2>2, <2>3, <2>4, <4>1 DEF Numbered
      <4>2. ASSUME NEW t \in Source \ {s}, activeMfc'[t] # NoEntry
            PROVE  Numbered(activeMfc[t].iif, Len(queue) + 1)'
        <5>1. Numbered(activeMfc[t].iif, Len(queue) + 1)
          BY <2>1, <2>4, <3>1, <4>2 DEF InstallInv
        <5> QED
          BY <2>2, <2>4, <3>3, <5>1
      <4> QED
        BY <4>1, <4>2
    <3>5. ASSUME NEW i \in 1..Len(queue'), queue'[i].action = "delete_multicast"
          PROVE  Numbered(queue[i].entry.iif, i)'
      <4>1. CASE i \in 1..Len(queue)
        BY <2>1, <2>2, <3>1, <3>3, <3>5, <4>1 DEF InstallInv
      <4>2. CASE i = Len(queue) + 1
        <5>1. ev.entry = activeMfc[s] /\ activeMfc[s] # NoEntry
          BY <2>2, <2>3, <3>5, <4>2
        <5> QED
          BY <2>1, <2>2, <3>1, <3>3, <4>2, <5>1 DEF InstallInv
      <4> QED
        BY <2>2, <4>1, <4>2
    <3> QED
      BY <3>2, <3>4, <3>5 DEF InstallInv
  <2> QED
    BY <2>7, <2>8, <2>9 DEF InstallInv
<1> QED
  BY <1>1, <1>2

(* Handling the next event. *)
LEMMA ConsumeKeeps ==
    ASSUME TypeOK, QueueInv, RuleInv, InstallInv, FilterInv, VifInv, Consume
    PROVE  QueueInv' /\ RuleInv' /\ InstallInv'
<1>1. /\ queue \in Seq(Event) /\ queue # <<>> /\ queue' = Tail(queue)
      /\ UNCHANGED <<tables, dropped>>
  BY DEF Consume, TypeOK
<1> PICK e \in Event : e = Head(queue)
  BY <1>1
<1>2. /\ Len(queue) \in Nat \ {0} /\ Len(queue') = Len(queue) - 1 /\ e = queue[1]
      /\ \A i \in 1..Len(queue') : queue'[i] = queue[i + 1]
  BY <1>1
<1>3. UNCHANGED <<hop, activeMfc, dropped>>
  BY <1>1 DEF tables
<1>4. /\ e.src \in Source /\ e.entry \in Entry /\ e.action \in {"add_multicast", "delete_multicast"}
      /\ \A i \in 1..Len(queue) : queue[i].src \in Source
  <2>1. \A i \in 1..Len(queue) : queue[i] \in Event
    BY <1>1
  <2> QED
    BY <2>1 DEF Event
<1>5. /\ failures' = 0 => failures = 0
      /\ FilterOfOthers(e.src)
      /\ \A s \in Source \ {e.src} : installed'[s] = installed[s]
      /\ vifs \subseteq vifs' \/ failures' # 0
      /\ e.action = "add_multicast" =>
            /\ hop[e.src] = None \/ rule'[e.src] = hop[e.src] \/ e.src \in unresolved'
            /\ failures' = 0 => installed'[e.src] = e.entry /\ e.entry.iif \in vifs'
      /\ e.action = "delete_multicast" =>
            /\ rule'[e.src] = None
            /\ e.entry.iif \in vifs => installed'[e.src] = NoEntry
  BY ConsumeEffect
<1>6. \A s \in Source \ {e.src} : Waiting(s)' <=> Waiting(s)
  <2>1. ASSUME NEW s, Waiting(s)' PROVE Waiting(s)
    BY <1>2, <2>1 DEF Waiting
  <2>2. ASSUME NEW s, s # e.src, Waiting(s) PROVE Waiting(s)'
    <3>1. PICK i \in 1..Len(queue) : queue[i].src = s
      BY <2>2 DEF Waiting
    <3>2. i - 1 \in 1..Len(queue') /\ queue'[i - 1] = queue[i]
      BY <1>2, <2>2, <3>1
    <3> QED
      BY <3>1, <3>2 DEF Waiting
  <2> QED
    BY <2>1, <2>2
<1>7. ASSUME ~Waiting(e.src)', ~dropped' PROVE Latest(e)
  <2>1. ASSUME NEW j \in 2..Len(queue) PROVE queue[j].src # e.src
    <3>1. j - 1 \in 1..Len(queue') /\ queue'[j - 1] = queue[j]
      BY <1>2
    <3> QED
      BY <1>7, <3>1 DEF Waiting
  <2> QED
    BY <1>2, <1>3, <1>7, <2>1 DEF QueueInv
<1>8. QueueInv'
  <2> SUFFICES ASSUME ~dropped', NEW i \in 1..Len(queue'),
                      \A j \in i+1..Len(queue') : queue'[j].src # queue'[i].src
               PROVE  Latest(queue[i])'
    BY DEF QueueInv
  <2>1. i + 1 \in 1..Len(queue) /\ queue'[i] = queue[i + 1]
    BY <1>2
  <2>2. ASSUME NEW j \in i+2..Len(queue) PROVE queue[j].src # queue[i + 1].src
    <3>1. j - 1 \in i+1..Len(queue') /\ queue'[j - 1] = queue[j]
      BY <1>2
    <3> QED
      BY <2>1, <3>1
  <2>3. Latest(queue[i + 1])
    BY <1>3, <2>1, <2>2 DEF QueueInv
  <2> QED
    BY <1>3, <2>1, <2>3 DEF Latest
<1>9. RuleInv'
  <2> SUFFICES ASSUME ~dropped', NEW s \in Source, ~Waiting(s)'
               PROVE  /\ activeMfc'[s] = NoEntry => rule'[s] = None
                      /\ activeMfc'[s] # NoEntry /\ s \notin unresolved' =>
                            RuleFits(s)' \/ ~HopFits(s)'
    BY DEF RuleInv
  <2>1. CASE s # e.src
    BY <1>3, <1>5, <1>6, <2>1 DEF RuleInv, RuleFits, HopFits, FilterOfOthers
  <2>2. CASE s = e.src /\ e.action = "add_multicast"
    <3>1. activeMfc[s] = e.entry /\ activeMfc[s] # NoEntry
      BY <1>4, <1>7, <2>2, EntryIsSome DEF Latest
    <3> QED
      BY <1>3, <1>5, <2>2, <3>1 DEF RuleFits, HopFits
  <2>3. CASE s = e.src /\ e.action = "delete_multicast"
    BY <1>3, <1>5, <1>7, <2>3 DEF Latest
  <2> QED
    BY <1>4, <2>1, <2>2, <2>3
<1>10. ASSUME failures' = 0, ~dropped' PROVE InstallInv'
  <2>1. /\ \A s \in Source : ~Waiting(s) => installed[s] = activeMfc[s]
        /\ \A s \in Source : activeMfc[s] # NoEntry => Numbered(activeMfc[s].iif, Len(queue) + 1)
        /\ \A i \in 1..Len(queue) :
              queue[i].action = "delete_multicast" => Numbered(queue[i].entry.iif, i)
    BY <1>3, <1>5, <1>10 DEF InstallInv
  <2>2. ASSUME NEW f, NEW i \in 2..Len(queue) + 1, Numbered(f, i) PROVE Numbered(f, i - 1)'
    <3>1. CASE f \in vifs
      BY <1>5, <1>10, <3>1 DEF Numbered
    <3>2. ASSUME NEW j \in 1..i-1, queue[j].action = "add_multicast", queue[j].entry.iif = f
          PROVE  Numbered(f, i - 1)'
      <4>1. CASE j = 1
        BY <1>2, <1>5, <1>10, <3>2, <4>1 DEF Numbered
      <4>2. CASE j # 1
        <5>1. j - 1 \in 1..(i-1)-1 /\ queue'[j - 1] = queue[j]
          BY <1>2, <4>2
        <5> QED
          BY <3>2, <5>1 DEF Numbered
      <4> QED
        BY <4>1, <4>2
    <3> QED
      BY <2>2, <3>1, <3>2 DEF Numbered
  <2>3. ASSUME NEW s \in Source, ~Waiting(s)' PROVE installed'[s] = activeMfc'[s]
    <3>1. CASE s # e.src
      BY <1>3, <1>5, <1>6, <2>1, <2>3, <3>1
    <3>2. CASE s = e.src /\ e.action = "add_multicast"
      BY <1>3, <1>5, <1>7, <1>10, <2>3, <3>2 DEF Latest
    <3>3. CASE s = e.src /\ e.action = "delete_multicast"
      <4>1. e.entry.iif \in vifs
        <5>1. Numbered(e.entry.iif, 1)
          BY <1>2, <2>1, <3>3
        <5> QED
          BY <5>1 DEF Numbered
      <4> QED
        BY <1>3, <1>5, <1>7, <1>10, <2>3, <3>3, <4>1 DEF Latest
    <3> QED
      BY <1>4, <3>1, <3>2, <3>3
  <2>4. ASSUME NEW s \in Source, activeMfc'[s] # NoEntry
        PROVE  Numbered(activeMfc[s].iif, Len(queue) + 1)'
    <3>1. Numbered(activeMfc[s].iif, Len(queue) + 1)
      BY <1>3, <2>1, <2>4
    <3>2. Len(queue) + 1 \in 2..Len(queue) + 1 /\ (Len(queue) + 1) - 1 = Len(queue') + 1
      BY <1>2
    <3> QED
      BY <1>3, <2>2, <3>1, <3>2
  <2>5. ASSUME NEW i \in 1..Len(queue'), queue'[i].action = "delete_multicast"
        PROVE  Numbered(queue[i].entry.iif, i)'
    <3>1. i + 1 \in 2..Len(queue) + 1 /\ i + 1 \in 1..Len(queue) /\ queue'[i] = queue[i + 1]
          /\ (i + 1) - 1 = i
      BY <1>2
    <3>2. Numbered(queue[i + 1].entry.iif, i + 1)
      BY <2>1, <2>5, <3>1
    <3> QED
      BY <2>2, <3>1, <3>2
  <2> QED
    BY <2>3, <2>4, <2>5 DEF InstallInv
<1> QED
  BY <1>8, <1>9, <1>10 DEF InstallInv

LEMMA InitInv == Init => MulticastInv
<1> SUFFICES ASSUME Init PROVE MulticastInv
  OBVIOUS
<1>1. TypeOK
  BY InitType
<1>2. CacheInv
  <2>1. \A s \in Source : Children(s) = {}
    BY DEF Init, Children
  <2>2. BuildNewMFC = [s \in Source |-> NoEntry]
    BY <2>1 DEF BuildNewMFC
  <2> QED
    BY <2>2 DEF Init, CacheInv
<1>3. QueueInv /\ RuleInv /\ FilterInv
  BY DEF Init, QueueInv, RuleInv, FilterInv
<1>4. VifInv /\ InstallInv
  BY FS_EmptySet DEF Init, VifInv, InstallInv
<1> QED
  BY <1>1, <1>2, <1>3, <1>4 DEF MulticastInv

LEMMA NextInv == MulticastInv /\ [Next]_vars => MulticastInv'
<1> SUFFICES ASSUME MulticastInv, [Next]_vars PROVE MulticastInv'
  OBVIOUS
<1> USE DEF MulticastInv
<1>1. TypeOK'
  BY NextType
<1>2. CacheInv'
  BY <1>1, NextCache
<1>3. CASE Manager
  <2>1. UNCHANGED <<queue, router, filter, failures, dropped, activeMfc>>
    BY <1>3 DEF Manager, TableStep, ProcessConfirmParent, HandleConfirmParents,
                ProcessSourceClaim, HandleSourceClaims, AgeOut, Tick, SPFRun, CalculateRoutes
  <2>2. FilterInv' /\ VifInv' /\ QueueInv' /\ InstallInv'
    BY <2>1 DEF router, filter, FilterInv, VifInv, QueueInv, Latest, InstallInv, Waiting, Numbered
  <2>3. ASSUME hop' = hop PROVE RuleInv'
    BY <2>1, <2>3 DEF filter, RuleInv, Waiting, RuleFits, HopFits
  <2>4. ASSUME SPFRun PROVE RuleInv'
    <3>1. \A s \in Source : activeMfc[s] # NoEntry => HopFits(s)
      BY <2>4 DEF SPFRun, CalculateRoutes, CacheInv, Current, TypeOK
    <3>2. \A s \in Source : RuleFits(s)' <=> RuleFits(s)
      BY <2>1 DEF filter, RuleFits
    <3> QED
      BY <2>1, <3>1, <3>2 DEF filter, RuleInv, Waiting
  <2>5. hop' = hop \/ SPFRun
    BY <1>3 DEF Manager, TableStep, ProcessConfirmParent, HandleConfirmParents,
                ProcessSourceClaim, HandleSourceClaims, AgeOut, Tick
  <2> QED
    BY <1>1, <1>2, <2>2, <2>3, <2>4, <2>5
<1>4. CASE Recalculation
  <2>1. UNCHANGED <<router, filter, failures>>
    BY <1>4 DEF Recalculation
  <2>2. FilterInv' /\ VifInv'
    BY <2>1 DEF router, filter, FilterInv, VifInv
  <2>3. ASSUME RecalculateMroutes PROVE QueueInv' /\ RuleInv' /\ InstallInv'
    BY <2>1, <2>3 DEF RecalculateMroutes, router, filter, QueueInv, Latest, RuleInv, InstallInv,
                      Waiting, Numbered, RuleFits, HopFits
  <2>4. ASSUME NEW s \in changes, PublishMroute(s) \/ PublishTimeout(s)
        PROVE  QueueInv' /\ RuleInv' /\ InstallInv'
    BY <2>1, <2>4, PublishKeeps
  <2> QED
    BY <1>1, <1>2, <1>4, <2>2, <2>3, <2>4 DEF Recalculation
<1>5. CASE Consume
  BY <1>1, <1>2, <1>5, ConsumeKeeps, ConsumeEffect
<1>6. CASE Restart
  <2>1. QueueInv' /\ RuleInv'
    BY <1>6 DEF Restart, QueueInv, RuleInv
  <2>2. FilterInv'
    <3>1. PICK failed \in SUBSET {"delete", "add"} : Start(failed)
      BY <1>6 DEF Restart
    <3>2. ASSUME ~partial' PROVE chain' = [s \in Source |-> <<>>]
      <4>1. failed = {}
        BY <3>1, <3>2, Zenon DEF Start
      <4> QED
        BY <3>1, <4>1 DEF Start
    <3>3. rule' = [s \in Source |-> None]
      BY <1>6 DEF Restart
    <3> QED
      BY <3>2, <3>3 DEF FilterInv
  <2>3. VifInv' /\ InstallInv'
    BY <1>6, FS_EmptySet DEF Restart, VifInv, InstallInv
  <2> QED
    BY <1>1, <1>2, <2>1, <2>2, <2>3
<1>7. CASE UNCHANGED vars
  BY <1>1, <1>2, <1>7 DEF vars, tables, router, filter, FilterInv, VifInv, QueueInv, Latest,
                          RuleInv, InstallInv, Waiting, Numbered, RuleFits, HopFits
<1> QED
  BY <1>3, <1>4, <1>5, <1>6, <1>7 DEF Next

(* The tables, the channel, the kernel's and the filter's state have their *)
(* types, whatever fails and whenever the daemon restarts.                 *)
THEOREM TypeCorrect == Spec => []TypeOK
<1>1. MulticastInv => TypeOK
  BY DEF MulticastInv
<1> QED
  BY InitInv, NextInv, <1>1, PTL DEF Spec

(* Once all events are handled, the kernel holds the entries that          *)
(* buildNewMFC would make of the present children and routes.              *)
THEOREM ForwardingFollowsTree == Spec => []ForwardingMatchesTree
<1>1. MulticastInv => ForwardingMatchesTree
  <2> SUFFICES ASSUME MulticastInv, Quiet, Undisturbed, failures = 0, NEW s \in Source
               PROVE  installed[s] = BuildNewMFC[s]
    BY DEF ForwardingMatchesTree
  <2>1. ~Waiting(s)
    BY DEF Quiet, Waiting
  <2>2. activeMfc = BuildNewMFC
    BY DEF MulticastInv, CacheInv, Quiet, Undisturbed
  <2> QED
    BY <2>1, <2>2 DEF MulticastInv, InstallInv, Undisturbed
<1> QED
  BY InitInv, NextInv, <1>1, PTL DEF Spec

(* The filter accepts a neighbour on the entry's incoming interface, though *)
(* handleMulticastAdd looks the next hop up when it handles the event.      *)
THEOREM RuleFollowsTree == Spec => []RuleOnIncomingInterface
<1>1. MulticastInv => RuleOnIncomingInterface
  <2> SUFFICES ASSUME MulticastInv, Quiet, Undisturbed, NEW s \in Source,
                      activeMfc[s] # NoEntry, s \notin unresolved
               PROVE  RuleFits(s)
    BY DEF RuleOnIncomingInterface, RuleFits
  <2>1. ~Waiting(s)
    BY DEF Quiet, Waiting
  <2>2. Current(s)
    BY DEF MulticastInv, TypeOK, Quiet, Current
  <2> QED
    BY <2>1, <2>2 DEF MulticastInv, CacheInv, RuleInv, Undisturbed
<1> QED
  BY InitInv, NextInv, <1>1, PTL DEF Spec

(* The filter keeps no rule for a source that has no entry any more. *)
THEOREM NoRuleIsOrphaned == Spec => []NoOrphanRule
<1>1. MulticastInv => NoOrphanRule
  <2>1. Quiet => \A s \in Source : ~Waiting(s)
    BY DEF Quiet, Waiting
  <2> QED
    BY <2>1 DEF MulticastInv, RuleInv, Undisturbed, NoOrphanRule
<1> QED
  BY InitInv, NextInv, <1>1, PTL DEF Spec

(* The nftables chain and the NFQUEUE hook decide alike, for every packet, *)
(* after every Start and every applyRules all of whose commands worked,    *)
(* whatever Start left of a former process and earlier ones failed to do.  *)
THEOREM FilterAgrees == Spec => []FilterMatchesRoutes
<1>1. MulticastInv => FilterMatchesRoutes
  <2> SUFFICES ASSUME MulticastInv, ~partial, NEW s \in Source, NEW n \in NextHop
               PROVE  ChainAccepts(s, n) = HookAccepts(s, n)
    BY DEF FilterMatchesRoutes
  <2>1. CASE rule[s] = None
    <3>1. chain[s] = <<>>
      BY <2>1 DEF MulticastInv, FilterInv
    <3>2. Matching(s, n) = {}
      BY <3>1 DEF Matching
    <3> QED
      BY <2>1, <3>2, Zenon DEF ChainAccepts, HookAccepts
  <2>2. CASE rule[s] # None
    <3>1. chain[s] = << [from |-> rule[s], verdict |-> "accept"],
                        [from |-> None, verdict |-> "drop"] >>
      BY <2>2 DEF MulticastInv, FilterInv
    <3>2. /\ DOMAIN chain[s] = {1, 2}
          /\ chain[s][1].from = rule[s] /\ chain[s][1].verdict = "accept"
          /\ chain[s][2].from = None /\ chain[s][2].verdict = "drop"
      BY <3>1
    <3>3. CASE n = rule[s]
      <4>1. Matching(s, n) = {1, 2}
        BY <3>2, <3>3 DEF Matching
      <4>2. ChainAccepts(s, n)
        BY <3>2, <4>1 DEF ChainAccepts
      <4> QED
        BY <3>3, <4>2, Zenon DEF HookAccepts, ChainAccepts
    <3>4. CASE n # rule[s]
      <4>1. Matching(s, n) = {2}
        BY <2>2, <3>2, <3>4 DEF Matching
      <4>2. ~ChainAccepts(s, n)
        BY <3>2, <4>1 DEF ChainAccepts
      <4> QED
        BY <2>2, <3>4, <4>2, Zenon DEF HookAccepts, ChainAccepts
    <3> QED
      BY <3>3, <3>4
  <2> QED
    BY <2>1, <2>2
<1> QED
  BY InitInv, NextInv, <1>1, PTL DEF Spec

(* The kernel's interface numbers do not run out, however often entries    *)
(* change, as long as it refuses none.                                     *)
THEOREM VifsNeverRunOut == Spec => []VifsSuffice
<1>1. MulticastInv => VifsSuffice
  BY DEF MulticastInv, VifInv, VifsSuffice
<1> QED
  BY InitInv, NextInv, <1>1, PTL DEF Spec
=============================================================================
