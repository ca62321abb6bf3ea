------------------------ MODULE MulticastForwarding ------------------------
(***************************************************************************)
(* One multicast group from CONFIRM PARENT messages to the forwarding      *)
(* cache and the packet filter: MOLSRManager (internal/olsr/molsr.go), its *)
(* REST handlers (internal/api/handlers.go), the multicast half of         *)
(* routeInstallationLoop (cmd/olsrd/daemon.go), the kernel's cache and the *)
(* nftables loop prevention (internal/mroute).  This is the standalone     *)
(* mode; with FRR the entries go to pimd through vtysh instead.            *)
(*                                                                         *)
(* The manager's methods hold m.mu.  topologyUpdateLoop makes an SPF run   *)
(* and calls RecalculateMroutes, which holds m.mu until its last event is  *)
(* published or given up.  That no TopologyUpdate is lost on its way to    *)
(* that loop is UpdatePipeline's result: here it is one pending bit.       *)
(* Source claims and joined groups are only listed by the API and never    *)
(* looked at by the forwarding code: a change of a claim shows here by its *)
(* event alone.                                                            *)
(*                                                                         *)
(* applyRules writes the same rules for every interface; the chain here is *)
(* what it holds for one of them.  A rule matches packets of one source,   *)
(* so the chain is kept as the rules of each source, in order.  Each nft   *)
(* command may fail, those of Start included, and the kernel may refuse a  *)
(* virtual interface.  No other goroutine looks at the chain while the     *)
(* commands of one applyRules run: they are one step.                      *)
(***************************************************************************)
EXTENDS RelativeTime, Sequences, FiniteSets

CONSTANTS
    Source,       \* sources that send to the group
    Child,        \* routers that may choose this one as their parent
    NextHop,      \* neighbours through which unicast routes lead
    None,         \* no next hop, no rule; in a chain: whoever sends
    Iface,        \* Iface[n]: the interface on which neighbour n is
    ARP,          \* the neighbours whose MAC address /proc/net/arp always holds
    HopTables,    \* the unicast routing tables that SPF may compute
    BufferSize,   \* capacity of the RouteInstall channel
    Vtime,        \* validity time of a CONFIRM PARENT
    MaxVifs,      \* virtual interfaces the kernel numbers (32)
    MaxFailures   \* bound: failed nft commands and refused interfaces

Ifaces  == {Iface[n] : n \in NextHop}

ASSUME MulticastAssumption ==
    /\ Vtime \in Nat /\ MaxFailures \in Nat
    /\ BufferSize \in Nat \ {0}
    /\ MaxVifs \in Nat /\ Cardinality(Ifaces) <= MaxVifs
    /\ IsFiniteSet(Source) /\ IsFiniteSet(NextHop)
    /\ ARP \subseteq NextHop /\ None \notin NextHop
    /\ HopTables \subseteq [Source \cup Child -> NextHop \cup {None}]
    /\ "none" \notin Ifaces

VARIABLES
    confirmParents,   \* [Source -> [Child -> Timer]]    m.confirmParents
    pending,          \* a TopologyUpdate waits for topologyUpdateLoop
    hop,              \* the next hops of spf.activeRoutes
    loop,             \* topologyUpdateLoop: "idle", "recalculate" after an SPF run,
                      \* "publish" inside RecalculateMroutes
    changes,          \* the sources whose events syncMFCRoutes has yet to publish
    activeMfc,        \* [Source -> Entry or NoEntry]    m.activeMfc
    queue,            \* the RouteInstall channel
    installed,        \* [Source -> Entry or NoEntry]    in the kernel
    vifs,             \* the keys of r.vifMap
    nextVif,          \* r.nextVif
    rule,             \* [Source -> NextHop or None]     m.routes of the filter
    chain,            \* [Source -> Seq(Rule)]           the prerouting chain
    hasChain,         \* the chain exists
    failures,         \* failed commands and refused interfaces so far
    dropped,          \* history: the channel dropped an event
    abandoned,        \* history: a REST client hung up, and its event was not sent
    unadded,          \* history: the sources whose last entry was not installed
    unresolved,       \* history: the sources whose last rule had no MAC address
    partial           \* history: a command of Start, or of the last applyRules
                      \* since then, failed

tables == <<confirmParents, pending, hop, loop, changes, activeMfc>>
router == <<installed, vifs, nextVif, unadded>>
filter == <<rule, chain, hasChain, unresolved, partial>>
vars   == <<tables, queue, router, filter, failures, dropped, abandoned>>

Entry   == [iif : Ifaces, oifs : SUBSET Ifaces]
NoEntry == [iif |-> "none", oifs |-> {}]

NoRoutes == [a \in Source \cup Child |-> None]

Event == [action : {"add_multicast", "delete_multicast"}, src : Source, entry : Entry]

(* A rule of the chain, and the nft commands of applyRules. *)
Rule    == [from : NextHop \cup {None}, verdict : {"accept", "drop"}]
Flush   == <<None, "flush">>
Command == {Flush} \cup (Source \X {"accept", "drop"})

TypeOK ==
    /\ confirmParents \in [Source -> [Child -> Absent..Vtime]]
    /\ {pending, dropped, abandoned, partial, hasChain} \subseteq BOOLEAN
    /\ loop \in {"idle", "recalculate", "publish"}
    /\ changes \subseteq Source /\ (loop = "publish" <=> changes # {})
    /\ hop \in HopTables \cup {NoRoutes}
    /\ activeMfc \in [Source -> Entry \cup {NoEntry}]
    /\ queue \in Seq(Event) /\ Len(queue) <= BufferSize
    /\ installed \in [Source -> Entry \cup {NoEntry}]
    /\ vifs \subseteq Ifaces /\ nextVif \in 0..MaxVifs
    /\ rule \in [Source -> NextHop \cup {None}]
    /\ chain \in [Source -> Seq(Rule)]
    /\ unresolved \subseteq Source /\ unadded \subseteq Source
    /\ failures \in 0..MaxFailures

Init ==
    /\ failures = 0 /\ chain = [s \in Source |-> <<>>] /\ hasChain = TRUE
    /\ confirmParents = [s \in Source |-> [c \in Child |-> Absent]]
    /\ pending = FALSE /\ loop = "idle" /\ changes = {}
    /\ hop = NoRoutes
    /\ activeMfc = [s \in Source |-> NoEntry]
    /\ queue = <<>>
    /\ installed = [s \in Source |-> NoEntry]
    /\ vifs = {} /\ nextVif = 0
    /\ rule = [s \in Source |-> None]
    /\ dropped = FALSE /\ abandoned = FALSE /\ partial = FALSE
    /\ unresolved = {} /\ unadded = {}

-----------------------------------------------------------------------------
(* Tables of the multicast manager, which nobody touches while             *)
(* RecalculateMroutes holds m.mu.  ProcessConfirmParent is for a message   *)
(* that names this router as parent (others are ignored).                  *)
Unlocked == loop # "publish"

SetChild(s, c, t) == confirmParents' = [confirmParents EXCEPT ![s] = [@ EXCEPT ![c] = t]]

ProcessConfirmParent(s, c) ==
    /\ Unlocked
    /\ SetChild(s, c, Vtime)
    /\ pending' = TRUE
    /\ UNCHANGED <<hop, loop, changes, activeMfc, abandoned>>

(* Publish with the context of a request: once the client has hung up,     *)
(* select may take ctx.Done() although the channel has room.               *)
PublishForClient ==
    \/ pending' = TRUE /\ UNCHANGED abandoned
    \/ pending' = pending /\ abandoned' = (abandoned \/ ~pending)

(* handleConfirmParents: POST with valid addresses, and DELETE; other      *)
(* requests change nothing.  Unlike a message, a request is accepted for   *)
(* any parent.                                                             *)
AddLocalConfirmParent(s, c)    == SetChild(s, c, Vtime)
DeleteLocalConfirmParent(s, c) == SetChild(s, c, Absent)

HandleConfirmParents(s, c) ==
    /\ Unlocked
    /\ AddLocalConfirmParent(s, c) \/ DeleteLocalConfirmParent(s, c)
    /\ PublishForClient
    /\ UNCHANGED <<hop, loop, changes, activeMfc>>

(* A source claim comes in or expires. *)
ProcessSourceClaim ==
    /\ Unlocked
    /\ pending' = TRUE
    /\ UNCHANGED <<confirmParents, hop, loop, changes, activeMfc, abandoned>>

(* handleSourceClaims adds or deletes a claim, with or without an event. *)
HandleSourceClaims ==
    /\ Unlocked
    /\ pending' \in {pending, TRUE}
    /\ UNCHANGED <<confirmParents, hop, loop, changes, activeMfc, abandoned>>

(* Mutant of AgeOut: the removal of a child is not published. *)
AgeOutSilent ==
    /\ Unlocked
    /\ \E s \in Source, c \in Child : confirmParents[s][c] = Expired
    /\ confirmParents' = [s \in Source |-> [c \in Child |->
          IF confirmParents[s][c] = Expired THEN Absent ELSE confirmParents[s][c]]]
    /\ UNCHANGED <<pending, hop, loop, changes, activeMfc, abandoned>>

AgeOut ==
    /\ Unlocked
    /\ \E s \in Source, c \in Child : confirmParents[s][c] = Expired
    /\ confirmParents' = [s \in Source |-> [c \in Child |->
          IF confirmParents[s][c] = Expired THEN Absent ELSE confirmParents[s][c]]]
    /\ pending' = TRUE
    /\ UNCHANGED <<hop, loop, changes, activeMfc, abandoned>>

Tick ==
    /\ confirmParents' = [s \in Source |-> [c \in Child |-> Elapse(confirmParents[s][c])]]
    /\ UNCHANGED <<pending, hop, loop, changes, activeMfc, abandoned>>

-----------------------------------------------------------------------------
(* topologyUpdateLoop: an event, of the multicast tables or of the unicast *)
(* ones, starts an SPF run, which replaces the routes.                     *)
CalculateRoutes(table) ==
    /\ loop = "idle"
    /\ pending \/ table # hop
    /\ hop' = table
    /\ pending' = FALSE
    /\ loop' = "recalculate"
    /\ UNCHANGED <<confirmParents, changes, activeMfc, abandoned>>

(* The next hop of the longest matching prefix, None when there is none. *)
GetNextHopForDest(d) == hop[d]

Children(s) == {c \in Child : confirmParents[s][c] # Absent}

(* buildNewMFC: no entry without a child or without a route to the source. *)
BuildNewMFC ==
    [s \in Source |->
        IF Children(s) = {} \/ GetNextHopForDest(s) = None THEN NoEntry
        ELSE LET reached == {c \in Children(s) : GetNextHopForDest(c) # None}
                 iif     == Iface[GetNextHopForDest(s)]
                 out     == {Iface[GetNextHopForDest(c)] : c \in reached}
             IN  [iif |-> iif, oifs |-> out \ {iif}]]

(* Mutant of Changed: only the incoming interfaces are compared. *)
ChangedIif(new) == {s \in Source : new[s].iif # activeMfc[s].iif}

(* The sources for which syncMFCRoutes publishes an event: those whose     *)
(* entry changed.  With two or more interfaces the order of the list is    *)
(* chance, and an equal entry may be published again.                      *)
Changed(new) == {s \in Source : new[s] # activeMfc[s]}

Shuffled(new) == {s \in Source : Cardinality(new[s].oifs) > 1 /\ new[s] = activeMfc[s]}

EventFor(s, new) ==
    IF new[s] = NoEntry THEN [action |-> "delete_multicast", src |-> s, entry |-> activeMfc[s]]
                        ELSE [action |-> "add_multicast", src |-> s, entry |-> new[s]]

(* RecalculateMroutes locks m.mu, builds the new entries and compares. *)
RecalculateMroutes ==
    /\ loop = "recalculate"
    /\ \E extra \in SUBSET Shuffled(BuildNewMFC) :
          changes' = Changed(BuildNewMFC) \cup extra
    /\ loop' = IF changes' = {} THEN "idle" ELSE "publish"
    /\ abandoned' = FALSE
    /\ UNCHANGED <<confirmParents, pending, hop, activeMfc, queue, dropped>>

(* One turn of the loops of syncMFCRoutes, for source s: brand new entries *)
(* come last.  m.activeMfc is replaced when all events are out; as m.mu is *)
(* held, nobody can tell whether an entry of it changes before.            *)
IsNext(s) ==
    s \in changes /\ (activeMfc[s] = NoEntry => \A t \in changes : activeMfc[t] = NoEntry)

Synced(s) ==
    /\ activeMfc' = [activeMfc EXCEPT ![s] = BuildNewMFC[s]]
    /\ changes' = changes \ {s}
    /\ loop' = IF changes' = {} THEN "idle" ELSE "publish"
    /\ UNCHANGED <<confirmParents, pending, hop, abandoned>>

(* Publish finds room in the channel, or gives the event up after a while. *)
PublishMroute(s) ==
    /\ IsNext(s) /\ Len(queue) < BufferSize
    /\ queue' = Append(queue, EventFor(s, BuildNewMFC))
    /\ Synced(s)
    /\ UNCHANGED dropped

PublishTimeout(s) ==
    /\ IsNext(s) /\ Len(queue) = BufferSize
    /\ dropped' = TRUE
    /\ Synced(s)
    /\ UNCHANGED queue

-----------------------------------------------------------------------------
(* registerVif is called for the incoming interface and then for each      *)
(* outgoing one, until `bad' fails: those in `done' have got their numbers. *)
InOrder(e, done, bad) == IF bad = e.iif THEN done = {} ELSE e.iif \in vifs \cup done

(* Mutant of VifsKept: the number is not entered in vifMap. *)
VifsNotKept(done) == vifs

VifsKept(done) == vifs \cup done

(* AddMulticastRoute.  MRT_ADD_MFC replaces the entry of source and group. *)
(* When the kernel refuses the entry, or an interface, whose number is     *)
(* then used up, or the numbers have run out, the entry is not installed.  *)
AddMulticastRoute(e, refused) ==
    LET new == ({e.entry.iif} \cup e.entry.oifs) \ vifs
        used(done) == nextVif + Cardinality(done)
    IN  \/ /\ used(new) <= MaxVifs
           /\ vifs' = VifsKept(new) /\ nextVif' = used(new)
           /\ \/ /\ refused = 0
                 /\ installed' = [installed EXCEPT ![e.src] = e.entry]
                 /\ unadded' = unadded \ {e.src}
              \/ /\ refused = 1
                 /\ unadded' = unadded \cup {e.src}
                 /\ UNCHANGED installed
        \/ \E bad \in new : \E done \in SUBSET (new \ {bad}) :
           /\ InOrder(e.entry, done, bad)
           /\ \/ used(done) < MaxVifs /\ refused = 1 /\ nextVif' = used(done) + 1
              \/ used(done) = MaxVifs /\ refused = 0 /\ nextVif' = MaxVifs
           /\ vifs' = VifsKept(done)
           /\ unadded' = unadded \cup {e.src}
           /\ UNCHANGED installed

(* DeleteMulticastRoute returns early when the entry's incoming interface  *)
(* has no number.                                                          *)
DeleteMulticastRoute(e) ==
    /\ installed' = [installed EXCEPT ![e.src] = IF e.entry.iif \in vifs THEN NoEntry ELSE @]
    /\ unadded' = unadded \ {e.src}
    /\ UNCHANGED <<vifs, nextVif>>

-----------------------------------------------------------------------------
(* Whether the lookup in /proc/net/arp finds a MAC address of neighbour n: *)
(* the entries of neighbours outside ARP come and go.                      *)
ResolveMACFromARP(n) == IF n \in ARP THEN {TRUE} ELSE BOOLEAN

(* The rules that the commands for source s add, which accept the parent   *)
(* and drop everybody else; a failed command adds none.                    *)
Added(s, n, failed) ==
    (IF <<s, "accept">> \in failed THEN <<>> ELSE << [from |-> n, verdict |-> "accept"] >>)
        \o (IF <<s, "drop">> \in failed THEN <<>> ELSE << [from |-> None, verdict |-> "drop"] >>)

(* applyRules: flush the chain, then add the rules of all routes.  The     *)
(* commands in `failed' fail: an error is logged, and the next one runs.   *)
(* Without a chain all of them do, and nothing is filtered.                *)
ApplyRules(routes, failed) ==
    /\ \A s \in Source : <<s, "accept">> \in failed \/ <<s, "drop">> \in failed => routes[s] # None
    /\ \/ /\ hasChain
          /\ chain' = [s \in Source |->
                (IF Flush \in failed THEN chain[s] ELSE <<>>)
                    \o (IF routes[s] = None THEN <<>> ELSE Added(s, routes[s], failed))]
          /\ partial' = (failed # {})
       \/ /\ ~hasChain /\ failed = {}
          /\ partial' = TRUE
          /\ UNCHANGED chain
    /\ UNCHANGED hasChain

(* Mutant of OnMulticastRouteAdd: a rule that exists is not replaced. *)
RuleNotReplaced(s, n, failed) ==
    /\ rule' = IF rule[s] # None THEN rule ELSE [rule EXCEPT ![s] = n]
    /\ ApplyRules(rule', failed)
    /\ unresolved' = unresolved \ {s}

(* Without a MAC address the former rules stay in force. *)
OnMulticastRouteAdd(s, n, failed) ==
    \/ /\ TRUE \in ResolveMACFromARP(n)
       /\ rule' = [rule EXCEPT ![s] = n]
       /\ ApplyRules(rule', failed)
       /\ unresolved' = unresolved \ {s}
    \/ /\ FALSE \in ResolveMACFromARP(n) /\ failed = {}
       /\ unresolved' = unresolved \cup {s}
       /\ UNCHANGED <<rule, chain, hasChain, partial>>

(* Mutant of OnMulticastRouteDelete: the route is not deleted. *)
DeleteKeepsRule(s, failed) == failed = {} /\ UNCHANGED filter

OnMulticastRouteDelete(s, failed) ==
    /\ rule' = [rule EXCEPT ![s] = None]
    /\ ApplyRules(rule', failed)
    /\ unresolved' = unresolved \ {s}

(* handleMulticastAdd: install the entry, then, whether that worked or     *)
(* not, ask for the next hop to the source, which need not be the one the  *)
(* entry was made for, and set the rule.                                   *)
HandleMulticastAdd(e, refused, failed) ==
    /\ AddMulticastRoute(e, refused)
    /\ \/ /\ GetNextHopForDest(e.src) = None /\ failed = {}
          /\ UNCHANGED filter
       \/ /\ GetNextHopForDest(e.src) # None
          /\ OnMulticastRouteAdd(e.src, GetNextHopForDest(e.src), failed)

HandleMulticastDelete(e, refused, failed) ==
    /\ refused = 0
    /\ DeleteMulticastRoute(e)
    /\ OnMulticastRouteDelete(e.src, failed)

(* routeInstallationLoop handles the next event. *)
Consume ==
    /\ queue # <<>>
    /\ \E refused \in 0..1, failed \in SUBSET Command :
          /\ failures' = failures + refused + Cardinality(failed)
          /\ failures' <= MaxFailures
          /\ \/ /\ Head(queue).action = "add_multicast"
                /\ HandleMulticastAdd(Head(queue), refused, failed)
             \/ /\ Head(queue).action = "delete_multicast"
                /\ HandleMulticastDelete(Head(queue), refused, failed)
    /\ queue' = Tail(queue)
    /\ UNCHANGED <<tables, dropped, abandoned>>

-----------------------------------------------------------------------------
(* Mutant of Start: the table of the former process is not deleted. *)
StartWithoutDelete(failed) ==
    /\ hasChain' = (hasChain \/ "add" \notin failed)
    /\ partial' = (failed # {})
    /\ UNCHANGED chain

(* NFTablesManager.Start.  When `delete table' fails on the table of the   *)
(* former process, which is ignored, its rules stay: `add table' and `add  *)
(* chain' succeed on what exists.  ("No such table" makes no difference.)  *)
(* When one of these two fails, Start returns and run goes on without it.  *)
Start(failed) ==
    LET kept == hasChain /\ "delete" \in failed
    IN  /\ chain' = IF kept THEN chain ELSE [s \in Source |-> <<>>]
        /\ hasChain' = (kept \/ "add" \notin failed)
        /\ partial' = (failed # {})

(* The process ends at any point and is started again.  The kernel removes *)
(* interfaces and entries with the socket.  The nftables table is left to  *)
(* Start: the process was killed, or ended before Stop came to delete it;  *)
(* where Stop did, Start finds no table.  Nothing of the daemon runs       *)
(* between the end of one process and run's calls of Start in the next.    *)
Restart ==
    /\ confirmParents' = [s \in Source |-> [c \in Child |-> Absent]]
    /\ pending' = FALSE /\ loop' = "idle" /\ changes' = {}
    /\ hop' = NoRoutes
    /\ activeMfc' = [s \in Source |-> NoEntry]
    /\ queue' = <<>>
    /\ installed' = [s \in Source |-> NoEntry]
    /\ vifs' = {} /\ nextVif' = 0
    /\ rule' = [s \in Source |-> None]
    /\ \E failed \in SUBSET {"delete", "add"} :
          /\ failures' = failures + Cardinality(failed)
          /\ failures' <= MaxFailures
          /\ Start(failed)
    /\ dropped' = FALSE /\ abandoned' = FALSE
    /\ unresolved' = {} /\ unadded' = {}

SPFRun == \E t \in HopTables : CalculateRoutes(t)

TableStep ==
    \/ \E s \in Source, c \in Child : \/ ProcessConfirmParent(s, c)
                                      \/ HandleConfirmParents(s, c)
    \/ ProcessSourceClaim
    \/ HandleSourceClaims
    \/ AgeOut
    \/ Tick
    \/ SPFRun

Manager == TableStep /\ UNCHANGED <<queue, router, filter, failures, dropped>>

Recalculation ==
    /\ RecalculateMroutes \/ \E s \in changes : PublishMroute(s) \/ PublishTimeout(s)
    /\ UNCHANGED <<router, filter, failures>>

Next == Manager \/ Recalculation \/ Consume \/ Restart

Spec == Init /\ [][Next]_vars

(* The aging ticker and time do not stop; goroutines are scheduled.  AgeOut *)
(* gets strong fairness: sync.Mutex hands m.mu to a waiter that starves.    *)
Alone(A) == A /\ UNCHANGED <<queue, router, filter, failures, dropped>>

FairSpec ==
    /\ Spec
    /\ SF_vars(Alone(AgeOut)) /\ WF_vars(Alone(Tick)) /\ WF_vars(Alone(pending /\ SPFRun))
    /\ WF_vars(Recalculation) /\ WF_vars(Consume)

-----------------------------------------------------------------------------
Quiet == ~pending /\ loop = "idle" /\ queue = <<>>

Undisturbed == ~dropped /\ ~abandoned

(* Once all events are handled, what is installed is what the children and *)
(* the unicast routes of that moment call for, after any interleaving of   *)
(* messages, requests, aging, SPF runs, restarts and the installation      *)
(* loop, unless an event was lost or the kernel refused the entry.         *)
(* RecalculateMroutes' comment promises it: "generates event notifications *)
(* to install/withdraw IPMR routes".                                       *)
ForwardingMatchesTree ==
    Quiet /\ Undisturbed /\ failures = 0 => \A s \in Source : installed[s] = BuildNewMFC[s]

(* The rule follows the tree: the neighbour it accepts is on the interface *)
(* on which the entry expects the source, although handleMulticastAdd asks *)
(* for the next hop later than buildNewMFC did, unless the last lookup of  *)
(* a MAC address failed.  (It need not be the parent itself: a new next    *)
(* hop on the same interface publishes nothing.)                           *)
RuleOnIncomingInterface ==
    Quiet /\ Undisturbed => \A s \in Source :
        activeMfc[s] # NoEntry /\ s \notin unresolved =>
            rule[s] # None /\ Iface[rule[s]] = activeMfc[s].iif

(* The README's "ensures a node only accepts multicast packets originating *)
(* from its designated parent node", once all is quiet and the parent's    *)
(* MAC address is known.                                                   *)
RuleIsParent ==
    Quiet /\ Undisturbed => \A s \in Source :
        activeMfc[s] # NoEntry /\ s \notin unresolved => rule[s] = GetNextHopForDest(s)

(* m.routes keeps no rule without an entry, from which every later         *)
(* applyRules would make the filter drop packets again.                    *)
NoOrphanRule ==
    Quiet /\ Undisturbed => \A s \in Source : activeMfc[s] = NoEntry => rule[s] = None

(* What netfilter does with a packet of source s sent by neighbour n: the  *)
(* first rule that matches decides, and nothing is dropped by default.     *)
Matching(s, n) == {i \in DOMAIN chain[s] : chain[s][i].from \in {n, None}}

ChainAccepts(s, n) ==
    \/ Matching(s, n) = {}
    \/ \E i \in Matching(s, n) : /\ \A j \in Matching(s, n) : i <= j
                                 /\ chain[s][i].verdict = "accept"

(* hookFunc of the NFQUEUE manager for the same packet. *)
HookAccepts(s, n) == rule[s] = None \/ rule[s] = n

(* The two kinds of loop prevention agree: the chain accepts what hookFunc *)
(* would accept after every Start and every applyRules all of whose        *)
(* commands worked, whatever earlier ones have left behind: the rules of   *)
(* a former process that Start could not delete, rules that were not       *)
(* flushed, or an accept rule without its drop rule.  (After a failed      *)
(* command, and for as long as there is no chain, nothing is claimed.)     *)
FilterMatchesRoutes ==
    ~partial
        => \A s \in Source, n \in NextHop : ChainAccepts(s, n) = HookAccepts(s, n)

(* registerVif: as long as the kernel accepts the interfaces, the numbers  *)
(* do not run out, however often entries change.                           *)
VifsSuffice == failures = 0 => unadded = {}

(* When no child confirms a source any more, forwarding stops for good. *)
ForwardingStops ==
    \A s \in Source :
        <>[][~ \E c \in Child : SetChild(s, c, Vtime)]_vars
            => <>[](dropped \/ abandoned \/ failures > 0 \/ installed[s] = NoEntry)
=============================================================================
