---------------------------- MODULE RouteInstall ----------------------------
(***************************************************************************)
(* From the routes of an SPF run to the forwarding table: the diff of      *)
(* CalculateRoutes (internal/olsr/spf.go), the bounded RouteInstall        *)
(* channel, routeInstallationLoop (cmd/olsrd/daemon.go), and behind it     *)
(* either the kernel (standalone mode, internal/uroute) or FRR's zebra     *)
(* through ZAPIClient with its reconnection (internal/zebra/client.go).    *)
(*                                                                         *)
(* Three goroutines meet here: topologyUpdateLoop, routeInstallationLoop   *)
(* and connectionLoop.  spf.mu is held for a whole run, including the      *)
(* waits of Publish; the other two goroutines need it for reading.         *)
(*                                                                         *)
(* The interface of a route is a function of its next hop and left out.    *)
(* RecalculateMroutes is reduced to the multicast event it may publish.    *)
(***************************************************************************)
EXTENDS Integers, Sequences, FiniteSets

CONSTANTS
    Prefix,       \* destinations
    NextHop,      \* next hops
    Metric,       \* metrics
    Standalone,   \* d.Standalone
    BufferSize,   \* capacity of the RouteInstall channel
    MaxRuns,      \* bound on the SPF runs
    MaxRestarts   \* bound on the restarts of the daemon

ASSUME InstallAssumption ==
    /\ Metric \subseteq Nat
    /\ Standalone \in BOOLEAN
    /\ BufferSize \in Nat \ {0}
    /\ MaxRuns \in Nat /\ MaxRestarts \in Nat

VARIABLES
    activeRoutes,   \* spf.activeRoutes, a set of routes with distinct prefixes
    newRoutes,      \* the table that the current run has computed
    withdrawals,    \* events the first loop of the diff has yet to publish
    additions,      \* events its second loop has yet to publish
    spf,            \* what topologyUpdateLoop does: "idle", "diff", "mroutes"
    queue,          \* the RouteInstall channel
    fib,            \* the routes in the kernel or in zebra
    conn,           \* what connectionLoop does
    session,        \* the socket to zebra works
    sync,           \* the routes that syncRoutes has yet to send
    runs,           \* the number of runs so far
    restarts,       \* the number of restarts so far
    dropped,        \* history: the channel dropped a unicast event
    overtaken       \* history: a run began while syncRoutes was last sending

spfVars  == <<activeRoutes, newRoutes, withdrawals, additions, spf, runs>>
connVars == <<conn, session, sync>>
history  == <<dropped, overtaken, restarts>>
vars     == <<spfVars, queue, fib, connVars, history>>

Route == [prefix : Prefix, via : NextHop, metric : Metric]

Tables == {s \in SUBSET Route : \A r1, r2 \in s : r1.prefix = r2.prefix => r1 = r2}

Unicast == [action : {"add", "delete"}, route : Route]

(* Events without a unicast route: multicast additions and ZAPI status. *)
Multicast == [action |-> "add_multicast"]
Status    == [action |-> "status"]

TypeOK ==
    /\ activeRoutes \in Tables /\ newRoutes \in Tables
    /\ withdrawals \subseteq Unicast /\ additions \subseteq Unicast
    /\ spf \in {"idle", "diff", "mroutes"}
    /\ queue \in Seq(Unicast \cup {Multicast, Status}) /\ Len(queue) <= BufferSize
    /\ fib \subseteq Route
    /\ conn \in {"off", "dial", "announceDown", "announceUp", "snapshot", "send", "read"}
    /\ session \in BOOLEAN
    /\ sync \in Tables
    /\ runs \in 0..MaxRuns /\ restarts \in 0..MaxRestarts
    /\ dropped \in BOOLEAN /\ overtaken \in BOOLEAN

Init ==
    /\ activeRoutes = {} /\ newRoutes = {} /\ withdrawals = {} /\ additions = {}
    /\ spf = "idle"
    /\ queue = <<>>
    /\ fib = {}
    /\ conn = IF Standalone THEN "off" ELSE "dial"
    /\ session = FALSE
    /\ sync = {}
    /\ runs = 0 /\ restarts = 0
    /\ dropped = FALSE /\ overtaken = FALSE

Has(table, p) == \E r \in table : r.prefix = p

Event(a, rs) == {[action |-> a, route |-> r] : r \in rs}

-----------------------------------------------------------------------------
(* CalculateRoutes locks spf.mu and computes table; diffAndPublishRoutes   *)
(* finds the routes that are gone, changed their next hop, or are new.     *)
StartRun(table) ==
    /\ spf = "idle" /\ runs < MaxRuns
    /\ spf' = "diff" /\ runs' = runs + 1
    /\ newRoutes' = table
    /\ withdrawals' = Event("delete", {r \in activeRoutes : ~Has(table, r.prefix)})
          \cup Event("add", {r \in table : \E old \in activeRoutes :
                                 old.prefix = r.prefix /\ old.via # r.via})
    /\ additions' = Event("add", {r \in table : ~Has(activeRoutes, r.prefix)})
    /\ overtaken' = (overtaken \/ conn = "send")
    /\ UNCHANGED <<activeRoutes, queue, fib, connVars, dropped, restarts>>

(* The event e is next: Go's maps are iterated in any order. *)
IsNext(e) == e \in withdrawals \/ (withdrawals = {} /\ e \in additions)

Done(e) ==
    /\ withdrawals' = withdrawals \ {e}
    /\ additions' = additions \ {e}
    /\ UNCHANGED <<activeRoutes, newRoutes, spf, runs>>

(* Publish finds room in the channel. *)
PublishRoute(e) ==
    /\ spf = "diff" /\ IsNext(e)
    /\ Len(queue) < BufferSize
    /\ queue' = Append(queue, e)
    /\ Done(e)
    /\ UNCHANGED <<fib, connVars, history>>

(* Mutant of PublishTimeout: there is no timeout. *)
PublishBlocks(e) == FALSE

(* Publish gives the event up after the write timeout. *)
PublishTimeout(e) ==
    /\ spf = "diff" /\ IsNext(e)
    /\ Len(queue) = BufferSize
    /\ dropped' = TRUE
    /\ Done(e)
    /\ UNCHANGED <<queue, fib, connVars, overtaken, restarts>>

(* The run stores its table and unlocks spf.mu. *)
FinishRun ==
    /\ spf = "diff" /\ withdrawals = {} /\ additions = {}
    /\ activeRoutes' = newRoutes
    /\ spf' = "mroutes"
    /\ UNCHANGED <<newRoutes, withdrawals, additions, runs, queue, fib, connVars, history>>

(* RecalculateMroutes publishes a multicast event, or has nothing to say. *)
Offer(e) == queue' = IF Len(queue) < BufferSize THEN Append(queue, e) ELSE queue

RecalculateMroutes ==
    /\ spf = "mroutes"
    /\ spf' = "idle"
    /\ Offer(Multicast) \/ UNCHANGED queue
    /\ UNCHANGED <<activeRoutes, newRoutes, withdrawals, additions, runs, fib, connVars, history>>

-----------------------------------------------------------------------------
(* The kernel's table: a second route to the same prefix is refused when   *)
(* it has the same metric, and kept beside the first one otherwise.        *)
KernelAdd(f, r) ==
    IF \E x \in f : x.prefix = r.prefix /\ x.metric = r.metric THEN f ELSE f \cup {r}

(* RouteDel names prefix, gateway and interface; the kernel removes the    *)
(* first match, the one with the smallest metric, or reports an error.     *)
KernelDelete(f, r) ==
    LET match == {x \in f : x.prefix = r.prefix /\ x.via = r.via}
    IN  {x \in f : x \notin match \/ \E y \in match : y.metric < x.metric}

(* Zebra keeps one OLSR route per prefix. *)
ZebraAdd(f, r)    == {x \in f : x.prefix # r.prefix} \cup {r}
ZebraDelete(f, r) == {x \in f : x.prefix # r.prefix}

(* send reports an error, which the callers log, unless connected. *)
Connected == conn \in {"announceUp", "snapshot", "send", "read"}

Installed(e) ==
    CASE Standalone /\ e.action = "add"    -> KernelAdd(fib, e.route)
      [] Standalone /\ e.action = "delete" -> KernelDelete(fib, e.route)
      [] ~Standalone /\ Connected /\ session /\ e.action = "add"    -> ZebraAdd(fib, e.route)
      [] ~Standalone /\ Connected /\ session /\ e.action = "delete" -> ZebraDelete(fib, e.route)
      [] OTHER -> fib

(* routeInstallationLoop takes an event and handles it.  handleMulticastAdd *)
(* asks the SPF engine for the next hop, under spf.mu.                      *)
Consume ==
    /\ queue # <<>>
    /\ Head(queue) = Multicast => spf # "diff"
    /\ fib' = Installed(Head(queue))
    /\ queue' = Tail(queue)
    /\ UNCHANGED <<spfVars, connVars, history>>

-----------------------------------------------------------------------------
(* connectionLoop.  connect closes the old socket and dials. *)
Connect ==
    /\ conn = "dial"
    /\ \/ conn' = "announceUp" /\ session' = TRUE
       \/ conn' = "announceDown" /\ session' = FALSE
    /\ UNCHANGED <<spfVars, queue, fib, sync, history>>

(* The status event; then, if it is down, the backoff. *)
Announce ==
    /\ \/ conn = "announceUp" /\ conn' = "snapshot"
       \/ conn = "announceDown" /\ conn' = "dial"
    /\ Offer(Status)
    /\ UNCHANGED <<spfVars, fib, session, sync, history>>

(* Mutant of Snapshot: the routes are read without spf.mu. *)
SnapshotUnlocked ==
    /\ conn = "snapshot"
    /\ sync' = activeRoutes
    /\ conn' = "send"
    /\ overtaken' = FALSE
    /\ UNCHANGED <<spfVars, queue, fib, session, dropped, restarts>>

(* Mutant of Snapshot: the routes are not sent again to a new session. *)
SnapshotEmpty ==
    /\ conn = "snapshot" /\ spf # "diff"
    /\ conn' = "send"
    /\ overtaken' = FALSE
    /\ UNCHANGED <<spfVars, queue, fib, session, sync, dropped, restarts>>

(* GetActiveUnicastRoutes calls GetRoutes, which waits for spf.mu. *)
Snapshot ==
    /\ conn = "snapshot" /\ spf # "diff"
    /\ sync' = activeRoutes
    /\ conn' = "send"
    /\ overtaken' = FALSE
    /\ UNCHANGED <<spfVars, queue, fib, session, dropped, restarts>>

(* syncRoutes adds one route of the snapshot; errors are ignored. *)
SendSync(r) ==
    /\ conn = "send" /\ r \in sync
    /\ fib' = IF session THEN ZebraAdd(fib, r) ELSE fib
    /\ sync' = sync \ {r}
    /\ UNCHANGED <<spfVars, queue, conn, session, history>>

(* syncRoutes returns and readLoop starts. *)
Synced ==
    /\ conn = "send" /\ sync = {}
    /\ conn' = "read"
    /\ UNCHANGED <<spfVars, queue, fib, session, sync, history>>

(* Zebra closes the socket; it then removes the routes of its client. *)
Break ==
    /\ session
    /\ session' = FALSE
    /\ fib' = {}
    /\ UNCHANGED <<spfVars, queue, conn, sync, history>>

(* readLoop notices and triggers the reconnection. *)
ReadError ==
    /\ conn = "read" /\ ~session
    /\ conn' = "dial"
    /\ UNCHANGED <<spfVars, queue, fib, session, sync, history>>

(* The daemon ends at any point and starts again.  Zebra drops the routes  *)
(* of a client that is gone; the kernel keeps the ones of the daemon, which *)
(* has no clean-up at start.                                               *)
Restart ==
    /\ restarts < MaxRestarts /\ restarts' = restarts + 1
    /\ activeRoutes' = {} /\ newRoutes' = {} /\ withdrawals' = {} /\ additions' = {}
    /\ spf' = "idle"
    /\ queue' = <<>>
    /\ fib' = IF Standalone THEN fib ELSE {}
    /\ conn' = IF Standalone THEN "off" ELSE "dial"
    /\ session' = FALSE
    /\ sync' = {}
    /\ dropped' = FALSE /\ overtaken' = FALSE
    /\ UNCHANGED runs

SPFStep == (\E e \in withdrawals \cup additions : PublishRoute(e) \/ PublishTimeout(e))
              \/ FinishRun \/ RecalculateMroutes

ConnStep == Connect \/ Announce \/ Snapshot \/ (\E r \in sync : SendSync(r)) \/ Synced \/ ReadError

Next == (\E t \in Tables : StartRun(t)) \/ SPFStep \/ Consume \/ ConnStep \/ Break \/ Restart

Spec == Init /\ [][Next]_vars

(* Goroutines are scheduled; the write timeout and the backoff expire.     *)
(* ConnStep gets strong fairness because Snapshot waits for a lock that    *)
(* sync.RWMutex does not let writers hold for ever.                        *)
FairSpec == Spec /\ WF_vars(SPFStep) /\ WF_vars(Consume) /\ SF_vars(ConnStep)

-----------------------------------------------------------------------------
(* Prefixes and next hops: metric-only changes are never published. *)
Hops(table) == {<<r.prefix, r.via>> : r \in table}

Quiet ==
    /\ spf = "idle" /\ queue = <<>>
    /\ Standalone \/ (conn = "read" /\ session)

(* Once everything has settled the forwarding table holds the routes of    *)
(* the SPF engine, after any sequence of route changes, lost sessions,     *)
(* reconnections and restarts, unless the channel dropped an event or a    *)
(* run overtook the synchronisation.                                       *)
InstalledWhenQuiet == Quiet /\ ~dropped /\ ~overtaken => Hops(fib) = Hops(activeRoutes)

(* An SPF run ends, although it holds spf.mu while it waits for room in    *)
(* the channel whose consumer may be waiting for spf.mu.                   *)
RunsEnd == spf = "diff" ~> spf = "idle"

(* When zebra stays reachable the routes get there. *)
EventuallyInstalled ==
    <>[]session => <>[](dropped \/ overtaken \/ Hops(fib) = Hops(activeRoutes))
=============================================================================
