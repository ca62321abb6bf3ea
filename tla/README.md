# TLA+ verification of olsrd-go

`olsrd-go` is an OLSR (RFC 3626) daemon with multicast extensions. This
directory holds TLA+ models of its protocol tables, of the goroutines and
channels that connect them, and of the way routes reach the kernel or FRR's
zebra; TLC configurations that check them on small instances; and TLAPS proofs
of the main results for every instance. `PROJECT.json` lists components, runs,
mutants, the map from definitions to source lines, findings, hazards and
theorems.

## The system

| Part | State | Operations | Source |
|---|---|---|---|
| Neighbour manager | links (by sender), neighbours (by originator), 2-hop links, MPR set, MPR selectors | ProcessHello, AgeOut, recalculateMPRs, getters | `internal/olsr/neighbor.go` |
| Topology manager | topology tuples, duplicate set, MID maps | IsDuplicate, ProcessTC, ProcessMID, AgeOut, getters | `internal/olsr/topology.go` |
| HNA manager | local networks, remote gateways | Add/RemoveLocalHNA, ProcessHNA, AgeOut | `internal/olsr/hna.go` |
| SPF engine | active routes | CalculateRoutes (adjacency, Dijkstra, next hops, gateways, diff), GetRoutes, GetNextHopForDest | `internal/olsr/spf.go` |
| Multicast manager | confirmed children, source claims, active forwarding entries | ProcessConfirmParent, ProcessSourceClaim, API add/delete, AgeOut, RecalculateMroutes | `internal/olsr/molsr.go` |
| Event bus | a bounded channel per subscription | Publish with write timeout, Subscribe, Unsubscribe | `internal/eventbus/bus.go` |
| Daemon | tickers, sequence numbers, goroutines | topologyUpdateLoop, routeInstallationLoop, udpReceiverLoop (processing and forwarding), performAging, sendHello/TC/HNA | `cmd/olsrd/daemon.go` |
| ZAPI client | socket, connection state | connectionLoop, syncRoutes, readLoop, send | `internal/zebra/client.go` |
| Kernel routers, loop prevention | unicast routes, virtual interfaces, multicast cache, nftables rules | Start, Add/Delete, applyRules, hookFunc | `internal/uroute`, `internal/mroute` |
| REST API | none of its own | handleHNA, handleSourceClaims, handleConfirmParents, read-only handlers | `internal/api` |

How they interact. The UDP receiver, the aging ticker and REST handlers call the managers.
Each manager works under its own mutex and publishes `NeighborUpdate` or
`TopologyUpdate` *before it unlocks*. `topologyUpdateLoop` takes these events
and runs `CalculateRoutes`, which reads every manager under its read lock and
publishes `RouteInstall` events *while it holds `spf.mu`*; then it calls
`RecalculateMroutes`. `routeInstallationLoop` takes the `RouteInstall` events
and programs the kernel or zebra; for multicast entries it calls back into the
SPF engine. `connectionLoop` re-sends all routes after each reconnection.

What is hard about it, and what correctness means:

* link sensing under loss and one-way ranges: links must become symmetric
  exactly when both ends hear each other, and silent peers must be forgotten;
* five neighbour tables with separate timers, updated under two different keys;
* MPR selection with ties decided by map order: every 2-hop address covered;
* wrapping 16-bit sequence numbers, restarts, duplicated and reordered TCs;
* a full channel drops events, and publishers hold the mutexes that consumers
  need: no update may be lost and nobody may wait for ever;
* non-atomic reads in one SPF run; zebra sessions that end at any point;
  snapshots sent while newer changes are installed;
* multicast entries and filter rules computed from state that has moved on when
  they are installed, with kernel calls and commands that fail half-way;
* flooding, in which every router decides at the first copy it sees whether to
  forward, and may have forgotten the message when the next copy arrives;
* restarts of the daemon, after which kernel, zebra and the other routers still
  hold what the former process told them.

## Modules

| Module | Models | Run |
|---|---|---|
| `RelativeTime` | times relative to the present, shared by the tables' modules | through the others |
| `MPRSelection` | recalculateMPRs / selectGreedyMPR as a set of possible results | through the next two |
| `NeighborManager`, `MCNeighborManager` | one router's neighbour manager; one action per method | `neighbor` |
| `HelloExchange`, `MCHelloExchange` | several routers that exchange HELLOs: sendHello against ProcessHello; each of them implements `NeighborManager` | `hello_exchange`, `hello_relay` |
| `TopologyManager`, `MCTopologyManager` | TC processing, duplicate set and MID maps, with senders and network | `topology` |
| `Dijkstra`, `MCDijkstra` | runDijkstra and resolveNextHop, one loop turn per action | `dijkstra` |
| `HNAManager` | HNA tables and the gateway loop of CalculateRoutes | `hna` |
| `UpdatePipeline`, `MCUpdatePipeline` | managers' mutexes, Publish, topologyUpdateLoop | `pipeline` |
| `RouteInstall` | route diff, RouteInstall channel, routeInstallationLoop, ZAPI client, kernel | `install`, `install_standalone` |
| `MulticastForwarding`, `MCMulticastForwarding` | CONFIRM PARENT tables and REST requests, forwarding entries, virtual interfaces, kernel cache, nft commands, NFQUEUE decision | `multicast`, `multicast_parent` |
| `Dissemination` | abstract: a message is handled at most once, and by everyone who must get it unless something fails | refined by `Flooding` |
| `Flooding`, `MCFlooding` | one message through several routers: sending, duplicate set, MPR forwarding, TTL | `flooding` |
| `NeighborManagerProofs`, `DijkstraProofs`, `TopologyManagerProofs`, `HNAManagerProofs`, `UpdatePipelineProofs`, `RouteInstallProofs`, `MulticastForwardingProofs`, `FloodingProofs` | theorems | – |

Conventions. A method that holds its mutex from its first to its last line is
one action. Times are kept relative to the present; `Tick` moves all of them
closer, and a time that is past stays at `Expired` (-1), because the code only
compares with `now`; `Absent` (-2) is a key that is not in the map. Iteration
over a Go map is a nondeterministic order. `published` records whether the last
step published an event; other history variables (`dropped`, `abandoned`,
`unadded`, `unresolved`, `partial`, `overtaken`, `faulty`, `handled`, `relayed`)
record what went wrong or was done, and guard no action. Operators whose comment begins with "Mutant of" are
deliberate errors: replacing the definition by its mutant makes TLC find a
violation of one property, which shows that the property depends on that code.
No other definition uses them.

External behaviour is modelled from how the code uses it: the radio and the
clock; zebra, which keeps one OLSR route per prefix and forgets a client's
routes when its socket closes; the kernel, which refuses a second route with
the same prefix and metric, keeps one multicast entry per source and group,
removes virtual interfaces and entries with their socket, and may or may not
know a neighbour's MAC address; netfilter, where the first matching rule
decides.

## Runs, bounds and what they show

* **neighbor** – two peers that send every HELLO of the chosen link codes with
  any 2-hop list over three addresses, validity 2. Two peers suffice for ties
  and for both single and shared providers of a 2-hop address; validity 2
  separates "expires now" from "expired". Link and neighbour tables agree, 2-hop
  entries are held through symmetric neighbours only, MPRs are eligible and
  cover the 2-hop set after each published update, no neighbour becomes
  symmetric or ceases to be without an event, silent peers are forgotten.
  Agreement and eligibility assume that a peer has one address and does not
  change its willingness (`SingleInterface`, `FixedWillingness`); see below.
* **hello_exchange** – three routers in a line; one direction of a link breaks
  and returns; HELLOs are lost at will; validity of one HELLO interval, the
  tightest that can keep a link. A symmetric link has been heard by the other
  end, a one-way link is given up, and two routers that hear each other again
  end up with a symmetric link on both sides. Every router of the network behaves
  as `NeighborManager` does, although `HelloExchange` keeps one timer for a link
  and for the 2-hop entries learned through it (`ImplementsNeighborManager`).
* **hello_relay** (violation) – a router that stays another's MPR never learns
  of it: `sendHello` never uses the neighbour type MPR.
* **dijkstra** – all 4096 directed graphs of four nodes, all pop orders. Four
  nodes give paths of length three, cycles and unreachable parts. Besides the
  distances and next hops: every turn of the loop visits a node
  (`EveryTurnVisits`), so that the "already visited" branch is never taken with
  unit costs. It is kept in the model because the code has it.
* **topology** – for TCs, one originator and one advertised address, 6 sequence
  numbers, validity 1, restarts at any time. The network holds the last 2 messages
  sent, those of before a restart included, and delivers them in any order, again
  or never. The number space wraps several times within a behaviour;
  `SeqMod > 2 * Window` is the ratio at which serial-number comparison is
  meaningful (2^16 against a few messages in the code). For MIDs, three
  addresses that declare each other in any way. The two halves of the module
  change disjoint tables and read nothing of each other's, so `MCTopologyManager`
  gives each behaviour one of them; the proofs are about `Spec`, which has both.
* **pipeline** – the four managers the loops read; the UDP receiver and the aging
  ticker, which update all of them, and a REST request, which updates HNA and
  multicast tables and whose client may hang up during `Publish`; the five reads
  of a run, channels of one event, two updates per manager. With one slot, a full
  channel and drops are reached at once; two updates let one arrive before and
  one after any read. No update is lost, and SPF catches up, but for the event
  that `Publish` gave up because its client was gone (`abandoned`): nothing makes
  up for that one before the next run.
* **install** – two prefixes, two next hops, two SPF runs, a channel of two
  events, any number of lost sessions, one restart of the daemon at any point. Zebra has the SPF engine's routes when
  all is quiet, unless an event was dropped or a run began during the
  synchronisation; a run ends although it holds `spf.mu` while its consumer may
  wait for it. Three runs have been checked too, with the same result.
* **install_standalone** (violation) – the same statement in standalone mode: a
  changed next hop is published as "add", which the kernel refuses.
* **hna** – three gateways of one network, distances up to 2, the loop
  interleaved with HNA messages and aging. Two distances are enough for the
  comparison of a distance with a metric (distance plus one) to matter.
* **multicast** – one source and group, one child, three neighbours on two
  interfaces (two share one), one neighbour whose ARP entry comes and goes, a
  channel of one event, two interface numbers for two interfaces, at most one
  failing kernel call or nft command, any number of restarts. `RecalculateMroutes` holds
  `m.mu` until its last event is published or given up, so that messages,
  requests and aging wait while the installation loop goes on. One source is enough for
  the rules of one route to be left over, doubled or missing; the rules of two
  routes do not match each other's packets. When all is quiet and no event was
  lost, the kernel holds the entry that the current children and routes call
  for, the filter rule names a neighbour on the incoming interface, and no rule
  outlives its entry. The chain accepts what `hookFunc` would accept after every
  `Start` and every `applyRules` whose commands worked, whatever is left of a
  former process and of commands that failed before. Nothing is claimed after a
  failed command: `Start` ignores a failed `delete table`, which leaves the old
  rules in force, and after a failed `add` there is no chain and no filtering.
  Interface numbers do not run out, and forwarding stops after the last child.
* **multicast_parent** (violation) – with four neighbours, all known to ARP, and
  no failures: the next hop to the source changes to another neighbour on the
  same interface. `syncMFCRoutes` sees equal interfaces and publishes nothing, so
  the filter goes on accepting the former parent and drops the new one's packets.
* **flooding** – a ring of four routers with a fifth behind it, every outcome of
  `recalculateMPRs` at every router, TCs with up to one unsteady router, and the
  other message types; a line of four in which both relays forget at any time.
  The ring gives two paths, so that copies arrive with different TTLs and from
  senders for which the receiver does or does not relay; the fifth router is
  reached through one router only. Without faults every connected router handles
  the message; it is handled at most once as long as nobody forgets; the TTL
  ends the flood in any case; and `Flooding` implements `Dissemination`, its
  fairness included.

`CHECK_DEADLOCK FALSE` is used where the model really may stop: Dijkstra ends,
a flood ends, and the bounds on updates and runs are reached in `pipeline` and
`install`.

## Fairness

Weak fairness of `AgeOut` and `Tick`: the 500 ms ticker of `Daemon.run` and the
clock do not stop. Weak fairness of the loops: goroutines are scheduled, the
write timeout of `Publish` and the reconnection backoff expire. In `pipeline`
the choice among ready channels is strongly fair, because Go's `select` chooses
at random; in `install` the steps of `connectionLoop` are strongly fair because
a reader of `sync.RWMutex` is not overtaken by writers for ever. In `multicast`,
`AgeOut` is strongly fair because `sync.Mutex` hands the lock to a waiter that
starves. In
`hello_exchange` each router's `helloTicker` keeps firing; in `flooding` each
router's receiver goroutine keeps reading its socket. Nothing is assumed
about the radio, the other routers or zebra except in the premise of a property
(for instance "no HELLO is lost any more").

## Proofs

All theorems are proved for arbitrary values of the constants under the named
assumptions of the modules.

* `NeighborManagerProofs`, on `MPRSelection`: every set the heuristic may compute
  consists of eligible neighbours (`MPRsAreNeighbours`) and covers every 2-hop
  address (`MPRsCoverEveryTwoHop`), for any finite neighbourhood. The argument: a
  complete run ends when no neighbour covers an uncovered address, and every
  address has a provider among the neighbours.
* `NeighborManagerProofs`, on the manager: `TypeCorrect`; `TwoHopSafety`, inductive with the
  type invariant, for peers with any number of addresses; `MPREligibility`
  under `SingleInterface` and `FixedWillingness`, from the invariant
  `EligibilityInv`, which adds that a symmetric neighbour's stored willingness
  is one that it announces (without it a HELLO could lower the willingness of an
  MPR); from the same invariant `TablesAgree` and
  `SymmetricChangesArePublished`, where agreement is what ties the flag of the
  neighbour to the link whose change is published; `CoverageOnPublish`, an action
  property that uses the two lemmas on `MPRSelection`.
* `NeighborManagerProofs`, on the network: `HelloExchange` has names of its own
  (`linksOf`, `ExchangeSpec`, ...), so that one module can speak of the network and
  of one router's manager. `NetworkTypeCorrect`, with `OwnTables`: a router keeps nothing about itself, and
  2-hop entries through symmetric links only. The second part
  is what lets one timer serve a link and its 2-hop entries, and it is needed for
  `ExchangeRefinesManager` (`ImplementsNeighborManager`): every step of the
  network is, at every router, a `ProcessHello`, an `AgeOut` or a `Tick` of its
  manager, or leaves its tables alone. `ManagerMPRs` shows on the way that the
  heuristic reads of the tables only what the two modules share, and
  `ManagerConstants` that the manager's own assumptions hold at every router, so
  that its theorems apply there.
  `SymmetricLinksAreHeard` (`SymmetricIsHeard`): a symmetric link was announced by
  the other end, which therefore holds a link tuple, and no step takes a tuple
  back to the state of a peer never heard of. `NetworkRelaysHaveHeard`: so nobody
  is chosen as relay by a router that it has not heard.
* `DijkstraProofs`: `SPFCorrect` and `NextHopCorrect` from `SPFInv`: distances
  and predecessors form a tree at all times; each reached and unvisited node is
  in the heap with its distance; no item of the heap is nearer than a visited
  node; links out of visited nodes are relaxed. The order conjunct is what makes
  a popped node's distance final. `WalkInv` relates the hops walked back to the
  distance. `DistancesCorrect` compares the distances with the reference `Within`
  (the nodes reached in at most k links, a recursive function): the sets
  {v : dist[v] <= k} of a shortest-path tree satisfy Within's equation, and no
  other function does. Both facts, and that no distance exceeds the number of
  nodes, are proved by least counterexample (`LeastElement`, from the library's
  well-foundedness of `<`). `OnlyLocalGivesUp`: the walk back from a reached node
  ends at a neighbour of the local router; only the router itself is left
  without a next hop. `TurnsBounded` (`EveryTurnVisits`) from `LevelInv`: the heap
  spans two levels and holds no visited node, because a node is pushed only when
  its distance improves and with unit costs that happens once. `CalculationBounded`:
  a heap that is not empty has an item to pop, and each step of `resolveNextHop`
  goes to a nearer node, at most as often as there are nodes. These are the safety
  facts behind `CalculationTerminates`.
* `TopologyManagerProofs`: `TypeCorrect`; `PrimaryAlwaysDeclared` from the
  invariant `ReverseMIDIsSound`; `ChangesArePublished`; `NewerAlwaysAccepted` for
  any even number space, from a lemma on the two comparisons of `ProcessTC`
  (`NewerIsAccepted`: a number ahead by less than half the space is either
  greater, or smaller by more than half).
* `HNAManagerProofs`: `TypeCorrect`; `NearestGatewayChosen`, inductive with the
  type invariant because `NearestGateway` speaks of the entries seen so far: the
  comparison of a distance with a metric may replace a gateway by one at the same
  distance and never by a farther one; `GatewayChangesArePublished`.
* `FloodingProofs`: `FloodCorrect`, for any finite network and any kind of
  message, from the invariant `FloodInv`. Its parts: the links do not change and
  are symmetric; a router has handled the message exactly when it is in its
  duplicate set (`RouterInv`); waiting copies have a TTL that leaves enough for
  the routers that have not relayed yet (`CopyInv`); and every router within two
  hops of a transmission has the message, or has a copy waiting, or has a
  neighbour whose first waiting copy comes from a sender for which it relays
  (`ReachInv`). The last alternative is needed because a router decides at the
  first copy only. `FloodingRefines`: initial states and steps of `Flooding`
  are those of `Dissemination` (its fairness is left to TLC).
  `SelectedRelaysFlood` discharges the premise that the MPRs cover: it holds when
  every router's relays are a result of `recalculateMPRs`, all neighbours being
  willing, and the selection has been announced to them.
* `UpdatePipelineProofs`: `TypeCorrect` and `UpdatesReachSPF` (`NoLostUpdate`,
  inductive with the type invariant) for any managers, goroutines, reads and
  channel capacity. The case that matters is the timeout: it drops an event only
  when the channel holds another event of the same type. A cancelled request is
  the exception that `NoLostUpdate` names.
* `RouteInstallProofs`: `TypeCorrect` in both modes; `ZebraFollowsSPF`
  (`InstalledWhenQuiet`) with FRR, from `InstallInv`. Everything is said about one
  prefix: `Published(p)` is what the diff has told the channel so far, between the
  old table and the new one; the last event of p that waits says that
  (`QueueInv`); when none waits, zebra may lack p before the snapshot of
  `syncRoutes`, then has p or is about to be sent it, and afterwards has it
  (`ZebraInv`). The diff has one event for each prefix (`DiffInv`), and a session
  that is gone takes its routes with it (`SessionInv`). `~overtaken` is needed in
  the middle phase: the snapshot must be part of the active table. The theorem
  assumes `~Standalone`; in standalone mode the statement is false, as
  `install_standalone` shows.
* `MulticastForwardingProofs`: all five safety properties of the module, from one
  invariant, `MulticastInv`. `CacheInv`: the manager's `activeMfc` is what
  `buildNewMFC` would compute, except for the sources whose event is still to be
  published, and while the loop owes a recalculation; `QueueInv`: the last waiting
  event of a source is about its entry in `activeMfc`. `ForwardingFollowsTree`
  then needs `InstallInv`: a source without waiting events is installed as
  `activeMfc` says. It is inductive only with the two conjuncts on interface
  numbers, because `DeleteMulticastRoute` gives up when the incoming interface
  has none. `RuleFollowsTree` and `NoRuleIsOrphaned` need `RuleInv`: the rule is
  set with the next hop of a later moment, so it fits the entry or the unicast
  routes have left the entry's interface, in which case a recalculation is due
  (last conjunct of `CacheInv`). `FilterAgrees` from `FilterInv`: the chain is the
  accept and the drop rule of every route since the last `Start` or `applyRules`,
  unless one of its commands failed; without a chain the commands always do. `VifsNeverRunOut` from `VifInv`: numbers are given to
  distinct interfaces.

The assumptions on the constants are those of the code: finite sets of nodes,
sources and neighbours; a channel with at least one slot; at most as many
interfaces as the kernel numbers. The bounds `MaxRuns`, `MaxRestarts` and
`MaxFailures` are arbitrary numbers in the proofs. TLC has checked `InstallInv` of
`RouteInstallProofs` on the instance of `install`, and `MulticastInv` on that
of `multicast` with a channel of two events.

The type invariants of `NeighborManager` and `Dijkstra` are proved
(`TypeCorrect`) and not part of a run.

Only model-checked: everything about liveness, and with it the fairness part of
`ImplementsDissemination`.

## Findings

Three runs show a disagreement between the code and its documentation; they are
in `PROJECT.json` with the lines they quote: `hello_relay` (`daemon.go:480`),
`install_standalone` (`spf.go:279`) and `multicast_parent` (`molsr.go:371`).
Other differences met while reading and modelling, each
excluded by a premise of a property or left out of the models:

* `neighbor.go:336` and `:384` look up a neighbour under the key of a link, so
  agreement needs one address per peer.
* `neighbor.go:149`: MPRs follow changes of link state, not changes of the 2-hop
  set. A symmetric neighbour that lists a new address in a later HELLO starts no
  recalculation, and nobody covers that address until a link changes state or an
  entry expires. With `MPRsCoverTwoHop` as an invariant of the `neighbor` instance
  TLC shows it in three HELLOs; the properties state coverage for published
  updates only.
* `client.go:237` may send a stale route last: a run removes a route after
  `syncRoutes` took its snapshot, the deletion reaches zebra first, and the
  snapshot brings the route back. TLC shows it on the instance of `install` when
  `InstalledWhenQuiet` is checked without its premise `~overtaken`.
* `spf.go:197` takes neighbours with an asymmetric link as adjacent.
* `topology.go:111` also accepts a delayed TC from just below the wrap after one
  from just above it; the next TC repairs the tuple.
* `topology.go:135` unmaps an alias even if another router declared it since; the
  alias then resolves to itself.
* `topology.go:73`: numbers that a restarted router uses again may still be in the
  duplicate set, so its first TCs are dropped until the entries expire.
* In standalone mode nothing removes the kernel routes of a former process.
* `neighbor.go:146`: a HELLO that changes 2-hop entries of an unchanged link
  publishes nothing.
* `bus.go:113` with the context of a request: a client that hangs up may leave a
  change of the tables without its event (history `abandoned`).
* `loopprevention_linux.go:51`: when `delete table` fails, the rules of the former
  process go on filtering until the next multicast event; when `add table` or
  `add chain` fails, the error is logged and nothing is filtered for the life of
  the process (history `partial`).
* `AddLocalConfirmParent` takes any parent, `ProcessConfirmParent` only this
  router.
* A multicast entry whose installation failed is not tried again (`unadded`);
  `mroute_linux.go:135` does not give back the number of a refused interface.
* While `applyRules` runs, the flushed chain accepts every sender; a failed flush
  or accept command leaves the parent's packets dropped until the next event.
* `daemon.go:215` starts the API before the loops subscribe; `bus.go:89` may close
  a channel that a `Publish` still sends to when `run` returns.
* `packet.go:65` scales by powers of ten, so 15 s is transmitted as 11.625 s.

## Not modelled

Packet and ZAPI encodings (byte layout, no state), validity-time encoding,
the vtysh router (its effect depends on the FRR version), parsing of packets in
the NFQUEUE hook, formatting of MAC addresses, the read-only REST handlers,
authentication and rate limiting, configuration and its reload (no manager sees
a new value), metrics, the interface monitor (nothing reacts to its event),
program entry, signals and shutdown, snapshots, the contents of source claims
and joined groups (only listed by the API, or by nobody), stubs for other
systems. Errors of the kernel other than those named above are left out: the
code logs them and goes on. Write errors on the ZAPI socket are the `~session`
cases of `RouteInstall`.

Assumptions of the flooding model: one interface per router; transmissions
arrive in the order in which they were made (a shared channel with negligible
delay) or are lost; multicast loops back to the sender's own socket; tables do
not change while one message travels, except by restarts; the initial TTL is at
least the number of routers. Selectors come from HELLOs that announce MPRs, as
other OLSR implementations send them: this daemon's `sendHello` does not
(`hello_relay`), so in a network of this daemon alone only source claims are
relayed.

## Plan

1. Built: the modules above, in the order neighbour tables and MPRs, SPF,
   topology, update pipeline, route installation, HNA, multicast, HELLO exchange,
   loop prevention and REST requests, flooding with its refinement.
2. Proved: every invariant and action property that a run checks, and the safety
   parts of both refinements. Proofs next: an abstract specification of the
   update pipeline (one pending bit per manager) with its refinement, and action
   properties of the installation loop and of the ZAPI client.
3. Models left: shutdown (`Unsubscribe` against `Publish`); the neighbour tables
   composed with the SPF graph (asymmetric neighbours, unpublished 2-hop
   changes).
