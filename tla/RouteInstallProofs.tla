------------------------- MODULE RouteInstallProofs -------------------------
(***************************************************************************)
(* With FRR, zebra ends up with the routes of the SPF engine, for any      *)
(* prefixes, next hops, metrics, size of the channel and number of runs,   *)
(* lost sessions and restarts.                                             *)
(*                                                                         *)
(* The argument is about one prefix at a time: what the diff has told the  *)
(* channel about it, the last event that waits in the channel, and, when   *)
(* none waits, what zebra holds.                                           *)
(***************************************************************************)
EXTENDS RouteInstall, TLAPS

(* The next hop of a table for a prefix: no element or one. *)
Via(table, p) == {r.via : r \in {x \in table : x.prefix = p}}

Pending(p) == \E e \in withdrawals \cup additions : e.route.prefix = p

(* What the events published so far say about a prefix. *)
Published(p) ==
    IF spf = "diff" /\ ~Pending(p) THEN Via(newRoutes, p) ELSE Via(activeRoutes, p)

Effect(e) == IF e.action = "add" THEN {e.route.via} ELSE {}

For(e, p) == e \in Unicast /\ e.route.prefix = p

Waiting(p) == \E i \in 1..Len(queue) : For(queue[i], p)

(* The diff has one event for each prefix, and it leads to the new table. *)
DiffInv ==
    /\ spf # "diff" => withdrawals = {} /\ additions = {}
    /\ \A e \in withdrawals \cup additions : Effect(e) = Via(newRoutes, e.route.prefix)
    /\ \A e, f \in withdrawals \cup additions : e.route.prefix = f.route.prefix => e = f

(* The last event of a prefix in the channel says what was published. *)
QueueInv ==
    ~dropped => \A p \in Prefix : \A i \in 1..Len(queue) :
        For(queue[i], p) /\ (\A j \in i+1..Len(queue) : ~For(queue[j], p))
            => Effect(queue[i]) = Published(p)

(* Zebra forgets the routes of a session that is gone. *)
SessionInv ==
    /\ session => Connected
    /\ ~session => fib = {}

(* A prefix of which no event waits.  Before the snapshot zebra may lack   *)
(* it; then syncRoutes sends it; afterwards zebra has it.                  *)
ZebraInv ==
    /\ conn = "send" /\ ~overtaken => spf # "diff" /\ sync \subseteq activeRoutes
    /\ ~dropped /\ session => \A p \in Prefix : ~Waiting(p) =>
          /\ conn \in {"announceUp", "snapshot"} => Via(fib, p) \subseteq Published(p)
          /\ conn = "send" /\ ~overtaken => Has(sync, p) \/ Via(fib, p) = Published(p)
          /\ conn = "read" /\ ~overtaken => Via(fib, p) = Published(p)

InstallInv == TypeOK /\ DiffInv /\ QueueInv /\ SessionInv /\ ZebraInv

-----------------------------------------------------------------------------
LEMMA TableFacts ==
    ASSUME NEW t \in Tables
    PROVE  /\ t \subseteq Route
           /\ \A r \in t : Via(t, r.prefix) = {r.via}
           /\ \A p : ~Has(t, p) => Via(t, p) = {}
<1>1. t \subseteq Route /\ \A r1, r2 \in t : r1.prefix = r2.prefix => r1 = r2
  BY DEF Tables
<1>2. ASSUME NEW r \in t PROVE Via(t, r.prefix) = {r.via}
  <2>1. {x \in t : x.prefix = r.prefix} = {r}
    BY <1>1
  <2> QED
    BY <2>1 DEF Via
<1> QED
  BY <1>1, <1>2 DEF Via, Has

LEMMA ZebraFacts ==
    ASSUME NEW f, NEW r, NEW p
    PROVE  /\ Via(ZebraAdd(f, r), p) = IF p = r.prefix THEN {r.via} ELSE Via(f, p)
           /\ Via(ZebraDelete(f, r), p) = IF p = r.prefix THEN {} ELSE Via(f, p)
<1>1. CASE p = r.prefix
  <2>1. {x \in ZebraAdd(f, r) : x.prefix = p} = {r} /\ {x \in ZebraDelete(f, r) : x.prefix = p} = {}
    BY <1>1 DEF ZebraAdd, ZebraDelete
  <2> QED
    BY <1>1, <2>1 DEF Via
<1>2. CASE p # r.prefix
  <2>1. /\ {x \in ZebraAdd(f, r) : x.prefix = p} = {x \in f : x.prefix = p}
        /\ {x \in ZebraDelete(f, r) : x.prefix = p} = {x \in f : x.prefix = p}
    BY <1>2 DEF ZebraAdd, ZebraDelete
  <2> QED
    BY <1>2, <2>1 DEF Via
<1> QED
  BY <1>1, <1>2

Item == Unicast \cup {Multicast, Status}

(* Publish never puts more into the channel than it holds. *)
LEMMA OfferType ==
    ASSUME queue \in Seq(Item), Len(queue) <= BufferSize, NEW e \in Item,
           Offer(e) \/ UNCHANGED queue
    PROVE  queue' \in Seq(Item) /\ Len(queue') <= BufferSize
BY InstallAssumption DEF Offer

LEMMA InitType == Init => TypeOK
<1> SUFFICES ASSUME Init PROVE TypeOK
  OBVIOUS
<1>1. {} \in Tables
  BY DEF Tables
<1>2. queue \in Seq(Unicast \cup {Multicast, Status}) /\ Len(queue) <= BufferSize
  BY InstallAssumption DEF Init
<1>3. runs \in 0..MaxRuns /\ restarts \in 0..MaxRestarts
  BY InstallAssumption DEF Init
<1> QED
  BY <1>1, <1>2, <1>3 DEF Init, TypeOK

LEMMA EventType ==
    ASSUME NEW rs \in SUBSET Route
    PROVE  Event("add", rs) \subseteq Unicast /\ Event("delete", rs) \subseteq Unicast
BY DEF Event, Unicast

LEMMA NextType == TypeOK /\ [Next]_vars => TypeOK'
<1> SUFFICES ASSUME TypeOK, [Next]_vars PROVE TypeOK'
  OBVIOUS
<1> USE InstallAssumption
<1>0. queue \in Seq(Item) /\ Len(queue) <= BufferSize
  BY DEF TypeOK, Item
<1>1. ASSUME NEW t \in Tables, StartRun(t) PROVE TypeOK'
  <2>1. t \subseteq Route /\ activeRoutes \subseteq Route
    BY TableFacts DEF TypeOK
  <2>2. withdrawals' \subseteq Unicast /\ additions' \subseteq Unicast
    <3> DEFINE gone == {r \in activeRoutes : ~Has(t, r.prefix)}
               moved == {r \in t : \E old \in activeRoutes :
                             old.prefix = r.prefix /\ old.via # r.via}
               new == {r \in t : ~Has(activeRoutes, r.prefix)}
    <3>1. gone \subseteq Route /\ moved \subseteq Route /\ new \subseteq Route
      BY <2>1
    <3>2. /\ withdrawals' = Event("delete", gone) \cup Event("add", moved)
          /\ additions' = Event("add", new)
      BY <1>1 DEF StartRun
    <3> HIDE DEF gone, moved, new
    <3> QED
      BY <3>1, <3>2, EventType
  <2>3. runs' \in 0..MaxRuns /\ overtaken' \in BOOLEAN
    <3>1. runs' \in 0..MaxRuns
      BY <1>1 DEF StartRun, TypeOK
    <3>2. overtaken' \in BOOLEAN
      BY <1>1, Zenon DEF StartRun, TypeOK
    <3> QED
      BY <3>1, <3>2
  <2>4. /\ spf' = "diff" /\ newRoutes' = t
        /\ UNCHANGED <<activeRoutes, queue, fib, connVars, dropped, restarts>>
    BY <1>1 DEF StartRun
  <2> QED
    BY <2>2, <2>3, <2>4 DEF TypeOK, connVars
<1>2. ASSUME NEW e \in withdrawals \cup additions, PublishRoute(e) \/ PublishTimeout(e)
      PROVE  TypeOK'
  <2>1. e \in Unicast /\ e \in Item
    BY DEF TypeOK, Item
  <2>2. /\ (queue' = Append(queue, e) /\ Len(queue) < BufferSize) \/ queue' = queue
        /\ dropped' \in {dropped, TRUE}
        /\ Done(e) /\ UNCHANGED <<fib, connVars, overtaken, restarts>>
    BY <1>2 DEF PublishRoute, PublishTimeout, history
  <2>3. queue' \in Seq(Item) /\ Len(queue') <= BufferSize
    BY <1>0, <2>1, <2>2
  <2>4. dropped' \in BOOLEAN
    BY <2>2 DEF TypeOK
  <2> QED
    BY <2>2, <2>3, <2>4 DEF TypeOK, Item, Done, connVars
<1>3. CASE FinishRun
  BY <1>3 DEF FinishRun, TypeOK, connVars, history
<1>4. CASE RecalculateMroutes
  <2>1. queue' \in Seq(Item) /\ Len(queue') <= BufferSize
    BY <1>0, <1>4, OfferType DEF RecalculateMroutes, Item
  <2> QED
    BY <1>4, <2>1 DEF RecalculateMroutes, TypeOK, Item, connVars, history
<1>5. CASE Consume
  <2>1. queue' \in Seq(Item) /\ Len(queue') <= BufferSize
    BY <1>0, <1>5 DEF Consume
  <2>2. Head(queue) \in Item
    BY <1>0, <1>5 DEF Consume
  <2>3. Head(queue).action \in {"add", "delete"} => Head(queue).route \in Route
    BY <2>2 DEF Item, Unicast, Multicast, Status
  <2>4. fib' \subseteq Route
    BY <1>5, <2>3 DEF Consume, Installed, KernelAdd, KernelDelete, ZebraAdd, ZebraDelete, TypeOK
  <2> QED
    BY <1>5, <2>1, <2>4 DEF Consume, TypeOK, Item, spfVars, connVars, history
<1>6. CASE ConnStep
  <2>1. CASE Connect
    BY <2>1 DEF Connect, TypeOK, spfVars, history
  <2>2. CASE Announce
    <3>1. queue' \in Seq(Item) /\ Len(queue') <= BufferSize
      BY <1>0, <2>2, OfferType DEF Announce, Item
    <3> QED
      BY <2>2, <3>1 DEF Announce, TypeOK, Item, spfVars, history
  <2>3. CASE Snapshot
    BY <2>3 DEF Snapshot, TypeOK, spfVars
  <2>4. ASSUME NEW r \in sync, SendSync(r) PROVE TypeOK'
    <3>1. r \in Route /\ sync' \in Tables
      BY <2>4 DEF SendSync, TypeOK, Tables
    <3>2. fib' \subseteq Route
      BY <2>4, <3>1 DEF SendSync, ZebraAdd, TypeOK
    <3> QED
      BY <2>4, <3>1, <3>2 DEF SendSync, TypeOK, spfVars, history
  <2>5. CASE Synced
    BY <2>5 DEF Synced, TypeOK, spfVars, history
  <2>6. CASE ReadError
    BY <2>6 DEF ReadError, TypeOK, spfVars, history
  <2> QED
    BY <1>6, <2>1, <2>2, <2>3, <2>4, <2>5, <2>6 DEF ConnStep
<1>7. CASE Break
  BY <1>7 DEF Break, TypeOK, spfVars, history
<1>8. CASE Restart
  <2>1. {} \in Tables
    BY DEF Tables
  <2>2. queue' \in Seq(Unicast \cup {Multicast, Status}) /\ Len(queue') <= BufferSize
    BY <1>8 DEF Restart
  <2>3. runs' \in 0..MaxRuns /\ restarts' \in 0..MaxRestarts
    BY <1>8 DEF Restart, TypeOK
  <2> QED
    BY <1>8, <2>1, <2>2, <2>3 DEF Restart, TypeOK
<1>9. CASE UNCHANGED vars
  BY <1>9 DEF vars, spfVars, connVars, history, TypeOK
<1> QED
  BY <1>1, <1>2, <1>3, <1>4, <1>5, <1>6, <1>7, <1>8, <1>9 DEF Next, SPFStep

(* The tables, the channel and the connection have their types, in both    *)
(* modes: the channel never holds more than its capacity, and a table of   *)
(* the SPF engine has one route for each prefix.                           *)
THEOREM TypeCorrect == Spec => []TypeOK
BY InitType, NextType, PTL DEF Spec

-----------------------------------------------------------------------------
LEMMA Items ==
    ASSUME TypeOK
    PROVE  /\ queue \in Seq(Item) /\ Len(queue) \in Nat
           /\ \A e \in Unicast : /\ e.action \in {"add", "delete"} /\ e.route \in Route
                                 /\ e.route.prefix \in Prefix
           /\ Multicast \notin Unicast /\ Status \notin Unicast
           /\ Multicast.action \notin {"add", "delete"} /\ Status.action \notin {"add", "delete"}
BY DEF TypeOK, Item, Unicast, Route, Multicast, Status

(* Events without a unicast route change nothing that the channel says. *)
LEMMA QueueKept ==
    ASSUME TypeOK, QueueInv, NEW e \in {Multicast, Status}, Offer(e) \/ UNCHANGED queue,
           UNCHANGED dropped, \A p \in Prefix : Published(p)' = Published(p)
    PROVE  QueueInv' /\ \A p \in Prefix : Waiting(p)' <=> Waiting(p)
<1>1. CASE queue' = queue
  BY <1>1 DEF QueueInv, Waiting, For, Effect
<1>2. CASE queue' = Append(queue, e)
  <2>1. /\ Len(queue) \in Nat /\ Len(queue') = Len(queue) + 1
        /\ \A i \in 1..Len(queue) : queue'[i] = queue[i]
        /\ queue'[Len(queue) + 1] = e /\ e \notin Unicast
    BY <1>2, Items
  <2>2. \A p \in Prefix : Waiting(p)' <=> Waiting(p)
    BY <2>1 DEF Waiting, For
  <2>3. QueueInv'
    <3> SUFFICES ASSUME ~dropped, NEW p \in Prefix, NEW i \in 1..Len(queue'),
                        For(queue'[i], p), \A j \in i+1..Len(queue') : ~For(queue'[j], p)
                 PROVE  Effect(queue'[i]) = Published(p)
      BY DEF QueueInv, For, Effect
    <3>1. i \in 1..Len(queue) /\ queue'[i] = queue[i]
      BY <2>1 DEF For
    <3>2. \A j \in i+1..Len(queue) : ~For(queue[j], p)
      BY <2>1
    <3> QED
      BY <3>1, <3>2 DEF QueueInv
  <2> QED
    BY <2>2, <2>3
<1> QED
  BY <1>1, <1>2 DEF Offer

(* The diff: what was published does not change when a run begins. *)
LEMMA StartKeeps ==
    ASSUME TypeOK, DiffInv, QueueInv, ZebraInv, NEW t \in Tables, StartRun(t)
    PROVE  DiffInv' /\ QueueInv' /\ ZebraInv'
<1> DEFINE gone == {r \in activeRoutes : ~Has(t, r.prefix)}
           moved == {r \in t : \E old \in activeRoutes : old.prefix = r.prefix /\ old.via # r.via}
           new == {r \in t : ~Has(activeRoutes, r.prefix)}
<1>1. /\ spf = "idle" /\ spf' = "diff" /\ newRoutes' = t
      /\ withdrawals' = Event("delete", gone) \cup Event("add", moved)
      /\ additions' = Event("add", new)
      /\ overtaken' = (overtaken \/ conn = "send")
      /\ UNCHANGED <<activeRoutes, queue, fib, connVars, dropped>>
  BY DEF StartRun
<1>2. /\ activeRoutes \in Tables /\ activeRoutes \subseteq Route /\ t \subseteq Route
      /\ \A r \in activeRoutes : Via(activeRoutes, r.prefix) = {r.via}
      /\ \A r \in t : Via(t, r.prefix) = {r.via}
      /\ \A p : ~Has(activeRoutes, p) => Via(activeRoutes, p) = {}
      /\ \A p : ~Has(t, p) => Via(t, p) = {}
      /\ \A r1, r2 \in t : r1.prefix = r2.prefix => r1 = r2
      /\ \A r1, r2 \in activeRoutes : r1.prefix = r2.prefix => r1 = r2
  BY TableFacts DEF TypeOK, Tables
<1>3. \A e \in withdrawals' \cup additions' :
         \/ e.action = "delete" /\ e.route \in gone
         \/ e.action = "add" /\ e.route \in moved \cup new
  BY <1>1 DEF Event
<1>4. \A r \in gone : [action |-> "delete", route |-> r] \in withdrawals' \cup additions'
  BY <1>1 DEF Event
<1>5. \A r \in moved \cup new : [action |-> "add", route |-> r] \in withdrawals' \cup additions'
  BY <1>1 DEF Event
<1>6. \A e \in withdrawals' \cup additions' : e = [action |-> e.action, route |-> e.route]
  BY <1>1 DEF Event
<1>7. DiffInv'
  <2>1. \A e \in withdrawals' \cup additions' : Effect(e) = Via(t, e.route.prefix)
    BY <1>2, <1>3 DEF Effect
  <2>2. \A e, f \in withdrawals' \cup additions' : e.route.prefix = f.route.prefix => e = f
    <3> SUFFICES ASSUME NEW e \in withdrawals' \cup additions', NEW f \in withdrawals' \cup additions',
                        e.route.prefix = f.route.prefix
                 PROVE  e = f
      OBVIOUS
    <3>1. e.action = f.action /\ e.route = f.route
      <4>1. CASE e.action = "delete" /\ e.route \in gone
        <5>1. f.action = "delete" /\ f.route \in gone
          BY <1>3, <4>1 DEF Has
        <5> QED
          BY <1>2, <4>1, <5>1
      <4>2. CASE e.action = "add" /\ e.route \in moved \cup new
        <5>1. f.action = "add" /\ f.route \in moved \cup new
          BY <1>3, <4>2 DEF Has
        <5> QED
          BY <1>2, <4>2, <5>1
      <4> QED
        BY <1>3, <4>1, <4>2
    <3> QED
      BY <1>6, <3>1
  <2> QED
    BY <1>1, <2>1, <2>2 DEF DiffInv, Effect, Via
<1>8. \A p \in Prefix : Published(p)' = Published(p)
  <2> SUFFICES ASSUME NEW p \in Prefix, ~Pending(p)' PROVE Via(t, p) = Via(activeRoutes, p)
    BY <1>1 DEF Published, Via
  <2>1. \A r \in gone \cup moved \cup new : r.prefix # p
    <3>1. \A e \in withdrawals' \cup additions' : e.route.prefix # p
      BY DEF Pending
    <3>2. \A r \in gone : r.prefix # p
      BY <1>4, <3>1
    <3>3. \A r \in moved \cup new : r.prefix # p
      BY <1>5, <3>1
    <3> QED
      BY <3>2, <3>3
  <2>2. CASE Has(activeRoutes, p) /\ Has(t, p)
    <3>1. PICK r \in t, old \in activeRoutes : r.prefix = p /\ old.prefix = p
      BY <2>2 DEF Has
    <3> QED
      BY <1>2, <2>1, <3>1
  <2>3. CASE ~Has(activeRoutes, p)
    <3>1. ~Has(t, p)
      BY <2>1, <2>3 DEF Has
    <3> QED
      BY <1>2, <2>3, <3>1
  <2>4. CASE ~Has(t, p)
    <3>1. ~Has(activeRoutes, p)
      BY <2>1, <2>4 DEF Has
    <3> QED
      BY <1>2, <2>4, <3>1
  <2> QED
    BY <2>2, <2>3, <2>4
<1> HIDE DEF gone, moved, new
<1>9. QueueInv'
  BY <1>1, <1>8 DEF QueueInv, For, Effect
<1>10. ZebraInv'
  <2>1. \A p \in Prefix : Via(fib, p)' = Via(fib, p) /\ (Waiting(p)' <=> Waiting(p))
    BY <1>1 DEF Via, Waiting, For
  <2>2. ~overtaken' => ~overtaken /\ conn # "send"
    BY <1>1, Zenon
  <2> QED
    BY <1>1, <1>8, <2>1, <2>2 DEF ZebraInv, connVars
<1> QED
  BY <1>7, <1>9, <1>10

(* An event of the diff goes into the channel, or is given up. *)
LEMMA PublishKeeps ==
    ASSUME TypeOK, DiffInv, QueueInv, ZebraInv, NEW e \in withdrawals \cup additions,
           PublishRoute(e) \/ PublishTimeout(e)
    PROVE  DiffInv' /\ QueueInv' /\ ZebraInv'
<1>1. /\ spf = "diff" /\ withdrawals' = withdrawals \ {e} /\ additions' = additions \ {e}
      /\ UNCHANGED <<activeRoutes, newRoutes, spf, fib, conn, session, sync, overtaken>>
      /\ \/ queue' = Append(queue, e) /\ dropped' = dropped
         \/ dropped' = TRUE
  BY DEF PublishRoute, PublishTimeout, Done, connVars, history
<1>2. DiffInv'
  BY <1>1 DEF DiffInv, Effect, Via
<1>3. CASE dropped'
  BY <1>1, <1>2, <1>3 DEF QueueInv, ZebraInv
<1>4. CASE ~dropped'
  <2>1. queue' = Append(queue, e) /\ ~dropped
    BY <1>1, <1>4
  <2>2. e \in Unicast
    BY DEF TypeOK
  <2>3. /\ Len(queue) \in Nat /\ Len(queue') = Len(queue) + 1
        /\ \A i \in 1..Len(queue) : queue'[i] = queue[i]
        /\ queue'[Len(queue) + 1] = e
    BY <2>1, Items
  <2>4. ~Pending(e.route.prefix)' /\ \A p \in Prefix \ {e.route.prefix} : Pending(p)' <=> Pending(p)
    BY <1>1 DEF Pending, DiffInv
  <2>5. Published(e.route.prefix)' = Effect(e)
    BY <1>1, <2>4 DEF Published, DiffInv, Via
  <2>6. \A p \in Prefix \ {e.route.prefix} : Published(p)' = Published(p)
    BY <1>1, <2>4 DEF Published, Via
  <2>7. /\ Waiting(e.route.prefix)'
        /\ \A p \in Prefix \ {e.route.prefix} : Waiting(p)' <=> Waiting(p)
    BY <2>2, <2>3 DEF Waiting, For
  <2>8. QueueInv'
    <3> SUFFICES ASSUME NEW p \in Prefix, NEW i \in 1..Len(queue'),
                        For(queue'[i], p), \A j \in i+1..Len(queue') : ~For(queue'[j], p)
                 PROVE  Effect(queue'[i]) = Published(p)'
      BY DEF QueueInv, For, Effect
    <3>1. CASE i = Len(queue) + 1
      BY <2>3, <2>5, <3>1 DEF For
    <3>2. CASE i \in 1..Len(queue)
      <4>1. p # e.route.prefix
        BY <2>2, <2>3, <3>2 DEF For
      <4>2. \A j \in i+1..Len(queue) : ~For(queue[j], p)
        BY <2>3, <3>2
      <4>3. For(queue[i], p) /\ queue'[i] = queue[i]
        BY <2>3, <3>2
      <4>4. Effect(queue[i]) = Published(p)
        BY <2>1, <3>2, <4>2, <4>3 DEF QueueInv
      <4> QED
        BY <2>6, <4>1, <4>3, <4>4
    <3> QED
      BY <2>3, <3>1, <3>2
  <2>9. ZebraInv'
    <3>1. \A p \in Prefix : Via(fib, p)' = Via(fib, p)
      BY <1>1 DEF Via
    <3> QED
      BY <1>1, <2>1, <2>6, <2>7, <3>1 DEF ZebraInv
  <2> QED
    BY <1>2, <2>8, <2>9
<1> QED
  BY <1>3, <1>4

(* Handling the next event: zebra learns what the event says, if there is *)
(* a session.                                                             *)
LEMMA ConsumeKeeps ==
    ASSUME ~Standalone, TypeOK, DiffInv, QueueInv, SessionInv, ZebraInv, Consume
    PROVE  DiffInv' /\ QueueInv' /\ SessionInv' /\ ZebraInv'
<1>1. /\ queue # <<>> /\ queue' = Tail(queue) /\ fib' = Installed(Head(queue))
      /\ UNCHANGED <<activeRoutes, newRoutes, withdrawals, additions, spf, conn, session, sync,
                     dropped, overtaken>>
  BY DEF Consume, spfVars, connVars, history
<1>2. PICK e \in Item : e = Head(queue)
  BY <1>1, Items
<1>3. /\ Len(queue) \in Nat \ {0} /\ Len(queue') = Len(queue) - 1 /\ e = queue[1]
      /\ \A i \in 1..Len(queue') : queue'[i] = queue[i + 1]
  BY <1>1, <1>2, Items
<1>4. \A p \in Prefix : Published(p)' = Published(p)
  BY <1>1 DEF Published, Pending, Via
<1>5. DiffInv'
  BY <1>1 DEF DiffInv, Effect, Via
<1>6. QueueInv'
  <2> SUFFICES ASSUME ~dropped, NEW p \in Prefix, NEW i \in 1..Len(queue'),
                      For(queue'[i], p), \A j \in i+1..Len(queue') : ~For(queue'[j], p)
               PROVE  Effect(queue'[i]) = Published(p)
    BY <1>1, <1>4 DEF QueueInv, For, Effect
  <2>1. i + 1 \in 1..Len(queue) /\ queue'[i] = queue[i + 1]
    BY <1>3
  <2>2. ASSUME NEW j \in i+2..Len(queue) PROVE ~For(queue[j], p)
    <3>1. j - 1 \in i+1..Len(queue') /\ queue'[j - 1] = queue[j]
      BY <1>3
    <3> QED
      BY <3>1
  <2> QED
    BY <2>1, <2>2 DEF QueueInv
<1>7. \A p \in Prefix : ~For(e, p) => (Waiting(p)' <=> Waiting(p))
  <2> SUFFICES ASSUME NEW p \in Prefix, ~For(e, p) PROVE Waiting(p)' <=> Waiting(p)
    OBVIOUS
  <2>1. ASSUME Waiting(p)' PROVE Waiting(p)
    BY <1>3, <2>1 DEF Waiting, For
  <2>2. ASSUME Waiting(p) PROVE Waiting(p)'
    <3>1. PICK i \in 1..Len(queue) : For(queue[i], p)
      BY <2>2 DEF Waiting
    <3>2. i - 1 \in 1..Len(queue') /\ queue'[i - 1] = queue[i]
      BY <1>3, <3>1
    <3> QED
      BY <3>1, <3>2 DEF Waiting, For
  <2> QED
    BY <2>1, <2>2
<1>8. ASSUME NEW p \in Prefix, For(e, p), ~Waiting(p)', ~dropped
      PROVE  Effect(e) = Published(p)
  <2>1. ASSUME NEW j \in 2..Len(queue) PROVE ~For(queue[j], p)
    <3>1. j - 1 \in 1..Len(queue') /\ queue'[j - 1] = queue[j]
      BY <1>3
    <3> QED
      BY <1>8, <3>1 DEF Waiting, For
  <2> QED
    BY <1>3, <1>8, <2>1 DEF QueueInv
<1>9. ~session => fib' = fib
  BY <1>1, <1>2 DEF Installed
<1>10. ASSUME session, NEW p \in Prefix
       PROVE  Via(fib', p) = IF For(e, p) THEN Effect(e) ELSE Via(fib, p)
  <2>1. Connected
    BY <1>10 DEF SessionInv
  <2>2. CASE e \in Unicast /\ e.action = "add"
    <3>1. fib' = ZebraAdd(fib, e.route)
      BY <1>1, <1>2, <1>10, <2>1, <2>2 DEF Installed
    <3> QED
      BY <2>2, <3>1, ZebraFacts DEF For, Effect
  <2>3. CASE e \in Unicast /\ e.action = "delete"
    <3>1. fib' = ZebraDelete(fib, e.route)
      BY <1>1, <1>2, <1>10, <2>1, <2>3 DEF Installed
    <3> QED
      BY <2>3, <3>1, ZebraFacts DEF For, Effect
  <2>4. CASE e \notin Unicast
    <3>1. e.action \notin {"add", "delete"}
      BY <1>2, <2>4, Items DEF Item
    <3>2. fib' = fib
      BY <1>1, <1>2, <3>1 DEF Installed
    <3> QED
      BY <2>4, <3>2 DEF For
  <2> QED
    BY <2>2, <2>3, <2>4, Items
<1>11. SessionInv'
  BY <1>1, <1>9 DEF SessionInv, Connected
<1>12. ZebraInv'
  <2>1. ASSUME ~dropped, session, NEW p \in Prefix, ~Waiting(p)'
        PROVE  /\ conn \in {"announceUp", "snapshot"} => Via(fib', p) \subseteq Published(p)
               /\ conn = "send" /\ ~overtaken => Has(sync, p) \/ Via(fib', p) = Published(p)
               /\ conn = "read" /\ ~overtaken => Via(fib', p) = Published(p)
    <3>1. CASE For(e, p)
      BY <1>8, <1>10, <2>1, <3>1
    <3>2. CASE ~For(e, p)
      BY <1>7, <1>10, <2>1, <3>2 DEF ZebraInv
    <3> QED
      BY <3>1, <3>2
  <2>2. \A p : Via(fib, p)' = Via(fib', p)
    BY DEF Via
  <2> QED
    BY <1>1, <1>4, <2>1, <2>2 DEF ZebraInv, Has
<1> QED
  BY <1>5, <1>6, <1>11, <1>12

(* A new session, its synchronisation, and its end. *)
LEMMA ConnKeeps ==
    ASSUME TypeOK, DiffInv, QueueInv, SessionInv, ZebraInv, ConnStep \/ Break
    PROVE  DiffInv' /\ QueueInv' /\ SessionInv' /\ ZebraInv'
<1>1. UNCHANGED <<activeRoutes, newRoutes, withdrawals, additions, spf, dropped>>
  BY DEF ConnStep, Connect, Announce, Snapshot, SendSync, Synced, ReadError, Break,
         spfVars, history
<1>2. \A p \in Prefix : Published(p)' = Published(p)
  BY <1>1 DEF Published, Pending, Via
<1>3. DiffInv'
  BY <1>1 DEF DiffInv, Effect, Via
<1>4. QueueInv' /\ \A p \in Prefix : Waiting(p)' <=> Waiting(p)
  <2>1. Offer(Status) \/ UNCHANGED queue
    BY DEF ConnStep, Connect, Announce, Snapshot, SendSync, Synced, ReadError, Break
  <2> QED
    BY <1>1, <1>2, <2>1, QueueKept
<1>6. CASE Connect
  <2>1. ~session /\ fib = {}
    BY <1>6 DEF Connect, SessionInv, Connected
  <2>2. SessionInv'
    BY <1>6, <2>1 DEF Connect, SessionInv, Connected
  <2>3. \A p : Via(fib, p)' = {}
    BY <1>6, <2>1 DEF Connect, Via
  <2>4. ZebraInv'
    BY <1>6, <2>3 DEF Connect, ZebraInv
  <2> QED
    BY <1>3, <1>4, <2>2, <2>4
<1>7. CASE Announce
  <2>1. SessionInv'
    BY <1>7 DEF Announce, SessionInv, Connected
  <2>2. \A p : Via(fib, p)' = Via(fib, p)
    BY <1>7 DEF Announce, Via
  <2>3. session' /\ session => conn = "announceUp" /\ conn' = "snapshot"
    BY <1>7 DEF Announce, SessionInv, Connected
  <2>4. ZebraInv'
    BY <1>1, <1>2, <1>4, <1>7, <2>2, <2>3 DEF Announce, ZebraInv
  <2> QED
    BY <1>3, <1>4, <2>1, <2>4
<1>8. CASE Snapshot
  <2>1. /\ conn = "snapshot" /\ spf # "diff" /\ sync' = activeRoutes /\ conn' = "send"
        /\ UNCHANGED <<fib, session>>
    BY <1>8 DEF Snapshot
  <2>2. \A p : Via(fib, p)' = Via(fib, p)
    BY <2>1 DEF Via
  <2>3. \A p \in Prefix : Published(p) = Via(activeRoutes, p)
    BY <2>1 DEF Published
  <2>4. \A p : ~Has(activeRoutes, p) => Via(activeRoutes, p) = {}
    BY TableFacts DEF TypeOK
  <2>5. SessionInv'
    BY <2>1 DEF SessionInv, Connected
  <2>6. \A p : Has(sync, p)' <=> Has(activeRoutes, p)
    BY <2>1 DEF Has
  <2>7. ZebraInv'
    BY <1>1, <1>2, <1>4, <2>1, <2>2, <2>3, <2>4, <2>6 DEF ZebraInv
  <2> QED
    BY <1>3, <1>4, <2>5, <2>7
<1>9. ASSUME NEW r \in sync, SendSync(r)
      PROVE  SessionInv' /\ ZebraInv'
  <2>1. /\ conn = "send" /\ sync' = sync \ {r} /\ UNCHANGED <<conn, session, overtaken>>
        /\ fib' = IF session THEN ZebraAdd(fib, r) ELSE fib
    BY <1>9 DEF SendSync, history
  <2>2. SessionInv'
    BY <2>1 DEF SessionInv, Connected
  <2>3. ASSUME ~dropped, session, ~overtaken, NEW p \in Prefix, ~Waiting(p)
        PROVE  Has(sync', p) \/ Via(fib', p) = Published(p)
    <3>1. Via(fib', p) = IF p = r.prefix THEN {r.via} ELSE Via(fib, p)
      BY <2>1, <2>3, ZebraFacts
    <3>2. CASE p = r.prefix
      <4>1. spf # "diff" /\ r \in activeRoutes
        BY <2>1, <2>3 DEF ZebraInv
      <4>2. Published(p) = {r.via}
        BY <3>2, <4>1, TableFacts DEF Published, TypeOK
      <4> QED
        BY <3>1, <3>2, <4>2
    <3>3. CASE p # r.prefix
      <4>1. Has(sync, p) \/ Via(fib, p) = Published(p)
        BY <2>1, <2>3 DEF ZebraInv
      <4>2. Has(sync, p) => Has(sync', p)
        BY <2>1, <3>3 DEF Has
      <4> QED
        BY <3>1, <3>3, <4>1, <4>2
    <3> QED
      BY <3>2, <3>3
  <2>4. \A p : Via(fib, p)' = Via(fib', p) /\ (Has(sync, p)' <=> Has(sync', p))
    BY DEF Via, Has
  <2>5. ~overtaken => sync' \subseteq activeRoutes /\ spf # "diff"
    BY <2>1 DEF ZebraInv
  <2>6. ZebraInv'
    BY <1>1, <1>2, <1>4, <2>1, <2>3, <2>4, <2>5 DEF ZebraInv
  <2> QED
    BY <2>2, <2>6
<1>10. CASE Synced
  <2>1. conn = "send" /\ sync = {} /\ conn' = "read" /\ UNCHANGED <<fib, session, sync, overtaken>>
    BY <1>10 DEF Synced, history
  <2>2. SessionInv'
    BY <2>1 DEF SessionInv, Connected
  <2>3. \A p : Via(fib, p)' = Via(fib, p) /\ ~Has(sync, p)
    BY <2>1 DEF Via, Has
  <2>4. ZebraInv'
    BY <1>1, <1>2, <1>4, <2>1, <2>3 DEF ZebraInv
  <2> QED
    BY <1>3, <1>4, <2>2, <2>4
<1>11. CASE ReadError
  BY <1>3, <1>4, <1>11 DEF ReadError, SessionInv, ZebraInv
<1>12. CASE Break
  <2>1. SessionInv'
    BY <1>12 DEF Break, SessionInv
  <2>2. ZebraInv'
    BY <1>1, <1>12 DEF Break, ZebraInv, history
  <2> QED
    BY <1>3, <1>4, <2>1, <2>2
<1> QED
  BY <1>3, <1>4, <1>6, <1>7, <1>8, <1>9, <1>10, <1>11, <1>12 DEF ConnStep

LEMMA InitInv == ASSUME ~Standalone PROVE Init => InstallInv
<1> SUFFICES ASSUME Init PROVE InstallInv
  OBVIOUS
<1>1. TypeOK
  BY InitType
<1>2. DiffInv /\ QueueInv /\ SessionInv /\ ZebraInv
  BY DEF Init, DiffInv, QueueInv, SessionInv, ZebraInv
<1> QED
  BY <1>1, <1>2 DEF InstallInv

LEMMA NextInv == ASSUME ~Standalone PROVE InstallInv /\ [Next]_vars => InstallInv'
<1> SUFFICES ASSUME InstallInv, [Next]_vars PROVE InstallInv'
  OBVIOUS
<1> USE DEF InstallInv
<1>0. TypeOK'
  BY NextType
<1>1. ASSUME NEW t \in Tables, StartRun(t) PROVE InstallInv'
  <2>1. SessionInv'
    BY <1>1 DEF StartRun, SessionInv, Connected, connVars
  <2> QED
    BY <1>0, <1>1, <2>1, StartKeeps
<1>2. ASSUME NEW e \in withdrawals \cup additions, PublishRoute(e) \/ PublishTimeout(e)
      PROVE  InstallInv'
  <2>1. SessionInv'
    BY <1>2 DEF PublishRoute, PublishTimeout, SessionInv, Connected, connVars
  <2> QED
    BY <1>0, <1>2, <2>1, PublishKeeps
<1>3. CASE FinishRun
  <2>1. /\ spf = "diff" /\ withdrawals = {} /\ additions = {} /\ spf' = "mroutes"
        /\ activeRoutes' = newRoutes
        /\ UNCHANGED <<newRoutes, withdrawals, additions, queue, fib, connVars, history>>
    BY <1>3 DEF FinishRun
  <2>2. \A p \in Prefix : Published(p)' = Published(p)
    BY <2>1 DEF Published, Pending, Via
  <2>3. DiffInv' /\ SessionInv'
    BY <2>1 DEF DiffInv, SessionInv, Connected, connVars
  <2>4. QueueInv'
    BY <2>1, <2>2 DEF QueueInv, For, Effect, history
  <2>5. \A p \in Prefix : Via(fib, p)' = Via(fib, p) /\ (Waiting(p)' <=> Waiting(p))
    BY <2>1 DEF Via, Waiting, For
  <2>6. ZebraInv'
    BY <2>1, <2>2, <2>5 DEF ZebraInv, connVars, history
  <2> QED
    BY <1>0, <2>3, <2>4, <2>6
<1>4. CASE RecalculateMroutes
  <2>1. /\ spf = "mroutes" /\ spf' = "idle"
        /\ UNCHANGED <<activeRoutes, newRoutes, withdrawals, additions, fib, connVars, history>>
        /\ Offer(Multicast) \/ UNCHANGED queue
    BY <1>4 DEF RecalculateMroutes
  <2>2. \A p \in Prefix : Published(p)' = Published(p)
    BY <2>1 DEF Published, Via
  <2>3. DiffInv' /\ SessionInv'
    BY <2>1 DEF DiffInv, SessionInv, Connected, connVars
  <2>4. QueueInv' /\ \A p \in Prefix : Waiting(p)' <=> Waiting(p)
    BY <2>1, <2>2, QueueKept DEF history
  <2>5. \A p \in Prefix : Via(fib, p)' = Via(fib, p)
    BY <2>1 DEF Via
  <2>6. ZebraInv'
    BY <2>1, <2>2, <2>4, <2>5 DEF ZebraInv, connVars, history
  <2> QED
    BY <1>0, <2>3, <2>4, <2>6
<1>5. CASE Consume
  BY <1>0, <1>5, ConsumeKeeps
<1>6. CASE ConnStep \/ Break
  BY <1>0, <1>6, ConnKeeps
<1>7. CASE Restart
  BY <1>0, <1>7 DEF Restart, DiffInv, QueueInv, SessionInv, ZebraInv
<1>8. CASE UNCHANGED vars
  <2>1. \A p \in Prefix : Published(p)' = Published(p)
    BY <1>8 DEF vars, spfVars, Published, Pending, Via
  <2>2. DiffInv' /\ SessionInv'
    BY <1>8 DEF vars, spfVars, connVars, DiffInv, Effect, Via, SessionInv, Connected
  <2>3. QueueInv'
    BY <1>8, <2>1 DEF vars, history, QueueInv, For, Effect
  <2>4. ZebraInv'
    <3>1. \A p \in Prefix : Via(fib, p)' = Via(fib, p) /\ (Waiting(p)' <=> Waiting(p))
      BY <1>8 DEF vars, Via, Waiting, For
    <3> QED
      BY <1>8, <2>1, <3>1 DEF vars, spfVars, connVars, history, ZebraInv
  <2> QED
    BY <1>0, <2>2, <2>3, <2>4
<1> QED
  BY <1>1, <1>2, <1>3, <1>4, <1>5, <1>6, <1>7, <1>8 DEF Next, SPFStep

(* With FRR, zebra holds the next hops of the SPF engine once everything   *)
(* has settled, whatever runs, lost sessions, reconnections and restarts   *)
(* came before, unless the channel dropped an event or a run overtook the  *)
(* synchronisation.  In standalone mode this is false.                     *)
THEOREM ZebraFollowsSPF == ASSUME ~Standalone PROVE Spec => []InstalledWhenQuiet
<1>1. InstallInv => InstalledWhenQuiet
  <2> SUFFICES ASSUME InstallInv, Quiet, ~dropped, ~overtaken PROVE Hops(fib) = Hops(activeRoutes)
    BY DEF InstalledWhenQuiet
  <2>1. \A p \in Prefix : Via(fib, p) = Via(activeRoutes, p)
    BY DEF InstallInv, ZebraInv, Quiet, Waiting, Published
  <2>2. fib \subseteq Route /\ activeRoutes \subseteq Route
    BY TableFacts DEF InstallInv, TypeOK
  <2>3. ASSUME NEW f \in SUBSET Route, NEW g \in SUBSET Route,
               \A p \in Prefix : Via(f, p) \subseteq Via(g, p)
        PROVE  Hops(f) \subseteq Hops(g)
    <3> SUFFICES ASSUME NEW r \in f PROVE <<r.prefix, r.via>> \in Hops(g)
      BY DEF Hops
    <3>1. r.prefix \in Prefix /\ r.via \in Via(f, r.prefix)
      BY DEF Route, Via
    <3>2. r.via \in Via(g, r.prefix)
      BY <2>3, <3>1
    <3>3. PICK x \in g : x.prefix = r.prefix /\ x.via = r.via
      BY <3>2 DEF Via
    <3> QED
      BY <3>3 DEF Hops
  <2>4. Hops(fib) \subseteq Hops(activeRoutes) /\ Hops(activeRoutes) \subseteq Hops(fib)
    BY <2>1, <2>2, <2>3
  <2> QED
    BY <2>4
<1> QED
  BY <1>1, InitInv, NextInv, PTL DEF Spec
=============================================================================
