--------------------------- MODULE FloodingProofs ---------------------------
(***************************************************************************)
(* FloodReachesAll and the safety part of the refinement of Dissemination, *)
(* for every finite network and every TTL that is at least its size; and   *)
(* that the relays MPRSelection chooses are enough for them.               *)
(***************************************************************************)
EXTENDS Flooding, MPRSelection, FiniteSetTheorems, TLAPS

Done == duplicates \cup {originator}

(* t's transmissions are heard by v or by a neighbour of v. *)
Near(t, v) == v \in links[t] \/ links[t] \cap links[v] # {}

Relays(w, u) == kind = "SourceClaim" \/ u \in selectors[w]

(* v has the message, or it waits at v, or a neighbour will relay it to v. *)
Expected(v) ==
    \/ v \in Done
    \/ queue[v] # <<>>
    \/ \E w \in links[v] : /\ w \notin Done
                           /\ queue[w] # <<>>
                           /\ Relays(w, Head(queue[w]).from)

NetworkOK ==
    /\ \A r, s \in Router : r \in links[s] => s \in links[r]
    /\ \A r \in Router : r \notin links[r]

(* The bookkeeping of one router, faults included. *)
RouterInv ==
    /\ \A r \in Router : handled[r] = IF r \in duplicates THEN 1 ELSE 0
    /\ originator \notin duplicates
    /\ ~sent => /\ relayed = {} /\ duplicates = {} /\ ~faulty
                /\ \A r \in Router : queue[r] = <<>>

(* Where the copies come from, and how far they can still travel. *)
CopyInv ==
    \A r \in Router : \A i \in 1..Len(queue[r]) :
        LET c == queue[r][i]
        IN  /\ c.from \in relayed
            /\ c.from = r \/ r \in links[c.from]
            /\ ~faulty /\ kind # "Hello" => c.ttl + Cardinality(relayed) >= InitialTTL + 1

(* Without faults, every router near a transmission is going to be served. *)
ReachInv ==
    ~faulty =>
        /\ sent => originator \in relayed
        /\ relayed \subseteq Done
        /\ \A r \in duplicates : \E t \in relayed : r \in links[t]
        /\ Flooded => \A v \in Router, t \in relayed : Near(t, v) => Expected(v)

FloodInv == TypeOK /\ NetworkOK /\ RouterInv /\ CopyInv /\ ReachInv

-----------------------------------------------------------------------------
(* Init establishes TypeOK: every scenario is well-formed. *)
LEMMA InitInv == Init => FloodInv
<1>. SUFFICES ASSUME Init PROVE FloodInv
  OBVIOUS
<1>1. PICK n \in Scenarios : links = n.links /\ selectors = n.selectors
                            /\ unsteady = n.unsteady /\ kind = n.kind
  BY DEF Init
<1>2. TypeOK /\ NetworkOK
  <2>1. /\ links \in [Router -> SUBSET Router] /\ selectors \in [Router -> SUBSET Router]
        /\ unsteady \subseteq Router /\ kind \in MessageTypes /\ NetworkOK
    BY <1>1, FloodingAssumption DEF NetworkOK
  <2>2. queue \in [Router -> Seq(Copy)] /\ handled \in [Router -> Nat]
    BY DEF Init
  <2>. QED BY <2>1, <2>2 DEF Init, TypeOK
<1>3. RouterInv
  BY DEF Init, RouterInv
<1>4. CopyInv
  <2>1. \A r \in Router : queue[r] = <<>>
    BY DEF Init
  <2>. QED BY <2>1 DEF CopyInv
<1>5. ReachInv
  BY DEF Init, ReachInv
<1>. QED BY <1>2, <1>3, <1>4, <1>5 DEF FloodInv

(* A transmission keeps the types of what it changes. *)
LEMMA BroadcastType ==
    ASSUME TypeOK, NEW r \in Router, NEW ttl \in 0..255, NEW heard,
           NEW rest \in Seq(Copy), BroadcastPacket(r, ttl, heard, rest)
    PROVE  queue' \in [Router -> Seq(Copy)] /\ relayed' \subseteq Router /\ faulty' \in BOOLEAN
<1>1. [from |-> r, ttl |-> ttl] \in Copy
  BY DEF Copy
<1>2. [queue EXCEPT ![r] = rest] \in [Router -> Seq(Copy)]
  BY DEF TypeOK
<1>3. queue' \in [Router -> Seq(Copy)]
  BY <1>1, <1>2 DEF BroadcastPacket
<1>. QED BY <1>3 DEF BroadcastPacket, TypeOK

(* The type of the state is preserved by every action. *)
LEMMA NextType == ASSUME TypeOK, NetworkOK, [Next]_vars PROVE TypeOK' /\ NetworkOK'
<1>1. NetworkOK'
  BY DEF NetworkOK, Next, vars, Send, Process, Drop, Handle, Expire, Restart
<1>2. ASSUME Send PROVE TypeOK'
  <2>1. PICK heard \in Hearers(originator) :
            BroadcastPacket(originator, IF kind = "Hello" THEN 1 ELSE InitialTTL,
                            heard, queue[originator])
    BY <1>2 DEF Send
  <2>2. (IF kind = "Hello" THEN 1 ELSE InitialTTL) \in 0..255
    BY FloodingAssumption
  <2>3. queue[originator] \in Seq(Copy) /\ originator \in Router
    BY DEF TypeOK
  <2>4. queue' \in [Router -> Seq(Copy)] /\ relayed' \subseteq Router /\ faulty' \in BOOLEAN
    BY <2>1, <2>2, <2>3, BroadcastType
  <2>. QED BY <1>2, <2>4 DEF TypeOK, Send
<1>3. ASSUME NEW r \in Router, Drop(r) PROVE TypeOK'
  BY <1>3 DEF TypeOK, Drop
<1>4. ASSUME NEW r \in Router, Handle(r) PROVE TypeOK'
  <2>1. Head(queue[r]) \in Copy /\ Tail(queue[r]) \in Seq(Copy)
    BY <1>4 DEF Handle, TypeOK
  <2>3. queue' \in [Router -> Seq(Copy)] /\ relayed' \subseteq Router /\ faulty' \in BOOLEAN
    <3>1. CASE ShouldForwardMessage(r, Head(queue[r]))
      <4>1. ForwardedTTL(Head(queue[r])) \in 0..255
        BY <2>1, <3>1 DEF ForwardedTTL, Copy, ShouldForwardMessage
      <4>2. PICK heard \in Hearers(r) :
               BroadcastPacket(r, ForwardedTTL(Head(queue[r])), heard, Tail(queue[r]))
        BY <1>4, <3>1 DEF Handle
      <4>. QED BY <2>1, <4>1, <4>2, BroadcastType
    <3>2. CASE ~ShouldForwardMessage(r, Head(queue[r]))
      BY <3>2, <1>4, <2>1 DEF TypeOK, Handle
    <3>. QED BY <3>1, <3>2
  <2>4. duplicates' \subseteq Router /\ handled' \in [Router -> Nat]
    BY <1>4 DEF TypeOK, Handle
  <2>. QED BY <1>4, <2>3, <2>4 DEF TypeOK, Handle
<1>5. ASSUME NEW r \in Router, Expire(r) PROVE TypeOK'
  BY <1>5 DEF TypeOK, Expire
<1>6. ASSUME NEW r \in Router, Restart(r) PROVE TypeOK'
  <2>1. <<>> \in Seq(Copy) /\ {} \in SUBSET Router
    OBVIOUS
  <2>2. /\ selectors' \in [Router -> SUBSET Router]
        /\ queue' \in [Router -> Seq(Copy)]
        /\ handled' \in [Router -> Nat]
    BY <1>6, <2>1 DEF TypeOK, Restart
  <2>. QED BY <1>6, <2>2 DEF TypeOK, Restart
<1>7. ASSUME UNCHANGED vars PROVE TypeOK'
  BY <1>7 DEF TypeOK, vars
<1>. QED BY <1>1, <1>2, <1>3, <1>4, <1>5, <1>6, <1>7 DEF Next, Process

(* The bookkeeping of the duplicate set is preserved, faults included. *)
LEMMA NextRouter == ASSUME TypeOK, RouterInv, [Next]_vars PROVE RouterInv'
<1>1. CASE Send
  BY <1>1 DEF TypeOK, RouterInv, Send, BroadcastPacket
<1>2. ASSUME NEW r \in Router, Process(r) PROVE RouterInv'
  <2>1. sent
    BY <1>2 DEF Process, Drop, Handle, RouterInv
  <2>2. CASE Drop(r)
    BY <2>1, <2>2 DEF RouterInv, Drop
  <2>3. CASE Handle(r)
    <3>1. r \notin duplicates /\ r # originator /\ handled[r] = 0
      BY <2>3 DEF Handle, Suppressed, RouterInv
    <3>2. handled' = [handled EXCEPT ![r] = handled[r] + 1]
      BY <2>3 DEF Handle
    <3>3. \A s \in Router : handled'[s] = IF s \in duplicates' THEN 1 ELSE 0
      BY <2>3, <3>1, <3>2 DEF Handle, RouterInv, TypeOK
    <3>. QED BY <2>1, <2>3, <3>1, <3>3 DEF RouterInv, Handle
  <2>. QED BY <1>2, <2>2, <2>3 DEF Process
<1>3. ASSUME NEW r \in Router, Expire(r) \/ Restart(r) PROVE RouterInv'
  BY <1>3 DEF TypeOK, RouterInv, Expire, Restart
<1>4. CASE UNCHANGED vars
  BY <1>4 DEF RouterInv, vars
<1>. QED BY <1>1, <1>2, <1>3, <1>4 DEF Next

(* The queues after a transmission. *)
LEMMA BroadcastQueue ==
    ASSUME TypeOK, NEW r \in Router, NEW ttl, NEW heard, NEW rest,
           BroadcastPacket(r, ttl, heard, rest), NEW s \in Router
    PROVE  queue'[s] = LET before == IF s = r THEN rest ELSE queue[s]
                       IN  IF s \in heard \cup {r}
                           THEN Append(before, [from |-> r, ttl |-> ttl]) ELSE before
BY DEF BroadcastPacket, TypeOK

(* The number of transmitters, when r transmits. *)
LEMMA TransmitterCount ==
    ASSUME TypeOK, NEW r \in Router
    PROVE  /\ Cardinality(relayed) \in Nat /\ Cardinality(relayed \cup {r}) \in Nat
           /\ Cardinality(relayed \cup {r}) >= Cardinality(relayed)
           /\ r \notin relayed => /\ Cardinality(relayed \cup {r}) = Cardinality(relayed) + 1
                                 /\ Cardinality(relayed) < Cardinality(Router)
           /\ Cardinality({}) = 0 /\ Cardinality({} \cup {r}) = 1
<1>1. IsFiniteSet(relayed) /\ IsFiniteSet(Router)
  BY FloodingAssumption, FS_Subset DEF TypeOK
<1>2. IsFiniteSet(relayed \cup {r})
      /\ Cardinality(relayed \cup {r}) = IF r \in relayed THEN Cardinality(relayed)
                                          ELSE Cardinality(relayed) + 1
  BY <1>1, FS_AddElement
<1>3. relayed \cup {r} \subseteq Router
  BY DEF TypeOK
<1>4. Cardinality(relayed \cup {r}) <= Cardinality(Router)
  BY <1>1, <1>3, FS_Subset
<1>5. Cardinality(relayed) \in Nat /\ Cardinality(Router) \in Nat
  BY <1>1, FS_CardinalityType
<1>6. Cardinality({}) = 0 /\ Cardinality({} \cup {r}) = 1
  <2>1. IsFiniteSet({}) /\ Cardinality({}) = 0
    BY FS_EmptySet
  <2>2. {} \cup {r} = {r} /\ Cardinality({r}) = 1
    BY FS_Singleton
  <2>. QED BY <2>1, <2>2
<1>. QED BY <1>2, <1>4, <1>5, <1>6

(* A transmission puts copies of the right kind into the queues. *)
LEMMA BroadcastCopies ==
    ASSUME FloodInv, NEW r \in Router, NEW ttl \in 0..255, NEW heard \in SUBSET links[r],
           NEW rest \in Seq(Copy), BroadcastPacket(r, ttl, heard, rest),
           links' = links, kind' = kind,
           \A i \in 1..Len(rest) : \E j \in 1..Len(queue[r]) : rest[i] = queue[r][j],
           ~faulty' /\ kind # "Hello" => ttl + Cardinality(relayed') >= InitialTTL + 1
    PROVE  CopyInv'
<1>1. relayed' = relayed \cup {r} /\ (faulty => faulty')
  BY DEF BroadcastPacket
<1>0. TypeOK
  BY DEF FloodInv
<1>2. /\ Cardinality(relayed) \in Nat /\ Cardinality(relayed') \in Nat
      /\ Cardinality(relayed') >= Cardinality(relayed)
  BY <1>0, <1>1, TransmitterCount
<1>7. InitialTTL \in Int
  BY FloodingAssumption
<1> DEFINE Good(c, s) == /\ c.from \in relayed'
                         /\ c.from = s \/ s \in links[c.from]
                         /\ ~faulty' /\ kind # "Hello"
                               => c.ttl + Cardinality(relayed') >= InitialTTL + 1
<1>3. ASSUME NEW s \in Router, NEW j \in 1..Len(queue[s]) PROVE Good(queue[s][j], s)
  <2>1. queue[s][j] \in Copy
    BY DEF FloodInv, TypeOK
  <2>2. queue[s][j].ttl \in 0..255
    <3>1. \A c \in Copy : c.ttl \in 0..255
      BY DEF Copy
    <3>. QED BY <2>1, <3>1
  <2>3. /\ queue[s][j].from \in relayed
        /\ queue[s][j].from = s \/ s \in links[queue[s][j].from]
        /\ ~faulty /\ kind # "Hello"
              => queue[s][j].ttl + Cardinality(relayed) >= InitialTTL + 1
    BY DEF FloodInv, CopyInv
  <2>4. \A t \in 0..255, m, n \in Nat :
            n >= m /\ t + m >= InitialTTL + 1 => t + n >= InitialTTL + 1
    BY <1>7
  <2>5. ~faulty' /\ kind # "Hello"
           => queue[s][j].ttl + Cardinality(relayed') >= InitialTTL + 1
    BY <1>1, <1>2, <2>2, <2>3, <2>4, Zenon
  <2>. QED BY <1>1, <2>3, <2>5
<1>4. ASSUME NEW s \in heard \cup {r} PROVE Good([from |-> r, ttl |-> ttl], s)
  BY <1>1
<1>5. ASSUME NEW s \in Router, NEW i \in 1..Len(queue'[s]) PROVE Good(queue'[s][i], s)
  <2> DEFINE before == IF s = r THEN rest ELSE queue[s]
             copy == [from |-> r, ttl |-> ttl]
  <2>1. queue'[s] = IF s \in heard \cup {r} THEN Append(before, copy) ELSE before
    <3>1. queue'[s] = IF s \in heard \cup {r}
                     THEN Append(IF s = r THEN rest ELSE queue[s], [from |-> r, ttl |-> ttl])
                     ELSE IF s = r THEN rest ELSE queue[s]
      BY <1>0, BroadcastQueue
    <3>. QED BY <3>1
  <2>2. before \in Seq(Copy)
    BY DEF FloodInv, TypeOK
  <2>3. \A k \in 1..Len(before) : \E j \in 1..Len(queue[s]) : before[k] = queue[s][j]
    OBVIOUS
  <2>4. \A k \in 1..Len(before) : Good(before[k], s)
    BY <1>3, <2>3
  <2> HIDE DEF before, Good, copy
  <2>5. CASE s \in heard \cup {r}
    <3>1. Len(queue'[s]) = Len(before) + 1 /\ Len(before) \in Nat
      BY <2>1, <2>2, <2>5
    <3>2. queue'[s][i] = IF i = Len(before) + 1 THEN copy ELSE before[i]
      BY <2>1, <2>2, <2>5, <3>1
    <3>. QED BY <1>4, <2>4, <2>5, <3>1, <3>2 DEF copy
  <2>6. CASE s \notin heard \cup {r}
    BY <2>1, <2>4, <2>6
  <2>. QED BY <2>5, <2>6
<1>. QED BY <1>5 DEF CopyInv

(* The datagrams that stay when the first one is taken were there before. *)
LEMMA TailCopies ==
    ASSUME TypeOK, NEW r \in Router, queue[r] # <<>>
    PROVE  /\ Tail(queue[r]) \in Seq(Copy)
           /\ \A i \in 1..Len(Tail(queue[r])) :
                 i + 1 \in 1..Len(queue[r]) /\ Tail(queue[r])[i] = queue[r][i + 1]
           /\ 1 \in 1..Len(queue[r]) /\ Head(queue[r]) = queue[r][1]
           /\ Head(queue[r]) \in Copy
BY DEF TypeOK

(* A router that takes the first copy of a flooded message may forward it:  *)
(* fewer routers than InitialTTL have transmitted.                          *)
LEMMA TTLSuffices ==
    ASSUME FloodInv, NEW r \in Router, Handle(r), ~faulty, kind # "Hello"
    PROVE  /\ Head(queue[r]).ttl > 1
           /\ Head(queue[r]).ttl \in 0..255
           /\ r \notin relayed
           /\ Head(queue[r]).ttl - 1 + Cardinality(relayed \cup {r}) >= InitialTTL + 1
<1>1. r \notin relayed
  BY DEF Handle, Suppressed, FloodInv, ReachInv, Done
<1>2. TypeOK
  BY DEF FloodInv
<1>3. queue[r] # <<>>
  BY DEF Handle
<1>4. 1 \in 1..Len(queue[r]) /\ Head(queue[r]) = queue[r][1] /\ Head(queue[r]) \in Copy
  BY <1>2, <1>3, TailCopies
<1>5. Head(queue[r]).ttl \in 0..255
  <2>1. \A c \in Copy : c.ttl \in 0..255
    BY DEF Copy
  <2>. QED BY <1>4, <2>1
<1>6. Head(queue[r]).ttl + Cardinality(relayed) >= InitialTTL + 1
  BY <1>4 DEF FloodInv, CopyInv
<1>7. /\ Cardinality(relayed) \in Nat /\ Cardinality(relayed) < Cardinality(Router)
      /\ Cardinality(relayed \cup {r}) = Cardinality(relayed) + 1
  BY <1>1, <1>2, TransmitterCount
<1>8. Cardinality(Router) \in Nat /\ InitialTTL \in Nat /\ InitialTTL >= Cardinality(Router)
  BY FloodingAssumption, FS_CardinalityType
<1>9. \A t \in 0..255, m, n, k \in Nat :
         t + m >= k + 1 /\ m < n /\ k >= n => t > 1 /\ t - 1 + (m + 1) >= k + 1
  OBVIOUS
<1>10. /\ Head(queue[r]).ttl > 1
       /\ Head(queue[r]).ttl - 1 + (Cardinality(relayed) + 1) >= InitialTTL + 1
  BY <1>5, <1>6, <1>7, <1>8, <1>9, Zenon
<1>. QED BY <1>1, <1>5, <1>7, <1>10

(* Every action keeps the origin and the TTL of the copies in bounds. *)
LEMMA NextCopies == ASSUME FloodInv, [Next]_vars PROVE CopyInv'
<1>0. TypeOK
  BY DEF FloodInv
<1>1. ASSUME Send PROVE CopyInv'
  <2>1. PICK heard \in Hearers(originator) :
            BroadcastPacket(originator, IF kind = "Hello" THEN 1 ELSE InitialTTL,
                            heard, queue[originator])
    BY <1>1 DEF Send
  <2>2. /\ originator \in Router /\ queue[originator] \in Seq(Copy)
        /\ heard \in SUBSET links[originator]
        /\ (IF kind = "Hello" THEN 1 ELSE InitialTTL) \in 0..255
    BY FloodingAssumption DEF FloodInv, TypeOK, Hearers
  <2>3. relayed' = {originator} /\ links' = links /\ kind' = kind
    BY <1>1, <2>1 DEF Send, BroadcastPacket, FloodInv, RouterInv
  <2>4. Cardinality(relayed') = 1
    BY <2>3, FS_Singleton
  <2>5. kind # "Hello" => (IF kind = "Hello" THEN 1 ELSE InitialTTL)
                             + Cardinality(relayed') >= InitialTTL + 1
    BY <2>4, FloodingAssumption
  <2>6. \A i \in 1..Len(queue[originator]) :
           \E j \in 1..Len(queue[originator]) : queue[originator][i] = queue[originator][j]
    OBVIOUS
  <2>. QED BY <2>1, <2>2, <2>3, <2>5, <2>6, BroadcastCopies
<1>2. ASSUME NEW r \in Router, queue[r] # <<>>,
             queue' = [queue EXCEPT ![r] = Tail(queue[r])],
             UNCHANGED <<links, kind, relayed, faulty>>
      PROVE  CopyInv'
  <2>1. \A i \in 1..Len(Tail(queue[r])) :
            i + 1 \in 1..Len(queue[r]) /\ Tail(queue[r])[i] = queue[r][i + 1]
    BY <1>0, <1>2, TailCopies
  <2>2. \A s \in Router : queue'[s] = IF s = r THEN Tail(queue[r]) ELSE queue[s]
    BY <1>0, <1>2 DEF TypeOK
  <2>3. \A s \in Router : \A i \in 1..Len(queue'[s]) :
            \E j \in 1..Len(queue[s]) : queue'[s][i] = queue[s][j]
    BY <2>1, <2>2
  <2>4. CopyInv
    BY DEF FloodInv
  <2>. QED BY <1>2, <2>3, <2>4 DEF CopyInv
<1>3. ASSUME NEW r \in Router, Handle(r), ShouldForwardMessage(r, Head(queue[r]))
      PROVE  CopyInv'
  <2>1. PICK heard \in Hearers(r) :
           BroadcastPacket(r, ForwardedTTL(Head(queue[r])), heard, Tail(queue[r]))
    BY <1>3 DEF Handle
  <2>2. /\ Tail(queue[r]) \in Seq(Copy) /\ Head(queue[r]) \in Copy
        /\ \A i \in 1..Len(Tail(queue[r])) :
              \E j \in 1..Len(queue[r]) : Tail(queue[r])[i] = queue[r][j]
    BY <1>0, <1>3, TailCopies DEF Handle
  <2>3. ForwardedTTL(Head(queue[r])) \in 0..255
    BY <1>3, <2>2 DEF ForwardedTTL, Copy, ShouldForwardMessage
  <2>4. relayed' = relayed \cup {r} /\ (faulty => faulty') /\ heard \in SUBSET links[r]
    BY <2>1 DEF BroadcastPacket, Hearers
  <2>5. ~faulty' /\ kind # "Hello"
           => ForwardedTTL(Head(queue[r])) + Cardinality(relayed') >= InitialTTL + 1
    BY <1>3, <2>4, TTLSuffices DEF ForwardedTTL
  <2>6. links' = links /\ kind' = kind
    BY <1>3 DEF Handle
  <2>. QED BY <2>1, <2>2, <2>3, <2>4, <2>5, <2>6, BroadcastCopies
<1>4. ASSUME NEW r \in Router, Process(r) PROVE CopyInv'
  BY <1>2, <1>3, <1>4 DEF Process, Drop, Handle
<1>5. ASSUME NEW r \in Router, Expire(r) PROVE CopyInv'
  BY <1>5 DEF FloodInv, CopyInv, Expire
<1>6. ASSUME NEW r \in Router, Restart(r) PROVE CopyInv'
  <2>1. \A s \in Router : queue'[s] = IF s = r THEN <<>> ELSE queue[s]
    BY <1>0, <1>6 DEF TypeOK, Restart
  <2>. QED BY <1>6, <2>1 DEF FloodInv, CopyInv, Restart
<1>7. ASSUME UNCHANGED vars PROVE CopyInv'
  BY <1>7 DEF FloodInv, CopyInv, vars
<1>. QED BY <1>1, <1>4, <1>5, <1>6, <1>7 DEF Next

(* A complete transmission of r serves everybody near r.  Either an earlier *)
(* transmitter was near v, and v is served on its account; or nobody near v *)
(* has the message yet, and the relay that r chose for v gets it from r     *)
(* first.                                                                   *)
LEMMA TransmissionServes ==
    ASSUME FloodInv, ~faulty', Flooded, NEW r \in Router, NEW ttl, NEW heard,
           NEW rest \in Seq(Copy), BroadcastPacket(r, ttl, heard, rest),
           UNCHANGED <<links, selectors, kind, originator>>,
           Done' = Done \cup {r}, sent \/ r = originator,
           NEW v \in Router, NEW t \in relayed', Near(t, v)
    PROVE  Expected(v)'
<1>0. TypeOK /\ NetworkOK /\ CopyInv
  BY DEF FloodInv
<1>1. heard = links[r] /\ ~faulty /\ relayed' = relayed \cup {r}
  BY DEF BroadcastPacket
<1>2. /\ sent => originator \in relayed
      /\ relayed \subseteq Done
      /\ \A s \in duplicates : \E u \in relayed : s \in links[u]
      /\ \A x \in Router, u \in relayed : Near(u, x) => Expected(x)
  BY <1>1 DEF FloodInv, ReachInv
<1>3. ASSUME NEW s \in Router, s # r
      PROVE  /\ s \in links[r] => queue'[s] # <<>>
             /\ queue[s] # <<>> => queue'[s] # <<>> /\ Head(queue'[s]) = Head(queue[s])
             /\ s \in links[r] /\ queue[s] = <<>> => Head(queue'[s]).from = r
  <2>1. queue'[s] = IF s \in heard \cup {r}
                   THEN Append(IF s = r THEN rest ELSE queue[s], [from |-> r, ttl |-> ttl])
                   ELSE IF s = r THEN rest ELSE queue[s]
    BY <1>0, BroadcastQueue
  <2>2. queue'[s] = IF s \in links[r] THEN Append(queue[s], [from |-> r, ttl |-> ttl])
                                     ELSE queue[s]
    BY <1>1, <1>3, <2>1
  <2>3. \E S : queue[s] \in Seq(S) /\ [from |-> r, ttl |-> ttl] \in S
    <3>1. queue[s] \in Seq(Copy)
      BY <1>0 DEF TypeOK
    <3>2. queue[s] \in Seq(Copy \cup {[from |-> r, ttl |-> ttl]})
      BY <3>1
    <3>. QED BY <3>2
  <2>. QED BY <2>2, <2>3
<1>4. ASSUME NEW u \in relayed, Near(u, v) PROVE Expected(v)'
  <2>1. Expected(v)
    BY <1>2, <1>4
  <2>2. CASE v \in Done
    BY <2>2 DEF Expected
  <2>3. CASE queue[v] # <<>>
    BY <1>3, <2>3 DEF Expected
  <2>4. ASSUME NEW w \in links[v], w \notin Done, queue[w] # <<>>,
               Relays(w, Head(queue[w]).from)
        PROVE  Expected(v)'
    <3>1. w \in Router /\ v \in links[w]
      BY <1>0 DEF TypeOK, NetworkOK
    <3>2. CASE w = r
      BY <1>3, <3>1, <3>2, <1>0 DEF Expected, NetworkOK
    <3>3. CASE w # r
      <4>1. queue'[w] # <<>> /\ Head(queue'[w]) = Head(queue[w])
        BY <1>3, <2>4, <3>1, <3>3
      <4>2. w \in links'[v] /\ w \notin Done'
        BY <2>4, <3>3
      <4>3. Relays(w, Head(queue[w]).from)'
        BY <2>4, <4>1 DEF Relays
      <4>. QED BY <4>1, <4>2, <4>3 DEF Expected
    <3>. QED BY <3>2, <3>3
  <2>. QED BY <2>1, <2>2, <2>3, <2>4 DEF Expected
<1>5. ASSUME t = r, \A u \in relayed : ~Near(u, v) PROVE Expected(v)'
  <2>1. CASE v = r
    BY <2>1 DEF Expected
  <2>2. CASE v \in links[r]
    BY <1>0, <1>3, <2>2 DEF Expected, NetworkOK
  <2>3. CASE v # r /\ v \notin links[r]
    <3>1. links[r] \cap links[v] # {}
      BY <1>5, <2>3 DEF Near
    <3>2. PICK w \in links[r] \cap links[v] : Relays(w, r)
      BY <2>3, <3>1 DEF Flooded, MPRsCover, Relays
    <3>3. w \in Router /\ w # r /\ v \in links[w]
      BY <1>0 DEF TypeOK, NetworkOK
    <3>4. \A u \in relayed : u # w /\ w \notin links[u]
      BY <1>5, <3>2, <3>3 DEF Near
    <3>5. w \notin Done
      BY <1>2, <3>3, <3>4 DEF Done
    <3>6. queue[w] = <<>>
      <4>1. SUFFICES ASSUME queue[w] # <<>> PROVE FALSE
        OBVIOUS
      <4>2. 1 \in 1..Len(queue[w])
        BY <1>0, <3>3, <4>1, TailCopies
      <4>3. /\ queue[w][1].from \in relayed
            /\ queue[w][1].from = w \/ w \in links[queue[w][1].from]
        BY <1>0, <3>3, <4>2 DEF CopyInv
      <4>. QED BY <3>4, <4>3
    <3>7. queue'[w] # <<>> /\ Head(queue'[w]).from = r
      BY <1>3, <3>2, <3>3, <3>6
    <3>8. w \in links'[v] /\ w \notin Done' /\ Relays(w, r)'
      BY <3>2, <3>3, <3>5 DEF Relays
    <3>. QED BY <3>7, <3>8 DEF Expected, Relays
  <2>. QED BY <2>1, <2>2, <2>3
<1>. QED BY <1>1, <1>4, <1>5

(* Every action without a fault keeps ReachInv. *)
LEMMA NextReach == ASSUME FloodInv, [Next]_vars PROVE ReachInv'
<1>. SUFFICES ASSUME ~faulty' PROVE ReachInv'
  BY DEF ReachInv
<1>0. TypeOK /\ NetworkOK /\ RouterInv /\ CopyInv /\ ReachInv
  BY DEF FloodInv
<1>1. ASSUME Send PROVE ReachInv'
  <2>1. PICK heard \in Hearers(originator) :
            BroadcastPacket(originator, IF kind = "Hello" THEN 1 ELSE InitialTTL,
                            heard, queue[originator])
    BY <1>1 DEF Send
  <2>2. /\ UNCHANGED <<links, selectors, kind, originator, duplicates>>
        /\ relayed' = {originator} /\ duplicates = {}
        /\ originator \in Router /\ queue[originator] \in Seq(Copy)
    BY <1>0, <1>1, <2>1 DEF Send, RouterInv, BroadcastPacket, TypeOK
  <2>3. Done' = Done \cup {originator} /\ relayed' \subseteq Done'
    BY <2>2 DEF Done
  <2>4. Flooded => \A v \in Router, t \in relayed' : Near(t, v) => Expected(v)'
    BY <2>1, <2>2, <2>3, TransmissionServes
  <2>5. (Flooded <=> Flooded') /\ \A v, t : Near(t, v) <=> Near(t, v)'
    BY <2>2 DEF Flooded, MPRsCover, Near
  <2>. QED BY <2>2, <2>3, <2>4, <2>5 DEF ReachInv
<1>2. ASSUME NEW r \in Router, Drop(r) PROVE ReachInv'
  <2>1. r \in Done /\ UNCHANGED <<links, selectors, kind, originator, duplicates, relayed, sent, faulty>>
    BY <1>2 DEF Drop, Suppressed, Done
  <2>2. \A s \in Router \ {r} : queue'[s] = queue[s]
    BY <1>0, <1>2 DEF Drop, TypeOK
  <2>3. Done' = Done /\ \A w, u : Relays(w, u) <=> Relays(w, u)'
    BY <2>1 DEF Done, Relays
  <2>4. ASSUME NEW v \in Router, Expected(v) PROVE Expected(v)'
    <3>1. CASE v \in Done \/ queue[v] # <<>>
      BY <2>1, <2>2, <2>3, <3>1 DEF Expected
    <3>2. ASSUME NEW w \in links[v], w \notin Done, queue[w] # <<>>,
                 Relays(w, Head(queue[w]).from)
          PROVE  Expected(v)'
      <4>1. w \in Router \ {r} /\ w \in links'[v]
        BY <1>0, <2>1, <3>2 DEF TypeOK
      <4>2. queue'[w] = queue[w]
        BY <2>2, <4>1
      <4>3. Relays(w, Head(queue[w]).from)'
        BY <2>1, <3>2, <4>2 DEF Relays
      <4>. QED BY <2>3, <3>2, <4>1, <4>2, <4>3 DEF Expected
    <3>. QED BY <2>4, <3>1, <3>2 DEF Expected
  <2>5. (Flooded <=> Flooded') /\ \A v, t : Near(t, v) <=> Near(t, v)'
    BY <2>1 DEF Flooded, MPRsCover, Near
  <2>. QED BY <1>0, <2>1, <2>3, <2>4, <2>5 DEF ReachInv
<1>3. ASSUME NEW r \in Router, Handle(r) PROVE ReachInv'
  <2>1. /\ UNCHANGED <<links, selectors, kind, originator, sent>>
        /\ duplicates' = duplicates \cup {r} /\ Done' = Done \cup {r} /\ r \notin Done
        /\ queue[r] # <<>>
    BY <1>3 DEF Handle, Done, Suppressed
  <2>2. sent /\ ~faulty /\ relayed \subseteq relayed' /\ relayed' \subseteq relayed \cup {r}
    BY <1>0, <1>3, <2>1 DEF Handle, RouterInv, BroadcastPacket
  <2>3. /\ sent => originator \in relayed
        /\ relayed \subseteq Done
        /\ \A s \in duplicates : \E t \in relayed : s \in links[t]
        /\ Flooded => \A v \in Router, t \in relayed : Near(t, v) => Expected(v)
    BY <1>0, <2>2 DEF ReachInv
  <2>4. /\ Tail(queue[r]) \in Seq(Copy)
        /\ 1 \in 1..Len(queue[r]) /\ Head(queue[r]) = queue[r][1]
    BY <1>0, <2>1, TailCopies
  <2>5. Head(queue[r]).from \in relayed /\ r \in links[Head(queue[r]).from]
    BY <1>0, <2>1, <2>3, <2>4 DEF CopyInv
  <2>6. (Flooded <=> Flooded') /\ \A v, t : Near(t, v) <=> Near(t, v)'
    BY <2>1 DEF Flooded, MPRsCover, Near
  <2>7. Flooded => \A v \in Router, t \in relayed' : Near(t, v) => Expected(v)'
    <3>1. CASE ShouldForwardMessage(r, Head(queue[r]))
      <4>1. PICK heard \in Hearers(r) :
               BroadcastPacket(r, ForwardedTTL(Head(queue[r])), heard, Tail(queue[r]))
        BY <1>3, <3>1 DEF Handle
      <4>. QED BY <2>1, <2>2, <2>4, <4>1, TransmissionServes
    <3>2. ASSUME ~ShouldForwardMessage(r, Head(queue[r])), Flooded,
                 NEW v \in Router, NEW t \in relayed', Near(t, v)
          PROVE  Expected(v)'
      <4>1. relayed' = relayed /\ queue' = [queue EXCEPT ![r] = Tail(queue[r])]
        BY <1>3, <3>2 DEF Handle
      <4>2. kind # "Hello" /\ kind # "ConfirmParent"
        BY <3>2 DEF Flooded
      <4>3. Head(queue[r]).ttl > 1
        BY <1>3, <2>2, <4>2, TTLSuffices
      <4>4. ~Relays(r, Head(queue[r]).from)
        BY <3>2, <4>2, <4>3 DEF ShouldForwardMessage, Relays
      <4>5. Expected(v)
        BY <2>3, <3>2, <4>1
      <4>6. \A s \in Router \ {r} : queue'[s] = queue[s]
        BY <1>0, <4>1 DEF TypeOK
      <4>7. CASE v \in Done \/ queue[v] # <<>>
        BY <2>1, <4>6, <4>7 DEF Expected
      <4>8. ASSUME NEW w \in links[v], w \notin Done, queue[w] # <<>>,
                   Relays(w, Head(queue[w]).from)
            PROVE  Expected(v)'
        <5>1. w \in Router \ {r} /\ w \in links'[v] /\ w \notin Done'
          BY <1>0, <2>1, <4>4, <4>8 DEF TypeOK
        <5>2. queue'[w] = queue[w]
          BY <4>6, <5>1
        <5>3. Relays(w, Head(queue[w]).from)'
          BY <2>1, <4>8, <5>2 DEF Relays
        <5>. QED BY <4>8, <5>1, <5>2, <5>3 DEF Expected
      <4>. QED BY <4>5, <4>7, <4>8 DEF Expected
    <3>. QED BY <3>1, <3>2
  <2>8. \A s \in duplicates' : \E t \in relayed' : s \in links'[t]
    BY <2>1, <2>2, <2>3, <2>5
  <2>9. (sent' => originator' \in relayed') /\ relayed' \subseteq Done'
    BY <2>1, <2>2, <2>3
  <2>. QED BY <2>6, <2>7, <2>8, <2>9 DEF ReachInv
<1>4. ASSUME NEW r \in Router, Expire(r) \/ Restart(r) PROVE ReachInv'
  BY <1>4 DEF Expire, Restart
<1>5. ASSUME UNCHANGED vars PROVE ReachInv'
  BY <1>0, <1>5 DEF ReachInv, vars, Done, Flooded, MPRsCover, Near, Expected, Relays
<1>. QED BY <1>1, <1>2, <1>3, <1>4, <1>5 DEF Next, Process

-----------------------------------------------------------------------------
(* All conjuncts together are an invariant of the specification. *)
THEOREM FloodInvariant == Spec => []FloodInv
<1>1. FloodInv /\ [Next]_vars => FloodInv'
  <2>1. SUFFICES ASSUME FloodInv, [Next]_vars PROVE FloodInv'
    OBVIOUS
  <2>2. TypeOK /\ NetworkOK /\ RouterInv
    BY <2>1 DEF FloodInv
  <2>3. TypeOK' /\ NetworkOK' /\ RouterInv'
    BY <2>1, <2>2, NextType, NextRouter
  <2>4. CopyInv' /\ ReachInv'
    BY <2>1, NextCopies, NextReach
  <2>. QED BY <2>3, <2>4 DEF FloodInv
<1>. QED BY <1>1, InitInv, PTL DEF Spec

(* Forwarding decided at the first copy (IsDuplicate, shouldForwardMessage) *)
(* is enough: in every connected part of every finite network whose relays  *)
(* cover the 2-hop neighbours, a flood without faults reaches all routers.  *)
THEOREM FloodCorrect == Spec => []FloodReachesAll
<1>1. FloodInv => FloodReachesAll
  <2>1. SUFFICES ASSUME FloodInv, sent, Quiet, ~faulty, Flooded,
                        NEW r \in Connected \ {originator}
                 PROVE  handled[r] = 1
    BY DEF FloodReachesAll
  <2>2. TypeOK /\ NetworkOK /\ RouterInv /\ ReachInv
    BY <2>1 DEF FloodInv
  <2>3. Done \subseteq Router /\ originator \in Done
    BY <2>2 DEF Done, TypeOK
  <2>4. ClosedUnderLinks(Done)
    <3>1. SUFFICES ASSUME NEW x \in Done, NEW v \in links[x] PROVE v \in Done
      BY DEF ClosedUnderLinks
    <3>2. x \in Router /\ v \in Router /\ x \in links[v]
      BY <2>2, <2>3 DEF TypeOK, NetworkOK
    <3>3. PICK t \in relayed : Near(t, v)
      BY <2>1, <2>2, <3>2 DEF ReachInv, Near, Done
    <3>4. Expected(v)
      BY <2>1, <2>2, <3>2, <3>3 DEF ReachInv
    <3>5. \A s \in Router : queue[s] = <<>>
      BY <2>1 DEF Quiet
    <3>6. links[v] \subseteq Router
      BY <2>2, <3>2 DEF TypeOK
    <3>. QED BY <3>2, <3>4, <3>5, <3>6 DEF Expected
  <2>5. r \in Done
    BY <2>1, <2>3, <2>4 DEF Connected
  <2>. QED BY <2>1, <2>2, <2>5 DEF Done, RouterInv, Connected
<1>. QED BY <1>1, FloodInvariant, PTL

(* The safety part of ImplementsDissemination, faults included: every step  *)
(* of processReceivedData, of an expiry or of a restart is a step of        *)
(* Dissemination, so a router handles a message at most once until it       *)
(* forgets it, and its originator never does.                               *)
THEOREM FloodingRefines == Spec => Abstract!Init /\ [][Abstract!Next]_(Abstract!vars)
<1>1. Init => Abstract!Init
  BY DEF Init, Abstract!Init, Audience
<1>2. FloodInv /\ [Next]_vars => [Abstract!Next]_(Abstract!vars)
  <2>. SUFFICES ASSUME FloodInv, [Next]_vars PROVE [Abstract!Next]_(Abstract!vars)
    OBVIOUS
  <2>0. TypeOK /\ RouterInv
    BY DEF FloodInv
  <2>1. Audience' \in SUBSET (Router \ {originator'})
    BY DEF Audience, Connected
  <2>2. ASSUME UNCHANGED <<links, selectors, originator, kind, sent>>
        PROVE  Audience' = Audience
    BY <2>2 DEF Audience, Connected, ClosedUnderLinks, Flooded, MPRsCover
  <2>3. ASSUME Send PROVE Abstract!Publish
    <3>1. faulty' \in BOOLEAN
      BY <2>3 DEF Send, BroadcastPacket
    <3>. QED BY <2>1, <2>3, <3>1 DEF Send, Abstract!Publish
  <2>4. ASSUME NEW r \in Router, Drop(r) PROVE UNCHANGED Abstract!vars
    BY <2>2, <2>4 DEF Drop, Abstract!vars
  <2>5. ASSUME NEW r \in Router, Handle(r) PROVE Abstract!Deliver(r)
    <3>1. r # originator /\ handled[r] = 0 /\ sent
      BY <2>0, <2>5 DEF Handle, Suppressed, RouterInv
    <3>2. handled' = [handled EXCEPT ![r] = 1]
      BY <2>0, <2>5, <3>1 DEF Handle, TypeOK
    <3>3. faulty' \in {faulty, TRUE}
      BY <2>0, <2>5 DEF Handle, BroadcastPacket, TypeOK
    <3>4. UNCHANGED <<originator, sent, Audience>>
      BY <2>2, <2>5 DEF Handle
    <3>. QED BY <3>1, <3>2, <3>3, <3>4 DEF Abstract!Deliver
  <2>6. ASSUME NEW r \in Router, Expire(r) \/ Restart(r) PROVE Abstract!Forget(r)
    BY <2>1, <2>6 DEF Expire, Restart, Abstract!Forget
  <2>7. ASSUME UNCHANGED vars PROVE UNCHANGED Abstract!vars
    BY <2>2, <2>7 DEF vars, Abstract!vars
  <2>. QED BY <2>3, <2>4, <2>5, <2>6, <2>7 DEF Next, Process, Abstract!Next
<1>. QED BY <1>1, <1>2, FloodInvariant, PTL DEF Spec

-----------------------------------------------------------------------------
(* The 2-hop addresses of r and the neighbours that reach them, as          *)
(* buildTwoHopNeighborsMap of r finds them once its tables agree with the   *)
(* network.                                                                 *)
TwoHopNeighbors(r) ==
    [t \in {u \in Router \ (links[r] \cup {r}) : links[r] \cap links[u] # {}} |->
        links[r] \cap links[t]]

ChosenBy(r) == {m \in links[r] : r \in selectors[m]}

(* Every router has run recalculateMPRs on such tables, with any            *)
(* willingness (other than WILL_NEVER) and degree of its neighbours, and    *)
(* the routers it chose know of it.                                         *)
MPRsAnnounced ==
    \A r \in Router : \E will, deg :
        ChosenBy(r) \in RecalculateMPRs(links[r], TwoHopNeighbors(r), will, deg)

(* The loop of recalculateMPRs ends only when the chosen routers cover. *)
LEMMA AnnouncedMPRsCover == ASSUME TypeOK, NetworkOK, MPRsAnnounced PROVE MPRsCover
<1>. SUFFICES ASSUME NEW r \in Router, NEW t \in Router, t # r, t \notin links[r],
                     links[r] \cap links[t] # {}
              PROVE  \E m \in links[r] \cap links[t] : r \in selectors[m]
  BY DEF MPRsCover
<1>. DEFINE via == TwoHopNeighbors(r)
<1>1. t \in DOMAIN via /\ via[t] = links[r] \cap links[t]
  BY DEF TwoHopNeighbors
<1>2. PICK will, deg : ChosenBy(r) \in RecalculateMPRs(links[r], via, will, deg)
  BY DEF MPRsAnnounced
<1>3. Candidates(links[r], via, ChosenBy(r)) = {}
  <2>. HIDE DEF via
  <2>1. PICK picks \in GreedyRuns(links[r], via, will, deg) :
            ChosenBy(r) = SoleProviders(via) \cup Range(picks)
    BY <1>2 DEF RecalculateMPRs
  <2>. QED BY <2>1 DEF GreedyRuns
<1>4. via[t] \cap ChosenBy(r) # {}
  <2>. HIDE DEF via
  <2>1. ASSUME via[t] \cap ChosenBy(r) = {} PROVE FALSE
    <3>1. PICK n \in via[t] : n \in links[r]
      BY <1>1
    <3>2. n \in Candidates(links[r], via, ChosenBy(r))
      BY <1>1, <2>1, <3>1 DEF Candidates, Uncovered
    <3>. QED BY <1>3, <3>2
  <2>. QED BY <2>1
<1>. QED BY <1>1, <1>4 DEF ChosenBy

(* MPR selection and flooding fit together: where every router's choice of  *)
(* recalculateMPRs is known to the chosen ones, a TC, HNA or MID message    *)
(* that is not lost reaches every connected router, whatever ties the       *)
(* heuristic broke how.                                                     *)
THEOREM SelectedRelaysFlood ==
    Spec => [](/\ sent /\ Quiet /\ ~faulty
               /\ kind \in {"TC", "HNA", "MID"} /\ MPRsAnnounced
               => \A r \in Connected \ {originator} : handled[r] = 1)
<1>1. FloodInv /\ FloodReachesAll =>
          (/\ sent /\ Quiet /\ ~faulty
           /\ kind \in {"TC", "HNA", "MID"} /\ MPRsAnnounced
           => \A r \in Connected \ {originator} : handled[r] = 1)
  BY AnnouncedMPRsCover DEF FloodInv, FloodReachesAll, Flooded
<1>. QED BY <1>1, FloodInvariant, FloodCorrect, PTL
=============================================================================
