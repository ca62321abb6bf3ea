----------------------- MODULE TopologyManagerProofs -----------------------
(***************************************************************************)
(* Type correctness, the MID maps, and the two promises of ProcessTC that  *)
(* the SPF engine relies on, for any addresses, any even number of         *)
(* sequence numbers and any network.                                       *)
(***************************************************************************)
EXTENDS TopologyManager, TLAPS

(* What the number space and the timers offer to the counters. *)
LEMMA NumberFacts ==
  /\ 0 \in Seq /\ \A n \in Seq : (n + 1) % SeqMod \in Seq
  /\ Absent \in Timer /\ Expired \in Timer /\ Vtime \in Timer /\ \A t \in Timer : Elapse(t) \in Timer
<1>1. SeqMod \in Nat \ {0} /\ Vtime \in Nat
  BY TopologyAssumption
<1>2. 0 \in Seq /\ \A n \in Seq : (n + 1) % SeqMod \in Seq
  BY <1>1 DEF Seq
<1>3. Absent \in Timer /\ Expired \in Timer /\ Vtime \in Timer
  BY <1>1 DEF Timer, Absent, Expired
<1>4. \A t \in Timer : Elapse(t) \in Timer
  BY <1>1 DEF Timer, Absent, Expired, Elapse
<1> QED
  BY <1>2, <1>3, <1>4

(* Every map of the manager has its type in every reachable state. *)
THEOREM TypeCorrect == Spec => []TypeOK
<1>1. Init => TypeOK
  <2> SUFFICES ASSUME Init PROVE TypeOK
    OBVIOUS
  <2>1. topology \in [Addr -> [Addr -> [seq : Seq, exp : Timer]]]
    BY NumberFacts DEF Init
  <2>2. duplicates \in [Addr -> [Seq -> Timer]] /\ messageSeq \in [Originators -> Seq]
    BY NumberFacts DEF Init
  <2> QED
    BY <2>1, <2>2 DEF Init, TypeOK
<1>2. TypeOK /\ [Next]_vars => TypeOK'
  <2> SUFFICES ASSUME TypeOK, [Next]_vars
               PROVE  TypeOK'
    OBVIOUS
  <2> USE DEF TypeOK
  <2>1. ASSUME NEW m \in air, Process(m)
        PROVE  TypeOK'
    <3>1. m.orig \in Addr /\ m.seq \in Seq
      BY TopologyAssumption DEF Message
    <3>2. topology' \in [Addr -> [Addr -> [seq : Seq, exp : Timer]]] /\ published' \in BOOLEAN
      BY <2>1, <3>1, NumberFacts DEF Process, ProcessTC
    <3>3. duplicates' \in [Addr -> [Seq -> Timer]]
      BY <2>1, <3>1, NumberFacts DEF Process
    <3> QED
      BY <2>1, <3>2, <3>3 DEF Process, mids, network
  <2>2. ASSUME NEW m \in air, Drop(m)
        PROVE  TypeOK'
    BY <2>2 DEF Drop, tables, mids, network
  <2>3. ASSUME NEW o \in Originators, NEW addrs \in SUBSET Advertised, Send(o, addrs)
        PROVE  TypeOK'
    <3>1. messageSeq' \in [Originators -> Seq]
      BY <2>3, NumberFacts DEF Send
    <3>2. air' \subseteq Message
      <4>1. 0 \in 0..(Window - 1) /\ Window \in Nat
        BY TopologyAssumption
      <4>2. ASSUME NEW m \in air, m.age + 1 < Window
            PROVE  Older(m) \in Message
        BY <4>1, <4>2 DEF Older, Message
      <4>3. [orig |-> o, seq |-> messageSeq[o], addrs |-> addrs, age |-> 0] \in Message
        BY <4>1 DEF Message
      <4> QED
        BY <2>3, <4>2, <4>3 DEF Send
    <3> QED
      BY <2>3, <3>1, <3>2 DEF Send, tables, mids
  <2>4. ASSUME NEW o \in Originators, Restart(o)
        PROVE  TypeOK'
    BY <2>4, NumberFacts DEF Restart, tables, mids
  <2>5. CASE AgeOut
    BY <2>5, NumberFacts DEF AgeOut, mids, network
  <2>6. CASE Tick
    BY <2>6, NumberFacts DEF Tick, mids
  <2>7. CASE ReceiveMID
    BY <2>7, TopologyAssumption DEF ReceiveMID, ProcessMID, tables, network
  <2>8. CASE UNCHANGED vars
    BY <2>8 DEF vars, tables, mids, network
  <2> QED
    BY <2>1, <2>2, <2>3, <2>4, <2>5, <2>6, <2>7, <2>8 DEF Next, TCNext, SendSome
<1> QED
  BY <1>1, <1>2, PTL DEF Spec

-----------------------------------------------------------------------------
(* The invariant behind PrimaryIsDeclared, for self-declared addresses too. *)
ReverseMIDIsSound ==
    \A x \in Addr : reverseMidMap[x] # NoAddr => x \in midMap[reverseMidMap[x]]

(* PrimaryIsDeclared holds for every set of addresses and every sequence   *)
(* of declarations, also when routers declare the same address.            *)
THEOREM PrimaryAlwaysDeclared == Spec => []PrimaryIsDeclared
<1>1. Init => ReverseMIDIsSound
  BY DEF Init, ReverseMIDIsSound
<1>2. TypeOK /\ ReverseMIDIsSound /\ [Next]_vars => ReverseMIDIsSound'
  <2> SUFFICES ASSUME TypeOK, ReverseMIDIsSound, [Next]_vars
               PROVE  ReverseMIDIsSound'
    OBVIOUS
  <2>1. ASSUME NEW p \in Declarers, NEW aliases \in SUBSET Aliases,
               ProcessMID(p, aliases)
        PROVE  ReverseMIDIsSound'
    <3>1. ASSUME NEW x \in Addr, reverseMidMap'[x] # NoAddr
          PROVE  x \in midMap'[reverseMidMap'[x]]
      <4>1. CASE x \in aliases
        BY <2>1, <4>1, TopologyAssumption DEF ProcessMID, TypeOK
      <4>2. CASE x \notin aliases
        <5>1. x \notin midMap[p] /\ reverseMidMap'[x] = reverseMidMap[x]
          BY <2>1, <3>1, <4>2 DEF ProcessMID
        <5>2. x \in midMap[reverseMidMap[x]] /\ reverseMidMap[x] # p
          BY <3>1, <5>1 DEF ReverseMIDIsSound
        <5>3. reverseMidMap[x] \in Addr
          BY <3>1, <5>1 DEF TypeOK
        <5> QED
          BY <2>1, <5>1, <5>2, <5>3 DEF ProcessMID, TypeOK
      <4> QED
        BY <4>1, <4>2
    <3> QED
      BY <3>1 DEF ReverseMIDIsSound
  <2>2. CASE UNCHANGED mids
    BY <2>2 DEF mids, ReverseMIDIsSound
  <2>3. TCNext => UNCHANGED mids
    BY DEF TCNext, SendSome, Process, Drop, Send, Restart, AgeOut, Tick
  <2> QED
    BY <2>1, <2>2, <2>3 DEF Next, ReceiveMID, vars
<1>3. ReverseMIDIsSound => PrimaryIsDeclared
  BY DEF ReverseMIDIsSound, PrimaryIsDeclared, GetPrimaryAddress
<1> QED
  BY <1>1, <1>2, <1>3, TypeCorrect, PTL DEF Spec

-----------------------------------------------------------------------------
(* Every step that changes what GetTopology returns publishes an event:    *)
(* neither ProcessTC nor AgeOut can change the set of links silently.      *)
THEOREM ChangesArePublished == Spec => TopologyChangePublished
<1>1. TypeOK /\ [Next]_vars => [GetTopology' # GetTopology => published']_vars
  <2> SUFFICES ASSUME TypeOK, Next, ~published'
               PROVE  GetTopology' = GetTopology
    BY DEF vars
  <2>1. ASSUME NEW m \in air, Process(m)
        PROVE  topology' = topology
    <3>1. Accepted(m) = {}
      BY <2>1 DEF Process, ProcessTC
    <3> QED
      BY <2>1, <3>1 DEF Process, ProcessTC, TypeOK
  <2>2. CASE AgeOut
    <3>1. \A d, l \in Addr : topology[d][l].exp # Expired
      BY <2>2 DEF AgeOut
    <3> QED
      BY <2>2, <3>1 DEF AgeOut, TypeOK, GetTopology
  <2>3. CASE Tick
    <3>1. \A d, l \in Addr : (topology'[d][l].exp = Absent) <=> (topology[d][l].exp = Absent)
      BY <2>3 DEF Tick, Elapse, TypeOK, Timer, Expired, Absent
    <3> QED
      BY <3>1 DEF GetTopology
  <2>4. ASSUME NEW m \in air, Drop(m)
        PROVE  topology' = topology
    BY <2>4 DEF Drop, tables
  <2>5. CASE SendSome \/ (\E o \in Originators : Restart(o)) \/ ReceiveMID
    BY <2>5 DEF SendSome, Send, Restart, ReceiveMID, tables, GetTopology
  <2> QED
    BY <2>1, <2>2, <2>3, <2>4, <2>5 DEF Next, TCNext, GetTopology
<1> QED
  BY <1>1, TypeCorrect, PTL DEF Spec, TopologyChangePublished

-----------------------------------------------------------------------------
(* The remainder of a small negative number. *)
LEMMA ModNegative ==
  ASSUME NEW M \in Nat \ {0}, NEW k \in 1..(M - 1)
  PROVE  (-k) % M = M - k
<1>1. PICK q \in Int, r \in 0..(M - 1) : -k = M * q + r /\ r = (-k) % M
  OBVIOUS
<1>2. q < 0
  <2>1. q >= 0 => M * q >= 0
    OBVIOUS
  <2> QED
    BY <1>1, <2>1
<1>3. q > -2
  <2>1. q <= -2 => M * q <= -2 * M
    OBVIOUS
  <2> QED
    BY <1>1, <2>1
<1>4. q = -1
  BY <1>2, <1>3
<1> QED
  BY <1>1, <1>4

(* The test of ProcessTC accepts every newer number: for numbers less than *)
(* half the space apart it is the serial-number comparison.                *)
LEMMA NewerIsAccepted ==
  ASSUME NEW n \in Seq, NEW t \in [seq : Seq, exp : Timer], Newer(n, t.seq)
  PROVE  AcceptANSN(n, t)
<1>1. /\ SeqMod \in Nat \ {0} /\ SeqMod = 2 * Half /\ Half \in Nat
      /\ n \in 0..(SeqMod - 1) /\ t.seq \in 0..(SeqMod - 1)
  BY TopologyAssumption DEF Half, Seq
<1>2. CASE n < t.seq
  <2> DEFINE k == t.seq - n
  <2>1. k \in 1..(SeqMod - 1) /\ k % SeqMod = k
    BY <1>1, <1>2
  <2>2. (-k) % SeqMod = SeqMod - k
    BY <1>1, <2>1, ModNegative
  <2>3. n - t.seq = -k
    BY <1>1
  <2> QED
    BY <1>1, <2>1, <2>2, <2>3 DEF Newer, AcceptANSN
<1> QED
  BY <1>1, <1>2 DEF AcceptANSN

(* A TC newer than the tuple always renews it, also across the wrap of the *)
(* number, for any even number of sequence numbers, 2^16 included.         *)
THEOREM NewerAlwaysAccepted == Spec => NewerTCAccepted
<1>1. TypeOK => [\A m \in air : Process(m) =>
                    \A d \in m.addrs : Newer(m.seq, topology[d][m.orig].seq) =>
                        topology'[d][m.orig] = [seq |-> m.seq, exp |-> Vtime]]_vars
  <2> SUFFICES ASSUME TypeOK, NEW m \in air, Process(m), NEW d \in m.addrs,
                      Newer(m.seq, topology[d][m.orig].seq)
               PROVE  topology'[d][m.orig] = [seq |-> m.seq, exp |-> Vtime]
    OBVIOUS
  <2>1. m.orig \in Addr /\ m.seq \in Seq /\ d \in Addr
    BY TopologyAssumption DEF TypeOK, Message
  <2>2. AcceptANSN(m.seq, topology[d][m.orig])
    BY <2>1, NewerIsAccepted DEF TypeOK
  <2> QED
    BY <2>1, <2>2 DEF Process, ProcessTC, Accepted
<1> QED
  BY <1>1, TypeCorrect, PTL DEF Spec, NewerTCAccepted
=============================================================================
