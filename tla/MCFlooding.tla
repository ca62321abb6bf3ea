----------------------------- MODULE MCFlooding -----------------------------
(***************************************************************************)
(* A ring of four routers with a fifth one behind it.  The selectors come  *)
(* from recalculateMPRs: every outcome of its ties, announced by all, and  *)
(* the network in which nobody announces them.                             *)
(***************************************************************************)
EXTENDS Flooding, MPRSelection

RouterSet == 1..5

Edges == {{1, 2}, {1, 3}, {2, 4}, {3, 4}, {4, 5}}

RingWithTail == [r \in RouterSet |-> {s \in RouterSet : {r, s} \in Edges}]

TwoHopOf(r) ==
    {t \in RouterSet \ (RingWithTail[r] \cup {r}) : RingWithTail[r] \cap RingWithTail[t] # {}}

MPRsOf == [r \in RouterSet |->
    RecalculateMPRs(RingWithTail[r],
                    [t \in TwoHopOf(r) |-> RingWithTail[r] \cap RingWithTail[t]],
                    [n \in RouterSet |-> 3],
                    [n \in RouterSet |-> Cardinality(RingWithTail[n])])]

SelectorsFrom(mpr) == [r \in RouterSet |-> {s \in RouterSet : r \in mpr[s]}]

MPRChoices ==
    {mpr \in [RouterSet -> UNION {MPRsOf[r] : r \in RouterSet}] :
        \A r \in RouterSet : mpr[r] \in MPRsOf[r]}

NoSelectors == [r \in RouterSet |-> {}]

(* MPR flooding in the ring; one router may be unsteady. *)
RingTC ==
    [links : {RingWithTail}, kind : {"TC"},
     selectors : {SelectorsFrom(mpr) : mpr \in MPRChoices} \cup {NoSelectors},
     unsteady : {{}, {3}, {4}}]

(* Messages that do not depend on the selectors. *)
RingOther ==
    [links : {RingWithTail}, kind : {"Hello", "HNA", "SourceClaim", "ConfirmParent"},
     selectors : {NoSelectors}, unsteady : {{}}]

(* Four routers in a line; the two relays forget what they saw at any time. *)
Line == <<{2}, {1, 3}, {2, 4}, {3}, {}>>

LineHNA ==
    [links : {Line}, kind : {"HNA"}, selectors : {<<{}, {1, 3}, {2, 4}, {}, {}>>},
     unsteady : {{2, 3}}]

AllScenarios == RingTC \cup RingOther \cup LineHNA
=============================================================================
