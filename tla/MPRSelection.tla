---------------------------- MODULE MPRSelection ----------------------------
(***************************************************************************)
(* The multipoint-relay heuristic of internal/olsr/neighbor.go             *)
(* (recalculateMPRs, selectGreedyMPR; RFC 3626 section 8.3) as operators.  *)
(*                                                                         *)
(* The arguments of every operator are                                     *)
(*   one   symmetric1Hop: the eligible 1-hop neighbours                    *)
(*   via   twoHopNeighbors: 2-hop address -> the 1-hop neighbours          *)
(*         through which it is reached                                     *)
(*   will  1-hop neighbour -> willingness                                  *)
(*   deg   1-hop neighbour -> len(twoHopLinks[neighbour])                  *)
(*                                                                         *)
(* Go iterates its maps in an unspecified order, so a tie is broken by     *)
(* chance and a run of the heuristic has a SET of possible results.        *)
(* Nothing here is RECURSIVE: a run of the loop is the sequence of the     *)
(* neighbours that it picks.                                               *)
(***************************************************************************)
EXTENDS Naturals, FiniteSets, Functions

(* The neighbours that are the only way to some 2-hop address. *)
SoleProviders(via) ==
    UNION {via[t] : t \in {u \in DOMAIN via : Cardinality(via[u]) = 1}}

(* The 2-hop addresses that no relay chosen so far reaches. *)
Uncovered(via, mpr) == {t \in DOMAIN via : via[t] \cap mpr = {}}

CoverCount(via, mpr, n) ==
    Cardinality({t \in Uncovered(via, mpr) : n \in via[t]})

(* The neighbours selectGreedyMPR does not skip: coverCount # 0. *)
Candidates(one, via, mpr) ==
    {n \in one : \E t \in Uncovered(via, mpr) : n \in via[t]}

(* The comparison of the loop of selectGreedyMPR: cover count, then        *)
(* willingness, then degree.                                               *)
Better(via, mpr, will, deg, m, n) ==
    \/ CoverCount(via, mpr, m) > CoverCount(via, mpr, n)
    \/ /\ CoverCount(via, mpr, m) = CoverCount(via, mpr, n)
       /\ \/ will[m] > will[n]
          \/ will[m] = will[n] /\ deg[m] > deg[n]

(* What selectGreedyMPR may return; empty when it returns "". *)
SelectGreedyMPR(one, via, mpr, will, deg) ==
    {n \in Candidates(one, via, mpr) :
        ~ \E m \in Candidates(one, via, mpr) : Better(via, mpr, will, deg, m, n)}

(* The relays chosen when the loop is about to make its i-th pick. *)
ChosenBefore(via, picks, i) ==
    SoleProviders(via) \cup {picks[j] : j \in 1..(i - 1)}

(* The sequences of picks of the complete runs of the loop: it leaves when *)
(* nothing is uncovered or when no neighbour covers what is.  A pick       *)
(* covers something new, so no neighbour is picked twice.                  *)
GreedyRuns(one, via, will, deg) ==
    {picks \in UNION {[1..k -> one] : k \in 0..Cardinality(one)} :
        /\ \A i \in DOMAIN picks :
              picks[i] \in SelectGreedyMPR(one, via, ChosenBefore(via, picks, i), will, deg)
        /\ Candidates(one, via, SoleProviders(via) \cup Range(picks)) = {}}

(* The sets recalculateMPRs may store in mprSet. *)
RecalculateMPRs(one, via, will, deg) ==
    {SoleProviders(via) \cup Range(picks) : picks \in GreedyRuns(one, via, will, deg)}
=============================================================================
