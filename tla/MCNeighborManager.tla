------------------------- MODULE MCNeighborManager -------------------------
(***************************************************************************)
(* Instances of NeighborManager for TLC.                                   *)
(***************************************************************************)
EXTENDS NeighborManager, TLC

CONSTANTS a, b, c

(* Peers that are in range have one address each and a fixed willingness;  *)
(* b is the more willing one, so ties between a and b are decided by it.   *)
MCMain == [s \in {a, b} |-> s]
MCWilling == [o \in Addr |-> IF o = b THEN {6} ELSE {3}]
MCVtime == [o \in Addr |-> {MaxVtime}]

(* The codes of sendHello for a lost and an asymmetric link, and MPR. *)
MCLinkCodes == {<<"Lost", "NotNeigh">>, <<"Asym", "NotNeigh">>, <<"Sym", "MPR">>}
=============================================================================
