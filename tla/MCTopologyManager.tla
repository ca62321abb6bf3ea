------------------------- MODULE MCTopologyManager -------------------------
(***************************************************************************)
(* A behaviour has either TCs or MIDs.  The steps of the one and of the    *)
(* other change disjoint tables and read nothing of each other's, so what  *)
(* holds of the topology set in the behaviours of the first kind, and of   *)
(* the MID maps in those of the second, holds in every interleaving.       *)
(***************************************************************************)
EXTENDS TopologyManager

VARIABLE declaring   \* this behaviour has MIDs

MCInit == Init /\ declaring \in BOOLEAN

MCNext ==
    /\ \/ declaring /\ (ReceiveMID \/ AgeOut \/ Tick)
       \/ ~declaring /\ TCNext
    /\ UNCHANGED declaring

MCSpec ==
    /\ MCInit /\ [][MCNext]_<<vars, declaring>>
    /\ WF_vars(AgeOut) /\ WF_vars(Tick)
=============================================================================
