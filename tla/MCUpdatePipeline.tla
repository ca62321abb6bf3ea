-------------------------- MODULE MCUpdatePipeline --------------------------
(***************************************************************************)
(* The daemon's managers and the reads of a run: GetNeighbors,             *)
(* GetTwoHopNeighbors, GetTopology and, after Dijkstra, GetHNAEntries of   *)
(* CalculateRoutes; then RecalculateMroutes, under molsrMgr's mutex.  The  *)
(* UDP receiver and the aging ticker change all tables, REST handlers the  *)
(* local HNA entries and the multicast tables.                             *)
(***************************************************************************)
EXTENDS UpdatePipeline

MCEventOf == [m \in Managers |-> IF m = "neighMgr" THEN "NeighborUpdate" ELSE "TopologyUpdate"]
MCHandles == [u \in Updaters |-> IF u = "api" THEN {"hnaMgr", "molsrMgr"} ELSE Managers]
MCReadFrom == <<"neighMgr", "neighMgr", "topoMgr", "hnaMgr", "molsrMgr">>
=============================================================================
