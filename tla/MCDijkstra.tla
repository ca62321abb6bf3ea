----------------------------- MODULE MCDijkstra -----------------------------
EXTENDS Dijkstra

(* Any link between two different routers, in either direction. *)
MCLinks == {p \in Node \X Node : p[1] # p[2]}
=============================================================================
