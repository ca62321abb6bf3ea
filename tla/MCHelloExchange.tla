-------------------------- MODULE MCHelloExchange --------------------------
(***************************************************************************)
(* Three routers in a line; the way from a to b may break and come back.   *)
(***************************************************************************)
EXTENDS HelloExchange

CONSTANTS a, b, c

LineRange == {<<a, b>>, <<b, a>>, <<b, c>>, <<c, b>>}

Line == {LineRange}
BreakingLine == {LineRange, LineRange \ {<<a, b>>}}
=============================================================================
