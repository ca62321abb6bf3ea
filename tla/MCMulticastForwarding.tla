----------------------- MODULE MCMulticastForwarding -----------------------
(***************************************************************************)
(* One source and one or two children behind four neighbours on three      *)
(* interfaces, two neighbours sharing one: the next hop to the source can  *)
(* change with or without a change of interface, can have no MAC address,  *)
(* and can be lost; the child may be behind the incoming interface.        *)
(***************************************************************************)
EXTENDS MulticastForwarding

CONSTANTS s, c, d, m, n, p, q

MCIface == [x \in {m, n, p, q} |-> IF x = p THEN "wlan1" ELSE IF x = q THEN "wlan2" ELSE "wlan0"]

Table(toS, toC) ==
    [x \in Source \cup Child |-> IF x = s THEN toS ELSE IF x = c THEN toC ELSE q]

MCHopTables == {Table(m, p), Table(n, m), Table(p, n), NoRoutes}

ParentTables == {Table(m, p), Table(n, p)}
=============================================================================
