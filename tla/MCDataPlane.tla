---------------------------- MODULE MCDataPlane ----------------------------
(***************************************************************************)
(* Two ports, polled by one of the lcores or by one lcore each; any lcore  *)
(* can be the main one, one that polls no port too.                        *)
(***************************************************************************)
EXTENDS DataPlane

CONSTANTS c1, c2, p1, p2

OneLcore == [c \in Lcore |-> IF c = c1 THEN <<p1, p2>> ELSE <<>>]
LcorePerPort == [c \in Lcore |-> IF c = c1 THEN <<p1>> ELSE <<p2>>]

Arrivals == [p \in Portid |-> IF p = p1 THEN 4 ELSE 1]
=============================================================================
