---------------------------- MODULE MCStatistics ----------------------------
(***************************************************************************)
(* The main lcore polls two ports, in an order that is not the one they    *)
(* are printed in, another lcore one, and a third has nothing to do.       *)
(***************************************************************************)
EXTENDS Statistics

CONSTANTS c0, c1, c2

Lists == [c \in Lcore |-> CASE c = c0 -> <<2, 0>> [] c = c1 -> <<1>> [] OTHER -> <<>>]
Arrivals == [p \in Portid |-> IF p = 1 THEN 2 ELSE 1]
=============================================================================
