------------------------- MODULE MCNetworkFunctions -------------------------
(***************************************************************************)
(* Two ports to grant, 100 and 101.  If ba101 is granted 100 and then ab   *)
(* is granted 101, the replies to ab are ba101; ba100 are the replies to   *)
(* ab if it is granted 100.                                                *)
(***************************************************************************)
EXTENDS NetworkFunctions

CONSTANTS a, b

FlowOf(src, sport, dst, dport, proto) ==
  [src_ip |-> src, dst_ip |-> dst, src_port |-> sport, dst_port |-> dport, proto |-> proto]

Of(ipv4, f) == [ipv4 |-> ipv4, flow |-> f, ttl |-> 1, mac |-> TRUE]

ab == FlowOf(a, 7, b, 9, "udp")
ba100 == FlowOf(b, 9, a, 100, "udp")
ba101 == FlowOf(b, 9, a, 101, "udp")
zb == FlowOf(Zero, 7, b, 9, "udp")
tcp == FlowOf(a, 7, b, 9, "tcp")

Wire == {Of(TRUE, ab), Of(TRUE, ba100), Of(TRUE, ba101), Of(TRUE, zb),
         Of(TRUE, tcp), Of(FALSE, tcp), Of(FALSE, ab)}

AllFour == {<<1, 2, 3, 4>>, <<2, 5, 1>>}
=============================================================================
