------------------------------- MODULE MCNf2 -------------------------------
(***************************************************************************)
(* Translation with two ports to assign and three flows that arrive, so    *)
(* that ports run out.  One flow of peer a already has the port that is    *)
(* assigned first; the flow of peer b is also what a reverse entry can be  *)
(* given as its key.  All flows but the zero one hash to neighbouring      *)
(* buckets, which of them being up to the padding.                         *)
(***************************************************************************)
EXTENDS Nf2

CONSTANTS a, b

MCFlow == [peer: Peer, src_port: Port]
MCNoFlow == [peer |-> b, src_port |-> 0]
MCWireFlow == {[peer |-> a, src_port |-> 7], [peer |-> a, src_port |-> MIN_PORT],
               [peer |-> b, src_port |-> 7]}
MCGarbage == {[key |-> MCNoFlow, key_pad |-> 0, value |-> MCNoFlow],
              [key |-> [peer |-> b, src_port |-> 7], key_pad |-> 1, value |-> MCNoFlow]}
MCHash ==
  [f \in MCFlow |-> [p \in Pad |-> IF f.src_port = 0 THEN 0 ELSE 3 + p]]
=============================================================================
