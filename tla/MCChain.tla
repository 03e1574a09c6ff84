------------------------------ MODULE MCChain ------------------------------
(***************************************************************************)
(* Two flows, and three frames: one with a time to live at its end, an     *)
(* IPv4 frame and one that is not, both without a UDP header.  The cache   *)
(* has room for two of the four keys there are with the padding.           *)
(***************************************************************************)
EXTENDS Chain, TLC

CONSTANTS f, g

MCFrame(kind, flow, ttl) ==
  [kind |-> kind, flow |-> flow, time_to_live |-> ttl, mac |-> TRUE]
MCWireFrame == {MCFrame("udp", f, 0), MCFrame("ipv4", g, 1), MCFrame("other", f, 64)}

MCSymmetry == Permutations(Lcore)

\* The entry points of the functions whose memory is not looked at are never
\* read, so that states which differ in them alone are one.
MCView == <<CURRENT_DOM, entry[3], copies, elf_a, pc, nf, calls, frames, locals, cache,
            history>>
=============================================================================
