---------------------------- MODULE Translation ----------------------------
(***************************************************************************)
(* What a port-translating network function promises: every flow it ever   *)
(* translates gets a source port no other flow has, and keeps it.  A flow  *)
(* is known together with two bytes of padding; under other padding it may *)
(* get a further port.  A flow that is spoiled is promised nothing more.   *)
(***************************************************************************)
EXTENDS Integers

CONSTANTS Flow,      \* [peer, src_port] records
          Pad,       \* what the padding can be
          MIN_PORT, MAX_PORT   \* the ports handed out, the last excluded

VARIABLES sent,      \* which flow, under which padding, left as which flow
          spoiled    \* the flows about which nothing is promised

Init == sent = {} /\ spoiled = {}

\* A known flow leaves as it did before, and no flow with another's port.
Translate(flow, pad, out) ==
  /\ flow \notin spoiled
  /\ out.peer = flow.peer
  /\ MIN_PORT =< out.src_port /\ out.src_port < MAX_PORT
  /\ \A r \in sent :
       /\ r.flow = flow /\ r.pad = pad => r.out = out
       /\ r.out.src_port = out.src_port => r.flow = flow
  /\ sent' = sent \cup {[flow |-> flow, pad |-> pad, out |-> out]}
  /\ UNCHANGED spoiled

Spoil(flow) ==
  /\ spoiled' = spoiled \cup {flow}
  /\ sent' = {r \in sent : r.flow # flow}

Next ==
  \/ \E flow, out \in Flow, pad \in Pad : Translate(flow, pad, out)
  \/ \E flow \in Flow : Spoil(flow)

Spec == Init /\ [][Next]_<<sent, spoiled>>
=============================================================================
