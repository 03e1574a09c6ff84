-------------------------------- MODULE Nf2 --------------------------------
(***************************************************************************)
(* Network function 2 (nf2.c): port translation.  process_frames is called *)
(* on each lcore for one batch of frames at a time; all lcores run the     *)
(* same copy of nf2.so and share its flow table and next_port_, with no    *)
(* lock.  A lookup, an insertion, and each access to next_port_ is a step, *)
(* so the lcores interleave between them.                                  *)
(*                                                                         *)
(* The translation changes the source port only, so a flow is a port and   *)
(* a Peer that stands for the other four fields.  The port is the value of *)
(* the struct's field as the code stores it, in host order.                *)
(***************************************************************************)
EXTENDS HashMap, FiniteSets

CONSTANTS
  Lcore,       \* the lcores with an RX port
  Peer,        \* source and destination address, destination port, proto
  Port,        \* values of the source port
  MIN_PORT, MAX_PORT,
  BATCH_SIZE,
  WireFlow,    \* the flows of the frames that arrive
  Garbage,     \* key, its padding and value of the second insertion: the two
               \* reverse flows are initialised from themselves
  NotUdp       \* a frame without an IPv4 or without a UDP header

ASSUME Nf2Assumption ==
  /\ Flow = [peer: Peer, src_port: Port]
  /\ MIN_PORT \in Nat /\ MAX_PORT \in Nat /\ MIN_PORT =< MAX_PORT /\ MAX_PORT < 2^16
  /\ MIN_PORT .. MAX_PORT - 1 \subseteq Port
  /\ BATCH_SIZE \in Nat \ {0}
  /\ WireFlow \subseteq Flow
  /\ Garbage \subseteq [key: Flow, key_pad: Pad, value: Flow]
  /\ 2 * (MAX_PORT - MIN_PORT) < Capacity
  /\ NotUdp \notin Flow

VARIABLES
  next_port_,
  pc,         \* where process_frames is on each lcore; "idle" between calls
  rx,         \* the frames of its call as they came
  packets,    \* the same frames as they are now
  i,          \* the frame it is at
  stack,      \* what its stack frame leaves uninitialised, for the whole call
  assigned,   \* assigned_port
  sent,       \* history: the translations made, [flow, pad, out] records
  reversed,   \* history: the keys of the second insertions
  granted     \* history: how often each port was assigned

locals == <<pc, rx, packets, i, stack, assigned>>
vars == <<pairs, next_port_, locals, sent, reversed, granted>>

\* The frames of a call: at least one, and at most a batch.
Frames(S) == UNION {[1 .. n -> S \cup {NotUdp}] : n \in 0 .. BATCH_SIZE}
Batch == Frames(WireFlow) \ {<<>>}

\* The padding of flow, and what the second insertion stores.  Nothing the
\* call does writes these bytes.
Stack == [pad: Pad, reverse: Garbage]

Init ==
  /\ HashMapInit
  /\ next_port_ = MIN_PORT
  /\ pc = [c \in Lcore |-> "idle"]
  /\ rx = [c \in Lcore |-> <<>>]
  /\ packets = [c \in Lcore |-> <<>>]
  /\ i = [c \in Lcore |-> 0]
  /\ stack \in [Lcore -> Stack]
  /\ assigned = [c \in Lcore |-> MIN_PORT]
  /\ sent = {}
  /\ reversed = {}
  /\ granted = [p \in Port |-> 0]

\* The flow of the frame at hand, and the flow it is given when it is new.
flow(c) == packets[c][i[c]]

\* Mutant: next_port_ is read again after it was advanced.
outgoing_flow_next(c) == [flow(c) EXCEPT !.src_port = next_port_]
outgoing_flow(c) == [flow(c) EXCEPT !.src_port = assigned[c]]

\* run_nfs hands lcore c's next batch to process_frames.
Call(c) ==
  /\ pc[c] = "idle"
  /\ \E batch \in Batch, s \in Stack :
       /\ rx' = [rx EXCEPT ![c] = batch]
       /\ packets' = [packets EXCEPT ![c] = batch]
       /\ stack' = [stack EXCEPT ![c] = s]
  /\ i' = [i EXCEPT ![c] = 1]
  /\ pc' = [pc EXCEPT ![c] = "lookup"]
  /\ UNCHANGED <<pairs, next_port_, assigned, sent, reversed, granted>>

\* The end of an iteration: the next frame, or the return.
Advance(c) ==
  IF i[c] + 1 \in DOMAIN packets[c]
    THEN i' = [i EXCEPT ![c] = @ + 1] /\ pc' = [pc EXCEPT ![c] = "lookup"]
    ELSE pc' = [pc EXCEPT ![c] = "idle"] /\ UNCHANGED i

\* ipv4_stamp_flow writes out over the frame's addresses and ports.
ipv4_stamp_flow(c, out) ==
  /\ packets' = [packets EXCEPT ![c][i[c]] = out]
  /\ sent' = sent \cup {[flow |-> flow(c), pad |-> stack[c].pad, out |-> out]}

\* Mutant: a frame without the headers only ends its iteration.
SkipFrame(c) ==
  /\ pc[c] = "lookup" /\ flow(c) = NotUdp
  /\ Advance(c)
  /\ UNCHANGED <<pairs, next_port_, rx, packets, stack, assigned, sent, reversed, granted>>

\* A frame without the headers ends the whole call, not its iteration.
ReturnEarly(c) ==
  /\ pc[c] = "lookup" /\ flow(c) = NotUdp
  /\ pc' = [pc EXCEPT ![c] = "idle"]
  /\ UNCHANGED <<pairs, next_port_, rx, packets, i, stack, assigned, sent, reversed, granted>>

\* The flow is already translated: its pair's value is stamped.
Hit(c) ==
  /\ pc[c] = "lookup" /\ flow(c) # NotUdp
  /\ \E s \in maglev_hashmap_get(flow(c), stack[c].pad) :
       ipv4_stamp_flow(c, pairs[s].value)
  /\ Advance(c)
  /\ UNCHANGED <<pairs, next_port_, rx, stack, assigned, reversed, granted>>

Miss(c) ==
  /\ pc[c] = "lookup" /\ flow(c) # NotUdp
  /\ maglev_hashmap_get(flow(c), stack[c].pad) = {}
  /\ pc' = [pc EXCEPT ![c] = "load"]
  /\ UNCHANGED <<pairs, next_port_, rx, packets, i, stack, assigned, sent, reversed, granted>>

\* Ports have run out: the frame goes on as it came.
Exhausted(c) ==
  /\ pc[c] = "load" /\ next_port_ >= MAX_PORT
  /\ Advance(c)
  /\ UNCHANGED <<pairs, next_port_, rx, packets, stack, assigned, sent, reversed, granted>>

\* Mutant: the last port is compared with =<.
LoadPortInclusive(c) ==
  /\ pc[c] = "load" /\ next_port_ =< MAX_PORT
  /\ assigned' = [assigned EXCEPT ![c] = next_port_]
  /\ granted' = [granted EXCEPT ![next_port_] = @ + 1]
  /\ pc' = [pc EXCEPT ![c] = "store"]
  /\ UNCHANGED <<pairs, next_port_, rx, packets, i, stack, sent, reversed>>

\* assigned_port = next_port_ ...  The comparison before it and this read are
\* one step, as they are one load in the code gcc -O3 makes of them.
LoadPort(c) ==
  /\ pc[c] = "load" /\ next_port_ < MAX_PORT
  /\ assigned' = [assigned EXCEPT ![c] = next_port_]
  /\ granted' = [granted EXCEPT ![next_port_] = @ + 1]
  /\ pc' = [pc EXCEPT ![c] = "store"]
  /\ UNCHANGED <<pairs, next_port_, rx, packets, i, stack, sent, reversed>>

\* Mutant: after the last port comes the first.
StorePortRound(c) ==
  /\ pc[c] = "store"
  /\ next_port_' = IF assigned[c] + 1 = MAX_PORT THEN MIN_PORT ELSE assigned[c] + 1
  /\ pc' = [pc EXCEPT ![c] = "insert"]
  /\ UNCHANGED <<pairs, rx, packets, i, stack, assigned, sent, reversed, granted>>

\* Mutant: next_port_ is not advanced.
StorePortLost(c) ==
  /\ pc[c] = "store"
  /\ pc' = [pc EXCEPT ![c] = "insert"]
  /\ UNCHANGED <<pairs, next_port_, rx, packets, i, stack, assigned, sent, reversed, granted>>

\* ... and next_port_++, on the value loaded, in sixteen bits.
StorePort(c) ==
  /\ pc[c] = "store"
  /\ next_port_' = (assigned[c] + 1) % 2^16
  /\ pc' = [pc EXCEPT ![c] = "insert"]
  /\ UNCHANGED <<pairs, rx, packets, i, stack, assigned, sent, reversed, granted>>

\* Mutant: key and value change places.
InsertForwardSwapped(c) ==
  /\ pc[c] = "insert"
  /\ maglev_hashmap_insert(outgoing_flow(c), flow(c), stack[c].pad)
  /\ pc' = [pc EXCEPT ![c] = "reverse"]
  /\ UNCHANGED <<next_port_, rx, packets, i, stack, assigned, sent, reversed, granted>>

\* flow -> outgoing_flow
InsertForward(c) ==
  /\ pc[c] = "insert"
  /\ maglev_hashmap_insert(flow(c), outgoing_flow(c), stack[c].pad)
  /\ pc' = [pc EXCEPT ![c] = "reverse"]
  /\ UNCHANGED <<next_port_, rx, packets, i, stack, assigned, sent, reversed, granted>>

\* outgoing_flow_r -> flow_r, both read before anything was written to them
InsertReverse(c) ==
  /\ pc[c] = "reverse"
  /\ LET r == stack[c].reverse IN maglev_hashmap_insert(r.key, r.value, r.key_pad)
  /\ reversed' = reversed \cup {stack[c].reverse.key}
  /\ pc' = [pc EXCEPT ![c] = "stamp"]
  /\ UNCHANGED <<next_port_, rx, packets, i, stack, assigned, sent, granted>>

StampNew(c) ==
  /\ pc[c] = "stamp"
  /\ ipv4_stamp_flow(c, outgoing_flow(c))
  /\ Advance(c)
  /\ UNCHANGED <<pairs, next_port_, rx, stack, assigned, reversed, granted>>

Next ==
  \E c \in Lcore :
    \/ Call(c) \/ ReturnEarly(c) \/ Hit(c) \/ Miss(c) \/ Exhausted(c)
    \/ LoadPort(c) \/ StorePort(c) \/ InsertForward(c) \/ InsertReverse(c)
    \/ StampNew(c)

Spec == Init /\ [][Next]_vars

-----------------------------------------------------------------------------
\* The types of the table, of next_port_, which stays within its range, of
\* each lcore's locals and of the history.
TypeOK ==
  /\ HashMapTypeOK
  /\ next_port_ \in MIN_PORT .. MAX_PORT
  /\ pc \in [Lcore -> {"idle", "lookup", "load", "store", "insert", "reverse", "stamp"}]
  /\ rx \in [Lcore -> Frames(WireFlow)]
  /\ packets \in [Lcore -> Frames(Flow)]
  /\ i \in [Lcore -> 0 .. BATCH_SIZE]
  /\ stack \in [Lcore -> Stack]
  /\ assigned \in [Lcore -> MIN_PORT .. MAX_PORT]
  /\ sent \subseteq [flow: Flow, pad: Pad, out: Flow]
  /\ reversed \subseteq Flow
  /\ granted \in [Port -> Nat]

\* "Allocate a new port": no port is assigned a second time, for another
\* flow or after next_port_ came to its end.
PortsGrantedOnce == \A p \in Port : granted[p] =< 1

\* "Check if the flow is already NATed": the frames of one flow all leave as
\* the same flow.  The code does not keep this.
OneTranslation ==
  \A q, r \in sent : q.flow = r.flow /\ q.flow \notin reversed => q.out = r.out

\* What it keeps: the frames of one flow leave as the same flow as long as
\* the struct the flow is read into has the same padding, and no second
\* insertion happened to hit on the flow.
FlowAffinity ==
  \A q, r \in sent :
    q.flow = r.flow /\ q.pad = r.pad /\ q.flow \notin reversed => q.out = r.out

\* Each assigned port fills two buckets at most, so the table never gets to
\* where an insertion is lost.
Occupied == {s \in Slots : pairs[s].vaild}
TableHasRoom == Cardinality(Occupied) =< 2 * (next_port_ - MIN_PORT)

\* o is what f may be translated to.
Translates(f, o) == o.peer = f.peer /\ o.src_port \in MIN_PORT .. MAX_PORT - 1

\* When a call returns, each of its frames up to the first one without the
\* headers left translated, to a port of the range and with the rest of its
\* flow as it was, or as it came because all ports are assigned; the frames
\* after that one are as they came.  A frame whose flow became the key of a
\* second insertion is given whatever value that stored.
BatchTranslated ==
  \A c \in Lcore : pc[c] = "idle" =>
    \A n \in DOMAIN rx[c] :
      \/ /\ \A m \in 1 .. n : rx[c][m] # NotUdp
         /\ Translates(rx[c][n], packets[c][n]) \/ rx[c][n] \in reversed
      \/ /\ packets[c][n] = rx[c][n]
         /\ \/ next_port_ = MAX_PORT
            \/ \E m \in 1 .. n : rx[c][m] = NotUdp

\* Network function 2 is a translation of the flows that no second insertion
\* hits on: they keep their ports, and no two of them leave with one port.
Live == {r \in sent : r.flow \notin reversed}
Abstract == INSTANCE Translation WITH sent <- Live, spoiled <- reversed
RefinesTranslation == Abstract!Spec
=============================================================================
