-------------------------- MODULE NetworkFunctions --------------------------
(***************************************************************************)
(* The network functions as a list of objects: rust-nfv, and the C++ files *)
(* of libnfv it was written next to.  init_nfs adds the functions that are *)
(* asked for to one list NFS, each with tables of its own, and run_nfs     *)
(* takes a batch through the list, function by function and, in each,      *)
(* frame by frame.                                                         *)
(*                                                                         *)
(* Both are called by every lcore.  NFS and PACKETS are static mut, and    *)
(* what calls that overlap do is undefined: here they come one at a time.  *)
(*                                                                         *)
(* A hash map is the map it implements.  A port is the number its field    *)
(* holds, which in C++ is in the order of the bytes of the frame.  Frames  *)
(* too short for their own lengths, on which the Rust slices panic, do not *)
(* arrive.                                                                 *)
(***************************************************************************)
EXTENDS Integers, Sequences, FiniteSets

CONSTANTS
  Addr, Port, Zero,    \* the addresses, of which one is 0, and the ports
  MIN_PORT, MAX_PORT,
  Lists,               \* what the flag network_functions may be
  WireFrame,           \* the frames that arrive
  BATCH_SIZE,
  MaxInits, MaxCalls   \* bounds: calls of init_nfs and of run_nfs

Proto == {"udp", "tcp"}
Flow == [src_ip: Addr, dst_ip: Addr, src_port: Port, dst_port: Port, proto: Proto]

\* ipv4: the Ethernet type and the version say so.  mac: the addresses are as
\* they came.
Frame == [ipv4: BOOLEAN, flow: Flow, ttl: 0 .. 255, mac: BOOLEAN]

ASSUME NetworkFunctionsAssumption ==
  /\ Zero \in Addr
  /\ MIN_PORT \in Nat /\ MAX_PORT \in Nat /\ MIN_PORT =< MAX_PORT
  /\ MIN_PORT .. MAX_PORT - 1 \subseteq Port
  /\ Lists \subseteq Seq(Nat)
  /\ WireFrame \subseteq Frame
  /\ BATCH_SIZE \in Nat \ {0} /\ MaxInits \in Nat /\ MaxCalls \in Nat

VARIABLES
  impl, network_functions,   \* which of the two it is, and the flag
  NFS,
  pc,              \* whether init_nfs or run_nfs runs
  nfs,             \* init_nfs: what is left of the list
  nf, pkt,         \* run_nfs: the function, and the place of the frame in it
  rx, frames,      \* the batch as it came, and as it is
  PACKETS,         \* the places of the frames the functions are given
  inits, calls     \* how often init_nfs and run_nfs were called

run_state == <<nf, pkt, rx, frames, PACKETS>>
vars == <<impl, network_functions, NFS, pc, nfs, run_state, inits, calls>>

\* A function as new() makes it.  Each has the tables of its kind only.
New(kind) ==
  [kind |-> kind, next_port |-> MIN_PORT, flow_vec |-> <<>>, port_hash |-> <<>>,
   cache |-> {}]

Init ==
  /\ impl \in {"rust", "cpp"} /\ network_functions \in Lists
  /\ NFS = <<>>
  /\ pc = "idle" /\ nfs = <<>> /\ nf = 1 /\ pkt = 1
  /\ rx = <<>> /\ frames = <<>> /\ PACKETS = {}
  /\ inits = 0 /\ calls = 0

-----------------------------------------------------------------------------
Known(kind) == kind \in 1 .. 4

\* Another lcore initialises.
InitNfs ==
  /\ pc = "idle" /\ inits < MaxInits
  /\ inits' = inits + 1
  /\ pc' = "init" /\ nfs' = network_functions
  /\ UNCHANGED <<impl, network_functions, NFS, run_state, calls>>

\* A function is put behind those there are.  A number that is no function is
\* passed over in C++; in Rust it ends the process.
PushNf ==
  /\ pc = "init" /\ nfs # <<>>
  /\ nfs' = Tail(nfs)
  /\ IF Known(Head(nfs)) THEN NFS' = Append(NFS, New(Head(nfs))) /\ UNCHANGED pc
     ELSE UNCHANGED NFS /\ pc' = IF impl = "rust" THEN "panic" ELSE pc
  /\ UNCHANGED <<impl, network_functions, run_state, inits, calls>>

InitDone ==
  /\ pc = "init" /\ nfs = <<>>
  /\ pc' = "idle"
  /\ UNCHANGED <<impl, network_functions, NFS, nfs, run_state, inits, calls>>

Batch == UNION {[1 .. n -> WireFrame] : n \in 1 .. BATCH_SIZE}

\* Packet::new takes a frame if its version is 4 or its protocol is UDP.
\* The C++ functions get all frames.
Packet(p) == impl = "cpp" \/ p.ipv4 \/ p.flow.proto = "udp"

First(n, places) == n \in places /\ \A m \in places : n =< m

RunNfs ==
  /\ pc = "idle" /\ inits > 0 /\ calls < MaxCalls
  /\ calls' = calls + 1
  /\ \E batch \in Batch :
       /\ rx' = batch /\ frames' = batch
       /\ PACKETS' = {n \in DOMAIN batch : Packet(batch[n])}
  /\ IF PACKETS' = {} \/ NFS = <<>> THEN nf' = Len(NFS) + 1 /\ UNCHANGED <<pc, pkt>>
     ELSE nf' = 1 /\ pc' = "run" /\ \E n \in PACKETS' : First(n, PACKETS') /\ pkt' = n
  /\ UNCHANGED <<impl, network_functions, NFS, nfs, inits>>

-----------------------------------------------------------------------------
this == NFS[nf]
frame == frames[pkt]
flow == frame.flow

NextFunction ==
  /\ nf' = nf + 1
  /\ \E n \in PACKETS : First(n, PACKETS) /\ pkt' = n
  /\ pc' = IF nf = Len(NFS) THEN "idle" ELSE pc

\* The frames the function has yet to come to.
Later == {n \in PACKETS : n > pkt}

\* The function is through with the frame: what they are afterwards.
Processed(object, packet) ==
  /\ NFS' = [NFS EXCEPT ![nf] = object]
  /\ frames' = [frames EXCEPT ![pkt] = packet]
  /\ IF Later # {} THEN (\E n \in Later : First(n, Later) /\ pkt' = n) /\ UNCHANGED <<pc, nf>>
                   ELSE NextFunction
  /\ UNCHANGED <<impl, network_functions, nfs, rx, PACKETS, inits, calls>>

Turn(kind) == pc = "run" /\ this.kind = kind

\* Mutant: get_ipv4_hdr is not looked at.
AgeAll(packet) == [packet EXCEPT !.ttl = (@ + 255) % 256]

\* One less in eight bits, which wrap in a release build too; C++ passes over
\* what is not IPv4.
Age(packet) ==
  IF impl = "cpp" /\ ~packet.ipv4 THEN packet
  ELSE [packet EXCEPT !.ttl = (@ + 255) % 256]

Nf1DecrementTtl == Turn(1) /\ Processed(this, Age(frame))

\* Rust takes every packet for one with ports.
GetPacketHeaders(packet) == impl = "rust" \/ (packet.ipv4 /\ packet.flow.proto = "udp")

\* C++: the second and third function are done with the batch.
ReturnEarly ==
  /\ Turn(2) \/ Turn(3)
  /\ ~GetPacketHeaders(frame)
  /\ NextFunction
  /\ UNCHANGED <<impl, network_functions, NFS, nfs, rx, frames, PACKETS, inits, calls>>

-----------------------------------------------------------------------------
reverse_flow(f) ==
  [f EXCEPT !.src_ip = f.dst_ip, !.dst_ip = f.src_ip,
            !.src_port = f.dst_port, !.dst_port = f.src_port]

Outgoing(f, port) == [f EXCEPT !.src_port = port]

ipv4_stamp_flow(packet, f) == [packet EXCEPT !.flow = f]

Put(table, key, value) == [f \in DOMAIN table \cup {key} |->
                             IF f = key THEN value ELSE table[f]]

\* Mutant: the C++ table is written over as well.
Overwrite(table, key, value) == Put(table, key, value)

\* insert writes over what there is for the key, try_emplace leaves it.
Insert(table, key, value) ==
  IF impl = "cpp" /\ key \in DOMAIN table THEN table ELSE Put(table, key, value)

NatKnown ==
  /\ Turn(2) /\ GetPacketHeaders(frame)
  /\ flow \in DOMAIN this.port_hash
  /\ Processed(this, ipv4_stamp_flow(frame, this.port_hash[flow]))

\* Mutant: MAX_PORT is handed out too.
PortLeftInclusive(object) == object.next_port =< MAX_PORT

PortLeft(object) == object.next_port < MAX_PORT

\* Mutant: replies are sent back to the port that was assigned.
BothWaysOutgoing(table, f, port) ==
  Insert(Insert(table, f, Outgoing(f, port)),
         reverse_flow(Outgoing(f, port)), reverse_flow(Outgoing(f, port)))

\* The entry for the flow, then the one for the replies to it.
BothWays(table, f, port) ==
  Insert(Insert(table, f, Outgoing(f, port)), reverse_flow(Outgoing(f, port)), reverse_flow(f))

NatNew ==
  /\ Turn(2) /\ GetPacketHeaders(frame)
  /\ flow \notin DOMAIN this.port_hash /\ PortLeft(this)
  /\ LET assigned_port == this.next_port
     IN  Processed([this EXCEPT !.next_port = @ + 1,
                                !.flow_vec = Put(@, assigned_port, flow),
                                !.port_hash = BothWays(@, flow, assigned_port)],
                   ipv4_stamp_flow(frame, Outgoing(flow, assigned_port)))

NatExhausted ==
  /\ Turn(2) /\ GetPacketHeaders(frame)
  /\ flow \notin DOMAIN this.port_hash /\ ~PortLeft(this)
  /\ Processed(this, frame)

-----------------------------------------------------------------------------
\* Mutant: 0 is a wildcard, as it is in nf3.c.
MatchesAll(f) == TRUE

\* The one rule asks for the source address 0, and for nothing else; that it
\* may ask for established connections is never come to.
Matches(f) == f.src_ip = Zero

\* What the rule matches is remembered; nothing is dropped.
Nf3Acl ==
  /\ Turn(3) /\ GetPacketHeaders(frame)
  /\ Processed([this EXCEPT !.cache = IF Matches(flow) THEN @ \cup {flow} ELSE @], frame)

swap_mac(packet) == [packet EXCEPT !.mac = ~@]

\* Rust remembers the backend of each hash, which is one of the flow.
get_index_from_hash(cache, f) == cache \cup {f}

\* The C function that C++ calls finds no hash and returns -1.  In neither is
\* the backend looked at: any has the addresses swapped.
Nf4Maglev ==
  /\ Turn(4)
  /\ Processed(IF impl = "rust" THEN [this EXCEPT !.cache = get_index_from_hash(@, flow)] ELSE this,
               swap_mac(frame))

ProcessFrame ==
  \/ Nf1DecrementTtl \/ ReturnEarly
  \/ NatKnown \/ NatNew \/ NatExhausted
  \/ Nf3Acl \/ Nf4Maglev

\* The calls are used up, which is a bound of the model, or the process ended.
Rest ==
  /\ \/ pc = "idle" /\ inits = MaxInits /\ calls = MaxCalls
     \/ pc = "panic"
  /\ UNCHANGED vars

Next == InitNfs \/ PushNf \/ InitDone \/ RunNfs \/ ProcessFrame \/ Rest

Spec == Init /\ [][Next]_vars

-----------------------------------------------------------------------------
Nats == {k \in DOMAIN NFS : NFS[k].kind = 2}

\* Ports are handed out in order, and an index into flow_vec is below its
\* length, MAX_PORT in Rust.
TypeOK ==
  /\ pc \in {"idle", "init", "run", "panic"}
  /\ nf \in 1 .. Len(NFS) + 1 /\ pkt \in 1 .. BATCH_SIZE
  /\ rx \in Seq(WireFrame) /\ frames \in Seq(Frame)
  /\ PACKETS \subseteq DOMAIN frames
  /\ \A k \in DOMAIN NFS :
       /\ NFS[k].kind \in 1 .. 4
       /\ NFS[k].next_port \in MIN_PORT .. MAX_PORT
       /\ DOMAIN NFS[k].flow_vec = MIN_PORT .. NFS[k].next_port - 1
       /\ NFS[k].port_hash \in [DOMAIN NFS[k].port_hash -> Flow]
       /\ DOMAIN NFS[k].port_hash \subseteq Flow
       /\ NFS[k].cache \subseteq Flow

\* The port q was granted to the flow whose replies are f.
RepliesAre(k, q, f) ==
  /\ q \in DOMAIN NFS[k].flow_vec
  /\ reverse_flow(Outgoing(NFS[k].flow_vec[q], q)) = f

\* A flow that was granted a port leaves by it from then on.  In Rust there
\* is one exception: a flow granted its port later, the replies to which are
\* this flow, takes its entry.
ForwardEntry ==
  \A k \in Nats : \A p \in DOMAIN NFS[k].flow_vec :
    LET f == NFS[k].flow_vec[p]
        taker == f.dst_port
    IN  NFS[k].port_hash[f] =
          IF impl = "rust" /\ taker >= p /\ RepliesAre(k, taker, f)
          THEN reverse_flow(NFS[k].flow_vec[taker])
          ELSE Outgoing(f, p)

\* A reply to a flow as it left comes back to where the flow came from.  In
\* C++ there is one exception: the replies were seen before as a flow of
\* their own, and go on by the port they were granted then.
ReverseEntry ==
  \A k \in Nats : \A p \in DOMAIN NFS[k].flow_vec :
    LET f == NFS[k].flow_vec[p]
        reply == reverse_flow(Outgoing(f, p))
    IN  \/ NFS[k].port_hash[reply] = reverse_flow(f)
        \/ /\ impl = "cpp"
           /\ \E q \in MIN_PORT .. p : NFS[k].flow_vec[q] = reply

\* The functions of a kind that the last batch went through.
Passed(kind) == {k \in 1 .. nf - 1 : NFS[k].kind = kind}

\* The frames that the second and third function came to.
Seen == {m \in DOMAIN frames :
           /\ Packet(rx[m])
           /\ \A n \in 1 .. m : GetPacketHeaders(rx[n])}

\* When a call is done, the frames that are meant for the functions were aged
\* and turned around once per time init_nfs put the function into the list,
\* and the others are as they came; behind a frame that ends the batch for
\* the C++ translation they still have their flow.
FramesServed ==
  pc = "idle" => \A m \in DOMAIN frames :
    /\ frames[m].ttl = IF Packet(rx[m]) /\ (impl = "rust" \/ rx[m].ipv4)
                       THEN (rx[m].ttl - Cardinality(Passed(1))) % 256 ELSE rx[m].ttl
    /\ frames[m].mac = IF Packet(rx[m]) /\ Cardinality(Passed(4)) % 2 = 1
                       THEN ~rx[m].mac ELSE rx[m].mac
    /\ m \notin Seen => frames[m].flow = rx[m].flow

\* What an ACL or a load balancer remembers are flows as they leave, if no
\* translation comes behind it: the ACL those from address 0 and no others,
\* the load balancer in Rust all of them.
CachesWhatLeaves ==
  pc = "idle" => \A k \in 1 .. nf - 1 : (\A j \in Passed(2) : j < k) =>
    \A m \in Seen :
      /\ NFS[k].kind = 3 => (frames[m].flow \in NFS[k].cache <=> frames[m].flow.src_ip = Zero)
      /\ NFS[k].kind = 4 /\ impl = "rust" => frames[m].flow \in NFS[k].cache
=============================================================================
