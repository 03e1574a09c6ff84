----------------------- MODULE NetworkFunctionsProofs -----------------------
(***************************************************************************)
(* The list of network functions, for any lists, frames and batch sizes,   *)
(* in both languages: types, the entries of a translation, and what a      *)
(* batch has been through when run_nfs returns.                            *)
(***************************************************************************)
EXTENDS NetworkFunctions, FiniteSetTheorems, TLAPS

Table(S) == UNION {[D -> Flow] : D \in SUBSET S}

Object ==
  [kind: 1 .. 4, next_port: MIN_PORT .. MAX_PORT, flow_vec: Table(Port),
   port_hash: Table(Flow), cache: SUBSET Flow]

\* What a translation holds: the two entries of each flow it granted a port
\* and nothing else, none of which changes the protocol.
Reply(object, p) == reverse_flow(Outgoing(object.flow_vec[p], p))

PortsInOrder(object) == DOMAIN object.flow_vec = MIN_PORT .. object.next_port - 1

EntriesGranted(object) ==
  /\ \A p \in DOMAIN object.flow_vec : /\ object.flow_vec[p] \in DOMAIN object.port_hash
                                       /\ Reply(object, p) \in DOMAIN object.port_hash
  /\ \A f \in DOMAIN object.port_hash : \E p \in DOMAIN object.flow_vec :
       f = object.flow_vec[p] \/ f = Reply(object, p)

ProtocolKept(object) ==
  \A f \in DOMAIN object.port_hash : object.port_hash[f].proto = f.proto

\* ForwardEntry and ReverseEntry, of one object.
Forward(object) ==
  \A p \in DOMAIN object.flow_vec :
    LET f == object.flow_vec[p]
        taker == f.dst_port
    IN  object.port_hash[f] =
          IF impl = "rust" /\ taker >= p /\ taker \in DOMAIN object.flow_vec
               /\ Reply(object, taker) = f
          THEN reverse_flow(object.flow_vec[taker])
          ELSE Outgoing(f, p)

Reverse(object) ==
  \A p \in DOMAIN object.flow_vec :
    \/ object.port_hash[Reply(object, p)] = reverse_flow(object.flow_vec[p])
    \/ /\ impl = "cpp"
       /\ \E q \in MIN_PORT .. p : object.flow_vec[q] = Reply(object, p)

NatInv(object) ==
  /\ PortsInOrder(object) /\ EntriesGranted(object) /\ ProtocolKept(object)
  /\ Forward(object) /\ Reverse(object)

ObjectInv(object) ==
  /\ NatInv(object)
  /\ object.kind = 3 => \A f \in object.cache : f.src_ip = Zero

-----------------------------------------------------------------------------
\* Frame m is through with function k.
Through(k, m) == k < nf \/ (pc = "run" /\ k = nf /\ m < pkt)

Done(kind, m) == {k \in DOMAIN NFS : NFS[k].kind = kind /\ Through(k, m)}

TypeInv ==
  /\ impl \in {"rust", "cpp"} /\ pc \in {"idle", "init", "run", "panic"}
  /\ network_functions \in Seq(Nat) /\ nfs \in Seq(Nat)
  /\ NFS \in Seq(Object) /\ nf \in 1 .. Len(NFS) + 1 /\ pkt \in 1 .. BATCH_SIZE
  /\ rx \in Seq(WireFrame) /\ frames \in Seq(Frame)
  /\ Len(frames) = Len(rx) /\ Len(rx) =< BATCH_SIZE
  /\ PACKETS = {m \in DOMAIN rx : Packet(rx[m])}
  /\ pc = "run" => nf \in DOMAIN NFS /\ pkt \in PACKETS

HeadersKept ==
  /\ \A m \in DOMAIN frames : /\ frames[m].ipv4 = rx[m].ipv4
                              /\ frames[m].flow.proto = rx[m].flow.proto
  /\ pc = "run" /\ NFS[nf].kind \in {2, 3} =>
       \A m \in PACKETS : m < pkt => GetPacketHeaders(rx[m])

\* FramesServed, function by function.
Served ==
  \A m \in DOMAIN frames :
    /\ frames[m].ttl = IF m \in PACKETS /\ (impl = "rust" \/ rx[m].ipv4)
                       THEN (rx[m].ttl - Cardinality(Done(1, m))) % 256 ELSE rx[m].ttl
    /\ frames[m].mac = IF m \in PACKETS /\ Cardinality(Done(4, m)) % 2 = 1
                       THEN ~rx[m].mac ELSE rx[m].mac
    /\ m \notin Seen => frames[m].flow = rx[m].flow

\* CachesWhatLeaves, function by function.
Cached ==
  \A m \in Seen : \A k \in DOMAIN NFS :
    Through(k, m) /\ (\A j \in Done(2, m) : j < k) =>
      /\ NFS[k].kind = 3 /\ frames[m].flow.src_ip = Zero => frames[m].flow \in NFS[k].cache
      /\ NFS[k].kind = 4 /\ impl = "rust" => frames[m].flow \in NFS[k].cache

IInv ==
  /\ TypeInv /\ (\A k \in DOMAIN NFS : ObjectInv(NFS[k]))
  /\ HeadersKept /\ Served /\ Cached

-----------------------------------------------------------------------------
\* Tables.
LEMMA TableIs ==
  ASSUME NEW S, NEW t
  PROVE  t \in Table(S) <=> DOMAIN t \subseteq S /\ t \in [DOMAIN t -> Flow]
<1>1. ASSUME t \in Table(S) PROVE DOMAIN t \subseteq S /\ t \in [DOMAIN t -> Flow]
  BY <1>1 DEF Table
<1>2. ASSUME DOMAIN t \subseteq S, t \in [DOMAIN t -> Flow] PROVE t \in Table(S)
  BY <1>2, Zenon DEF Table
<1> QED
  BY <1>1, <1>2

LEMMA PutIs ==
  ASSUME NEW S, NEW t \in Table(S), NEW key \in S, NEW value \in Flow
  PROVE  /\ Put(t, key, value) \in Table(S)
         /\ \A f : f \in DOMAIN Put(t, key, value) <=> f \in DOMAIN t \/ f = key
         /\ Put(t, key, value)[key] = value
         /\ \A f \in DOMAIN t : f # key => Put(t, key, value)[f] = t[f]
<1> DEFINE s == Put(t, key, value)
<1>1. DOMAIN t \subseteq S /\ t \in [DOMAIN t -> Flow]
  BY TableIs
<1>2. /\ DOMAIN s = DOMAIN t \cup {key}
      /\ s[key] = value /\ \A f \in DOMAIN t : f # key => s[f] = t[f]
  BY DEF Put
<1>3. s \in [DOMAIN t \cup {key} -> Flow]
  BY <1>1 DEF Put
<1> HIDE DEF s
<1>4. s \in Table(S)
  BY <1>1, <1>2, <1>3, TableIs
<1> QED
  BY <1>2, <1>4 DEF s

LEMMA InsertIs ==
  ASSUME NEW t \in Table(Flow), NEW key \in Flow, NEW value \in Flow
  PROVE  /\ Insert(t, key, value) \in Table(Flow)
         /\ \A f : f \in DOMAIN Insert(t, key, value) <=> f \in DOMAIN t \/ f = key
         /\ ~(impl = "cpp" /\ key \in DOMAIN t) => Insert(t, key, value)[key] = value
         /\ \A f \in DOMAIN t :
              f # key \/ impl = "cpp" => Insert(t, key, value)[f] = t[f]
<1>1. CASE impl = "cpp" /\ key \in DOMAIN t
  BY <1>1, Zenon DEF Insert
<1>2. CASE ~(impl = "cpp" /\ key \in DOMAIN t)
  <2>1. Insert(t, key, value) = Put(t, key, value)
    BY <1>2, Zenon DEF Insert
  <2>2. \A f \in DOMAIN t : f # key \/ impl = "cpp" => f # key
    BY <1>2
  <2> QED
    BY <2>1, <2>2, PutIs
<1> QED
  BY <1>1, <1>2

LEMMA FlowOps ==
  ASSUME NEW f \in Flow, NEW p \in Port
  PROVE  /\ Outgoing(f, p) \in Flow /\ Outgoing(f, p).proto = f.proto
         /\ Outgoing(f, p).src_port = p
         /\ reverse_flow(f) \in Flow /\ reverse_flow(f).proto = f.proto
         /\ reverse_flow(f).dst_port = f.src_port
BY DEF Flow, Outgoing, reverse_flow

\* A translation that grants a flow it does not know the next port is still
\* what it should be.
LEMMA GrantInv ==
  ASSUME NEW object \in Object, NatInv(object), impl \in {"rust", "cpp"},
         NEW f \in Flow, f \notin DOMAIN object.port_hash,
         object.next_port < MAX_PORT,
         NEW granted,
         granted = [kind |-> object.kind, next_port |-> object.next_port + 1,
                    flow_vec |-> Put(object.flow_vec, object.next_port, f),
                    port_hash |-> BothWays(object.port_hash, f, object.next_port),
                    cache |-> object.cache]
  PROVE  granted \in Object /\ NatInv(granted)
<1> DEFINE p == object.next_port
           fv == object.flow_vec
           ph == object.port_hash
           fv1 == Put(fv, p, f)
           out == Outgoing(f, p)
           r == reverse_flow(out)
           ph0 == Insert(ph, f, out)
           ph1 == BothWays(ph, f, p)
<1>1. /\ p \in Nat /\ p \in MIN_PORT .. MAX_PORT - 1 /\ p \in Port
      /\ MIN_PORT \in Nat /\ MAX_PORT \in Nat
  BY NetworkFunctionsAssumption DEF Object
<1>2. fv \in Table(Port) /\ ph \in Table(Flow)
  BY DEF Object
<1>3. /\ out \in Flow /\ r \in Flow /\ reverse_flow(f) \in Flow
      /\ out.proto = f.proto /\ r.proto = f.proto /\ reverse_flow(f).proto = f.proto
      /\ r.dst_port = p
  BY <1>1, FlowOps
<1>4. /\ fv1 \in Table(Port) /\ (\A q : q \in DOMAIN fv1 <=> q \in DOMAIN fv \/ q = p)
      /\ fv1[p] = f /\ \A q \in DOMAIN fv : q # p => fv1[q] = fv[q]
  BY <1>1, <1>2, PutIs
<1>5. /\ ph0 \in Table(Flow) /\ (\A g : g \in DOMAIN ph0 <=> g \in DOMAIN ph \/ g = f)
      /\ ph0[f] = out /\ \A g \in DOMAIN ph : ph0[g] = ph[g]
  <2>1. /\ ph0 \in Table(Flow)
        /\ \A g : g \in DOMAIN ph0 <=> g \in DOMAIN ph \/ g = f
        /\ ~(impl = "cpp" /\ f \in DOMAIN ph) => ph0[f] = out
        /\ \A g \in DOMAIN ph : g # f \/ impl = "cpp" => ph0[g] = ph[g]
    <3> HIDE DEF out
    <3> QED
      BY <1>2, <1>3, InsertIs
  <2> QED
    BY <2>1
<1>6. /\ ph1 \in Table(Flow) /\ (\A g : g \in DOMAIN ph1 <=> g \in DOMAIN ph \/ g = f \/ g = r)
      /\ ~(impl = "cpp" /\ (r \in DOMAIN ph \/ r = f)) => ph1[r] = reverse_flow(f)
      /\ \A g \in DOMAIN ph0 : g # r \/ impl = "cpp" => ph1[g] = ph0[g]
  <2>1. ph1 = Insert(ph0, r, reverse_flow(f))
    BY DEF BothWays
  <2>3. ph0 \in Table(Flow) /\ r \in Flow /\ reverse_flow(f) \in Flow
    BY <1>3, <1>5
  <2> HIDE DEF ph0, ph1, r
  <2> DEFINE i == Insert(ph0, r, reverse_flow(f))
  <2>4. /\ i \in Table(Flow)
        /\ \A g : g \in DOMAIN i <=> g \in DOMAIN ph0 \/ g = r
        /\ ~(impl = "cpp" /\ r \in DOMAIN ph0) => i[r] = reverse_flow(f)
        /\ \A g \in DOMAIN ph0 : g # r \/ impl = "cpp" => i[g] = ph0[g]
    BY <2>3, InsertIs
  <2> HIDE DEF i
  <2>5. ph1 = i
    BY <2>1 DEF i
  <2> QED
    BY <1>5, <2>4, <2>5
<1>7. granted = [kind |-> object.kind, next_port |-> p + 1, flow_vec |-> fv1,
                 port_hash |-> ph1, cache |-> object.cache]
  OBVIOUS
<1> HIDE DEF fv1, ph0, ph1, out, r
<1>8. /\ granted \in Object /\ granted.next_port = p + 1
      /\ granted.flow_vec = fv1 /\ granted.port_hash = ph1
  BY <1>1, <1>4, <1>6, <1>7 DEF Object
<1>9. DOMAIN fv = MIN_PORT .. p - 1 /\ p \notin DOMAIN fv
  BY <1>1 DEF NatInv, PortsInOrder
<1>10. /\ Reply(granted, p) = r
       /\ \A q \in DOMAIN fv : fv1[q] = fv[q] /\ Reply(granted, q) = Reply(object, q)
  BY <1>4, <1>8, <1>9 DEF Reply, r, out
<1>11. fv1[p] = f /\ DOMAIN fv \subseteq Port /\ \A q \in DOMAIN fv : fv[q] \in Flow
  BY <1>2, <1>4, TableIs
<1>12. \A q \in DOMAIN fv : Reply(object, q).dst_port = q /\ Reply(object, q) \in Flow
  BY <1>11, FlowOps DEF Reply
<1>13. PortsInOrder(granted)
  <2>1. \A q : q \in MIN_PORT .. p <=> q \in MIN_PORT .. p - 1 \/ q = p
    BY <1>1
  <2>2. DOMAIN fv1 = MIN_PORT .. p
    BY <1>4, <1>9, <2>1
  <2>3. MIN_PORT .. p = MIN_PORT .. granted.next_port - 1
    BY <1>1, <1>8
  <2> QED
    BY <1>8, <2>2, <2>3 DEF PortsInOrder
<1>14. EntriesGranted(granted)
  <2>1. ASSUME NEW q \in DOMAIN fv1
        PROVE  fv1[q] \in DOMAIN ph1 /\ Reply(granted, q) \in DOMAIN ph1
    BY <1>4, <1>6, <1>10, <1>11 DEF NatInv, EntriesGranted
  <2>2. ASSUME NEW g \in DOMAIN ph1
        PROVE  \E q \in DOMAIN fv1 : g = fv1[q] \/ g = Reply(granted, q)
    <3>1. CASE g \in DOMAIN ph
      <4>1. PICK q \in DOMAIN fv : g = fv[q] \/ g = Reply(object, q)
        BY <3>1 DEF NatInv, EntriesGranted
      <4> QED
        BY <1>4, <1>10, <4>1
    <3>2. CASE g = f \/ g = r
      BY <1>4, <1>10, <1>11, <3>2
    <3> QED
      BY <1>6, <3>1, <3>2
  <2> QED
    BY <1>8, <2>1, <2>2 DEF EntriesGranted
<1>15. ProtocolKept(granted)
  <2>1. ASSUME NEW g \in DOMAIN ph1 PROVE ph1[g].proto = g.proto
    <3>1. g \in DOMAIN ph \/ g = f => ph0[g].proto = g.proto
      BY <1>3, <1>5 DEF NatInv, ProtocolKept
    <3> QED
      BY <1>3, <1>5, <1>6, <3>1
  <2> QED
    BY <1>8, <2>1 DEF ProtocolKept
<1>16. Forward(granted)
  <2> SUFFICES ASSUME NEW q \in DOMAIN fv1
               PROVE  ph1[fv1[q]] =
                        IF impl = "rust" /\ fv1[q].dst_port >= q
                             /\ fv1[q].dst_port \in DOMAIN fv1
                             /\ Reply(granted, fv1[q].dst_port) = fv1[q]
                        THEN reverse_flow(fv1[fv1[q].dst_port])
                        ELSE Outgoing(fv1[q], q)
    BY <1>8 DEF Forward
  <2>1. CASE q = p
    <3>1. f.dst_port \in DOMAIN fv1 /\ f.dst_port >= p <=> f.dst_port = p
      BY <1>1, <1>4, <1>9
    <3>2. ph1[f] = IF impl = "rust" /\ r = f THEN reverse_flow(f) ELSE out
      BY <1>5, <1>6
    <3>3. r = f => f.dst_port = p
      BY <1>3
    <3> QED
      BY <1>10, <1>11, <2>1, <3>1, <3>2, <3>3 DEF out
  <2>2. CASE q # p
    <3> DEFINE g == fv[q]
    <3>1. q \in DOMAIN fv /\ fv1[q] = g /\ g \in DOMAIN ph /\ g # f
      BY <1>4, <2>2 DEF NatInv, EntriesGranted
    <3>2. ph1[g] = IF g = r /\ impl = "rust" THEN reverse_flow(f) ELSE ph[g]
      BY <1>5, <1>6, <3>1
    <3>3. ph[g] = IF impl = "rust" /\ g.dst_port >= q /\ g.dst_port \in DOMAIN fv
                       /\ Reply(object, g.dst_port) = g
                  THEN reverse_flow(fv[g.dst_port]) ELSE Outgoing(g, q)
      BY <3>1 DEF NatInv, Forward
    <3>4. q < p /\ q \in Nat
      BY <1>1, <1>9, <3>1
    <3> HIDE DEF g
    <3>5. CASE g.dst_port = p
      <4>1. g.dst_port >= q /\ g.dst_port \in DOMAIN fv1 /\ g.dst_port \notin DOMAIN fv
        BY <1>1, <1>4, <1>9, <3>4, <3>5
      <4>2. Reply(granted, g.dst_port) = r /\ fv1[g.dst_port] = f
        BY <1>10, <1>11, <3>5
      <4> QED
        BY <3>1, <3>2, <3>3, <4>1, <4>2
    <3>6. CASE g.dst_port # p
      <4>1. g # r
        BY <1>3, <3>6
      <4>2. g.dst_port \in DOMAIN fv1 <=> g.dst_port \in DOMAIN fv
        BY <1>4, <3>6
      <4>3. g.dst_port \in DOMAIN fv => /\ Reply(granted, g.dst_port) = Reply(object, g.dst_port)
                                        /\ fv1[g.dst_port] = fv[g.dst_port]
        BY <1>10
      <4> QED
        BY <3>1, <3>2, <3>3, <4>1, <4>2, <4>3
    <3> QED
      BY <3>5, <3>6
  <2> QED
    BY <2>1, <2>2
<1>17. Reverse(granted)
  <2> SUFFICES ASSUME NEW q \in DOMAIN fv1
               PROVE  \/ ph1[Reply(granted, q)] = reverse_flow(fv1[q])
                      \/ impl = "cpp" /\ \E k \in MIN_PORT .. q : fv1[k] = Reply(granted, q)
    BY <1>8 DEF Reverse
  <2>1. CASE q = p
    <3>1. CASE impl = "cpp" /\ (r \in DOMAIN ph \/ r = f)
      <4>1. CASE r = f
        BY <1>1, <1>10, <1>11, <2>1, <3>1, <4>1
      <4>2. CASE r \in DOMAIN ph
        <5>1. PICK k \in DOMAIN fv : r = fv[k] \/ r = Reply(object, k)
          BY <4>2 DEF NatInv, EntriesGranted
        <5>2. r = fv[k]
          BY <1>3, <1>9, <1>12, <5>1
        <5>3. k \in MIN_PORT .. p /\ fv1[k] = r
          BY <1>1, <1>9, <1>10, <5>2
        <5> QED
          BY <1>10, <2>1, <3>1, <5>3
      <4> QED
        BY <3>1, <4>1, <4>2
    <3>2. CASE ~(impl = "cpp" /\ (r \in DOMAIN ph \/ r = f))
      BY <1>6, <1>10, <1>11, <2>1, <3>2
    <3> QED
      BY <3>1, <3>2
  <2>2. CASE q # p
    <3> DEFINE s == Reply(object, q)
    <3>1. q \in DOMAIN fv /\ fv1[q] = fv[q] /\ Reply(granted, q) = s
      BY <1>4, <1>10, <2>2
    <3>2. s \in DOMAIN ph /\ s # f /\ s # r
      BY <1>3, <1>12, <2>2, <3>1 DEF NatInv, EntriesGranted
    <3>3. ph1[s] = ph[s]
      BY <1>5, <1>6, <3>2
    <3>4. \/ ph[s] = reverse_flow(fv[q])
          \/ impl = "cpp" /\ \E k \in MIN_PORT .. q : fv[k] = s
      BY <3>1 DEF NatInv, Reverse
    <3>5. \A k \in MIN_PORT .. q : fv1[k] = fv[k]
      BY <1>1, <1>9, <1>10, <3>1
    <3> HIDE DEF s
    <3> QED
      BY <3>1, <3>3, <3>4, <3>5
  <2> QED
    BY <2>1, <2>2
<1> QED
  BY <1>8, <1>13, <1>14, <1>15, <1>16, <1>17 DEF NatInv

-----------------------------------------------------------------------------
\* What the second and third function come to are packets.
LEMMA SeenArePackets == TypeInv => Seen \subseteq PACKETS
BY DEF TypeInv, Seen

LEMMA DoneFinite ==
  ASSUME TypeInv, NEW kind, NEW m
  PROVE  IsFiniteSet(Done(kind, m)) /\ Cardinality(Done(kind, m)) \in Nat
<1>1. Done(kind, m) \in SUBSET (1 .. Len(NFS)) /\ Len(NFS) \in Int
  BY DEF TypeInv, Done
<1>2. IsFiniteSet(1 .. Len(NFS))
  BY <1>1, FS_Interval
<1> QED
  BY <1>1, <1>2, FS_Subset, FS_CardinalityType

\* A function that is new has granted nothing and remembers nothing.
LEMMA NewInv ==
  ASSUME NEW kind \in 1 .. 4
  PROVE  New(kind) \in Object /\ ObjectInv(New(kind)) /\ New(kind).kind = kind
<1> DEFINE o == New(kind)
<1>1. <<>> \in Table(Port) /\ <<>> \in Table(Flow) /\ DOMAIN <<>> = {}
  <2>1. DOMAIN <<>> = {} /\ <<>> \in [{} -> Flow]
    OBVIOUS
  <2> QED
    BY <2>1, TableIs
<1>2. /\ o.kind = kind /\ o.next_port = MIN_PORT /\ o.flow_vec = <<>>
      /\ o.port_hash = <<>> /\ o.cache = {}
  BY DEF New
<1>3. o \in Object
  BY <1>1, NetworkFunctionsAssumption DEF New, Object
<1>4. PortsInOrder(o)
  BY <1>1, <1>2, NetworkFunctionsAssumption DEF PortsInOrder
<1> HIDE DEF o
<1>5. EntriesGranted(o) /\ ProtocolKept(o) /\ Forward(o) /\ Reverse(o)
  BY <1>1, <1>2 DEF EntriesGranted, ProtocolKept, Forward, Reverse
<1>6. ObjectInv(o)
  BY <1>2, <1>4, <1>5 DEF ObjectInv, NatInv
<1> QED
  BY <1>2, <1>3, <1>6 DEF o

LEMMA InitInv == Init => IInv
<1> SUFFICES ASSUME Init PROVE IInv
  OBVIOUS
<1>1. rx = <<>> /\ frames = <<>> /\ NFS = <<>> /\ Len(NFS) = 0 /\ Len(rx) = 0 /\ DOMAIN rx = {}
  BY DEF Init
<1>2. network_functions \in Seq(Nat) /\ nfs \in Seq(Nat) /\ BATCH_SIZE \in Nat \ {0}
  BY NetworkFunctionsAssumption DEF Init
<1>3. PACKETS = {m \in DOMAIN rx : Packet(rx[m])}
  BY <1>1 DEF Init
<1>4. TypeInv
  BY <1>1, <1>2, <1>3 DEF Init, TypeInv
<1>5. (\A k \in DOMAIN NFS : ObjectInv(NFS[k])) /\ HeadersKept /\ Served /\ Cached
  BY <1>1 DEF Init, HeadersKept, Served, Cached
<1> QED
  BY <1>4, <1>5 DEF IInv

-----------------------------------------------------------------------------
\* init_nfs leaves what the last batch went through as it was.
LEMMA BatchKept ==
  ASSUME IInv, UNCHANGED <<impl, run_state>>, pc # "run", pc' # "run",
         NFS' \in Seq(Object), Len(NFS') >= Len(NFS),
         \A k \in DOMAIN NFS : NFS'[k] = NFS[k]
  PROVE  HeadersKept' /\ Served' /\ Cached'
<1>1. \A k \in 1 .. Len(NFS') : k < nf => k \in DOMAIN NFS
  BY DEF IInv, TypeInv
<1>2. DOMAIN NFS = 1 .. Len(NFS) /\ DOMAIN NFS' = 1 .. Len(NFS') /\ Len(NFS) \in Nat /\ Len(NFS') \in Nat
  BY DEF IInv, TypeInv
<1>3. \A k, m : Through(k, m)' <=> Through(k, m)
  BY DEF Through, run_state
<1>4. \A k \in DOMAIN NFS' : \A m : Through(k, m)' => k \in DOMAIN NFS /\ NFS'[k] = NFS[k]
  BY <1>1, <1>2 DEF Through, run_state
<1>5. \A kind, m : Done(kind, m)' = Done(kind, m)
  <2> SUFFICES ASSUME NEW kind, NEW m PROVE Done(kind, m)' = Done(kind, m)
    OBVIOUS
  <2>1. \A k : k \in Done(kind, m)' <=> k \in Done(kind, m)
    BY <1>2, <1>3, <1>4 DEF Done
  <2> QED
    BY <2>1 DEF Done
<1>6. Seen' = Seen
  BY DEF Seen, Packet, GetPacketHeaders, run_state
<1>7. HeadersKept'
  BY DEF IInv, HeadersKept, run_state
<1>8. Served'
  <2>1. \A m : Cardinality(Done(1, m)') = Cardinality(Done(1, m))
               /\ Cardinality(Done(4, m)') = Cardinality(Done(4, m))
    BY <1>5
  <2>2. UNCHANGED <<impl, rx, frames, PACKETS>>
    BY DEF run_state
  <2> QED
    BY <1>6, <2>1, <2>2 DEF IInv, Served
<1>9. Cached'
  <2>1. UNCHANGED <<impl, rx, frames, PACKETS>>
    BY DEF run_state
  <2> QED
    BY <1>3, <1>4, <1>5, <1>6, <2>1 DEF IInv, Cached
<1> QED
  BY <1>7, <1>8, <1>9

LEMMA InitNfsStep == IInv /\ InitNfs => IInv'
<1> SUFFICES ASSUME IInv, InitNfs PROVE IInv'
  OBVIOUS
<1>1. TypeInv'
  BY DEF IInv, TypeInv, InitNfs, run_state, Packet
<1>2. (\A k \in DOMAIN NFS : ObjectInv(NFS[k]))'
  BY DEF IInv, InitNfs, ObjectInv, NatInv, PortsInOrder, EntriesGranted, ProtocolKept,
         Forward, Reverse, Reply
<1>3. HeadersKept' /\ Served' /\ Cached'
  <2>1. NFS' \in Seq(Object) /\ NFS' = NFS /\ Len(NFS) \in Nat
    BY DEF IInv, TypeInv, InitNfs
  <2> QED
    BY <2>1, BatchKept DEF InitNfs
<1> QED
  BY <1>1, <1>2, <1>3 DEF IInv

LEMMA InitDoneStep == IInv /\ InitDone => IInv'
<1> SUFFICES ASSUME IInv, InitDone PROVE IInv'
  OBVIOUS
<1>1. TypeInv'
  BY DEF IInv, TypeInv, InitDone, run_state, Packet
<1>2. (\A k \in DOMAIN NFS : ObjectInv(NFS[k]))'
  BY DEF IInv, InitDone, ObjectInv, NatInv, PortsInOrder, EntriesGranted, ProtocolKept,
         Forward, Reverse, Reply
<1>3. HeadersKept' /\ Served' /\ Cached'
  <2>1. NFS' \in Seq(Object) /\ NFS' = NFS /\ Len(NFS) \in Nat
    BY DEF IInv, TypeInv, InitDone
  <2> QED
    BY <2>1, BatchKept DEF InitDone
<1> QED
  BY <1>1, <1>2, <1>3 DEF IInv

LEMMA ObjectKept ==
  ASSUME NEW object, UNCHANGED impl, ObjectInv(object)
  PROVE  ObjectInv(object)'
BY DEF ObjectInv, NatInv, PortsInOrder, EntriesGranted, ProtocolKept, Forward, Reverse, Reply

\* The objects that a step leaves are what they were.
LEMMA ObjectsKept ==
  ASSUME UNCHANGED impl, NEW object,
         \A k \in DOMAIN NFS : ObjectInv(NFS[k]), ObjectInv(object),
         \A k \in DOMAIN NFS' : (k \in DOMAIN NFS /\ NFS'[k] = NFS[k]) \/ NFS'[k] = object
  PROVE  (\A k \in DOMAIN NFS : ObjectInv(NFS[k]))'
<1> SUFFICES ASSUME NEW k \in DOMAIN NFS' PROVE ObjectInv(NFS[k])'
  OBVIOUS
<1>1. PICK o : o = NFS'[k]
  OBVIOUS
<1>2. ObjectInv(o)
  BY <1>1
<1>3. ObjectInv(o)'
  BY <1>2, ObjectKept
<1> QED
  BY <1>1, <1>3 DEF ObjectInv, NatInv, PortsInOrder, EntriesGranted, ProtocolKept,
                    Forward, Reverse, Reply

LEMMA PushNfStep == IInv /\ PushNf => IInv'
<1> SUFFICES ASSUME IInv, PushNf PROVE IInv'
  OBVIOUS
<1>0. nfs \in Seq(Nat) /\ nfs # <<>> /\ NFS \in Seq(Object) /\ Len(NFS) \in Nat
  BY DEF IInv, TypeInv, PushNf
<1>1. nfs' \in Seq(Nat)
  BY <1>0 DEF PushNf
<1>2. CASE Known(Head(nfs))
  <2> DEFINE o == New(Head(nfs))
  <2>1. o \in Object /\ ObjectInv(o)
    BY <1>2, NewInv DEF Known
  <2>2. NFS' = Append(NFS, o)
    BY <1>2 DEF PushNf
  <2> HIDE DEF o
  <2>3. /\ NFS' \in Seq(Object) /\ Len(NFS') = Len(NFS) + 1
        /\ \A k \in DOMAIN NFS : NFS'[k] = NFS[k]
        /\ \A k \in DOMAIN NFS' : (k \in DOMAIN NFS /\ NFS'[k] = NFS[k]) \/ NFS'[k] = o
    BY <1>0, <2>1, <2>2
  <2>4. TypeInv'
    BY <1>0, <1>1, <1>2, <2>3 DEF IInv, TypeInv, PushNf, run_state, Packet
  <2>5. (\A k \in DOMAIN NFS : ObjectInv(NFS[k]))'
    BY <2>1, <2>3, ObjectsKept DEF IInv, PushNf
  <2>6. HeadersKept' /\ Served' /\ Cached'
    BY <1>0, <1>2, <2>3, BatchKept DEF PushNf
  <2> QED
    BY <2>4, <2>5, <2>6 DEF IInv
<1>3. CASE ~Known(Head(nfs))
  <2>1. NFS' = NFS
    BY <1>3 DEF PushNf
  <2>2. TypeInv'
    BY <1>0, <1>1, <1>3 DEF IInv, TypeInv, PushNf, run_state, Packet
  <2>3. (\A k \in DOMAIN NFS : ObjectInv(NFS[k]))'
    BY <2>1 DEF IInv, PushNf, ObjectInv, NatInv, PortsInOrder, EntriesGranted, ProtocolKept,
                Forward, Reverse, Reply
  <2>4. HeadersKept' /\ Served' /\ Cached'
    BY <1>0, <1>3, <2>1, BatchKept DEF PushNf
  <2> QED
    BY <2>2, <2>3, <2>4 DEF IInv
<1> QED
  BY <1>2, <1>3

-----------------------------------------------------------------------------
\* A batch that no function has had is as it came.
LEMMA Untouched ==
  ASSUME TypeInv', frames' = rx', \A k \in DOMAIN NFS' : ObjectInv(NFS[k])',
         \A kind, m : m \in PACKETS' => Done(kind, m)' = {},
         \A k \in DOMAIN NFS' : \A m : m \in PACKETS' => ~Through(k, m)',
         pc' = "run" => \A m \in PACKETS' : ~(m < pkt')
  PROVE  IInv'
<1>1. HeadersKept'
  BY DEF HeadersKept
<1>2. Served'
  <2>1. \A m \in PACKETS' : Cardinality(Done(1, m)') = 0 /\ Cardinality(Done(4, m)') = 0
    BY FS_EmptySet
  <2>2. \A m \in DOMAIN rx' : rx'[m] \in Frame
    BY NetworkFunctionsAssumption DEF TypeInv
  <2>3. \A m \in DOMAIN rx' : rx'[m].ttl \in 0 .. 255
    BY <2>2 DEF Frame
  <2>4. \A x \in 0 .. 255 : (x - 0) % 256 = x
    OBVIOUS
  <2> QED
    BY <2>1, <2>3, <2>4 DEF Served
<1>3. Cached'
  <2>1. Seen' \subseteq PACKETS'
    BY DEF TypeInv, Seen
  <2> QED
    BY <2>1 DEF Cached
<1> QED
  BY <1>1, <1>2, <1>3 DEF IInv

LEMMA RunNfsStep == IInv /\ RunNfs => IInv'
<1> SUFFICES ASSUME IInv, RunNfs PROVE IInv'
  OBVIOUS
<1>0. NFS \in Seq(Object) /\ Len(NFS) \in Nat /\ NFS' = NFS /\ impl' = impl
      /\ DOMAIN NFS = 1 .. Len(NFS) /\ BATCH_SIZE \in Nat \ {0}
  BY NetworkFunctionsAssumption DEF IInv, TypeInv, RunNfs
<1>1. PICK batch \in Batch : /\ rx' = batch /\ frames' = batch
                             /\ PACKETS' = {m \in DOMAIN batch : Packet(batch[m])}
  BY DEF RunNfs
<1>2. batch \in Seq(WireFrame) /\ batch \in Seq(Frame) /\ Len(batch) \in 1 .. BATCH_SIZE
  <2>1. PICK n \in 1 .. BATCH_SIZE : batch \in [1 .. n -> WireFrame]
    BY DEF Batch
  <2>2. n \in Nat /\ batch \in [1 .. n -> Frame]
    BY <1>0, <2>1, NetworkFunctionsAssumption
  <2> QED
    BY <1>0, <2>1, <2>2
<1>3. (PACKETS = {m \in DOMAIN rx : Packet(rx[m])})'
  BY <1>0, <1>1 DEF Packet
<1>4. (\A k \in DOMAIN NFS : ObjectInv(NFS[k]))'
  BY <1>0 DEF IInv, ObjectInv, NatInv, PortsInOrder, EntriesGranted, ProtocolKept,
              Forward, Reverse, Reply
<1>5. CASE PACKETS' = {} \/ NFS = <<>>
  <2>1. nf' = Len(NFS) + 1 /\ pc' = "idle" /\ pkt' = pkt
    BY <1>5 DEF RunNfs
  <2>2. TypeInv'
    <3>1. nf' \in 1 .. Len(NFS') + 1 /\ NFS' \in Seq(Object)
      BY <1>0, <2>1
    <3>2. /\ rx' \in Seq(WireFrame) /\ frames' \in Seq(Frame)
          /\ Len(frames') = Len(rx') /\ Len(rx') =< BATCH_SIZE
      BY <1>1, <1>2
    <3> QED
      BY <1>0, <1>3, <2>1, <3>1, <3>2 DEF IInv, TypeInv, RunNfs
  <2>3. \A k \in DOMAIN NFS' : \A m : m \in PACKETS' => ~Through(k, m)'
    BY <1>0, <1>5
  <2>4. \A kind, m : m \in PACKETS' => Done(kind, m)' = {}
    BY <2>3 DEF Done
  <2> QED
    BY <1>1, <1>4, <2>1, <2>2, <2>3, <2>4, Untouched
<1>6. CASE ~(PACKETS' = {} \/ NFS = <<>>)
  <2>1. nf' = 1 /\ pc' = "run" /\ pkt' \in PACKETS' /\ \A m \in PACKETS' : pkt' =< m
    BY <1>6 DEF RunNfs, First
  <2>2. TypeInv'
    <3>1. 1 \in DOMAIN NFS
      BY <1>0, <1>6
    <3>2. DOMAIN batch = 1 .. Len(batch)
      BY <1>2
    <3>3. pkt' \in 1 .. BATCH_SIZE
      BY <1>0, <1>1, <1>2, <2>1, <3>2
    <3>4. nf' \in 1 .. Len(NFS') + 1 /\ nf' \in DOMAIN NFS' /\ NFS' \in Seq(Object)
      BY <1>0, <2>1, <3>1
    <3>5. /\ rx' \in Seq(WireFrame) /\ frames' \in Seq(Frame)
          /\ Len(frames') = Len(rx') /\ Len(rx') =< BATCH_SIZE
      BY <1>1, <1>2
    <3> QED
      BY <1>0, <1>3, <2>1, <3>3, <3>4, <3>5 DEF IInv, TypeInv, RunNfs
  <2>3. \A m \in PACKETS' : m \in Nat /\ pkt' \in Nat
    BY <1>1, <1>2, <2>1
  <2>4. \A m \in PACKETS' : ~(m < pkt')
    BY <2>1, <2>3
  <2>5. \A k \in DOMAIN NFS' : \A m : m \in PACKETS' => ~Through(k, m)'
    BY <1>0, <2>1, <2>4 DEF Through
  <2>6. \A kind, m : m \in PACKETS' => Done(kind, m)' = {}
    BY <2>5 DEF Done
  <2> QED
    BY <1>1, <1>4, <2>2, <2>4, <2>5, <2>6, Untouched
<1> QED
  BY <1>5, <1>6

-----------------------------------------------------------------------------
\* The function that runs, and the frame in it.
LEMMA Running ==
  ASSUME TypeInv, pc = "run"
  PROVE  /\ nf \in DOMAIN NFS /\ nf \in Nat /\ this \in Object /\ this = NFS[nf]
         /\ DOMAIN NFS = 1 .. Len(NFS) /\ Len(NFS) \in Nat
         /\ pkt \in PACKETS /\ pkt \in DOMAIN frames /\ pkt \in DOMAIN rx /\ pkt \in Nat
         /\ PACKETS \subseteq DOMAIN rx /\ PACKETS \subseteq 1 .. BATCH_SIZE
         /\ PACKETS \subseteq Nat /\ DOMAIN frames = DOMAIN rx /\ BATCH_SIZE \in Nat
         /\ frame \in Frame /\ frame = frames[pkt] /\ flow \in Flow /\ flow = frame.flow
<1>1. nf \in DOMAIN NFS /\ NFS \in Seq(Object) /\ pkt \in PACKETS
      /\ rx \in Seq(WireFrame) /\ frames \in Seq(Frame)
  BY DEF TypeInv
<1>2. DOMAIN NFS = 1 .. Len(NFS) /\ Len(NFS) \in Nat /\ this \in Object
  BY <1>1 DEF this
<1>3. /\ DOMAIN rx = 1 .. Len(rx) /\ DOMAIN frames = 1 .. Len(rx) /\ Len(rx) \in Nat
      /\ Len(rx) =< BATCH_SIZE /\ BATCH_SIZE \in Nat
  BY <1>1, NetworkFunctionsAssumption DEF TypeInv
<1>4. PACKETS \subseteq DOMAIN rx
  BY DEF TypeInv
<1>5. frame \in Frame
  BY <1>1, <1>3, <1>4 DEF frame
<1>6. flow \in Flow
  BY <1>5 DEF flow, Frame
<1> QED
  BY <1>1, <1>2, <1>3, <1>4, <1>5, <1>6 DEF this, frame, flow

\* When the function is through with a frame it is through with no other.
LEMMA OneMoreThrough ==
  ASSUME TypeInv, pc = "run", UNCHANGED PACKETS,
         IF Later # {} THEN (\E n \in Later : First(n, Later) /\ pkt' = n) /\ UNCHANGED <<pc, nf>>
                       ELSE NextFunction
  PROVE  /\ \A m \in PACKETS : \A k \in DOMAIN NFS :
              Through(k, m)' <=> Through(k, m) \/ (k = nf /\ m = pkt)
         /\ nf' \in 1 .. Len(NFS) + 1 /\ pkt' \in PACKETS
         /\ pc' \in {"run", "idle"} /\ (pc' = "run" => nf' \in DOMAIN NFS)
         /\ pc' = "run" /\ nf' = nf => \A m \in PACKETS : m < pkt' => m < pkt \/ m = pkt
         /\ nf' # nf => \A m \in PACKETS : ~(m < pkt')
<1>1. CASE Later # {}
  <2>1. /\ pkt' \in PACKETS /\ pkt' > pkt /\ pc' = "run" /\ nf' = nf
        /\ \A m \in PACKETS : m > pkt => pkt' =< m
    BY <1>1 DEF Later, First
  <2>2. \A m \in PACKETS : m < pkt' <=> m < pkt \/ m = pkt
    BY <2>1, Running
  <2> QED
    BY <2>1, <2>2, Running DEF Through
<1>2. CASE Later = {}
  <2>1. /\ nf' = nf + 1 /\ pkt' \in PACKETS /\ \A m \in PACKETS : pkt' =< m
        /\ pc' = IF nf = Len(NFS) THEN "idle" ELSE "run"
    BY <1>2 DEF NextFunction, First
  <2>2. \A m \in PACKETS : ~(m < pkt')
    BY <2>1, Running
  <2>3. \A m \in PACKETS : m < pkt \/ m = pkt
    BY <1>2, Running DEF Later
  <2>4. \A m \in PACKETS : \A k \in DOMAIN NFS : Through(k, m)' <=> k < nf \/ k = nf
    BY <2>1, <2>2, Running DEF Through
  <2>5. \A m \in PACKETS : \A k \in DOMAIN NFS :
          Through(k, m)' <=> Through(k, m) \/ (k = nf /\ m = pkt)
    BY <2>3, <2>4 DEF Through
  <2>6. nf' \in 1 .. Len(NFS) + 1 /\ (pc' = "run" => nf' \in DOMAIN NFS) /\ nf' # nf
        /\ pc' \in {"run", "idle"}
    BY <2>1, Running
  <2> QED
    BY <2>1, <2>2, <2>5, <2>6
<1> QED
  BY <1>1, <1>2

\* The arithmetic of eight bits.
LEMMA Ages == \A x \in 0 .. 255, n \in Nat : (((x - n) % 256) + 255) % 256 = (x - (n + 1)) % 256
OBVIOUS

LEMMA Parity == \A n \in Nat : (n + 1) % 2 = 1 <=> ~(n % 2 = 1)
OBVIOUS

\* A function of this kind is through with a frame: what that asks of what it
\* makes of the frame, and of itself.
LEMMA ProcessedInv ==
  ASSUME IInv, NEW kind \in 1 .. 4, Turn(kind),
         NEW object \in Object, object.kind = kind, ObjectInv(object),
         this.cache \subseteq object.cache,
         NEW packet \in Frame, packet.ipv4 = frame.ipv4, packet.flow.proto = flow.proto,
         kind # 2 => packet.flow = flow,
         kind \in {2, 3} => GetPacketHeaders(frame),
         packet.ttl = IF kind = 1 /\ (impl = "rust" \/ frame.ipv4)
                      THEN (frame.ttl + 255) % 256 ELSE frame.ttl,
         packet.mac = IF kind = 4 THEN ~frame.mac ELSE frame.mac,
         kind = 3 /\ flow.src_ip = Zero => flow \in object.cache,
         kind = 4 /\ impl = "rust" => flow \in object.cache,
         Processed(object, packet)
  PROVE  IInv'
<1>0. TypeInv /\ pc = "run" /\ this.kind = kind
  BY DEF IInv, Turn
<1>1. /\ UNCHANGED <<impl, network_functions, nfs, rx, PACKETS>>
      /\ NFS' = [NFS EXCEPT ![nf] = object]
      /\ frames' = [frames EXCEPT ![pkt] = packet]
  BY DEF Processed
<1>2. /\ NFS' \in Seq(Object) /\ Len(NFS') = Len(NFS) /\ DOMAIN NFS' = DOMAIN NFS
      /\ \A k \in DOMAIN NFS : k # nf => NFS'[k] = NFS[k]
      /\ NFS'[nf] = object
  BY <1>0, <1>1, Running DEF TypeInv
<1>3. /\ frames' \in Seq(Frame) /\ Len(frames') = Len(frames) /\ DOMAIN frames' = DOMAIN frames
      /\ \A m \in DOMAIN frames : m # pkt => frames'[m] = frames[m]
      /\ frames'[pkt] = packet
  BY <1>0, <1>1, Running DEF TypeInv
<1>4. /\ \A m \in PACKETS : \A k \in DOMAIN NFS :
           Through(k, m)' <=> Through(k, m) \/ (k = nf /\ m = pkt)
      /\ nf' \in 1 .. Len(NFS) + 1 /\ pkt' \in PACKETS
      /\ pc' \in {"run", "idle"} /\ (pc' = "run" => nf' \in DOMAIN NFS)
      /\ pc' = "run" /\ nf' = nf => \A m \in PACKETS : m < pkt' => m < pkt \/ m = pkt
      /\ nf' # nf => \A m \in PACKETS : ~(m < pkt')
  BY <1>0, OneMoreThrough DEF Processed
<1>5. \A k \in DOMAIN NFS : NFS'[k].kind = NFS[k].kind
  BY <1>0, <1>2 DEF this
<1>6. TypeInv'
  <2>1. (PACKETS = {m \in DOMAIN rx : Packet(rx[m])})'
    BY <1>0, <1>1 DEF TypeInv, Packet
  <2>2. pkt' \in 1 .. BATCH_SIZE
    BY <1>0, <1>4, Running
  <2> QED
    BY <1>0, <1>1, <1>2, <1>3, <1>4, <2>1, <2>2 DEF TypeInv
<1>7. (\A k \in DOMAIN NFS : ObjectInv(NFS[k]))'
  BY <1>1, <1>2, ObjectsKept DEF IInv
<1>8. \A m \in DOMAIN rx : GetPacketHeaders(rx[m])' <=> GetPacketHeaders(rx[m])
  BY <1>1 DEF GetPacketHeaders
<1>9. Seen' = Seen /\ Seen \subseteq PACKETS
  BY <1>0, <1>1, <1>3, SeenArePackets DEF Seen, Packet, GetPacketHeaders
<1>10. HeadersKept'
  <2>1. \A m \in DOMAIN frames : /\ frames'[m].ipv4 = rx[m].ipv4
                                 /\ frames'[m].flow.proto = rx[m].flow.proto
    BY <1>0, <1>3, Running DEF IInv, HeadersKept
  <2>2. ASSUME pc' = "run", NFS'[nf'].kind \in {2, 3}, NEW m \in PACKETS, m < pkt'
        PROVE  GetPacketHeaders(rx[m])
    <3>1. nf' = nf /\ (m < pkt \/ m = pkt) /\ kind \in {2, 3}
      BY <1>0, <1>2, <1>4, <2>2
    <3>2. CASE m < pkt
      BY <1>0, <3>1, <3>2 DEF IInv, HeadersKept, this
    <3>3. CASE m = pkt
      BY <1>0, <3>1, <3>3, Running DEF IInv, HeadersKept, GetPacketHeaders
    <3> QED
      BY <3>1, <3>2, <3>3
  <2> QED
    BY <1>0, <1>1, <1>3, <1>8, <2>1, <2>2, Running DEF HeadersKept
<1>11. kind = 2 => pkt \in Seen
  <2> SUFFICES ASSUME kind = 2 PROVE pkt \in Seen
    OBVIOUS
  <2>1. GetPacketHeaders(rx[pkt])
    BY <1>0, Running DEF IInv, HeadersKept, GetPacketHeaders
  <2>2. \A m \in PACKETS : m < pkt => GetPacketHeaders(rx[m])
    BY <1>0 DEF IInv, HeadersKept, this
  <2>3. ASSUME NEW n \in 1 .. pkt PROVE GetPacketHeaders(rx[n])
    <3>1. CASE impl = "rust"
      BY <3>1 DEF GetPacketHeaders
    <3>2. CASE impl = "cpp"
      <4>1. n \in DOMAIN rx /\ (n = pkt \/ n < pkt)
        BY <1>0, Running DEF TypeInv
      <4>2. n \in PACKETS
        BY <1>0, <3>2, <4>1 DEF TypeInv, Packet
      <4> QED
        BY <2>1, <2>2, <4>1, <4>2
    <3> QED
      BY <1>0, <3>1, <3>2 DEF TypeInv
  <2>4. Packet(rx[pkt]) /\ pkt \in DOMAIN frames
    BY <1>0, Running DEF TypeInv
  <2> QED
    BY <2>3, <2>4 DEF Seen
<1>12. \A m \in PACKETS : \A q \in 1 .. 4 : ~(m = pkt /\ q = kind) => Done(q, m)' = Done(q, m)
  <2> SUFFICES ASSUME NEW m \in PACKETS, NEW q \in 1 .. 4, ~(m = pkt /\ q = kind)
               PROVE  Done(q, m)' = Done(q, m)
    OBVIOUS
  <2>1. \A k \in DOMAIN NFS : Through(k, m)' <=> Through(k, m) \/ (k = nf /\ m = pkt)
    BY <1>4
  <2>2. NFS[nf].kind = kind
    BY <1>0 DEF this
  <2>3. \A k \in DOMAIN NFS : NFS'[k].kind = q /\ Through(k, m)' <=> NFS[k].kind = q /\ Through(k, m)
    BY <1>5, <2>1, <2>2
  <2> QED
    BY <1>2, <2>3 DEF Done
<1>13. \A m : m = pkt => Cardinality(Done(kind, m)') = Cardinality(Done(kind, m)) + 1
  <2> SUFFICES ASSUME NEW m, m = pkt
               PROVE  Cardinality(Done(kind, m)') = Cardinality(Done(kind, m)) + 1
    OBVIOUS
  <2> DEFINE n == nf
  <2>0. m \in PACKETS /\ n \in DOMAIN NFS /\ NFS[n].kind = kind /\ ~Through(n, m)
    BY <1>0, Running DEF this, Through
  <2>1. n \notin Done(kind, m)
    BY <2>0 DEF Done
  <2>2. \A k \in DOMAIN NFS : Through(k, m)' <=> Through(k, m) \/ k = n
    BY <1>4, <2>0
  <2>3. \A k : k \in Done(kind, m)' <=> k \in Done(kind, m) \/ k = n
    BY <1>2, <1>5, <2>0, <2>2 DEF Done
  <2> HIDE DEF n
  <2>4. Done(kind, m)' = Done(kind, m) \cup {n}
    BY <2>3 DEF Done
  <2> QED
    BY <1>0, <2>1, <2>4, DoneFinite, FS_AddElement
<1>14. Served'
  <2> SUFFICES ASSUME NEW m \in DOMAIN frames
               PROVE  /\ frames'[m].ttl = IF m \in PACKETS /\ (impl = "rust" \/ rx[m].ipv4)
                                 THEN (rx[m].ttl - Cardinality(Done(1, m)')) % 256 ELSE rx[m].ttl
                      /\ frames'[m].mac = IF m \in PACKETS /\ Cardinality(Done(4, m)') % 2 = 1
                                 THEN ~rx[m].mac ELSE rx[m].mac
                      /\ m \notin Seen => frames'[m].flow = rx[m].flow
    BY <1>1, <1>3, <1>9 DEF Served
  <2>1. /\ frames[m].ttl = IF m \in PACKETS /\ (impl = "rust" \/ rx[m].ipv4)
                           THEN (rx[m].ttl - Cardinality(Done(1, m))) % 256 ELSE rx[m].ttl
        /\ frames[m].mac = IF m \in PACKETS /\ Cardinality(Done(4, m)) % 2 = 1
                           THEN ~rx[m].mac ELSE rx[m].mac
        /\ m \notin Seen => frames[m].flow = rx[m].flow
    BY DEF IInv, Served
  <2>2. CASE m # pkt
    <3>1. m \in PACKETS => /\ Cardinality(Done(1, m)') = Cardinality(Done(1, m))
                           /\ Cardinality(Done(4, m)') = Cardinality(Done(4, m))
      BY <1>12, <2>2
    <3> QED
      BY <1>3, <2>1, <2>2, <3>1, Zenon
  <2>3. CASE m = pkt
    <3>0. rx[m] \in Frame
      BY <1>0, <2>3, Running, NetworkFunctionsAssumption DEF TypeInv
    <3>1. m \in PACKETS /\ frames'[m] = packet /\ frames[m] = frame /\ rx[m].ipv4 = frame.ipv4
      BY <1>0, <1>3, <2>3, Running DEF IInv, HeadersKept
    <3>2. m \notin Seen => frames'[m].flow = rx[m].flow
      BY <1>11, <2>1, <2>3, <3>1 DEF flow
    <3>3. /\ kind # 1 => Cardinality(Done(1, m)') = Cardinality(Done(1, m))
          /\ kind = 1 => Cardinality(Done(1, m)') = Cardinality(Done(1, m)) + 1
          /\ kind # 4 => Cardinality(Done(4, m)') = Cardinality(Done(4, m))
          /\ kind = 4 => Cardinality(Done(4, m)') = Cardinality(Done(4, m)) + 1
      <4>1. /\ kind # 1 => Done(1, m)' = Done(1, m)
            /\ kind # 4 => Done(4, m)' = Done(4, m)
        BY <1>12, <3>1
      <4>2. kind = 1 => Cardinality(Done(1, m)') = Cardinality(Done(1, m)) + 1
        BY <1>13, <2>3
      <4>3. kind = 4 => Cardinality(Done(4, m)') = Cardinality(Done(4, m)) + 1
        BY <1>13, <2>3
      <4> QED
        BY <4>1, <4>2, <4>3
    <3>4. Cardinality(Done(1, m)) \in Nat /\ Cardinality(Done(4, m)) \in Nat
      BY <1>0, DoneFinite
    <3>5. rx[m].ttl \in 0 .. 255 /\ rx[m].mac \in BOOLEAN
      BY <3>0 DEF Frame
    <3>6. frames'[m].ttl = IF m \in PACKETS /\ (impl = "rust" \/ rx[m].ipv4)
                           THEN (rx[m].ttl - Cardinality(Done(1, m)')) % 256 ELSE rx[m].ttl
      <4>1. CASE kind = 1 /\ (impl = "rust" \/ rx[m].ipv4)
        <5>1. frame.ttl = (rx[m].ttl - Cardinality(Done(1, m))) % 256
          BY <2>1, <3>1, <4>1
        <5>2. packet.ttl = (frame.ttl + 255) % 256
          BY <3>1, <4>1
        <5>3. packet.ttl = (rx[m].ttl - (Cardinality(Done(1, m)) + 1)) % 256
          BY <3>4, <3>5, <5>1, <5>2, Ages
        <5> QED
          BY <3>1, <3>3, <4>1, <5>3
      <4>2. CASE ~(kind = 1 /\ (impl = "rust" \/ rx[m].ipv4))
        BY <2>1, <3>1, <3>3, <4>2
      <4> QED
        BY <4>1, <4>2
    <3>7. frames'[m].mac = IF m \in PACKETS /\ Cardinality(Done(4, m)') % 2 = 1
                           THEN ~rx[m].mac ELSE rx[m].mac
      <4>1. kind = 4 => (Cardinality(Done(4, m)') % 2 = 1 <=> ~(Cardinality(Done(4, m)) % 2 = 1))
        BY <3>3, <3>4, Parity
      <4>2. kind # 4 => (Cardinality(Done(4, m)') % 2 = 1 <=> Cardinality(Done(4, m)) % 2 = 1)
        BY <3>3
      <4>3. CASE rx[m].mac = TRUE
        BY <2>1, <3>1, <4>1, <4>2, <4>3, Zenon
      <4>4. CASE rx[m].mac = FALSE
        BY <2>1, <3>1, <4>1, <4>2, <4>4, Zenon
      <4> QED
        BY <3>5, <4>3, <4>4, Zenon
    <3> QED
      BY <3>2, <3>6, <3>7
  <2> QED
    BY <2>2, <2>3
<1>15. Cached'
  <2> SUFFICES ASSUME NEW m \in Seen, NEW k \in DOMAIN NFS, Through(k, m)',
                      \A j \in Done(2, m)' : j < k
               PROVE  /\ NFS'[k].kind = 3 /\ frames'[m].flow.src_ip = Zero
                           => frames'[m].flow \in NFS'[k].cache
                      /\ NFS'[k].kind = 4 /\ impl = "rust" => frames'[m].flow \in NFS'[k].cache
    BY <1>1, <1>2, <1>9 DEF Cached
  <2>1. m \in PACKETS /\ m \in DOMAIN frames /\ NFS[k].cache \subseteq NFS'[k].cache
    BY <1>0, <1>2, <1>9, Running DEF Seen, this
  <2>2. CASE k = nf /\ m = pkt
    BY <1>0, <1>2, <1>3, <2>2
  <2>3. CASE ~(k = nf /\ m = pkt)
    <3>1. Through(k, m)
      BY <1>4, <2>1, <2>3
    <3>2. kind = 2 => m # pkt
      <4> SUFFICES ASSUME kind = 2, m = pkt PROVE FALSE
        OBVIOUS
      <4>0. PICK n : n = nf
        OBVIOUS
      <4>1. n \in DOMAIN NFS' /\ NFS'[n].kind = 2 /\ Through(n, m)'
        BY <1>0, <1>2, <1>4, <2>1, <4>0, Running
      <4>2. nf < k
        BY <4>0, <4>1 DEF Done
      <4> QED
        BY <1>0, <3>1, <4>2, Running DEF Through
    <3>3. Done(2, m)' = Done(2, m)
      BY <1>12, <2>1, <3>2
    <3>4. frames'[m].flow = frames[m].flow
      BY <1>3, <2>1, <3>2 DEF flow, frame
    <3> QED
      BY <1>5, <2>1, <3>1, <3>3, <3>4 DEF IInv, Cached
  <2> QED
    BY <2>2, <2>3
<1> QED
  BY <1>6, <1>7, <1>10, <1>14, <1>15 DEF IInv

LEMMA Nf1Step == IInv /\ Nf1DecrementTtl => IInv'
<1> SUFFICES ASSUME IInv, Nf1DecrementTtl PROVE IInv'
  OBVIOUS
<1> DEFINE aged == Age(frame)
<1>1. Turn(1) /\ Processed(this, aged) /\ this.kind = 1
  BY DEF Nf1DecrementTtl, Turn
<1>2. this \in Object /\ ObjectInv(this) /\ frame \in Frame /\ flow = frame.flow
      /\ impl \in {"rust", "cpp"}
  BY <1>1, Running DEF IInv, Turn, TypeInv
<1>3. (frame.ttl + 255) % 256 \in 0 .. 255
  BY <1>2 DEF Frame
<1>4. aged \in Frame
  BY <1>2, <1>3 DEF Age, Frame
<1>5. /\ aged.ipv4 = frame.ipv4 /\ aged.flow = flow /\ aged.mac = frame.mac
      /\ aged.ttl = IF impl = "rust" \/ frame.ipv4 THEN (frame.ttl + 255) % 256 ELSE frame.ttl
  BY <1>2 DEF Age, Frame
<1> HIDE DEF aged
<1> QED
  BY <1>1, <1>2, <1>4, <1>5, ProcessedInv

\* A translation keeps the protocol of what it stamps.
LEMMA Stamped ==
  ASSUME NEW p \in Frame, NEW f \in Flow, f.proto = p.flow.proto
  PROVE  LET s == ipv4_stamp_flow(p, f)
         IN  /\ s \in Frame /\ s.ipv4 = p.ipv4 /\ s.ttl = p.ttl /\ s.mac = p.mac
             /\ s.flow = f /\ s.flow.proto = p.flow.proto
BY DEF ipv4_stamp_flow, Frame

LEMMA NatStep ==
  ASSUME IInv, Turn(2), GetPacketHeaders(frame),
         NEW object \in Object, object.kind = 2, ObjectInv(object), object.cache = this.cache,
         NEW f \in Flow, f.proto = flow.proto,
         Processed(object, ipv4_stamp_flow(frame, f))
  PROVE  IInv'
<1>1. frame \in Frame /\ flow = frame.flow
  BY Running DEF IInv, Turn
<1> DEFINE s == ipv4_stamp_flow(frame, f)
<1>2. s \in Frame /\ s.ipv4 = frame.ipv4 /\ s.ttl = frame.ttl /\ s.mac = frame.mac
      /\ s.flow.proto = flow.proto
  BY <1>1, Stamped
<1> HIDE DEF s
<1> QED
  BY <1>2, ProcessedInv DEF s

LEMMA NatKnownStep == IInv /\ NatKnown => IInv'
<1> SUFFICES ASSUME IInv, NatKnown PROVE IInv'
  OBVIOUS
<1>1. /\ Turn(2) /\ GetPacketHeaders(frame) /\ flow \in DOMAIN this.port_hash
      /\ Processed(this, ipv4_stamp_flow(frame, this.port_hash[flow])) /\ this.kind = 2
  BY DEF NatKnown, Turn
<1>2. this \in Object /\ ObjectInv(this)
  BY <1>1, Running DEF IInv, Turn
<1>3. this.port_hash \in Table(Flow)
  BY <1>2 DEF Object
<1>4. this.port_hash[flow] \in Flow
  BY <1>1, <1>3, TableIs
<1>5. this.port_hash[flow].proto = flow.proto
  BY <1>1, <1>2 DEF ObjectInv, NatInv, ProtocolKept
<1> QED
  BY <1>1, <1>2, <1>4, <1>5, NatStep

\* A translation is judged by its ports and its two tables.
LEMMA SameTables ==
  ASSUME NEW a, NEW b, NatInv(a), b.next_port = a.next_port, b.flow_vec = a.flow_vec,
         b.port_hash = a.port_hash
  PROVE  NatInv(b)
<1>1. \A p : Reply(b, p) = Reply(a, p)
  BY DEF Reply
<1>2. PortsInOrder(b) /\ ProtocolKept(b)
  BY DEF NatInv, PortsInOrder, ProtocolKept
<1>3. EntriesGranted(b)
  BY <1>1 DEF NatInv, EntriesGranted
<1>4. Forward(b)
  <2>1. Forward(a)
    BY DEF NatInv
  <2> QED
    BY <1>1, <2>1, Zenon DEF Forward
<1>5. Reverse(b)
  <2>1. Reverse(a)
    BY DEF NatInv
  <2> QED
    BY <1>1, <2>1, Zenon DEF Reverse
<1> QED
  BY <1>2, <1>3, <1>4, <1>5 DEF NatInv

LEMMA NatNewStep == IInv /\ NatNew => IInv'
<1> SUFFICES ASSUME IInv, NatNew PROVE IInv'
  OBVIOUS
<1> DEFINE p == this.next_port
           v == Put(this.flow_vec, p, flow)
           h == BothWays(this.port_hash, flow, p)
           made == [kind |-> this.kind, next_port |-> p + 1, flow_vec |-> v, port_hash |-> h,
                    cache |-> this.cache]
           granted == [this EXCEPT !.next_port = @ + 1, !.flow_vec = v, !.port_hash = h]
<1>1. /\ Turn(2) /\ GetPacketHeaders(frame) /\ flow \notin DOMAIN this.port_hash
      /\ this.next_port < MAX_PORT /\ this.kind = 2
  BY DEF NatNew, Turn, PortLeft
<1>2. this \in Object /\ ObjectInv(this) /\ flow \in Flow /\ impl \in {"rust", "cpp"}
  BY <1>1, Running DEF IInv, Turn, TypeInv
<1>3. p \in Port
  BY <1>1, <1>2, NetworkFunctionsAssumption DEF Object
<1>4. Processed(granted, ipv4_stamp_flow(frame, Outgoing(flow, p)))
  BY DEF NatNew
<1>5. made \in Object /\ NatInv(made)
  <2>1. PICK g : g = made
    OBVIOUS
  <2> QED
    BY <1>1, <1>2, <2>1, GrantInv DEF ObjectInv
<1> HIDE DEF v, h
<1>6. v \in Table(Port) /\ h \in Table(Flow) /\ p + 1 \in MIN_PORT .. MAX_PORT
  BY <1>5 DEF Object
<1>7. /\ granted \in Object /\ granted.kind = 2 /\ granted.cache = this.cache
      /\ granted.next_port = p + 1 /\ granted.flow_vec = v /\ granted.port_hash = h
  BY <1>1, <1>2, <1>6 DEF Object
<1>8. made.next_port = p + 1 /\ made.flow_vec = v /\ made.port_hash = h
  OBVIOUS
<1> HIDE DEF granted, made
<1>9. ObjectInv(granted)
  BY <1>5, <1>7, <1>8, SameTables DEF ObjectInv
<1>10. Outgoing(flow, p) \in Flow /\ Outgoing(flow, p).proto = flow.proto
  BY <1>2, <1>3, FlowOps
<1> QED
  BY <1>1, <1>4, <1>7, <1>9, <1>10, NatStep

LEMMA NatExhaustedStep == IInv /\ NatExhausted => IInv'
<1> SUFFICES ASSUME IInv, NatExhausted PROVE IInv'
  OBVIOUS
<1>1. Turn(2) /\ GetPacketHeaders(frame) /\ Processed(this, frame) /\ this.kind = 2
  BY DEF NatExhausted, Turn
<1>2. this \in Object /\ ObjectInv(this) /\ frame \in Frame /\ flow = frame.flow
  BY <1>1, Running DEF IInv, Turn
<1> QED
  BY <1>1, <1>2, ProcessedInv

LEMMA Nf3Step == IInv /\ Nf3Acl => IInv'
<1> SUFFICES ASSUME IInv, Nf3Acl PROVE IInv'
  OBVIOUS
<1> DEFINE kept == IF Matches(flow) THEN this.cache \cup {flow} ELSE this.cache
           acl == [this EXCEPT !.cache = kept]
<1>1. Turn(3) /\ GetPacketHeaders(frame) /\ Processed(acl, frame) /\ this.kind = 3
  BY DEF Nf3Acl, Turn
<1>2. this \in Object /\ ObjectInv(this) /\ frame \in Frame /\ flow = frame.flow /\ flow \in Flow
  BY <1>1, Running DEF IInv, Turn
<1>3. /\ kept \in SUBSET Flow /\ this.cache \subseteq kept
      /\ flow.src_ip = Zero => flow \in kept
  BY <1>2 DEF Object, Matches
<1>4. \A f \in kept : f.src_ip = Zero
  BY <1>1, <1>2 DEF ObjectInv, Matches
<1> HIDE DEF kept
<1>5. /\ acl \in Object /\ acl.kind = 3 /\ acl.cache = kept
      /\ acl.next_port = this.next_port /\ acl.flow_vec = this.flow_vec
      /\ acl.port_hash = this.port_hash
  BY <1>1, <1>2, <1>3 DEF Object
<1> HIDE DEF acl
<1>6. ObjectInv(acl)
  BY <1>2, <1>4, <1>5, SameTables DEF ObjectInv
<1> QED
  BY <1>1, <1>2, <1>3, <1>5, <1>6, ProcessedInv

LEMMA Nf4Step == IInv /\ Nf4Maglev => IInv'
<1> SUFFICES ASSUME IInv, Nf4Maglev PROVE IInv'
  OBVIOUS
<1> DEFINE kept == IF impl = "rust" THEN this.cache \cup {flow} ELSE this.cache
           lb == [this EXCEPT !.cache = kept]
           swapped == [frame EXCEPT !.mac = ~@]
<1>1. Turn(4) /\ this.kind = 4
  BY DEF Nf4Maglev, Turn
<1>2. this \in Object /\ ObjectInv(this) /\ frame \in Frame /\ flow = frame.flow /\ flow \in Flow
  BY <1>1, Running DEF IInv, Turn
<1>3. /\ kept \in SUBSET Flow /\ this.cache \subseteq kept
      /\ impl = "rust" => flow \in kept
  BY <1>2 DEF Object
<1>4. Processed(lb, swapped)
  <2>1. CASE impl = "rust"
    BY <2>1 DEF Nf4Maglev, get_index_from_hash, swap_mac
  <2>2. CASE impl # "rust"
    <3>1. lb = this
      BY <1>2, <2>2 DEF Object
    <3> QED
      BY <2>2, <3>1 DEF Nf4Maglev, swap_mac
  <2> QED
    BY <2>1, <2>2
<1> HIDE DEF kept
<1>5. /\ lb \in Object /\ lb.kind = 4 /\ lb.cache = kept
      /\ lb.next_port = this.next_port /\ lb.flow_vec = this.flow_vec
      /\ lb.port_hash = this.port_hash
  BY <1>1, <1>2, <1>3 DEF Object
<1>6. swapped \in Frame /\ swapped.ipv4 = frame.ipv4 /\ swapped.flow = flow
      /\ swapped.ttl = frame.ttl
  BY <1>2 DEF Frame
<1>7. swapped.mac = ~frame.mac
  BY <1>2 DEF Frame
<1> HIDE DEF lb, swapped
<1>8. ObjectInv(lb)
  BY <1>2, <1>5, SameTables DEF ObjectInv
<1> QED
  BY <1>1, <1>2, <1>3, <1>4, <1>5, <1>6, <1>7, <1>8, ProcessedInv

\* A frame without the headers ends the call: it and those behind it are not
\* among those that the second and third function come to.
LEMMA ReturnEarlyStep == IInv /\ ReturnEarly => IInv'
<1> SUFFICES ASSUME IInv, ReturnEarly PROVE IInv'
  OBVIOUS
<1>0. /\ TypeInv /\ pc = "run" /\ this.kind \in {2, 3} /\ ~GetPacketHeaders(frame)
      /\ UNCHANGED <<impl, network_functions, NFS, nfs, rx, frames, PACKETS>>
  BY DEF IInv, ReturnEarly, Turn
<1>1. /\ nf' = nf + 1 /\ pkt' \in PACKETS /\ \A m \in PACKETS : pkt' =< m
      /\ pc' = IF nf = Len(NFS) THEN "idle" ELSE "run"
  BY <1>0 DEF ReturnEarly, NextFunction, First
<1>2. \A m \in PACKETS : ~(m < pkt')
  BY <1>0, <1>1, Running
<1>3. \A m \in PACKETS : \A k \in DOMAIN NFS : Through(k, m)' <=> k < nf \/ k = nf
  BY <1>0, <1>1, <1>2, Running DEF Through
<1>4. TypeInv'
  <2>1. (PACKETS = {m \in DOMAIN rx : Packet(rx[m])})'
    BY <1>0 DEF TypeInv, Packet
  <2>2. pkt' \in 1 .. BATCH_SIZE /\ nf' \in 1 .. Len(NFS) + 1 /\ pc' \in {"idle", "run"}
        /\ (pc' = "run" => nf' \in DOMAIN NFS)
    BY <1>0, <1>1, Running
  <2> QED
    BY <1>0, <1>1, <2>1, <2>2 DEF TypeInv
<1>5. (\A k \in DOMAIN NFS : ObjectInv(NFS[k]))'
  BY <1>0 DEF IInv, ObjectInv, NatInv, PortsInOrder, EntriesGranted, ProtocolKept,
              Forward, Reverse, Reply
<1>6. HeadersKept'
  BY <1>0, <1>2 DEF IInv, HeadersKept
<1>7. Seen' = Seen /\ Seen \subseteq PACKETS
  BY <1>0, SeenArePackets DEF Seen, Packet, GetPacketHeaders
<1>8. \A m \in PACKETS : Done(1, m)' = Done(1, m) /\ Done(4, m)' = Done(4, m)
  <2> SUFFICES ASSUME NEW m \in PACKETS, NEW q \in {1, 4} PROVE Done(q, m)' = Done(q, m)
    OBVIOUS
  <2>1. NFS[nf].kind # q
    BY <1>0 DEF this
  <2>2. \A k \in DOMAIN NFS : NFS[k].kind = q => (Through(k, m)' <=> Through(k, m))
    BY <1>3, <2>1 DEF Through
  <2> QED
    BY <1>0, <2>2 DEF Done
<1>9. Served'
  <2>1. \A m \in PACKETS : Cardinality(Done(1, m)') = Cardinality(Done(1, m))
                           /\ Cardinality(Done(4, m)') = Cardinality(Done(4, m))
    BY <1>8
  <2> QED
    BY <1>0, <1>7, <2>1 DEF IInv, Served
<1>10. \A m \in Seen : \A k \in DOMAIN NFS : Through(k, m)' <=> Through(k, m)
  <2> SUFFICES ASSUME NEW m \in Seen, NEW k \in DOMAIN NFS
               PROVE  Through(k, m)' <=> Through(k, m)
    OBVIOUS
  <2>1. m \in PACKETS /\ m \in Nat
    BY <1>0, <1>7, Running
  <2>2. ~GetPacketHeaders(rx[pkt])
    BY <1>0, Running DEF IInv, HeadersKept, GetPacketHeaders
  <2>3. pkt \notin 1 .. m
    BY <2>2 DEF Seen
  <2>4. m < pkt
    BY <1>0, <2>1, <2>3, Running DEF TypeInv
  <2> QED
    BY <1>0, <1>3, <2>1, <2>4 DEF Through
<1>11. \A m \in Seen : Done(2, m)' = Done(2, m)
  BY <1>0, <1>10 DEF Done
<1>12. Cached'
  BY <1>0, <1>7, <1>10, <1>11 DEF IInv, Cached
<1> QED
  BY <1>4, <1>5, <1>6, <1>9, <1>12 DEF IInv

LEMMA InvStep == IInv /\ [Next]_vars => IInv'
<1> SUFFICES ASSUME IInv, [Next]_vars PROVE IInv'
  OBVIOUS
<1>1. CASE UNCHANGED vars
  <2>0. UNCHANGED <<impl, network_functions, NFS, pc, nfs, nf, pkt, rx, frames, PACKETS>>
    BY <1>1 DEF vars, run_state
  <2>1. TypeInv'
    <3>1. (PACKETS = {m \in DOMAIN rx : Packet(rx[m])})'
      BY <2>0 DEF IInv, TypeInv, Packet
    <3> QED
      BY <2>0, <3>1 DEF IInv, TypeInv
  <2>2. (\A k \in DOMAIN NFS : ObjectInv(NFS[k]))'
    BY <2>0 DEF IInv, ObjectInv, NatInv, PortsInOrder, EntriesGranted, ProtocolKept,
                Forward, Reverse, Reply
  <2>3. HeadersKept'
    BY <2>0 DEF IInv, HeadersKept, GetPacketHeaders
  <2>4. Seen' = Seen
    BY <2>0 DEF Seen, Packet, GetPacketHeaders
  <2>5. \A kind, m : Done(kind, m)' = Done(kind, m)
    BY <2>0 DEF Done, Through
  <2>6. Served'
    BY <2>0, <2>4, <2>5 DEF IInv, Served
  <2>7. Cached'
    BY <2>0, <2>4, <2>5 DEF IInv, Cached, Through
  <2> QED
    BY <2>1, <2>2, <2>3, <2>6, <2>7 DEF IInv
<1>2. CASE Rest
  BY <1>1, <1>2 DEF Rest
<1>3. CASE InitNfs \/ PushNf \/ InitDone \/ RunNfs
  BY <1>3, InitNfsStep, PushNfStep, InitDoneStep, RunNfsStep
<1>4. CASE ProcessFrame
  BY <1>4, Nf1Step, ReturnEarlyStep, NatKnownStep, NatNewStep, NatExhaustedStep, Nf3Step, Nf4Step
     DEF ProcessFrame
<1> QED
  BY <1>1, <1>2, <1>3, <1>4 DEF Next

LEMMA SpecInv == Spec => []IInv
BY InitInv, InvStep, PTL DEF Spec

-----------------------------------------------------------------------------
\* Types, with what keeps a table index in bounds: a translation's ports are
\* granted in order, from MIN_PORT on and never MAX_PORT.
THEOREM TypeCorrect == Spec => []TypeOK
<1>1. ASSUME IInv PROVE TypeOK
  <2>1. ASSUME NEW k \in DOMAIN NFS
        PROVE  /\ NFS[k].kind \in 1 .. 4 /\ NFS[k].next_port \in MIN_PORT .. MAX_PORT
               /\ DOMAIN NFS[k].flow_vec = MIN_PORT .. NFS[k].next_port - 1
               /\ NFS[k].port_hash \in [DOMAIN NFS[k].port_hash -> Flow]
               /\ DOMAIN NFS[k].port_hash \subseteq Flow /\ NFS[k].cache \subseteq Flow
    <3>1. NFS[k] \in Object /\ ObjectInv(NFS[k])
      BY <1>1 DEF IInv, TypeInv
    <3>2. NFS[k].port_hash \in Table(Flow)
      BY <3>1 DEF Object
    <3> QED
      BY <3>1, <3>2, TableIs DEF Object, ObjectInv, NatInv, PortsInOrder
  <2>2. PACKETS \subseteq DOMAIN frames
    BY <1>1 DEF IInv, TypeInv
  <2> QED
    BY <1>1, <2>1, <2>2 DEF IInv, TypeInv, TypeOK
<1> QED
  BY <1>1, SpecInv, PTL

\* In every translation, however many there are and whatever comes: a flow
\* that was granted a port leaves by it, but for the one exception in Rust.
THEOREM FlowsLeaveByTheirPort == Spec => []ForwardEntry
<1>1. IInv => ForwardEntry
  BY DEF IInv, ObjectInv, NatInv, Forward, Reply, ForwardEntry, Nats, RepliesAre
<1> QED
  BY <1>1, SpecInv, PTL

\* ... and what answers it comes back to where it came from, but for the one
\* exception in C++.
THEOREM RepliesComeBack == Spec => []ReverseEntry
<1>1. IInv => ReverseEntry
  BY DEF IInv, ObjectInv, NatInv, Reverse, Reply, ReverseEntry, Nats
<1> QED
  BY <1>1, SpecInv, PTL

\* Between calls the functions a batch went through are those it passed.
LEMMA PassedDone ==
  ASSUME TypeInv, pc = "idle", NEW kind, NEW m
  PROVE  Passed(kind) = Done(kind, m)
<1>1. NFS \in Seq(Object) /\ nf \in 1 .. Len(NFS) + 1
  BY DEF TypeInv
<1>2. \A k : k \in 1 .. nf - 1 <=> k \in DOMAIN NFS /\ k < nf
  BY <1>1
<1> QED
  BY <1>2 DEF Passed, Done, Through

\* When run_nfs returns, the frames were aged and turned around once per
\* function that does so, and the others are as they came.
THEOREM EveryFunctionServed == Spec => []FramesServed
<1>1. ASSUME IInv PROVE FramesServed
  <2> SUFFICES ASSUME pc = "idle", NEW m \in DOMAIN frames
               PROVE  /\ frames[m].ttl = IF Packet(rx[m]) /\ (impl = "rust" \/ rx[m].ipv4)
                                THEN (rx[m].ttl - Cardinality(Passed(1))) % 256 ELSE rx[m].ttl
                      /\ frames[m].mac = IF Packet(rx[m]) /\ Cardinality(Passed(4)) % 2 = 1
                                THEN ~rx[m].mac ELSE rx[m].mac
                      /\ m \notin Seen => frames[m].flow = rx[m].flow
    BY DEF FramesServed
  <2>1. m \in PACKETS <=> Packet(rx[m])
    BY <1>1 DEF IInv, TypeInv
  <2>2. Passed(1) = Done(1, m) /\ Passed(4) = Done(4, m)
    BY <1>1, PassedDone DEF IInv
  <2> QED
    BY <1>1, <2>1, <2>2 DEF IInv, Served
<1> QED
  BY <1>1, SpecInv, PTL

\* The ACL and, in Rust, the load balancer remember every flow that leaves
\* through them as it leaves, if no translation comes behind; the ACL those
\* from address 0 only.
THEOREM CachesHoldWhatLeft == Spec => []CachesWhatLeaves
<1>1. ASSUME IInv PROVE CachesWhatLeaves
  <2> SUFFICES ASSUME pc = "idle", NEW k \in 1 .. nf - 1, \A j \in Passed(2) : j < k, NEW m \in Seen
               PROVE  /\ NFS[k].kind = 3 =>
                           (frames[m].flow \in NFS[k].cache <=> frames[m].flow.src_ip = Zero)
                      /\ NFS[k].kind = 4 /\ impl = "rust" => frames[m].flow \in NFS[k].cache
    BY DEF CachesWhatLeaves
  <2>1. NFS \in Seq(Object) /\ nf \in 1 .. Len(NFS) + 1
    BY <1>1 DEF IInv, TypeInv
  <2>2. k \in DOMAIN NFS /\ Through(k, m)
    BY <2>1 DEF Through
  <2>3. \A j \in Done(2, m) : j < k
    BY <1>1, PassedDone DEF IInv
  <2>4. /\ NFS[k].kind = 3 /\ frames[m].flow.src_ip = Zero => frames[m].flow \in NFS[k].cache
        /\ NFS[k].kind = 4 /\ impl = "rust" => frames[m].flow \in NFS[k].cache
    BY <1>1, <2>2, <2>3 DEF IInv, Cached
  <2>5. NFS[k].kind = 3 => \A f \in NFS[k].cache : f.src_ip = Zero
    BY <1>1, <2>2 DEF IInv, ObjectInv
  <2> QED
    BY <2>4, <2>5
<1> QED
  BY <1>1, SpecInv, PTL
=============================================================================
