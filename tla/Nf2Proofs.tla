----------------------------- MODULE Nf2Proofs -----------------------------
(***************************************************************************)
(* Proofs about network function 2.                                        *)
(*                                                                         *)
(* On any number of lcores: the types, and what the locals of each lcore   *)
(* mean to one another (LocalOK).  A step writes the locals of its own     *)
(* lcore only (OthersKept), so whatever the lcores race on, next_port_     *)
(* stays in its range and no frame is written outside its batch.           *)
(*                                                                         *)
(* On one lcore, the only number for which the rest holds: ports are       *)
(* assigned in order, so none is assigned twice (GrantedBelow), and each   *)
(* pays for the two insertions it leads to (Room).  So the table has room, *)
(* and what a lookup missed is stored in a bucket that was free, with a    *)
(* port that no other bucket has (Entries).  Only a second insertion can   *)
(* write that bucket again, if its key, which nobody initialised, is the   *)
(* flow; of such flows (reversed) nothing is claimed.  For all others what *)
(* was translated is found again (SentStored), under the padding it was    *)
(* stored with, so a further frame of the flow leaves as the first did.    *)
(***************************************************************************)
EXTENDS Nf2, HashMapProofs, FiniteSetTheorems

\* A frame of a batch is a flow or has no headers, and stamping a frame
\* leaves a batch.
LEMMA FramesFacts ==
  ASSUME NEW S, NEW x \in Frames(S)
  PROVE  /\ \A k \in DOMAIN x : x[k] \in S \cup {NotUdp} /\ k \in 1 .. BATCH_SIZE
         /\ \A k \in DOMAIN x, v \in S :
              /\ [x EXCEPT ![k] = v] \in Frames(S)
              /\ DOMAIN [x EXCEPT ![k] = v] = DOMAIN x
         /\ \A k \in DOMAIN x : 1 .. k \subseteq DOMAIN x
         /\ 1 \notin DOMAIN x => DOMAIN x = {}
<1>1. PICK n \in 0 .. BATCH_SIZE : x \in [1 .. n -> S \cup {NotUdp}]
  BY DEF Frames
<1>2. DOMAIN x = 1 .. n /\ n \in Nat
  BY <1>1, Nf2Assumption
<1>3. \A k \in DOMAIN x : x[k] \in S \cup {NotUdp} /\ k \in 1 .. BATCH_SIZE
  BY <1>1, <1>2, Nf2Assumption
<1>4. \A k \in DOMAIN x, v \in S : [x EXCEPT ![k] = v] \in [1 .. n -> S \cup {NotUdp}]
  BY <1>1
<1>5. \A k \in DOMAIN x, v \in S : [x EXCEPT ![k] = v] \in Frames(S)
  BY <1>4 DEF Frames
<1> QED
  BY <1>2, <1>3, <1>5

\* Frames over fewer flows are frames over more.
LEMMA FramesMonotone ==
  ASSUME NEW S, NEW T, S \subseteq T
  PROVE  Frames(S) \subseteq Frames(T)
<1> SUFFICES ASSUME NEW x \in Frames(S) PROVE x \in Frames(T)
  OBVIOUS
<1>1. PICK n \in 0 .. BATCH_SIZE : x \in [1 .. n -> S \cup {NotUdp}]
  BY DEF Frames
<1>2. x \in [1 .. n -> T \cup {NotUdp}]
  BY <1>1
<1> QED
  BY <1>2 DEF Frames

\* A batch has a first frame.
LEMMA BatchHasFirst ==
  ASSUME NEW batch \in Batch
  PROVE  batch \in Frames(WireFlow) /\ 1 \in DOMAIN batch
<1>1. PICK n \in 0 .. BATCH_SIZE : batch \in [1 .. n -> WireFlow \cup {NotUdp}]
  BY DEF Batch, Frames
<1>2. n # 0
  BY <1>1 DEF Batch
<1> QED
  BY <1>1, <1>2, Nf2Assumption DEF Batch

\* No port of the range is the last sixteen-bit number.
LEMMA Wrap ==
  ASSUME NEW p \in MIN_PORT .. MAX_PORT - 1
  PROVE  (p + 1) % 2^16 = p + 1
BY Nf2Assumption

-----------------------------------------------------------------------------
\* Where process_frames has a flow at hand, and where it has a port for it.
WithFlow == {"load", "store", "insert", "reverse", "stamp"}
WithPort == WithFlow \ {"load"}

\* What each lcore's locals mean to each other: i points into the batch, the
\* frames from i on are as they came, and the port at hand is in the range.
LocalOK(c) ==
  /\ DOMAIN packets[c] = DOMAIN rx[c]
  /\ pc[c] # "idle" =>
       /\ i[c] \in DOMAIN packets[c]
       /\ \A m \in DOMAIN rx[c] : i[c] =< m => packets[c][m] = rx[c][m]
  /\ pc[c] \in WithFlow => flow(c) # NotUdp
  /\ pc[c] \in WithPort => assigned[c] \in MIN_PORT .. MAX_PORT - 1

LocalsOK == \A c \in Lcore : LocalOK(c)

\* The flow at hand is one that arrived.
LEMMA FlowArrived ==
  ASSUME TypeOK, NEW c \in Lcore, LocalOK(c), pc[c] # "idle"
  PROVE  /\ i[c] \in DOMAIN rx[c] /\ i[c] \in DOMAIN packets[c] /\ i[c] \in Int
         /\ flow(c) = rx[c][i[c]]
         /\ flow(c) \in WireFlow \cup {NotUdp}
<1>1. rx[c] \in Frames(WireFlow) /\ i[c] \in DOMAIN rx[c] /\ i[c] \in Int
  BY Nf2Assumption DEF TypeOK, LocalOK
<1>2. rx[c][i[c]] \in WireFlow \cup {NotUdp}
  BY <1>1, FramesFacts
<1> QED
  BY <1>1, <1>2 DEF LocalOK, flow

\* The flow a new flow is given.
LEMMA OutgoingFlow ==
  ASSUME TypeOK, NEW c \in Lcore, LocalOK(c), pc[c] \in WithPort
  PROVE  /\ flow(c) \in WireFlow
         /\ outgoing_flow(c) = [peer |-> flow(c).peer, src_port |-> assigned[c]]
         /\ outgoing_flow(c) \in Flow
         /\ Translates(flow(c), outgoing_flow(c))
<1>1. flow(c) \in WireFlow /\ assigned[c] \in MIN_PORT .. MAX_PORT - 1
  BY FlowArrived DEF LocalOK, WithFlow, WithPort
<1>2. flow(c) \in [peer: Peer, src_port: Port] /\ assigned[c] \in Port
  BY <1>1, Nf2Assumption
<1> QED
  BY <1>1, <1>2, Nf2Assumption DEF outgoing_flow, Translates

\* The end of an iteration keeps the locals in order.
LEMMA AdvanceKeeps ==
  ASSUME TypeOK, NEW c \in Lcore, pc[c] # "idle", LocalOK(c), Advance(c),
         UNCHANGED <<rx, stack, assigned>>,
         packets' \in [Lcore -> Frames(Flow)],
         DOMAIN packets'[c] = DOMAIN packets[c],
         \A m \in DOMAIN rx[c] : i[c] + 1 =< m => packets'[c][m] = packets[c][m]
  PROVE  /\ LocalOK(c)'
         /\ i' \in [Lcore -> 0 .. BATCH_SIZE]
         /\ pc' \in [Lcore -> {"idle", "lookup"} \cup WithFlow]
<1>1. i[c] \in Int /\ BATCH_SIZE \in Int /\ packets[c] \in Frames(Flow)
  <2>1. i[c] \in 0 .. BATCH_SIZE /\ packets[c] \in Frames(Flow)
    BY DEF TypeOK
  <2> QED
    BY <2>1, Nf2Assumption
<1>2. \A k \in DOMAIN packets[c] : k \in 1 .. BATCH_SIZE
  BY <1>1, FramesFacts
<1>3. DOMAIN rx[c] = DOMAIN packets[c]
  BY DEF LocalOK
<1>4. \A k \in DOMAIN rx[c] : k \in Int
  BY <1>2, <1>3
<1>5. CASE i[c] + 1 \in DOMAIN packets[c]
  <2>1. /\ i' = [i EXCEPT ![c] = i[c] + 1]
        /\ pc' = [pc EXCEPT ![c] = "lookup"]
    BY <1>5 DEF Advance
  <2>2. i'[c] = i[c] + 1 /\ pc'[c] = "lookup"
    BY <2>1 DEF TypeOK
  <2>3. \A m \in DOMAIN rx[c] : i[c] + 1 =< m => packets'[c][m] = rx[c][m]
    BY <1>1, <1>4 DEF LocalOK
  <2>4. LocalOK(c)'
    BY <1>3, <1>5, <2>2, <2>3 DEF LocalOK, WithFlow, WithPort
  <2> QED
    BY <1>1, <1>2, <1>5, <2>1, <2>4 DEF TypeOK, WithFlow
<1>6. CASE i[c] + 1 \notin DOMAIN packets[c]
  BY <1>3, <1>6 DEF Advance, LocalOK, TypeOK, WithFlow, WithPort
<1> QED
  BY <1>5, <1>6

\* One lcore's locals do not depend on a step of another.
LEMMA OthersKept ==
  ASSUME TypeOK, LocalsOK, NEW c \in Lcore, NEW d \in Lcore, c # d,
         pc'[d] = pc[d], rx'[d] = rx[d], packets'[d] = packets[d],
         i'[d] = i[d], assigned'[d] = assigned[d]
  PROVE  LocalOK(d)'
BY DEF LocalsOK, LocalOK, flow

\* Stamping the frame at hand leaves a batch, changed at that frame only.
LEMMA StampKeeps ==
  ASSUME TypeOK, NEW c \in Lcore, LocalOK(c), pc[c] # "idle", flow(c) # NotUdp,
         NEW out \in Flow, ipv4_stamp_flow(c, out)
  PROVE  /\ packets' \in [Lcore -> Frames(Flow)]
         /\ packets'[c] = [packets[c] EXCEPT ![i[c]] = out]
         /\ DOMAIN packets'[c] = DOMAIN packets[c]
         /\ \A m \in DOMAIN rx[c] : i[c] + 1 =< m => packets'[c][m] = packets[c][m]
         /\ \A d \in Lcore \ {c} : packets'[d] = packets[d]
         /\ sent' \subseteq [flow: Flow, pad: Pad, out: Flow]
<1>1. i[c] \in DOMAIN packets[c] /\ i[c] \in Int /\ flow(c) \in Flow
  BY FlowArrived, Nf2Assumption
<1>8. stack[c].pad \in Pad
  BY DEF TypeOK, Stack
<1>2. packets[c] \in Frames(Flow)
  BY DEF TypeOK
<1>3. [packets[c] EXCEPT ![i[c]] = out] \in Frames(Flow)
  BY <1>1, <1>2, FramesFacts
<1>4. packets' = [packets EXCEPT ![c] = [packets[c] EXCEPT ![i[c]] = out]]
  BY DEF ipv4_stamp_flow
<1>5. packets'[c] = [packets[c] EXCEPT ![i[c]] = out]
  BY <1>4 DEF TypeOK
<1>6. \A k \in DOMAIN packets[c] : k \in Int
  BY <1>2, FramesFacts, Nf2Assumption
<1>7. \A m \in DOMAIN rx[c] : i[c] + 1 =< m => packets'[c][m] = packets[c][m]
  BY <1>1, <1>5, <1>6 DEF LocalOK
<1> QED
  BY <1>1, <1>3, <1>4, <1>5, <1>7, <1>8 DEF TypeOK, ipv4_stamp_flow

\* A lookup finds buckets, and these hold flows.
LEMMA GetTyped ==
  ASSUME HashMapTypeOK, NEW key, NEW pad, NEW s \in maglev_hashmap_get(key, pad)
  PROVE  s \in Slots /\ pairs[s].vaild /\ pairs[s].value \in Flow
BY DEF HashMapTypeOK, Pair, maglev_hashmap_get

\* Insertions keep the buckets well-typed.
LEMMA InsertTyped ==
  ASSUME HashMapTypeOK, NEW key \in Flow, NEW pad \in Pad, NEW value \in Flow,
         maglev_hashmap_insert(key, value, pad)
  PROVE  HashMapTypeOK'
BY BucketsKeep

\* One step of lcore c, any of the ten.
Step(c) ==
  \/ Call(c) \/ ReturnEarly(c) \/ Hit(c) \/ Miss(c) \/ Exhausted(c)
  \/ LoadPort(c) \/ StorePort(c) \/ InsertForward(c) \/ InsertReverse(c)
  \/ StampNew(c)

\* Every step of an lcore keeps the types, and its own locals in order.
LEMMA TypeStep ==
  ASSUME TypeOK, LocalsOK, NEW c \in Lcore, Step(c)
  PROVE  TypeOK' /\ LocalOK(c)'
<1> USE DEF WithFlow, WithPort
<1>0. LocalOK(c)
  BY DEF LocalsOK
<1>1. ASSUME Call(c) PROVE TypeOK' /\ LocalOK(c)'
  <2>1. PICK batch \in Batch, s \in Stack :
          /\ rx' = [rx EXCEPT ![c] = batch]
          /\ packets' = [packets EXCEPT ![c] = batch]
          /\ stack' = [stack EXCEPT ![c] = s]
    BY <1>1 DEF Call
  <2>2. batch \in Frames(WireFlow) /\ batch \in Frames(Flow) /\ 1 \in DOMAIN batch
    BY BatchHasFirst, FramesMonotone, Nf2Assumption
  <2>3. 1 \in 0 .. BATCH_SIZE
    BY Nf2Assumption
  <2>4. TypeOK'
    BY <1>1, <2>1, <2>2, <2>3 DEF TypeOK, Call, HashMapTypeOK
  <2>5. /\ rx'[c] = batch /\ packets'[c] = batch
        /\ i'[c] = 1 /\ pc'[c] = "lookup"
    BY <1>1, <2>1 DEF TypeOK, Call
  <2> QED
    BY <2>2, <2>4, <2>5 DEF LocalOK
<1>2. ASSUME ReturnEarly(c) PROVE TypeOK' /\ LocalOK(c)'
  BY <1>0, <1>2 DEF ReturnEarly, TypeOK, HashMapTypeOK, LocalOK
<1>3. ASSUME Hit(c) PROVE TypeOK' /\ LocalOK(c)'
  <2>1. PICK s \in maglev_hashmap_get(flow(c), stack[c].pad) :
          ipv4_stamp_flow(c, pairs[s].value)
    BY <1>3 DEF Hit
  <2>2. PICK out \in Flow : out = pairs[s].value
    BY <2>1, GetTyped DEF TypeOK
  <2>3. pc[c] = "lookup" /\ flow(c) # NotUdp /\ Advance(c)
        /\ UNCHANGED <<pairs, next_port_, rx, stack, assigned, reversed, granted>>
    BY <1>3 DEF Hit
  <2>4. /\ packets' \in [Lcore -> Frames(Flow)]
        /\ DOMAIN packets'[c] = DOMAIN packets[c]
        /\ \A m \in DOMAIN rx[c] : i[c] + 1 =< m => packets'[c][m] = packets[c][m]
        /\ sent' \subseteq [flow: Flow, pad: Pad, out: Flow]
    BY <1>0, <2>1, <2>2, <2>3, StampKeeps
  <2>5. /\ LocalOK(c)'
        /\ i' \in [Lcore -> 0 .. BATCH_SIZE]
        /\ pc' \in [Lcore -> {"idle", "lookup"} \cup WithFlow]
    BY <1>0, <2>3, <2>4, AdvanceKeeps
  <2> QED
    BY <2>3, <2>4, <2>5 DEF TypeOK, HashMapTypeOK
<1>4. ASSUME Miss(c) PROVE TypeOK' /\ LocalOK(c)'
  BY <1>0, <1>4 DEF Miss, TypeOK, HashMapTypeOK, LocalOK, flow
<1>5. ASSUME Exhausted(c) PROVE TypeOK' /\ LocalOK(c)'
  <2>1. pc[c] = "load" /\ Advance(c)
        /\ UNCHANGED <<pairs, next_port_, rx, packets, stack, assigned, sent, reversed, granted>>
    BY <1>5 DEF Exhausted
  <2>2. /\ LocalOK(c)'
        /\ i' \in [Lcore -> 0 .. BATCH_SIZE]
        /\ pc' \in [Lcore -> {"idle", "lookup"} \cup WithFlow]
    BY <1>0, <2>1, AdvanceKeeps DEF TypeOK
  <2> QED
    BY <2>1, <2>2 DEF TypeOK, HashMapTypeOK
<1>6. ASSUME LoadPort(c) PROVE TypeOK' /\ LocalOK(c)'
  <2>1. next_port_ \in MIN_PORT .. MAX_PORT - 1 /\ next_port_ \in Port
    BY <1>6, Nf2Assumption DEF LoadPort, TypeOK
  <2>2. granted' \in [Port -> Nat]
    BY <1>6, <2>1 DEF LoadPort, TypeOK
  <2>3. TypeOK'
    BY <1>6, <2>2 DEF LoadPort, TypeOK, HashMapTypeOK
  <2> QED
    BY <1>0, <1>6, <2>1, <2>3 DEF LoadPort, TypeOK, LocalOK, flow
<1>7. ASSUME StorePort(c) PROVE TypeOK' /\ LocalOK(c)'
  <2>1. assigned[c] \in MIN_PORT .. MAX_PORT - 1
    BY <1>0, <1>7 DEF StorePort, LocalOK
  <2>2. next_port_' = assigned[c] + 1
    BY <1>7, <2>1, Wrap DEF StorePort
  <2>3. next_port_' \in MIN_PORT .. MAX_PORT
    BY <2>1, <2>2, Nf2Assumption
  <2>4. TypeOK'
    BY <1>7, <2>3 DEF StorePort, TypeOK, HashMapTypeOK
  <2> QED
    BY <1>0, <1>7, <2>4 DEF StorePort, TypeOK, LocalOK, flow
<1>8. ASSUME InsertForward(c) PROVE TypeOK' /\ LocalOK(c)'
  <2>1. flow(c) \in Flow /\ outgoing_flow(c) \in Flow
    BY <1>0, <1>8, OutgoingFlow, Nf2Assumption DEF InsertForward
  <2>2. stack[c].pad \in Pad
    BY DEF TypeOK, Stack
  <2>3. HashMapTypeOK'
    BY <1>8, <2>1, <2>2, InsertTyped DEF InsertForward, TypeOK
  <2>4. TypeOK'
    BY <1>8, <2>3 DEF InsertForward, TypeOK
  <2> QED
    BY <1>0, <1>8, <2>4 DEF InsertForward, TypeOK, LocalOK, flow
<1>9. ASSUME InsertReverse(c) PROVE TypeOK' /\ LocalOK(c)'
  <2>1. PICK q \in [key: Flow, key_pad: Pad, value: Flow] : q = stack[c].reverse
    BY Nf2Assumption DEF TypeOK, Stack
  <2>2. HashMapTypeOK' /\ reversed' \subseteq Flow
    <3>1. maglev_hashmap_insert(q.key, q.value, q.key_pad) /\ reversed' = reversed \cup {q.key}
      BY <1>9, <2>1 DEF InsertReverse
    <3> QED
      BY <3>1, InsertTyped DEF TypeOK
  <2>3. TypeOK'
    BY <1>9, <2>2 DEF InsertReverse, TypeOK
  <2> QED
    BY <1>0, <1>9, <2>3 DEF InsertReverse, TypeOK, LocalOK, flow
<1>10. ASSUME StampNew(c) PROVE TypeOK' /\ LocalOK(c)'
  <2>1. pc[c] = "stamp" /\ ipv4_stamp_flow(c, outgoing_flow(c)) /\ Advance(c)
        /\ UNCHANGED <<pairs, next_port_, rx, stack, assigned, reversed, granted>>
    BY <1>10 DEF StampNew
  <2>2. PICK out \in Flow : out = outgoing_flow(c)
    BY <1>0, <2>1, OutgoingFlow
  <2>3. flow(c) # NotUdp
    BY <1>0, <2>1 DEF LocalOK
  <2>4. /\ packets' \in [Lcore -> Frames(Flow)]
        /\ DOMAIN packets'[c] = DOMAIN packets[c]
        /\ \A m \in DOMAIN rx[c] : i[c] + 1 =< m => packets'[c][m] = packets[c][m]
        /\ sent' \subseteq [flow: Flow, pad: Pad, out: Flow]
    BY <1>0, <2>1, <2>2, <2>3, StampKeeps
  <2>5. /\ LocalOK(c)'
        /\ i' \in [Lcore -> 0 .. BATCH_SIZE]
        /\ pc' \in [Lcore -> {"idle", "lookup"} \cup WithFlow]
    BY <1>0, <2>1, <2>4, AdvanceKeeps
  <2> QED
    BY <2>1, <2>4, <2>5 DEF TypeOK, HashMapTypeOK
<1> QED
  BY <1>1, <1>2, <1>3, <1>4, <1>5, <1>6, <1>7, <1>8, <1>9, <1>10 DEF Step

\* Whatever lcore steps, all locals stay in order: a step writes its own only.
LEMMA LocalsStep ==
  ASSUME TypeOK, LocalsOK, [Next]_vars
  PROVE  TypeOK' /\ LocalsOK'
<1>1. CASE UNCHANGED vars
  BY <1>1 DEF vars, locals, TypeOK, HashMapTypeOK, LocalsOK, LocalOK, flow
<1>2. ASSUME NEW c \in Lcore, Step(c)
      PROVE  TypeOK' /\ LocalsOK'
  <2>1. TypeOK' /\ LocalOK(c)'
    BY <1>2, TypeStep
  <2>2. ASSUME NEW d \in Lcore, c # d
        PROVE  LocalOK(d)'
    <3>1. /\ pc'[d] = pc[d] /\ rx'[d] = rx[d] /\ packets'[d] = packets[d]
          /\ i'[d] = i[d] /\ assigned'[d] = assigned[d]
      BY <1>2, <2>2 DEF TypeOK, Step, Call, ReturnEarly, Hit, Miss, Exhausted, LoadPort,
         StorePort, InsertForward, InsertReverse, StampNew, Advance, ipv4_stamp_flow
    <3> QED
      BY <2>2, <3>1, OthersKept
  <2> QED
    BY <2>1, <2>2 DEF LocalsOK
<1> QED
  BY <1>1, <1>2 DEF Next, Step

\* The inductive invariant of any number of lcores.
LEMMA LocalsInvariant == Spec => [](TypeOK /\ LocalsOK)
<1>1. Init => TypeOK /\ LocalsOK
  <2> SUFFICES ASSUME Init PROVE TypeOK /\ LocalsOK
    OBVIOUS
  <2>1. HashMapTypeOK
    BY HashMapAssumption DEF Init, HashMapInit, HashMapTypeOK, Pair
  <2>2. <<>> \in Frames(WireFlow) /\ <<>> \in Frames(Flow)
    <3>1. \A S : <<>> \in [1 .. 0 -> S \cup {NotUdp}]
      OBVIOUS
    <3>2. 0 \in 0 .. BATCH_SIZE
      BY Nf2Assumption
    <3> QED
      BY <3>1, <3>2 DEF Frames
  <2>3. 0 \in 0 .. BATCH_SIZE /\ MIN_PORT \in MIN_PORT .. MAX_PORT
    BY Nf2Assumption
  <2> QED
    BY <2>1, <2>2, <2>3 DEF Init, TypeOK, LocalsOK, LocalOK, WithFlow, WithPort
<1> QED
  BY <1>1, LocalsStep, PTL DEF Spec

\* The table, next_port_, each lcore's locals and the frames keep their types,
\* on any number of lcores: next_port_ stays in its range although they race
\* on it, and no frame is written outside the batch.
THEOREM Nf2TypeCorrect == Spec => []TypeOK
BY LocalsInvariant, PTL

-----------------------------------------------------------------------------

\* One lcore polls ports.
SingleLcore == \E c \in Lcore : Lcore = {c}

\* No port was assigned that is still to be assigned.
GrantedBelow(c) ==
  /\ pc[c] = "store" => assigned[c] = next_port_
  /\ pc[c] = "insert" => assigned[c] = next_port_ - 1
  /\ \A p \in Port : granted[p] # 0 =>
       /\ granted[p] = 1 /\ p \in MIN_PORT .. MAX_PORT - 1
       /\ p < next_port_ \/ (pc[c] = "store" /\ p = next_port_)

\* Loading and storing next_port_ with nothing in between hands out the ports
\* in order.
LEMMA GrantedStep ==
  ASSUME TypeOK, LocalsOK, NEW c \in Lcore, GrantedBelow(c), Step(c)
  PROVE  GrantedBelow(c)'
<1>0. next_port_ \in MIN_PORT .. MAX_PORT /\ MIN_PORT \in Int /\ MAX_PORT \in Int
  BY Nf2Assumption DEF TypeOK
<1>1. CASE LoadPort(c)
  <2>1. next_port_ \in MIN_PORT .. MAX_PORT - 1 /\ next_port_ \in Port
    BY <1>1, Nf2Assumption DEF LoadPort, TypeOK
  <2>2. granted[next_port_] = 0
    BY <1>0, <1>1, <2>1 DEF GrantedBelow, LoadPort
  <2>3. /\ granted' = [granted EXCEPT ![next_port_] = 1]
        /\ assigned'[c] = next_port_ /\ pc'[c] = "store" /\ next_port_' = next_port_
    BY <1>1, <2>1, <2>2 DEF LoadPort, TypeOK
  <2> QED
    BY <1>0, <1>1, <2>1, <2>3 DEF GrantedBelow, LoadPort, TypeOK
<1>2. CASE StorePort(c)
  <2>1. assigned[c] = next_port_ /\ assigned[c] \in MIN_PORT .. MAX_PORT - 1
    BY <1>2 DEF StorePort, GrantedBelow, LocalsOK, LocalOK, WithFlow, WithPort
  <2>2. next_port_' = next_port_ + 1
    BY <1>2, <2>1, Wrap DEF StorePort
  <2> QED
    BY <1>0, <1>2, <2>1, <2>2 DEF GrantedBelow, StorePort, TypeOK
<1>3. CASE Call(c) \/ ReturnEarly(c) \/ Hit(c) \/ Miss(c) \/ Exhausted(c) \/ StampNew(c)
  <2>1. /\ pc'[c] \notin {"store", "insert"} /\ pc[c] # "store"
        /\ UNCHANGED <<next_port_, granted>>
    BY <1>3 DEF TypeOK, Call, ReturnEarly, Hit, Miss, Exhausted, StampNew, Advance
  <2> QED
    BY <2>1 DEF GrantedBelow
<1>4. CASE InsertForward(c) \/ InsertReverse(c)
  <2>1. /\ pc'[c] \notin {"store", "insert"} /\ pc[c] # "store"
        /\ UNCHANGED <<next_port_, granted>>
    BY <1>4 DEF TypeOK, InsertForward, InsertReverse
  <2> QED
    BY <2>1 DEF GrantedBelow
<1> QED
  BY <1>1, <1>2, <1>3, <1>4 DEF Step

\* On one lcore, every step but a stutter is a step of that lcore.
LEMMA SingleStep ==
  ASSUME NEW c \in Lcore, Lcore = {c}, [Next]_vars
  PROVE  Step(c) \/ UNCHANGED vars
BY DEF Next, Step

-----------------------------------------------------------------------------
\* There are Capacity buckets, and the number of occupied ones is a number.
LEMMA OccupiedFinite ==
  /\ IsFiniteSet(Slots) /\ Cardinality(Slots) = Capacity
  /\ IsFiniteSet(Occupied) /\ Cardinality(Occupied) \in Nat
<1>1. IsFiniteSet(Slots) /\ Cardinality(Slots) = Capacity
  <2>1. 0 \in Int /\ Capacity - 1 \in Int /\ Capacity > 0
    BY HashMapAssumption
  <2> QED
    BY <2>1, FS_Interval, HashMapAssumption DEF Slots
<1>2. Occupied \subseteq Slots
  BY DEF Occupied
<1> QED
  BY <1>1, <1>2, FS_Subset, FS_CardinalityType

\* An insertion occupies one more bucket at most.
LEMMA InsertOccupies ==
  ASSUME HashMapTypeOK, NEW key, NEW pad, NEW value, maglev_hashmap_insert(key, value, pad)
  PROVE  Cardinality(Occupied') \in Nat /\ Cardinality(Occupied') =< Cardinality(Occupied) + 1
<1>0. IsFiniteSet(Occupied) /\ Cardinality(Occupied) \in Nat
  BY OccupiedFinite
<1>1. CASE UNCHANGED pairs
  BY <1>0, <1>1 DEF Occupied
<1>2. ASSUME NEW s \in Slots, pairs' = [pairs EXCEPT ![s] = Written(@, key, value)]
      PROVE  Cardinality(Occupied') \in Nat /\ Cardinality(Occupied') =< Cardinality(Occupied) + 1
  <2>1. Occupied' = Occupied \cup {s}
    BY <1>2 DEF Occupied, HashMapTypeOK, Written
  <2>2. Cardinality(Occupied \cup {s}) \in Nat
    BY <1>0, FS_AddElement
  <2> QED
    BY <1>0, <2>1, <2>2, FS_AddElement
<1> QED
  BY <1>1, <1>2 DEF maglev_hashmap_insert

\* While a bucket is free, a key that was not found is written to a free one.
LEMMA InsertNew ==
  ASSUME HashMapTypeOK, NEW key \in Flow, NEW pad \in Pad, NEW value \in Flow,
         Cardinality(Occupied) < Capacity,
         maglev_hashmap_get(key, pad) = {},
         maglev_hashmap_insert(key, value, pad)
  PROVE  \E s \in Slots :
           /\ ~pairs[s].vaild /\ EndsIn(key, pad, s)
           /\ pairs' = [pairs EXCEPT ![s] = [vaild |-> TRUE, key |-> key, value |-> value]]
<1>1. PICK f \in Slots : ~pairs[f].vaild
  <2>1. Occupied # Slots
    BY OccupiedFinite, HashMapAssumption
  <2> QED
    BY <2>1 DEF Occupied
<1>2. PICK s \in Slots : /\ EndsIn(key, pad, s)
                         /\ pairs' = [pairs EXCEPT ![s] = Written(@, key, value)]
  BY <1>1 DEF maglev_hashmap_insert, Stops
<1>3. ~pairs[s].vaild
  BY <1>2 DEF maglev_hashmap_get
<1>4. Written(pairs[s], key, value) = [vaild |-> TRUE, key |-> key, value |-> value]
  BY HashMapAssumption DEF Written
<1> QED
  BY <1>2, <1>3, <1>4

-----------------------------------------------------------------------------
\* The buckets an insertion still to come in this iteration can take.
Due(c) == IF pc[c] = "insert" THEN 2 ELSE IF pc[c] = "reverse" THEN 1 ELSE 0

Room(c) == Cardinality(Occupied) + Due(c) =< 2 * (next_port_ - MIN_PORT)

\* Each port assigned pays for two insertions.
LEMMA RoomStep ==
  ASSUME TypeOK, LocalsOK, NEW c \in Lcore, GrantedBelow(c), Room(c), Step(c)
  PROVE  Room(c)'
<1>1. Cardinality(Occupied) \in Nat
  BY OccupiedFinite
<1>2. next_port_ \in Int /\ MIN_PORT \in Int
  BY Nf2Assumption DEF TypeOK
<1>3. CASE Call(c) \/ ReturnEarly(c) \/ Hit(c) \/ Miss(c) \/ Exhausted(c) \/ LoadPort(c) \/ StampNew(c)
  <2>1. /\ UNCHANGED <<pairs, next_port_>>
        /\ pc[c] \notin {"insert", "reverse"} /\ pc'[c] \notin {"insert", "reverse"}
    BY <1>3 DEF TypeOK, Call, ReturnEarly, Hit, Miss, Exhausted, LoadPort, StampNew, Advance
  <2> QED
    BY <2>1 DEF Room, Due, Occupied
<1>4. CASE StorePort(c)
  <2>1. UNCHANGED pairs /\ pc[c] = "store" /\ pc'[c] = "insert"
    BY <1>4 DEF StorePort, TypeOK
  <2>2. assigned[c] = next_port_ /\ assigned[c] \in MIN_PORT .. MAX_PORT - 1
    BY <2>1 DEF GrantedBelow, LocalsOK, LocalOK, WithFlow, WithPort
  <2>3. next_port_' = next_port_ + 1
    BY <1>4, <2>2, Wrap DEF StorePort
  <2> QED
    BY <1>1, <1>2, <2>1, <2>3 DEF Room, Due, Occupied
<1>5. CASE InsertForward(c) \/ InsertReverse(c)
  <2>1. UNCHANGED next_port_ /\ Due(c) > 0 /\ Due(c)' = Due(c) - 1 /\ Due(c) \in Int
    BY <1>5 DEF InsertForward, InsertReverse, TypeOK, Due
  <2>2. Cardinality(Occupied') \in Nat /\ Cardinality(Occupied') =< Cardinality(Occupied) + 1
    BY <1>5, InsertOccupies DEF InsertForward, InsertReverse, TypeOK
  <2> QED
    BY <1>1, <1>2, <2>1, <2>2 DEF Room
<1> QED
  BY <1>3, <1>4, <1>5 DEF Step

\* The inductive invariant that needs nothing but one lcore.
LEMMA RoomInvariant ==
  ASSUME NEW c \in Lcore, Lcore = {c}
  PROVE  Spec => [](TypeOK /\ LocalsOK /\ GrantedBelow(c) /\ Room(c))
<1>1. Init => GrantedBelow(c) /\ Room(c)
  <2> SUFFICES ASSUME Init PROVE GrantedBelow(c) /\ Room(c)
    OBVIOUS
  <2>1. Occupied = {} /\ pc[c] = "idle" /\ next_port_ = MIN_PORT
    BY DEF Init, HashMapInit, Occupied
  <2>2. Room(c)
    BY <2>1, FS_EmptySet, Nf2Assumption DEF Room, Due
  <2> QED
    BY <2>2 DEF Init, GrantedBelow
<1>2. TypeOK /\ LocalsOK /\ GrantedBelow(c) /\ Room(c) /\ [Next]_vars => GrantedBelow(c)' /\ Room(c)'
  <2> SUFFICES ASSUME TypeOK, LocalsOK, GrantedBelow(c), Room(c), [Next]_vars
               PROVE  GrantedBelow(c)' /\ Room(c)'
    OBVIOUS
  <2>1. CASE UNCHANGED vars
    BY <2>1 DEF vars, locals, GrantedBelow, Room, Due, Occupied
  <2>2. CASE Step(c)
    BY <2>2, GrantedStep, RoomStep
  <2> QED
    BY <2>1, <2>2, SingleStep
<1> QED
  BY <1>1, <1>2, LocalsInvariant, PTL DEF Spec

\* On one lcore no port is assigned twice.
THEOREM Nf2PortsGrantedOnce == SingleLcore => (Spec => []PortsGrantedOnce)
<1> SUFFICES ASSUME NEW c \in Lcore, Lcore = {c}
             PROVE  Spec => []PortsGrantedOnce
  BY DEF SingleLcore
<1>1. TypeOK /\ GrantedBelow(c) => PortsGrantedOnce
  BY DEF TypeOK, GrantedBelow, PortsGrantedOnce
<1> QED
  BY <1>1, RoomInvariant, PTL

\* On one lcore the table never fills up, so no insertion is ever lost,
\* whatever the hash and the garbage in the reverse entries.
THEOREM Nf2TableHasRoom == SingleLcore => (Spec => []TableHasRoom)
<1> SUFFICES ASSUME NEW c \in Lcore, Lcore = {c}
             PROVE  Spec => []TableHasRoom
  BY DEF SingleLcore
<1>1. TypeOK /\ Room(c) => TableHasRoom
  <2> SUFFICES ASSUME TypeOK, Room(c) PROVE TableHasRoom
    OBVIOUS
  <2>1. Cardinality(Occupied) \in Nat
    BY OccupiedFinite
  <2>2. next_port_ \in Int /\ MIN_PORT \in Int
    BY Nf2Assumption DEF TypeOK
  <2> QED
    BY <2>1, <2>2 DEF Room, Due, TableHasRoom
<1> QED
  BY <1>1, RoomInvariant, PTL

-----------------------------------------------------------------------------
\* The buckets whose flow arrives, and never was the key of a second insertion.
Wire(s) == pairs[s].vaild /\ pairs[s].key \in WireFlow \ reversed

\* Their flows are translated, and no two buckets have a port in common; all
\* these ports were assigned before the one that is about to be inserted.
Entries(c) ==
  /\ \A s \in Slots : Wire(s) =>
       /\ Translates(pairs[s].key, pairs[s].value)
       /\ pairs[s].value.src_port < next_port_
       /\ pc[c] = "insert" => pairs[s].value.src_port < assigned[c]
  /\ \A s, t \in Slots :
       Wire(s) /\ Wire(t) /\ pairs[s].value.src_port = pairs[t].value.src_port => s = t

\* The lookup of f with this padding finds out in bucket s.
Stored(s, f, pad, out) ==
  pairs[s].vaild /\ EndsIn(f, pad, s) /\ pairs[s].value = out

\* The flow at hand is not found until it is inserted, and is then.
Present(c) ==
  /\ pc[c] \in {"load", "store", "insert"} => maglev_hashmap_get(flow(c), stack[c].pad) = {}
  /\ pc[c] \in {"reverse", "stamp"} /\ flow(c) \notin reversed =>
       \E s \in Slots : Stored(s, flow(c), stack[c].pad, outgoing_flow(c))

\* Every translation made is still found.
SentStored ==
  \A r \in sent : r.flow \notin reversed =>
    r.flow \in WireFlow /\ \E s \in Slots : Stored(s, r.flow, r.pad, r.out)

TableOK(c) == GrantedBelow(c) /\ Room(c) /\ Entries(c) /\ Present(c) /\ SentStored

\* What is found in a bucket is the flow's own.
LEMMA StoredWire ==
  ASSUME NEW f \in WireFlow, f \notin reversed, NEW pad \in Pad, NEW out,
         NEW s \in Slots, Stored(s, f, pad, out)
  PROVE  Wire(s) /\ pairs[s].key = f /\ pairs[s].value = out
<1>1. pairs[s].key = f
  BY DEF Stored, EndsIn, Stops
<1> QED
  BY <1>1 DEF Stored, Wire

\* It goes on being found while buckets keep their keys, and the flow's their
\* values.
LEMMA StoredKept ==
  ASSUME NEW f \in Flow, NEW pad \in Pad, NEW out, NEW s \in Slots, Stored(s, f, pad, out),
         \A t \in Slots : pairs[t].vaild => pairs'[t].vaild /\ pairs'[t].key = pairs[t].key,
         \A t \in Slots : pairs[t].vaild /\ pairs[t].key = f => pairs'[t] = pairs[t]
  PROVE  Stored(s, f, pad, out)'
<1>1. pairs[s].vaild /\ EndsIn(f, pad, s) /\ pairs[s].key = f
  BY DEF Stored, EndsIn, Stops
<1>2. pairs'[s] = pairs[s] /\ pairs'[s].key = f
  BY <1>1
<1>3. EndsIn(f, pad, s)'
  BY <1>1, <1>2, EndsKept
<1> QED
  BY <1>2, <1>3 DEF Stored

LEMMA SentKept ==
  ASSUME TypeOK, SentStored, sent' = sent, reversed \subseteq reversed',
         \A t \in Slots : pairs[t].vaild => pairs'[t].vaild /\ pairs'[t].key = pairs[t].key,
         \A t \in Slots : pairs[t].vaild /\ pairs[t].key \notin reversed' => pairs'[t] = pairs[t]
  PROVE  SentStored'
<1> SUFFICES ASSUME NEW r \in sent, r.flow \notin reversed'
             PROVE  /\ r.flow \in WireFlow
                    /\ \E s \in Slots : Stored(s, r.flow, r.pad, r.out)'
  BY DEF SentStored
<1>1. PICK f \in WireFlow : f = r.flow
  BY DEF SentStored
<1>2. PICK pad \in Pad : pad = r.pad
  BY DEF TypeOK
<1>3. PICK out \in Flow : out = r.out
  BY DEF TypeOK
<1>4. PICK s \in Slots : Stored(s, f, pad, out)
  BY <1>1, <1>2, <1>3 DEF SentStored
<1>5. f \in Flow /\ \A t \in Slots : pairs[t].vaild /\ pairs[t].key = f => pairs'[t] = pairs[t]
  BY <1>1, Nf2Assumption
<1>6. Stored(s, f, pad, out)'
  BY <1>4, <1>5, StoredKept
<1> QED
  BY <1>1, <1>2, <1>3, <1>6

\* Stamping what the lookup of a flow finds is a step of Translation, and is
\* stored.
LEMMA StampIsTranslate ==
  ASSUME TypeOK, NEW c \in Lcore, TableOK(c), UNCHANGED <<pairs, reversed>>,
         NEW f \in WireFlow, NEW pad \in Pad, NEW out \in Flow,
         f \notin reversed => \E s \in Slots : Stored(s, f, pad, out),
         sent' = sent \cup {[flow |-> f, pad |-> pad, out |-> out]}
  PROVE  SentStored' /\ [Abstract!Next]_<<Live, reversed>>
<1>1. SentStored'
  <2> SUFFICES ASSUME NEW r \in sent', r.flow \notin reversed
               PROVE  r.flow \in WireFlow /\ \E s \in Slots : Stored(s, r.flow, r.pad, r.out)'
    BY DEF SentStored
  <2>1. r.flow \in WireFlow /\ \E s \in Slots : Stored(s, r.flow, r.pad, r.out)
    BY DEF TableOK, SentStored
  <2> QED
    BY <2>1 DEF Stored, EndsIn, Stops
<1>2. CASE f \in reversed
  BY <1>1, <1>2 DEF Live
<1>3. CASE f \notin reversed
  <2>1. PICK s \in Slots : Stored(s, f, pad, out)
    BY <1>3
  <2>2. Wire(s) /\ pairs[s].key = f /\ pairs[s].value = out
    BY <1>3, <2>1, StoredWire
  <2>3. Translates(f, out)
    BY <2>2 DEF TableOK, Entries
  <2>4. out.peer = f.peer /\ MIN_PORT =< out.src_port /\ out.src_port < MAX_PORT
    BY <2>3, Nf2Assumption DEF Translates
  <2>5. ASSUME NEW r \in Live
        PROVE  /\ r.flow = f /\ r.pad = pad => r.out = out
               /\ r.out.src_port = out.src_port => r.flow = f
    <3>1. r \in sent /\ r.flow \notin reversed
      BY DEF Live
    <3>2. PICK t \in Slots : Stored(t, r.flow, r.pad, r.out)
      BY <3>1 DEF TableOK, SentStored
    <3>3. r.flow \in WireFlow /\ r.pad \in Pad
      BY <3>1 DEF TableOK, SentStored, TypeOK
    <3>4. Wire(t) /\ pairs[t].key = r.flow /\ pairs[t].value = r.out
      BY <3>1, <3>2, <3>3, StoredWire
    <3>5. ASSUME r.flow = f, r.pad = pad PROVE r.out = out
      <4>1. f \in Flow
        BY Nf2Assumption
      <4>2. s = t
        BY <2>1, <3>2, <3>5, <4>1, EndsOnce DEF Stored
      <4> QED
        BY <2>2, <3>4, <4>2
    <3>6. ASSUME r.out.src_port = out.src_port PROVE r.flow = f
      BY <2>2, <3>4, <3>6 DEF TableOK, Entries
    <3> QED
      BY <3>5, <3>6
  <2>6. Live' = Live \cup {[flow |-> f, pad |-> pad, out |-> out]}
    BY <1>3 DEF Live
  <2>7. Abstract!Translate(f, pad, out)
    BY <1>3, <2>4, <2>5, <2>6 DEF Abstract!Translate
  <2>8. f \in Flow
    BY Nf2Assumption
  <2> QED
    BY <1>1, <2>7, <2>8 DEF Abstract!Next
<1> QED
  BY <1>2, <1>3

\* Steps that leave the table, next_port_ and the history alone.
LEMMA QuietStep ==
  ASSUME TypeOK, LocalsOK, NEW c \in Lcore, TableOK(c),
         \/ Call(c) \/ ReturnEarly(c) \/ Miss(c) \/ Exhausted(c) \/ LoadPort(c)
  PROVE  TableOK(c)'
<1>1. UNCHANGED <<pairs, next_port_, sent, reversed>>
  BY DEF Call, ReturnEarly, Miss, Exhausted, LoadPort
<1>2. GrantedBelow(c)'
  BY GrantedStep DEF Step, TableOK
<1>3. SentStored'
  BY <1>1 DEF TableOK, SentStored, Stored, EndsIn, Stops
<1>4. /\ pc[c] \notin {"insert", "reverse"}
      /\ pc'[c] \notin {"insert", "reverse", "stamp"}
  BY DEF TypeOK, Call, ReturnEarly, Miss, Exhausted, LoadPort, Advance
<1>5. Room(c)' /\ Entries(c)'
  BY <1>1, <1>4, RoomStep DEF TableOK, Step, Entries, Wire
<1>6. Present(c)'
  <2>1. CASE Call(c) \/ ReturnEarly(c) \/ Exhausted(c)
    <3>1. pc'[c] \in {"idle", "lookup"}
      BY <2>1 DEF TypeOK, Call, ReturnEarly, Exhausted, Advance
    <3> QED
      BY <3>1 DEF Present
  <2>2. CASE Miss(c) \/ LoadPort(c)
    <3>1. maglev_hashmap_get(flow(c), stack[c].pad) = {}
      BY <2>2 DEF Miss, LoadPort, TableOK, Present
    <3>2. /\ flow(c)' = flow(c) /\ stack' = stack
          /\ pc'[c] \in {"load", "store"}
      BY <2>2 DEF Miss, LoadPort, TypeOK, flow
    <3> QED
      BY <1>1, <3>1, <3>2 DEF Present, maglev_hashmap_get, EndsIn, Stops
  <2> QED
    BY <2>1, <2>2
<1> QED
  BY <1>2, <1>3, <1>5, <1>6 DEF TableOK

\* Steps that stamp: the frame leaves with what the lookup of its flow finds,
\* if no second insertion hit on the flow.
LEMMA StampStep ==
  ASSUME TypeOK, LocalsOK, NEW c \in Lcore, TableOK(c), Hit(c) \/ StampNew(c)
  PROVE  /\ TableOK(c)'
         /\ [Abstract!Next]_<<Live, reversed>>
         /\ flow(c) \in WireFlow
         /\ \E out \in Flow : /\ ipv4_stamp_flow(c, out)
                              /\ flow(c) \notin reversed => Translates(flow(c), out)
<1>1. UNCHANGED <<pairs, next_port_, reversed>> /\ pc[c] \in {"lookup", "stamp"}
  BY DEF Hit, StampNew
<1>2. GrantedBelow(c)'
  BY GrantedStep DEF Step, TableOK
<1>3. pc'[c] \in {"idle", "lookup"}
  BY DEF TypeOK, Hit, StampNew, Advance
<1>4. Room(c)' /\ Entries(c)' /\ Present(c)'
  BY <1>1, <1>3, RoomStep DEF Step, TableOK, Entries, Wire, Present
<1>5. PICK f \in WireFlow : f = flow(c)
  <2>1. LocalOK(c) /\ flow(c) # NotUdp
    BY DEF LocalsOK, LocalOK, Hit, StampNew, WithFlow
  <2> QED
    BY <1>1, <2>1, FlowArrived
<1>6. PICK pad \in Pad : pad = stack[c].pad
  BY DEF TypeOK, Stack
<1>7. PICK out \in Flow : /\ ipv4_stamp_flow(c, out)
                          /\ f \notin reversed => \E s \in Slots : Stored(s, f, pad, out)
  <2>1. CASE Hit(c)
    <3>1. PICK s \in maglev_hashmap_get(f, pad) : ipv4_stamp_flow(c, pairs[s].value)
      BY <1>5, <1>6, <2>1 DEF Hit
    <3>2. s \in Slots /\ pairs[s].value \in Flow
      BY GetTyped DEF TypeOK
    <3>3. Stored(s, f, pad, pairs[s].value)
      BY DEF maglev_hashmap_get, Stored
    <3> QED
      BY <3>1, <3>2, <3>3
  <2>2. CASE StampNew(c)
    <3>1. ipv4_stamp_flow(c, outgoing_flow(c)) /\ pc[c] = "stamp"
      BY <2>2 DEF StampNew
    <3>2. outgoing_flow(c) \in Flow
      BY <3>1, OutgoingFlow DEF LocalsOK, WithFlow, WithPort
    <3> QED
      BY <1>5, <1>6, <3>1, <3>2 DEF TableOK, Present
  <2> QED
    BY <2>1, <2>2
<1>8. SentStored' /\ [Abstract!Next]_<<Live, reversed>>
  BY <1>1, <1>5, <1>6, <1>7, StampIsTranslate DEF ipv4_stamp_flow
<1>9. ASSUME f \notin reversed PROVE Translates(f, out)
  <2>1. PICK s \in Slots : Stored(s, f, pad, out)
    BY <1>7, <1>9
  <2>2. Wire(s) /\ pairs[s].key = f /\ pairs[s].value = out
    BY <1>9, <2>1, StoredWire
  <2> QED
    BY <2>2 DEF TableOK, Entries
<1> QED
  BY <1>2, <1>4, <1>5, <1>7, <1>8, <1>9 DEF TableOK

\* When next_port_ advances, all ports stored are below the one assigned.
LEMMA StoreStep ==
  ASSUME TypeOK, LocalsOK, NEW c \in Lcore, TableOK(c), StorePort(c)
  PROVE  TableOK(c)'
<1>1. GrantedBelow(c)'
  BY GrantedStep DEF Step, TableOK
<1>2. /\ UNCHANGED <<pairs, sent, reversed, stack>>
      /\ pc[c] = "store" /\ pc'[c] = "insert"
  BY DEF StorePort, TypeOK
<1>3. assigned[c] = next_port_ /\ assigned[c] \in MIN_PORT .. MAX_PORT - 1
  BY <1>2 DEF TableOK, GrantedBelow, LocalsOK, LocalOK, WithFlow, WithPort
<1>4. next_port_' = next_port_ + 1 /\ assigned'[c] = next_port_
  BY <1>3, Wrap DEF StorePort
<1>5. SentStored'
  BY <1>2 DEF TableOK, SentStored, Stored, EndsIn, Stops
<1>6. next_port_ \in Int /\ MIN_PORT \in Int
  BY Nf2Assumption DEF TypeOK
<1>7. Room(c)'
  BY RoomStep DEF Step, TableOK
<1>8. Entries(c)'
  <2>1. \A s \in Slots : Wire(s) =>
          pairs[s].value.src_port \in Int /\ pairs[s].value.src_port < next_port_
    BY Nf2Assumption DEF TableOK, Entries, Translates
  <2> QED
    BY <1>2, <1>4, <1>6, <2>1 DEF TableOK, Entries, Wire, Translates
<1>9. Present(c)'
  <2>1. flow(c)' = flow(c) /\ maglev_hashmap_get(flow(c), stack[c].pad) = {}
    BY <1>2 DEF StorePort, TableOK, Present, flow
  <2> QED
    BY <1>2, <2>1 DEF Present, maglev_hashmap_get, EndsIn, Stops
<1> QED
  BY <1>1, <1>5, <1>7, <1>8, <1>9 DEF TableOK

\* The first insertion adds a bucket with a port of its own, in which the
\* flow is found from then on.
LEMMA ForwardStep ==
  ASSUME TypeOK, LocalsOK, NEW c \in Lcore, TableOK(c), InsertForward(c)
  PROVE  TableOK(c)'
<1>1. /\ UNCHANGED <<next_port_, sent, reversed, assigned, stack>>
      /\ pc[c] = "insert" /\ pc'[c] = "reverse"
  BY DEF InsertForward, TypeOK
<1>2. LocalOK(c)
  BY DEF LocalsOK
<1>3. assigned[c] \in MIN_PORT .. MAX_PORT - 1 /\ assigned[c] = next_port_ - 1
  BY <1>1, <1>2 DEF TableOK, GrantedBelow, LocalOK, WithFlow, WithPort
<1>4. PICK f \in WireFlow : f = flow(c)
  BY <1>1, <1>2, OutgoingFlow DEF WithFlow, WithPort
<1>5. PICK o \in Flow : o = outgoing_flow(c) /\ o.src_port = assigned[c] /\ Translates(f, o)
  BY <1>1, <1>2, <1>4, OutgoingFlow DEF WithFlow, WithPort
<1>6. PICK p \in Pad : p = stack[c].pad
  BY DEF TypeOK, Stack
<1>7. maglev_hashmap_insert(f, o, p) /\ f \in Flow
  BY <1>4, <1>5, <1>6, Nf2Assumption DEF InsertForward
<1>8. maglev_hashmap_get(f, p) = {}
  BY <1>1, <1>4, <1>6 DEF TableOK, Present
<1>9. /\ Cardinality(Occupied) \in Nat /\ next_port_ \in MIN_PORT .. MAX_PORT
      /\ MIN_PORT \in Int /\ MAX_PORT \in Int /\ Capacity \in Int
  <2>1. Cardinality(Occupied) \in Nat
    BY OccupiedFinite
  <2>2. next_port_ \in MIN_PORT .. MAX_PORT
    BY DEF TypeOK
  <2>3. MIN_PORT \in Int /\ MAX_PORT \in Int
    BY Nf2Assumption
  <2> QED
    BY <2>1, <2>2, <2>3, HashMapAssumption
<1>10. Cardinality(Occupied) + 2 =< 2 * (next_port_ - MIN_PORT)
  BY <1>1 DEF TableOK, Room, Due
<1>11. Cardinality(Occupied) < Capacity
  BY <1>9, <1>10, Nf2Assumption
<1>12. PICK s \in Slots :
         /\ ~pairs[s].vaild /\ EndsIn(f, p, s)
         /\ pairs' = [pairs EXCEPT ![s] = [vaild |-> TRUE, key |-> f, value |-> o]]
  BY <1>7, <1>8, <1>11, InsertNew DEF TypeOK
<1>13. /\ pairs'[s] = [vaild |-> TRUE, key |-> f, value |-> o]
       /\ \A t \in Slots : t # s => pairs'[t] = pairs[t]
  BY <1>12 DEF TypeOK, HashMapTypeOK
<1>14. GrantedBelow(c)'
  BY GrantedStep DEF Step, TableOK
<1>15. /\ \A t \in Slots : pairs[t].vaild => pairs'[t].vaild /\ pairs'[t].key = pairs[t].key
       /\ \A t \in Slots : pairs[t].vaild => pairs'[t] = pairs[t]
  BY <1>12, <1>13
<1>16. SentStored'
  BY <1>1, <1>15, SentKept DEF TableOK
<1>17. Room(c)'
  BY RoomStep DEF Step, TableOK
<1>18. Entries(c)'
  <2>1. \A t \in Slots : Wire(t) =>
          /\ Translates(pairs[t].key, pairs[t].value)
          /\ pairs[t].value.src_port < assigned[c]
          /\ pairs[t].value.src_port \in Int
    BY <1>1, Nf2Assumption DEF TableOK, Entries, Translates
  <2>2. ASSUME NEW t \in Slots, Wire(t)'
        PROVE  /\ Translates(pairs'[t].key, pairs'[t].value)
               /\ pairs'[t].value.src_port < next_port_
    <3>1. CASE t = s
      BY <1>3, <1>5, <1>9, <1>13, <3>1
    <3>2. CASE t # s
      <4>1. Wire(t) /\ pairs'[t] = pairs[t]
        BY <1>1, <1>13, <2>2, <3>2 DEF Wire
      <4> QED
        BY <1>3, <1>9, <2>1, <4>1
    <3> QED
      BY <3>1, <3>2
  <2>3. ASSUME NEW t \in Slots, NEW u \in Slots, Wire(t)', Wire(u)',
               pairs'[t].value.src_port = pairs'[u].value.src_port
        PROVE  t = u
    <3>1. CASE t # s /\ u # s
      BY <1>1, <1>13, <2>3, <3>1 DEF TableOK, Entries, Wire
    <3>2. CASE t = s \/ u = s
      <4>1. \A v \in Slots : v # s /\ Wire(v)' => pairs'[v].value.src_port # assigned[c]
        BY <1>1, <1>3, <1>9, <1>13, <2>1 DEF Wire
      <4> QED
        BY <1>5, <1>13, <2>3, <3>2, <4>1
    <3> QED
      BY <3>1, <3>2
  <2> QED
    BY <1>1, <2>2, <2>3 DEF Entries, Translates
<1>19. Present(c)'
  <2>1. flow(c)' = f /\ outgoing_flow(c)' = o /\ stack'[c].pad = p
    BY <1>4, <1>5, <1>6 DEF InsertForward, flow, outgoing_flow
  <2>2. EndsIn(f, p, s)'
    BY <1>7, <1>12, <1>13, <1>15, EndsKept
  <2>3. Stored(s, f, p, o)'
    BY <1>13, <2>2 DEF Stored
  <2> QED
    BY <1>1, <2>1, <2>3 DEF Present
<1> QED
  BY <1>14, <1>16, <1>17, <1>18, <1>19 DEF TableOK

\* The second insertion writes a free bucket or one with its own key, which
\* is spoiled with that; all other buckets stay as they are.
LEMMA ReverseStep ==
  ASSUME TypeOK, LocalsOK, NEW c \in Lcore, TableOK(c), InsertReverse(c)
  PROVE  TableOK(c)' /\ [Abstract!Next]_<<Live, reversed>>
<1>1. /\ UNCHANGED <<next_port_, sent, assigned, stack>>
      /\ pc[c] = "reverse" /\ pc'[c] = "stamp"
  BY DEF InsertReverse, TypeOK
<1>2. PICK q \in [key: Flow, key_pad: Pad, value: Flow] : q = stack[c].reverse
  BY Nf2Assumption DEF TypeOK, Stack
<1>3. PICK k \in Flow : k = q.key
  BY <1>2
<1>4. maglev_hashmap_insert(k, q.value, q.key_pad) /\ reversed' = reversed \cup {k}
  BY <1>2, <1>3 DEF InsertReverse
<1>5. /\ \A t \in Slots : pairs[t].vaild => pairs'[t].vaild /\ pairs'[t].key = pairs[t].key
      /\ \A t \in Slots : pairs[t].vaild /\ pairs[t].key # k => pairs'[t] = pairs[t]
  BY <1>2, <1>4, BucketsKeep DEF TypeOK
<1>6. \A t \in Slots : Wire(t)' => Wire(t) /\ pairs'[t] = pairs[t]
  <2>1. CASE UNCHANGED pairs
    BY <1>4, <2>1 DEF Wire
  <2>2. ASSUME NEW s \in Slots, pairs' = [pairs EXCEPT ![s] = Written(@, k, q.value)]
        PROVE  \A t \in Slots : Wire(t)' => Wire(t) /\ pairs'[t] = pairs[t]
    <3>1. pairs'[s].key = k /\ \A t \in Slots : t # s => pairs'[t] = pairs[t]
      BY <2>2 DEF TypeOK, HashMapTypeOK, Written
    <3> QED
      BY <1>4, <3>1 DEF Wire
  <2> QED
    BY <1>4, <2>1, <2>2 DEF maglev_hashmap_insert
<1>7. GrantedBelow(c)'
  BY GrantedStep DEF Step, TableOK
<1>8. SentStored'
  BY <1>1, <1>4, <1>5, SentKept DEF TableOK
<1>9. Room(c)'
  BY RoomStep DEF Step, TableOK
<1>10. Entries(c)'
  BY <1>1, <1>6 DEF TableOK, Entries, Translates
<1>11. Present(c)'
  <2>1. PICK f \in WireFlow : f = flow(c)
    BY <1>1, OutgoingFlow DEF LocalsOK, WithFlow, WithPort
  <2>2. PICK o \in Flow : o = outgoing_flow(c)
    BY <1>1, OutgoingFlow DEF LocalsOK, WithFlow, WithPort
  <2>3. PICK p \in Pad : p = stack[c].pad
    BY DEF TypeOK, Stack
  <2>4. flow(c)' = f /\ outgoing_flow(c)' = o /\ stack'[c].pad = p
    BY <2>1, <2>2, <2>3 DEF InsertReverse, flow, outgoing_flow
  <2>5. ASSUME f \notin reversed'
        PROVE  \E s \in Slots : Stored(s, f, p, o)'
    <3>1. PICK s \in Slots : Stored(s, f, p, o)
      BY <1>1, <1>4, <2>1, <2>2, <2>3, <2>5 DEF TableOK, Present
    <3>2. f \in Flow /\ f # k
      BY <1>4, <2>5, Nf2Assumption
    <3>3. Stored(s, f, p, o)'
      BY <1>5, <3>1, <3>2, StoredKept
    <3> QED
      BY <3>3
  <2> QED
    BY <1>1, <2>4, <2>5 DEF Present
<1>12. Live' = {r \in Live : r.flow # k}
  BY <1>1, <1>4 DEF Live
<1>13. Abstract!Spoil(k)
  BY <1>4, <1>12 DEF Abstract!Spoil
<1> QED
  <2>1. TableOK(c)'
    BY <1>7, <1>8, <1>9, <1>10, <1>11 DEF TableOK
  <2>2. Abstract!Next
    BY <1>13 DEF Abstract!Next
  <2> QED
    BY <2>1, <2>2

\* Every step keeps the invariant, and is a step of Translation or stutters.
LEMMA TableStep ==
  ASSUME TypeOK, LocalsOK, NEW c \in Lcore, Lcore = {c}, TableOK(c), [Next]_vars
  PROVE  TableOK(c)' /\ [Abstract!Next]_<<Live, reversed>>
<1>1. CASE UNCHANGED vars
  <2>1. /\ UNCHANGED <<pairs, next_port_, sent, reversed, granted>>
        /\ UNCHANGED <<pc, packets, i, stack, assigned>>
    BY <1>1 DEF vars, locals
  <2>2. GrantedBelow(c)' /\ Room(c)' /\ Entries(c)'
    BY <2>1 DEF TableOK, GrantedBelow, Room, Due, Occupied, Entries, Wire
  <2>3. Present(c)'
    <3>1. flow(c)' = flow(c) /\ outgoing_flow(c)' = outgoing_flow(c)
      BY <2>1 DEF flow, outgoing_flow
    <3>2. \A f, pad : maglev_hashmap_get(f, pad)' = maglev_hashmap_get(f, pad)
      BY <2>1 DEF maglev_hashmap_get, EndsIn, Stops
    <3>3. \A s, f, pad, out : Stored(s, f, pad, out)' <=> Stored(s, f, pad, out)
      BY <2>1 DEF Stored, EndsIn, Stops
    <3> QED
      BY <2>1, <3>1, <3>2, <3>3 DEF TableOK, Present
  <2>4. SentStored'
    BY <2>1 DEF TableOK, SentStored, Stored, EndsIn, Stops
  <2> QED
    BY <2>1, <2>2, <2>3, <2>4 DEF TableOK, Live
<1>2. CASE Hit(c) \/ StampNew(c)
  BY <1>2, StampStep
<1>3. CASE Call(c) \/ ReturnEarly(c) \/ Miss(c) \/ Exhausted(c) \/ LoadPort(c)
  <2>1. UNCHANGED <<sent, reversed>>
    BY <1>3 DEF Call, ReturnEarly, Miss, Exhausted, LoadPort
  <2> QED
    BY <1>3, <2>1, QuietStep DEF Live
<1>4. CASE StorePort(c)
  <2>1. UNCHANGED <<sent, reversed>>
    BY <1>4 DEF StorePort
  <2> QED
    BY <1>4, <2>1, StoreStep DEF Live
<1>5. CASE InsertForward(c)
  <2>1. UNCHANGED <<sent, reversed>>
    BY <1>5 DEF InsertForward
  <2> QED
    BY <1>5, <2>1, ForwardStep DEF Live
<1>6. CASE InsertReverse(c)
  BY <1>6, ReverseStep
<1> QED
  BY <1>1, <1>2, <1>3, <1>4, <1>5, <1>6, SingleStep DEF Step

\* An empty table and an empty history.
LEMMA TableInit ==
  ASSUME NEW c \in Lcore, Init
  PROVE  TableOK(c) /\ Abstract!Init
<1>1. \A s \in Slots : ~pairs[s].vaild
  BY DEF Init, HashMapInit
<1>2. Occupied = {}
  BY <1>1 DEF Occupied
<1>3. /\ pc[c] = "idle" /\ next_port_ = MIN_PORT /\ sent = {} /\ reversed = {}
      /\ \A p \in Port : granted[p] = 0
  BY DEF Init
<1>4. Room(c)
  BY <1>2, <1>3, FS_EmptySet, Nf2Assumption DEF Room, Due
<1> QED
  BY <1>1, <1>3, <1>4 DEF TableOK, GrantedBelow, Entries, Wire, Present, SentStored,
     Live, Abstract!Init

\* The inductive invariant of one lcore.
LEMMA TableInvariant ==
  ASSUME NEW c \in Lcore, Lcore = {c}
  PROVE  Spec => [](TypeOK /\ LocalsOK /\ TableOK(c))
<1>1. Init => TableOK(c)
  BY TableInit
<1>2. TypeOK /\ LocalsOK /\ TableOK(c) /\ [Next]_vars => TableOK(c)'
  BY TableStep
<1> QED
  BY <1>1, <1>2, LocalsInvariant, PTL DEF Spec

\* On one lcore, whatever the hash makes of the padding and whatever the
\* reverse entries hold: the frames of a flow that no reverse entry hit on
\* leave as one flow for each padding.
THEOREM Nf2FlowAffinity == SingleLcore => (Spec => []FlowAffinity)
<1> SUFFICES ASSUME NEW c \in Lcore, Lcore = {c}
             PROVE  Spec => []FlowAffinity
  BY DEF SingleLcore
<1>1. TypeOK /\ TableOK(c) => FlowAffinity
  <2> SUFFICES ASSUME TypeOK, TableOK(c), NEW q \in sent, NEW r \in sent,
                      q.flow = r.flow, q.pad = r.pad, q.flow \notin reversed
               PROVE  q.out = r.out
    BY DEF FlowAffinity
  <2>1. PICK f \in WireFlow : f = q.flow
    BY DEF TableOK, SentStored
  <2>2. PICK pad \in Pad : pad = q.pad
    BY DEF TypeOK
  <2>3. PICK s \in Slots : Stored(s, f, pad, q.out)
    BY <2>1, <2>2 DEF TableOK, SentStored
  <2>4. PICK t \in Slots : Stored(t, f, pad, r.out)
    BY <2>1, <2>2 DEF TableOK, SentStored
  <2>5. f \in Flow
    BY Nf2Assumption
  <2>6. s = t
    BY <2>3, <2>4, <2>5, EndsOnce DEF Stored
  <2> QED
    BY <2>3, <2>4, <2>6 DEF Stored
<1> QED
  BY <1>1, TableInvariant, PTL

\* ... and the network function implements Translation: no two of these flows
\* share a port, and each keeps the ports it was given.
THEOREM Nf2ImplementsTranslation == SingleLcore => (Spec => RefinesTranslation)
<1> SUFFICES ASSUME NEW c \in Lcore, Lcore = {c}
             PROVE  Spec => RefinesTranslation
  BY DEF SingleLcore
<1>1. Init => Abstract!Init
  BY TableInit
<1>2. TypeOK /\ LocalsOK /\ TableOK(c) /\ [Next]_vars => [Abstract!Next]_<<Live, reversed>>
  BY TableStep
<1> QED
  BY <1>1, <1>2, TableInvariant, PTL DEF Spec, RefinesTranslation, Abstract!Spec

-----------------------------------------------------------------------------
\* The n-th frame of lcore c's call is done: translated, or its flow hit on
\* by a reverse entry, or left as it came for want of ports.
Done(c, n) ==
  /\ rx[c][n] # NotUdp
  /\ \/ Translates(rx[c][n], packets[c][n]) \/ rx[c][n] \in reversed
     \/ packets[c][n] = rx[c][n] /\ next_port_ = MAX_PORT

\* While a call runs, the frames before the one at hand are done.
Behind(c) ==
  pc[c] # "idle" => \A n \in DOMAIN rx[c] : n < i[c] => Done(c, n)

\* The conjunct of BatchTranslated for one lcore.
Returned(c) ==
  pc[c] = "idle" =>
    \A n \in DOMAIN rx[c] :
      \/ /\ \A m \in 1 .. n : rx[c][m] # NotUdp
         /\ Translates(rx[c][n], packets[c][n]) \/ rx[c][n] \in reversed
      \/ /\ packets[c][n] = rx[c][n]
         /\ \/ next_port_ = MAX_PORT
            \/ \E m \in 1 .. n : rx[c][m] = NotUdp

\* The positions of a call's frames.
LEMMA Positions ==
  ASSUME TypeOK, NEW c \in Lcore
  PROVE  \A n \in DOMAIN rx[c] : n \in Int /\ 1 =< n /\ 1 .. n \subseteq DOMAIN rx[c]
<1>1. rx[c] \in Frames(WireFlow)
  BY DEF TypeOK
<1> QED
  BY <1>1, FramesFacts, Nf2Assumption

\* The end of an iteration that did its frame: either there is a next frame,
\* or all are done.
LEMMA DoneAdvance ==
  ASSUME TypeOK, NEW c \in Lcore, LocalOK(c), Behind(c), pc[c] # "idle", Advance(c),
         UNCHANGED <<rx, next_port_, reversed>>, NEW k \in Int, k = i[c], Done(c, k)',
         \A n \in DOMAIN rx[c] : n < k => packets'[c][n] = packets[c][n]
  PROVE  Behind(c)' /\ Returned(c)'
<1>1. DOMAIN packets[c] = DOMAIN rx[c] /\ k \in DOMAIN rx[c]
  BY DEF LocalOK
<1>2. \A n \in DOMAIN rx[c] : n =< k => Done(c, n)'
  <2>1. \A n \in DOMAIN rx[c] : n \in Int
    BY Positions
  <2>2. \A n \in DOMAIN rx[c] : n < k => Done(c, n)'
    BY DEF Behind, Done
  <2> QED
    BY <2>1, <2>2
<1>3. CASE k + 1 \in DOMAIN rx[c]
  <2>1. pc'[c] = "lookup" /\ i'[c] = k + 1
    BY <1>1, <1>3 DEF Advance, TypeOK
  <2>2. \A n \in DOMAIN rx[c] : n < k + 1 => n =< k
    BY Positions
  <2> QED
    BY <1>2, <2>1, <2>2 DEF Behind, Returned
<1>4. CASE k + 1 \notin DOMAIN rx[c]
  <2>1. pc'[c] = "idle"
    BY <1>1, <1>4 DEF Advance, TypeOK
  <2>2. \A n \in DOMAIN rx[c] : n =< k
    <3>1. 1 =< k
      BY <1>1, Positions
    <3>2. \A n \in DOMAIN rx[c] : n \in Int /\ k + 1 \notin 1 .. n
      BY <1>4, Positions
    <3> QED
      BY <3>1, <3>2
  <2>3. \A n \in DOMAIN rx[c] : Done(c, n)'
    BY <1>2, <2>2
  <2>4. \A n \in DOMAIN rx[c] : \A m \in 1 .. n : rx'[c][m] # NotUdp
    BY <2>3, Positions DEF Done
  <2> QED
    BY <2>1, <2>3, <2>4 DEF Behind, Returned, Done
<1> QED
  BY <1>3, <1>4

\* Steps that neither end an iteration nor touch the frames.
LEMMA BehindKept ==
  ASSUME TypeOK, NEW c \in Lcore, Behind(c), pc[c] # "idle", pc'[c] # "idle",
         UNCHANGED <<rx, packets, i>>, reversed \subseteq reversed',
         next_port_ = MAX_PORT => next_port_' = MAX_PORT
  PROVE  Behind(c)' /\ Returned(c)'
BY DEF Behind, Done, Returned

\* Every step keeps the frames behind the one at hand done.
LEMMA BatchStep ==
  ASSUME TypeOK, LocalsOK, NEW c \in Lcore, TableOK(c), Behind(c), Step(c)
  PROVE  Behind(c)' /\ Returned(c)'
<1>0. LocalOK(c)
  BY DEF LocalsOK
<1>1. CASE Call(c)
  <2>1. pc'[c] = "lookup" /\ i'[c] = 1
    BY <1>1 DEF Call, TypeOK
  <2>2. PICK batch \in Batch : rx'[c] = batch
    BY <1>1 DEF Call, TypeOK
  <2>3. \A n \in DOMAIN rx'[c] : n \in Int /\ ~(n < 1)
    BY <2>2, BatchHasFirst, FramesFacts, Nf2Assumption
  <2> QED
    BY <2>1, <2>3 DEF Behind, Returned
<1>2. CASE ReturnEarly(c)
  <2>1. /\ pc[c] = "lookup" /\ flow(c) = NotUdp /\ pc'[c] = "idle"
        /\ UNCHANGED <<rx, packets, i, next_port_, reversed>>
    BY <1>2 DEF ReturnEarly, TypeOK
  <2>2. PICK k \in DOMAIN rx[c] : k = i[c] /\ rx[c][k] = NotUdp
    BY <1>0, <2>1, FlowArrived
  <2>3. \A n \in DOMAIN rx[c] : n \in Int /\ (k =< n => k \in 1 .. n)
    BY Positions
  <2>4. \A n \in DOMAIN rx[c] : k =< n => packets[c][n] = rx[c][n]
    BY <1>0, <2>1, <2>2 DEF LocalOK
  <2>5. \A n \in DOMAIN rx[c] : n < k => Done(c, n)
    BY <2>1, <2>2 DEF Behind
  <2>6. \A n \in DOMAIN rx[c] : n < k => \A m \in 1 .. n : rx[c][m] # NotUdp
    BY <2>2, <2>5, Positions DEF Done
  <2>7. \A n \in DOMAIN rx[c] : n < k \/ k =< n
    BY <2>2, <2>3
  <2> QED
    BY <2>1, <2>2, <2>3, <2>4, <2>5, <2>6, <2>7 DEF Behind, Returned, Done
<1>3. CASE Hit(c) \/ StampNew(c)
  <2>1. PICK out \in Flow : /\ ipv4_stamp_flow(c, out)
                            /\ flow(c) \notin reversed => Translates(flow(c), out)
    BY <1>3, StampStep
  <2>2. UNCHANGED <<rx, next_port_, reversed>> /\ Advance(c) /\ pc[c] # "idle"
    BY <1>3 DEF Hit, StampNew
  <2>3. PICK k \in Int : k = i[c] /\ k \in DOMAIN rx[c] /\ k \in DOMAIN packets[c]
                         /\ rx[c][k] = flow(c)
    BY <1>0, <2>2, FlowArrived
  <2>4. flow(c) # NotUdp
    BY <1>3, StampStep, Nf2Assumption
  <2>5. packets'[c] = [packets[c] EXCEPT ![k] = out]
    BY <1>0, <2>1, <2>2, <2>3, <2>4, StampKeeps
  <2>6. Translates(rx[c][k], out) \/ rx[c][k] \in reversed
    BY <2>1, <2>3
  <2>7. packets'[c][k] = out /\ rx'[c][k] = rx[c][k] /\ reversed' = reversed
    BY <2>2, <2>3, <2>5
  <2>8. Done(c, k)'
    BY <2>3, <2>4, <2>6, <2>7 DEF Done, Translates
  <2>9. \A n \in DOMAIN rx[c] : n < k => packets'[c][n] = packets[c][n]
    BY <1>0, <2>5, Positions DEF LocalOK
  <2> QED
    BY <1>0, <2>2, <2>3, <2>8, <2>9, DoneAdvance
<1>4. CASE Exhausted(c)
  <2>1. /\ UNCHANGED <<rx, packets, next_port_, reversed>> /\ Advance(c) /\ pc[c] = "load"
        /\ next_port_ >= MAX_PORT
    BY <1>4 DEF Exhausted
  <2>2. PICK k \in Int : k = i[c] /\ k \in DOMAIN rx[c] /\ rx[c][k] = flow(c)
    BY <1>0, <2>1, FlowArrived
  <2>3. flow(c) # NotUdp
    BY <1>0, <2>1 DEF LocalOK, WithFlow
  <2>4. next_port_ = MAX_PORT
    BY <2>1, Nf2Assumption DEF TypeOK
  <2>5. Done(c, k)'
    BY <2>1, <2>2, <2>3, <2>4 DEF Done, flow
  <2> QED
    BY <1>0, <2>1, <2>2, <2>5, DoneAdvance
<1>5. CASE Miss(c) \/ LoadPort(c) \/ InsertForward(c) \/ InsertReverse(c)
  <2>1. /\ pc[c] # "idle" /\ pc'[c] # "idle"
        /\ UNCHANGED <<rx, packets, i, next_port_>> /\ reversed \subseteq reversed'
    BY <1>5 DEF TypeOK, Miss, LoadPort, InsertForward, InsertReverse
  <2> QED
    BY <2>1, BehindKept
<1>6. CASE StorePort(c)
  <2>1. /\ pc[c] = "store" /\ pc'[c] = "insert"
        /\ UNCHANGED <<rx, packets, i, reversed>>
    BY <1>6 DEF StorePort, TypeOK
  <2>2. next_port_ # MAX_PORT
    BY <1>0, <2>1, Nf2Assumption DEF TableOK, GrantedBelow, LocalOK, WithFlow, WithPort
  <2> QED
    BY <2>1, <2>2, BehindKept
<1> QED
  BY <1>1, <1>2, <1>3, <1>4, <1>5, <1>6 DEF Step

\* ... and when a call returns, each of its frames up to the first without
\* the headers is translated, or its flow was hit on by a reverse entry, or
\* it is as it came because all ports are assigned.
THEOREM Nf2BatchTranslated == SingleLcore => (Spec => []BatchTranslated)
<1> SUFFICES ASSUME NEW c \in Lcore, Lcore = {c}
             PROVE  Spec => []BatchTranslated
  BY DEF SingleLcore
<1>1. Init => Behind(c) /\ Returned(c)
  <2> SUFFICES ASSUME Init PROVE Behind(c) /\ Returned(c)
    OBVIOUS
  <2>1. pc[c] = "idle" /\ DOMAIN rx[c] = {}
    BY DEF Init
  <2> QED
    BY <2>1 DEF Behind, Returned
<1>2. TypeOK /\ LocalsOK /\ TableOK(c) /\ Behind(c) /\ Returned(c) /\ [Next]_vars
        => Behind(c)' /\ Returned(c)'
  <2> SUFFICES ASSUME TypeOK, LocalsOK, TableOK(c), Behind(c), Returned(c), [Next]_vars
               PROVE  Behind(c)' /\ Returned(c)'
    OBVIOUS
  <2>1. CASE UNCHANGED vars
    BY <2>1 DEF vars, locals, Behind, Returned, Done
  <2>2. CASE Step(c)
    BY <2>2, BatchStep
  <2> QED
    BY <2>1, <2>2, SingleStep
<1>3. Returned(c) => BatchTranslated
  BY DEF Returned, BatchTranslated
<1> QED
  BY <1>1, <1>2, <1>3, TableInvariant, PTL DEF Spec
=============================================================================
