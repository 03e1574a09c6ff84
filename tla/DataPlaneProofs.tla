--------------------------- MODULE DataPlaneProofs ---------------------------
(***************************************************************************)
(* The forwarding loop, for any lcores, ports, mbufs, bursts, batches and  *)
(* queue lengths.  The frames of a port stand in a line: those its TX      *)
(* queue holds, those the lcore that polls it has in hand, and those its   *)
(* RX queue holds.  Each step lets a frame enter at the end of one line or *)
(* leave at its front, drops some that stand side by side, or moves no     *)
(* frame at all.  All that is said of the mbufs follows from this.         *)
(***************************************************************************)
EXTENDS DataPlane, SequenceTheorems, FiniteSetTheorems, TLAPS

\* Where an lcore is, its locals have been assigned.
Local(c) ==
  /\ pc[c] \notin {"start", "done"} => rx_port_list[c] # <<>>
  /\ pc[c] \notin {"start", "while", "done"} => at[c] \in DOMAIN rx_port_list[c]
  /\ pc[c] \in {"headers", "nfs", "free"} =>
       \A j \in 1 .. nb_rx[c] : pkts_burst[c][j] \in Mbuf
  /\ pc[c] = "free" => nb_tx[c] < nb_rx[c]

\* A TX queue holds no more than there are descriptors for.
QueueRoom == \A p \in Portid : Len(txq[p]) =< nb_txd

\* The ports are closed after the last lcore has returned.
ClosedAfter == started = Portid \/ \A c \in Lcore : pc[c] = "done"

LoopInv ==
  TypeOK /\ (\A c \in Lcore : Local(c)) /\ QueueRoom /\ ClosedAfter

-----------------------------------------------------------------------------
LEMMA LesserIs ==
  \A m, n \in Int : /\ Lesser(m, n) \in {m, n} /\ Lesser(m, n) =< m /\ Lesser(m, n) =< n
BY DEF Lesser

LEMMA Sizes ==
  /\ MAX_PKT_BURST \in Nat /\ BATCH_SIZE \in Nat /\ MAX_PKT_BURST >= 1 /\ BATCH_SIZE >= 1
  /\ nb_txd \in Nat
BY DataPlaneAssumption

Counters == [rx: Nat, processed: Nat, tx: Nat]

LEMMA Counted ==
  ASSUME NEW s \in Counters, NEW n \in Nat
  PROVE  /\ [s EXCEPT !.rx = @ + n] \in Counters
         /\ [s EXCEPT !.processed = @ + n] \in Counters
         /\ [s EXCEPT !.tx = @ + n] \in Counters
BY DEF Counters

LEMMA PortCounted ==
  ASSUME port_statistics \in [Portid -> Counters], NEW p \in Portid, NEW n \in Nat,
         \/ port_statistics' = [port_statistics EXCEPT ![p].rx = @ + n]
         \/ port_statistics' = [port_statistics EXCEPT ![p].processed = @ + n]
         \/ port_statistics' = [port_statistics EXCEPT ![p].tx = @ + n]
  PROVE  port_statistics' \in [Portid -> Counters]
<1>1. PICK s \in Counters : s = port_statistics[p]
  OBVIOUS
<1>2. PICK r \in Counters : port_statistics' = [port_statistics EXCEPT ![p] = r]
  BY <1>1, Counted, Zenon
<1> QED
  BY <1>2

\* The port an lcore is at is one of those that are enabled.
LEMMA AtPort ==
  ASSUME TypeOK, NEW c \in Lcore, at[c] \in DOMAIN rx_port_list[c]
  PROVE  portid(c) \in Portid
<1>1. rx_port_list[c] \in Seq(Portid)
  BY DataPlaneAssumption
<1> QED
  BY <1>1, ElementOfSeq DEF portid

\* A burst is a sequence, and so is each part of it.
LEMMA PartOfBurst ==
  ASSUME NEW b \in [Burst -> Mbuf \cup {Uninit}], NEW m \in Nat \ {0}, NEW n \in 0 .. MAX_PKT_BURST,
         \A j \in m .. n : b[j] \in Mbuf
  PROVE  /\ SubSeq(b, m, n) \in Seq(Mbuf)
         /\ Len(SubSeq(b, m, n)) = IF m =< n THEN n - m + 1 ELSE 0
         /\ \A i \in 1 .. n - m + 1 : SubSeq(b, m, n)[i] = b[m + i - 1]
BY SubSeqProperties, DataPlaneAssumption

-----------------------------------------------------------------------------
LEMMA LoopInit == Init => LoopInv
<1> SUFFICES ASSUME Init PROVE LoopInv
  OBVIOUS
<1>1. TypeOK
  <2>1. /\ pool = Mbuf /\ started = Portid /\ force_quit = FALSE
        /\ rxq = [p \in Portid |-> <<>>] /\ txq = [p \in Portid |-> <<>>]
        /\ port_statistics = [p \in Portid |-> [rx |-> 0, processed |-> 0, tx |-> 0]]
        /\ runs = [m \in Mbuf |-> 0] /\ main \in Lcore
    BY DEF Init
  <2>2. /\ eth_hdrs_burst = [j \in Burst |-> Uninit]
        /\ pkts_burst = [c \in Lcore |-> [j \in Burst |-> Uninit]]
    BY DEF Init
  <2>3. /\ eth_hdrs_burst \in [Burst -> Mbuf \cup {Uninit}]
        /\ pkts_burst \in [Lcore -> [Burst -> Mbuf \cup {Uninit}]]
    BY <2>2
  <2>4. /\ pc = [c \in Lcore |-> "start"] /\ at = [c \in Lcore |-> 1]
        /\ nb_rx = [c \in Lcore |-> 0] /\ nb_tx = [c \in Lcore |-> 0]
        /\ off = [c \in Lcore |-> 0]
    BY DEF Init
  <2>5. port_statistics \in [Portid -> [rx: Nat, processed: Nat, tx: Nat]]
    BY <2>1
  <2>6. rxq \in [Portid -> Seq(Mbuf)] /\ txq \in [Portid -> Seq(Mbuf)]
    BY <2>1
  <2>7. nb_rx \in [Lcore -> 0 .. MAX_PKT_BURST] /\ nb_tx \in [Lcore -> 0 .. MAX_PKT_BURST]
    BY <2>4, DataPlaneAssumption
  <2>8. /\ pc \in [Lcore -> {"start", "while", "rx", "headers", "nfs", "free", "count", "check",
                             "done", "undefined"}]
        /\ at \in [Lcore -> Nat \ {0}] /\ off \in [Lcore -> Nat] /\ runs \in [Mbuf -> Nat]
    BY <2>1, <2>4
  <2> QED
    BY <2>1, <2>3, <2>5, <2>6, <2>7, <2>8 DEF TypeOK
<1>2. (\A c \in Lcore : Local(c)) /\ ClosedAfter
  BY DEF Init, Local, ClosedAfter
<1>3. QueueRoom
  BY DataPlaneAssumption DEF Init, QueueRoom
<1> QED
  BY <1>1, <1>2, <1>3 DEF LoopInv

\* The steps of the NICs and of main().
LEMMA LoopArrive ==
  ASSUME LoopInv, NEW p \in Portid, Arrive(p) \/ Sent(p) \/ ClosePort(p)
  PROVE  LoopInv'
<1>0. /\ TypeOK /\ UNCHANGED <<main, force_quit, port_statistics, eth_hdrs_burst, pc, locals>>
      /\ UNCHANGED <<at, pkts_burst, nb_rx, nb_tx, off>>
  BY DEF LoopInv, Arrive, Sent, ClosePort, locals
<1>1. /\ pool' \subseteq Mbuf /\ started' \subseteq Portid /\ runs' \in [Mbuf -> Nat]
      /\ rxq' \in [Portid -> Seq(Mbuf)] /\ txq' \in [Portid -> Seq(Mbuf)]
      /\ \A q \in Portid : Len(txq'[q]) =< nb_txd
  <2>1. CASE Arrive(p)
    <3>1. PICK m \in pool : /\ pool' = pool \ {m}
                            /\ rxq' = [rxq EXCEPT ![p] = Append(@, m)]
                            /\ runs' = [runs EXCEPT ![m] = 0]
      BY <2>1 DEF Arrive
    <3>2. Append(rxq[p], m) \in Seq(Mbuf)
      BY <1>0, AppendProperties DEF TypeOK
    <3> QED
      BY <1>0, <2>1, <3>1, <3>2 DEF TypeOK, Arrive, LoopInv, QueueRoom
  <2>2. CASE Sent(p)
    <3>1. /\ Head(txq[p]) \in Mbuf /\ Tail(txq[p]) \in Seq(Mbuf)
          /\ Len(Tail(txq[p])) = Len(txq[p]) - 1 /\ Len(txq[p]) \in Nat
      BY <1>0, <2>2, HeadTailProperties, LenProperties DEF TypeOK, Sent
    <3>2. /\ pool' = pool \cup {Head(txq[p])} /\ txq' = [txq EXCEPT ![p] = Tail(@)]
          /\ UNCHANGED <<rxq, started, runs>>
      BY <2>2 DEF Sent
    <3>3. /\ pool' \subseteq Mbuf /\ started' \subseteq Portid /\ runs' \in [Mbuf -> Nat]
          /\ rxq' \in [Portid -> Seq(Mbuf)] /\ txq' \in [Portid -> Seq(Mbuf)]
      BY <1>0, <3>1, <3>2 DEF TypeOK
    <3>4. \A q \in Portid : Len(txq[q]) =< nb_txd
      BY DEF LoopInv, QueueRoom
    <3>5. nb_txd \in Nat /\ txq \in [Portid -> Seq(Mbuf)]
      BY <1>0, Sizes DEF TypeOK
    <3>6. Len(Tail(txq[p])) =< nb_txd
      BY <3>1, <3>4, <3>5
    <3>7. \A q \in Portid : txq'[q] = IF q = p THEN Tail(txq[p]) ELSE txq[q]
      BY <3>2, <3>5
    <3> QED
      BY <3>3, <3>4, <3>6, <3>7
  <2>3. CASE ClosePort(p)
    <3>1. \A j \in DOMAIN rxq[p] : rxq[p][j] \in Mbuf
      BY <1>0, ElementOfSeq, LenProperties DEF TypeOK
    <3>2. \A j \in DOMAIN txq[p] : txq[p][j] \in Mbuf
      BY <1>0, ElementOfSeq, LenProperties DEF TypeOK
    <3>3. /\ pool' = pool \cup {rxq[p][j] : j \in DOMAIN rxq[p]} \cup {txq[p][j] : j \in DOMAIN txq[p]}
          /\ started' = started \ {p}
          /\ rxq' = [rxq EXCEPT ![p] = <<>>] /\ txq' = [txq EXCEPT ![p] = <<>>]
          /\ UNCHANGED runs
      BY <2>3 DEF ClosePort
    <3>4. Len(<<>>) =< nb_txd
      BY DataPlaneAssumption
    <3>5. pool' \subseteq Mbuf
      BY <1>0, <3>1, <3>2, <3>3 DEF TypeOK
    <3> QED
      BY <1>0, <3>3, <3>4, <3>5 DEF TypeOK, LoopInv, QueueRoom
  <2> QED
    BY <2>1, <2>2, <2>3
<1>2. TypeOK'
  BY <1>0, <1>1 DEF TypeOK
<1>3. (\A c \in Lcore : Local(c))'
  BY <1>0 DEF LoopInv, Local
<1>4. ClosedAfter'
  BY <1>0 DEF LoopInv, ClosedAfter, Arrive, Sent, ClosePort
<1> QED
  BY <1>1, <1>2, <1>3, <1>4 DEF LoopInv, QueueRoom

\* The steps of an lcore.  Another lcore's locals are left alone.
LEMMA LocalKept ==
  ASSUME NEW c \in Lcore, Local(c),
         pc'[c] = pc[c], at'[c] = at[c], nb_rx'[c] = nb_rx[c], nb_tx'[c] = nb_tx[c],
         pkts_burst'[c] = pkts_burst[c]
  PROVE  Local(c)'
BY DEF Local

LEMMA LoopTurn ==
  ASSUME LoopInv, NEW c \in Lcore, Launch(c) \/ While(c) \/ GetHeaders(c) \/ RunNfs(c) \/ CheckQuit(c)
  PROVE  LoopInv'
<1>0. TypeOK /\ Local(c) /\ UNCHANGED <<main, nic, port_statistics, pkts_burst, nb_rx, nb_tx>>
  BY DEF LoopInv, Launch, While, GetHeaders, RunNfs, CheckQuit, locals
<1>1. /\ pc' \in [Lcore -> {"start", "while", "rx", "headers", "nfs", "free", "count", "check",
                            "done", "undefined"}]
      /\ at' \in [Lcore -> Nat \ {0}] /\ off' \in [Lcore -> Nat]
      /\ \A d \in Lcore : d # c => pc'[d] = pc[d] /\ at'[d] = at[d]
  <2>1. PICK label \in {"while", "rx", "nfs", "done"} : pc' = [pc EXCEPT ![c] = label] \/ pc' = pc
    BY Zenon DEF Launch, While, GetHeaders, RunNfs, CheckQuit, Goto
  <2>2. at' = [at EXCEPT ![c] = 1] \/ at' = at
    BY DEF Launch, While, GetHeaders, RunNfs, CheckQuit, locals
  <2>3. off' = [off EXCEPT ![c] = 0] \/ off' = [off EXCEPT ![c] = @ + BATCH_SIZE] \/ off' = off
    BY DEF Launch, While, GetHeaders, RunNfs, CheckQuit, locals
  <2>4. off' \in [Lcore -> Nat]
    <3>1. off \in [Lcore -> Nat] /\ off[c] \in Nat /\ off[c] + BATCH_SIZE \in Nat
      BY <1>0, Sizes DEF TypeOK
    <3> QED
      BY <2>3, <3>1
  <2>5. pc \in [Lcore -> {"start", "while", "rx", "headers", "nfs", "free", "count", "check",
                           "done", "undefined"}]
    BY <1>0 DEF TypeOK
  <2>6. at \in [Lcore -> Nat \ {0}]
    BY <1>0 DEF TypeOK
  <2>7. /\ at' \in [Lcore -> Nat \ {0}]
        /\ \A d \in Lcore : d # c => at'[d] = at[d]
    BY <2>2, <2>6
  <2>8. /\ pc' \in [Lcore -> {"start", "while", "rx", "headers", "nfs", "free", "count", "check",
                               "done", "undefined"}]
        /\ \A d \in Lcore : d # c => pc'[d] = pc[d]
    BY <2>1, <2>5
  <2> QED
    BY <2>4, <2>7, <2>8
<1>2. Local(c)'
  <2>1. CASE Launch(c)
    BY <1>0, <2>1 DEF TypeOK, Launch, Goto, locals, Local
  <2>2. CASE While(c)
    <3>1. rx_port_list[c] \in Seq(Portid) /\ rx_port_list[c] # <<>>
      BY <1>0, <2>2, DataPlaneAssumption DEF Local, While
    <3>2. 1 \in DOMAIN rx_port_list[c]
      BY <3>1, EmptySeq, LenProperties
    <3>3. at'[c] = 1 /\ pc'[c] \in {"done", "rx"}
      BY <1>0, <2>2 DEF TypeOK, While, Goto
    <3> QED
      BY <1>0, <3>1, <3>2, <3>3 DEF Local
  <2>3. CASE GetHeaders(c)
    BY <1>0, <2>3 DEF TypeOK, GetHeaders, Goto, Local
  <2>4. CASE RunNfs(c)
    BY <1>0, <2>4 DEF RunNfs, Local
  <2>5. CASE CheckQuit(c)
    BY <1>0, <2>5 DEF TypeOK, CheckQuit, Goto, locals, Local
  <2> QED
    BY <2>1, <2>2, <2>3, <2>4, <2>5
<1>3. (\A d \in Lcore : Local(d))'
  BY <1>0, <1>1, <1>2, LocalKept DEF LoopInv
<1>4. eth_hdrs_burst' \in [Burst -> Mbuf \cup {Uninit}] /\ force_quit' \in BOOLEAN
  <2>1. CASE GetHeaders(c)
    <3>1. pkts_burst[c] \in [Burst -> Mbuf \cup {Uninit}]
      BY <1>0 DEF TypeOK
    <3>2. /\ eth_hdrs_burst' =
                [j \in Burst |-> IF j =< nb_rx[c] THEN pkts_burst[c][j] ELSE eth_hdrs_burst[j]]
          /\ UNCHANGED force_quit
      BY <2>1 DEF GetHeaders
    <3> QED
      BY <1>0, <3>1, <3>2 DEF TypeOK
  <2>2. CASE CheckQuit(c)
    <3>1. PICK timeout \in BOOLEAN :
            force_quit' = (force_quit \/ timeout \/ port_statistics[portid(c)].tx > max_packets)
      BY <2>2 DEF CheckQuit
    <3>2. force_quit' \in BOOLEAN
      BY <3>1, Zenon
    <3> QED
      BY <1>0, <2>2, <3>2 DEF TypeOK, CheckQuit
  <2> QED
    BY <1>0, <2>1, <2>2 DEF TypeOK, Launch, While, RunNfs
<1>5. runs' \in [Mbuf -> Nat]
  <2>1. CASE RunNfs(c)
    <3> DEFINE batch == Burst \cap off[c] + 1 .. off[c] + num_in_batch(c)
    <3>1. runs' = [m \in Mbuf |-> runs[m] + Cardinality({j \in batch : eth_hdrs_burst[j] = m})]
      BY <2>1 DEF RunNfs
    <3>2. \A m \in Mbuf : Cardinality({j \in batch : eth_hdrs_burst[j] = m}) \in Nat
      <4> TAKE m \in Mbuf
      <4>1. IsFiniteSet(Burst)
        BY FS_Interval, DataPlaneAssumption DEF Burst
      <4>2. {j \in batch : eth_hdrs_burst[j] = m} \subseteq Burst
        OBVIOUS
      <4>3. IsFiniteSet({j \in batch : eth_hdrs_burst[j] = m})
        BY <4>1, <4>2, FS_Subset, Zenon
      <4> QED
        BY <4>3, FS_CardinalityType, Zenon
    <3> HIDE DEF batch
    <3>3. \A m \in Mbuf : runs[m] + Cardinality({j \in batch : eth_hdrs_burst[j] = m}) \in Nat
      <4> TAKE m \in Mbuf
      <4>1. PICK k \in Nat : k = Cardinality({j \in batch : eth_hdrs_burst[j] = m})
        BY <3>2
      <4>2. runs[m] + k \in Nat
        BY <1>0 DEF TypeOK
      <4> QED
        BY <4>1, <4>2, Zenon
    <3> QED
      BY <3>1, <3>3
  <2> QED
    BY <1>0, <2>1 DEF TypeOK, Launch, While, GetHeaders, CheckQuit
<1>6. TypeOK'
  BY <1>0, <1>1, <1>4, <1>5 DEF TypeOK, nic
<1>7. QueueRoom' /\ ClosedAfter'
  <2>1. pc[c] # "done"
    BY DEF Launch, While, GetHeaders, RunNfs, CheckQuit
  <2> QED
    BY <1>0, <2>1 DEF LoopInv, QueueRoom, ClosedAfter, nic
<1> QED
  BY <1>3, <1>6, <1>7 DEF LoopInv

LEMMA LoopRx == ASSUME LoopInv, NEW c \in Lcore, RxBurst(c) PROVE LoopInv'
<1> DEFINE p == portid(c)
           n == Lesser(Len(rxq[p]), MAX_PKT_BURST)
           b == [j \in Burst |-> IF j =< n THEN rxq[p][j] ELSE pkts_burst[c][j]]
           rest == SubSeq(rxq[p], n + 1, Len(rxq[p]))
<1>0. /\ TypeOK /\ Local(c) /\ p \in Portid /\ pc[c] = "rx"
      /\ UNCHANGED <<main, pool, txq, started, force_quit, eth_hdrs_burst, at, off, runs>>
  BY AtPort DEF LoopInv, RxBurst, Local
<1>1. rxq[p] \in Seq(Mbuf) /\ Len(rxq[p]) \in Nat
  BY <1>0, LenProperties DEF TypeOK
<1>2. n \in 0 .. MAX_PKT_BURST /\ n =< Len(rxq[p])
  BY <1>1, DataPlaneAssumption DEF Lesser
<1>3. \A j \in 1 .. Len(rxq[p]) : rxq[p][j] \in Mbuf
  BY <1>1, ElementOfSeq
<1>4. b \in [Burst -> Mbuf \cup {Uninit}] /\ \A j \in 1 .. n : b[j] \in Mbuf
  <2>1. pkts_burst[c] \in [Burst -> Mbuf \cup {Uninit}]
    BY <1>0 DEF TypeOK
  <2> HIDE DEF n, p
  <2> QED
    BY <1>1, <1>2, <1>3, <2>1, DataPlaneAssumption DEF Burst
<1>5. rest \in Seq(Mbuf)
  <2> HIDE DEF n, p
  <2>1. n + 1 \in Int /\ Len(rxq[p]) \in Int /\ \A i \in n + 1 .. Len(rxq[p]) : rxq[p][i] \in Mbuf
    BY <1>1, <1>2, <1>3
  <2> QED
    BY <2>1, SubSeqProperties, Zenon
<1>6. /\ pkts_burst' = [pkts_burst EXCEPT ![c] = b] /\ rxq' = [rxq EXCEPT ![p] = rest]
      /\ nb_rx' = [nb_rx EXCEPT ![c] = n] /\ nb_tx' = [nb_tx EXCEPT ![c] = 0]
      /\ pc' = [pc EXCEPT ![c] = "headers"]
      /\ port_statistics' = [port_statistics EXCEPT ![p].rx = @ + n]
  BY DEF RxBurst, Goto
<1> HIDE DEF b, n, p, rest
<1>7. port_statistics' \in [Portid -> [rx: Nat, processed: Nat, tx: Nat]]
  <2>1. port_statistics \in [Portid -> Counters] /\ n \in Nat
    BY <1>0, <1>2, Sizes DEF TypeOK, Counters
  <2> QED
    BY <1>0, <1>6, <2>1, PortCounted, Zenon DEF Counters
<1>8. TypeOK'
  <2>1. /\ pkts_burst' \in [Lcore -> [Burst -> Mbuf \cup {Uninit}]]
        /\ nb_rx' \in [Lcore -> 0 .. MAX_PKT_BURST] /\ nb_tx' \in [Lcore -> 0 .. MAX_PKT_BURST]
        /\ rxq' \in [Portid -> Seq(Mbuf)]
    <3>1. pkts_burst' \in [Lcore -> [Burst -> Mbuf \cup {Uninit}]]
      BY <1>0, <1>4, <1>6 DEF TypeOK
    <3>2. nb_rx' \in [Lcore -> 0 .. MAX_PKT_BURST] /\ nb_tx' \in [Lcore -> 0 .. MAX_PKT_BURST]
      <4>1. 0 \in 0 .. MAX_PKT_BURST
        BY Sizes
      <4> QED
        BY <1>0, <1>2, <1>6, <4>1 DEF TypeOK
    <3>3. rxq' \in [Portid -> Seq(Mbuf)]
      BY <1>0, <1>5, <1>6 DEF TypeOK
    <3> QED
      BY <3>1, <3>2, <3>3
  <2> QED
    BY <1>0, <1>6, <1>7, <2>1 DEF TypeOK
<1>9. Local(c)'
  <2>1. pc'[c] = "headers" /\ nb_rx'[c] = n /\ pkts_burst'[c] = b /\ at'[c] = at[c]
    BY <1>0, <1>6 DEF TypeOK
  <2> QED
    BY <1>0, <1>4, <2>1 DEF Local
<1>10. (\A d \in Lcore : Local(d))'
  <2>1. \A d \in Lcore : d # c => /\ pc'[d] = pc[d] /\ at'[d] = at[d] /\ nb_rx'[d] = nb_rx[d]
                                  /\ nb_tx'[d] = nb_tx[d] /\ pkts_burst'[d] = pkts_burst[d]
    BY <1>0, <1>6 DEF TypeOK
  <2> QED
    BY <1>9, <2>1, LocalKept DEF LoopInv
<1>11. QueueRoom' /\ ClosedAfter'
  BY <1>0 DEF LoopInv, QueueRoom, ClosedAfter
<1> QED
  BY <1>8, <1>10, <1>11 DEF LoopInv

LEMMA LoopTx == ASSUME LoopInv, NEW c \in Lcore, TxBurst(c) PROVE LoopInv'
<1> DEFINE p == portid(c)
           n == Lesser(nb_rx[c], nb_txd - Len(txq[p]))
           b == pkts_burst[c]
           sent == SubSeq(b, 1, n)
<1>0. /\ TypeOK /\ Local(c) /\ p \in Portid /\ pc[c] = "nfs"
      /\ UNCHANGED <<main, pool, rxq, started, force_quit, eth_hdrs_burst, at, pkts_burst, nb_rx,
                     off, runs>>
  BY AtPort DEF LoopInv, TxBurst, Local
<1>1. txq[p] \in Seq(Mbuf) /\ Len(txq[p]) \in Nat /\ Len(txq[p]) =< nb_txd
  BY <1>0, LenProperties DEF TypeOK, LoopInv, QueueRoom
<1>2. nb_rx[c] \in 0 .. MAX_PKT_BURST /\ b \in [Burst -> Mbuf \cup {Uninit}]
  BY <1>0 DEF TypeOK
<1>3. n \in 0 .. nb_rx[c] /\ n =< nb_txd - Len(txq[p])
  BY <1>1, <1>2, Sizes DEF Lesser
<1>4. /\ port_statistics' = [port_statistics EXCEPT ![p].processed = @ + nb_rx[c]]
      /\ txq' = [txq EXCEPT ![p] = @ \o sent] /\ nb_tx' = [nb_tx EXCEPT ![c] = n]
      /\ pc' = [pc EXCEPT ![c] = IF n < nb_rx[c] THEN "free" ELSE "count"]
  BY DEF TxBurst, Goto, tx_port
<1>5. \A j \in 1 .. nb_rx[c] : b[j] \in Mbuf
  BY <1>0 DEF Local
<1> HIDE DEF b, n, p
<1>6. sent \in Seq(Mbuf) /\ Len(sent) = n
  <2>1. n \in 0 .. MAX_PKT_BURST /\ \A j \in 1 .. n : b[j] \in Mbuf
    BY <1>2, <1>3, <1>5, Sizes
  <2>2. 1 \in Nat \ {0}
    OBVIOUS
  <2>3. sent \in Seq(Mbuf) /\ Len(sent) = IF 1 =< n THEN n - 1 + 1 ELSE 0
    BY <1>2, <2>1, <2>2, PartOfBurst, Zenon
  <2> QED
    BY <2>1, <2>3, Sizes
<1> HIDE DEF sent
<1>7. txq[p] \o sent \in Seq(Mbuf) /\ Len(txq[p] \o sent) =< nb_txd
  <2>1. txq[p] \o sent \in Seq(Mbuf) /\ Len(txq[p] \o sent) = Len(txq[p]) + n
    BY <1>1, <1>6, ConcatProperties, Zenon
  <2> QED
    BY <1>1, <1>2, <1>3, <2>1, Sizes
<1>8. port_statistics' \in [Portid -> [rx: Nat, processed: Nat, tx: Nat]]
  <2>1. port_statistics \in [Portid -> Counters] /\ nb_rx[c] \in Nat
    BY <1>0, <1>2, Sizes DEF TypeOK, Counters
  <2> QED
    BY <1>0, <1>4, <2>1, PortCounted, Zenon DEF Counters
<1>9. TypeOK' /\ QueueRoom'
  <2>1. txq' \in [Portid -> Seq(Mbuf)] /\ QueueRoom'
    BY <1>0, <1>4, <1>7 DEF TypeOK, LoopInv, QueueRoom
  <2>2. nb_tx' \in [Lcore -> 0 .. MAX_PKT_BURST]
    <3>1. n \in 0 .. MAX_PKT_BURST
      BY <1>2, <1>3, Sizes
    <3> QED
      BY <1>0, <1>4, <3>1 DEF TypeOK
  <2> QED
    BY <1>0, <1>4, <1>8, <2>1, <2>2 DEF TypeOK
<1>10. Local(c)'
  <2>1. /\ pc'[c] = (IF n < nb_rx[c] THEN "free" ELSE "count") /\ nb_tx'[c] = n
        /\ nb_rx'[c] = nb_rx[c] /\ pkts_burst'[c] = b /\ at'[c] = at[c]
    BY <1>0, <1>4 DEF TypeOK, b
  <2> QED
    BY <1>0, <1>5, <2>1 DEF Local
<1>11. (\A d \in Lcore : Local(d))'
  <2>1. \A d \in Lcore : d # c => /\ pc'[d] = pc[d] /\ at'[d] = at[d] /\ nb_rx'[d] = nb_rx[d]
                                  /\ nb_tx'[d] = nb_tx[d] /\ pkts_burst'[d] = pkts_burst[d]
    BY <1>0, <1>4 DEF TypeOK
  <2> QED
    BY <1>10, <2>1, LocalKept DEF LoopInv
<1>12. ClosedAfter'
  BY <1>0 DEF LoopInv, ClosedAfter
<1> QED
  BY <1>9, <1>11, <1>12 DEF LoopInv

LEMMA LoopFree == ASSUME LoopInv, NEW c \in Lcore, FreeBurst(c) PROVE LoopInv'
<1>0. /\ TypeOK /\ Local(c) /\ pc[c] = "free"
      /\ UNCHANGED <<main, rxq, txq, started, force_quit, port_statistics, eth_hdrs_burst, at, pkts_burst,
                     nb_rx, nb_tx, off, runs>>
  BY DEF LoopInv, FreeBurst, locals
<1>1. pool' \subseteq Mbuf
  <2>1. CASE nb_tx[c] = 0 /\ nb_rx[c] = MAX_PKT_BURST
    <3>1. \A j \in Burst : pkts_burst[c][j] \in Mbuf
      BY <1>0, <2>1 DEF Local, Burst
    <3>2. pool' = pool \cup {pkts_burst[c][j] : j \in Burst}
      BY <2>1 DEF FreeBurst
    <3> QED
      BY <1>0, <3>1, <3>2 DEF TypeOK
  <2>2. CASE ~(nb_tx[c] = 0 /\ nb_rx[c] = MAX_PKT_BURST)
    BY <1>0, <2>2 DEF TypeOK, FreeBurst
  <2> QED
    BY <2>1, <2>2
<1>2. pc' = [pc EXCEPT ![c] = "count"] \/ pc' = [pc EXCEPT ![c] = "undefined"]
  BY DEF FreeBurst, Goto
<1>3. TypeOK'
  BY <1>0, <1>1, <1>2 DEF TypeOK
<1>4. (\A d \in Lcore : Local(d))'
  <2>1. \A d \in Lcore : d # c => pc'[d] = pc[d]
    BY <1>0, <1>2 DEF TypeOK
  <2>2. pc'[c] \in {"count", "undefined"}
    BY <1>0, <1>2 DEF TypeOK
  <2>3. Local(c)'
    BY <1>0, <2>2 DEF Local
  <2> QED
    BY <1>0, <2>1, <2>3, LocalKept DEF LoopInv
<1> QED
  BY <1>0, <1>3, <1>4 DEF LoopInv, QueueRoom, ClosedAfter

LEMMA LoopCount == ASSUME LoopInv, NEW c \in Lcore, CountTx(c) PROVE LoopInv'
<1>0. /\ TypeOK /\ Local(c) /\ pc[c] = "count" /\ portid(c) \in Portid
      /\ UNCHANGED <<main, pool, rxq, txq, started, force_quit, eth_hdrs_burst, pkts_burst, nb_rx, nb_tx,
                     off, runs>>
  BY AtPort DEF LoopInv, CountTx, nic, Local
<1>1. port_statistics' \in [Portid -> [rx: Nat, processed: Nat, tx: Nat]]
  <2>1. port_statistics \in [Portid -> Counters] /\ nb_tx[c] \in Nat
    BY <1>0, Sizes DEF TypeOK, Counters
  <2>2. port_statistics' = [port_statistics EXCEPT ![portid(c)].tx = @ + nb_tx[c]]
    BY DEF CountTx
  <2> QED
    BY <1>0, <2>1, <2>2, PortCounted, Zenon DEF Counters
<1>2. /\ rx_port_list[c] # <<>> /\ at[c] \in 1 .. Len(rx_port_list[c])
      /\ DOMAIN rx_port_list[c] = 1 .. Len(rx_port_list[c]) /\ Len(rx_port_list[c]) \in Nat
  <2>1. rx_port_list[c] \in Seq(Portid)
    BY DataPlaneAssumption
  <2> QED
    BY <1>0, <2>1, LenProperties DEF Local
<1>3. \/ /\ at[c] < Len(rx_port_list[c]) /\ at' = [at EXCEPT ![c] = @ + 1]
         /\ pc' = [pc EXCEPT ![c] = "rx"]
      \/ at' = at /\ pc' = [pc EXCEPT ![c] = "check"]
  BY DEF CountTx, Goto
<1>4. /\ at'[c] \in DOMAIN rx_port_list[c] /\ at' \in [Lcore -> Nat \ {0}]
      /\ \A d \in Lcore : d # c => at'[d] = at[d]
  <2>1. at \in [Lcore -> Nat \ {0}] /\ at[c] + 1 \in Nat \ {0}
    BY <1>0 DEF TypeOK
  <2> QED
    BY <1>2, <1>3, <2>1
<1>5. /\ pc' \in [Lcore -> {"start", "while", "rx", "headers", "nfs", "free", "count", "check",
                            "done", "undefined"}]
      /\ pc'[c] \in {"rx", "check"} /\ \A d \in Lcore : d # c => pc'[d] = pc[d]
  BY <1>0, <1>3 DEF TypeOK
<1>6. TypeOK'
  BY <1>0, <1>1, <1>4, <1>5 DEF TypeOK
<1>7. Local(c)'
  BY <1>0, <1>2, <1>4, <1>5 DEF Local
<1>8. (\A d \in Lcore : Local(d))'
  BY <1>0, <1>4, <1>5, <1>7, LocalKept DEF LoopInv
<1> QED
  BY <1>0, <1>6, <1>8 DEF LoopInv, QueueRoom, ClosedAfter

LEMMA LoopStep == LoopInv /\ [Next]_vars => LoopInv'
<1> SUFFICES ASSUME LoopInv, [Next]_vars PROVE LoopInv'
  OBVIOUS
<1>1. CASE \E p \in Portid : Arrive(p) \/ Sent(p) \/ ClosePort(p)
  BY <1>1, LoopArrive
<1>2. CASE \E c \in Lcore : MainLoop(c)
  BY <1>2, LoopTurn, LoopRx, LoopTx, LoopFree, LoopCount DEF MainLoop
<1>3. CASE Signal
  <2>1. TypeOK'
    BY <1>3 DEF LoopInv, TypeOK, Signal, nic, locals
  <2> QED
    BY <1>3, <2>1 DEF LoopInv, Local, QueueRoom, ClosedAfter, Signal, nic, locals
<1>4. CASE UNCHANGED vars
  <2>1. TypeOK'
    BY <1>4 DEF LoopInv, TypeOK, vars, nic, locals
  <2> QED
    BY <1>4, <2>1 DEF LoopInv, Local, QueueRoom, ClosedAfter, vars, nic, locals
<1> QED
  BY <1>1, <1>2, <1>3, <1>4 DEF Next, Stay

LEMMA SpecLoop == Spec => []LoopInv
BY LoopInit, LoopStep, PTL DEF Spec

\* The loop's types: the counters, the queues, and that an lcore is at one of
\* its ports.
THEOREM TypeCorrect == Spec => []TypeOK
<1>1. LoopInv => TypeOK
  BY DEF LoopInv
<1> QED
  BY <1>1, SpecLoop, PTL

\* main() closes no port that an lcore still polls: rte_eal_wait_lcore is
\* enough.
THEOREM NoPortClosedEarly == Spec => []NoPollAfterClose
<1>1. ASSUME LoopInv PROVE NoPollAfterClose
  <2> SUFFICES ASSUME NEW c \in Lcore, pc[c] \in {"rx", "headers", "nfs", "free", "count"}
               PROVE  portid(c) \in started
    BY DEF NoPollAfterClose
  <2>1. started = Portid
    BY <1>1 DEF LoopInv, ClosedAfter
  <2>2. portid(c) \in Portid
    BY <1>1, AtPort DEF LoopInv, Local
  <2> QED
    BY <2>1, <2>2
<1> QED
  BY <1>1, SpecLoop, PTL

-----------------------------------------------------------------------------
LEMMA Associative == \A s, t, u \in Seq(Mbuf) : s \o t \o u = s \o (t \o u)
BY ConcatAssociative

LEMMA Concatenated ==
  \A s, t \in Seq(Mbuf) :
    /\ s \o t \in Seq(Mbuf) /\ Len(s \o t) = Len(s) + Len(t)
    /\ \A i \in 1 .. Len(s) + Len(t) :
         (s \o t)[i] = IF i <= Len(s) THEN s[i] ELSE t[i - Len(s)]
BY ConcatProperties

LEMMA Part ==
  \A s \in Seq(Mbuf), m \in Nat \ {0} : \A n \in 0 .. Len(s) :
    /\ SubSeq(s, m, n) \in Seq(Mbuf)
    /\ Len(SubSeq(s, m, n)) = IF m =< n THEN n - m + 1 ELSE 0
    /\ \A i \in 1 .. n - m + 1 : SubSeq(s, m, n)[i] = s[m + i - 1]
<1> SUFFICES ASSUME NEW s \in Seq(Mbuf), NEW m \in Nat \ {0}, NEW n \in 0 .. Len(s)
             PROVE  /\ SubSeq(s, m, n) \in Seq(Mbuf)
                    /\ Len(SubSeq(s, m, n)) = IF m =< n THEN n - m + 1 ELSE 0
                    /\ \A i \in 1 .. n - m + 1 : SubSeq(s, m, n)[i] = s[m + i - 1]
  OBVIOUS
<1>1. Len(s) \in Nat /\ \A i \in 1 .. Len(s) : s[i] \in Mbuf
  BY LenProperties, ElementOfSeq
<1>2. \A i \in m .. n : i \in 1 .. Len(s)
  BY <1>1
<1>3. m \in Int /\ n \in Int /\ \A i \in m .. n : s[i] \in Mbuf
  BY <1>1, <1>2
<1> QED
  BY <1>3, SubSeqProperties

\* Three sequences behind each other.
LEMMA JoinedParts ==
  ASSUME NEW t \in Seq(Mbuf), NEW h \in Seq(Mbuf), NEW r \in Seq(Mbuf),
         NEW l, l = t \o h \o r
  PROVE  /\ t \o h \in Seq(Mbuf) /\ l \in Seq(Mbuf)
         /\ Len(t) \in Nat /\ Len(h) \in Nat /\ Len(r) \in Nat
         /\ Len(l) = Len(t) + Len(h) + Len(r)
         /\ \A i \in 1 .. Len(t) : l[i] = t[i]
         /\ \A i \in 1 .. Len(h) : l[Len(t) + i] = h[i]
         /\ \A i \in 1 .. Len(r) : l[Len(t) + Len(h) + i] = r[i]
<1>1. Len(t) \in Nat /\ Len(h) \in Nat /\ Len(r) \in Nat
  BY LenProperties
<1>0. PICK th : th = t \o h
  OBVIOUS
<1>2. /\ th \in Seq(Mbuf) /\ Len(th) = Len(t) + Len(h)
      /\ \A i \in 1 .. Len(t) + Len(h) : th[i] = IF i <= Len(t) THEN t[i] ELSE h[i - Len(t)]
  BY <1>0, Concatenated
<1>3. /\ th \o r \in Seq(Mbuf) /\ Len(th \o r) = Len(th) + Len(r)
      /\ \A i \in 1 .. Len(th) + Len(r) : (th \o r)[i] = IF i <= Len(th) THEN th[i] ELSE r[i - Len(th)]
  BY <1>2, Concatenated
<1>5. l = th \o r
  BY <1>0
<1>4. /\ Len(l) = Len(t) + Len(h) + Len(r)
      /\ \A i \in 1 .. Len(t) : l[i] = t[i]
      /\ \A i \in 1 .. Len(h) : l[Len(t) + i] = h[i]
      /\ \A i \in 1 .. Len(r) : l[Len(t) + Len(h) + i] = r[i]
  <2>0. /\ \A i \in 1 .. Len(th) + Len(r) : l[i] = IF i <= Len(th) THEN th[i] ELSE r[i - Len(th)]
        /\ Len(l) = Len(th) + Len(r)
    BY <1>3, <1>5, Zenon
  <2>1. \A i \in 1 .. Len(t) : i \in 1 .. Len(th) + Len(r) /\ i <= Len(th) /\ i \in 1 .. Len(t) + Len(h)
    BY <1>1, <1>2
  <2>2. \A i \in 1 .. Len(h) : /\ Len(t) + i \in 1 .. Len(th) + Len(r) /\ Len(t) + i <= Len(th)
                               /\ Len(t) + i \in 1 .. Len(t) + Len(h)
                               /\ ~(Len(t) + i <= Len(t)) /\ Len(t) + i - Len(t) = i
    BY <1>1, <1>2
  <2>3. \A i \in 1 .. Len(r) : /\ Len(t) + Len(h) + i \in 1 .. Len(th) + Len(r)
                               /\ ~(Len(t) + Len(h) + i <= Len(th))
                               /\ Len(t) + Len(h) + i - Len(th) = i
    BY <1>1, <1>2
  <2>4. Len(l) = Len(t) + Len(h) + Len(r)
    BY <1>1, <1>2, <2>0
  <2>5. \A i \in 1 .. Len(t) : l[i] = t[i]
    BY <1>2, <2>0, <2>1
  <2>6. \A i \in 1 .. Len(h) : l[Len(t) + i] = h[i]
    BY <1>2, <2>0, <2>2
  <2>7. \A i \in 1 .. Len(r) : l[Len(t) + Len(h) + i] = r[i]
    BY <2>0, <2>3
  <2> QED
    BY <2>4, <2>5, <2>6, <2>7
<1> QED
  BY <1>0, <1>1, <1>2, <1>3, <1>4, <1>5

LEMMA Joined ==
  ASSUME NEW t \in Seq(Mbuf), NEW h \in Seq(Mbuf), NEW r \in Seq(Mbuf)
  PROVE  /\ t \o h \in Seq(Mbuf) /\ t \o h \o r \in Seq(Mbuf)
         /\ Len(t) \in Nat /\ Len(h) \in Nat /\ Len(r) \in Nat
         /\ Len(t \o h \o r) = Len(t) + Len(h) + Len(r)
         /\ \A i \in 1 .. Len(t) : (t \o h \o r)[i] = t[i]
         /\ \A i \in 1 .. Len(h) : (t \o h \o r)[Len(t) + i] = h[i]
         /\ \A i \in 1 .. Len(r) : (t \o h \o r)[Len(t) + Len(h) + i] = r[i]
<1>1. PICK l : l = t \o h \o r
  OBVIOUS
<1>2. /\ t \o h \in Seq(Mbuf) /\ l \in Seq(Mbuf)
      /\ Len(t) \in Nat /\ Len(h) \in Nat /\ Len(r) \in Nat
      /\ Len(l) = Len(t) + Len(h) + Len(r)
      /\ \A i \in 1 .. Len(t) : l[i] = t[i]
      /\ \A i \in 1 .. Len(h) : l[Len(t) + i] = h[i]
      /\ \A i \in 1 .. Len(r) : l[Len(t) + Len(h) + i] = r[i]
  BY <1>1, JoinedParts
<1> QED
  BY <1>1, <1>2, Zenon

\* What is in one of the three is in the whole, and nothing else is.
In(s, x) == \E i \in DOMAIN s : s[i] = x

LEMMA JoinedElements ==
  ASSUME NEW t \in Seq(Mbuf), NEW h \in Seq(Mbuf), NEW r \in Seq(Mbuf),
         NEW l, l = t \o h \o r, NEW x
  PROVE  In(l, x) <=> In(t, x) \/ In(h, x) \/ In(r, x)
<1>1. /\ l \in Seq(Mbuf) /\ Len(t) \in Nat /\ Len(h) \in Nat /\ Len(r) \in Nat
      /\ Len(l) = Len(t) + Len(h) + Len(r)
      /\ \A i \in 1 .. Len(t) : l[i] = t[i]
      /\ \A i \in 1 .. Len(h) : l[Len(t) + i] = h[i]
      /\ \A i \in 1 .. Len(r) : l[Len(t) + Len(h) + i] = r[i]
  BY JoinedParts
<1>2. /\ DOMAIN t = 1 .. Len(t) /\ DOMAIN h = 1 .. Len(h) /\ DOMAIN r = 1 .. Len(r)
  BY LenProperties
<1>3. DOMAIN l = 1 .. Len(l)
  BY <1>1, LenProperties
<1>4. ASSUME NEW i \in DOMAIN l, l[i] = x
      PROVE  \/ \E j \in DOMAIN t : t[j] = x
             \/ \E j \in DOMAIN h : h[j] = x
             \/ \E j \in DOMAIN r : r[j] = x
  <2>1. CASE i =< Len(t)
    BY <1>1, <1>2, <1>3, <1>4, <2>1
  <2>2. CASE ~(i =< Len(t)) /\ i =< Len(t) + Len(h)
    <3>1. i - Len(t) \in 1 .. Len(h) /\ Len(t) + (i - Len(t)) = i
      BY <1>1, <1>3, <2>2
    <3>2. l[i] = h[i - Len(t)]
      BY <1>1, <3>1
    <3> QED
      BY <1>2, <1>4, <3>1, <3>2
  <2>3. CASE ~(i =< Len(t) + Len(h))
    <3>1. i - Len(t) - Len(h) \in 1 .. Len(r) /\ Len(t) + Len(h) + (i - Len(t) - Len(h)) = i
      BY <1>1, <1>3, <2>3
    <3>2. l[i] = r[i - Len(t) - Len(h)]
      BY <1>1, <3>1
    <3> QED
      BY <1>2, <1>4, <3>1, <3>2
  <2> QED
    BY <2>1, <2>2, <2>3
<1>5. /\ \A i \in 1 .. Len(t) : i \in 1 .. Len(l)
      /\ \A i \in 1 .. Len(h) : Len(t) + i \in 1 .. Len(l)
      /\ \A i \in 1 .. Len(r) : Len(t) + Len(h) + i \in 1 .. Len(l)
  BY <1>1
<1>6. ASSUME \/ \E j \in DOMAIN t : t[j] = x
             \/ \E j \in DOMAIN h : h[j] = x
             \/ \E j \in DOMAIN r : r[j] = x
      PROVE  \E i \in DOMAIN l : l[i] = x
  BY <1>1, <1>2, <1>3, <1>5, <1>6, Zenon
<1> QED
  BY <1>4, <1>6 DEF In

LEMMA JoinAtEnd ==
  ASSUME NEW t \in Seq(Mbuf), NEW h \in Seq(Mbuf), NEW r \in Seq(Mbuf), NEW x \in Mbuf
  PROVE  t \o h \o Append(r, x) = Append(t \o h \o r, x)
<1>1. PICK th \in Seq(Mbuf) : th = t \o h
  BY Concatenated
<1>2. PICK l \in Seq(Mbuf) : l = th \o r
  BY Concatenated
<1>3. PICK y \in Seq(Mbuf) : y = <<x>>
  <2>1. <<x>> \in Seq(Mbuf)
    OBVIOUS
  <2> QED
    BY <2>1, Zenon
<1>4. Append(r, x) = r \o y /\ Append(l, x) = l \o y
  BY <1>3, AppendIsConcat, Zenon
<1>5. (th \o r) \o y = th \o (r \o y)
  BY Associative, Zenon
<1> QED
  BY <1>1, <1>2, <1>4, <1>5, Zenon

LEMMA JoinTail ==
  ASSUME NEW t \in Seq(Mbuf), NEW h \in Seq(Mbuf), NEW r \in Seq(Mbuf), t # <<>>
  PROVE  /\ t \o h \o r # <<>> /\ Head(t \o h \o r) = Head(t)
         /\ Tail(t) \o h \o r = Tail(t \o h \o r)
<1> DEFINE l == t \o h \o r
           k == Tail(t) \o h \o r
<1>1. /\ l \in Seq(Mbuf) /\ Len(t) \in Nat /\ Len(h) \in Nat /\ Len(r) \in Nat
      /\ Len(l) = Len(t) + Len(h) + Len(r)
      /\ \A i \in 1 .. Len(t) : l[i] = t[i]
      /\ \A i \in 1 .. Len(h) : l[Len(t) + i] = h[i]
      /\ \A i \in 1 .. Len(r) : l[Len(t) + Len(h) + i] = r[i]
  BY Joined
<1>2. /\ Tail(t) \in Seq(Mbuf) /\ Len(Tail(t)) = Len(t) - 1
      /\ \A i \in 1 .. Len(Tail(t)) : Tail(t)[i] = t[i + 1]
  BY HeadTailProperties
<1>3. /\ k \in Seq(Mbuf) /\ Len(k) = Len(Tail(t)) + Len(h) + Len(r)
      /\ \A i \in 1 .. Len(Tail(t)) : k[i] = Tail(t)[i]
      /\ \A i \in 1 .. Len(h) : k[Len(Tail(t)) + i] = h[i]
      /\ \A i \in 1 .. Len(r) : k[Len(Tail(t)) + Len(h) + i] = r[i]
  BY <1>2, Joined
<1>4. Len(t) >= 1
  BY <1>1, EmptySeq
<1> HIDE DEF l, k
<1>5. l # <<>>
  BY <1>1, <1>4, EmptySeq
<1>6. Head(l) = Head(t)
  <2>1. Head(l) = l[1] /\ Head(t) = t[1]
    BY <1>1, <1>4, <1>5
  <2> QED
    BY <1>1, <1>4, <2>1
<1>7. /\ Tail(l) \in Seq(Mbuf) /\ Len(Tail(l)) = Len(l) - 1
      /\ \A i \in 1 .. Len(Tail(l)) : Tail(l)[i] = l[i + 1]
  BY <1>1, <1>5, HeadTailProperties
<1>8. \A i \in 1 .. Len(k) : k[i] = l[i + 1]
  <2> SUFFICES ASSUME NEW i \in 1 .. Len(k) PROVE k[i] = l[i + 1]
    OBVIOUS
  <2>1. CASE i =< Len(t) - 1
    <3>1. i \in 1 .. Len(Tail(t)) /\ i + 1 \in 1 .. Len(t)
      BY <1>1, <1>2, <1>4, <2>1
    <3> QED
      BY <1>1, <1>2, <1>3, <3>1
  <2>2. CASE ~(i =< Len(t) - 1) /\ i =< Len(t) - 1 + Len(h)
    <3> DEFINE j == i - (Len(t) - 1)
    <3>1. j \in 1 .. Len(h)
      BY <1>1, <1>4, <2>2
    <3>2. i = Len(Tail(t)) + j /\ i + 1 = Len(t) + j
      BY <1>1, <1>2, <3>1
    <3> HIDE DEF j
    <3> QED
      BY <1>1, <1>3, <3>1, <3>2
  <2>3. CASE ~(i =< Len(t) - 1 + Len(h))
    <3> DEFINE j == i - (Len(t) - 1) - Len(h)
    <3>1. j \in 1 .. Len(r)
      BY <1>1, <1>2, <1>3, <1>4, <2>3
    <3>2. i = Len(Tail(t)) + Len(h) + j /\ i + 1 = Len(t) + Len(h) + j
      BY <1>1, <1>2, <3>1
    <3> HIDE DEF j
    <3> QED
      BY <1>1, <1>3, <3>1, <3>2
  <2> QED
    BY <2>1, <2>2, <2>3
<1>9. k = Tail(l)
  <2>1. Len(k) = Len(Tail(l))
    BY <1>1, <1>2, <1>3, <1>7
  <2> QED
    BY <1>3, <1>7, <1>8, <2>1, SeqEqual
<1> QED
  BY <1>5, <1>6, <1>9 DEF l, k

\* The middle one can be dropped,
LEMMA JoinDrop ==
  ASSUME NEW t \in Seq(Mbuf), NEW h \in Seq(Mbuf), NEW r \in Seq(Mbuf)
  PROVE  t \o <<>> \o r = SubSeq(t \o h \o r, 1, Len(t))
                            \o SubSeq(t \o h \o r, Len(t) + Len(h) + 1, Len(t \o h \o r))
<1> DEFINE l == t \o h \o r
           a == SubSeq(l, 1, Len(t))
           b == SubSeq(l, Len(t) + Len(h) + 1, Len(l))
<1>1. /\ l \in Seq(Mbuf) /\ Len(t) \in Nat /\ Len(h) \in Nat /\ Len(r) \in Nat
      /\ Len(l) = Len(t) + Len(h) + Len(r)
      /\ \A i \in 1 .. Len(t) : l[i] = t[i]
      /\ \A i \in 1 .. Len(h) : l[Len(t) + i] = h[i]
      /\ \A i \in 1 .. Len(r) : l[Len(t) + Len(h) + i] = r[i]
  BY Joined
<1> HIDE DEF l
<1>3. a = t
  <2>1. 1 \in Nat \ {0} /\ Len(t) \in 0 .. Len(l)
    BY <1>1
  <2>2. /\ a \in Seq(Mbuf) /\ Len(a) = IF 1 =< Len(t) THEN Len(t) - 1 + 1 ELSE 0
        /\ \A i \in 1 .. Len(t) - 1 + 1 : a[i] = l[1 + i - 1]
    BY <1>1, <2>1, Part
  <2>3. Len(a) = Len(t) /\ \A i \in 1 .. Len(a) : a[i] = t[i]
    BY <1>1, <2>2
  <2> HIDE DEF a
  <2> QED
    BY <2>2, <2>3, SeqEqual
<1>4. b = r
  <2> DEFINE k == Len(t) + Len(h) + 1
  <2>1. k \in Nat \ {0} /\ Len(l) \in 0 .. Len(l)
    BY <1>1
  <2>2. /\ b \in Seq(Mbuf) /\ Len(b) = IF k =< Len(l) THEN Len(l) - k + 1 ELSE 0
        /\ \A i \in 1 .. Len(l) - k + 1 : b[i] = l[k + i - 1]
    BY <1>1, <2>1, Part
  <2>3. Len(b) = Len(r) /\ Len(l) - k + 1 = Len(r)
    BY <1>1, <2>2
  <2>4. \A i \in 1 .. Len(r) : k + i - 1 = Len(t) + Len(h) + i
    BY <1>1
  <2>5. \A i \in 1 .. Len(b) : b[i] = r[i]
    BY <1>1, <2>2, <2>3, <2>4
  <2> HIDE DEF b
  <2> QED
    BY <2>2, <2>3, <2>5, SeqEqual
<1>5. t \o <<>> = t
  BY ConcatEmptySeq
<1> QED
  BY <1>3, <1>4, <1>5 DEF l

\* or grow at its end by what the last one loses,
LEMMA JoinTaken ==
  ASSUME NEW t \in Seq(Mbuf), NEW h \in Seq(Mbuf), NEW q \in Seq(Mbuf), NEW n \in 0 .. Len(q),
         Len(h) = n, \A i \in 1 .. n : h[i] = q[i]
  PROVE  t \o h \o SubSeq(q, n + 1, Len(q)) = t \o <<>> \o q
<1> DEFINE k == SubSeq(q, n + 1, Len(q))
<1>1. Len(q) \in Nat
  BY LenProperties
<1>2. /\ k \in Seq(Mbuf) /\ Len(k) = Len(q) - n
      /\ \A i \in 1 .. Len(k) : k[i] = q[n + i]
  <2>1. n + 1 \in Nat \ {0} /\ Len(q) \in 0 .. Len(q)
    BY <1>1
  <2>2. /\ k \in Seq(Mbuf) /\ Len(k) = IF n + 1 =< Len(q) THEN Len(q) - (n + 1) + 1 ELSE 0
        /\ \A i \in 1 .. Len(q) - (n + 1) + 1 : k[i] = q[n + 1 + i - 1]
    BY <2>1, Part
  <2>3. \A i \in 1 .. Len(k) : i \in 1 .. Len(q) - (n + 1) + 1 /\ n + 1 + i - 1 = n + i
    BY <1>1, <2>2
  <2> HIDE DEF k
  <2> QED
    BY <1>1, <2>2, <2>3
<1> HIDE DEF k
<1>3. h \o k = q
  <2>1. /\ h \o k \in Seq(Mbuf) /\ Len(h \o k) = Len(h) + Len(k)
        /\ \A i \in 1 .. Len(h) + Len(k) : (h \o k)[i] = IF i <= Len(h) THEN h[i] ELSE k[i - Len(h)]
    BY <1>2, Concatenated
  <2>2. \A i \in 1 .. Len(q) : (h \o k)[i] = q[i]
    <3> SUFFICES ASSUME NEW i \in 1 .. Len(q) PROVE (h \o k)[i] = q[i]
      OBVIOUS
    <3>1. i \in 1 .. Len(h) + Len(k)
      BY <1>1, <1>2
    <3>2. CASE i =< n
      BY <1>1, <2>1, <3>1, <3>2
    <3>3. CASE ~(i =< n)
      <4>1. i - n \in 1 .. Len(k) /\ n + (i - n) = i
        BY <1>1, <1>2, <3>3
      <4> QED
        BY <1>2, <2>1, <3>1, <3>3, <4>1
    <3> QED
      BY <3>2, <3>3
  <2>3. Len(h \o k) = Len(q)
    BY <1>1, <1>2, <2>1
  <2> QED
    BY <2>1, <2>2, <2>3, SeqEqual
<1>4. t \o h \o k = t \o q
  BY <1>2, <1>3, Associative
<1>5. t \o <<>> = t
  BY ConcatEmptySeq
<1> QED
  BY <1>4, <1>5 DEF k

\* or lose at its front what the first one gets.
LEMMA JoinSent ==
  ASSUME NEW t \in Seq(Mbuf), NEW b \in [Burst -> Mbuf \cup {Uninit}], NEW k \in 0 .. MAX_PKT_BURST,
         NEW n \in 0 .. k, \A j \in 1 .. k : b[j] \in Mbuf
  PROVE  t \o SubSeq(b, 1, n) \o SubSeq(b, n + 1, k) = t \o SubSeq(b, 1, k)
<1> DEFINE x == SubSeq(b, 1, n)
           y == SubSeq(b, n + 1, k)
           z == SubSeq(b, 1, k)
<1>1. /\ x \in Seq(Mbuf) /\ Len(x) = n /\ \A i \in 1 .. n : x[i] = b[i]
  <2>1. 1 \in Nat \ {0} /\ n \in 0 .. MAX_PKT_BURST /\ \A j \in 1 .. n : b[j] \in Mbuf
    BY Sizes
  <2>2. /\ x \in Seq(Mbuf) /\ Len(x) = IF 1 =< n THEN n - 1 + 1 ELSE 0
        /\ \A i \in 1 .. n - 1 + 1 : x[i] = b[1 + i - 1]
    BY <2>1, PartOfBurst
  <2> HIDE DEF x
  <2> QED
    BY <2>2, Sizes
<1>2. /\ y \in Seq(Mbuf) /\ Len(y) = k - n /\ \A i \in 1 .. k - n : y[i] = b[n + i]
  <2>1. n + 1 \in Nat \ {0} /\ \A j \in n + 1 .. k : b[j] \in Mbuf
    BY Sizes
  <2>2. /\ y \in Seq(Mbuf) /\ Len(y) = IF n + 1 =< k THEN k - (n + 1) + 1 ELSE 0
        /\ \A i \in 1 .. k - (n + 1) + 1 : y[i] = b[n + 1 + i - 1]
    BY <2>1, PartOfBurst
  <2>3. \A i \in 1 .. k - n : i \in 1 .. k - (n + 1) + 1 /\ n + 1 + i - 1 = n + i
    BY Sizes
  <2> HIDE DEF y
  <2> QED
    BY <2>2, <2>3, Sizes
<1>3. /\ z \in Seq(Mbuf) /\ Len(z) = k /\ \A i \in 1 .. k : z[i] = b[i]
  <2>1. 1 \in Nat \ {0}
    OBVIOUS
  <2>2. /\ z \in Seq(Mbuf) /\ Len(z) = IF 1 =< k THEN k - 1 + 1 ELSE 0
        /\ \A i \in 1 .. k - 1 + 1 : z[i] = b[1 + i - 1]
    BY <2>1, PartOfBurst
  <2> HIDE DEF z
  <2> QED
    BY <2>2, Sizes
<1> HIDE DEF x, y, z
<1>4. x \o y = z
  <2>1. /\ x \o y \in Seq(Mbuf) /\ Len(x \o y) = Len(x) + Len(y)
        /\ \A i \in 1 .. Len(x) + Len(y) : (x \o y)[i] = IF i <= Len(x) THEN x[i] ELSE y[i - Len(x)]
    BY <1>1, <1>2, Concatenated
  <2>2. Len(x) + Len(y) = k
    BY <1>1, <1>2, Sizes
  <2>3. \A i \in 1 .. k : (x \o y)[i] = z[i]
    <3> SUFFICES ASSUME NEW i \in 1 .. k PROVE (x \o y)[i] = z[i]
      OBVIOUS
    <3>1. CASE i =< n
      BY <1>1, <1>3, <2>1, <2>2, <3>1, Sizes
    <3>2. CASE ~(i =< n)
      <4>1. i - n \in 1 .. k - n /\ n + (i - n) = i
        BY <3>2, Sizes
      <4> QED
        BY <1>1, <1>2, <1>3, <2>1, <2>2, <3>2, <4>1
    <3> QED
      BY <3>1, <3>2
  <2>4. Len(x \o y) = Len(z)
    BY <1>3, <2>1, <2>2
  <2> QED
    BY <1>3, <2>1, <2>3, <2>4, SeqEqual
<1>5. t \o x \o y = t \o z
  BY <1>1, <1>2, <1>4, Associative
<1> QED
  BY <1>5 DEF x, y, z

-----------------------------------------------------------------------------
\* What is in hand at port p.
Polled(p) == {c \in Lcore : pc[c] \in {"headers", "nfs", "free"} /\ portid(c) = p}
HandAt(p) == IF Polled(p) = {} THEN <<>> ELSE InHand(CHOOSE c \in Polled(p) : TRUE)

LEMMA LineIs == \A p : Line(p) = txq[p] \o HandAt(p) \o rxq[p]
BY DEF Line, HandAt, Polled

LEMMA InHandIs ==
  ASSUME NEW c
  PROVE  /\ pc[c] \in {"headers", "nfs"} => InHand(c) = SubSeq(pkts_burst[c], 1, nb_rx[c])
         /\ pc[c] = "free" => InHand(c) = SubSeq(pkts_burst[c], nb_tx[c] + 1, nb_rx[c])
         /\ pc[c] \notin {"headers", "nfs", "free"} => InHand(c) = <<>>
BY DEF InHand

LEMMA Hands ==
  ASSUME LoopInv, NEW c \in Lcore
  PROVE  InHand(c) \in Seq(Mbuf)
<1>1. /\ pkts_burst[c] \in [Burst -> Mbuf \cup {Uninit}] /\ nb_rx[c] \in 0 .. MAX_PKT_BURST
      /\ nb_tx[c] \in 0 .. MAX_PKT_BURST /\ Local(c)
  BY DEF LoopInv, TypeOK
<1>2. CASE pc[c] \in {"headers", "nfs"}
  <2>1. 1 \in Nat \ {0} /\ \A j \in 1 .. nb_rx[c] : pkts_burst[c][j] \in Mbuf
    BY <1>1, <1>2 DEF Local
  <2> QED
    BY <1>1, <1>2, <2>1, PartOfBurst, InHandIs
<1>3. CASE pc[c] = "free"
  <2>1. nb_tx[c] + 1 \in Nat \ {0}
    BY <1>1, Sizes
  <2>2. \A j \in nb_tx[c] + 1 .. nb_rx[c] : pkts_burst[c][j] \in Mbuf
    BY <1>1, <1>3, Sizes DEF Local
  <2>3. InHand(c) = SubSeq(pkts_burst[c], nb_tx[c] + 1, nb_rx[c])
    BY <1>3, Zenon DEF InHand
  <2> QED
    BY <1>1, <2>1, <2>2, <2>3, PartOfBurst
<1>4. CASE pc[c] \notin {"headers", "nfs", "free"}
  <2>1. InHand(c) = <<>>
    BY <1>4, InHandIs, Zenon
  <2> QED
    BY <2>1
<1> QED
  BY <1>2, <1>3, <1>4

LEMMA HandsAt == LoopInv => \A p : HandAt(p) \in Seq(Mbuf)
<1> SUFFICES ASSUME LoopInv, NEW p PROVE HandAt(p) \in Seq(Mbuf)
  OBVIOUS
<1>1. CASE Polled(p) = {}
  BY <1>1 DEF HandAt
<1>2. CASE Polled(p) # {}
  <2>1. PICK c \in Polled(p) : c = CHOOSE d \in Polled(p) : TRUE
    BY <1>2
  <2>2. c \in Lcore
    BY DEF Polled
  <2> QED
    BY <1>2, <2>1, <2>2, Hands DEF HandAt
<1> QED
  BY <1>1, <1>2

\* At the port an lcore polls it is this lcore's.
LEMMA OwnHand ==
  LoopInv => \A p : \A c \in Lcore :
    pc[c] \notin {"start", "while", "done"} /\ portid(c) = p => HandAt(p) = InHand(c)
<1> SUFFICES ASSUME LoopInv, NEW c \in Lcore, pc[c] \notin {"start", "while", "done"}
             PROVE  HandAt(portid(c)) = InHand(c)
  OBVIOUS
<1>1. at[c] \in DOMAIN rx_port_list[c]
  BY DEF LoopInv, Local
<1>2. \A d \in Polled(portid(c)) : d = c
  <2> SUFFICES ASSUME NEW d \in Polled(portid(c)) PROVE d = c
    OBVIOUS
  <2>1. d \in Lcore /\ portid(d) = portid(c) /\ pc[d] \in {"headers", "nfs", "free"}
    BY DEF Polled
  <2>2. at[d] \in DOMAIN rx_port_list[d]
    BY <2>1 DEF LoopInv, Local
  <2> QED
    BY <1>1, <2>1, <2>2, PolledByOne DEF portid
<1>3. CASE pc[c] \in {"headers", "nfs", "free"}
  <2>1. Polled(portid(c)) = {c}
    BY <1>2, <1>3 DEF Polled
  <2>2. (CHOOSE d \in {c} : TRUE) = c
    OBVIOUS
  <2> QED
    BY <2>1, <2>2 DEF HandAt
<1>4. CASE pc[c] \notin {"headers", "nfs", "free"}
  <2>1. Polled(portid(c)) = {}
    BY <1>2, <1>4 DEF Polled
  <2> QED
    BY <1>4, <2>1, InHandIs DEF HandAt
<1> QED
  BY <1>3, <1>4

\* This holds in the next state as well.
LEMMA OwnHandNext ==
  (LoopInv => \A p : \A c \in Lcore :
     pc[c] \notin {"start", "while", "done"} /\ portid(c) = p => HandAt(p) = InHand(c))'
BY OwnHand, PTL

\* Nothing happens to what is in hand if nothing happens to whose it is.
LEMMA HandKept ==
  ASSUME NEW p,
         \A c \in Lcore :
           \/ /\ pc'[c] = pc[c] /\ at'[c] = at[c] /\ nb_rx'[c] = nb_rx[c] /\ nb_tx'[c] = nb_tx[c]
              /\ pkts_burst'[c] = pkts_burst[c]
           \/ c \notin Polled(p) /\ c \notin Polled(p)'
  PROVE  HandAt(p)' = HandAt(p)
<1>1. \A c : c \in Polled(p)' <=> c \in Polled(p)
  BY DEF Polled, portid
<1>2. Polled(p)' = Polled(p)
  BY <1>1
<1>3. \A c \in Polled(p) : InHand(c)' = InHand(c)
  <2> SUFFICES ASSUME NEW c \in Polled(p) PROVE InHand(c)' = InHand(c)
    OBVIOUS
  <2>1. c \in Lcore
    BY DEF Polled
  <2>2. /\ pc'[c] = pc[c] /\ nb_rx'[c] = nb_rx[c] /\ nb_tx'[c] = nb_tx[c]
        /\ pkts_burst'[c] = pkts_burst[c]
    BY <2>1
  <2> QED
    BY <2>2, Zenon DEF InHand
<1>4. CASE Polled(p) = {}
  BY <1>2, <1>4 DEF HandAt
<1>5. CASE Polled(p) # {}
  <2>1. PICK c \in Polled(p) : c = CHOOSE d \in Polled(p) : TRUE
    BY <1>5
  <2>2. HandAt(p) = InHand(c)
    BY <1>5, <2>1 DEF HandAt
  <2>3. HandAt(p)' = InHand(c)'
    BY <1>2, <1>5, <2>1, Zenon DEF HandAt
  <2> QED
    BY <1>3, <2>2, <2>3
<1> QED
  BY <1>4, <1>5

LEMMA LineNext == \A p : Line(p)' = txq'[p] \o HandAt(p)' \o rxq'[p]
BY DEF Line, HandAt, Polled

\* The same for the line.
LEMMA LineKept ==
  ASSUME NEW p, txq'[p] = txq[p], rxq'[p] = rxq[p],
         \A c \in Lcore :
           \/ /\ pc'[c] = pc[c] /\ at'[c] = at[c] /\ nb_rx'[c] = nb_rx[c] /\ nb_tx'[c] = nb_tx[c]
              /\ pkts_burst'[c] = pkts_burst[c]
           \/ c \notin Polled(p) /\ c \notin Polled(p)'
  PROVE  Line(p)' = Line(p)
<1>1. HandAt(p)' = HandAt(p)
  BY HandKept
<1> QED
  BY <1>1, LineIs, LineNext

-----------------------------------------------------------------------------
\* What a step may do to the lines and the pool.
Others(p) == \A q \in Portid : q # p => Line(q)' = Line(q)

Kept == pool' = pool /\ \A q \in Portid : Line(q)' = Line(q)

Entered(p) ==
  \E m \in pool : pool' = pool \ {m} /\ Line(p)' = Append(Line(p), m) /\ Others(p)

Left(p) ==
  /\ Line(p) # <<>> /\ pool' = pool \cup {Head(Line(p))} /\ Line(p)' = Tail(Line(p))
  /\ Others(p)

Dropped(p) ==
  \E first, last \in 1 .. Len(Line(p)) :
    /\ first =< last
    /\ Line(p)' = SubSeq(Line(p), 1, first - 1) \o SubSeq(Line(p), last + 1, Len(Line(p)))
    /\ Others(p)
    /\ \/ \A m : m \in pool' <=> m \in pool \/ \E k \in first .. last : Line(p)[k] = m
       \/ pool' = pool /\ Misfreed'

Move == Kept \/ \E p \in Portid : Entered(p) \/ Left(p) \/ Dropped(p)

LEMMA QueuesAre ==
  ASSUME LoopInv, NEW p \in Portid
  PROVE  /\ txq[p] \in Seq(Mbuf) /\ HandAt(p) \in Seq(Mbuf) /\ rxq[p] \in Seq(Mbuf)
         /\ Line(p) \in Seq(Mbuf)
<1>1. txq[p] \in Seq(Mbuf) /\ HandAt(p) \in Seq(Mbuf) /\ rxq[p] \in Seq(Mbuf)
  BY HandsAt DEF LoopInv, TypeOK
<1> QED
  BY <1>1, Joined, LineIs

\* HandAt, as a step leaves it, where no lcore moves.
LEMMA HandStays ==
  ASSUME UNCHANGED <<pc, at, nb_rx, nb_tx, pkts_burst>>, NEW p
  PROVE  HandAt(p)' = HandAt(p)
BY HandKept

LEMMA ArriveMoves == ASSUME LoopInv, NEW p \in Portid, Arrive(p) PROVE Entered(p)
<1>1. PICK m \in pool : pool' = pool \ {m} /\ rxq' = [rxq EXCEPT ![p] = Append(@, m)]
  BY DEF Arrive
<1>2. /\ UNCHANGED <<txq, pc, at, nb_rx, nb_tx, pkts_burst>>
      /\ m \in Mbuf /\ rxq \in [Portid -> Seq(Mbuf)]
  BY DEF Arrive, locals, LoopInv, TypeOK
<1>3. Others(p)
  BY <1>1, <1>2, LineKept DEF Others
<1>4. Line(p)' = txq[p] \o HandAt(p) \o Append(rxq[p], m)
  <2>1. rxq'[p] = Append(rxq[p], m)
    BY <1>1, <1>2
  <2> QED
    BY <1>2, <2>1, HandStays, LineNext
<1>5. Line(p)' = Append(Line(p), m)
  <2>1. txq[p] \o HandAt(p) \o Append(rxq[p], m) = Append(txq[p] \o HandAt(p) \o rxq[p], m)
    BY <1>2, QueuesAre, JoinAtEnd, Zenon
  <2> QED
    BY <1>4, <2>1, LineIs, Zenon
<1> QED
  BY <1>1, <1>3, <1>5 DEF Entered

LEMMA SentMoves == ASSUME LoopInv, NEW p \in Portid, Sent(p) PROVE Left(p)
<1>1. /\ txq[p] # <<>> /\ pool' = pool \cup {Head(txq[p])} /\ txq' = [txq EXCEPT ![p] = Tail(@)]
      /\ UNCHANGED <<rxq, pc, at, nb_rx, nb_tx, pkts_burst>> /\ txq \in [Portid -> Seq(Mbuf)]
  BY DEF Sent, locals, LoopInv, TypeOK
<1>2. Others(p)
  BY <1>1, LineKept DEF Others
<1>3. Line(p)' = Tail(txq[p]) \o HandAt(p) \o rxq[p]
  <2>1. txq'[p] = Tail(txq[p])
    BY <1>1
  <2> QED
    BY <1>1, <2>1, HandStays, LineNext
<1>4. Line(p) # <<>> /\ Head(Line(p)) = Head(txq[p]) /\ Line(p)' = Tail(Line(p))
  <2> DEFINE l == txq[p] \o HandAt(p) \o rxq[p]
  <2>1. l # <<>> /\ Head(l) = Head(txq[p]) /\ Tail(txq[p]) \o HandAt(p) \o rxq[p] = Tail(l)
    BY <1>1, QueuesAre, JoinTail, Zenon
  <2>2. Line(p) = l
    BY LineIs, Zenon
  <2> QED
    BY <1>3, <2>1, <2>2, Zenon
<1> QED
  BY <1>1, <1>2, <1>4 DEF Left

\* Closing a port empties its line, in which only the queues are: no lcore is
\* left that holds a frame.
LEMMA CloseMoves == ASSUME LoopInv, NEW p \in Portid, ClosePort(p) PROVE Kept \/ Dropped(p)
<1>1. /\ \A c \in Lcore : pc[c] = "done"
      /\ pool' = pool \cup {rxq[p][j] : j \in DOMAIN rxq[p]} \cup {txq[p][j] : j \in DOMAIN txq[p]}
      /\ rxq' = [rxq EXCEPT ![p] = <<>>] /\ txq' = [txq EXCEPT ![p] = <<>>]
      /\ UNCHANGED <<pc, at, nb_rx, nb_tx, pkts_burst>>
      /\ txq \in [Portid -> Seq(Mbuf)] /\ rxq \in [Portid -> Seq(Mbuf)]
  BY DEF ClosePort, locals, LoopInv, TypeOK
<1>2. Others(p)
  BY <1>1, LineKept DEF Others
<1>3. HandAt(p) = <<>> /\ HandAt(p)' = <<>>
  <2>1. Polled(p) = {}
    BY <1>1 DEF Polled
  <2>2. HandAt(p) = <<>>
    BY <2>1 DEF HandAt
  <2> QED
    BY <1>1, <2>2, HandStays
<1>4. Line(p)' = <<>>
  <2>1. txq'[p] = <<>> /\ rxq'[p] = <<>>
    BY <1>1
  <2>2. Line(p)' = <<>> \o <<>> \o <<>>
    BY <1>3, <2>1, LineNext
  <2> QED
    BY <2>2
<1>5. \A m : m \in pool' <=> m \in pool \/ In(Line(p), m)
  <2> SUFFICES ASSUME NEW m PROVE m \in pool' <=> m \in pool \/ In(Line(p), m)
    OBVIOUS
  <2>1. In(Line(p), m) <=> In(txq[p], m) \/ In(HandAt(p), m) \/ In(rxq[p], m)
    <3>1. Line(p) = txq[p] \o HandAt(p) \o rxq[p]
      BY LineIs, Zenon
    <3> QED
      BY <3>1, QueuesAre, JoinedElements, Zenon
  <2>2. ~In(HandAt(p), m)
    BY <1>3 DEF In
  <2> QED
    BY <1>1, <2>1, <2>2 DEF In
<1>6. Line(p) \in Seq(Mbuf) /\ Len(Line(p)) \in Nat /\ DOMAIN Line(p) = 1 .. Len(Line(p))
  BY QueuesAre, LenProperties
<1>7. CASE Line(p) = <<>>
  <2>1. DOMAIN Line(p) = {}
    BY <1>7
  <2>2. \A m : m \in pool' <=> m \in pool
    BY <1>5, <2>1 DEF In
  <2>3. pool' = pool
    BY <2>2, Zenon
  <2> QED
    BY <1>2, <1>4, <1>7, <2>3 DEF Kept, Others
<1>8. CASE Line(p) # <<>>
  <2>1. 1 \in 1 .. Len(Line(p)) /\ Len(Line(p)) \in 1 .. Len(Line(p)) /\ 1 =< Len(Line(p))
    BY <1>6, <1>8, EmptySeq
  <2>2. SubSeq(Line(p), 1, 1 - 1) = <<>>
    BY SubSeqEmpty
  <2>3. SubSeq(Line(p), Len(Line(p)) + 1, Len(Line(p))) = <<>>
    BY <1>6, SubSeqEmpty
  <2>4. Line(p)' = SubSeq(Line(p), 1, 1 - 1) \o SubSeq(Line(p), Len(Line(p)) + 1, Len(Line(p)))
    BY <1>4, <2>2, <2>3
  <2>5. \A m : m \in pool' <=> m \in pool \/ \E k \in 1 .. Len(Line(p)) : Line(p)[k] = m
    BY <1>5, <1>6 DEF In
  <2> QED
    BY <1>2, <2>1, <2>4, <2>5 DEF Dropped
<1> QED
  BY <1>7, <1>8

\* The steps of an lcore that take frames from one part of the line to the
\* next leave the line as it is.
LEMMA RxMoves ==
  ASSUME LoopInv, LoopInv', NEW c \in Lcore, RxBurst(c)
  PROVE  Kept
<1>1. PICK p \in Portid : p = portid(c)
  BY AtPort DEF LoopInv, Local, RxBurst
<1> DEFINE q == rxq[p]
           n == Lesser(Len(q), MAX_PKT_BURST)
           b == [j \in Burst |-> IF j =< n THEN q[j] ELSE pkts_burst[c][j]]
           rest == SubSeq(q, n + 1, Len(q))
<1>2. /\ TypeOK /\ pc[c] = "rx" /\ UNCHANGED <<pool, txq, at>>
      /\ pkts_burst' = [pkts_burst EXCEPT ![c] = b] /\ rxq' = [rxq EXCEPT ![p] = rest]
      /\ nb_rx' = [nb_rx EXCEPT ![c] = n] /\ nb_tx' = [nb_tx EXCEPT ![c] = 0]
      /\ pc' = [pc EXCEPT ![c] = "headers"]
  BY <1>1 DEF LoopInv, RxBurst, Goto
<1>3. q \in Seq(Mbuf) /\ Len(q) \in Nat
  BY <1>2, LenProperties DEF TypeOK
<1>4. n \in 0 .. MAX_PKT_BURST /\ n \in 0 .. Len(q)
  BY <1>3, Sizes DEF Lesser
<1> HIDE DEF n
<1>5. \A j \in 1 .. n : b[j] = q[j] /\ q[j] \in Mbuf
  BY <1>3, <1>4, Sizes, ElementOfSeq DEF Burst
<1> HIDE DEF b, rest
<1>6. /\ portid(c)' = p /\ pc'[c] = "headers" /\ nb_rx'[c] = n /\ pkts_burst'[c] = b
      /\ rxq'[p] = rest /\ b \in [Burst -> Mbuf \cup {Uninit}]
      /\ \A d \in Lcore : d # c => /\ pc'[d] = pc[d] /\ at'[d] = at[d] /\ nb_rx'[d] = nb_rx[d]
                                   /\ nb_tx'[d] = nb_tx[d] /\ pkts_burst'[d] = pkts_burst[d]
  <2>1. pkts_burst' \in [Lcore -> [Burst -> Mbuf \cup {Uninit}]]
    BY DEF LoopInv, TypeOK
  <2>2. pkts_burst'[c] = b /\ b \in [Burst -> Mbuf \cup {Uninit}]
    BY <1>2, <2>1 DEF TypeOK
  <2>3. portid(c)' = p
    BY <1>1, <1>2 DEF portid
  <2> QED
    BY <1>2, <2>2, <2>3 DEF TypeOK
<1>7. HandAt(p) = <<>>
  <2>1. HandAt(p) = InHand(c)
    BY <1>1, <1>2, OwnHand, Zenon
  <2> QED
    BY <1>2, <2>1, InHandIs, Zenon
<1>8. HandAt(p)' = SubSeq(b, 1, n)
  <2>1. (LoopInv => \A x : \A d \in Lcore :
           pc[d] \notin {"start", "while", "done"} /\ portid(d) = x => HandAt(x) = InHand(d))'
    BY OwnHandNext, Zenon
  <2>2. HandAt(p)' = InHand(c)'
    BY <1>6, <2>1, Zenon
  <2>3. InHand(c)' = SubSeq(pkts_burst'[c], 1, nb_rx'[c])
    BY <1>6, Zenon DEF InHand
  <2> QED
    BY <1>6, <2>2, <2>3
<1>9. Line(p)' = Line(p)
  <2>1. Line(p)' = txq[p] \o SubSeq(b, 1, n) \o rest
    BY <1>2, <1>6, <1>8, LineNext
  <2>2. Line(p) = txq[p] \o <<>> \o q
    BY <1>7, LineIs
  <2>3. /\ SubSeq(b, 1, n) \in Seq(Mbuf) /\ Len(SubSeq(b, 1, n)) = n
        /\ \A i \in 1 .. n : SubSeq(b, 1, n)[i] = q[i]
    <3>1. 1 \in Nat \ {0} /\ \A j \in 1 .. n : b[j] \in Mbuf
      BY <1>5
    <3>2. /\ SubSeq(b, 1, n) \in Seq(Mbuf)
          /\ Len(SubSeq(b, 1, n)) = IF 1 =< n THEN n - 1 + 1 ELSE 0
          /\ \A i \in 1 .. n - 1 + 1 : SubSeq(b, 1, n)[i] = b[1 + i - 1]
      BY <1>4, <1>6, <3>1, PartOfBurst
    <3> QED
      BY <1>4, <1>5, <3>2, Sizes
  <2>4. txq[p] \in Seq(Mbuf)
    BY <1>2 DEF TypeOK
  <2>5. txq[p] \o SubSeq(b, 1, n) \o SubSeq(q, n + 1, Len(q)) = txq[p] \o <<>> \o q
    <3> DEFINE h == SubSeq(b, 1, n)
    <3>1. h \in Seq(Mbuf) /\ Len(h) = n /\ \A i \in 1 .. n : h[i] = q[i]
      BY <2>3
    <3> HIDE DEF h, q
    <3>2. txq[p] \o h \o SubSeq(q, n + 1, Len(q)) = txq[p] \o <<>> \o q
      BY <1>3, <1>4, <2>4, <3>1, JoinTaken, Zenon
    <3> QED
      BY <3>2 DEF h
  <2> QED
    BY <2>1, <2>2, <2>5 DEF rest
<1>10. \A r \in Portid : r # p => Line(r)' = Line(r)
  <2> SUFFICES ASSUME NEW r \in Portid, r # p PROVE Line(r)' = Line(r)
    OBVIOUS
  <2>1. c \notin Polled(r) /\ c \notin Polled(r)'
    BY <1>1, <1>6 DEF Polled
  <2>2. txq'[r] = txq[r] /\ rxq'[r] = rxq[r]
    BY <1>2 DEF TypeOK
  <2> QED
    BY <1>6, <2>1, <2>2, LineKept
<1> QED
  BY <1>2, <1>9, <1>10 DEF Kept

LEMMA TxMoves ==
  ASSUME LoopInv, LoopInv', NEW c \in Lcore, TxBurst(c)
  PROVE  Kept
<1>1. PICK p \in Portid : p = portid(c)
  BY AtPort DEF LoopInv, Local, TxBurst
<1> DEFINE b == pkts_burst[c]
           k == nb_rx[c]
           n == Lesser(k, nb_txd - Len(txq[p]))
<1>2. /\ TypeOK /\ Local(c) /\ pc[c] = "nfs" /\ UNCHANGED <<pool, rxq, at, pkts_burst, nb_rx>>
      /\ txq' = [txq EXCEPT ![p] = @ \o SubSeq(b, 1, n)] /\ nb_tx' = [nb_tx EXCEPT ![c] = n]
      /\ pc' = [pc EXCEPT ![c] = IF n < k THEN "free" ELSE "count"]
  BY <1>1 DEF LoopInv, TxBurst, Goto, tx_port
<1>3. /\ txq[p] \in Seq(Mbuf) /\ Len(txq[p]) \in Nat /\ Len(txq[p]) =< nb_txd
      /\ k \in 0 .. MAX_PKT_BURST /\ b \in [Burst -> Mbuf \cup {Uninit}]
      /\ \A j \in 1 .. k : b[j] \in Mbuf
  BY <1>2, LenProperties DEF TypeOK, LoopInv, QueueRoom, Local
<1>4. n \in 0 .. k
  BY <1>3, Sizes DEF Lesser
<1> HIDE DEF n
<1>5. /\ portid(c)' = p /\ nb_rx'[c] = k /\ nb_tx'[c] = n /\ pkts_burst'[c] = b
      /\ pc'[c] = (IF n < k THEN "free" ELSE "count")
      /\ txq'[p] = txq[p] \o SubSeq(b, 1, n) /\ rxq'[p] = rxq[p]
      /\ \A d \in Lcore : d # c => /\ pc'[d] = pc[d] /\ at'[d] = at[d] /\ nb_rx'[d] = nb_rx[d]
                                   /\ nb_tx'[d] = nb_tx[d] /\ pkts_burst'[d] = pkts_burst[d]
  <2>1. portid(c)' = p
    BY <1>1, <1>2 DEF portid
  <2> QED
    BY <1>2, <2>1 DEF TypeOK
<1>6. HandAt(p) = SubSeq(b, 1, k)
  <2>1. HandAt(p) = InHand(c)
    BY <1>1, <1>2, OwnHand, Zenon
  <2> QED
    BY <1>2, <2>1, InHandIs, Zenon
<1>7. HandAt(p)' = SubSeq(b, n + 1, k)
  <2>1. HandAt(p)' = InHand(c)'
    <3>1. pc'[c] \notin {"start", "while", "done"}
      BY <1>5
    <3> QED
      BY <1>5, <3>1, OwnHandNext, Zenon
  <2>2. CASE n < k
    BY <1>5, <2>1, <2>2, Zenon DEF InHand
  <2>3. CASE ~(n < k)
    <3>1. InHand(c)' = <<>>
      BY <1>5, <2>3, Zenon DEF InHand
    <3>2. SubSeq(b, n + 1, k) = <<>>
      <4>1. n + 1 \in Int /\ k \in Int /\ k < n + 1
        BY <1>3, <1>4, <2>3, Sizes
      <4> QED
        BY <4>1, SubSeqEmpty, Zenon
    <3> QED
      BY <2>1, <3>1, <3>2
  <2> QED
    BY <2>2, <2>3
<1>8. Line(p)' = Line(p)
  <2>1. Line(p)' = txq[p] \o SubSeq(b, 1, n) \o SubSeq(b, n + 1, k) \o rxq[p]
    BY <1>5, <1>7, LineNext, Zenon
  <2>2. Line(p) = txq[p] \o SubSeq(b, 1, k) \o rxq[p]
    BY <1>6, LineIs, Zenon
  <2>3. txq[p] \o SubSeq(b, 1, n) \o SubSeq(b, n + 1, k) = txq[p] \o SubSeq(b, 1, k)
    <3> HIDE DEF b, k
    <3> QED
      BY <1>3, <1>4, JoinSent, Zenon
  <2> QED
    BY <2>1, <2>2, <2>3, Zenon
<1>9. \A r \in Portid : r # p => Line(r)' = Line(r)
  <2> SUFFICES ASSUME NEW r \in Portid, r # p PROVE Line(r)' = Line(r)
    OBVIOUS
  <2>1. c \notin Polled(r) /\ c \notin Polled(r)'
    BY <1>1, <1>5 DEF Polled
  <2>2. txq'[r] = txq[r] /\ rxq'[r] = rxq[r]
    BY <1>2 DEF TypeOK
  <2> QED
    BY <1>5, <2>1, <2>2, LineKept
<1> QED
  BY <1>2, <1>8, <1>9 DEF Kept

\* What stands in the middle of three sequences is what stands in the middle
\* one, from the first to the last.
CutOut(l, h, rest) ==
  \E first, last \in 1 .. Len(l) :
    /\ first =< last
    /\ rest = SubSeq(l, 1, first - 1) \o SubSeq(l, last + 1, Len(l))
    /\ \A m : In(h, m) <=> \E i \in first .. last : l[i] = m

LEMMA Middle ==
  ASSUME NEW t \in Seq(Mbuf), NEW h \in Seq(Mbuf), NEW r \in Seq(Mbuf), NEW l,
         l = t \o h \o r, Len(h) >= 1
  PROVE  CutOut(l, h, t \o <<>> \o r)
<1>1. PICK n \in Nat, k \in Nat, e \in Nat :
        /\ n = Len(t) /\ k = Len(h) /\ Len(l) = n + k + e /\ DOMAIN h = 1 .. k
        /\ \A i \in 1 .. k : l[n + i] = h[i]
  <2>1. /\ Len(t) \in Nat /\ Len(h) \in Nat /\ Len(r) \in Nat
        /\ Len(l) = Len(t) + Len(h) + Len(r)
        /\ \A i \in 1 .. Len(h) : l[Len(t) + i] = h[i]
    BY JoinedParts
  <2>2. DOMAIN h = 1 .. Len(h)
    BY LenProperties
  <2> QED
    BY <2>1, <2>2, Zenon
<1>2. k >= 1
  BY <1>1
<1>3. PICK first \in Nat, last \in Nat : first = n + 1 /\ last = n + k
  OBVIOUS
<1>4. /\ first \in 1 .. Len(l) /\ last \in 1 .. Len(l) /\ first =< last /\ first - 1 = n
  BY <1>1, <1>2, <1>3
<1>5. t \o <<>> \o r = SubSeq(l, 1, first - 1) \o SubSeq(l, last + 1, Len(l))
  <2>1. t \o <<>> \o r = SubSeq(l, 1, Len(t)) \o SubSeq(l, Len(t) + Len(h) + 1, Len(l))
    BY JoinDrop, Zenon
  <2> QED
    BY <1>1, <1>3, <1>4, <2>1, Zenon
<1>6. ASSUME NEW m PROVE In(h, m) <=> \E i \in first .. last : l[i] = m
  <2>1. ASSUME In(h, m) PROVE \E i \in first .. last : l[i] = m
    <3>1. PICK i \in 1 .. k : h[i] = m
      BY <1>1, <2>1 DEF In
    <3>2. n + i \in first .. last /\ l[n + i] = m
      BY <1>1, <1>3, <3>1
    <3> QED
      BY <3>2
  <2>2. ASSUME NEW i \in first .. last, l[i] = m PROVE In(h, m)
    <3>1. i - n \in 1 .. k /\ n + (i - n) = i
      BY <1>3
    <3>2. h[i - n] = m
      BY <1>1, <2>2, <3>1
    <3> QED
      BY <1>1, <3>1, <3>2 DEF In
  <2> QED
    BY <2>1, <2>2
<1> QED
  BY <1>4, <1>5, <1>6, Zenon DEF CutOut

\* Freeing empties the hand; where that is not what it does, it is undefined.
LEMMA FreeMoves ==
  ASSUME LoopInv, LoopInv', NEW c \in Lcore, FreeBurst(c)
  PROVE  \E p \in Portid : Dropped(p)
<1>1. PICK p \in Portid : p = portid(c)
  BY AtPort DEF LoopInv, Local, FreeBurst
<1> DEFINE b == pkts_burst[c]
<1>2. /\ TypeOK /\ Local(c) /\ pc[c] = "free"
      /\ UNCHANGED <<rxq, txq, at, pkts_burst, nb_rx, nb_tx>>
      /\ pc' = [pc EXCEPT ![c] = "count"] \/ pc' = [pc EXCEPT ![c] = "undefined"]
  BY DEF LoopInv, FreeBurst, Goto, locals
<1>3. /\ txq[p] \in Seq(Mbuf) /\ rxq[p] \in Seq(Mbuf) /\ nb_tx[c] \in Nat
      /\ nb_rx[c] \in 0 .. MAX_PKT_BURST /\ nb_tx[c] < nb_rx[c]
      /\ b \in [Burst -> Mbuf \cup {Uninit}] /\ \A j \in 1 .. nb_rx[c] : b[j] \in Mbuf
  BY <1>2, Sizes DEF TypeOK, Local
<1>4. PICK h \in Seq(Mbuf) :
        /\ h = SubSeq(b, nb_tx[c] + 1, nb_rx[c]) /\ Len(h) = nb_rx[c] - nb_tx[c]
        /\ \A i \in 1 .. nb_rx[c] - nb_tx[c] : h[i] = b[nb_tx[c] + i]
  <2>1. PICK m \in Nat \ {0}, n \in 0 .. MAX_PKT_BURST :
          m = nb_tx[c] + 1 /\ n = nb_rx[c] /\ m =< n /\ n - m + 1 = nb_rx[c] - nb_tx[c]
    BY <1>3, Sizes
  <2>2. \A j \in m .. n : b[j] \in Mbuf
    BY <1>3, <2>1, Sizes
  <2>3. /\ SubSeq(b, m, n) \in Seq(Mbuf)
        /\ Len(SubSeq(b, m, n)) = IF m =< n THEN n - m + 1 ELSE 0
        /\ \A i \in 1 .. n - m + 1 : SubSeq(b, m, n)[i] = b[m + i - 1]
    BY <1>3, <2>2, PartOfBurst
  <2>4. PICK h \in Seq(Mbuf) : h = SubSeq(b, m, n)
    BY <2>3, Zenon
  <2>5. Len(h) = n - m + 1 /\ \A i \in 1 .. n - m + 1 : h[i] = b[m + i - 1]
    BY <2>1, <2>3, <2>4, Zenon
  <2>6. \A i \in 1 .. n - m + 1 : m + i - 1 = nb_tx[c] + i
    BY <1>3, <2>1
  <2>7. /\ Len(h) = nb_rx[c] - nb_tx[c]
        /\ \A i \in 1 .. nb_rx[c] - nb_tx[c] : h[i] = b[nb_tx[c] + i]
    BY <2>1, <2>5, <2>6, Zenon
  <2> QED
    BY <2>1, <2>4, <2>7, Zenon
<1>5. /\ portid(c)' = p /\ pc'[c] \in {"count", "undefined"}
      /\ \A d \in Lcore : d # c => pc'[d] = pc[d]
  <2>1. portid(c)' = p
    BY <1>1, <1>2 DEF portid
  <2> QED
    BY <1>2, <2>1 DEF TypeOK
<1>6. HandAt(p) = h
  <2>1. HandAt(p) = InHand(c)
    BY <1>1, <1>2, OwnHand, Zenon
  <2> QED
    BY <1>2, <1>4, <2>1, InHandIs, Zenon
<1>7. HandAt(p)' = <<>>
  <2>1. pc'[c] \notin {"start", "while", "done"} /\ pc'[c] \notin {"headers", "nfs", "free"}
    BY <1>5
  <2>2. HandAt(p)' = InHand(c)'
    BY <1>5, <2>1, OwnHandNext, Zenon
  <2>3. InHand(c)' = <<>>
    BY <2>1, Zenon DEF InHand
  <2> QED
    BY <2>2, <2>3
<1>8. Line(p) = txq[p] \o h \o rxq[p] /\ Line(p)' = txq[p] \o <<>> \o rxq[p]
  BY <1>2, <1>6, <1>7, LineIs, LineNext
<1>9. Len(h) >= 1
  BY <1>3, <1>4, Sizes
<1>10. CutOut(Line(p), h, Line(p)')
  <2>1. CutOut(txq[p] \o h \o rxq[p], h, txq[p] \o <<>> \o rxq[p])
    BY <1>3, <1>9, Middle
  <2> QED
    BY <1>8, <2>1, Zenon
<1>11. \/ \A m : m \in pool' <=> m \in pool \/ In(h, m)
       \/ pool' = pool /\ Misfreed'
  <2>1. CASE nb_tx[c] = 0 /\ nb_rx[c] = MAX_PKT_BURST
    <3>1. pool' = pool \cup {b[j] : j \in Burst}
      BY <2>1 DEF FreeBurst
    <3>2. DOMAIN h = Burst
      <4>1. DOMAIN h = 1 .. nb_rx[c] - nb_tx[c]
        BY <1>4, LenProperties
      <4>2. nb_rx[c] - nb_tx[c] = MAX_PKT_BURST
        BY <2>1, Sizes
      <4> QED
        BY <4>1, <4>2 DEF Burst
    <3>3. \A i \in Burst : h[i] = b[i]
      BY <1>4, <2>1, Sizes DEF Burst
    <3> QED
      BY <3>1, <3>2, <3>3 DEF In
  <2>2. CASE ~(nb_tx[c] = 0 /\ nb_rx[c] = MAX_PKT_BURST)
    <3>1. pool' = pool /\ pc' = [pc EXCEPT ![c] = "undefined"]
      BY <2>2 DEF FreeBurst, Goto
    <3>2. pc'[c] = "undefined"
      BY <1>2, <3>1 DEF TypeOK
    <3> QED
      BY <3>1, <3>2 DEF Misfreed
  <2> QED
    BY <2>1, <2>2
<1>12. Others(p)
  <2> SUFFICES ASSUME NEW r \in Portid, r # p PROVE Line(r)' = Line(r)
    BY DEF Others
  <2>1. c \notin Polled(r) /\ c \notin Polled(r)'
    BY <1>1, <1>5 DEF Polled
  <2> QED
    BY <1>2, <1>5, <2>1, LineKept
<1> QED
  BY <1>10, <1>11, <1>12, Zenon DEF CutOut, Dropped

\* The other steps move no frame.
LEMMA OtherMoves ==
  ASSUME LoopInv, NEW c \in Lcore,
         Launch(c) \/ While(c) \/ GetHeaders(c) \/ RunNfs(c) \/ CountTx(c) \/ CheckQuit(c)
  PROVE  Kept
<1>1. /\ TypeOK /\ UNCHANGED <<pool, rxq, txq, pkts_burst, nb_rx, nb_tx>>
      /\ \A d \in Lcore : d # c => pc'[d] = pc[d] /\ at'[d] = at[d]
  <2>1. \/ pc' = pc \/ \E label : pc' = [pc EXCEPT ![c] = label]
    BY DEF Launch, While, GetHeaders, RunNfs, CountTx, CheckQuit, Goto
  <2>2. \/ at' = at \/ \E i : at' = [at EXCEPT ![c] = i]
    BY DEF Launch, While, GetHeaders, RunNfs, CountTx, CheckQuit, locals
  <2>3. TypeOK /\ UNCHANGED <<pool, rxq, txq, pkts_burst, nb_rx, nb_tx>>
    BY DEF LoopInv, Launch, While, GetHeaders, RunNfs, CountTx, CheckQuit, nic, locals
  <2> QED
    BY <2>1, <2>2, <2>3 DEF TypeOK
<1>2. CASE Launch(c) \/ While(c) \/ CountTx(c) \/ CheckQuit(c)
  <2>1. pc[c] \notin {"headers", "nfs", "free"} /\ pc'[c] \notin {"headers", "nfs", "free"}
    BY <1>1, <1>2 DEF Launch, While, CountTx, CheckQuit, Goto, TypeOK
  <2>2. \A p : c \notin Polled(p) /\ c \notin Polled(p)'
    BY <2>1 DEF Polled
  <2>3. \A p \in Portid : Line(p)' = Line(p)
    BY <1>1, <2>2, LineKept
  <2> QED
    BY <1>1, <2>3 DEF Kept
<1>3. CASE RunNfs(c)
  <2>1. pc' = pc /\ at' = at
    BY <1>3 DEF RunNfs
  <2>2. \A p \in Portid : Line(p)' = Line(p)
    BY <1>1, <2>1, LineKept
  <2> QED
    BY <1>1, <2>2 DEF Kept
<1>4. CASE GetHeaders(c)
  <2>1. /\ pc[c] = "headers" /\ pc'[c] = "nfs" /\ at' = at
    BY <1>1, <1>4 DEF GetHeaders, Goto, TypeOK
  <2>2. \A p : Polled(p)' = Polled(p)
    <3>1. \A p : \A d \in Lcore : d \in Polled(p)' <=> d \in Polled(p)
      BY <1>1, <2>1 DEF Polled, portid
    <3> QED
      BY <3>1 DEF Polled
  <2>3. \A d \in Lcore : InHand(d)' = InHand(d)
    <3> SUFFICES ASSUME NEW d \in Lcore PROVE InHand(d)' = InHand(d)
      OBVIOUS
    <3>1. CASE d = c
      <4>1. InHand(c) = SubSeq(pkts_burst[c], 1, nb_rx[c])
        BY <2>1, InHandIs, Zenon
      <4>2. InHand(c)' = SubSeq(pkts_burst'[c], 1, nb_rx'[c])
        BY <2>1, Zenon DEF InHand
      <4> QED
        BY <1>1, <3>1, <4>1, <4>2
    <3>2. CASE d # c
      <4>1. pc'[d] = pc[d]
        BY <1>1, <3>2
      <4> QED
        BY <1>1, <4>1, Zenon DEF InHand
    <3> QED
      BY <3>1, <3>2
  <2>4. \A p : HandAt(p)' = HandAt(p)
    <3> SUFFICES ASSUME NEW p PROVE HandAt(p)' = HandAt(p)
      OBVIOUS
    <3>1. CASE Polled(p) = {}
      BY <2>2, <3>1 DEF HandAt
    <3>2. CASE Polled(p) # {}
      <4>1. PICK d \in Polled(p) : d = CHOOSE x \in Polled(p) : TRUE
        BY <3>2
      <4>2. d \in Lcore
        BY DEF Polled
      <4>3. HandAt(p) = InHand(d)
        BY <3>2, <4>1 DEF HandAt
      <4>4. HandAt(p)' = InHand(d)'
        BY <2>2, <3>2, <4>1, Zenon DEF HandAt
      <4> QED
        BY <2>3, <4>2, <4>3, <4>4
    <3> QED
      BY <3>1, <3>2
  <2>5. \A p \in Portid : Line(p)' = Line(p)
    BY <1>1, <2>4, LineIs, LineNext
  <2> QED
    BY <1>1, <2>5 DEF Kept
<1> QED
  BY <1>2, <1>3, <1>4

LEMMA Moves == LoopInv /\ LoopInv' /\ [Next]_vars => Move
<1> SUFFICES ASSUME LoopInv, LoopInv', [Next]_vars PROVE Move
  OBVIOUS
<1>1. CASE \E p \in Portid : Arrive(p) \/ Sent(p) \/ ClosePort(p)
  BY <1>1, ArriveMoves, SentMoves, CloseMoves DEF Move
<1>2. CASE \E c \in Lcore : MainLoop(c)
  BY <1>2, RxMoves, TxMoves, FreeMoves, OtherMoves DEF MainLoop, Move
<1>3. CASE Signal \/ UNCHANGED vars
  <2>1. UNCHANGED <<pool, rxq, txq, pc, at, nb_rx, nb_tx, pkts_burst>>
    BY <1>3 DEF Signal, vars, nic, locals
  <2>2. \A p \in Portid : Line(p)' = Line(p)
    BY <2>1, LineKept
  <2> QED
    BY <2>1, <2>2 DEF Move, Kept
<1> QED
  BY <1>1, <1>2, <1>3 DEF Next, Stay

-----------------------------------------------------------------------------
\* The lines as one function, and what is to be shown of it and of the pool.
lines == [p \in Portid |-> Line(p)]

Distinct(line) ==
  \A p, q \in Portid : \A i \in DOMAIN line[p], j \in DOMAIN line[q] :
    line[p][i] = line[q][j] => p = q /\ i = j

Apart(line, free) == \A p \in Portid : \A i \in DOMAIN line[p] : line[p][i] \notin free

AllOf(line, free) == \A m \in Mbuf : m \in free \/ \E p \in Portid : In(line[p], m)

Placed == Distinct(lines) /\ Apart(lines, pool)
Complete == ~Misfreed => AllOf(lines, pool)

LEMMA LinesAre == LoopInv => lines \in [Portid -> Seq(Mbuf)]
BY QueuesAre DEF lines

\* A frame that enters a line is nowhere else.
LEMMA EnterPlaced ==
  ASSUME NEW l \in [Portid -> Seq(Mbuf)], NEW k \in [Portid -> Seq(Mbuf)], NEW free, NEW rest,
         NEW p \in Portid, NEW m \in Mbuf, m \in free, rest = free \ {m},
         k[p] = Append(l[p], m), \A q \in Portid : q # p => k[q] = l[q],
         Distinct(l), Apart(l, free)
  PROVE  Distinct(k) /\ Apart(k, rest) /\ (AllOf(l, free) => AllOf(k, rest))
<1>1. PICK n \in Nat : /\ n = Len(l[p]) /\ DOMAIN l[p] = 1 .. n /\ DOMAIN k[p] = 1 .. n + 1
                       /\ k[p][n + 1] = m /\ \A i \in 1 .. n : k[p][i] = l[p][i]
  <2>1. /\ Len(l[p]) \in Nat /\ DOMAIN l[p] = 1 .. Len(l[p]) /\ Len(k[p]) = Len(l[p]) + 1
        /\ DOMAIN k[p] = 1 .. Len(k[p]) /\ k[p][Len(l[p]) + 1] = m
        /\ \A i \in 1 .. Len(l[p]) : k[p][i] = l[p][i]
    BY AppendProperties, LenProperties
  <2> QED
    BY <2>1
<1>2. \A i \in 1 .. n + 1 : i \in 1 .. n \/ i = n + 1
  OBVIOUS
<1>3. \A i \in 1 .. n : i \in 1 .. n + 1
  OBVIOUS
<1>4. n + 1 \in 1 .. n + 1
  OBVIOUS
<1>5. \A q \in Portid : \A i \in DOMAIN l[q] : l[q][i] # m /\ l[q][i] \in Mbuf
  BY DEF Apart
<1>6. \A q \in Portid : \A i \in DOMAIN k[q] :
        \/ i \in DOMAIN l[q] /\ k[q][i] = l[q][i]
        \/ q = p /\ i = n + 1 /\ k[q][i] = m
  BY <1>1, <1>2
<1>7. Distinct(k)
  <2> SUFFICES ASSUME NEW q \in Portid, NEW r \in Portid, NEW i \in DOMAIN k[q],
                      NEW j \in DOMAIN k[r], k[q][i] = k[r][j]
               PROVE  q = r /\ i = j
    BY DEF Distinct
  <2>1. CASE i \in DOMAIN l[q] /\ k[q][i] = l[q][i]
    <3>1. k[r][j] # m
      BY <1>5, <2>1, Zenon
    <3>2. j \in DOMAIN l[r] /\ k[r][j] = l[r][j]
      BY <1>6, <3>1, Zenon
    <3>3. l[q][i] = l[r][j]
      BY <2>1, <3>2
    <3> QED
      <4>1. \A j1 \in DOMAIN l[r] : l[q][i] = l[r][j1] => q = r /\ i = j1
        BY <2>1 DEF Distinct
      <4> QED
        BY <3>2, <3>3, <4>1
  <2>2. CASE q = p /\ i = n + 1 /\ k[q][i] = m
    <3>1. r = p /\ j = n + 1
      BY <1>5, <1>6, <2>2, Zenon
    <3> QED
      BY <2>2, <3>1
  <2> QED
    BY <1>6, <2>1, <2>2
<1>8. Apart(k, rest)
  BY <1>6 DEF Apart
<1>9. ASSUME AllOf(l, free) PROVE AllOf(k, rest)
  <2> SUFFICES ASSUME NEW x \in Mbuf, x \notin rest PROVE \E q \in Portid : In(k[q], x)
    BY DEF AllOf
  <2>1. CASE x = m
    BY <1>1, <1>4, <2>1 DEF In
  <2>2. CASE x # m
    <3>0. PICK q \in Portid : In(l[q], x)
      BY <1>9, <2>2 DEF AllOf
    <3>1. PICK i \in DOMAIN l[q] : l[q][i] = x
      BY <3>0 DEF In
    <3>2. i \in DOMAIN k[q] /\ k[q][i] = x
      BY <1>1, <1>3, <3>1
    <3> QED
      BY <3>2 DEF In
  <2> QED
    BY <2>1, <2>2
<1> QED
  BY <1>7, <1>8, <1>9

\* k is l without its entries from first to last: place says where in l each
\* entry of k is.
Without(l, first, last, k) ==
  \E place \in [DOMAIN k -> DOMAIN l] :
    /\ \A i, j \in DOMAIN k : place[i] = place[j] => i = j
    /\ \A i \in DOMAIN k : k[i] = l[place[i]] /\ place[i] \notin first .. last
    /\ \A x \in DOMAIN l : x \in first .. last \/ \E i \in DOMAIN k : place[i] = x

LEMMA PartFrom ==
  ASSUME NEW s \in Seq(Mbuf), NEW u \in Nat, NEW v \in Nat, u =< v, v =< Len(s)
  PROVE  /\ SubSeq(s, u + 1, v) \in Seq(Mbuf) /\ Len(SubSeq(s, u + 1, v)) = v - u
         /\ \A i \in 1 .. v - u : SubSeq(s, u + 1, v)[i] = s[u + i]
<1>1. PICK m \in Nat \ {0}, n \in 0 .. Len(s) : m = u + 1 /\ n = v /\ Len(s) \in Nat
  <2>1. Len(s) \in Nat
    BY LenProperties
  <2>2. u + 1 \in Nat \ {0} /\ v \in 0 .. Len(s)
    BY <2>1
  <2> QED
    BY <2>1, <2>2
<1>2. PICK t \in Seq(Mbuf) : t = SubSeq(s, m, n)
  BY Part, Zenon
<1>3. Len(t) = (IF m =< n THEN n - m + 1 ELSE 0) /\ \A i \in 1 .. n - m + 1 : t[i] = s[m + i - 1]
  <2>1. /\ Len(SubSeq(s, m, n)) = IF m =< n THEN n - m + 1 ELSE 0
        /\ \A i \in 1 .. n - m + 1 : SubSeq(s, m, n)[i] = s[m + i - 1]
    BY Part
  <2> QED
    BY <1>2, <2>1, Zenon
<1>4. n - m + 1 = v - u /\ (m =< n \/ v - u = 0) /\ \A i \in 1 .. v - u : m + i - 1 = u + i
  BY <1>1
<1>5. Len(t) = v - u
  BY <1>3, <1>4
<1>6. \A i \in 1 .. v - u : t[i] = s[u + i]
  BY <1>3, <1>4, Zenon
<1> QED
  BY <1>1, <1>2, <1>5, <1>6, Zenon

LEMMA WithoutMiddle ==
  ASSUME NEW l \in Seq(Mbuf), NEW first \in 1 .. Len(l), NEW last \in 1 .. Len(l), first =< last
  PROVE  Without(l, first, last, SubSeq(l, 1, first - 1) \o SubSeq(l, last + 1, Len(l)))
<1>1. PICK n \in Nat : n = Len(l) /\ DOMAIN l = 1 .. n /\ first \in 1 .. n /\ last \in 1 .. n
  BY LenProperties
<1>2. PICK u \in Nat : u = first - 1
  BY <1>1
<1>3. PICK w \in Nat : w = n - last
  <2>1. n - last \in Nat
    BY <1>1
  <2> QED
    BY <2>1
<1>4. PICK gap \in Nat : gap = last - u
  BY <1>1, <1>2
<1>5. n = u + gap + w /\ u =< n /\ last = u + gap /\ first = u + 1 /\ gap >= 1 /\ last \in Nat
  BY <1>1, <1>2, <1>3, <1>4
<1>6. PICK s \in Seq(Mbuf) : /\ s = SubSeq(l, 1, first - 1) /\ Len(s) = u
                             /\ \A i \in 1 .. u : s[i] = l[i]
  <2>1. PICK o \in Nat : o = 0 /\ o =< u /\ u =< Len(l) /\ u - o = u
    BY <1>1, <1>5
  <2>2. /\ SubSeq(l, o + 1, u) \in Seq(Mbuf) /\ Len(SubSeq(l, o + 1, u)) = u - o
        /\ \A i \in 1 .. u - o : SubSeq(l, o + 1, u)[i] = l[o + i]
    BY <2>1, PartFrom
  <2>3. PICK s \in Seq(Mbuf) : s = SubSeq(l, o + 1, u)
    BY <2>2
  <2>4. Len(s) = u /\ \A i \in 1 .. u : s[i] = l[o + i]
    BY <2>1, <2>2, <2>3, Zenon
  <2>5. o + 1 = 1 /\ \A i \in 1 .. u : o + i = i
    BY <2>1
  <2> QED
    BY <1>2, <2>3, <2>4, <2>5, Zenon
<1>7. PICK t \in Seq(Mbuf) : /\ t = SubSeq(l, last + 1, Len(l)) /\ Len(t) = w
                             /\ \A i \in 1 .. w : t[i] = l[last + i]
  <2>1. last =< n /\ n =< Len(l) /\ n - last = w /\ last \in Nat
    BY <1>1, <1>3, <1>5
  <2>2. /\ SubSeq(l, last + 1, n) \in Seq(Mbuf) /\ Len(SubSeq(l, last + 1, n)) = n - last
        /\ \A i \in 1 .. n - last : SubSeq(l, last + 1, n)[i] = l[last + i]
    BY <2>1, PartFrom
  <2> QED
    BY <1>1, <2>1, <2>2, Zenon
<1>8. PICK k \in Seq(Mbuf) :
        /\ k = s \o t /\ Len(k) = Len(s) + Len(t)
        /\ \A i \in 1 .. Len(s) + Len(t) : k[i] = IF i <= Len(s) THEN s[i] ELSE t[i - Len(s)]
  BY Concatenated
<1>9. DOMAIN k = 1 .. u + w
  <2>1. DOMAIN k = 1 .. Len(k)
    BY <1>8, LenProperties
  <2> QED
    BY <1>6, <1>7, <1>8, <2>1, Zenon
<1> DEFINE place == [i \in DOMAIN k |-> IF i =< u THEN i ELSE i + gap]
<1>10. \A i \in 1 .. u + w : place[i] = (IF i =< u THEN i ELSE i + gap)
  BY <1>9
<1>11. place \in [DOMAIN k -> DOMAIN l]
  <2>1. \A i \in 1 .. u + w : (IF i =< u THEN i ELSE i + gap) \in 1 .. n
    BY <1>5
  <2> QED
    BY <1>1, <1>9, <2>1
<1> HIDE DEF place
<1>12. \A i, j \in 1 .. u + w : place[i] = place[j] => i = j
  <2> SUFFICES ASSUME NEW i \in 1 .. u + w, NEW j \in 1 .. u + w, place[i] = place[j]
               PROVE  i = j
    OBVIOUS
  <2>1. /\ place[i] = (IF i =< u THEN i ELSE i + gap)
        /\ place[j] = (IF j =< u THEN j ELSE j + gap)
    BY <1>10
  <2>2. CASE i =< u /\ j =< u
    BY <2>1, <2>2
  <2>3. CASE i =< u /\ ~(j =< u)
    <3>1. i = j + gap
      BY <2>1, <2>3
    <3> QED
      BY <2>3, <3>1
  <2>4. CASE ~(i =< u) /\ j =< u
    <3>1. j = i + gap
      BY <2>1, <2>4
    <3> QED
      BY <2>4, <3>1
  <2>5. CASE ~(i =< u) /\ ~(j =< u)
    <3>1. i + gap = j + gap
      BY <2>1, <2>5
    <3> QED
      BY <3>1
  <2> QED
    BY <2>2, <2>3, <2>4, <2>5
<1>13. \A i \in 1 .. u + w : place[i] \notin first .. last
  BY <1>5, <1>10
<1>14. \A i \in 1 .. u + w : k[i] = l[place[i]]
  <2> SUFFICES ASSUME NEW i \in 1 .. u + w PROVE k[i] = l[place[i]]
    OBVIOUS
  <2>1. k[i] = IF i =< u THEN s[i] ELSE t[i - u]
    BY <1>6, <1>7, <1>8, Zenon
  <2>2. CASE i =< u
    <3>1. i \in 1 .. u
      BY <2>2
    <3>2. place[i] = i
      BY <1>10, <2>2
    <3> QED
      BY <1>6, <2>1, <2>2, <3>1, <3>2
  <2>3. CASE ~(i =< u)
    <3>1. PICK j \in 1 .. w : j = i - u /\ last + j = i + gap
      BY <1>5, <2>3
    <3>2. place[i] = i + gap
      BY <1>10, <2>3
    <3> QED
      BY <1>7, <2>1, <2>3, <3>1, <3>2
  <2> QED
    BY <2>2, <2>3
<1>15. \A x \in 1 .. n : x \in first .. last \/ \E i \in 1 .. u + w : place[i] = x
  <2> SUFFICES ASSUME NEW x \in 1 .. n, x \notin first .. last
               PROVE  \E i \in 1 .. u + w : place[i] = x
    OBVIOUS
  <2>1. CASE x =< u
    <3>1. x \in 1 .. u + w
      BY <2>1
    <3>2. place[x] = x
      BY <1>10, <2>1, <3>1
    <3> QED
      BY <3>1, <3>2
  <2>2. CASE ~(x =< u)
    <3>1. PICK i \in 1 .. u + w : i = x - gap /\ ~(i =< u) /\ i + gap = x
      BY <1>5, <2>2
    <3>2. place[i] = x
      BY <1>10, <3>1
    <3> QED
      BY <3>2
  <2> QED
    BY <2>1, <2>2
<1>16. Without(l, first, last, k)
  <2>1. /\ \A i, j \in DOMAIN k : place[i] = place[j] => i = j
        /\ \A i \in DOMAIN k : k[i] = l[place[i]] /\ place[i] \notin first .. last
    BY <1>9, <1>12, <1>13, <1>14
  <2>2. \A x \in DOMAIN l : x \in first .. last \/ \E i \in DOMAIN k : place[i] = x
    BY <1>1, <1>9, <1>15
  <2> QED
    BY <1>11, <2>1, <2>2, Zenon DEF Without
<1> QED
  BY <1>6, <1>7, <1>8, <1>16, Zenon

\* What was dropped from a line is on none, and may be free.
Between(l, first, last, m) == \E i \in first .. last : l[i] = m
Freed(l, first, last, free, rest) ==
  \A m : m \in rest <=> m \in free \/ Between(l, first, last, m)

LEMMA RemovePlaced ==
  ASSUME NEW l \in [Portid -> Seq(Mbuf)], NEW k \in [Portid -> Seq(Mbuf)], NEW free, NEW rest,
         NEW p \in Portid, NEW first \in DOMAIN l[p], NEW last \in DOMAIN l[p],
         Without(l[p], first, last, k[p]), \A q \in Portid : q # p => k[q] = l[q],
         Distinct(l), Apart(l, free),
         \/ Freed(l[p], first, last, free, rest)
         \/ rest = free
  PROVE  /\ Distinct(k) /\ Apart(k, rest)
         /\ Freed(l[p], first, last, free, rest) /\ AllOf(l, free) => AllOf(k, rest)
<1>1. PICK place \in [DOMAIN k[p] -> DOMAIN l[p]] :
        /\ \A i, j \in DOMAIN k[p] : place[i] = place[j] => i = j
        /\ \A i \in DOMAIN k[p] : k[p][i] = l[p][place[i]] /\ place[i] \notin first .. last
        /\ \A x \in DOMAIN l[p] : x \in first .. last \/ \E i \in DOMAIN k[p] : place[i] = x
  BY DEF Without
<1>2. Distinct(k)
  <2> SUFFICES ASSUME NEW q \in Portid, NEW r \in Portid, NEW i \in DOMAIN k[q],
                      NEW j \in DOMAIN k[r], k[q][i] = k[r][j]
               PROVE  q = r /\ i = j
    BY DEF Distinct
  <2>1. CASE q = p /\ r = p
    <3>1. place[i] \in DOMAIN l[p] /\ place[j] \in DOMAIN l[p] /\ l[p][place[i]] = l[p][place[j]]
      BY <1>1, <2>1
    <3>2. place[i] = place[j]
      BY <3>1 DEF Distinct
    <3> QED
      BY <1>1, <2>1, <3>2
  <2>2. CASE q = p /\ r # p
    <3>1. place[i] \in DOMAIN l[p] /\ j \in DOMAIN l[r] /\ l[p][place[i]] = l[r][j]
      BY <1>1, <2>2
    <3> QED
      BY <2>2, <3>1 DEF Distinct
  <2>3. CASE q # p /\ r = p
    <3>1. i \in DOMAIN l[q] /\ place[j] \in DOMAIN l[p] /\ l[q][i] = l[p][place[j]]
      BY <1>1, <2>3
    <3> QED
      BY <2>3, <3>1 DEF Distinct
  <2>4. CASE q # p /\ r # p
    <3>1. i \in DOMAIN l[q] /\ j \in DOMAIN l[r] /\ l[q][i] = l[r][j]
      BY <2>4
    <3> QED
      BY <3>1 DEF Distinct
  <2> QED
    BY <2>1, <2>2, <2>3, <2>4
<1>3. ASSUME NEW q \in Portid, NEW i \in DOMAIN k[q]
      PROVE  k[q][i] \notin free /\ ~Between(l[p], first, last, k[q][i])
  <2>1. CASE q = p
    <3>1. place[i] \in DOMAIN l[p] /\ k[q][i] = l[p][place[i]] /\ place[i] \notin first .. last
      BY <1>1, <2>1
    <3>2. \A j \in DOMAIN l[p] : l[p][place[i]] = l[p][j] => place[i] = j
      BY <3>1 DEF Distinct
    <3>3. \A j \in first .. last : j \in DOMAIN l[p]
      BY LenProperties
    <3>4. ~Between(l[p], first, last, k[q][i])
      BY <3>1, <3>2, <3>3 DEF Between
    <3> QED
      BY <3>1, <3>4 DEF Apart
  <2>2. CASE q # p
    <3>1. i \in DOMAIN l[q] /\ k[q][i] = l[q][i]
      BY <2>2
    <3>2. \A j \in DOMAIN l[p] : l[q][i] # l[p][j]
      BY <2>2, <3>1 DEF Distinct
    <3>3. \A j \in first .. last : j \in DOMAIN l[p]
      BY LenProperties
    <3>4. ~Between(l[p], first, last, k[q][i])
      BY <3>1, <3>2, <3>3 DEF Between
    <3> QED
      BY <3>1, <3>4 DEF Apart
  <2> QED
    BY <2>1, <2>2
<1>4. Apart(k, rest)
  BY <1>3 DEF Apart, Freed
<1>5. ASSUME Freed(l[p], first, last, free, rest), AllOf(l, free)
      PROVE  AllOf(k, rest)
  <2> SUFFICES ASSUME NEW m \in Mbuf, m \notin rest PROVE \E q \in Portid : In(k[q], m)
    BY DEF AllOf
  <2>1. m \notin free /\ ~Between(l[p], first, last, m)
    BY <1>5 DEF Freed
  <2>2. PICK q \in Portid : In(l[q], m)
    BY <1>5, <2>1 DEF AllOf
  <2>3. PICK x \in DOMAIN l[q] : l[q][x] = m
    BY <2>2 DEF In
  <2>4. CASE q = p
    <3>1. x \notin first .. last
      BY <2>1, <2>3, <2>4 DEF Between
    <3>2. PICK i \in DOMAIN k[p] : place[i] = x
      BY <1>1, <2>3, <2>4, <3>1
    <3>3. k[p][i] = m
      BY <1>1, <2>3, <2>4, <3>2
    <3> QED
      BY <3>3 DEF In
  <2>5. CASE q # p
    BY <2>2, <2>5
  <2> QED
    BY <2>4, <2>5
<1> QED
  BY <1>2, <1>4, <1>5

\* What was misfreed stays so: that lcore is followed no further.
LEMMA MisfreedStays == LoopInv /\ [Next]_vars /\ Misfreed => Misfreed'
<1> SUFFICES ASSUME LoopInv, [Next]_vars, NEW c \in Lcore, pc[c] = "undefined"
             PROVE  pc'[c] = "undefined"
  BY DEF Misfreed
<1>1. CASE \E p \in Portid : Arrive(p) \/ Sent(p) \/ ClosePort(p)
  BY <1>1 DEF Arrive, Sent, ClosePort
<1>2. CASE \E d \in Lcore : MainLoop(d)
  <2>1. PICK d \in Lcore : MainLoop(d)
    BY <1>2
  <2>2. d # c
    BY <2>1 DEF MainLoop, Launch, While, RxBurst, GetHeaders, RunNfs, TxBurst, FreeBurst, CountTx, CheckQuit
  <2>3. pc' = pc \/ \E label : pc' = [pc EXCEPT ![d] = label]
    BY <2>1 DEF MainLoop, Launch, While, RxBurst, GetHeaders, RunNfs, TxBurst, FreeBurst, CountTx, CheckQuit,
                Goto
  <2> QED
    BY <2>2, <2>3 DEF LoopInv, TypeOK
<1>3. CASE Signal \/ UNCHANGED vars
  BY <1>3 DEF Signal, vars
<1> QED
  BY <1>1, <1>2, <1>3 DEF Next, Stay

-----------------------------------------------------------------------------
LEMMA LinesNext == (LoopInv => lines \in [Portid -> Seq(Mbuf)])'
BY LinesAre, PTL

LEMMA LineOf == \A p \in Portid : lines[p] = Line(p) /\ lines'[p] = Line(p)'
BY DEF lines

\* Leaving at the front is dropping the first frame.
LEMMA LeftWithout ==
  ASSUME NEW l \in Seq(Mbuf), l # <<>>
  PROVE  /\ 1 \in DOMAIN l /\ Without(l, 1, 1, Tail(l))
         /\ \A m : Between(l, 1, 1, m) <=> m = Head(l)
<1>1. PICK n \in Nat : n = Len(l) /\ DOMAIN l = 1 .. n /\ n >= 1
  BY LenProperties, EmptySeq
<1>2. PICK one \in 1 .. Len(l) : one = 1
  BY <1>1
<1>3. SubSeq(l, 1, one - 1) = <<>>
  BY <1>2, SubSeqEmpty
<1>4. Tail(l) = SubSeq(l, one + 1, Len(l))
  <2>1. Tail(l) = SubSeq(l, 2, Len(l)) /\ one + 1 = 2
    BY <1>2, TailIsSubSeq
  <2> QED
    BY <2>1, Zenon
<1>5. <<>> \o Tail(l) = Tail(l)
  <2>1. Tail(l) \in Seq(Mbuf)
    BY HeadTailProperties
  <2> QED
    BY <2>1
<1>6. Without(l, one, one, Tail(l))
  <2>1. Without(l, one, one, SubSeq(l, 1, one - 1) \o SubSeq(l, one + 1, Len(l)))
    BY <1>2, WithoutMiddle
  <2> QED
    BY <1>3, <1>4, <1>5, <2>1, Zenon
<1>7. \A m : Between(l, 1, 1, m) <=> m = Head(l)
  <2>1. \A i : i \in 1 .. 1 <=> i = 1
    OBVIOUS
  <2>2. Head(l) = l[1]
    OBVIOUS
  <2> QED
    BY <2>1, <2>2 DEF Between
<1> QED
  BY <1>1, <1>2, <1>6, <1>7

\* Of one line are some frames taken that stand side by side.
Removed(p, first, last) ==
  /\ first \in DOMAIN lines[p] /\ last \in DOMAIN lines[p]
  /\ Without(lines[p], first, last, lines'[p])
  /\ \A q \in Portid : q # p => lines'[q] = lines[q]
  /\ \/ Freed(lines[p], first, last, pool, pool')
     \/ pool' = pool /\ Misfreed'

LEMMA LeftRemoves == ASSUME LoopInv, NEW p \in Portid, Left(p) PROVE Removed(p, 1, 1)
<1>1. Line(p) \in Seq(Mbuf) /\ Line(p) # <<>>
  BY QueuesAre DEF Left
<1>2. /\ 1 \in DOMAIN Line(p) /\ Without(Line(p), 1, 1, Tail(Line(p)))
      /\ \A m : Between(Line(p), 1, 1, m) <=> m = Head(Line(p))
  BY <1>1, LeftWithout
<1>3. Freed(lines[p], 1, 1, pool, pool')
  BY <1>2, LineOf DEF Left, Freed
<1>4. Without(lines[p], 1, 1, lines'[p]) /\ \A q \in Portid : q # p => lines'[q] = lines[q]
  BY <1>2, LineOf DEF Left, Others
<1> QED
  BY <1>2, <1>3, <1>4, LineOf DEF Removed

LEMMA DroppedRemoves ==
  ASSUME LoopInv, NEW p \in Portid, Dropped(p)
  PROVE  \E first, last : Removed(p, first, last)
<1>1. PICK first, last \in 1 .. Len(Line(p)) :
        /\ first =< last
        /\ Line(p)' = SubSeq(Line(p), 1, first - 1) \o SubSeq(Line(p), last + 1, Len(Line(p)))
        /\ Others(p)
        /\ \/ \A m : m \in pool' <=> m \in pool \/ \E k \in first .. last : Line(p)[k] = m
           \/ pool' = pool /\ Misfreed'
  BY DEF Dropped
<1>2. Line(p) \in Seq(Mbuf) /\ DOMAIN Line(p) = 1 .. Len(Line(p))
  BY QueuesAre, LenProperties
<1>3. Without(Line(p), first, last, Line(p)')
  <2>1. Without(Line(p), first, last,
                SubSeq(Line(p), 1, first - 1) \o SubSeq(Line(p), last + 1, Len(Line(p))))
    BY <1>1, <1>2, WithoutMiddle
  <2> QED
    BY <1>1, <2>1, Zenon
<1>4. \/ Freed(Line(p), first, last, pool, pool')
      \/ pool' = pool /\ Misfreed'
  BY <1>1, Zenon DEF Between, Freed
<1>5. \A q \in Portid : q # p => lines'[q] = lines[q]
  BY <1>1, LineOf DEF Others
<1>6. Removed(p, first, last)
  BY <1>1, <1>2, <1>3, <1>4, <1>5, LineOf DEF Removed
<1> QED
  BY <1>6

-----------------------------------------------------------------------------
FrameInv == LoopInv /\ Placed /\ Complete

LEMMA FrameInit == Init => FrameInv
<1> SUFFICES ASSUME Init PROVE FrameInv
  OBVIOUS
<1>1. LoopInv
  BY LoopInit
<1>2. \A p \in Portid : lines[p] = <<>>
  <2> SUFFICES ASSUME NEW p \in Portid PROVE Line(p) = <<>>
    BY LineOf
  <2>1. txq[p] = <<>> /\ rxq[p] = <<>> /\ \A c \in Lcore : pc[c] = "start"
    BY DEF Init
  <2>2. HandAt(p) = <<>>
    BY <2>1 DEF HandAt, Polled
  <2>3. Line(p) = <<>> \o <<>> \o <<>>
    BY <2>1, <2>2, LineIs
  <2> QED
    BY <2>3
<1>3. \A p \in Portid : DOMAIN lines[p] = {}
  BY <1>2
<1>4. Placed
  BY <1>3 DEF Placed, Distinct, Apart
<1>5. Complete
  BY DEF Complete, AllOf, Init
<1> QED
  BY <1>1, <1>4, <1>5 DEF FrameInv

LEMMA FrameStep == FrameInv /\ [Next]_vars => FrameInv'
<1> SUFFICES ASSUME FrameInv, [Next]_vars PROVE FrameInv'
  OBVIOUS
<1>1. LoopInv /\ LoopInv' /\ Placed /\ Complete
  BY LoopStep DEF FrameInv
<1>2. Move
  BY <1>1, Moves
<1>3. lines \in [Portid -> Seq(Mbuf)] /\ lines' \in [Portid -> Seq(Mbuf)] /\ pool \subseteq Mbuf
  BY <1>1, LinesAre, LinesNext DEF LoopInv, TypeOK
<1>4. Misfreed => Misfreed'
  BY <1>1, MisfreedStays
<1>5. CASE Kept
  <2>1. lines' = lines /\ pool' = pool
    BY <1>5 DEF Kept, lines
  <2> QED
    BY <1>1, <1>4, <2>1 DEF FrameInv, Placed, Complete, Distinct, Apart, AllOf
<1>6. ASSUME NEW p \in Portid, Entered(p) PROVE FrameInv'
  <2>1. PICK m \in pool : pool' = pool \ {m} /\ Line(p)' = Append(Line(p), m) /\ Others(p)
    BY <1>6 DEF Entered
  <2>2. /\ m \in Mbuf /\ lines'[p] = Append(lines[p], m)
        /\ \A q \in Portid : q # p => lines'[q] = lines[q]
    BY <1>3, <2>1, LineOf DEF Others
  <2>3. Distinct(lines') /\ Apart(lines', pool') /\ (AllOf(lines, pool) => AllOf(lines', pool'))
    BY <1>1, <1>3, <2>1, <2>2, EnterPlaced DEF Placed
  <2> QED
    BY <1>1, <1>4, <2>3 DEF FrameInv, Placed, Complete, Distinct, Apart, AllOf
<1>7. ASSUME NEW p \in Portid, NEW first, NEW last, Removed(p, first, last) PROVE FrameInv'
  <2>1. /\ Distinct(lines') /\ Apart(lines', pool')
        /\ Freed(lines[p], first, last, pool, pool') /\ AllOf(lines, pool)
             => AllOf(lines', pool')
    BY <1>1, <1>3, <1>7, RemovePlaced DEF Placed, Removed
  <2> QED
    <3>1. Placed'
      BY <2>1 DEF Placed, Distinct, Apart
    <3>2. Complete'
      <4>1. ASSUME Freed(lines[p], first, last, pool, pool'), ~Misfreed' PROVE AllOf(lines', pool')
        BY <1>1, <1>4, <2>1, <4>1 DEF Complete
      <4> QED
        BY <1>7, <4>1 DEF Removed, Complete, AllOf
    <3> QED
      BY <1>1, <3>1, <3>2 DEF FrameInv
<1>8. ASSUME NEW p \in Portid, Left(p) \/ Dropped(p) PROVE FrameInv'
  BY <1>1, <1>7, <1>8, LeftRemoves, DroppedRemoves
<1> QED
  BY <1>2, <1>5, <1>6, <1>8 DEF Move

LEMMA SpecFrame == Spec => []FrameInv
BY FrameInit, FrameStep, PTL DEF Spec

\* No mbuf is lost and none is in two places: each is free or on its way
\* through one port, at one place there.
THEOREM NothingLost == Spec => []Conserved
<1>1. ASSUME FrameInv, ~Misfreed PROVE Conserved
  <2> DEFINE places == UNION {{<<p, j>> : j \in DOMAIN lines[p]} : p \in Portid}
  <2>1. Distinct(lines) /\ Apart(lines, pool) /\ AllOf(lines, pool) /\ pool \subseteq Mbuf
        /\ lines \in [Portid -> Seq(Mbuf)]
    BY <1>1, LinesAre DEF FrameInv, Placed, Complete, LoopInv, TypeOK
  <2>2. \A x \in places : x[1] \in Portid /\ x[2] \in DOMAIN lines[x[1]] /\ x = <<x[1], x[2]>>
    OBVIOUS
  <2>3. \A p \in Portid : \A j \in DOMAIN lines[p] : <<p, j>> \in places
    OBVIOUS
  <2> HIDE DEF places
  <2>4. \A x, y \in places : lines[x[1]][x[2]] = lines[y[1]][y[2]] => x = y
    <3> SUFFICES ASSUME NEW x \in places, NEW y \in places, lines[x[1]][x[2]] = lines[y[1]][y[2]]
                 PROVE  x = y
      OBVIOUS
    <3>1. x[1] = y[1] /\ x[2] = y[2]
      <4>1. \A i \in DOMAIN lines[x[1]], j \in DOMAIN lines[y[1]] :
              lines[x[1]][i] = lines[y[1]][j] => x[1] = y[1] /\ i = j
        BY <2>1, <2>2 DEF Distinct
      <4>2. x[2] \in DOMAIN lines[x[1]] /\ y[2] \in DOMAIN lines[y[1]]
        BY <2>2
      <4> QED
        BY <4>1, <4>2
    <3>2. x = <<x[1], x[2]>> /\ y = <<y[1], y[2]>>
      BY <2>2, Zenon
    <3> QED
      BY <3>1, <3>2, Zenon
  <2>5. \A m : m \in pool <=> m \in Mbuf /\ \A x \in places : m # lines[x[1]][x[2]]
    <3> SUFFICES ASSUME NEW m
                 PROVE  m \in pool <=> m \in Mbuf /\ \A x \in places : m # lines[x[1]][x[2]]
      OBVIOUS
    <3>1. ASSUME m \in pool, NEW x \in places PROVE m # lines[x[1]][x[2]]
      BY <2>1, <2>2, <3>1, Zenon DEF Apart
    <3>2. ASSUME m \in Mbuf, m \notin pool PROVE \E x \in places : m = lines[x[1]][x[2]]
      <4>1. PICK p \in Portid : In(lines[p], m)
        BY <2>1, <3>2 DEF AllOf
      <4>2. PICK j \in DOMAIN lines[p] : lines[p][j] = m
        BY <4>1 DEF In
      <4>3. PICK x \in places : x = <<p, j>>
        BY <2>3, <4>2
      <4>4. x[1] = p /\ x[2] = j
        BY <4>3
      <4> QED
        BY <4>2, <4>4
    <3> QED
      BY <2>1, <3>1, <3>2
  <2>6. pool = Mbuf \ {lines[x[1]][x[2]] : x \in places}
    BY <2>5
  <2> QED
    BY <2>4, <2>6 DEF Conserved, places, lines
<1>2. Misfreed => Conserved
  BY DEF Conserved
<1> QED
  BY <1>1, <1>2, SpecFrame, PTL

-----------------------------------------------------------------------------
LEMMA OrderInit == Init => Order!Init
<1> SUFFICES ASSUME Init PROVE Order!Init
  OBVIOUS
<1>1. \A p \in Portid : Line(p) = <<>>
  <2> SUFFICES ASSUME NEW p \in Portid PROVE Line(p) = <<>>
    OBVIOUS
  <2>1. txq[p] = <<>> /\ rxq[p] = <<>> /\ \A c \in Lcore : pc[c] = "start"
    BY DEF Init
  <2>2. HandAt(p) = <<>>
    BY <2>1 DEF HandAt, Polled
  <2>3. Line(p) = <<>> \o <<>> \o <<>>
    BY <2>1, <2>2, LineIs
  <2> QED
    BY <2>3
<1> QED
  BY <1>1 DEF Order!Init

\* A step in which line p alone changes, to k.
LEMMA LinesChange ==
  ASSUME LoopInv, NEW p \in Portid, Others(p), NEW k, Line(p)' = k
  PROVE  lines' = [lines EXCEPT ![p] = k]
BY LineOf DEF Others, lines

LEMMA OrderStep == FrameInv /\ [Next]_vars => [Order!Next]_lines
<1> SUFFICES ASSUME FrameInv, [Next]_vars, lines' # lines PROVE Order!Next
  OBVIOUS
<1>1. LoopInv /\ LoopInv' /\ Placed
  BY LoopStep DEF FrameInv
<1>2. Move
  BY <1>1, Moves
<1>3. CASE Kept
  BY <1>3 DEF Kept, lines
<1>4. ASSUME NEW p \in Portid, Entered(p) PROVE Order!Next
  <2>1. PICK m \in pool : Line(p)' = Append(Line(p), m) /\ Others(p)
    BY <1>4 DEF Entered
  <2>2. m \in Mbuf /\ \A q \in Portid : \A j \in DOMAIN lines[q] : lines[q][j] # m
    <3>1. pool \subseteq Mbuf /\ Apart(lines, pool)
      BY <1>1 DEF Placed, LoopInv, TypeOK
    <3> QED
      BY <3>1 DEF Apart
  <2>3. lines' = [lines EXCEPT ![p] = Append(Line(p), m)]
    BY <1>1, <2>1, LinesChange
  <2>4. Order!Enter(lines, lines', p, m)
    BY <2>2, <2>3, LineOf DEF Order!Enter, lines
  <2> QED
    BY <2>2, <2>4 DEF Order!Next, Order!Move, lines
<1>5. ASSUME NEW p \in Portid, Left(p) PROVE Order!Next
  <2>1. lines' = [lines EXCEPT ![p] = Tail(Line(p))] /\ Line(p) # <<>>
    BY <1>1, <1>5, LinesChange DEF Left
  <2>2. Order!Leave(lines, lines', p)
    BY <2>1, LineOf DEF Order!Leave, lines
  <2> QED
    BY <2>2 DEF Order!Next, Order!Move, lines
<1>6. ASSUME NEW p \in Portid, Dropped(p) PROVE Order!Next
  <2>1. PICK first, last \in 1 .. Len(Line(p)) :
          /\ Line(p)' = SubSeq(Line(p), 1, first - 1) \o SubSeq(Line(p), last + 1, Len(Line(p)))
          /\ Others(p)
    BY <1>6 DEF Dropped
  <2>2. lines' = [lines EXCEPT ![p] = SubSeq(Line(p), 1, first - 1)
                                        \o SubSeq(Line(p), last + 1, Len(Line(p)))]
    BY <1>1, <2>1, LinesChange
  <2>3. Order!Drop(lines, lines', p, first, last)
    BY <2>2, LineOf DEF Order!Drop, lines
  <2>4. first \in 1 .. Len(lines[p]) /\ last \in 1 .. Len(lines[p])
    BY LineOf
  <2> QED
    BY <2>3, <2>4 DEF Order!Next, Order!Move, lines
<1> QED
  BY <1>2, <1>3, <1>4, <1>5, <1>6 DEF Move

\* The frames of a port leave by it in the order they came: the loop
\* implements the module Lines.
THEOREM FramesStayInLine == Spec => RefinesLines
<1>1. [Order!Next]_lines => [Order!Next]_([p \in Portid |-> Line(p)])
  BY DEF lines
<1> QED
  BY <1>1, OrderInit, OrderStep, SpecFrame, PTL DEF Spec, RefinesLines, Order!Spec

-----------------------------------------------------------------------------
\* Where the entries of the queues and of the burst in hand stand in a line.
LEMMA QueuesInLine ==
  ASSUME LoopInv, NEW p \in Portid
  PROVE  /\ Len(txq[p]) \in Nat /\ Len(HandAt(p)) \in Nat
         /\ \A i \in DOMAIN txq[p] :
              i =< Len(txq[p]) /\ i \in DOMAIN lines[p] /\ lines[p][i] = txq[p][i]
         /\ \A i \in 1 .. Len(HandAt(p)) :
              /\ Len(txq[p]) + i \in DOMAIN lines[p]
              /\ lines[p][Len(txq[p]) + i] = HandAt(p)[i]
         /\ \A i \in DOMAIN rxq[p] :
              /\ i \in Nat \ {0} /\ Len(txq[p]) + Len(HandAt(p)) + i \in DOMAIN lines[p]
              /\ lines[p][Len(txq[p]) + Len(HandAt(p)) + i] = rxq[p][i]
<1>1. PICK t \in Seq(Mbuf), h \in Seq(Mbuf), r \in Seq(Mbuf), l \in Seq(Mbuf) :
        t = txq[p] /\ h = HandAt(p) /\ r = rxq[p] /\ l = lines[p] /\ l = t \o h \o r
  BY QueuesAre, LineIs, LineOf
<1>2. /\ Len(t) \in Nat /\ Len(h) \in Nat /\ Len(r) \in Nat
      /\ Len(l) = Len(t) + Len(h) + Len(r)
      /\ \A i \in 1 .. Len(t) : l[i] = t[i]
      /\ \A i \in 1 .. Len(h) : l[Len(t) + i] = h[i]
      /\ \A i \in 1 .. Len(r) : l[Len(t) + Len(h) + i] = r[i]
  <2>1. l = t \o h \o r
    BY <1>1
  <2> QED
    BY <2>1, JoinedParts
<1>3. DOMAIN t = 1 .. Len(t) /\ DOMAIN r = 1 .. Len(r) /\ DOMAIN l = 1 .. Len(l)
  BY LenProperties
<1>4. /\ \A i \in 1 .. Len(t) : i =< Len(t) /\ i \in 1 .. Len(l)
      /\ \A i \in 1 .. Len(h) : Len(t) + i \in 1 .. Len(l)
      /\ \A i \in 1 .. Len(r) : i \in Nat \ {0} /\ Len(t) + Len(h) + i \in 1 .. Len(l)
  BY <1>2
<1> QED
  BY <1>1, <1>2, <1>3, <1>4, Zenon

\* What the queues hold is not free.
LEMMA QueuedNotFree ==
  ASSUME LoopInv, Placed, NEW p \in Portid
  PROVE  /\ \A i \in DOMAIN txq[p] : txq[p][i] \notin pool
         /\ \A i \in DOMAIN rxq[p] : rxq[p][i] \notin pool
<1>1. \A i \in DOMAIN lines[p] : lines[p][i] \notin pool
  BY DEF Placed, Apart
<1>2. \A i \in DOMAIN txq[p] : i \in DOMAIN lines[p] /\ lines[p][i] = txq[p][i]
  BY QueuesInLine, Zenon
<1>3. \A i \in DOMAIN rxq[p] :
        /\ Len(txq[p]) + Len(HandAt(p)) + i \in DOMAIN lines[p]
        /\ lines[p][Len(txq[p]) + Len(HandAt(p)) + i] = rxq[p][i]
  BY QueuesInLine, Zenon
<1> QED
  BY <1>1, <1>2, <1>3, Zenon

\* The frames of a burst are distinct, and neither free nor in a queue.
LEMMA BurstApart ==
  ASSUME LoopInv, Placed, NEW c \in Lcore, pc[c] \in {"headers", "nfs"}
  PROVE  /\ \A i, j \in 1 .. nb_rx[c] : pkts_burst[c][i] = pkts_burst[c][j] => i = j
         /\ \A j \in 1 .. nb_rx[c] : pkts_burst[c][j] \notin pool
         /\ \A j \in 1 .. nb_rx[c] : \A q \in Portid :
              /\ \A i \in DOMAIN txq[q] : txq[q][i] # pkts_burst[c][j]
              /\ \A i \in DOMAIN rxq[q] : rxq[q][i] # pkts_burst[c][j]
<1>1. PICK p \in Portid : p = portid(c)
  BY AtPort DEF LoopInv, Local
<1>2. PICK b \in [Burst -> Mbuf \cup {Uninit}], n \in 0 .. MAX_PKT_BURST :
        b = pkts_burst[c] /\ n = nb_rx[c] /\ \A j \in 1 .. n : b[j] \in Mbuf
  BY DEF LoopInv, TypeOK, Local
<1>3. HandAt(p) = SubSeq(b, 1, n)
  <2>1. HandAt(p) = InHand(c)
    BY <1>1, OwnHand, Zenon
  <2> QED
    BY <1>2, <2>1, InHandIs, Zenon
<1>4. Len(HandAt(p)) = n /\ \A i \in 1 .. n : HandAt(p)[i] = b[i]
  <2>1. PICK one \in Nat \ {0} : one = 1
    OBVIOUS
  <2>2. PICK h \in Seq(Mbuf) : h = SubSeq(b, one, n)
    BY <1>2, <2>1, PartOfBurst
  <2>3. /\ Len(h) = IF one =< n THEN n - one + 1 ELSE 0
        /\ \A i \in 1 .. n - one + 1 : h[i] = b[one + i - 1]
    BY <1>2, <2>1, <2>2, PartOfBurst
  <2>4. Len(h) = n /\ \A i \in 1 .. n : h[i] = b[i]
    BY <2>1, <2>3, Sizes
  <2> QED
    BY <1>3, <2>1, <2>2, <2>4, Zenon
<1>0. PICK l : l = lines[p]
  OBVIOUS
<1>5. PICK u \in Nat : u = Len(txq[p]) /\ l = lines[p]
  BY <1>0, QueuesInLine
<1>6. \A j \in 1 .. n : u + j \in DOMAIN l /\ l[u + j] = b[j]
  BY <1>4, <1>5, QueuesInLine, Zenon
<1>7. \A i, j \in 1 .. n : b[i] = b[j] => i = j
  <2> SUFFICES ASSUME NEW i \in 1 .. n, NEW j \in 1 .. n, b[i] = b[j] PROVE i = j
    OBVIOUS
  <2>1. u + i = u + j
    BY <1>5, <1>6 DEF Placed, Distinct
  <2> QED
    BY <2>1
<1>8. \A j \in 1 .. n : b[j] \notin pool
  BY <1>5, <1>6 DEF Placed, Apart
<1>9. ASSUME NEW j \in 1 .. n, NEW q \in Portid, NEW i \in DOMAIN txq[q] PROVE txq[q][i] # b[j]
  <2>1. /\ i =< Len(txq[q]) /\ i \in DOMAIN lines[q] /\ lines[q][i] = txq[q][i]
        /\ i \in Nat
    <3>1. i \in Nat
      <4>1. txq[q] \in Seq(Mbuf)
        BY DEF LoopInv, TypeOK
      <4> QED
        BY <4>1
    <3> QED
      BY <3>1, QueuesInLine, Zenon
  <2>2. ASSUME txq[q][i] = b[j] PROVE FALSE
    <3>1. q = p /\ i = u + j
      BY <1>5, <1>6, <2>1, <2>2 DEF Placed, Distinct
    <3> QED
      BY <1>5, <2>1, <3>1
  <2> QED
    BY <2>2
<1>10. ASSUME NEW j \in 1 .. n, NEW q \in Portid, NEW i \in DOMAIN rxq[q] PROVE rxq[q][i] # b[j]
  <2>1. PICK x \in DOMAIN lines[q] :
          /\ x = Len(txq[q]) + Len(HandAt(q)) + i /\ lines[q][x] = rxq[q][i] /\ i \in Nat \ {0}
    BY QueuesInLine, Zenon
  <2>2. ASSUME rxq[q][i] = b[j] PROVE FALSE
    <3>1. q = p /\ x = u + j
      BY <1>5, <1>6, <2>1, <2>2 DEF Placed, Distinct
    <3>2. x = u + n + i
      BY <1>4, <1>5, <2>1, <3>1
    <3> QED
      BY <1>5, <2>1, <3>1, <3>2
  <2> QED
    BY <2>2
<1> QED
  BY <1>2, <1>7, <1>8, <1>9, <1>10, Zenon

-----------------------------------------------------------------------------
(***************************************************************************)
(* eth_hdrs_burst is one array for all lcores.  Where one lcore has all    *)
(* the ports, a frame is seen by the network functions once: when its      *)
(* batch is.                                                               *)
(***************************************************************************)
OnePolls == \A c, d \in Lcore : rx_port_list[c] # <<>> /\ rx_port_list[d] # <<>> => c = d

Unseen == \A p \in Portid : \A j \in DOMAIN rxq[p] : runs[rxq[p][j]] = 0

Seen(c) ==
  /\ pc[c] = "headers" => \A j \in 1 .. nb_rx[c] : runs[pkts_burst[c][j]] = 0
  /\ pc[c] = "nfs" => \A j \in 1 .. nb_rx[c] :
       /\ eth_hdrs_burst[j] = pkts_burst[c][j]
       /\ runs[pkts_burst[c][j]] = IF j =< off[c] THEN 1 ELSE 0

Fresh == Unseen /\ ProcessedOnce /\ \A c \in Lcore : Seen(c)

\* What an lcore has seen stays so if the frames of its burst are let alone.
LEMMA SeenKept ==
  ASSUME NEW c \in Lcore, Seen(c),
         pc'[c] = pc[c], nb_rx'[c] = nb_rx[c], off'[c] = off[c],
         pkts_burst'[c] = pkts_burst[c],
         pc[c] = "nfs" => eth_hdrs_burst' = eth_hdrs_burst,
         pc[c] \in {"headers", "nfs"} =>
           \A j \in 1 .. nb_rx[c] : runs'[pkts_burst[c][j]] = runs[pkts_burst[c][j]]
  PROVE  Seen(c)'
BY DEF Seen

\* An lcore with a burst in hand is the one that polls.
LEMMA OnlyOne ==
  ASSUME OnePolls, LoopInv, NEW c \in Lcore, NEW d \in Lcore,
         pc[c] \notin {"start", "done"}, pc[d] \notin {"start", "done"}
  PROVE  c = d
BY DEF OnePolls, LoopInv, Local

LEMMA FreshNics ==
  ASSUME LoopInv, Placed, Fresh, NEW p \in Portid, Arrive(p) \/ Sent(p) \/ ClosePort(p)
  PROVE  Fresh'
<1>0. /\ UNCHANGED <<eth_hdrs_burst, pc, nb_rx, pkts_burst, off>>
      /\ rxq \in [Portid -> Seq(Mbuf)] /\ txq \in [Portid -> Seq(Mbuf)] /\ runs \in [Mbuf -> Nat]
      /\ pool \subseteq Mbuf
  BY DEF LoopInv, TypeOK, Arrive, Sent, ClosePort, locals
<1>1. CASE Arrive(p)
  <2>1. PICK m \in pool : /\ rxq' = [rxq EXCEPT ![p] = Append(@, m)] /\ runs' = [runs EXCEPT ![m] = 0]
                          /\ txq' = txq
    BY <1>1 DEF Arrive
  <2>2. \A x : x \in Mbuf /\ x # m => runs'[x] = runs[x]
    BY <1>0, <2>1
  <2>3. runs'[m] = 0
    BY <1>0, <2>1
  <2>4. /\ \A q \in Portid : \A j \in DOMAIN rxq[q] : rxq[q][j] \in Mbuf /\ rxq[q][j] # m
        /\ \A q \in Portid : \A j \in DOMAIN txq[q] : txq[q][j] \in Mbuf /\ txq[q][j] # m
    BY <1>0, QueuedNotFree, ElementOfSeq
  <2>5. Unseen'
    <3> SUFFICES ASSUME NEW q \in Portid, NEW j \in DOMAIN rxq'[q] PROVE runs'[rxq'[q][j]] = 0
      BY DEF Unseen
    <3>1. CASE q = p
      <4>1. rxq'[q] = Append(rxq[p], m)
        BY <1>0, <2>1, <3>1
      <4>2. (j \in DOMAIN rxq[p] /\ rxq'[q][j] = rxq[p][j]) \/ rxq'[q][j] = m
        BY <1>0, <4>1
      <4> QED
        BY <2>2, <2>3, <2>4, <4>2 DEF Fresh, Unseen
    <3>2. CASE q # p
      <4>1. rxq'[q] = rxq[q]
        BY <1>0, <2>1, <3>2
      <4> QED
        BY <2>2, <2>4, <4>1 DEF Fresh, Unseen
    <3> QED
      BY <3>1, <3>2
  <2>6. ProcessedOnce'
    BY <2>1, <2>2, <2>4 DEF Fresh, ProcessedOnce
  <2>7. ASSUME NEW c \in Lcore PROVE Seen(c)'
    <3>1. ASSUME pc[c] \in {"headers", "nfs"}, NEW j \in 1 .. nb_rx[c]
          PROVE  runs'[pkts_burst[c][j]] = runs[pkts_burst[c][j]]
      <4>1. pkts_burst[c][j] \in Mbuf
        BY <3>1 DEF LoopInv, Local
      <4>2. pkts_burst[c][j] # m
        BY <3>1, BurstApart
      <4> QED
        BY <2>2, <4>1, <4>2
    <3> QED
      BY <1>0, <3>1, SeenKept DEF Fresh
  <2> QED
    BY <2>5, <2>6, <2>7 DEF Fresh
<1>2. CASE Sent(p) \/ ClosePort(p)
  <2>1. runs' = runs
    BY <1>2 DEF Sent, ClosePort
  <2>2. Unseen' /\ ProcessedOnce'
    <3>1. CASE Sent(p)
      <4>1. rxq' = rxq /\ txq' = [txq EXCEPT ![p] = Tail(@)] /\ txq[p] # <<>>
        BY <3>1 DEF Sent
      <4>2. \A j \in DOMAIN Tail(txq[p]) : j + 1 \in DOMAIN txq[p] /\ Tail(txq[p])[j] = txq[p][j + 1]
        BY <1>0, <4>1
      <4> QED
        BY <1>0, <2>1, <4>1, <4>2 DEF Fresh, Unseen, ProcessedOnce
    <3>2. CASE ClosePort(p)
      <4>1. rxq' = [rxq EXCEPT ![p] = <<>>] /\ txq' = [txq EXCEPT ![p] = <<>>]
        BY <3>2 DEF ClosePort
      <4> QED
        BY <1>0, <2>1, <4>1 DEF Fresh, Unseen, ProcessedOnce
    <3> QED
      BY <1>2, <3>1, <3>2
  <2>3. \A c \in Lcore : Seen(c)'
    BY <1>0, <2>1, SeenKept DEF Fresh
  <2> QED
    BY <2>2, <2>3 DEF Fresh
<1> QED
  BY <1>1, <1>2

LEMMA FreshRx == ASSUME OnePolls, LoopInv, Fresh, NEW c \in Lcore, RxBurst(c) PROVE Fresh'
<1>1. PICK p \in Portid : p = portid(c)
  BY AtPort DEF LoopInv, Local, RxBurst
<1>2. PICK q \in Seq(Mbuf), v \in Nat : q = rxq[p] /\ v = Len(q) /\ DOMAIN q = 1 .. v
  <2>1. rxq[p] \in Seq(Mbuf)
    BY DEF LoopInv, TypeOK
  <2> QED
    BY <2>1, LenProperties
<1>3. PICK n \in Nat : n = Lesser(v, MAX_PKT_BURST) /\ n =< v /\ n =< MAX_PKT_BURST
  BY Sizes DEF Lesser
<1>4. PICK b : b = [j \in Burst |-> IF j =< n THEN q[j] ELSE pkts_burst[c][j]]
  OBVIOUS
<1>5. /\ UNCHANGED <<runs, txq, eth_hdrs_burst, off>> /\ pc[c] = "rx"
      /\ pkts_burst' = [pkts_burst EXCEPT ![c] = b]
      /\ rxq' = [rxq EXCEPT ![p] = SubSeq(q, n + 1, v)]
      /\ nb_rx' = [nb_rx EXCEPT ![c] = n] /\ pc' = [pc EXCEPT ![c] = "headers"]
  BY <1>1, <1>2, <1>3, <1>4 DEF RxBurst, Goto
<1>6. /\ pc'[c] = "headers" /\ nb_rx'[c] = n /\ pkts_burst'[c] = b
      /\ rxq'[p] = SubSeq(q, n + 1, v) /\ \A r \in Portid : r # p => rxq'[r] = rxq[r]
      /\ \A d \in Lcore : d # c => /\ pc'[d] = pc[d] /\ nb_rx'[d] = nb_rx[d]
                                   /\ pkts_burst'[d] = pkts_burst[d]
  BY <1>5 DEF LoopInv, TypeOK
<1>7. \A j \in 1 .. n : b[j] = q[j] /\ j \in DOMAIN q
  BY <1>2, <1>3, <1>4, Sizes DEF Burst
<1>8. \A j \in DOMAIN q : runs[q[j]] = 0
  BY <1>2 DEF Fresh, Unseen
<1>9. Unseen'
  <2>1. PICK rest \in Seq(Mbuf) : rest = SubSeq(q, n + 1, v)
    <3>1. v =< Len(q)
      BY <1>2
    <3>2. SubSeq(q, n + 1, v) \in Seq(Mbuf)
      BY <1>3, <3>1, PartFrom
    <3> QED
      BY <3>2
  <2>2. Len(rest) = v - n /\ \A i \in 1 .. v - n : rest[i] = q[n + i]
    <3>1. v =< Len(q)
      BY <1>2
    <3> QED
      BY <1>3, <2>1, <3>1, PartFrom
  <2>3. DOMAIN rest = 1 .. v - n
    BY <2>2, LenProperties
  <2>4. \A i \in 1 .. v - n : n + i \in DOMAIN q
    BY <1>2, <1>3
  <2>5. \A i \in DOMAIN rest : runs[rest[i]] = 0
    <3> SUFFICES ASSUME NEW i \in DOMAIN rest PROVE runs[rest[i]] = 0
      OBVIOUS
    <3>1. rest[i] = q[n + i] /\ n + i \in DOMAIN q
      BY <2>2, <2>3, <2>4
    <3> QED
      BY <1>8, <3>1
  <2>6. \A r \in Portid : \A j \in DOMAIN rxq'[r] : runs[rxq'[r][j]] = 0
    <3> SUFFICES ASSUME NEW r \in Portid PROVE \A j \in DOMAIN rxq'[r] : runs[rxq'[r][j]] = 0
      OBVIOUS
    <3>1. CASE r = p
      <4>1. rxq'[r] = rest
        BY <1>6, <2>1, <3>1
      <4> QED
        BY <2>5, <4>1
    <3>2. CASE r # p
      <4>1. rxq'[r] = rxq[r]
        BY <1>6, <3>2
      <4> QED
        BY <4>1 DEF Fresh, Unseen
    <3> QED
      BY <3>1, <3>2
  <2> QED
    BY <1>5, <2>6 DEF Unseen
<1>10. ProcessedOnce'
  BY <1>5 DEF Fresh, ProcessedOnce
<1>11. Seen(c)'
  <2>1. \A j \in 1 .. n : runs[b[j]] = 0
    BY <1>7, <1>8
  <2> QED
    BY <1>5, <1>6, <2>1 DEF Seen
<1>12. ASSUME NEW d \in Lcore, d # c PROVE Seen(d)'
  BY <1>5, <1>6, <1>12, SeenKept DEF Fresh
<1> QED
  BY <1>9, <1>10, <1>11, <1>12 DEF Fresh

LEMMA FreshHeaders ==
  ASSUME OnePolls, LoopInv, Fresh, NEW c \in Lcore, GetHeaders(c) PROVE Fresh'
<1>1. /\ UNCHANGED <<rxq, txq, runs, nb_rx, pkts_burst>> /\ pc[c] = "headers"
      /\ eth_hdrs_burst' =
           [j \in Burst |-> IF j =< nb_rx[c] THEN pkts_burst[c][j] ELSE eth_hdrs_burst[j]]
      /\ pc'[c] = "nfs" /\ off'[c] = 0
      /\ \A d \in Lcore : d # c => pc'[d] = pc[d]
  BY DEF GetHeaders, Goto, nic, LoopInv, TypeOK
<1>2. nb_rx[c] \in 0 .. MAX_PKT_BURST
  BY DEF LoopInv, TypeOK
<1>3. \A j \in 1 .. nb_rx[c] :
        /\ j \in Burst /\ ~(j =< 0) /\ eth_hdrs_burst'[j] = pkts_burst[c][j]
        /\ runs[pkts_burst[c][j]] = 0
  <2>1. \A j \in 1 .. nb_rx[c] : j \in Burst /\ ~(j =< 0) /\ j =< nb_rx[c]
    BY <1>2, Sizes DEF Burst
  <2> QED
    BY <1>1, <2>1 DEF Fresh, Seen
<1>4. Seen(c)'
  BY <1>1, <1>3 DEF Seen
<1>5. ASSUME NEW d \in Lcore, d # c PROVE Seen(d)'
  <2>1. pc'[d] \notin {"headers", "nfs"}
    BY <1>1, <1>5, OnlyOne
  <2> QED
    BY <2>1 DEF Seen
<1> QED
  BY <1>1, <1>4, <1>5 DEF Fresh, Unseen, ProcessedOnce

\* A batch goes through the functions: each of its frames once more, and no
\* other frame.
LEMMA FreshNfs ==
  ASSUME OnePolls, LoopInv, Placed, Fresh, NEW c \in Lcore, RunNfs(c) PROVE Fresh'
<1>0. PICK b : b = pkts_burst[c]
  OBVIOUS
<1>1. PICK k \in Nat, o \in Nat :
        /\ k = nb_rx[c] /\ o = off[c] /\ b = pkts_burst[c] /\ k =< MAX_PKT_BURST /\ o < k
        /\ pc[c] = "nfs" /\ \A j \in 1 .. k : b[j] \in Mbuf
  <2>1. pc[c] = "nfs" /\ off[c] < nb_rx[c]
    BY DEF RunNfs
  <2>2. off[c] \in Nat /\ nb_rx[c] \in Nat /\ nb_rx[c] =< MAX_PKT_BURST
    BY Sizes DEF LoopInv, TypeOK
  <2>3. \A j \in 1 .. nb_rx[c] : pkts_burst[c][j] \in Mbuf
    BY <2>1 DEF LoopInv, Local
  <2> QED
    BY <1>0, <2>1, <2>2, <2>3
<1>2. PICK e \in Nat : e = o + num_in_batch(c) /\ o < e /\ e =< k /\ (e = k \/ e = o + BATCH_SIZE)
                       /\ e =< o + BATCH_SIZE
  BY <1>1, Sizes DEF num_in_batch
<1>3. PICK batch : batch = Burst \cap o + 1 .. e
  OBVIOUS
<1>4. \A j : j \in batch <=> j \in 1 .. k /\ o < j /\ j =< e
  BY <1>1, <1>2, <1>3, Sizes DEF Burst
<1>5. /\ UNCHANGED <<rxq, txq, eth_hdrs_burst, pc, nb_rx, pkts_burst>>
      /\ runs' = [m \in Mbuf |->
                    runs[m] + Cardinality({j \in batch : eth_hdrs_burst[j] = m})]
      /\ off' = [off EXCEPT ![c] = @ + BATCH_SIZE]
  BY <1>1, <1>2, <1>3 DEF RunNfs, nic
<1>6. \A j \in 1 .. k : eth_hdrs_burst[j] = b[j] /\ runs[b[j]] = IF j =< o THEN 1 ELSE 0
  BY <1>1 DEF Fresh, Seen
<1>7. runs \in [Mbuf -> Nat] /\ off'[c] = o + BATCH_SIZE
  BY <1>1, <1>5 DEF LoopInv, TypeOK
<1>8. ASSUME NEW m \in Mbuf, \A j \in batch : eth_hdrs_burst[j] # m PROVE runs'[m] = runs[m]
  <2>1. {j \in batch : eth_hdrs_burst[j] = m} = {}
    BY <1>8
  <2>2. runs'[m] = runs[m] + Cardinality({})
    BY <1>5, <2>1
  <2> QED
    BY <1>7, <2>2, FS_EmptySet
<1>9. ASSUME NEW i \in batch PROVE runs'[b[i]] = runs[b[i]] + 1
  <2>1. i \in 1 .. k /\ b[i] \in Mbuf
    BY <1>1, <1>4
  <2>2. \A j \in batch : eth_hdrs_burst[j] = b[i] <=> j = i
    <3>1. \A x, y \in 1 .. k : b[x] = b[y] => x = y
      BY <1>1, BurstApart
    <3> QED
      BY <1>4, <1>6, <2>1, <3>1
  <2>3. {j \in batch : eth_hdrs_burst[j] = b[i]} = {i}
    BY <2>2
  <2>4. runs'[b[i]] = runs[b[i]] + Cardinality({i})
    BY <1>5, <2>1, <2>3
  <2> QED
    BY <2>4, FS_Singleton
<1>10. \A q \in Portid :
         /\ \A i \in DOMAIN rxq[q] : runs'[rxq[q][i]] = runs[rxq[q][i]]
         /\ \A i \in DOMAIN txq[q] : runs'[txq[q][i]] = runs[txq[q][i]]
  <2>1. \A j \in batch : eth_hdrs_burst[j] = b[j] /\ j \in 1 .. k
    BY <1>4, <1>6
  <2>2. /\ \A q \in Portid : \A i \in DOMAIN rxq[q] :
             rxq[q][i] \in Mbuf /\ \A j \in batch : rxq[q][i] # eth_hdrs_burst[j]
        /\ \A q \in Portid : \A i \in DOMAIN txq[q] :
             txq[q][i] \in Mbuf /\ \A j \in batch : txq[q][i] # eth_hdrs_burst[j]
    <3>1. rxq \in [Portid -> Seq(Mbuf)] /\ txq \in [Portid -> Seq(Mbuf)]
      BY DEF LoopInv, TypeOK
    <3>2. \A j \in 1 .. k : \A q \in Portid :
            /\ \A i \in DOMAIN txq[q] : txq[q][i] # b[j]
            /\ \A i \in DOMAIN rxq[q] : rxq[q][i] # b[j]
      BY <1>1, BurstApart
    <3>3. /\ \A q \in Portid : \A i \in DOMAIN rxq[q] : rxq[q][i] \in Mbuf
          /\ \A q \in Portid : \A i \in DOMAIN txq[q] : txq[q][i] \in Mbuf
      BY <3>1, ElementOfSeq
    <3> QED
      BY <2>1, <3>2, <3>3, Zenon
  <2> QED
    BY <1>8, <2>2
<1>11. Unseen' /\ ProcessedOnce'
  <2>1. \A q \in Portid :
          /\ \A i \in DOMAIN rxq[q] : runs'[rxq[q][i]] = 0
          /\ \A i \in DOMAIN txq[q] : runs'[txq[q][i]] = 1
    BY <1>10 DEF Fresh, Unseen, ProcessedOnce
  <2>2. rxq' = rxq /\ txq' = txq
    BY <1>5
  <2> QED
    BY <2>1, <2>2 DEF Unseen, ProcessedOnce
<1>12. Seen(c)'
  <2>1. ASSUME NEW j \in 1 .. k
        PROVE  runs'[b[j]] = IF j =< o + BATCH_SIZE THEN 1 ELSE 0
    <3>1. CASE j \in batch
      <4>1. runs[b[j]] = 0 /\ j =< o + BATCH_SIZE
        BY <1>2, <1>4, <1>6, <3>1, Sizes
      <4> QED
        BY <1>9, <3>1, <4>1
    <3>2. CASE j \notin batch
      <4>1. j =< o \/ ~(j =< e)
        BY <1>4, <3>2
      <4>2. (j =< o) = (j =< o + BATCH_SIZE)
        BY <1>2, <4>1, Sizes
      <4>3. runs'[b[j]] = runs[b[j]]
        <5>1. \A x, y \in 1 .. k : b[x] = b[y] => x = y
          BY <1>1, BurstApart
        <5>2. \A x \in batch : eth_hdrs_burst[x] # b[j]
          BY <1>4, <1>6, <3>2, <5>1
        <5> QED
          BY <1>1, <1>8, <5>2
      <4> QED
        BY <1>6, <4>2, <4>3
    <3> QED
      BY <3>1, <3>2
  <2> QED
    <3>1. pc'[c] = "nfs" /\ nb_rx'[c] = k /\ pkts_burst'[c] = b
      BY <1>1, <1>5
    <3>2. \A j \in 1 .. nb_rx'[c] :
            /\ eth_hdrs_burst'[j] = pkts_burst'[c][j]
            /\ runs'[pkts_burst'[c][j]] = IF j =< off'[c] THEN 1 ELSE 0
      <4>1. eth_hdrs_burst' = eth_hdrs_burst
        BY <1>5
      <4>2. \A j \in 1 .. k : eth_hdrs_burst[j] = b[j]
        BY <1>6
      <4> QED
        BY <1>7, <2>1, <3>1, <4>1, <4>2
    <3> QED
      BY <3>1, <3>2 DEF Seen
<1>13. ASSUME NEW d \in Lcore, d # c PROVE Seen(d)'
  <2>1. pc'[d] \notin {"headers", "nfs"}
    BY <1>1, <1>5, <1>13, OnlyOne
  <2> QED
    BY <2>1 DEF Seen
<1> QED
  BY <1>11, <1>12, <1>13 DEF Fresh

LEMMA FreshTx == ASSUME OnePolls, LoopInv, Fresh, NEW c \in Lcore, TxBurst(c) PROVE Fresh'
<1>1. PICK p \in Portid : p = portid(c)
  BY AtPort DEF LoopInv, Local, TxBurst
<1>2. PICK k \in Nat, b \in [Burst -> Mbuf \cup {Uninit}], t \in Seq(Mbuf) :
        /\ k = nb_rx[c] /\ b = pkts_burst[c] /\ t = txq[p] /\ k =< MAX_PKT_BURST
        /\ pc[c] = "nfs" /\ \A j \in 1 .. k : b[j] \in Mbuf
        /\ Len(t) \in Nat /\ Len(t) =< nb_txd
  <2>1. txq[p] \in Seq(Mbuf) /\ Len(txq[p]) =< nb_txd
    BY DEF LoopInv, TypeOK, QueueRoom
  <2>2. /\ nb_rx[c] \in Nat /\ nb_rx[c] =< MAX_PKT_BURST /\ pc[c] = "nfs"
        /\ pkts_burst[c] \in [Burst -> Mbuf \cup {Uninit}]
        /\ \A j \in 1 .. nb_rx[c] : pkts_burst[c][j] \in Mbuf
    <3>1. pc[c] = "nfs" /\ Local(c)
      BY DEF TxBurst, LoopInv
    <3>2. pkts_burst[c] \in [Burst -> Mbuf \cup {Uninit}] /\ nb_rx[c] \in 0 .. MAX_PKT_BURST
      BY DEF LoopInv, TypeOK
    <3> QED
      BY <3>1, <3>2, Sizes DEF Local
  <2>3. Len(txq[p]) \in Nat
    BY <2>1, LenProperties
  <2> QED
    BY <2>1, <2>2, <2>3
<1>3. PICK n \in Nat : n = Lesser(k, nb_txd - Len(t)) /\ n =< k
  BY <1>2, Sizes DEF Lesser
<1>4. /\ UNCHANGED <<rxq, runs, eth_hdrs_burst, nb_rx, pkts_burst, off>> /\ off[c] >= k
      /\ txq'[p] = t \o SubSeq(b, 1, n) /\ \A r \in Portid : r # p => txq'[r] = txq[r]
      /\ pc'[c] \notin {"headers", "nfs"} /\ \A d \in Lcore : d # c => pc'[d] = pc[d]
  BY <1>1, <1>2, <1>3 DEF TxBurst, Goto, tx_port, LoopInv, TypeOK
<1>5. \A j \in 1 .. k : runs[b[j]] = 1
  <2>1. \A j \in 1 .. k : runs[b[j]] = IF j =< off[c] THEN 1 ELSE 0
    BY <1>2 DEF Fresh, Seen
  <2>2. \A j \in 1 .. k : j =< off[c]
    BY <1>2, <1>4 DEF LoopInv, TypeOK
  <2> QED
    BY <2>1, <2>2
<1>6. PICK s \in Seq(Mbuf) : s = SubSeq(b, 1, n) /\ DOMAIN s = 1 .. n /\ \A i \in 1 .. n : s[i] = b[i]
  <2>1. PICK one \in Nat \ {0}, x \in 0 .. MAX_PKT_BURST : one = 1 /\ x = n
    BY <1>2, <1>3, Sizes
  <2>2. \A j \in one .. x : b[j] \in Mbuf
    BY <1>2, <1>3, <2>1, Sizes
  <2>3. PICK s \in Seq(Mbuf) : s = SubSeq(b, one, x)
    BY <1>2, <2>2, PartOfBurst
  <2>4. /\ Len(s) = IF one =< x THEN x - one + 1 ELSE 0
        /\ \A i \in 1 .. x - one + 1 : s[i] = b[one + i - 1]
    BY <1>2, <2>2, <2>3, PartOfBurst
  <2>5. Len(s) = n /\ \A i \in 1 .. n : s[i] = b[i]
    BY <2>1, <2>4, Sizes
  <2> QED
    BY <2>1, <2>3, <2>5, LenProperties
<1>7. \A i \in DOMAIN s : runs[s[i]] = 1
  BY <1>3, <1>5, <1>6
<1>8. \A i \in DOMAIN (t \o s) : runs[(t \o s)[i]] = 1
  <2>1. \A i \in DOMAIN t : runs[t[i]] = 1
    BY <1>2 DEF Fresh, ProcessedOnce
  <2> QED
    BY <1>7, <2>1
<1>9. ProcessedOnce'
  <2> SUFFICES ASSUME NEW r \in Portid, NEW j \in DOMAIN txq'[r] PROVE runs'[txq'[r][j]] = 1
    BY DEF ProcessedOnce
  <2>1. CASE r = p
    BY <1>4, <1>6, <1>8, <2>1
  <2>2. CASE r # p
    BY <1>4, <2>2 DEF Fresh, ProcessedOnce
  <2> QED
    BY <2>1, <2>2
<1>10. \A d \in Lcore : Seen(d)'
  <2>1. Seen(c)'
    BY <1>4 DEF Seen
  <2>2. ASSUME NEW d \in Lcore, d # c PROVE Seen(d)'
    BY <1>4, <2>2, SeenKept DEF Fresh
  <2> QED
    BY <2>1, <2>2
<1> QED
  BY <1>4, <1>9, <1>10 DEF Fresh, Unseen

LEMMA FreshOther ==
  ASSUME LoopInv, Fresh,
         \/ \E c \in Lcore : Launch(c) \/ While(c) \/ FreeBurst(c) \/ CountTx(c) \/ CheckQuit(c)
         \/ Signal \/ UNCHANGED vars
  PROVE  Fresh'
<1>1. /\ UNCHANGED <<rxq, txq, runs, eth_hdrs_burst, nb_rx, pkts_burst, off>>
      /\ \A c \in Lcore : pc'[c] = pc[c] \/ pc'[c] \notin {"headers", "nfs"}
  <2>1. CASE \E c \in Lcore : Launch(c) \/ While(c) \/ FreeBurst(c) \/ CountTx(c) \/ CheckQuit(c)
    <3>1. PICK c \in Lcore : Launch(c) \/ While(c) \/ FreeBurst(c) \/ CountTx(c) \/ CheckQuit(c)
      BY <2>1
    <3>2. UNCHANGED <<rxq, txq, runs, eth_hdrs_burst, nb_rx, pkts_burst, off>>
      BY <3>1 DEF Launch, While, FreeBurst, CountTx, CheckQuit, nic, locals
    <3>3. \E label \in {"done", "while", "rx", "count", "undefined", "check"} :
            pc' = [pc EXCEPT ![c] = label]
      BY <3>1 DEF Launch, While, FreeBurst, CountTx, CheckQuit, Goto
    <3> QED
      BY <3>2, <3>3 DEF LoopInv, TypeOK
  <2>2. CASE Signal \/ UNCHANGED vars
    BY <2>2 DEF Signal, vars, nic, locals
  <2> QED
    BY <2>1, <2>2
<1>2. ASSUME NEW c \in Lcore PROVE Seen(c)'
  <2>1. CASE pc'[c] = pc[c]
    BY <1>1, <2>1, SeenKept DEF Fresh
  <2>2. CASE pc'[c] \notin {"headers", "nfs"}
    BY <2>2 DEF Seen
  <2> QED
    BY <1>1, <2>1, <2>2
<1> QED
  BY <1>1, <1>2 DEF Fresh, Unseen, ProcessedOnce

LEMMA FreshInit == Init => Fresh
<1> SUFFICES ASSUME Init PROVE Fresh
  OBVIOUS
<1>1. \A p \in Portid : DOMAIN rxq[p] = {} /\ DOMAIN txq[p] = {}
  BY DEF Init
<1>2. \A c \in Lcore : pc[c] = "start"
  BY DEF Init
<1> QED
  BY <1>1, <1>2 DEF Fresh, Unseen, ProcessedOnce, Seen

LEMMA FreshStep == OnePolls /\ FrameInv /\ Fresh /\ [Next]_vars => Fresh'
<1> SUFFICES ASSUME OnePolls, FrameInv, Fresh, [Next]_vars PROVE Fresh'
  OBVIOUS
<1>1. LoopInv /\ Placed
  BY DEF FrameInv
<1> QED
  BY <1>1, FreshNics, FreshRx, FreshHeaders, FreshNfs, FreshTx, FreshOther DEF Next, MainLoop, Stay

\* With one lcore that polls, every frame handed to the NIC went through the
\* network functions exactly once.  With two it need not have.
THEOREM ServedOnce == ASSUME OnePolls PROVE Spec => []ProcessedOnce
<1>1. FrameInv /\ Fresh /\ [Next]_vars => Fresh'
  BY FreshStep
<1>2. Fresh => ProcessedOnce
  BY DEF Fresh
<1> QED
  BY <1>1, <1>2, FreshInit, SpecFrame, PTL DEF Spec
=============================================================================
