----------------------------- MODULE DataPlane -----------------------------
(***************************************************************************)
(* The forwarding loop (main.cpp, l2fwd_main_loop) of every lcore, from    *)
(* its launch to the closing of the ports, and who holds each mbuf.        *)
(*                                                                         *)
(* An mbuf is free in the pool, in the RX or TX queue of a port, or in     *)
(* the hands of an lcore.  The pool and the queues belong to DPDK and the  *)
(* NICs, and are modelled by what the code relies on.  A frame is its      *)
(* mbuf; the network functions only count how often they saw it.           *)
(*                                                                         *)
(* What an lcore does once it freed an mbuf that it does not own is        *)
(* undefined, and the model follows that lcore no further.                 *)
(***************************************************************************)
EXTENDS Integers, Sequences, FiniteSets

CONSTANTS
  Lcore,           \* the lcores
  Portid,          \* the enabled ports
  rx_port_list,    \* the ports each lcore polls, in order
  Mbuf, Uninit,    \* the mbufs, and a pointer never assigned
  MAX_PKT_BURST, BATCH_SIZE,
  nb_txd,          \* descriptors of a TX queue
  max_packets,
  MaxArrivals      \* bound: the frames that come in by each port

ASSUME DataPlaneAssumption ==
  /\ rx_port_list \in [Lcore -> Seq(Portid)]
  /\ Uninit \notin Mbuf
  /\ MAX_PKT_BURST \in Nat \ {0} /\ BATCH_SIZE \in Nat \ {0}
  /\ nb_txd \in Nat /\ max_packets \in Nat /\ MaxArrivals \in [Portid -> Nat]

\* Each port is on one list, once: PolledOnce of the module Startup.
ASSUME PolledByOne ==
  \A c, d \in Lcore :
    \A j \in DOMAIN rx_port_list[c], k \in DOMAIN rx_port_list[d] :
      rx_port_list[c][j] = rx_port_list[d][k] => c = d /\ j = k

VARIABLES
  main,             \* rte_get_main_lcore: the lcore main() itself runs on
  pool, rxq, txq,   \* the free mbufs, and those of each port's queues
  started,          \* the ports that are started
  force_quit, port_statistics,
  eth_hdrs_burst,   \* one array for all lcores
  pc, at,           \* per lcore: where it is, and its index in rx_port_list
  pkts_burst, nb_rx, nb_tx,   \* per lcore: locals of l2fwd_main_loop
  off,              \* per lcore: where in the burst the next batch begins
  runs              \* history: how often each frame went through the functions

nic == <<pool, rxq, txq, started>>
locals == <<at, pkts_burst, nb_rx, nb_tx, off>>
vars == <<main, nic, force_quit, port_statistics, eth_hdrs_burst, pc, locals, runs>>

Burst == 1 .. MAX_PKT_BURST
Lesser(m, n) == IF m < n THEN m ELSE n

Init ==
  /\ main \in Lcore
  /\ pool = Mbuf
  /\ rxq = [p \in Portid |-> <<>>] /\ txq = [p \in Portid |-> <<>>]
  /\ started = Portid
  /\ force_quit = FALSE
  /\ port_statistics = [p \in Portid |-> [rx |-> 0, processed |-> 0, tx |-> 0]]
  /\ eth_hdrs_burst = [j \in Burst |-> Uninit]
  /\ pc = [c \in Lcore |-> "start"]
  /\ at = [c \in Lcore |-> 1]
  /\ pkts_burst = [c \in Lcore |-> [j \in Burst |-> Uninit]]
  /\ nb_rx = [c \in Lcore |-> 0] /\ nb_tx = [c \in Lcore |-> 0]
  /\ off = [c \in Lcore |-> 0]
  /\ runs = [m \in Mbuf |-> 0]

-----------------------------------------------------------------------------
\* The NICs.  A frame comes in, into a free mbuf.
Arrive(p) ==
  /\ p \in started /\ port_statistics[p].rx + Len(rxq[p]) < MaxArrivals[p]
  /\ \E m \in pool :
       /\ pool' = pool \ {m}
       /\ rxq' = [rxq EXCEPT ![p] = Append(@, m)]
       /\ runs' = [runs EXCEPT ![m] = 0]
  /\ UNCHANGED <<main, txq, started, force_quit, port_statistics, eth_hdrs_burst, pc,
                 locals>>

\* A frame has been sent and its mbuf is free again.
Sent(p) ==
  /\ p \in started /\ txq[p] # <<>>
  /\ pool' = pool \cup {Head(txq[p])}
  /\ txq' = [txq EXCEPT ![p] = Tail(@)]
  /\ UNCHANGED <<main, rxq, started, force_quit, port_statistics, eth_hdrs_burst, pc,
                 locals, runs>>

\* signal_handler, on SIGINT and SIGTERM.
Signal ==
  /\ ~force_quit /\ force_quit' = TRUE
  /\ UNCHANGED <<main, nic, port_statistics, eth_hdrs_burst, pc, locals, runs>>

-----------------------------------------------------------------------------
portid(c) == rx_port_list[c][at[c]]
Goto(c, label) == pc' = [pc EXCEPT ![c] = label]

\* An lcore without ports has nothing to do.
Launch(c) ==
  /\ pc[c] = "start"
  /\ Goto(c, IF rx_port_list[c] = <<>> THEN "done" ELSE "while")
  /\ UNCHANGED <<main, nic, force_quit, port_statistics, eth_hdrs_burst, locals, runs>>

\* The head of the loop.  The flush of tx_buffer that follows it finds the
\* buffers empty: nothing is ever put into them.
While(c) ==
  /\ pc[c] = "while"
  /\ Goto(c, IF force_quit THEN "done" ELSE "rx")
  /\ at' = [at EXCEPT ![c] = 1]
  /\ UNCHANGED <<main, nic, force_quit, port_statistics, eth_hdrs_burst, pkts_burst, nb_rx,
                 nb_tx, off, runs>>

\* rte_eth_rx_burst: what was received goes to the first entries of
\* pkts_burst; the others keep what earlier bursts left there.
RxBurst(c) ==
  LET p == portid(c)
      n == Lesser(Len(rxq[p]), MAX_PKT_BURST)
  IN  /\ pc[c] = "rx"
      /\ pkts_burst' = [pkts_burst EXCEPT ![c] =
                          [j \in Burst |-> IF j =< n THEN rxq[p][j] ELSE @[j]]]
      /\ rxq' = [rxq EXCEPT ![p] = SubSeq(@, n + 1, Len(@))]
      /\ nb_rx' = [nb_rx EXCEPT ![c] = n]
      /\ nb_tx' = [nb_tx EXCEPT ![c] = 0]
      /\ port_statistics' = [port_statistics EXCEPT ![p].rx = @ + n]
      /\ Goto(c, "headers")
      /\ UNCHANGED <<main, pool, txq, started, force_quit, eth_hdrs_burst, at, off, runs>>

GetHeaders(c) ==
  /\ pc[c] = "headers"
  /\ eth_hdrs_burst' =
       [j \in Burst |-> IF j =< nb_rx[c] THEN pkts_burst[c][j] ELSE eth_hdrs_burst[j]]
  /\ off' = [off EXCEPT ![c] = 0]
  /\ Goto(c, "nfs")
  /\ UNCHANGED <<main, nic, force_quit, port_statistics, at, pkts_burst, nb_rx, nb_tx, runs>>

\* Mutant: every batch is taken to be full.
full_batch(c) == BATCH_SIZE

\* num_in_batch: the last batch of a burst may be shorter.
num_in_batch(c) ==
  IF off[c] + BATCH_SIZE =< nb_rx[c] THEN BATCH_SIZE ELSE nb_rx[c] - off[c]

\* run_nfs on one batch of headers.
RunNfs(c) ==
  /\ pc[c] = "nfs" /\ off[c] < nb_rx[c]
  /\ LET batch == Burst \cap off[c] + 1 .. off[c] + num_in_batch(c)
     IN  runs' = [m \in Mbuf |->
                    runs[m] + Cardinality({j \in batch : eth_hdrs_burst[j] = m})]
  /\ off' = [off EXCEPT ![c] = @ + BATCH_SIZE]
  /\ UNCHANGED <<main, nic, force_quit, port_statistics, eth_hdrs_burst, pc, at, pkts_burst,
                 nb_rx, nb_tx>>

\* Mutant: the burst goes out by the first port of the list.
first_port(c) == rx_port_list[c][1]

\* The queue the burst goes out by: that of the port it came in by.
tx_port(c) == portid(c)

\* rte_eth_tx_burst takes as many as there are descriptors for.
TxBurst(c) ==
  LET p == tx_port(c)
      n == Lesser(nb_rx[c], nb_txd - Len(txq[p]))
  IN  /\ pc[c] = "nfs" /\ off[c] >= nb_rx[c]
      /\ port_statistics' = [port_statistics EXCEPT ![portid(c)].processed = @ + nb_rx[c]]
      /\ txq' = [txq EXCEPT ![p] = @ \o SubSeq(pkts_burst[c], 1, n)]
      /\ nb_tx' = [nb_tx EXCEPT ![c] = n]
      /\ Goto(c, IF n < nb_rx[c] THEN "free" ELSE "count")
      /\ UNCHANGED <<main, pool, rxq, started, force_quit, eth_hdrs_burst, at, pkts_burst, nb_rx,
                     off, runs>>

\* Mutant: refused frames are forgotten.
LeakBurst(c) ==
  /\ pc[c] = "free"
  /\ Goto(c, "count")
  /\ UNCHANGED <<main, nic, force_quit, port_statistics, eth_hdrs_burst, locals, runs>>

\* Mutant: the entries are freed whatever they are.
FreeUnchecked(c) ==
  /\ pc[c] = "free"
  /\ pool' = pool \cup {pkts_burst[c][j] : j \in Burst}
  /\ Goto(c, "count")
  /\ UNCHANGED <<main, rxq, txq, started, force_quit, port_statistics, eth_hdrs_burst, locals,
                 runs>>

\* Some frames were refused: every entry of pkts_burst is freed.  That is
\* what it should be only if every entry is one of the refused frames.
FreeBurst(c) ==
  /\ pc[c] = "free"
  /\ IF nb_tx[c] = 0 /\ nb_rx[c] = MAX_PKT_BURST
       THEN pool' = pool \cup {pkts_burst[c][j] : j \in Burst} /\ Goto(c, "count")
       ELSE UNCHANGED pool /\ Goto(c, "undefined")
  /\ UNCHANGED <<main, rxq, txq, started, force_quit, port_statistics, eth_hdrs_burst, locals,
                 runs>>

\* The end of the turn of one port.
CountTx(c) ==
  /\ pc[c] = "count"
  /\ port_statistics' = [port_statistics EXCEPT ![portid(c)].tx = @ + nb_tx[c]]
  /\ IF at[c] < Len(rx_port_list[c])
       THEN at' = [at EXCEPT ![c] = @ + 1] /\ Goto(c, "rx")
       ELSE UNCHANGED at /\ Goto(c, "check")
  /\ UNCHANGED <<main, nic, force_quit, eth_hdrs_burst, pkts_burst, nb_rx, nb_tx, off, runs>>

\* Mutant: the check overwrites what a signal asked for.
CheckQuitOverwrites(c) ==
  /\ pc[c] = "check"
  /\ force_quit' = (port_statistics[portid(c)].tx > max_packets)
  /\ Goto(c, "while")
  /\ UNCHANGED <<main, nic, port_statistics, eth_hdrs_burst, locals, runs>>

\* The end of an iteration.  portid is still the last port of the list; the
\* timer may have run out, which is counted on the main lcore only, as the
\* module Statistics has it.
CheckQuit(c) ==
  /\ pc[c] = "check"
  /\ \E timeout \in IF c = main THEN BOOLEAN ELSE {FALSE} :
       force_quit' = (force_quit \/ timeout \/ port_statistics[portid(c)].tx > max_packets)
  /\ Goto(c, "while")
  /\ UNCHANGED <<main, nic, port_statistics, eth_hdrs_burst, locals, runs>>

\* Mutant: main() does not wait for the other lcores to return.
CloseWithoutWait(p) ==
  /\ pc[main] = "done"
  /\ p \in started /\ started' = started \ {p}
  /\ pool' = pool \cup {rxq[p][j] : j \in DOMAIN rxq[p]} \cup {txq[p][j] : j \in DOMAIN txq[p]}
  /\ rxq' = [rxq EXCEPT ![p] = <<>>]
  /\ txq' = [txq EXCEPT ![p] = <<>>]
  /\ UNCHANGED <<main, force_quit, port_statistics, eth_hdrs_burst, pc, locals, runs>>

\* main() stops and closes the ports once it returned from the loop itself
\* and waited for the other lcores; the frames in their queues are gone.
ClosePort(p) ==
  /\ \A c \in Lcore : pc[c] = "done"
  /\ p \in started /\ started' = started \ {p}
  /\ pool' = pool \cup {rxq[p][j] : j \in DOMAIN rxq[p]} \cup {txq[p][j] : j \in DOMAIN txq[p]}
  /\ rxq' = [rxq EXCEPT ![p] = <<>>]
  /\ txq' = [txq EXCEPT ![p] = <<>>]
  /\ UNCHANGED <<main, force_quit, port_statistics, eth_hdrs_burst, pc, locals, runs>>

-----------------------------------------------------------------------------
MainLoop(c) ==
  \/ Launch(c) \/ While(c) \/ RxBurst(c) \/ GetHeaders(c) \/ RunNfs(c)
  \/ TxBurst(c) \/ FreeBurst(c) \/ CountTx(c) \/ CheckQuit(c)

LastPort(c) == rx_port_list[c][Len(rx_port_list[c])]

\* An lcore has freed an mbuf that was not its own.
Misfreed == \E c \in Lcore : pc[c] = "undefined"

\* The process has exited, or what it does is no longer defined.
Ended == started = {} \/ Misfreed
Stay == Ended /\ UNCHANGED vars

Next ==
  \/ \E p \in Portid : Arrive(p) \/ Sent(p) \/ ClosePort(p)
  \/ \E c \in Lcore : MainLoop(c)
  \/ Signal
  \/ Stay

\* An lcore runs on a core of its own, and main() runs on after it.
Fairness ==
  /\ \A c \in Lcore : WF_vars(MainLoop(c))
  /\ \A p \in Portid : WF_vars(ClosePort(p))

Spec == Init /\ [][Next]_vars /\ Fairness

-----------------------------------------------------------------------------
\* The types of the queues and counters and of each lcore's locals.
TypeOK ==
  /\ main \in Lcore
  /\ pool \subseteq Mbuf /\ started \subseteq Portid
  /\ rxq \in [Portid -> Seq(Mbuf)] /\ txq \in [Portid -> Seq(Mbuf)]
  /\ force_quit \in BOOLEAN
  /\ port_statistics \in [Portid -> [rx: Nat, processed: Nat, tx: Nat]]
  /\ eth_hdrs_burst \in [Burst -> Mbuf \cup {Uninit}]
  /\ pc \in [Lcore -> {"start", "while", "rx", "headers", "nfs", "free", "count", "check",
                       "done", "undefined"}]
  /\ at \in [Lcore -> Nat \ {0}]
  /\ pkts_burst \in [Lcore -> [Burst -> Mbuf \cup {Uninit}]]
  /\ nb_rx \in [Lcore -> 0 .. MAX_PKT_BURST] /\ nb_tx \in [Lcore -> 0 .. MAX_PKT_BURST]
  /\ off \in [Lcore -> Nat]
  /\ runs \in [Mbuf -> Nat]

\* The frames lcore c holds: those it received and has not got rid of.
InHand(c) ==
  CASE pc[c] \in {"headers", "nfs"} -> SubSeq(pkts_burst[c], 1, nb_rx[c])
    [] pc[c] = "free" -> SubSeq(pkts_burst[c], nb_tx[c] + 1, nb_rx[c])
    [] OTHER -> <<>>

\* The frames of port p on their way through, in order.
Line(p) ==
  LET polled == {c \in Lcore : pc[c] \in {"headers", "nfs", "free"} /\ portid(c) = p}
  IN  txq[p] \o (IF polled = {} THEN <<>> ELSE InHand(CHOOSE c \in polled : TRUE)) \o rxq[p]

\* No mbuf is lost and none is in two places: each is free or on its way
\* through exactly one port, at one place there.
Conserved ==
  ~Misfreed =>
    LET line == [p \in Portid |-> Line(p)]
        places == UNION {{<<p, j>> : j \in DOMAIN line[p]} : p \in Portid}
    IN  /\ \A x, y \in places : line[x[1]][x[2]] = line[y[1]][y[2]] => x = y
        /\ pool = Mbuf \ {line[x[1]][x[2]] : x \in places}

\* "We drop the packets if tx is not able to keep up with the rate": only
\* mbufs the lcore still owns are freed.
OnlyOwnFreed == ~Misfreed

\* A frame that is handed to the NIC went through the network functions
\* once: not twice, and not never.
ProcessedOnce ==
  \A p \in Portid : \A j \in DOMAIN txq[p] : runs[txq[p][j]] = 1

\* No lcore polls a port that main() has closed.
NoPollAfterClose ==
  \A c \in Lcore : pc[c] \in {"rx", "headers", "nfs", "free", "count"} => portid(c) \in started

\* Frames leave by the port they came by, in order.
Order == INSTANCE Lines WITH line <- [p \in Portid |-> Line(p)]
RefinesLines == Order!Spec

\* Once asked to quit, by a signal or the timer, or once the last port of an
\* lcore's list has sent more than max_packets, the program closes its ports.
Quits ==
  (\/ force_quit
   \/ \E c \in Lcore : /\ rx_port_list[c] # <<>>
                       /\ port_statistics[LastPort(c)].tx > max_packets) ~> Ended
=============================================================================
