------------------------------ MODULE Startup ------------------------------
(***************************************************************************)
(* main() before the lcores are launched (main.cpp 497-760): the check of  *)
(* the arguments, the pairing of the ports, the lcore that polls each of   *)
(* them, the size of the mbuf pool, the set-up of the ports, and the wait  *)
(* for their links.  The loops over the ports take a port at a time.       *)
(*                                                                         *)
(* The three arguments that matter are variables that keep their first     *)
(* value.  DPDK is modelled by what its calls answer: any of them may      *)
(* fail, descriptor counts are brought within a port's limits, and a link  *)
(* is up, down or unknown whenever it is looked at.                        *)
(*                                                                         *)
(* port_pair_params is null for ever, since nothing assigns it, and the    *)
(* code for it (main.cpp 397-429, 568-575) is left out.                    *)
(***************************************************************************)
EXTENDS Integers, Sequences, FiniteSets

CONSTANTS
  nb_ports,               \* the ports DPDK found are 0 .. nb_ports - 1
  PortBits,               \* the bits of a port mask
  RTE_MAX_LCORE, MAX_RX_QUEUE_PER_LCORE,
  RX_DESC_DEFAULT, TX_DESC_DEFAULT,
  desc_lim,               \* of each port, the descriptors a ring may have
  MAX_PKT_BURST, MEMPOOL_CACHE_SIZE, MIN_MBUFS,
  MAX_CHECK_TIME          \* how often the links are waited for

Port == 0 .. nb_ports - 1
LcoreId == 0 .. RTE_MAX_LCORE - 1

ASSUME StartupAssumption ==
  /\ nb_ports \in Nat /\ PortBits \subseteq Nat
  /\ RTE_MAX_LCORE \in Nat \ {0} /\ MAX_RX_QUEUE_PER_LCORE \in Nat
  /\ RX_DESC_DEFAULT \in Nat /\ TX_DESC_DEFAULT \in Nat
  /\ desc_lim \in [Port -> [min : Nat, max : Nat]]
  /\ \A p \in Port : desc_lim[p].min =< desc_lim[p].max
  /\ MAX_PKT_BURST \in Nat /\ MEMPOOL_CACHE_SIZE \in Nat /\ MIN_MBUFS \in Nat
  /\ MAX_CHECK_TIME \in Nat \ {0}

NULL == -1

VARIABLES
  portmask, rx_queue_per_lcore,   \* flags
  enabled_lcores,                 \* the lcores EAL was told to use
  pc,
  portid,                         \* the port a loop is at
  l2fwd_dst_ports, last_port, nb_ports_in_mask,
  rx_lcore_id, qconf, nb_lcores,
  rx_port_list,                   \* of each lcore; n_rx_port is its length
  nb_mbufs,
  nb_rxd, nb_txd,
  tx_buffer,                      \* the ports that have one
  used,                           \* history: descriptors of all rings set up
  count, all_ports_up, print_flag,
  waits, printed,                 \* history: waits, and the ports whose link
                                  \* was printed
  force_quit

args == <<portmask, rx_queue_per_lcore, enabled_lcores>>
pairing == <<l2fwd_dst_ports, last_port, nb_ports_in_mask>>
lcores == <<rx_lcore_id, qconf, nb_lcores, rx_port_list>>
rings == <<nb_rxd, nb_txd, tx_buffer, used>>
links == <<count, all_ports_up, print_flag, waits, printed>>
vars == <<args, pc, portid, pairing, lcores, nb_mbufs, rings, links, force_quit>>

Enabled == portmask \cap Port
Greater(m, n) == IF m < n THEN n ELSE m
Lesser(m, n) == IF m < n THEN m ELSE n

Init ==
  /\ portmask \in SUBSET PortBits
  /\ rx_queue_per_lcore \in 0 .. MAX_RX_QUEUE_PER_LCORE
  /\ enabled_lcores \in SUBSET LcoreId \ {{}}
  /\ pc = "args" /\ portid = 0
  /\ l2fwd_dst_ports = [p \in Port |-> 0] /\ last_port = 0 /\ nb_ports_in_mask = 0
  /\ rx_lcore_id = 0 /\ qconf = NULL /\ nb_lcores = 0
  /\ rx_port_list = [c \in LcoreId |-> <<>>]
  /\ nb_mbufs = 0
  /\ nb_rxd = RX_DESC_DEFAULT /\ nb_txd = TX_DESC_DEFAULT
  /\ tx_buffer = {} /\ used = 0
  /\ count = 0 /\ all_ports_up = TRUE /\ print_flag = FALSE
  /\ waits = 0 /\ printed = {}
  /\ force_quit = FALSE

\* signal_handler: nothing but the link check looks at the flag.
Signal ==
  /\ pc \notin {"launch", "exit"} /\ ~force_quit /\ force_quit' = TRUE
  /\ UNCHANGED <<args, pc, portid, pairing, lcores, nb_mbufs, rings, links>>

\* The next part of main() begins, with its loop at the first port.
Proceed(label) == pc' = label /\ portid' = 0

-----------------------------------------------------------------------------
\* An assertion on the flag, then the two checks of the ports.
ArgumentsOK ==
  /\ rx_queue_per_lcore < MAX_RX_QUEUE_PER_LCORE
  /\ nb_ports # 0
  /\ portmask \subseteq Port

\* rte_eal_init may have failed before.
CheckArguments ==
  /\ pc = "args"
  /\ \E eal \in BOOLEAN : Proceed(IF eal /\ ArgumentsOK THEN "pair" ELSE "exit")
  /\ UNCHANGED <<args, pairing, lcores, nb_mbufs, rings, links, force_quit>>

-----------------------------------------------------------------------------
\* A port that is not enabled.
Skip(label) ==
  /\ pc = label /\ portid < nb_ports /\ portid \notin portmask
  /\ label = "links" => ~force_quit
  /\ portid' = portid + 1
  /\ UNCHANGED <<args, pc, pairing, lcores, nb_mbufs, rings, links, force_quit>>

\* The first port of a pair waits for the second.
FirstOfPair ==
  /\ pc = "pair" /\ portid \in Enabled /\ nb_ports_in_mask % 2 = 0
  /\ last_port' = portid
  /\ nb_ports_in_mask' = nb_ports_in_mask + 1
  /\ portid' = portid + 1
  /\ UNCHANGED <<args, pc, l2fwd_dst_ports, lcores, nb_mbufs, rings, links, force_quit>>

\* Mutant: the second port learns of the first, not the first of the second.
OneWay == [l2fwd_dst_ports EXCEPT ![portid] = last_port]

BothWays == [l2fwd_dst_ports EXCEPT ![portid] = last_port, ![last_port] = portid]

SecondOfPair ==
  /\ pc = "pair" /\ portid \in Enabled /\ nb_ports_in_mask % 2 = 1
  /\ l2fwd_dst_ports' = BothWays
  /\ nb_ports_in_mask' = nb_ports_in_mask + 1
  /\ portid' = portid + 1
  /\ UNCHANGED <<args, pc, last_port, lcores, nb_mbufs, rings, links, force_quit>>

\* Mutant: the odd port out is left without a pair.
LeftAlone == l2fwd_dst_ports

WithItself ==
  IF nb_ports_in_mask % 2 = 0 THEN l2fwd_dst_ports
  ELSE [l2fwd_dst_ports EXCEPT ![last_port] = last_port]

\* An odd port out is paired with itself.
EndPairing ==
  /\ pc = "pair" /\ portid = nb_ports
  /\ l2fwd_dst_ports' = WithItself
  /\ Proceed("assign")
  /\ UNCHANGED <<args, last_port, nb_ports_in_mask, lcores, nb_mbufs, rings, links,
                 force_quit>>

-----------------------------------------------------------------------------
\* Mutant: an lcore that is not enabled may be given a port.
FullOnly(c) == Len(rx_port_list[c]) = rx_queue_per_lcore

\* Mutant: one slot of each lcore stays free.
SlotKept(c) == c \notin enabled_lcores \/ Len(rx_port_list[c]) + 1 = rx_queue_per_lcore

Unfit(c) == c \notin enabled_lcores \/ Len(rx_port_list[c]) = rx_queue_per_lcore

\* Mutant: past the last lcore the search starts again.
Around == (rx_lcore_id + 1) % RTE_MAX_LCORE

Following == rx_lcore_id + 1

\* Mutant: off by one.
BeyondLast(c) == c > RTE_MAX_LCORE

PastLast(c) == c >= RTE_MAX_LCORE

\* The search for an lcore goes on, or ends for lack of cores.
NextLcore ==
  /\ pc = "assign" /\ portid \in Enabled /\ Unfit(rx_lcore_id)
  /\ IF PastLast(Following)
     THEN pc' = "exit" /\ UNCHANGED rx_lcore_id
     ELSE rx_lcore_id' = Following /\ UNCHANGED pc
  /\ UNCHANGED <<args, portid, pairing, qconf, nb_lcores, rx_port_list, nb_mbufs, rings,
                 links, force_quit>>

AssignPort ==
  /\ pc = "assign" /\ portid \in Enabled /\ ~Unfit(rx_lcore_id)
  /\ nb_lcores' = IF qconf # rx_lcore_id THEN nb_lcores + 1 ELSE nb_lcores
  /\ qconf' = rx_lcore_id
  /\ rx_port_list' = [rx_port_list EXCEPT ![rx_lcore_id] = Append(@, portid)]
  /\ portid' = portid + 1
  /\ UNCHANGED <<args, pc, pairing, rx_lcore_id, nb_mbufs, rings, links, force_quit>>

\* Mutant: the pool is sized for one ring of each port.
OneRing == nb_ports * (nb_rxd + MAX_PKT_BURST + nb_lcores * MEMPOOL_CACHE_SIZE)

Needed ==
  nb_ports * (nb_rxd + nb_txd + MAX_PKT_BURST + nb_lcores * MEMPOOL_CACHE_SIZE)

CreatePool ==
  /\ pc = "assign" /\ portid = nb_ports
  /\ nb_mbufs' = Greater(Needed, MIN_MBUFS)
  /\ \/ Proceed("ports")
     \/ Proceed("exit")     \* Cannot init mbuf pool
  /\ UNCHANGED <<args, pairing, lcores, rings, links, force_quit>>

-----------------------------------------------------------------------------
\* rte_eth_dev_adjust_nb_rx_tx_desc, for one of the two counts.
Adjust(n, lim) == Greater(Lesser(n, lim.max), lim.min)

\* A port is configured, given its queues and its buffer, and started.  The
\* counts are globals: what a port's limits make of them the next one gets.
InitPort ==
  /\ pc = "ports" /\ portid \in Enabled
  /\ nb_rxd' = Adjust(nb_rxd, desc_lim[portid])
  /\ nb_txd' = Adjust(nb_txd, desc_lim[portid])
  /\ used' = used + nb_rxd' + nb_txd'
  /\ tx_buffer' = tx_buffer \cup {portid}
  /\ portid' = portid + 1
  /\ UNCHANGED <<args, pc, pairing, lcores, nb_mbufs, links, force_quit>>

\* One of the calls fails and the process exits: what this port had been given
\* by then no longer matters.
InitPortFails ==
  /\ pc = "ports" /\ portid \in Enabled
  /\ pc' = "exit"
  /\ UNCHANGED <<args, portid, pairing, lcores, nb_mbufs, rings, links, force_quit>>

\* nb_ports_available: without any port there is nothing to run.
EndPorts ==
  /\ pc = "ports" /\ portid = nb_ports
  /\ Proceed(IF Enabled = {} THEN "exit" ELSE "links")
  /\ UNCHANGED <<args, pairing, lcores, nb_mbufs, rings, links, force_quit>>

-----------------------------------------------------------------------------
\* check_all_ports_link_status.  force_quit is looked at before each pass
\* and before each port.
LinkQuit ==
  /\ pc = "links" /\ portid < nb_ports /\ force_quit
  /\ Proceed("launch")
  /\ UNCHANGED <<args, pairing, lcores, nb_mbufs, rings, links, force_quit>>

\* A look at a link that is up, or that cannot be told.  The printing pass
\* says which, and goes on where a link is down.
LinkLook ==
  /\ pc = "links" /\ ~force_quit /\ portid \in Enabled
  /\ all_ports_up' \in {all_ports_up, FALSE}
  /\ printed' = IF print_flag THEN printed \cup {portid} ELSE printed
  /\ portid' = portid + 1
  /\ UNCHANGED <<args, pc, pairing, lcores, nb_mbufs, rings, count, print_flag, waits,
                 force_quit>>

\* One link that is down ends the pass, unless it is the printing one.
LinkDown ==
  /\ pc = "links" /\ ~force_quit /\ portid \in Enabled /\ ~print_flag
  /\ all_ports_up' = FALSE
  /\ portid' = nb_ports
  /\ UNCHANGED <<args, pc, pairing, lcores, nb_mbufs, rings, count, print_flag, waits,
                 printed, force_quit>>

\* The printing pass was the last.
EndPrinting ==
  /\ pc = "links" /\ portid = nb_ports /\ print_flag
  /\ Proceed("launch")
  /\ UNCHANGED <<args, pairing, lcores, nb_mbufs, rings, links, force_quit>>

\* Mutant: the last pass is the one that finds out that it is.
TooLate == all_ports_up \/ count = MAX_CHECK_TIME

LastLook == all_ports_up \/ count = MAX_CHECK_TIME - 1

\* The end of any other pass: a wait unless all links are up.
EndPass ==
  /\ pc = "links" /\ portid = nb_ports /\ ~print_flag
  /\ waits' = IF all_ports_up THEN waits ELSE waits + 1
  /\ print_flag' = LastLook
  /\ count' = count + 1
  /\ all_ports_up' = TRUE
  /\ Proceed(IF count' =< MAX_CHECK_TIME THEN "links" ELSE "launch")
  /\ UNCHANGED <<args, pairing, lcores, nb_mbufs, rings, printed, force_quit>>

-----------------------------------------------------------------------------
Main ==
  \/ CheckArguments
  \/ Skip("pair") \/ FirstOfPair \/ SecondOfPair \/ EndPairing
  \/ Skip("assign") \/ NextLcore \/ AssignPort \/ CreatePool
  \/ Skip("ports") \/ InitPort \/ InitPortFails \/ EndPorts
  \/ LinkQuit \/ Skip("links") \/ LinkLook \/ LinkDown \/ EndPrinting \/ EndPass

Next == Main \/ Signal

Spec == Init /\ [][Next]_vars /\ WF_vars(Main)
-----------------------------------------------------------------------------
\* The lcores that were given a port, and the parts of main() that come
\* after the pairing and after the assignment.
Polling == {c \in LcoreId : rx_port_list[c] # <<>>}
IsPaired == pc \in {"assign", "ports", "links", "launch"}
IsAssigned == pc \in {"ports", "links", "launch"}

ArgsType ==
  /\ portmask \subseteq PortBits /\ enabled_lcores \subseteq LcoreId
  /\ rx_queue_per_lcore \in 0 .. MAX_RX_QUEUE_PER_LCORE

ControlType ==
  /\ pc \in {"args", "pair", "assign", "ports", "links", "launch", "exit"}
  /\ portid \in 0 .. nb_ports
  /\ force_quit \in BOOLEAN

PairingType ==
  /\ l2fwd_dst_ports \in [Port -> Nat]
  /\ last_port \in Nat /\ nb_ports_in_mask \in Nat

LcoresType ==
  /\ rx_lcore_id \in LcoreId /\ qconf \in LcoreId \cup {NULL} /\ nb_lcores \in Nat
  /\ rx_port_list \in [LcoreId -> Seq(Port)]

RingsType ==
  /\ nb_mbufs \in Nat /\ nb_rxd \in Nat /\ nb_txd \in Nat
  /\ tx_buffer \subseteq Port /\ used \in Nat

LinksType ==
  /\ count \in Nat /\ all_ports_up \in BOOLEAN /\ print_flag \in BOOLEAN
  /\ waits \in Nat /\ printed \subseteq Port

TypeOK ==
  ArgsType /\ ControlType /\ PairingType /\ LcoresType /\ RingsType /\ LinksType

\* "Default: alternate port pairs": the ports are paired off, each with the
\* one it is the pair of, and at most one is left over for itself.
Paired ==
  IsPaired =>
    /\ \A p \in Enabled : /\ l2fwd_dst_ports[p] \in Enabled
                         /\ l2fwd_dst_ports[l2fwd_dst_ports[p]] = p
    /\ \A p, q \in Enabled : l2fwd_dst_ports[p] = p /\ l2fwd_dst_ports[q] = q => p = q

\* Every enabled port is polled by an lcore that will run, by one only and
\* once, so that a receive queue is never read by two.  No lcore is given
\* more ports than it may have; rx_port_list has no room for more.
PolledOnce ==
  IsAssigned =>
    /\ \A p \in Enabled :
         \E c \in enabled_lcores : \E j \in DOMAIN rx_port_list[c] : rx_port_list[c][j] = p
    /\ \A c, d \in LcoreId :
         \A j \in DOMAIN rx_port_list[c], k \in DOMAIN rx_port_list[d] :
           rx_port_list[c][j] = rx_port_list[d][k] => c = d /\ j = k
    /\ \A c \in LcoreId : Len(rx_port_list[c]) =< rx_queue_per_lcore

\* "Not enough cores" is true when it is said: the search gives up only
\* when the enabled lcores cannot take all the ports.
NotEnoughCores ==
  [][pc = "assign" /\ portid < nb_ports /\ pc' = "exit"
       => Cardinality(Enabled) > Cardinality(enabled_lcores) * rx_queue_per_lcore]_vars

\* The loop flushes the buffer of the port that each of its ports is paired
\* with, and finds one there.
FlushReady ==
  pc = "launch" =>
    \A c \in LcoreId : \A j \in DOMAIN rx_port_list[c] :
      l2fwd_dst_ports[rx_port_list[c][j]] \in tx_buffer

\* The pool, sized before the ports' limits are known, is large enough to
\* fill all rings, with a burst in the hands and another in the cache of
\* every lcore that polls: if no port insists on larger rings.
RingsFit ==
  /\ \A p \in Port : desc_lim[p].min =< Lesser(RX_DESC_DEFAULT, TX_DESC_DEFAULT)
  /\ pc \in {"links", "launch"}
  => used + Cardinality(Polling) * (MAX_PKT_BURST + MEMPOOL_CACHE_SIZE) =< nb_mbufs

\* "Check the link status of all ports in up to 9s, and print them finally":
\* unless it was told to quit, the check ends with every port printed, after
\* at most MAX_CHECK_TIME waits of 100 ms.
LinksPrinted ==
  /\ waits =< MAX_CHECK_TIME
  /\ pc = "launch" /\ ~force_quit => printed = Enabled

\* Startup ends, whatever the links do.
Ends == <>(pc \in {"launch", "exit"})
=============================================================================
