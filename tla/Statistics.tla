----------------------------- MODULE Statistics -----------------------------
(***************************************************************************)
(* The counters of the forwarding loop, print_stats, and the timer that    *)
(* calls it (main.cpp).  The main lcore reads the counters port by port    *)
(* and then copies them, while the other lcores go on counting.            *)
(*                                                                         *)
(* Frames are numbers here: how many a burst has, and how many of them the *)
(* NIC took.  DataPlane says where they are.  Nobody but print_stats reads *)
(* last_port_statistics, so that its copying is one step.  What is printed *)
(* and what is divided by the time is left out, but for the packets        *)
(* processed since the last time.                                          *)
(***************************************************************************)
EXTENDS Integers, Sequences

CONSTANTS
  Lcore, Main,       \* the lcores, and the one print_stats runs on
  Portid,            \* the enabled ports: numbers
  rx_port_list,      \* the ports each lcore polls, in order
  MAX_PKT_BURST,
  timer_period, max_timer_period, max_packets,   \* flags
  MaxArrivals        \* bound: the frames that come in by each port

ASSUME StatisticsAssumption ==
  /\ Main \in Lcore /\ Portid \subseteq Nat
  /\ rx_port_list \in [Lcore -> Seq(Portid)]
  /\ \A c, d \in Lcore : \A i \in DOMAIN rx_port_list[c], j \in DOMAIN rx_port_list[d] :
       rx_port_list[c][i] = rx_port_list[d][j] => c = d /\ i = j
  /\ MAX_PKT_BURST \in Nat /\ MaxArrivals \in [Portid -> Nat]
  /\ timer_period \in Nat /\ max_timer_period \in Nat /\ max_packets \in Nat

VARIABLES
  force_quit,
  port_statistics, last_port_statistics,
  timer_period_elapsed,   \* of the main lcore: the others never count it
  printing,               \* print_stats: the ports that are still to be read
  pc, at, nb_rx,          \* per lcore: where it is, index in rx_port_list, burst
  shown                   \* history: per port, the sum of all processed_delta

counters == <<port_statistics, last_port_statistics, shown>>
timer == <<timer_period_elapsed, printing>>
vars == <<force_quit, counters, timer, pc, at, nb_rx>>

Zero == [rx |-> 0, processed |-> 0, tx |-> 0]

Init ==
  /\ force_quit = FALSE
  /\ port_statistics = [p \in Portid |-> Zero]
  /\ last_port_statistics = [p \in Portid |-> Zero]
  /\ timer_period_elapsed = 0 /\ printing = {}
  /\ pc = [c \in Lcore |-> IF rx_port_list[c] = <<>> THEN "done" ELSE "while"]
  /\ at = [c \in Lcore |-> 1] /\ nb_rx = [c \in Lcore |-> 0]
  /\ shown = [p \in Portid |-> 0]

portid(c) == rx_port_list[c][at[c]]
Goto(c, label) == pc' = [pc EXCEPT ![c] = label]

-----------------------------------------------------------------------------
\* signal_handler.
Signal ==
  /\ ~force_quit /\ force_quit' = TRUE
  /\ UNCHANGED <<counters, timer, pc, at, nb_rx>>

\* The head of the loop.
Quit(c) ==
  /\ pc[c] = "while" /\ force_quit
  /\ Goto(c, "done")
  /\ UNCHANGED <<force_quit, counters, timer, at, nb_rx>>

Poll(c) ==
  /\ pc[c] = "while" /\ ~force_quit
  /\ at' = [at EXCEPT ![c] = 1]
  /\ Goto(c, "rx")
  /\ UNCHANGED <<force_quit, counters, timer, nb_rx>>

\* The drain interval is over and the timer has run out: only on the main
\* lcore does that do anything.
PrintStats ==
  /\ pc[Main] = "while" /\ ~force_quit /\ timer_period > 0
  /\ printing' = Portid
  /\ Goto(Main, "print")
  /\ UNCHANGED <<force_quit, counters, timer_period_elapsed, at, nb_rx>>

processed_delta(p) == port_statistics[p].processed - last_port_statistics[p].processed

\* The ports are read in ascending order.
PrintPort ==
  /\ pc[Main] = "print"
  /\ \E p \in printing :
       /\ \A q \in printing : p =< q
       /\ shown' = [shown EXCEPT ![p] = @ + processed_delta(p)]
       /\ printing' = printing \ {p}
  /\ UNCHANGED <<force_quit, port_statistics, last_port_statistics, timer_period_elapsed, pc,
                 at, nb_rx>>

\* Mutant: the counters are not copied.
KeepOld == last_port_statistics

\* memcpy.
Copied == port_statistics

EndPrint ==
  /\ pc[Main] = "print" /\ printing = {}
  /\ last_port_statistics' = Copied
  /\ timer_period_elapsed' = timer_period_elapsed + 1
  /\ at' = [at EXCEPT ![Main] = 1]
  /\ Goto(Main, "rx")
  /\ UNCHANGED <<force_quit, port_statistics, printing, nb_rx, shown>>

\* A burst of a port, the functions, and what the NIC takes of it.
RxBurst(c) ==
  /\ pc[c] = "rx"
  /\ \E n \in 0 .. MAX_PKT_BURST :
       /\ port_statistics[portid(c)].rx + n =< MaxArrivals[portid(c)]
       /\ nb_rx' = [nb_rx EXCEPT ![c] = n]
       /\ port_statistics' = [port_statistics EXCEPT ![portid(c)].rx = @ + n]
  /\ Goto(c, "nfs")
  /\ UNCHANGED <<force_quit, last_port_statistics, shown, timer, at>>

RunNfs(c) ==
  /\ pc[c] = "nfs"
  /\ port_statistics' = [port_statistics EXCEPT ![portid(c)].processed = @ + nb_rx[c]]
  /\ Goto(c, "tx")
  /\ UNCHANGED <<force_quit, last_port_statistics, shown, timer, at, nb_rx>>

TxBurst(c) ==
  /\ pc[c] = "tx"
  /\ \E nb_tx \in 0 .. nb_rx[c] :
       port_statistics' = [port_statistics EXCEPT ![portid(c)].tx = @ + nb_tx]
  /\ IF at[c] < Len(rx_port_list[c])
       THEN at' = [at EXCEPT ![c] = @ + 1] /\ Goto(c, "rx")
       ELSE UNCHANGED at /\ Goto(c, "check")
  /\ UNCHANGED <<force_quit, last_port_statistics, shown, timer, nb_rx>>

\* Mutant: both limits must be passed.
BothOver(c) ==
  port_statistics[portid(c)].tx > max_packets /\ timer_period_elapsed > max_timer_period

\* timer_period_elapsed is a local: on a worker it stays 0.
Over(c) ==
  \/ port_statistics[portid(c)].tx > max_packets
  \/ c = Main /\ timer_period_elapsed > max_timer_period

\* Mutant: an lcore over a limit returns by itself, and tells no other.
CheckQuitAlone(c) ==
  /\ pc[c] = "check"
  /\ Goto(c, IF Over(c) THEN "done" ELSE "while")
  /\ UNCHANGED <<force_quit, counters, timer, at, nb_rx>>

CheckQuit(c) ==
  /\ pc[c] = "check"
  /\ force_quit' = (force_quit \/ Over(c))
  /\ Goto(c, "while")
  /\ UNCHANGED <<counters, timer, at, nb_rx>>

-----------------------------------------------------------------------------
MainLoop(c) ==
  \/ Quit(c) \/ Poll(c) \/ RxBurst(c) \/ RunNfs(c) \/ TxBurst(c) \/ CheckQuit(c)
  \/ c = Main /\ (PrintStats \/ PrintPort \/ EndPrint)

Ended == \A c \in Lcore : pc[c] = "done"

Next ==
  \/ \E c \in Lcore : MainLoop(c)
  \/ Signal
  \/ Ended /\ UNCHANGED vars

Spec == Init /\ [][Next]_vars /\ \A c \in Lcore : WF_vars(MainLoop(c))

-----------------------------------------------------------------------------
Counters == [Portid -> [rx: Nat, processed: Nat, tx: Nat]]

\* Types; and the limit of the timer is passed by one period and no more.
TypeOK ==
  /\ force_quit \in BOOLEAN
  /\ port_statistics \in Counters /\ last_port_statistics \in Counters
  /\ timer_period_elapsed \in 0 .. max_timer_period + 1
  /\ printing \subseteq Portid
  /\ pc \in [Lcore -> {"while", "print", "rx", "nfs", "tx", "check", "done"}]
  /\ \A c \in Lcore : rx_port_list[c] # <<>> => at[c] \in DOMAIN rx_port_list[c]
  /\ nb_rx \in [Lcore -> 0 .. MAX_PKT_BURST]
  /\ shown \in [Portid -> Nat]

Own(p) == \E i \in DOMAIN rx_port_list[Main] : rx_port_list[Main][i] = p

\* No packet is in two throughputs, and the unsigned difference does not
\* wrap; between two printings those of the ports that the main lcore polls
\* itself have all been in one.  What another lcore counts between the
\* reading and the copying is in none.
ReportedOnce ==
  \A p \in Portid :
    /\ last_port_statistics[p].processed =< port_statistics[p].processed
    /\ shown[p] =< (IF pc[Main] = "print" /\ p \notin printing
                    THEN port_statistics ELSE last_port_statistics)[p].processed
    /\ Own(p) /\ pc[Main] # "print" => shown[p] = last_port_statistics[p].processed

\* "Maximum timer period elapsed before shutting down": all lcores return
\* when the timer is past its limit, or the last port of one of them is past
\* max_packets, whatever the others do.
QuitsAtLimit ==
  (\/ timer_period_elapsed > max_timer_period
   \/ \E c \in Lcore : /\ rx_port_list[c] # <<>>
                       /\ port_statistics[rx_port_list[c][Len(rx_port_list[c])]].tx > max_packets)
    ~> Ended
=============================================================================
