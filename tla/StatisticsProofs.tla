-------------------------- MODULE StatisticsProofs --------------------------
(***************************************************************************)
(* Statistics, for any lcores, ports, bursts and limits: types with the    *)
(* bound of the timer, and what the printed numbers report.                *)
(***************************************************************************)
EXTENDS Statistics, TLAPS

\* An lcore with no port has returned.
Idle == \A c \in Lcore : rx_port_list[c] = <<>> => pc[c] = "done"

\* The main lcore prints only while the timer is within its limit, and when it
\* is past it and the main lcore has seen that, the lcores are told to quit.
TimerInv ==
  /\ pc[Main] = "print" => timer_period_elapsed =< max_timer_period
  /\ pc[Main] = "while" /\ timer_period_elapsed > max_timer_period => force_quit

\* While it prints, nobody counts on the main lcore's own ports: of those that
\* have been read everything is reported.
OwnRead ==
  pc[Main] = "print" =>
    \A p \in Portid : Own(p) =>
      shown[p] = (IF p \in printing THEN last_port_statistics ELSE port_statistics)[p].processed

IInv == TypeOK /\ ReportedOnce /\ Idle /\ TimerInv /\ OwnRead

\* The parts of ReportedOnce, which differ in what disturbs them.
NotAhead ==
  \A p \in Portid : last_port_statistics[p].processed =< port_statistics[p].processed
NotTwice ==
  \A p \in Portid :
    shown[p] =< (IF pc[Main] = "print" /\ p \notin printing
                 THEN port_statistics ELSE last_port_statistics)[p].processed
OwnReported ==
  pc[Main] # "print" =>
    \A p \in Portid : Own(p) => shown[p] = last_port_statistics[p].processed

\* What an lcore polls is a port.
LEMMA PolledPort ==
  ASSUME TypeOK, Idle, NEW c \in Lcore, pc[c] # "done"
  PROVE  /\ rx_port_list[c] # <<>>
         /\ at[c] \in DOMAIN rx_port_list[c] /\ at[c] \in Nat
         /\ portid(c) \in Portid
         /\ 1 \in DOMAIN rx_port_list[c]
<1>1. rx_port_list[c] # <<>> /\ at[c] \in DOMAIN rx_port_list[c]
  BY DEF Idle, TypeOK
<1>2. rx_port_list[c] \in Seq(Portid)
  BY StatisticsAssumption
<1> QED
  BY <1>1, <1>2 DEF portid

\* Another lcore's port is not the main lcore's own.
LEMMA OthersPort ==
  ASSUME TypeOK, Idle, NEW c \in Lcore, pc[c] # "done", c # Main
  PROVE  ~Own(portid(c))
BY PolledPort, StatisticsAssumption DEF Own, portid

\* A step that moves one lcore and, if that is the main one, leaves the printing
\* alone, and counts packets as rx or tx only.
LEMMA ReportKept ==
  ASSUME IInv, UNCHANGED <<last_port_statistics, shown, printing>>,
         \A p \in Portid : port_statistics'[p].processed = port_statistics[p].processed,
         pc'[Main] = "print" <=> pc[Main] = "print"
  PROVE  ReportedOnce' /\ OwnRead'
BY DEF IInv, ReportedOnce, OwnRead, Own

LEMMA InitInv == Init => IInv
<1> SUFFICES ASSUME Init PROVE IInv
  OBVIOUS
<1>1. TypeOK
  <2>1. \A c \in Lcore : rx_port_list[c] # <<>> => 1 \in DOMAIN rx_port_list[c]
    BY StatisticsAssumption
  <2>2. Zero \in [rx: Nat, processed: Nat, tx: Nat]
    BY DEF Zero
  <2>3. port_statistics \in Counters /\ last_port_statistics \in Counters /\ shown \in [Portid -> Nat]
    BY <2>2 DEF Init, Counters
  <2>4. timer_period_elapsed \in 0 .. max_timer_period + 1
    BY StatisticsAssumption DEF Init
  <2>5. nb_rx \in [Lcore -> 0 .. MAX_PKT_BURST]
    BY StatisticsAssumption DEF Init
  <2>6. pc \in [Lcore -> {"while", "print", "rx", "nfs", "tx", "check", "done"}]
    BY DEF Init
  <2> QED
    BY <2>1, <2>3, <2>4, <2>5, <2>6 DEF Init, TypeOK
<1>2. pc[Main] # "print"
  BY StatisticsAssumption DEF Init
<1>3. ReportedOnce
  BY <1>2 DEF Init, ReportedOnce, Zero
<1>4. Idle
  BY DEF Init, Idle
<1>5. TimerInv /\ OwnRead
  BY <1>2, StatisticsAssumption DEF Init, TimerInv, OwnRead
<1> QED
  BY <1>1, <1>3, <1>4, <1>5 DEF IInv

-----------------------------------------------------------------------------
\* The steps, one by one.
LEMMA SignalStep == IInv /\ Signal => IInv'
BY DEF IInv, Signal, counters, timer, TypeOK, ReportedOnce, Idle, TimerInv, OwnRead, Own

LEMMA QuitStep == ASSUME NEW c \in Lcore, IInv, Quit(c) PROVE IInv'
<1>1. TypeOK'
  BY DEF IInv, Quit, Goto, counters, timer, TypeOK
<1>2. pc'[Main] = "print" <=> pc[Main] = "print"
  BY StatisticsAssumption DEF IInv, Quit, Goto, TypeOK
<1>3. ReportedOnce' /\ OwnRead'
  BY <1>2, ReportKept DEF Quit, counters, timer
<1>4. Idle' /\ TimerInv'
  BY StatisticsAssumption DEF IInv, Quit, Goto, timer, TypeOK, Idle, TimerInv
<1> QED
  BY <1>1, <1>3, <1>4 DEF IInv

LEMMA PollStep == ASSUME NEW c \in Lcore, IInv, Poll(c) PROVE IInv'
<1>0. rx_port_list[c] # <<>> /\ 1 \in DOMAIN rx_port_list[c]
  BY PolledPort DEF IInv, Poll
<1>1. TypeOK'
  BY <1>0 DEF IInv, Poll, Goto, counters, timer, TypeOK
<1>2. pc'[Main] = "print" <=> pc[Main] = "print"
  BY StatisticsAssumption DEF IInv, Poll, Goto, TypeOK
<1>3. ReportedOnce' /\ OwnRead'
  BY <1>2, ReportKept DEF Poll, counters, timer
<1>4. Idle' /\ TimerInv'
  BY <1>0, StatisticsAssumption DEF IInv, Poll, Goto, timer, TypeOK, Idle, TimerInv
<1> QED
  BY <1>1, <1>3, <1>4 DEF IInv

\* Printing begins: nothing has been read, and all that was reported of the
\* main lcore's own ports was copied.
LEMMA PrintStatsStep == IInv /\ PrintStats => IInv'
<1> SUFFICES ASSUME IInv, PrintStats PROVE IInv'
  OBVIOUS
<1>0. pc' = [pc EXCEPT ![Main] = "print"] /\ pc[Main] = "while" /\ Main \in Lcore
  BY StatisticsAssumption DEF PrintStats, Goto
<1>1. TypeOK'
  BY <1>0 DEF IInv, PrintStats, counters, TypeOK
<1>2. pc'[Main] = "print" /\ printing' = Portid
  BY <1>0 DEF IInv, PrintStats, TypeOK
<1>3. ReportedOnce'
  BY <1>0, <1>2 DEF IInv, PrintStats, counters, ReportedOnce, Own
<1>4. OwnRead'
  BY <1>0, <1>2 DEF IInv, PrintStats, counters, ReportedOnce, OwnRead, Own
<1>5. Idle'
  BY <1>0 DEF IInv, TypeOK, Idle
<1>6. TimerInv'
  BY <1>0, <1>2, StatisticsAssumption DEF IInv, PrintStats, TypeOK, TimerInv
<1> QED
  BY <1>1, <1>3, <1>4, <1>5, <1>6 DEF IInv

\* A port is read: what was counted since the last copy is reported.
LEMMA PrintPortStep == IInv /\ PrintPort => IInv'
<1> SUFFICES ASSUME IInv, PrintPort PROVE IInv'
  OBVIOUS
<1>1. PICK p \in printing : /\ shown' = [shown EXCEPT ![p] = @ + processed_delta(p)]
                            /\ printing' = printing \ {p}
  BY DEF PrintPort
<1>2. pc[Main] = "print" /\ pc'[Main] = "print"
  BY DEF PrintPort
<1>3. UNCHANGED <<force_quit, port_statistics, last_port_statistics, timer_period_elapsed, pc, at, nb_rx>>
  BY DEF PrintPort
<1>4. /\ p \in Portid /\ shown \in [Portid -> Nat]
      /\ \A q \in Portid : /\ port_statistics[q].processed \in Nat
                           /\ last_port_statistics[q].processed \in Nat
                           /\ last_port_statistics[q].processed =< port_statistics[q].processed
  BY <1>1 DEF IInv, TypeOK, Counters, ReportedOnce
<1>5. processed_delta(p) \in Nat
      /\ processed_delta(p) + last_port_statistics[p].processed = port_statistics[p].processed
  BY <1>4 DEF processed_delta
<1>6. shown' \in [Portid -> Nat] /\ shown'[p] = shown[p] + processed_delta(p)
      /\ \A q \in Portid \ {p} : shown'[q] = shown[q]
  BY <1>1, <1>4, <1>5
<1>7. TypeOK'
  BY <1>1, <1>3, <1>6 DEF IInv, TypeOK
<1>8. shown[p] =< last_port_statistics[p].processed
  BY <1>1, <1>4 DEF IInv, ReportedOnce
<1>9. ReportedOnce'
  <2>1. NotAhead'
    BY <1>3, <1>4 DEF NotAhead
  <2>2. shown'[p] =< port_statistics[p].processed
    BY <1>4, <1>5, <1>6, <1>8
  <2>3. NotTwice'
    BY <1>1, <1>2, <1>3, <1>6, <2>2 DEF IInv, ReportedOnce, NotTwice
  <2>4. OwnReported'
    BY <1>2 DEF OwnReported
  <2> QED
    BY <2>1, <2>3, <2>4 DEF ReportedOnce, NotAhead, NotTwice, OwnReported, Own
<1>10. OwnRead'
  <2>1. Own(p) => shown[p] = last_port_statistics[p].processed
    BY <1>1, <1>2, <1>4 DEF IInv, OwnRead
  <2>2. Own(p) => shown'[p] = port_statistics[p].processed
    BY <1>4, <1>5, <1>6, <2>1
  <2> QED
    BY <1>1, <1>2, <1>3, <1>6, <2>2 DEF IInv, OwnRead, Own
<1>11. Idle' /\ TimerInv'
  BY <1>3 DEF IInv, Idle, TimerInv
<1> QED
  BY <1>7, <1>9, <1>10, <1>11 DEF IInv

\* The counters are copied: what was reported of a port is in the copy.
LEMMA EndPrintStep == IInv /\ EndPrint => IInv'
<1> SUFFICES ASSUME IInv, EndPrint PROVE IInv'
  OBVIOUS
<1>0. pc[Main] = "print" /\ printing = {} /\ Main \in Lcore
      /\ pc' = [pc EXCEPT ![Main] = "rx"] /\ at' = [at EXCEPT ![Main] = 1]
  BY StatisticsAssumption DEF EndPrint, Goto
<1>1. pc'[Main] = "rx" /\ last_port_statistics' = port_statistics
      /\ UNCHANGED <<force_quit, port_statistics, printing, nb_rx, shown>>
  BY <1>0 DEF IInv, TypeOK, EndPrint, Copied
<1>2. timer_period_elapsed' \in 0 .. max_timer_period + 1
  BY <1>0, StatisticsAssumption DEF IInv, TypeOK, TimerInv, EndPrint
<1>3. 1 \in DOMAIN rx_port_list[Main]
  BY <1>0, PolledPort DEF IInv
<1>4. TypeOK'
  BY <1>0, <1>1, <1>2, <1>3 DEF IInv, TypeOK
<1>5. ReportedOnce'
  BY <1>0, <1>1 DEF IInv, TypeOK, Counters, ReportedOnce, OwnRead, Own
<1>6. OwnRead' /\ TimerInv'
  BY <1>1 DEF OwnRead, TimerInv
<1>7. Idle'
  BY <1>0 DEF IInv, TypeOK, Idle
<1> QED
  BY <1>4, <1>5, <1>6, <1>7 DEF IInv

LEMMA RxBurstStep == ASSUME NEW c \in Lcore, IInv, RxBurst(c) PROVE IInv'
<1>0. portid(c) \in Portid /\ rx_port_list[c] # <<>>
  BY PolledPort DEF IInv, RxBurst
<1>1. PICK n \in 0 .. MAX_PKT_BURST :
        /\ nb_rx' = [nb_rx EXCEPT ![c] = n]
        /\ port_statistics' = [port_statistics EXCEPT ![portid(c)].rx = @ + n]
  BY DEF RxBurst
<1>2. /\ port_statistics' \in Counters
      /\ \A p \in Portid : port_statistics'[p].processed = port_statistics[p].processed
  <2>1. port_statistics \in Counters /\ n \in Nat
    BY StatisticsAssumption DEF IInv, TypeOK
  <2> QED
    <3>1. PICK q \in Portid : q = portid(c)
      BY <1>0
    <3> QED
      BY <1>1, <2>1, <3>1 DEF Counters
<1>3. TypeOK'
  BY <1>1, <1>2 DEF IInv, RxBurst, Goto, timer, TypeOK
<1>4. pc'[Main] = "print" <=> pc[Main] = "print"
  BY StatisticsAssumption DEF IInv, RxBurst, Goto, TypeOK
<1>5. ReportedOnce' /\ OwnRead'
  BY <1>2, <1>4, ReportKept DEF RxBurst, timer
<1>6. Idle' /\ TimerInv'
  BY <1>0, <1>4, StatisticsAssumption DEF IInv, RxBurst, Goto, timer, TypeOK, Idle, TimerInv
<1> QED
  BY <1>3, <1>5, <1>6 DEF IInv

\* The one step that counts what is reported: while the main lcore prints, the
\* port is not its own.
LEMMA RunNfsStep == ASSUME NEW c \in Lcore, IInv, RunNfs(c) PROVE IInv'
<1>0. portid(c) \in Portid /\ rx_port_list[c] # <<>> /\ pc[c] = "nfs"
  BY PolledPort DEF IInv, RunNfs
<1>1. port_statistics' = [port_statistics EXCEPT ![portid(c)].processed = @ + nb_rx[c]]
      /\ nb_rx[c] \in Nat
  BY StatisticsAssumption DEF IInv, TypeOK, RunNfs
<1>2. /\ port_statistics' \in Counters
      /\ \A p \in Portid :
           /\ port_statistics[p].processed =< port_statistics'[p].processed
           /\ p # portid(c) => port_statistics'[p] = port_statistics[p]
  <2>1. port_statistics \in Counters
    BY DEF IInv, TypeOK
  <2> QED
    <3>1. PICK q \in Portid : q = portid(c)
      BY <1>0
    <3> QED
      BY <1>1, <2>1, <3>1 DEF Counters
<1>3. TypeOK'
  BY <1>2 DEF IInv, RunNfs, Goto, timer, TypeOK
<1>4. pc'[Main] = "print" <=> pc[Main] = "print"
  BY StatisticsAssumption DEF IInv, RunNfs, Goto, TypeOK
<1>5. UNCHANGED <<force_quit, last_port_statistics, shown, timer_period_elapsed, printing>>
  BY DEF RunNfs, timer
<1>6. \A p \in Portid : /\ port_statistics[p].processed \in Nat
                       /\ port_statistics'[p].processed \in Nat
                       /\ last_port_statistics[p].processed \in Nat
                       /\ shown[p] \in Nat
  BY <1>2 DEF IInv, TypeOK, Counters
<1>7. NotAhead' /\ NotTwice' /\ OwnReported'
  BY <1>2, <1>4, <1>5, <1>6
     DEF IInv, ReportedOnce, NotAhead, NotTwice, OwnReported, Own
<1>8. ReportedOnce'
  BY <1>7 DEF ReportedOnce, NotAhead, NotTwice, OwnReported, Own
<1>9. pc[Main] = "print" => ~Own(portid(c))
  BY <1>0, OthersPort DEF IInv
<1>10. OwnRead'
  BY <1>2, <1>4, <1>5, <1>9 DEF IInv, OwnRead, Own
<1>11. Idle' /\ TimerInv'
  <2>1. pc' = [pc EXCEPT ![c] = "tx"]
    BY DEF RunNfs, Goto
  <2>2. Idle'
    BY <1>0, <2>1 DEF IInv, TypeOK, Idle
  <2>3. pc'[Main] = "while" => pc[Main] = "while"
    BY <2>1, StatisticsAssumption DEF IInv, TypeOK
  <2> QED
    BY <1>4, <1>5, <2>2, <2>3 DEF IInv, TimerInv
<1> QED
  BY <1>3, <1>8, <1>10, <1>11 DEF IInv

LEMMA TxBurstStep == ASSUME NEW c \in Lcore, IInv, TxBurst(c) PROVE IInv'
<1>0. portid(c) \in Portid /\ rx_port_list[c] # <<>> /\ rx_port_list[c] \in Seq(Portid)
      /\ at[c] \in DOMAIN rx_port_list[c]
  BY PolledPort, StatisticsAssumption DEF IInv, TxBurst
<1>1. PICK nb_tx \in 0 .. nb_rx[c] :
        port_statistics' = [port_statistics EXCEPT ![portid(c)].tx = @ + nb_tx]
  BY DEF TxBurst
<1>2. /\ port_statistics' \in Counters
      /\ \A p \in Portid : port_statistics'[p].processed = port_statistics[p].processed
  <2>1. port_statistics \in Counters /\ nb_tx \in Nat
    BY StatisticsAssumption DEF IInv, TypeOK
  <2> QED
    <3>1. PICK q \in Portid : q = portid(c)
      BY <1>0
    <3> QED
      BY <1>1, <2>1, <3>1 DEF Counters
<1>3. \E label \in {"rx", "check"} : pc' = [pc EXCEPT ![c] = label]
  BY DEF TxBurst, Goto
<1>4. \A d \in Lcore : rx_port_list[d] # <<>> => at'[d] \in DOMAIN rx_port_list[d]
  <2>1. CASE at[c] < Len(rx_port_list[c])
    <3>1. at' = [at EXCEPT ![c] = at[c] + 1]
      BY <2>1 DEF TxBurst
    <3>2. at[c] + 1 \in DOMAIN rx_port_list[c]
      BY <1>0, <2>1
    <3> QED
      BY <3>1, <3>2 DEF IInv, TypeOK
  <2>2. CASE ~(at[c] < Len(rx_port_list[c]))
    BY <2>2 DEF IInv, TypeOK, TxBurst
  <2> QED
    BY <2>1, <2>2
<1>5. TypeOK'
  BY <1>2, <1>3, <1>4 DEF IInv, TxBurst, timer, TypeOK
<1>6. pc'[Main] = "print" <=> pc[Main] = "print"
  BY <1>3, StatisticsAssumption DEF IInv, TxBurst, TypeOK
<1>7. ReportedOnce' /\ OwnRead'
  BY <1>2, <1>6, ReportKept DEF TxBurst, timer
<1>8. Idle' /\ TimerInv'
  <2>1. Idle'
    BY <1>0, <1>3 DEF IInv, TypeOK, Idle
  <2>2. pc'[Main] = "while" => pc[Main] = "while"
    BY <1>3, StatisticsAssumption DEF IInv, TypeOK
  <2> QED
    BY <1>6, <2>1, <2>2 DEF IInv, TimerInv, TxBurst, timer
<1> QED
  BY <1>5, <1>7, <1>8 DEF IInv

\* When the main lcore is back at the head of its loop it has looked at the
\* timer.
LEMMA CheckQuitStep == ASSUME NEW c \in Lcore, IInv, CheckQuit(c) PROVE IInv'
<1>0. rx_port_list[c] # <<>>
  BY PolledPort DEF IInv, CheckQuit
<1>1. force_quit' \in BOOLEAN /\ (force_quit => force_quit')
  BY DEF IInv, TypeOK, CheckQuit
<1>2. UNCHANGED <<port_statistics, last_port_statistics, shown, printing, timer_period_elapsed, at, nb_rx>>
  BY DEF CheckQuit, counters, timer
<1>3. TypeOK'
  BY <1>1, <1>2 DEF IInv, CheckQuit, Goto, TypeOK
<1>4. pc'[Main] = "print" <=> pc[Main] = "print"
  BY StatisticsAssumption DEF IInv, CheckQuit, Goto, TypeOK
<1>5. ReportedOnce' /\ OwnRead'
  BY <1>2, <1>4, ReportKept
<1>6. Idle'
  BY <1>0 DEF IInv, CheckQuit, Goto, TypeOK, Idle
<1>7. TimerInv'
  <2>1. CASE c = Main
    <3>1. timer_period_elapsed > max_timer_period => force_quit'
      BY <2>1 DEF CheckQuit, Over
    <3> QED
      BY <1>2, <1>4, <3>1 DEF IInv, TimerInv
  <2>2. CASE c # Main
    <3>1. pc'[Main] = pc[Main]
      BY <2>2, StatisticsAssumption DEF IInv, TypeOK, CheckQuit, Goto
    <3> QED
      BY <1>1, <1>2, <3>1 DEF IInv, TimerInv
  <2> QED
    BY <2>1, <2>2
<1> QED
  BY <1>3, <1>5, <1>6, <1>7 DEF IInv

LEMMA InvStep == IInv /\ [Next]_vars => IInv'
<1> SUFFICES ASSUME IInv, [Next]_vars PROVE IInv'
  OBVIOUS
<1>1. ASSUME NEW c \in Lcore, MainLoop(c) PROVE IInv'
  BY <1>1, QuitStep, PollStep, RxBurstStep, RunNfsStep, TxBurstStep, CheckQuitStep,
     PrintStatsStep, PrintPortStep, EndPrintStep, Zenon DEF MainLoop
<1>2. CASE Signal
  BY <1>2, SignalStep
<1>3. CASE UNCHANGED vars
  BY <1>3 DEF vars, counters, timer, IInv, TypeOK, ReportedOnce, Idle, TimerInv, OwnRead, Own
<1> QED
  BY <1>1, <1>2, <1>3 DEF Next

LEMMA SpecInv == Spec => []IInv
<1> QED
  BY InitInv, InvStep, PTL DEF Spec

-----------------------------------------------------------------------------
\* The counters and the locals of the loops are well-typed, each index is in
\* its lcore's list, and the timer passes its limit by no more than one period.
THEOREM StatisticsTypeCorrect == Spec => []TypeOK
<1>1. IInv => TypeOK
  BY DEF IInv
<1> QED
  BY <1>1, SpecInv, PTL

\* print_stats reports no packet twice, and all packets of the ports that the
\* main lcore polls itself, whatever other lcores count between the reading of
\* the counters and the memcpy.
THEOREM StatisticsReportedOnce == Spec => []ReportedOnce
<1>1. IInv => ReportedOnce
  BY DEF IInv
<1> QED
  BY <1>1, SpecInv, PTL
=============================================================================
