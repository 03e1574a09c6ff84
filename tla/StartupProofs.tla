--------------------------- MODULE StartupProofs ---------------------------
(***************************************************************************)
(* Startup, for any number of ports and lcores: types, the pairing of the  *)
(* ports, their assignment to lcores, the buffers that are flushed, and    *)
(* what the link check prints.                                             *)
(***************************************************************************)
EXTENDS Startup, FiniteSetTheorems, TLAPS

\* A product of naturals is one.
LEMMA NatProduct == \A m, n \in Nat : m * n \in Nat
OBVIOUS

\* What was computed for the pool is a number of mbufs.
LEMMA NatSum == \A k, l, m, n \in Nat : k + l + m + n \in Nat
OBVIOUS

LEMMA NeededIsNat == RingsType /\ LcoresType => Needed \in Nat
<1> SUFFICES ASSUME RingsType, LcoresType PROVE Needed \in Nat
  OBVIOUS
<1>1. nb_lcores * MEMPOOL_CACHE_SIZE \in Nat
  BY NatProduct, StartupAssumption DEF LcoresType
<1>2. nb_rxd + nb_txd + MAX_PKT_BURST + nb_lcores * MEMPOOL_CACHE_SIZE \in Nat
  BY <1>1, NatSum, StartupAssumption, Zenon DEF RingsType
<1>3. nb_ports * (nb_rxd + nb_txd + MAX_PKT_BURST + nb_lcores * MEMPOOL_CACHE_SIZE) \in Nat
  BY <1>2, NatProduct, StartupAssumption, Zenon
<1> QED
  BY <1>3 DEF Needed

\* A part of the state that a step leaves alone keeps its type.
LEMMA TypesKept ==
  /\ ArgsType /\ UNCHANGED args => ArgsType'
  /\ PairingType /\ UNCHANGED pairing => PairingType'
  /\ LcoresType /\ UNCHANGED lcores => LcoresType'
  /\ RingsType /\ UNCHANGED <<nb_mbufs, rings>> => RingsType'
  /\ LinksType /\ UNCHANGED links => LinksType'
BY DEF ArgsType, PairingType, LcoresType, RingsType, LinksType, args, pairing, lcores,
       rings, links

LEMMA TypeInit == Init => TypeOK
<1> SUFFICES ASSUME Init PROVE TypeOK
  OBVIOUS
<1>1. ArgsType /\ PairingType
  BY StartupAssumption DEF Init, ArgsType, PairingType
<1>4. ControlType
  <2>1. pc = "args" /\ portid = 0 /\ force_quit = FALSE
    BY Zenon DEF Init
  <2>2. 0 \in 0 .. nb_ports
    BY StartupAssumption
  <2> QED
    BY <2>1, <2>2 DEF ControlType
<1>2. LcoresType
  BY StartupAssumption DEF Init, LcoresType, LcoreId, NULL
<1>3. RingsType /\ LinksType
  BY StartupAssumption DEF Init, RingsType, LinksType
<1> QED
  BY <1>1, <1>2, <1>3, <1>4 DEF TypeOK

LEMMA TypeStep == TypeOK /\ [Next]_vars => TypeOK'
<1> SUFFICES ASSUME TypeOK, [Next]_vars PROVE TypeOK'
  OBVIOUS
<1> USE TypesKept DEF TypeOK
<1>0. nb_ports \in Nat /\ portid \in 0 .. nb_ports
  BY StartupAssumption DEF ControlType
<1>1. CASE CheckArguments
  BY <1>0, <1>1 DEF CheckArguments, Proceed, ControlType
<1>2. ASSUME NEW label \in {"pair", "assign", "ports", "links"}, Skip(label)
      PROVE TypeOK'
  BY <1>0, <1>2 DEF Skip, ControlType
<1>a. portid \in Enabled => portid \in Port /\ portid + 1 \in 0 .. nb_ports
  BY <1>0 DEF Enabled, Port
<1>3. CASE FirstOfPair
  <2>1. PairingType'
    BY <1>0, <1>3 DEF FirstOfPair, PairingType
  <2> QED
    BY <1>3, <1>a, <2>1 DEF FirstOfPair, ControlType
<1>4. CASE SecondOfPair
  <2>1. portid \in Nat /\ last_port \in Nat
    BY <1>0 DEF PairingType
  <2>2. l2fwd_dst_ports' \in [Port -> Nat]
    BY <1>4, <2>1 DEF SecondOfPair, BothWays, PairingType
  <2>3. PairingType'
    BY <1>4, <2>2 DEF SecondOfPair, PairingType
  <2> QED
    BY <1>4, <1>a, <2>3 DEF SecondOfPair, ControlType
<1>5. CASE EndPairing
  <2>1. PairingType'
    BY <1>5 DEF EndPairing, WithItself, PairingType
  <2> QED
    BY <1>0, <1>5, <2>1 DEF EndPairing, ControlType, Proceed
<1>6. CASE NextLcore
  <2>1. LcoresType'
    BY <1>6, StartupAssumption DEF NextLcore, PastLast, Following, LcoreId, LcoresType
  <2> QED
    BY <1>6, <2>1 DEF NextLcore, ControlType
<1>7. CASE AssignPort
  <2>1. LcoresType'
    BY <1>7, <1>a DEF AssignPort, LcoresType
  <2> QED
    BY <1>7, <1>a, <2>1 DEF AssignPort, ControlType
<1>8. CASE CreatePool
  <2>1. RingsType'
    BY <1>8, NeededIsNat, StartupAssumption DEF CreatePool, Greater, RingsType, rings
  <2> QED
    BY <1>0, <1>8, <2>1 DEF CreatePool, Proceed, ControlType
<1>9. CASE InitPort
  <2>1. desc_lim[portid].min \in Nat /\ desc_lim[portid].max \in Nat
    BY <1>9, <1>a, StartupAssumption DEF InitPort
  <2>2. nb_rxd' \in Nat /\ nb_txd' \in Nat
    BY <1>9, <2>1 DEF InitPort, Adjust, Greater, Lesser, RingsType
  <2>3. RingsType'
    BY <1>9, <1>a, <2>2 DEF InitPort, RingsType
  <2> QED
    BY <1>9, <1>a, <2>3 DEF InitPort, ControlType
<1>10. CASE InitPortFails
  BY <1>10 DEF InitPortFails, ControlType
<1>11. CASE EndPorts
  BY <1>0, <1>11 DEF EndPorts, Proceed, ControlType
<1>12. CASE LinkQuit
  BY <1>0, <1>12 DEF LinkQuit, Proceed, ControlType
<1>13. CASE LinkLook
  <2>1. LinksType'
    BY <1>13, <1>a DEF LinkLook, LinksType
  <2> QED
    BY <1>13, <1>a, <2>1 DEF LinkLook, ControlType
<1>14. CASE LinkDown
  <2>1. LinksType'
    BY <1>14 DEF LinkDown, LinksType
  <2> QED
    BY <1>0, <1>14, <2>1 DEF LinkDown, ControlType
<1>15. CASE EndPrinting
  BY <1>0, <1>15 DEF EndPrinting, Proceed, ControlType
<1>16. CASE EndPass
  <2>1. LinksType'
    BY <1>16 DEF EndPass, LastLook, LinksType
  <2> QED
    BY <1>0, <1>16, <2>1 DEF EndPass, Proceed, ControlType
<1>17. CASE Signal
  BY <1>17 DEF Signal, ControlType
<1>18. CASE UNCHANGED vars
  BY <1>18 DEF vars, ControlType
<1> QED
  BY <1>1, <1>2, <1>3, <1>4, <1>5, <1>6, <1>7, <1>8, <1>9, <1>10, <1>11, <1>12,
     <1>13, <1>14, <1>15, <1>16, <1>17, <1>18 DEF Next, Main

\* Type correctness.
THEOREM StartupTypeCorrect == Spec => []TypeOK
BY TypeInit, TypeStep, PTL DEF Spec

-----------------------------------------------------------------------------
\* The ports below b have been assigned: each to one enabled lcore, once.
Upto(b) ==
  /\ \A p \in Enabled : p < b =>
       \E c \in enabled_lcores : \E j \in DOMAIN rx_port_list[c] : rx_port_list[c][j] = p
  /\ \A c \in LcoreId : \A j \in DOMAIN rx_port_list[c] :
       rx_port_list[c][j] \in Enabled /\ rx_port_list[c][j] < b
  /\ \A c, d \in LcoreId :
       \A j \in DOMAIN rx_port_list[c], k \in DOMAIN rx_port_list[d] :
         rx_port_list[c][j] = rx_port_list[d][k] => c = d /\ j = k
  /\ \A c \in LcoreId : Len(rx_port_list[c]) =< rx_queue_per_lcore

AssignInv ==
  /\ pc \in {"args", "pair"} => Upto(0)
  /\ pc = "assign" => Upto(portid)
  /\ IsAssigned => Upto(nb_ports)

\* Upto speaks of the arguments and the lists only.
LEMMA UptoKept ==
  ASSUME NEW b, Upto(b), UNCHANGED <<args, rx_port_list>>
  PROVE  Upto(b)' /\ (portid' = b => Upto(portid)')
<1> USE DEF args, Enabled
<1>1. Upto(b)'
  BY DEF Upto
<1>2. ASSUME portid' = b PROVE Upto(portid)'
  BY <1>2 DEF Upto
<1> QED
  BY <1>1, <1>2

\* A port that is not enabled needs no lcore.
LEMMA UptoSkips ==
  ASSUME TypeOK, Upto(portid), portid \notin portmask
  PROVE  Upto(portid + 1)
<1>1. \A p \in Enabled : p < portid + 1 => p < portid
  BY DEF TypeOK, ControlType, Enabled, Port
<1>2. \A p \in Enabled : p < portid => p < portid + 1
  BY DEF TypeOK, ControlType, Enabled, Port
<1> QED
  BY <1>1, <1>2 DEF Upto

\* The step that assigns a port.  The port is in no list yet, because what
\* the lists hold is below it.
LEMMA UptoAssigns ==
  ASSUME TypeOK, Upto(portid), AssignPort
  PROVE  Upto(portid)'
<1> DEFINE l == rx_lcore_id
           list == rx_port_list[l]
<1>1. /\ l \in enabled_lcores /\ l \in LcoreId /\ Len(list) # rx_queue_per_lcore
      /\ portid \in Enabled /\ portid \in Port
  BY DEF AssignPort, Unfit, TypeOK, LcoresType, Enabled
<1>2. rx_port_list \in [LcoreId -> Seq(Port)] /\ list \in Seq(Port)
  BY <1>1 DEF TypeOK, LcoresType
<1>3. /\ rx_port_list'[l] = Append(list, portid)
      /\ \A c \in LcoreId : c # l => rx_port_list'[c] = rx_port_list[c]
  BY <1>1, <1>2 DEF AssignPort
<1>4. UNCHANGED args /\ Enabled' = Enabled
  BY DEF AssignPort, args, Enabled
<1>5. /\ DOMAIN rx_port_list'[l] = 1 .. Len(list) + 1
      /\ DOMAIN list = 1 .. Len(list) /\ Len(list) \in Nat
      /\ \A j \in 1 .. Len(list) : rx_port_list'[l][j] = list[j]
      /\ rx_port_list'[l][Len(list) + 1] = portid
      /\ Len(rx_port_list'[l]) = Len(list) + 1
  BY <1>1, <1>2, <1>3
<1>6. \A c \in LcoreId : \A j \in DOMAIN rx_port_list'[c] :
        \/ /\ j \in DOMAIN rx_port_list[c] /\ rx_port_list'[c][j] = rx_port_list[c][j]
           /\ rx_port_list[c][j] < portid
        \/ c = l /\ j = Len(list) + 1 /\ rx_port_list'[c][j] = portid
  BY <1>3, <1>5 DEF Upto
<1>7. \A p \in Enabled : p \in Nat
  BY StartupAssumption DEF Enabled, Port
<1>8. \A p \in Enabled : p < portid + 1 =>
        \E c \in enabled_lcores : \E j \in DOMAIN rx_port_list'[c] : rx_port_list'[c][j] = p
  <2> SUFFICES ASSUME NEW p \in Enabled, p < portid + 1
               PROVE  \E c \in enabled_lcores :
                        \E j \in DOMAIN rx_port_list'[c] : rx_port_list'[c][j] = p
    OBVIOUS
  <2>1. CASE p = portid
    BY <2>1, <1>1, <1>5
  <2>2. CASE p # portid
    <3>1. p < portid
      BY <2>2, <1>1, <1>7
    <3>2. PICK c \in enabled_lcores : \E j \in DOMAIN rx_port_list[c] : rx_port_list[c][j] = p
      BY <3>1 DEF Upto
    <3>3. c \in LcoreId
      BY DEF TypeOK, ArgsType
    <3>4. CASE c = l
      BY <3>2, <3>4, <1>1, <1>5
    <3>5. CASE c # l
      BY <3>2, <3>3, <3>5, <1>3
    <3> QED
      BY <3>4, <3>5
  <2> QED
    BY <2>1, <2>2
<1>9. \A c \in LcoreId : \A j \in DOMAIN rx_port_list'[c] :
        rx_port_list'[c][j] \in Enabled /\ rx_port_list'[c][j] < portid + 1
  <2> SUFFICES ASSUME NEW c \in LcoreId, NEW j \in DOMAIN rx_port_list'[c]
               PROVE  rx_port_list'[c][j] \in Enabled /\ rx_port_list'[c][j] < portid + 1
    OBVIOUS
  <2>1. CASE j \in DOMAIN rx_port_list[c] /\ rx_port_list'[c][j] = rx_port_list[c][j]
    <3>1. rx_port_list[c][j] \in Enabled /\ rx_port_list[c][j] < portid
      BY <2>1 DEF Upto
    <3> QED
      BY <2>1, <3>1, <1>1, <1>7
  <2>2. CASE rx_port_list'[c][j] = portid
    BY <2>2, <1>1, <1>7
  <2> QED
    BY <2>1, <2>2, <1>6
<1>10. \A c, d \in LcoreId :
         \A j \in DOMAIN rx_port_list'[c], k \in DOMAIN rx_port_list'[d] :
           rx_port_list'[c][j] = rx_port_list'[d][k] => c = d /\ j = k
  <2> SUFFICES ASSUME NEW c \in LcoreId, NEW d \in LcoreId,
                      NEW j \in DOMAIN rx_port_list'[c], NEW k \in DOMAIN rx_port_list'[d],
                      rx_port_list'[c][j] = rx_port_list'[d][k]
               PROVE  c = d /\ j = k
    OBVIOUS
  <2>1. portid \in Nat
    BY <1>1, <1>7
  <2>2. \A e \in LcoreId : \A m \in DOMAIN rx_port_list[e] : rx_port_list[e][m] # portid
    BY <2>1, <1>7 DEF Upto
  <2> QED
    BY <2>2, <1>6 DEF Upto
<1>11. \A c \in LcoreId : Len(rx_port_list'[c]) =< rx_queue_per_lcore
  <2>1. Len(list) + 1 =< rx_queue_per_lcore
    <3>1. Len(list) =< rx_queue_per_lcore /\ rx_queue_per_lcore \in Nat
      BY <1>1, StartupAssumption DEF Upto, TypeOK, ArgsType
    <3> QED
      BY <3>1, <1>1, <1>5
  <2> QED
    BY <2>1, <1>3, <1>5 DEF Upto
<1>12. portid' = portid + 1 /\ UNCHANGED <<enabled_lcores, rx_queue_per_lcore>>
  BY <1>4 DEF AssignPort, args
<1> QED
  BY <1>4, <1>8, <1>9, <1>10, <1>11, <1>12 DEF Upto

LEMMA AssignInit == Init => AssignInv
<1> SUFFICES ASSUME Init PROVE AssignInv
  OBVIOUS
<1>1. \A c \in LcoreId : rx_port_list[c] = <<>>
  BY DEF Init
<1>2. \A p \in Enabled : p \in Nat
  BY StartupAssumption DEF Enabled, Port
<1>3. rx_queue_per_lcore \in Nat
  BY StartupAssumption DEF Init
<1>4. Upto(0)
  BY <1>1, <1>2, <1>3 DEF Upto
<1>5. pc = "args"
  BY DEF Init
<1> QED
  BY <1>4, <1>5 DEF AssignInv, IsAssigned

\* The lists change in one action only; of the others, those that begin a
\* loop or move it on take the invariant to its next bound.
LEMMA AssignStep == TypeOK /\ AssignInv /\ [Next]_vars => AssignInv'
<1> SUFFICES ASSUME TypeOK, AssignInv, [Next]_vars PROVE AssignInv'
  OBVIOUS
<1> USE DEF AssignInv, IsAssigned
<1>1. CASE AssignPort
  BY <1>1, UptoAssigns DEF AssignPort
<1>2. CASE Skip("assign")
  <2>1. PICK b : b = portid + 1
    OBVIOUS
  <2>2. Upto(b)
    BY <1>2, <2>1, UptoSkips DEF Skip
  <2> QED
    BY <1>2, <2>1, <2>2, UptoKept DEF Skip, lcores
<1>3. CASE EndPairing
  <2>1. Upto(0)
    BY <1>3 DEF EndPairing
  <2> QED
    BY <1>3, <2>1, UptoKept DEF EndPairing, Proceed, lcores
<1>4. CASE CreatePool
  <2>1. Upto(nb_ports)
    BY <1>4 DEF CreatePool
  <2> QED
    BY <1>4, <2>1, UptoKept DEF CreatePool, Proceed, lcores
<1>5. CASE NextLcore
  <2>1. PICK b : b = portid
    OBVIOUS
  <2>2. Upto(b)
    BY <1>5, <2>1 DEF NextLcore
  <2> QED
    BY <1>5, <2>1, <2>2, UptoKept DEF NextLcore
<1>6. CASE /\ UNCHANGED <<args, rx_port_list>> /\ pc \in {"args", "pair"}
           /\ pc' \in {"args", "pair", "exit"}
  <2>1. Upto(0)'
    BY <1>6, UptoKept
  <2> QED
    BY <1>6, <2>1
<1>7. CASE UNCHANGED <<args, rx_port_list>> /\ IsAssigned /\ (IsAssigned' \/ pc' = "exit")
  <2>1. Upto(nb_ports)'
    BY <1>7, UptoKept
  <2> QED
    BY <1>7, <2>1
<1>8. CASE UNCHANGED <<args, rx_port_list, pc, portid>>
  <2>1. PICK b : b = portid
    OBVIOUS
  <2>2. pc = "assign" => Upto(portid)'
    <3>1. ASSUME pc = "assign" PROVE Upto(b)
      BY <2>1, <3>1
    <3> QED
      BY <1>8, <2>1, <3>1, UptoKept
  <2>3. IsAssigned => Upto(nb_ports)'
    BY <1>8, UptoKept
  <2>4. pc \in {"args", "pair"} => Upto(0)'
    BY <1>8, UptoKept
  <2> QED
    BY <1>8, <2>2, <2>3, <2>4
<1>9. CheckArguments \/ Skip("pair") \/ FirstOfPair \/ SecondOfPair
         => /\ UNCHANGED <<args, rx_port_list>> /\ pc \in {"args", "pair"}
            /\ pc' \in {"args", "pair", "exit"}
  BY DEF CheckArguments, Skip, FirstOfPair, SecondOfPair, Proceed, lcores
<1>10. Skip("ports") \/ InitPort \/ InitPortFails \/ EndPorts \/ LinkQuit \/ Skip("links")
         => /\ UNCHANGED <<args, rx_port_list>> /\ IsAssigned
            /\ (IsAssigned' \/ pc' = "exit")
  BY DEF Skip, InitPort, InitPortFails, EndPorts, LinkQuit, Proceed, lcores
<1>11. LinkLook \/ LinkDown \/ EndPrinting \/ EndPass
         => UNCHANGED <<args, rx_port_list>> /\ IsAssigned /\ IsAssigned'
  BY DEF LinkLook, LinkDown, EndPrinting, EndPass, Proceed, lcores
<1>12. Signal \/ UNCHANGED vars => UNCHANGED <<args, rx_port_list, pc, portid>>
  BY DEF Signal, vars, lcores
<1> QED
  BY <1>1, <1>2, <1>3, <1>4, <1>5, <1>6, <1>7, <1>8, <1>9, <1>10, <1>11, <1>12
     DEF Next, Main

\* Every enabled port is polled by one enabled lcore, once, within its limit,
\* for any number of ports and lcores.
THEOREM StartupPolledOnce == Spec => []PolledOnce
<1>1. TypeOK /\ AssignInv => PolledOnce
  <2> SUFFICES ASSUME TypeOK, AssignInv, IsAssigned PROVE PolledOnce
    BY DEF PolledOnce
  <2>1. Upto(nb_ports)
    BY DEF AssignInv
  <2>2. \A p \in Enabled : p < nb_ports
    BY StartupAssumption DEF Enabled, Port
  <2> QED
    BY <2>1, <2>2 DEF Upto, PolledOnce
<1> QED
  BY <1>1, AssignInit, AssignStep, StartupTypeCorrect, PTL DEF Spec

-----------------------------------------------------------------------------
\* A first port waits for its second one.
Pending == nb_ports_in_mask % 2 = 1
Waiting(p) == Pending /\ p = last_port

\* Port p has a pair among the ports visited so far.
HasPair(p) ==
  LET q == l2fwd_dst_ports[p]
  IN  q \in Enabled /\ q < portid /\ q # p /\ ~Waiting(q) /\ l2fwd_dst_ports[q] = p

PairingInv ==
  /\ pc = "args" => nb_ports_in_mask = 0
  /\ pc = "pair" =>
       /\ Pending => last_port \in Enabled /\ last_port < portid
       /\ \A p \in Enabled : p < portid /\ ~Waiting(p) => HasPair(p)
  /\ Paired

LEMMA Parity ==
  \A n \in Nat : /\ n % 2 \in {0, 1}
                 /\ n % 2 = 0 => (n + 1) % 2 = 1
                 /\ n % 2 = 1 => (n + 1) % 2 = 0
OBVIOUS

LEMMA PairingStep == TypeOK /\ PairingInv /\ [Next]_vars => PairingInv'
<1> SUFFICES ASSUME TypeOK, PairingInv, [Next]_vars PROVE PairingInv'
  OBVIOUS
<1> USE DEF PairingInv, IsPaired
<1>a. \A p \in Enabled : p \in Port /\ p \in Nat /\ p < nb_ports
  BY StartupAssumption DEF Enabled, Port
<1>b. portid \in Nat /\ nb_ports_in_mask \in Nat /\ l2fwd_dst_ports \in [Port -> Nat]
  BY DEF TypeOK, ControlType, PairingType
<1>1. CASE CheckArguments
  BY <1>1, <1>a DEF CheckArguments, Proceed, pairing, Pending, Waiting, HasPair, Paired,
     args, Enabled
<1>2. CASE Skip("pair")
  <2>1. \A p \in Enabled : p < portid + 1 <=> p < portid
    BY <1>2, <1>a, <1>b DEF Skip, Enabled
  <2>2. /\ UNCHANGED <<pc, args, pairing>> /\ Enabled' = Enabled /\ pc = "pair"
        /\ portid' = portid + 1
    BY <1>2 DEF Skip, args, Enabled
  <2>3. Pending' = Pending /\ UNCHANGED <<l2fwd_dst_ports, last_port>>
    BY <2>2 DEF Pending, pairing
  <2>4. \A p \in Enabled : HasPair(p) => HasPair(p)'
    BY <2>1, <2>2, <2>3 DEF HasPair, Waiting
  <2> QED
    BY <2>1, <2>2, <2>3, <2>4 DEF Waiting, Paired
<1>3. CASE FirstOfPair
  <2>1. /\ portid \in Enabled /\ ~Pending /\ Pending' /\ last_port' = portid /\ pc = "pair"
        /\ portid' = portid + 1 /\ UNCHANGED <<pc, l2fwd_dst_ports>> /\ Enabled' = Enabled
    BY <1>3, <1>b, Parity DEF FirstOfPair, Pending, args, Enabled
  <2>2. \A p \in Enabled : p < portid + 1 /\ p # portid => p < portid
    BY <1>a, <1>b
  <2>3. \A p \in Enabled : p < portid => HasPair(p)
    BY <2>1 DEF Waiting
  <2>4. \A p \in Enabled : HasPair(p) => HasPair(p)'
    BY <2>1, <1>a, <1>b DEF HasPair, Waiting
  <2>5. \A p \in Enabled : p < portid + 1 /\ ~Waiting(p)' => HasPair(p)'
    BY <2>1, <2>2, <2>3, <2>4 DEF Waiting
  <2>6. last_port' \in Enabled' /\ last_port' < portid'
    BY <2>1, <1>a, <1>b
  <2>7. ~IsPaired'
    BY <2>1
  <2> QED
    BY <2>1, <2>5, <2>6, <2>7 DEF Paired
<1>4. CASE SecondOfPair
  <2>1. /\ portid \in Enabled /\ Pending /\ ~Pending' /\ pc = "pair" /\ last_port' = last_port
        /\ portid' = portid + 1 /\ pc' = pc /\ Enabled' = Enabled
    BY <1>4, <1>b, Parity DEF SecondOfPair, Pending, args, Enabled
  <2>2. last_port \in Enabled /\ last_port < portid
    BY <2>1
  <2>3. /\ l2fwd_dst_ports'[portid] = last_port /\ l2fwd_dst_ports'[last_port] = portid
        /\ \A p \in Enabled : p # portid /\ p # last_port =>
             l2fwd_dst_ports'[p] = l2fwd_dst_ports[p]
    BY <1>4, <1>a, <1>b, <2>1, <2>2 DEF SecondOfPair, BothWays
  <2>4. \A p \in Enabled : p = portid \/ p = last_port => HasPair(p)'
    BY <1>a, <1>b, <2>1, <2>2, <2>3 DEF HasPair, Waiting
  <2>5. \A p \in Enabled : p < portid + 1 /\ p # portid => p < portid
    BY <1>a, <1>b
  <2>6. \A p \in Enabled : p < portid /\ p # last_port => HasPair(p)'
    BY <1>a, <1>b, <2>1, <2>3 DEF HasPair, Waiting
  <2>7. \A p \in Enabled : p < portid + 1 => HasPair(p)'
    BY <2>1, <2>4, <2>5, <2>6
  <2> QED
    BY <2>1, <2>7 DEF Paired
<1>5. CASE EndPairing
  <2>1. /\ pc = "pair" /\ pc' = "assign" /\ portid = nb_ports /\ Enabled' = Enabled
        /\ l2fwd_dst_ports' = WithItself
    BY <1>5 DEF EndPairing, Proceed, args, Enabled
  <2>2. \A p \in Enabled : ~Waiting(p) => HasPair(p)
    BY <2>1, <1>a
  <2>3. CASE Pending
    <3>1. last_port \in Enabled
      BY <2>1, <2>3
    <3>2. /\ l2fwd_dst_ports'[last_port] = last_port
          /\ \A p \in Enabled : p # last_port => l2fwd_dst_ports'[p] = l2fwd_dst_ports[p]
      BY <2>1, <2>3, <3>1, <1>a, <1>b DEF WithItself, Pending
    <3> QED
      BY <2>1, <2>2, <2>3, <3>1, <3>2 DEF Waiting, HasPair, Paired
  <2>4. CASE ~Pending
    <3>1. l2fwd_dst_ports' = l2fwd_dst_ports
      BY <2>1, <2>4, <1>b, Parity DEF WithItself, Pending
    <3> QED
      BY <2>1, <2>2, <2>4, <3>1 DEF Waiting, HasPair, Paired
  <2> QED
    BY <2>3, <2>4
<1>6. CASE UNCHANGED <<pc, portid, args, pairing>>
  BY <1>6 DEF args, pairing, Pending, Waiting, HasPair, Paired, Enabled
<1>7. CASE UNCHANGED <<args, pairing>> /\ IsPaired /\ pc' \notin {"args", "pair"}
  BY <1>7 DEF args, pairing, Paired, Enabled
<1>8. Skip("assign") \/ NextLcore \/ AssignPort \/ CreatePool \/ Skip("ports") \/ InitPort
        \/ InitPortFails \/ EndPorts \/ LinkQuit \/ Skip("links")
        => UNCHANGED <<args, pairing>> /\ IsPaired /\ pc' \notin {"args", "pair"}
  BY DEF Skip, NextLcore, AssignPort, CreatePool, InitPort, InitPortFails, EndPorts,
     LinkQuit, Proceed
<1>9. LinkLook \/ LinkDown \/ EndPrinting \/ EndPass
        => UNCHANGED <<args, pairing>> /\ IsPaired /\ pc' \notin {"args", "pair"}
  BY DEF LinkLook, LinkDown, EndPrinting, EndPass, Proceed
<1>10. Signal \/ UNCHANGED vars => UNCHANGED <<pc, portid, args, pairing>>
  BY DEF Signal, vars
<1> QED
  BY <1>1, <1>2, <1>3, <1>4, <1>5, <1>6, <1>7, <1>8, <1>9, <1>10 DEF Next, Main

\* The ports are paired off, for any number of ports and any mask.
THEOREM StartupPaired == Spec => []Paired
<1>1. Init => PairingInv
  BY DEF Init, PairingInv, Paired, IsPaired
<1>2. PairingInv => Paired
  BY DEF PairingInv
<1> QED
  BY <1>1, <1>2, PairingStep, StartupTypeCorrect, PTL DEF Spec

-----------------------------------------------------------------------------
\* The ports initialised so far have a buffer.
BuffersInv ==
  /\ pc = "ports" => \A p \in Enabled : p < portid => p \in tx_buffer
  /\ pc \in {"links", "launch"} => Enabled \subseteq tx_buffer

LEMMA BuffersStep == TypeOK /\ BuffersInv /\ [Next]_vars => BuffersInv'
<1> SUFFICES ASSUME TypeOK, BuffersInv, [Next]_vars PROVE BuffersInv'
  OBVIOUS
<1> USE DEF BuffersInv
<1>a. portid \in Nat /\ \A p \in Enabled : p \in Nat /\ p < nb_ports
  BY StartupAssumption DEF TypeOK, ControlType, Enabled, Port
<1>b. UNCHANGED args => Enabled' = Enabled
  BY DEF args, Enabled
<1>1. CASE CreatePool
  BY <1>1, <1>a, <1>b DEF CreatePool, Proceed
<1>2. CASE Skip("ports")
  <2>1. \A p \in Enabled : p < portid + 1 <=> p < portid
    BY <1>2, <1>a DEF Skip, Enabled
  <2> QED
    BY <1>2, <1>b, <2>1 DEF Skip, rings
<1>3. CASE InitPort
  <2>1. \A p \in Enabled : p < portid + 1 /\ p # portid => p < portid
    BY <1>a
  <2> QED
    BY <1>3, <1>b, <2>1 DEF InitPort
<1>4. CASE EndPorts
  BY <1>4, <1>a, <1>b DEF EndPorts, Proceed, rings
<1>5. CASE UNCHANGED <<args, tx_buffer>> /\ pc' # "ports"
             /\ (pc' \in {"links", "launch"} => pc \in {"links", "launch"})
  BY <1>5, <1>b
<1>6. CASE UNCHANGED <<args, pc, portid, tx_buffer>>
  BY <1>6, <1>b
<1>7. CheckArguments \/ Skip("pair") \/ FirstOfPair \/ SecondOfPair \/ EndPairing
        \/ Skip("assign") \/ NextLcore \/ AssignPort \/ InitPortFails
        => UNCHANGED <<args, tx_buffer>> /\ pc' # "ports" /\ pc' \notin {"links", "launch"}
  BY DEF CheckArguments, Skip, FirstOfPair, SecondOfPair, EndPairing, NextLcore, AssignPort,
     InitPortFails, Proceed, rings
<1>8. LinkQuit \/ Skip("links") \/ LinkLook \/ LinkDown
        \/ EndPrinting \/ EndPass
        => UNCHANGED <<args, tx_buffer>> /\ pc' # "ports" /\ pc = "links"
  BY DEF LinkQuit, Skip, LinkLook, LinkDown, EndPrinting, EndPass,
     Proceed, rings
<1>9. Signal \/ UNCHANGED vars => UNCHANGED <<args, pc, portid, tx_buffer>>
  BY DEF Signal, vars, rings
<1> QED
  BY <1>1, <1>2, <1>3, <1>4, <1>5, <1>6, <1>7, <1>8, <1>9 DEF Next, Main

\* The buffers the loops flush are there: what an lcore polls is enabled, so
\* is what it is paired with, and enabled ports have buffers.
THEOREM StartupFlushReady == Spec => []FlushReady
<1>1. Init => BuffersInv /\ PairingInv
  BY DEF Init, BuffersInv, PairingInv, Paired, IsPaired
<1>2. AssignInv /\ PairingInv /\ BuffersInv => FlushReady
  BY DEF AssignInv, PairingInv, BuffersInv, IsAssigned, IsPaired, Upto, Paired, FlushReady
<1> QED
  BY <1>1, <1>2, AssignInit, AssignStep, PairingStep, BuffersStep, StartupTypeCorrect, PTL
     DEF Spec

-----------------------------------------------------------------------------
\* How far the link check is: a wait for a pass at most, and a pass left to
\* print in.
LinksInv ==
  /\ pc \in {"args", "pair", "assign", "ports"} =>
       count = 0 /\ waits = 0 /\ ~print_flag /\ printed = {}
  /\ pc = "links" =>
       /\ waits =< count /\ count =< MAX_CHECK_TIME
       /\ ~print_flag => count < MAX_CHECK_TIME /\ printed = {}
       /\ print_flag => \A p \in Enabled : p < portid => p \in printed
       /\ printed \subseteq Enabled
  /\ LinksPrinted

LEMMA LinksStep == TypeOK /\ LinksInv /\ [Next]_vars => LinksInv'
<1> SUFFICES ASSUME TypeOK, LinksInv, [Next]_vars PROVE LinksInv'
  OBVIOUS
<1> USE DEF LinksInv, LinksPrinted
<1>a. portid \in Nat /\ \A p \in Enabled : p \in Nat /\ p < nb_ports
  BY StartupAssumption DEF TypeOK, ControlType, Enabled, Port
<1>b. UNCHANGED args => Enabled' = Enabled
  BY DEF args, Enabled
<1>c. /\ waits \in Nat /\ count \in Nat /\ print_flag \in BOOLEAN /\ all_ports_up \in BOOLEAN
      /\ MAX_CHECK_TIME \in Nat \ {0}
  BY StartupAssumption DEF TypeOK, LinksType
<1>1. CASE EndPorts
  BY <1>1, <1>a, <1>b, <1>c DEF EndPorts, Proceed, links
<1>2. CASE LinkQuit
  BY <1>2, <1>b, <1>c DEF LinkQuit, Proceed, links
<1>3. CASE Skip("links")
  <2>1. \A p \in Enabled : p < portid + 1 <=> p < portid
    BY <1>3, <1>a DEF Skip, Enabled
  <2> QED
    BY <1>3, <1>b, <1>c, <2>1 DEF Skip, links
<1>d. \A p \in Enabled : p < portid + 1 /\ p # portid => p < portid
  BY <1>a
<1>4. CASE LinkLook
  BY <1>4, <1>b, <1>c, <1>d DEF LinkLook
<1>5. CASE LinkDown
  BY <1>5, <1>b, <1>c DEF LinkDown
<1>6. CASE EndPrinting
  BY <1>6, <1>a, <1>b, <1>c DEF EndPrinting, Proceed, links
<1>7. CASE EndPass
  <2>1. /\ pc = "links" /\ ~print_flag /\ count' = count + 1 /\ printed' = printed
        /\ waits' =< waits + 1 /\ waits' \in Nat /\ Enabled' = Enabled
        /\ print_flag' = LastLook
    BY <1>7, <1>b, <1>c DEF EndPass
  <2>2. count < MAX_CHECK_TIME /\ printed = {} /\ waits =< count
    BY <2>1
  <2>3. pc' = "links" /\ portid' = 0
    BY <1>7, <1>c, <2>1, <2>2 DEF EndPass, Proceed
  <2>4. ~print_flag' => count' < MAX_CHECK_TIME
    <3>1. ~print_flag' => count # MAX_CHECK_TIME - 1
      BY <2>1, Zenon DEF LastLook
    <3> QED
      BY <1>c, <2>1, <2>2, <3>1
  <2>5. waits' =< count' /\ count' =< MAX_CHECK_TIME /\ waits' =< MAX_CHECK_TIME
    BY <1>c, <2>1, <2>2
  <2>6. \A p \in Enabled : ~(p < 0)
    BY <1>a
  <2> QED
    BY <2>1, <2>2, <2>3, <2>4, <2>5, <2>6
<1>8. CASE /\ UNCHANGED <<args, links, force_quit>>
            /\ pc \in {"args", "pair", "assign", "ports"} /\ pc' \notin {"links", "launch"}
  BY <1>8, <1>b, <1>c DEF links
<1>9. CASE Signal
  BY <1>9, <1>b DEF Signal, links
<1>10. CASE UNCHANGED vars
  BY <1>10, <1>b DEF vars, links
<1>11. CheckArguments \/ Skip("pair") \/ FirstOfPair \/ SecondOfPair \/ EndPairing
         \/ Skip("assign") \/ NextLcore \/ AssignPort \/ CreatePool \/ Skip("ports")
         \/ InitPort \/ InitPortFails
         => /\ UNCHANGED <<args, links, force_quit>>
            /\ pc \in {"args", "pair", "assign", "ports"} /\ pc' \notin {"links", "launch"}
  BY DEF CheckArguments, Skip, FirstOfPair, SecondOfPair, EndPairing, NextLcore, AssignPort,
     CreatePool, InitPort, InitPortFails, Proceed
<1> QED
  BY <1>1, <1>2, <1>3, <1>4, <1>5, <1>6, <1>7, <1>8, <1>9, <1>10, <1>11 DEF Next, Main

\* The link check prints every enabled port, whatever the links do, after
\* at most MAX_CHECK_TIME waits, unless it is told to quit.
THEOREM StartupLinksPrinted == Spec => []LinksPrinted
<1>1. Init => LinksInv
  BY StartupAssumption DEF Init, LinksInv, LinksPrinted
<1>2. LinksInv => LinksPrinted
  BY DEF LinksInv
<1> QED
  BY <1>1, <1>2, LinksStep, StartupTypeCorrect, PTL DEF Spec

-----------------------------------------------------------------------------
\* Every enabled lcore below the one that is looked at has all it may have.
Full(c) == Len(rx_port_list[c]) = rx_queue_per_lcore

Searched ==
  /\ pc \in {"args", "pair"} => rx_lcore_id = 0
  /\ pc = "assign" => \A c \in enabled_lcores : c < rx_lcore_id => Full(c)

LEMMA SearchedStep == TypeOK /\ Searched /\ [Next]_vars => Searched'
<1> SUFFICES ASSUME TypeOK, Searched, [Next]_vars PROVE Searched'
  OBVIOUS
<1> USE DEF Searched
<1>a. /\ rx_lcore_id \in Nat /\ enabled_lcores \subseteq LcoreId
      /\ \A c \in enabled_lcores : c \in Nat
  BY DEF TypeOK, LcoresType, ArgsType, LcoreId
<1>b. rx_port_list \in [LcoreId -> Seq(Port)]
  BY DEF TypeOK, LcoresType
<1>1. CASE NextLcore
  <2>1. \A c \in enabled_lcores : c < rx_lcore_id + 1 => c < rx_lcore_id \/ c = rx_lcore_id
    BY <1>a
  <2>2. pc = "assign" /\ Unfit(rx_lcore_id) /\ UNCHANGED <<args, rx_port_list>>
    BY <1>1 DEF NextLcore
  <2>3. \A c \in enabled_lcores : c < rx_lcore_id + 1 => Full(c)
    BY <2>1, <2>2 DEF Unfit, Full
  <2>4. (rx_lcore_id' = rx_lcore_id + 1 /\ pc' = pc) \/ pc' = "exit"
    BY <1>1 DEF NextLcore, Following
  <2> QED
    BY <2>2, <2>3, <2>4 DEF Full, args
<1>2. CASE AssignPort
  <2>1. \A c \in enabled_lcores : c < rx_lcore_id => rx_port_list'[c] = rx_port_list[c]
    BY <1>2, <1>a, <1>b DEF AssignPort
  <2> QED
    BY <1>2, <2>1 DEF AssignPort, Full, args
<1>3. CASE EndPairing
  <2>1. \A c \in enabled_lcores : ~(c < 0)
    BY <1>a
  <2> QED
    BY <1>3, <2>1 DEF EndPairing, Proceed, lcores, args
<1>4. CASE /\ UNCHANGED <<args, lcores>>
            /\ \/ pc' = pc
               \/ pc' \notin {"args", "pair", "assign"}
               \/ pc = "args" /\ pc' = "pair"
  BY <1>4 DEF args, lcores, Full
<1>5. \/ CheckArguments \/ Skip("pair") \/ FirstOfPair \/ SecondOfPair \/ Skip("assign")
      \/ CreatePool \/ Skip("ports") \/ InitPort \/ InitPortFails
      => /\ UNCHANGED <<args, lcores>>
         /\ \/ pc' = pc
            \/ pc' \notin {"args", "pair", "assign"}
            \/ pc = "args" /\ pc' = "pair"
  BY DEF CheckArguments, Skip, FirstOfPair, SecondOfPair, CreatePool, InitPort,
     InitPortFails, Proceed
<1>6. \/ EndPorts \/ LinkQuit \/ Skip("links") \/ LinkLook \/ LinkDown \/ EndPrinting
      \/ EndPass
      => /\ UNCHANGED <<args, lcores>>
         /\ pc' = pc \/ pc' \notin {"args", "pair", "assign"}
  BY DEF EndPorts, LinkQuit, Skip, LinkLook, LinkDown, EndPrinting, EndPass, Proceed
<1>7. Signal \/ UNCHANGED vars => UNCHANGED <<args, lcores>> /\ pc' = pc
  BY DEF Signal, vars
<1> QED
  BY <1>1, <1>2, <1>3, <1>4, <1>5, <1>6, <1>7 DEF Next, Main

\* If all enabled lcores have all they may have, their slots hold as many
\* different ports, and the port that is looked for a place is yet another.
LEMMA TooManyPorts ==
  ASSUME TypeOK, Upto(portid), portid \in Enabled,
         \A c \in enabled_lcores : Full(c)
  PROVE  Cardinality(Enabled) > Cardinality(enabled_lcores) * rx_queue_per_lcore
<1> DEFINE slots == enabled_lcores \X (1 .. rx_queue_per_lcore)
           others == Enabled \ {portid}
           held == [s \in slots |-> rx_port_list[s[1]][s[2]]]
<1>1. /\ nb_ports \in Nat /\ RTE_MAX_LCORE \in Nat /\ rx_queue_per_lcore \in Nat
      /\ enabled_lcores \subseteq LcoreId /\ rx_port_list \in [LcoreId -> Seq(Port)]
  BY StartupAssumption DEF TypeOK, ArgsType, LcoresType
<1>2. IsFiniteSet(Port) /\ IsFiniteSet(LcoreId) /\ IsFiniteSet(1 .. rx_queue_per_lcore)
  BY <1>1, FS_Interval DEF Port, LcoreId
<1>3. IsFiniteSet(Enabled) /\ IsFiniteSet(enabled_lcores)
  BY <1>1, <1>2, FS_Subset DEF Enabled
<1>4. Cardinality(Enabled) \in Nat /\ Cardinality(enabled_lcores) \in Nat
  BY <1>3, FS_CardinalityType
<1>5. Cardinality(1 .. rx_queue_per_lcore) = rx_queue_per_lcore
  BY <1>1, FS_Interval
<1>6. Cardinality(slots) = Cardinality(enabled_lcores) * rx_queue_per_lcore
  BY <1>2, <1>3, <1>5, FS_Product
<1>7. IsFiniteSet(others) /\ Cardinality(others) = Cardinality(Enabled) - 1
  BY <1>3, FS_RemoveElement
<1>8. \A c \in enabled_lcores : /\ c \in LcoreId
                                /\ DOMAIN rx_port_list[c] = 1 .. rx_queue_per_lcore
  BY <1>1 DEF Full
<1>9. \A p \in Enabled : p \in Nat
  BY <1>1 DEF Enabled, Port
<1>10. held \in Injection(slots, others)
  <2>1. \A s \in slots : s[1] \in enabled_lcores /\ s[2] \in 1 .. rx_queue_per_lcore
                         /\ s = <<s[1], s[2]>>
    OBVIOUS
  <2>2. \A s \in slots : held[s] \in others
    <3> SUFFICES ASSUME NEW s \in slots PROVE held[s] \in others
      OBVIOUS
    <3>1. s[1] \in LcoreId /\ s[2] \in DOMAIN rx_port_list[s[1]]
      BY <1>8, <2>1
    <3>2. rx_port_list[s[1]][s[2]] \in Enabled /\ rx_port_list[s[1]][s[2]] < portid
      BY <3>1 DEF Upto
    <3>3. rx_port_list[s[1]][s[2]] # portid
      BY <3>2, <1>9
    <3> QED
      BY <3>2, <3>3
  <2>3. \A s, t \in slots : held[s] = held[t] => s = t
    <3> SUFFICES ASSUME NEW s \in slots, NEW t \in slots, held[s] = held[t] PROVE s = t
      OBVIOUS
    <3>1. /\ s[1] \in LcoreId /\ s[2] \in DOMAIN rx_port_list[s[1]]
          /\ t[1] \in LcoreId /\ t[2] \in DOMAIN rx_port_list[t[1]]
      BY <1>8, <2>1
    <3>2. rx_port_list[s[1]][s[2]] = rx_port_list[t[1]][t[2]]
      OBVIOUS
    <3>3. s[1] = t[1] /\ s[2] = t[2]
      BY <3>1, <3>2 DEF Upto
    <3> QED
      BY <2>1, <3>3
  <2> QED
    BY <2>2, <2>3 DEF Injection, IsInjective
<1>11. Cardinality(slots) =< Cardinality(others)
  BY <1>7, <1>10, FS_Injection
<1>12. Cardinality(slots) =< Cardinality(Enabled) - 1
  BY <1>7, <1>11
<1>13. Cardinality(enabled_lcores) * rx_queue_per_lcore \in Nat
  BY <1>1, <1>4, NatProduct
<1> QED
  BY <1>4, <1>6, <1>12, <1>13

\* "Not enough cores" is said only if the enabled lcores cannot take all the
\* enabled ports: the search has come past the last lcore, and each one below
\* was full.
THEOREM StartupNotEnoughCores == Spec => NotEnoughCores
<1>1. Init => Searched
  BY DEF Init, Searched
<1>2. TypeOK /\ AssignInv /\ Searched /\ [Next]_vars
        => [pc = "assign" /\ portid < nb_ports /\ pc' = "exit"
              => Cardinality(Enabled)
                   > Cardinality(enabled_lcores) * rx_queue_per_lcore]_vars
  <2> SUFFICES ASSUME TypeOK, AssignInv, Searched, Next,
                      pc = "assign", portid < nb_ports, pc' = "exit"
               PROVE  Cardinality(Enabled)
                        > Cardinality(enabled_lcores) * rx_queue_per_lcore
    OBVIOUS
  <2>1. NextLcore
    <3>1. portid # nb_ports
      BY StartupAssumption DEF TypeOK, ControlType
    <3>2. ~CreatePool
      BY <3>1 DEF CreatePool
    <3>3. ~(CheckArguments \/ Skip("pair") \/ FirstOfPair \/ SecondOfPair \/ EndPairing
            \/ Skip("assign") \/ AssignPort \/ Skip("ports") \/ InitPort \/ InitPortFails
            \/ EndPorts)
      BY DEF CheckArguments, Skip, FirstOfPair, SecondOfPair, EndPairing, AssignPort,
         InitPort, InitPortFails, EndPorts
    <3>4. ~(LinkQuit \/ Skip("links") \/ LinkLook \/ LinkDown \/ EndPrinting \/ EndPass
            \/ Signal)
      BY DEF LinkQuit, Skip, LinkLook, LinkDown, EndPrinting, EndPass, Signal
    <3> QED
      BY <3>2, <3>3, <3>4 DEF Next, Main
  <2>2. portid \in Enabled /\ Unfit(rx_lcore_id) /\ rx_lcore_id + 1 >= RTE_MAX_LCORE
    BY <2>1 DEF NextLcore, PastLast, Following
  <2>3. \A c \in enabled_lcores : c < rx_lcore_id \/ c = rx_lcore_id
    BY <2>2, StartupAssumption DEF TypeOK, ArgsType, LcoresType, LcoreId
  <2>4. \A c \in enabled_lcores : Full(c)
    BY <2>2, <2>3 DEF Searched, Unfit, Full
  <2>5. Upto(portid)
    BY DEF AssignInv
  <2> QED
    BY <2>2, <2>4, <2>5, TooManyPorts
<1> QED
  BY <1>1, <1>2, AssignInit, AssignStep, SearchedStep, StartupTypeCorrect, PTL
     DEF Spec, NotEnoughCores

-----------------------------------------------------------------------------
\* No port's lower limit is above a default: the hypothesis of RingsFit.
LowLimits ==
  \A p \in Port : desc_lim[p].min =< Lesser(RX_DESC_DEFAULT, TX_DESC_DEFAULT)

Defaults == RX_DESC_DEFAULT + TX_DESC_DEFAULT

\* An lcore has been counted as soon as one has a port.
Counted ==
  /\ qconf # NULL => nb_lcores >= 1
  /\ (\E c \in LcoreId : rx_port_list[c] # <<>>) => qconf # NULL

\* The pool is sized with the defaults, and the counts only fall below them.
RingsInv ==
  /\ Counted
  /\ pc \in {"args", "pair", "assign"} =>
       nb_rxd = RX_DESC_DEFAULT /\ nb_txd = TX_DESC_DEFAULT /\ used = 0
  /\ IsAssigned =>
       nb_mbufs >= nb_ports * (Defaults + MAX_PKT_BURST + nb_lcores * MEMPOOL_CACHE_SIZE)
  /\ LowLimits /\ pc = "ports" =>
       /\ nb_rxd =< RX_DESC_DEFAULT /\ nb_txd =< TX_DESC_DEFAULT
       /\ used =< portid * Defaults
  /\ LowLimits /\ pc \in {"links", "launch"} => used =< nb_ports * Defaults

LEMMA ProductGrows == \A k, m, n \in Nat : m =< n => m * k =< n * k /\ k * m =< k * n
OBVIOUS

LEMMA ProductSplits == \A k, m, n \in Nat : k * (m + n) = k * m + k * n
OBVIOUS

LEMMA SumGrows == \A k, l, m, n \in Nat : k =< m /\ l =< n => k + l =< m + n
OBVIOUS

LEMMA OneMore == \A k, n \in Nat : (n + 1) * k = n * k + k
OBVIOUS

\* The counts of a port's rings are no larger than those of the one before,
\* or than its own lower limit.
LEMMA AdjustNoLarger ==
  ASSUME NEW n \in Nat, NEW lim \in [min : Nat, max : Nat], NEW b \in Nat,
         n =< b, lim.min =< b
  PROVE  Adjust(n, lim) =< b
<1>1. lim.min \in Nat /\ lim.max \in Nat
  OBVIOUS
<1> QED
  BY <1>1 DEF Adjust, Greater, Lesser

LEMMA CountedStep == TypeOK /\ Counted /\ [Next]_vars => Counted'
<1> SUFFICES ASSUME TypeOK, Counted, [Next]_vars PROVE Counted'
  OBVIOUS
<1>a. /\ rx_lcore_id \in LcoreId /\ rx_lcore_id # NULL /\ nb_lcores \in Nat
      /\ rx_port_list \in [LcoreId -> Seq(Port)]
  BY DEF TypeOK, LcoresType, LcoreId, NULL
<1>1. CASE AssignPort
  <2>1. qconf' # NULL /\ nb_lcores' >= 1
    BY <1>1, <1>a DEF AssignPort, Counted
  <2> QED
    BY <2>1 DEF Counted
<1>2. CASE UNCHANGED <<qconf, nb_lcores, rx_port_list>>
  BY <1>2 DEF Counted
<1>3. CheckArguments \/ Skip("pair") \/ FirstOfPair \/ SecondOfPair \/ EndPairing
        \/ Skip("assign") \/ NextLcore \/ CreatePool \/ Skip("ports") \/ InitPort
        \/ InitPortFails \/ EndPorts
        => UNCHANGED <<qconf, nb_lcores, rx_port_list>>
  BY DEF CheckArguments, Skip, FirstOfPair, SecondOfPair, EndPairing, NextLcore,
     CreatePool, InitPort, InitPortFails, EndPorts, lcores
<1>4. LinkQuit \/ Skip("links") \/ LinkLook \/ LinkDown \/ EndPrinting \/ EndPass \/ Signal
        \/ UNCHANGED vars
        => UNCHANGED <<qconf, nb_lcores, rx_port_list>>
  BY DEF LinkQuit, Skip, LinkLook, LinkDown, EndPrinting, EndPass, Signal, vars, lcores
<1> QED
  BY <1>1, <1>2, <1>3, <1>4 DEF Next, Main

LEMMA RingsStep == TypeOK /\ RingsInv /\ [Next]_vars => RingsInv'
<1> SUFFICES ASSUME TypeOK, RingsInv, [Next]_vars PROVE RingsInv'
  OBVIOUS
<1>0. Counted'
  BY CountedStep DEF RingsInv
<1>a. /\ nb_ports \in Nat /\ portid \in 0 .. nb_ports /\ portid \in Nat
      /\ RX_DESC_DEFAULT \in Nat /\ TX_DESC_DEFAULT \in Nat /\ Defaults \in Nat
      /\ nb_rxd \in Nat /\ nb_txd \in Nat /\ used \in Nat
  BY StartupAssumption DEF TypeOK, ControlType, RingsType, Defaults
<1>1. CASE CreatePool
  <2>1. Needed = nb_ports * (Defaults + MAX_PKT_BURST + nb_lcores * MEMPOOL_CACHE_SIZE)
    <3>1. nb_rxd + nb_txd = Defaults
      BY <1>1 DEF CreatePool, RingsInv, Defaults
    <3> QED
      BY <3>1, Zenon DEF Needed
  <2>2. Needed \in Nat
    BY NeededIsNat DEF TypeOK
  <2>3. nb_mbufs' >= Needed
    BY <1>1, <2>2, StartupAssumption DEF CreatePool, Greater
  <2>4. IsAssigned' =>
          nb_mbufs' >= nb_ports * (Defaults + MAX_PKT_BURST + nb_lcores' * MEMPOOL_CACHE_SIZE)
    <3>1. nb_lcores' = nb_lcores
      BY <1>1 DEF CreatePool, lcores
    <3> QED
      BY <2>1, <2>3, <3>1, Zenon
  <2>5. 0 * Defaults = 0
    BY <1>a
  <2>6. /\ nb_rxd' = RX_DESC_DEFAULT /\ nb_txd' = TX_DESC_DEFAULT /\ used' = 0
        /\ pc' = "exit" \/ (pc' = "ports" /\ portid' = 0)
    BY <1>1 DEF CreatePool, Proceed, rings, RingsInv
  <2> QED
    BY <1>0, <1>a, <2>4, <2>5, <2>6 DEF RingsInv
<1>2. CASE InitPort
  <2>1. /\ pc = "ports" /\ pc' = "ports" /\ portid' = portid + 1 /\ portid \in Port
        /\ nb_rxd' = Adjust(nb_rxd, desc_lim[portid])
        /\ nb_txd' = Adjust(nb_txd, desc_lim[portid])
        /\ used' = used + nb_rxd' + nb_txd'
        /\ nb_lcores' = nb_lcores /\ nb_mbufs' = nb_mbufs
    BY <1>2 DEF InitPort, Enabled, lcores
  <2>2. nb_rxd' \in Nat /\ nb_txd' \in Nat
    BY <1>2, TypeStep DEF TypeOK, RingsType
  <2>3. ASSUME LowLimits
        PROVE  /\ nb_rxd' =< RX_DESC_DEFAULT /\ nb_txd' =< TX_DESC_DEFAULT
               /\ used' =< (portid + 1) * Defaults
    <3>1. desc_lim[portid] \in [min : Nat, max : Nat]
      BY <2>1, StartupAssumption
    <3>2. /\ desc_lim[portid].min =< RX_DESC_DEFAULT
          /\ desc_lim[portid].min =< TX_DESC_DEFAULT
      BY <2>1, <2>3, <3>1, <1>a DEF LowLimits, Lesser
    <3>3. /\ nb_rxd =< RX_DESC_DEFAULT /\ nb_txd =< TX_DESC_DEFAULT
          /\ used =< portid * Defaults
      BY <2>1, <2>3 DEF RingsInv
    <3>4. nb_rxd' =< RX_DESC_DEFAULT
      BY <1>a, <2>1, <3>1, <3>2, <3>3, AdjustNoLarger
    <3>5. nb_txd' =< TX_DESC_DEFAULT
      BY <1>a, <2>1, <3>1, <3>2, <3>3, AdjustNoLarger
    <3>6. nb_rxd' + nb_txd' =< Defaults
      <4>1. nb_rxd' + nb_txd' =< RX_DESC_DEFAULT + TX_DESC_DEFAULT
        BY <1>a, <2>2, <3>4, <3>5, SumGrows, Zenon
      <4> QED
        BY <4>1 DEF Defaults
    <3>7. PICK done \in Nat : done = portid * Defaults
      BY <1>a, NatProduct
    <3>8. (portid + 1) * Defaults = done + Defaults
      BY <1>a, <3>7, OneMore
    <3>9. used' =< done + Defaults
      BY <1>a, <2>1, <2>2, <3>3, <3>6, <3>7
    <3> QED
      BY <3>4, <3>5, <3>8, <3>9
  <2>4. pc' = "ports" /\ IsAssigned /\ IsAssigned'
    BY <2>1 DEF IsAssigned
  <2>5. nb_mbufs' >= nb_ports * (Defaults + MAX_PKT_BURST + nb_lcores' * MEMPOOL_CACHE_SIZE)
    BY <2>1, <2>4 DEF RingsInv
  <2> QED
    BY <1>0, <2>1, <2>3, <2>4, <2>5 DEF RingsInv
<1>b. IsAssigned /\ UNCHANGED <<nb_lcores, nb_mbufs>> =>
        nb_mbufs' >= nb_ports * (Defaults + MAX_PKT_BURST + nb_lcores' * MEMPOOL_CACHE_SIZE)
  BY DEF RingsInv
<1>3. CASE Skip("ports")
  <2>1. /\ pc = "ports" /\ pc' = "ports" /\ portid' = portid + 1 /\ IsAssigned
        /\ UNCHANGED <<nb_rxd, nb_txd, used, nb_lcores, nb_mbufs>>
    BY <1>3 DEF Skip, IsAssigned, rings, lcores
  <2>2. LowLimits => used =< (portid + 1) * Defaults
    <3>1. PICK done \in Nat : done = portid * Defaults
      BY <1>a, NatProduct
    <3>2. (portid + 1) * Defaults = done + Defaults
      BY <1>a, <3>1, OneMore
    <3>3. LowLimits => used =< done
      BY <2>1, <3>1 DEF RingsInv
    <3>4. LowLimits => used =< done + Defaults
      BY <1>a, <3>3
    <3> QED
      BY <3>2, <3>4
  <2> QED
    BY <1>0, <1>b, <2>1, <2>2 DEF RingsInv
<1>4. CASE EndPorts
  <2>1. /\ pc = "ports" /\ portid = nb_ports /\ IsAssigned /\ pc' \in {"links", "exit"}
        /\ UNCHANGED <<nb_rxd, nb_txd, used, nb_lcores, nb_mbufs>>
    BY <1>4 DEF EndPorts, Proceed, IsAssigned, rings, lcores
  <2> QED
    BY <1>0, <1>b, <2>1 DEF RingsInv
<1>5. CASE /\ UNCHANGED rings /\ pc \in {"args", "pair", "assign"}
           /\ pc' \in {"args", "pair", "assign", "exit"}
  BY <1>0, <1>5 DEF RingsInv, IsAssigned, rings
<1>6. CASE /\ UNCHANGED <<rings, nb_lcores, nb_mbufs>>
           /\ pc \in {"links", "launch"} /\ pc' \in {"links", "launch"}
  BY <1>0, <1>6, <1>b DEF RingsInv, IsAssigned, rings
<1>7. CASE UNCHANGED <<rings, nb_lcores, nb_mbufs, pc, portid>>
  BY <1>0, <1>7, <1>b DEF RingsInv, IsAssigned, rings
<1>8. CASE UNCHANGED rings /\ pc' = "exit"
  BY <1>0, <1>8 DEF RingsInv, IsAssigned
<1>9. CheckArguments \/ Skip("pair") \/ FirstOfPair \/ SecondOfPair \/ EndPairing
        \/ Skip("assign") \/ NextLcore \/ AssignPort
        => /\ UNCHANGED rings /\ pc \in {"args", "pair", "assign"}
           /\ pc' \in {"args", "pair", "assign", "exit"}
  BY DEF CheckArguments, Skip, FirstOfPair, SecondOfPair, EndPairing, NextLcore,
     AssignPort, Proceed
<1>10. LinkQuit \/ Skip("links") \/ LinkLook \/ LinkDown \/ EndPrinting \/ EndPass
         => /\ UNCHANGED <<rings, nb_lcores, nb_mbufs>>
            /\ pc \in {"links", "launch"} /\ pc' \in {"links", "launch"}
  BY DEF LinkQuit, Skip, LinkLook, LinkDown, EndPrinting, EndPass, Proceed, lcores
<1>11. Signal \/ UNCHANGED vars => UNCHANGED <<rings, nb_lcores, nb_mbufs, pc, portid>>
  BY DEF Signal, vars, lcores
<1>12. InitPortFails => UNCHANGED rings /\ pc' = "exit"
  BY DEF InitPortFails
<1> QED
  BY <1>1, <1>2, <1>3, <1>4, <1>5, <1>6, <1>7, <1>8, <1>9, <1>10, <1>11, <1>12
     DEF Next, Main

\* No more lcores poll than there are ports: each has one that no other has.
LEMMA FewPolling ==
  ASSUME TypeOK, Upto(nb_ports)
  PROVE  Cardinality(Polling) \in Nat /\ Cardinality(Polling) =< nb_ports
<1> DEFINE first == [c \in Polling |-> rx_port_list[c][1]]
<1>1. nb_ports \in Nat /\ rx_port_list \in [LcoreId -> Seq(Port)]
  BY StartupAssumption DEF TypeOK, LcoresType
<1>2. IsFiniteSet(Port) /\ Cardinality(Port) = nb_ports
  <2>1. IsFiniteSet(Port) /\ Cardinality(Port) = IF 0 > nb_ports - 1 THEN 0
                                                 ELSE (nb_ports - 1) - 0 + 1
    BY <1>1, FS_Interval DEF Port
  <2> QED
    BY <1>1, <2>1
<1>3. \A c \in Polling : /\ c \in LcoreId /\ 1 \in DOMAIN rx_port_list[c]
                         /\ rx_port_list[c][1] \in Port
  BY <1>1 DEF Polling
<1>4. \A c, d \in Polling : rx_port_list[c][1] = rx_port_list[d][1] => c = d
  BY <1>3 DEF Upto
<1>5. first \in Injection(Polling, Port)
  BY <1>3, <1>4 DEF Injection, IsInjective
<1> QED
  BY <1>2, <1>5, FS_Injection, FS_CardinalityType

\* What a pool sized for l lcores holds is enough for p of them that poll.
LEMMA PoolEnough ==
  ASSUME NEW n \in Nat, NEW l \in Nat, NEW p \in Nat, NEW u \in Nat, NEW r \in Nat,
         NEW b \in Nat, NEW k \in Nat, NEW m \in Nat,
         u =< n * r, p =< n, p = 0 \/ l >= 1, m >= n * (r + b + l * k)
  PROVE  u + p * (b + k) =< m
<1>1. PICK lk \in Nat : lk = l * k
  BY NatProduct
<1>2. PICK nr \in Nat, nb \in Nat, nl \in Nat : nr = n * r /\ nb = n * b /\ nl = n * lk
  BY NatProduct
<1>3. n * (r + b + lk) = nr + nb + nl
  <2>1. n * ((r + b) + lk) = n * (r + b) + n * lk
    BY ProductSplits
  <2>2. n * (r + b) = n * r + n * b
    BY ProductSplits
  <2> QED
    BY <1>2, <2>1, <2>2
<1>4. CASE p = 0
  <2>1. p * (b + k) = 0
    BY <1>4
  <2> QED
    BY <1>1, <1>2, <1>3, <2>1
<1>5. CASE l >= 1
  <2>1. k =< lk
    <3>1. 1 * k =< l * k
      BY <1>5, ProductGrows
    <3> QED
      BY <1>1, <3>1
  <2>2. PICK nk \in Nat, pb \in Nat, pk \in Nat : nk = n * k /\ pb = p * b /\ pk = p * k
    BY NatProduct
  <2>3. nk =< nl
    BY <1>1, <1>2, <2>1, <2>2, ProductGrows
  <2>4. pb =< nb /\ pk =< nk
    BY <1>2, <2>2, ProductGrows
  <2>5. p * (b + k) = pb + pk
    BY <2>2, ProductSplits
  <2> QED
    BY <1>1, <1>2, <1>3, <2>3, <2>4, <2>5
<1> QED
  BY <1>4, <1>5

\* The mbuf pool suffices for all rings, bursts and caches, for any number of
\* ports and lcores and any upper limits of the ports, though it is sized
\* before the limits are known.
THEOREM StartupRingsFit == Spec => []RingsFit
<1>1. Init => RingsInv
  BY DEF Init, RingsInv, Counted, IsAssigned
<1>2. TypeOK /\ AssignInv /\ RingsInv => RingsFit
  <2> SUFFICES ASSUME TypeOK, AssignInv, RingsInv, LowLimits, pc \in {"links", "launch"}
               PROVE  used + Cardinality(Polling) * (MAX_PKT_BURST + MEMPOOL_CACHE_SIZE)
                        =< nb_mbufs
    BY DEF RingsFit, LowLimits
  <2>1. IsAssigned /\ Upto(nb_ports)
    BY DEF AssignInv, IsAssigned
  <2>2. Cardinality(Polling) \in Nat /\ Cardinality(Polling) =< nb_ports
    BY <2>1, FewPolling
  <2>3. Cardinality(Polling) = 0 \/ nb_lcores >= 1
    <3>1. CASE Polling = {}
      BY <3>1, FS_EmptySet
    <3>2. CASE Polling # {}
      BY <3>2 DEF Polling, RingsInv, Counted
    <3> QED
      BY <3>1, <3>2
  <2>4. /\ used =< nb_ports * Defaults
        /\ nb_mbufs >= nb_ports * (Defaults + MAX_PKT_BURST + nb_lcores * MEMPOOL_CACHE_SIZE)
    BY <2>1 DEF RingsInv
  <2>5. /\ nb_ports \in Nat /\ nb_lcores \in Nat /\ used \in Nat /\ Defaults \in Nat
        /\ MAX_PKT_BURST \in Nat /\ MEMPOOL_CACHE_SIZE \in Nat /\ nb_mbufs \in Nat
    BY StartupAssumption DEF TypeOK, LcoresType, RingsType, Defaults
  <2> QED
    BY <2>2, <2>3, <2>4, <2>5, PoolEnough
<1> QED
  BY <1>1, <1>2, AssignInit, AssignStep, RingsStep, StartupTypeCorrect, PTL DEF Spec
=============================================================================
