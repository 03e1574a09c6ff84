CONSTANTS
  c1 = c1
  c2 = c2
  p1 = p1
  p2 = p2
  Lcore = {c1, c2}
  Portid = {p1, p2}
  rx_port_list <- OneLcore
  Mbuf = {m1, m2, m3, m4}
  Uninit = Uninit
  MAX_PKT_BURST = 3
  BATCH_SIZE = 2
  nb_txd = 1
  max_packets = 0
  MaxArrivals <- Arrivals
SPECIFICATION Spec
INVARIANTS
  TypeOK
  Conserved
  ProcessedOnce
  NoPollAfterClose
PROPERTIES
  RefinesLines
  Quits
