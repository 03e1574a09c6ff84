CONSTANTS
  c0 = c0
  c1 = c1
  c2 = c2
  Lcore = {c0, c1, c2}
  Main = c0
  Portid = {0, 1, 2}
  rx_port_list <- Lists
  MAX_PKT_BURST = 1
  timer_period = 1
  max_timer_period = 1
  max_packets = 1
  MaxArrivals <- Arrivals
SPECIFICATION Spec
INVARIANTS
  TypeOK
  ReportedOnce
PROPERTY QuitsAtLimit
