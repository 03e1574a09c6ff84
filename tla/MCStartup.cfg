CONSTANTS
  nb_ports = 4
  PortBits <- MCPortBits
  RTE_MAX_LCORE = 3
  MAX_RX_QUEUE_PER_LCORE = 3
  RX_DESC_DEFAULT = 4
  TX_DESC_DEFAULT = 4
  desc_lim <- MCDescLim
  MAX_PKT_BURST = 2
  MEMPOOL_CACHE_SIZE = 1
  MIN_MBUFS = 8
  MAX_CHECK_TIME = 2
SPECIFICATION Spec
INVARIANTS
  TypeOK
  Paired
  PolledOnce
  FlushReady
  RingsFit
  LinksPrinted
PROPERTIES
  NotEnoughCores
  Ends
CHECK_DEADLOCK FALSE
