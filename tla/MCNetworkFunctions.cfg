CONSTANTS
  a = a
  b = b
  Zero = z
  Addr = {a, b, z}
  Port = {7, 9, 100, 101}
  MIN_PORT = 100
  MAX_PORT = 102
  Lists <- AllFour
  WireFrame <- Wire
  BATCH_SIZE = 2
  MaxInits = 2
  MaxCalls = 2
SPECIFICATION Spec
INVARIANTS
  TypeOK
  ForwardEntry
  ReverseEntry
  FramesServed
  CachesWhatLeaves
