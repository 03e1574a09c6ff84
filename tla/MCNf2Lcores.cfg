CONSTANTS
  a = a
  b = b
  NULL = NULL
  NotUdp = NotUdp
  Lcore = {c1, c2}
  Peer = {a, b}
  Port = {0, 7, 65533, 65534}
  MIN_PORT = 65533
  MAX_PORT = 65535
  BATCH_SIZE = 2
  Pad = {0, 1}
  Capacity = 5
  Flow <- MCFlow
  NoFlow <- MCNoFlow
  WireFlow <- MCWireFlow
  Garbage <- MCGarbage
  Hash <- MCHash
SPECIFICATION Spec
INVARIANT PortsGrantedOnce
