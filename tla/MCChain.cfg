CONSTANTS
  f = f
  g = g
  Lcore = {c1, c2}
  Flow = {f, g}
  Pad = {0, 1}
  CAPACITY = 2
  BATCH_SIZE = 2
  WireFrame <- MCWireFrame
  MaxCalls = 2
SYMMETRY MCSymmetry
VIEW MCView
SPECIFICATION Spec
INVARIANTS
  TypeOK
  EveryFrameServed
  AclSeesWhatLeft
