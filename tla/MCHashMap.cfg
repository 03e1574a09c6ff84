CONSTANTS
  f1 = f1
  f2 = f2
  f3 = f3
  NoFlow = NoFlow
  NULL = NULL
  Pad = {0, 1}
  Capacity = 3
  Flow <- MCFlow
  Hash <- MCHash
SPECIFICATION HashMapSpec
INVARIANTS
  HashMapTypeOK
  Retrievable
PROPERTY RefinesFlowMap
