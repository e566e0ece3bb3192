SPECIFICATION Spec
CONSTANTS
  b1 = b1
  b2 = b2
  c1 = c1
  c2 = c2
  Leftover = Leftover
  NoOwner = NoOwner
  Bench = {b1, b2}
  Condition = {c1, c2}
  Plan <- MCPlan
  Dumps <- MCDumps
  MaxTries = 1
  MaxInterrupts = 1
INVARIANTS
  TypeOK
  PodLeftOnlyIfCut
  NoOrphanProxy
PROPERTIES
  NoStaleProxyServes
  OnlyOwnerDeletes
  EveryBenchEnds
CHECK_DEADLOCK FALSE
