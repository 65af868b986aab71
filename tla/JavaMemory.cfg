SPECIFICATION Spec
CONSTANTS
  Users = {"u1", "u2"}
  Buffers = {b1, b2}
  Pools = {p1, p2}
  MaxRefs = 2
  MaxCalls = 5
  None = None
INVARIANTS
  TypeOK
  FreedOnce
  RefsKeepMemory
  LeaksTracked
  OnePool
  NoCircle
PROPERTIES
  LeaksReclaimed
  CallsReturn
CHECK_DEADLOCK FALSE
