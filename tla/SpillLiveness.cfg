\* Three buffers, room for one: two threads sweep while each is unspilling.
SPECIFICATION FairSpec
CONSTANTS
  Threads = {t1, t2}
  Owners = {a, b, c}
  Frames = {}
  None = None
  Capacity = 1
  HasLimit = FALSE
  Calls = {"host", "lock_ptr", "unspill"}
  MaxDepth = 1
PROPERTY CallsReturn
