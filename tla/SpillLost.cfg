\* One thread, two buffers and too little device memory.
SPECIFICATION Spec
CONSTANTS
  Threads = {t1}
  Owners = {a, b}
  Frames = {}
  None = None
  Capacity = 1
  HasLimit = FALSE
  Calls = {"host", "lock_ptr"}
  MaxDepth = 1
INVARIANT DataNotLost
