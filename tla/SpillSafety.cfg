\* Two threads, two buffers, room for one: every allocation can run out of memory, and the
\* device limit makes the manager sweep whenever a buffer is added or exposed.
SPECIFICATION Spec
CONSTANTS
  Threads = {t1, t2}
  Owners = {a, b}
  Frames = {f}
  None = None
  Capacity = 1
  HasLimit = TRUE
  Calls = {"lock_ptr", "expose", "unspill", "spill", "memoryview", "serialize", "create", "host", "copy", "sweep"}
  MaxDepth = 2
SYMMETRY Symmetry
INVARIANTS TypeOK PointerValid NoStaleData LocksReleased HoldersRun SpillLocksScoped NeverUnmovable
PROPERTY LossOnlyByFailure
