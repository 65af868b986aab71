SPECIFICATION Spec
CONSTANTS
  Threads = {t1, t2}
  Blocks = {a, b}
  Sizes = {1, 3}
  Align = 2
  Capacity = 4
  Thresholds = {2, 4}
  Debug = TRUE
  Resets = {0}
  MaxRetries = 1
  None = None
SYMMETRY Symmetry
INVARIANTS TypeOK NothingLeaks TotalExact MaxCovers ThresholdsSeen
