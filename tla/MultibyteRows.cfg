SPECIFICATION Spec
CONSTANTS
  a = a
  b = b
  Alphabet = {a, b}
  ITEMS_PER_THREAD = 2
  THREADS_PER_TILE = 2
  TILES_PER_CHUNK = 1
  max_segment_count = 3
  max_segment_value = 4
  max_growth = 2
  Lengths = {0, 1, 2, 4, 5, 9}
  MaxText = 9
  MaxDelim = 3
  MaxRange = 3
  Cases <- MCCases
INVARIANTS
  RowsExact
  DelimitersStripped
  SegmentsFit
  BuilderRoom
