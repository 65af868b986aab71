\* Warps and masks of the same width: a build with CUDF_USE_WARPSIZE_32.
SPECIFICATION CopySpec
CONSTANTS
  PrefetchSize = 10
  Chunk = 2
  BatchSize = 4
  BatchCount = 2
  SymbolBytes = 2
  Half = 4
  Lanes = 4
  Near = 1
  Few = 2
  MaxSymbols = 4
  Long = 9
  Symbols <- MCSymbols
  Inputs <- MCInputs
INVARIANTS
  TypeOK
  RingIntact
  CopierExact
PROPERTIES
  Implements
  Terminates
