\* Warps and batches twice as wide as the masks: the default build.
SPECIFICATION CopySpec
CONSTANTS
  PrefetchSize = 18
  Chunk = 2
  BatchSize = 8
  BatchCount = 2
  SymbolBytes = 2
  Half = 4
  Lanes = 8
  Near = 1
  Few = 2
  MaxSymbols = 1
  Long = 9
  Symbols <- MCSymbols
  Inputs <- MCInputs
INVARIANTS
  CopierExact
