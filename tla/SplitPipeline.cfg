SPECIFICATION Spec
CONSTANTS
  Chunks = 4
  TILES_PER_CHUNK = 2
  ExtraStates = 1
  Resident = 3
  Addresses = {1, 2, 3}
INVARIANTS
  PrefixExact
  OffsetsExact
  OutputExact
  SpinsOnResident
PROPERTY
  Finishes
