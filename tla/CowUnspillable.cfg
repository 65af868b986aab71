CONSTANTS
  Slices = {s1, s2, s3}
  Owners = {o1, o2, o3}
  Values = {v0, v1}
  Size = 2
  Spilling = FALSE
  None = None
SPECIFICATION Spec
PROPERTY ImplementsValues
VIEW LiveState
SYMMETRY Symmetry
