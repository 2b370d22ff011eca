CONSTANTS
  Size = 64
  Sizes = {8, 16, 56, 62}
  Values = {v1}
  NoValue = NoValue
  PadModulus = 128
SPECIFICATION SpecMax
INVARIANT NoClobber
