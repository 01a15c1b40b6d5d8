SPECIFICATION Spec
CONSTANTS
  Lengths = {12, 16}
  Capacity = 2
  MaxArrivals = 4
  ByteBase = 4
INVARIANT
  OverflowsAccounted
