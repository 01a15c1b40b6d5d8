SPECIFICATION Spec
CONSTANTS
  Lengths = {12, 16}
  Capacity = 2
  MaxArrivals = 6
  ByteBase = 2
INVARIANTS
  TypeOK
  WholePackets
  PendingIsPromise
  OverflowsCounted
PROPERTIES
  InOrder
