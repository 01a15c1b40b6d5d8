SPECIFICATION Spec
CONSTANTS
  Packets = {p1}
  NoPacket = NoPacket
  Torn = Torn
  Stale = Stale
  FrameletCounts = {2}
  Lengths = {12, 16}
  Capacity = 2
  HostWaits = FALSE
INVARIANT
  NeverDispatchedIdle
CHECK_DEADLOCK FALSE
