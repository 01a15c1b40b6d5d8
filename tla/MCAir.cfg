SPECIFICATION Spec
CONSTANTS
  N = 3
  K <- K3
  PacketTime = 1
  SwitchTime = 1
  Jitter = 0
INVARIANTS
  TypeOK
  NoDoubleHit
  OneFrameletGetsThrough
PROPERTIES
  ImplementsBroadcast
