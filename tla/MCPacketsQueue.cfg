CONSTANTS
  MaxPackets = 4
  Packet = {p1, p2}
SPECIFICATION Spec
INVARIANTS
  TypeOK
  PositionsOK
  TimeFirstKnown
PROPERTIES
  HeldPacketIntact
  ImplementsDeque
