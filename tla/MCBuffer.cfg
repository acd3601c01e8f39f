SPECIFICATION Spec
CONSTANTS
  p1 = p1
  p2 = p2
  p3 = p3
  Packets <- MCPackets
  Length <- MCLength
  BufferSize = 3
  MaxCalls = 2
  MaxWeak = 1
INVARIANTS
  TypeOK
  CreditConserved
  LinkHasOneOwner
PROPERTY
  ImplementsBufferSpec
CHECK_DEADLOCK FALSE
