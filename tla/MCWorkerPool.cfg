SPECIFICATION Spec
CONSTANTS
  NThreads = 2
  IssueWidth = 2
  MaxPackets = 3
  MaxSpurious = 2
INVARIANTS
  TypeOK
  SerialPhaseExclusive
  ClaimsDisjoint
  ExactlyOnce
PROPERTIES
  ImplementsCycle
  ShutdownCompletes
