SPECIFICATION Spec
CONSTANTS
  KNode = 2
  KChip = 3
  VCNumber = 2
  VirtualChannels = {0, 1}
  Configs = {"XY", "NFR", "NFR_adaptive", "CLUE"}
  Cores <- MCCores
  Route <- MCRoute
  Linked <- MCLinked
  MostHops <- MCMostHops
  Distance <- MCDistance
  MaxRounds = 12
INVARIANTS
  CandidatesUsable
  DeadlockFree
  LinksPaired
PROPERTIES
  Closer
