SPECIFICATION Spec
CONSTANTS
  n_nodes = 5
  Radix = 6
  num_total_vcs = 3
  num_escape_vcs = 2
  Cores <- ArbitraryCores
  Configs <- MCConfigs
  Route <- ArbitraryRoute
  Linked <- ArbitraryLinked
  VirtualChannels = {0, 1, 2}
  adjacency <- MCAdjacency
  NRL <- MCNRL
  VCTable <- MCVCTable
  SoundConfigs <- MCConfigs
  EscapeRank <- MCEscapeRank
  MostHops <- MCMostHops
  Distance <- NoDistance
  MaxRounds = 8
INVARIANTS
  CandidatesUsable
  DeadlockFree
  PortsConnectedOnce
PROPERTIES
  EscapeForGood
