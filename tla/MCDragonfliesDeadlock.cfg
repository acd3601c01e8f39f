SPECIFICATION Spec
CONSTANTS
  sw_radix = 6
  fully_use_ports = TRUE
  vc_number = 3
  k_node = 3
  VirtualChannels = {0, 1, 2}
  Configs = {"chiplets"}
  Cores <- OneWGroup
  Route <- MCRoute
  Linked <- MCLinked
  MostHops <- MCMostHops
  Distance <- NoDistance
  MaxRounds = 20
INVARIANT DeadlockFree
