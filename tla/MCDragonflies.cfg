SPECIFICATION Spec
CONSTANTS
  sw_radix = 6
  fully_use_ports = TRUE
  vc_number = 3
  k_node = 2
  VirtualChannels = {0, 1, 2}
  Configs = {"switches", "switches_misrouting", "chiplets"}
  Cores <- MCCores
  Route <- MCRoute
  Linked <- MCLinked
  MostHops <- MCMostHops
  Distance <- NoDistance
  MaxRounds = 11
INVARIANTS
  FewHops
  DeadlockFree
  PortsConnectedOnce
PROPERTIES
  FewGlobalHops
