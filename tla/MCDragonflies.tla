---------------------------- MODULE MCDragonflies ----------------------------
(* DragonflySW with switches of six ports, all of them used: ten groups of *)
(* three switches with one core each.  DragonflyChiplet with C-groups of   *)
(* k_node x k_node nodes; two by two make seven W-groups of two C-groups.  *)
EXTENDS WalkProps, FiniteSets

CONSTANTS sw_radix, fully_use_ports, vc_number, k_node

\* A switch has a core, a local and a global port, a C-group more than one node.
ASSUME DragonflyAssumption ==
  /\ sw_radix \in Nat /\ sw_radix >= 4 /\ fully_use_ports \in BOOLEAN
  /\ vc_number \in Nat \ {0}
  /\ k_node \in Nat /\ k_node >= 2
  /\ Configs \subseteq {"switches", "switches_misrouting", "chiplets"}
  /\ MaxRounds \in Nat /\ MaxRounds >= 2

SW == INSTANCE DragonflySW
CG == INSTANCE DragonflyChiplet

IsSW(c) == c \in {"switches", "switches_misrouting"}
MCCores(c) == IF IsSW(c) THEN SW!CoreNodes ELSE CG!Nodes
MCRoute(c, s, d, vc) ==
  CASE c = "switches" -> SW!MIN_routing(FALSE, s, d, NodeOf(vc))
    [] c = "switches_misrouting" -> SW!MIN_routing(TRUE, s, d, NodeOf(vc))
    [] c = "chiplets" -> CG!MIN_routing(FALSE, s, d, NodeOf(vc))
    [] c = "chiplets_misrouting" -> CG!MIN_routing(TRUE, s, d, NodeOf(vc))

Links == [c \in Configs |-> IF IsSW(c) THEN SW!Links ELSE CG!Links]
Group(c, n) == IF IsSW(c) THEN SW!Group(n) ELSE CG!WGroup(n)
MCLinked(c, n) ==
  IF IsSW(c) THEN {link[2] : link \in {l \in Links[c] : l[1][1] = n}}
  ELSE {CG!MeshBuffer(n, port) : port \in {"xneg", "xpos", "yneg", "ypos"}}
         \cup {<<link[2], "external">> : link \in {l \in Links[c] : l[1] = n}}
NoDistance(c, m, n) == 0

\* Between two cores: to the switch, a local, a global and a local link, to the
\* core; one more local and global link with mis-routing (no local one before).
\* Between two nodes of chiplets: the same links and four ways through a mesh.
MCMostHops(c) ==
  CASE c = "switches" -> 5 [] c = "switches_misrouting" -> 6
    [] c = "chiplets" -> 3 + 4 * 2 * (k_node - 1)

\* The sources and destinations of the deadlock analysis.
OneWGroup(c) == {n \in MCCores(c) : Group(c, n) = 0}

\* The groups have enough ports to link all pairs, each by ports of its own.
Paired == [c \in Configs |-> IF IsSW(c) THEN SW!PairedOnce(SW!Links) ELSE CG!PairedOnce(CG!Links)]
PortsConnectedOnce == Paired[config]

\* A way crosses one global link, with mis-routing at most two: out of the
\* group of the source and into that of the destination.
FewGlobalHops ==
  [][Group(config, at') # Group(config, at) =>
       \/ Group(config, at') = Group(config, destination)
       \/ config = "switches_misrouting" /\ Group(config, at) = Group(config, source)]_vars

\* A packet takes a global link in the C-group where it is; in another C-group
\* it takes a local link first (dragonfly_chiplet.cpp:267).
LocalLinkFirst ==
  [][CG!WGroup(at') # CG!WGroup(at) =>
       at.chip = CG!global_link(CG!WGroup(at), CG!WGroup(at')).chip]_vars
=============================================================================
