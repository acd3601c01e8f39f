------------------------------ MODULE MCMeshes ------------------------------
(* A mesh with its three algorithms and a torus with CLUE: three by three  *)
(* chips of two by two nodes, two VCs per buffer, every pair of nodes.     *)
EXTENDS WalkProps

CONSTANTS KNode, KChip, VCNumber

Mesh == INSTANCE MeshRouting
Torus == INSTANCE TorusRouting

MCCores(c) == Mesh!Nodes
Link(c, n, port) == IF c = "CLUE" THEN Torus!TorusLink(n, port) ELSE Mesh!MeshLink(n, port)
MCChannel(c, n, port) == IF c = "CLUE" THEN Torus!TorusChannel(n, port) ELSE Mesh!MeshChannel(n, port)
LinkedPorts(c, n) == {port \in Mesh!Ports : c = "CLUE" \/ ~Mesh!AtEdge(n, port)}

MCRoute(c, s, d, vc) ==
  IF c = "CLUE" THEN Torus!clue_routing(NodeOf(vc), d)
  ELSE Mesh!routing_algorithm(c, NodeOf(vc), d)
MCLinked(c, n) == {<<Link(c, n, port), Mesh!Opposite(port)>> : port \in LinkedPorts(c, n)}

\* Steps between two places in a row or column, round the edge in the torus.
Away(c, i, j) ==
  LET steps == IF i < j THEN j - i ELSE i - j
  IN IF c = "CLUE" /\ 2 * steps > Mesh!K THEN Mesh!K - steps ELSE steps
MCDistance(c, m, n) == Away(c, Mesh!X(m), Mesh!X(n)) + Away(c, Mesh!Y(m), Mesh!Y(n))
MCMostHops(c) == 2 * (Mesh!K - 1)

\* Meshes and tori of every size with any number of virtual channels, of which
\* CLUE numbers two; and enough rounds for the deadlock analysis.
ASSUME MeshAssumption ==
  /\ KNode \in Nat \ {0} /\ KChip \in Nat \ {0}
  /\ VCNumber \in Nat \ {0} /\ VirtualChannels = 0 .. VCNumber - 1
  /\ Configs \subseteq {"XY", "NFR", "NFR_adaptive", "CLUE"}
  /\ "CLUE" \in Configs => VCNumber >= 2
  /\ MaxRounds \in Nat /\ MaxRounds >= 2 * Mesh!K

\* A link leads to the node next in its direction; the link of the opposite
\* port of that node leads back, and both ways have the same kind of channel.
LinksPaired ==
  \A port \in LinkedPorts(config, at) :
    LET m == Link(config, at, port) IN
    /\ m \in Mesh!Nodes
    /\ Distance(config, at, m) = 1
    /\ Link(config, m, Mesh!Opposite(port)) = at
    /\ MCChannel(config, m, Mesh!Opposite(port)) = MCChannel(config, at, port)
=============================================================================
