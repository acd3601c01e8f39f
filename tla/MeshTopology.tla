---------------------------- MODULE MeshTopology ----------------------------
(***************************************************************************)
(* Chips of KNode x KNode nodes in a square of KChip x KChip chips, wired  *)
(* as a mesh (SingleChipMesh is the case KChip = 1) or, with links around  *)
(* the edges, as a torus.                                                  *)
(*                                                                         *)
(* A node is a NodeID, its number in the chip and the number of the chip,  *)
(* both counted row by row.  An input buffer is a node and a port of it.   *)
(***************************************************************************)
EXTENDS Integers

CONSTANTS
  KNode,   \* k_node_: nodes in a row of a chip
  KChip    \* k_chip_: chips in a row

K == KNode * KChip
NodeID(node_id, chip_id) == [node |-> node_id, chip |-> chip_id]
NoNode == NodeID(-1, -1)
Nodes == [node : 0 .. KNode * KNode - 1, chip : 0 .. KChip * KChip - 1]

Ports == {"xneg", "xpos", "yneg", "ypos"}
Opposite(port) ==
  CASE port = "xneg" -> "xpos" [] port = "xpos" -> "xneg"
    [] port = "yneg" -> "ypos" [] port = "ypos" -> "yneg"

\* Place of a node in its chip, of its chip, and of the node in the system.
InX(n) == n.node % KNode
InY(n) == n.node \div KNode
ChipX(n) == n.chip % KChip
ChipY(n) == n.chip \div KChip
X(n) == ChipX(n) * KNode + InX(n)
Y(n) == ChipY(n) * KNode + InY(n)

\* The node with number id, counted row by row through the whole system.
id2nodeid(id) ==
  LET x == id % K
      y == id \div K
  IN NodeID((x % KNode) + (y % KNode) * KNode, x \div KNode + (y \div KNode) * KChip)

AtChipEdge(n, port) ==
  \/ port = "xneg" /\ InX(n) = 0
  \/ port = "xpos" /\ InX(n) = KNode - 1
  \/ port = "yneg" /\ InY(n) = 0
  \/ port = "ypos" /\ InY(n) = KNode - 1

AtEdge(n, port) ==
  /\ AtChipEdge(n, port)
  /\ \/ port = "xneg" /\ ChipX(n) = 0
     \/ port = "xpos" /\ ChipX(n) = KChip - 1
     \/ port = "yneg" /\ ChipY(n) = 0
     \/ port = "ypos" /\ ChipY(n) = KChip - 1

\* ChipMesh::set_chip: the neighbour in the chip.
ChipLink(n, port) ==
  [n EXCEPT !.node = CASE port = "xneg" -> @ - 1 [] port = "xpos" -> @ + 1
                       [] port = "yneg" -> @ - KNode [] port = "ypos" -> @ + KNode]

\* The node of the next chip that a node at the edge of its chip faces.
Facing(n, port) ==
  CASE port = "xneg" -> InY(n) * KNode + KNode - 1
    [] port = "xpos" -> InY(n) * KNode
    [] port = "yneg" -> InX(n) + (KNode - 1) * KNode
    [] port = "ypos" -> InX(n)

\* MultiChipMesh: the chip on that side.
MeshChip(n, port) ==
  CASE port = "xneg" -> n.chip - 1 [] port = "xpos" -> n.chip + 1
    [] port = "yneg" -> n.chip - KChip [] port = "ypos" -> n.chip + KChip

\* Mutant: the chip number wraps, but not inside its row.
TorusChipWholeSystem(n, port) ==
  CASE port = "xneg" -> (n.chip - 1 + KChip * KChip) % (KChip * KChip)
    [] port = "xpos" -> (n.chip + 1) % (KChip * KChip)
    [] port = "yneg" -> ((ChipY(n) - 1 + KChip) % KChip) * KChip + ChipX(n)
    [] port = "ypos" -> ((ChipY(n) + 1) % KChip) * KChip + ChipX(n)

\* MultiChipTorus: the chip on that side, around the edge.
TorusChip(n, port) ==
  CASE port = "xneg" -> ChipY(n) * KChip + ((n.chip - 1 + KChip) % KChip)
    [] port = "xpos" -> ChipY(n) * KChip + ((n.chip + 1) % KChip)
    [] port = "yneg" -> ((ChipY(n) - 1 + KChip) % KChip) * KChip + ChipX(n)
    [] port = "ypos" -> ((ChipY(n) + 1) % KChip) * KChip + ChipX(n)

\* Node at the other end of the link at a port; NoNode where there is no link.
MeshLink(n, port) ==
  IF AtEdge(n, port) THEN NoNode
  ELSE IF AtChipEdge(n, port) THEN NodeID(Facing(n, port), MeshChip(n, port))
  ELSE ChipLink(n, port)

TorusLink(n, port) ==
  IF AtChipEdge(n, port) THEN NodeID(Facing(n, port), TorusChip(n, port))
  ELSE ChipLink(n, port)

\* Channel of the input buffer of node n at a port.
MeshChannel(n, port) ==
  IF AtChipEdge(n, port) /\ ~AtEdge(n, port) THEN "d2d_IF" ELSE "on_chip"

TorusChannel(n, port) ==
  IF AtEdge(n, port) THEN "off_chip_serial"
  ELSE IF AtChipEdge(n, port) THEN "off_chip_parallel"
  ELSE "on_chip"
=============================================================================
