---------------------------- MODULE Mesh_proofs -----------------------------
(***************************************************************************)
(* Meshes and tori of every size: the links of the nodes are paired, each  *)
(* of the four routing algorithms brings a packet closer with every hop,   *)
(* whatever channels are free, and no packets wait for each other in a     *)
(* circle.                                                                 *)
(***************************************************************************)
EXTENDS MCMeshes, Lemmas

-----------------------------------------------------------------------------
(* The place of a node.                                                    *)

InChip == 0 .. KNode - 1
Chips == 0 .. KChip - 1

\* The node in column i and row j of the chip in column k and row l.
Place(i, j, k, l) == Mesh!NodeID(j * KNode + i, l * KChip + k)

\* There is a node at every place, and only there.
LEMMA Bounds ==
  ASSUME NEW n \in Nat \ {0}, NEW a \in 0 .. n - 1, NEW b \in 0 .. n - 1
  PROVE  b * n + a \in 0 .. n * n - 1
<1>1. b * n <= (n - 1) * n
  OBVIOUS
<1>2. (n - 1) * n = n * n - n
  OBVIOUS
<1>3. b * n \in Nat /\ n * n \in Nat
  OBVIOUS
<1> QED
  BY <1>1, <1>2, <1>3

LEMMA Quotient ==
  ASSUME NEW n \in Nat \ {0}, NEW a \in 0 .. n * n - 1
  PROVE  a \div n \in 0 .. n - 1
<1> DEFINE q == a \div n
<1>1. q \in Nat /\ q * n <= a
  BY Division
<1>2. a < n * n /\ n * n \in Nat
  OBVIOUS
<1>3. CASE q >= n
  <2>1. q * n >= n * n
    BY <1>1, <1>3
  <2> QED
    BY <1>1, <1>2, <2>1
<1> QED
  BY <1>1, <1>3

LEMMA PlaceFacts ==
  ASSUME NEW i \in InChip, NEW j \in InChip, NEW k \in Chips, NEW l \in Chips
  PROVE  LET n == Place(i, j, k, l)
         IN /\ n \in Mesh!Nodes
            /\ Mesh!InX(n) = i /\ Mesh!InY(n) = j
            /\ Mesh!ChipX(n) = k /\ Mesh!ChipY(n) = l
<1> USE MeshAssumption DEF InChip, Chips
<1>1. j * KNode + i \in 0 .. KNode * KNode - 1 /\ l * KChip + k \in 0 .. KChip * KChip - 1
  BY Bounds
<1>2. (j * KNode + i) \div KNode = j /\ (j * KNode + i) % KNode = i
  BY PlaceOfMember
<1>3. (l * KChip + k) \div KChip = l /\ (l * KChip + k) % KChip = k
  BY PlaceOfMember
<1> QED
  BY <1>1, <1>2, <1>3
  DEF Place, Mesh!NodeID, Mesh!Nodes, Mesh!InX, Mesh!InY, Mesh!ChipX, Mesh!ChipY

LEMMA NodePlace ==
  ASSUME NEW n \in Mesh!Nodes
  PROVE  /\ Mesh!InX(n) \in InChip /\ Mesh!InY(n) \in InChip
         /\ Mesh!ChipX(n) \in Chips /\ Mesh!ChipY(n) \in Chips
         /\ n.node = Mesh!InY(n) * KNode + Mesh!InX(n)
         /\ n.chip = Mesh!ChipY(n) * KChip + Mesh!ChipX(n)
         /\ n = Place(Mesh!InX(n), Mesh!InY(n), Mesh!ChipX(n), Mesh!ChipY(n))
<1> USE MeshAssumption
<1>1. n.node \in 0 .. KNode * KNode - 1 /\ n.chip \in 0 .. KChip * KChip - 1
      /\ n = [node |-> n.node, chip |-> n.chip]
  BY DEF Mesh!Nodes
<1>2. n.node \in Nat /\ n.chip \in Nat
  BY <1>1
<1>3. /\ n.node % KNode \in InChip /\ n.node \div KNode \in InChip
      /\ n.chip % KChip \in Chips /\ n.chip \div KChip \in Chips
  BY <1>1, <1>2, Division, Quotient DEF InChip, Chips
<1>4. n.node = (n.node \div KNode) * KNode + (n.node % KNode)
  BY <1>2, Division
<1>5. n.chip = (n.chip \div KChip) * KChip + (n.chip % KChip)
  BY <1>2, Division
<1> QED
  BY <1>1, <1>3, <1>4, <1>5
  DEF Place, Mesh!NodeID, Mesh!InX, Mesh!InY, Mesh!ChipX, Mesh!ChipY

-----------------------------------------------------------------------------
(* The links.  One step down or up in a circle of n places.                *)

Down(i, n) == IF i = 0 THEN n - 1 ELSE i - 1
Up(i, n) == IF i = n - 1 THEN 0 ELSE i + 1

LEMMA Around ==
  ASSUME NEW n \in Nat \ {0}, NEW g \in Nat, NEW i \in 0 .. n - 1
  PROVE  /\ ((g * n + i) - 1 + n) % n = Down(i, n)
         /\ (g * n + i + 1) % n = Up(i, n)
<1>1. g * n \in Nat /\ (g + 1) * n = g * n + n
  OBVIOUS
<1>2. ASSUME i = 0 PROVE ((g * n + i) - 1 + n) % n = n - 1
  <2>1. (g * n + i) - 1 + n = g * n + (n - 1)
    BY <1>1, <1>2
  <2> QED
    BY <2>1, PlaceOfMember
<1>3. ASSUME i # 0 PROVE ((g * n + i) - 1 + n) % n = i - 1
  <2>1. (g * n + i) - 1 + n = (g + 1) * n + (i - 1)
    BY <1>1
  <2>2. i - 1 \in 0 .. n - 1
    BY <1>3
  <2> QED
    BY <2>1, <2>2, PlaceOfMember
<1>4. ASSUME i = n - 1 PROVE (g * n + i + 1) % n = 0
  <2>1. g * n + i + 1 = (g + 1) * n + 0
    BY <1>1, <1>4
  <2> QED
    BY <2>1, PlaceOfMember
<1>5. ASSUME i # n - 1 PROVE (g * n + i + 1) % n = i + 1
  <2>1. g * n + i + 1 = g * n + (i + 1) /\ i + 1 \in 0 .. n - 1
    BY <1>1, <1>5
  <2> QED
    BY <2>1, PlaceOfMember
<1> QED
  BY <1>2, <1>3, <1>4, <1>5 DEF Down, Up

LEMMA AroundOnce ==
  ASSUME NEW n \in Nat \ {0}, NEW i \in 0 .. n - 1
  PROVE  (i - 1 + n) % n = Down(i, n) /\ (i + 1) % n = Up(i, n)
<1>1. (0 * n + i) - 1 + n = i - 1 + n /\ 0 * n + i + 1 = i + 1 /\ 0 \in Nat
  OBVIOUS
<1>2. ((0 * n + i) - 1 + n) % n = Down(i, n) /\ (0 * n + i + 1) % n = Up(i, n)
  BY Around
<1> QED
  BY <1>1, <1>2

LEMMA Products ==
  ASSUME NEW n \in Nat, NEW a \in Nat
  PROVE  /\ a * n \in Nat
         /\ (a - 1) * n = a * n - n
         /\ (a + 1) * n = a * n + n
OBVIOUS

\* A step of a node is a step in its chip, and one of the chip at its edge.
Width == KNode * KChip
Row(i, k) == k * KNode + i
DownChip(i, k) == IF i = 0 THEN Down(k, KChip) ELSE k
UpChip(i, k) == IF i = KNode - 1 THEN Up(k, KChip) ELSE k

LEMMA RowFacts ==
  ASSUME NEW i \in InChip, NEW k \in Chips
  PROVE  /\ Width \in Nat \ {0}
         /\ Row(i, k) \in 0 .. Width - 1
         /\ Row(i, k) = 0 <=> i = 0 /\ k = 0
         /\ Row(i, k) = Width - 1 <=> i = KNode - 1 /\ k = KChip - 1
<1> USE MeshAssumption DEF InChip, Chips
<1>1. k * KNode \in Nat /\ Width \in Nat
  BY DEF Width
<1>2. Width = (KChip - 1) * KNode + KNode
  BY DEF Width
<1>3. (k # 0 => k * KNode >= KNode) /\ (k = 0 => k * KNode = 0)
  OBVIOUS
<1>4. ASSUME k # KChip - 1 PROVE k * KNode + KNode <= (KChip - 1) * KNode
  <2>1. k + 1 <= KChip - 1
    BY <1>4
  <2>2. (k + 1) * KNode <= (KChip - 1) * KNode
    BY <2>1
  <2> QED
    BY <2>2
<1>5. (KChip - 1) * KNode \in Nat
  OBVIOUS
<1>6. k = KChip - 1 => k * KNode = (KChip - 1) * KNode
  OBVIOUS
<1> HIDE DEF Width
<1> QED
  BY <1>1, <1>2, <1>3, <1>4, <1>5, <1>6 DEF Row

LEMMA RowSteps ==
  ASSUME NEW i \in InChip, NEW k \in Chips
  PROVE  /\ Down(i, KNode) \in InChip /\ DownChip(i, k) \in Chips
         /\ Up(i, KNode) \in InChip /\ UpChip(i, k) \in Chips
         /\ Row(Down(i, KNode), DownChip(i, k)) = Down(Row(i, k), Width)
         /\ Row(Up(i, KNode), UpChip(i, k)) = Up(Row(i, k), Width)
<1> USE MeshAssumption DEF InChip, Chips
<1>1. /\ Down(i, KNode) \in InChip /\ DownChip(i, k) \in Chips
      /\ Up(i, KNode) \in InChip /\ UpChip(i, k) \in Chips
  BY DEF Down, Up, DownChip, UpChip
<1>2. k * KNode \in Nat /\ (k - 1) * KNode = k * KNode - KNode
      /\ (k + 1) * KNode = k * KNode + KNode /\ 0 * KNode = 0
      /\ (KChip - 1) * KNode = Width - KNode /\ Width \in Nat
  BY DEF Width
<1>3. Row(Down(i, KNode), DownChip(i, k)) = Down(Row(i, k), Width)
  <2>1. ASSUME i # 0 PROVE Row(Down(i, KNode), DownChip(i, k)) = Row(i, k) - 1
    BY <1>2, <2>1 DEF Row, Down, DownChip
  <2>2. ASSUME i = 0, k # 0 PROVE Row(Down(i, KNode), DownChip(i, k)) = Row(i, k) - 1
    BY <1>2, <2>2 DEF Row, Down, DownChip
  <2>3. ASSUME i = 0, k = 0 PROVE Row(Down(i, KNode), DownChip(i, k)) = Width - 1
    BY <1>2, <2>3 DEF Row, Down, DownChip
  <2> QED
    BY <2>1, <2>2, <2>3, RowFacts DEF Down
<1>4. Row(Up(i, KNode), UpChip(i, k)) = Up(Row(i, k), Width)
  <2>1. ASSUME i # KNode - 1 PROVE Row(Up(i, KNode), UpChip(i, k)) = Row(i, k) + 1
    BY <1>2, <2>1 DEF Row, Up, UpChip
  <2>2. ASSUME i = KNode - 1, k # KChip - 1
        PROVE  Row(Up(i, KNode), UpChip(i, k)) = Row(i, k) + 1
    BY <1>2, <2>2 DEF Row, Up, UpChip
  <2>3. ASSUME i = KNode - 1, k = KChip - 1 PROVE Row(Up(i, KNode), UpChip(i, k)) = 0
    BY <1>2, <2>3 DEF Row, Up, UpChip
  <2> QED
    BY <2>1, <2>2, <2>3, RowFacts DEF Up
<1> QED
  BY <1>1, <1>3, <1>4

\* Where the link at a port leads to, in the torus.
LEMMA TorusLinks ==
  ASSUME NEW n \in Mesh!Nodes
  PROVE  LET i == Mesh!InX(n)
             j == Mesh!InY(n)
             k == Mesh!ChipX(n)
             l == Mesh!ChipY(n)
         IN /\ Mesh!TorusLink(n, "xneg") = Place(Down(i, KNode), j, DownChip(i, k), l)
            /\ Mesh!TorusLink(n, "xpos") = Place(Up(i, KNode), j, UpChip(i, k), l)
            /\ Mesh!TorusLink(n, "yneg") = Place(i, Down(j, KNode), k, DownChip(j, l))
            /\ Mesh!TorusLink(n, "ypos") = Place(i, Up(j, KNode), k, UpChip(j, l))
<1> DEFINE i == Mesh!InX(n)
           j == Mesh!InY(n)
           k == Mesh!ChipX(n)
           l == Mesh!ChipY(n)
<1> USE MeshAssumption
<1>1. /\ i \in InChip /\ j \in InChip /\ k \in Chips /\ l \in Chips
      /\ n.node = j * KNode + i /\ n.chip = l * KChip + k
      /\ n = [node |-> n.node, chip |-> n.chip]
  BY NodePlace, Zenon DEF Place, Mesh!NodeID
<1> HIDE DEF i, j, k, l
<1>2. j * KNode \in Nat /\ l * KChip \in Nat
      /\ (j - 1) * KNode = j * KNode - KNode /\ (j + 1) * KNode = j * KNode + KNode
      /\ (KNode - 1) * KNode \in Nat /\ 0 * KNode = 0
  <2>1. j \in Nat /\ l \in Nat /\ KNode - 1 \in Nat
    BY ONLY <1>1, MeshAssumption DEF InChip, Chips
  <2> QED
    BY <2>1, Products
<1>3. /\ (n.chip - 1 + KChip) % KChip = Down(k, KChip)
      /\ (n.chip + 1) % KChip = Up(k, KChip)
  BY <1>1, Around DEF Chips
<1>4. /\ (l - 1 + KChip) % KChip = Down(l, KChip)
      /\ (l + 1) % KChip = Up(l, KChip)
  BY <1>1, AroundOnce DEF Chips
<1>5. Mesh!TorusLink(n, "xneg") = Place(Down(i, KNode), j, DownChip(i, k), l)
  <2>1. Mesh!AtChipEdge(n, "xneg") <=> i = 0
    BY DEF Mesh!AtChipEdge, i
  <2>2. Mesh!Facing(n, "xneg") = j * KNode + KNode - 1
    BY DEF Mesh!Facing, j
  <2>3. Mesh!TorusChip(n, "xneg") = l * KChip + Down(k, KChip)
    BY <1>3 DEF Mesh!TorusChip, l
  <2>4. Mesh!ChipLink(n, "xneg") = [node |-> n.node - 1, chip |-> n.chip]
    BY <1>1 DEF Mesh!ChipLink
  <2>5. CASE i = 0
    BY <1>1, <1>2, <2>1, <2>2, <2>3, <2>5
    DEF Mesh!TorusLink, Mesh!NodeID, Place, Down, DownChip, InChip, Chips
  <2>6. CASE i # 0
    BY <1>1, <1>2, <2>1, <2>4, <2>6
    DEF Mesh!TorusLink, Mesh!NodeID, Place, Down, DownChip, InChip, Chips
  <2> QED
    BY <2>5, <2>6
<1>6. Mesh!TorusLink(n, "xpos") = Place(Up(i, KNode), j, UpChip(i, k), l)
  <2>1. Mesh!AtChipEdge(n, "xpos") <=> i = KNode - 1
    BY DEF Mesh!AtChipEdge, i
  <2>2. Mesh!Facing(n, "xpos") = j * KNode
    BY DEF Mesh!Facing, j
  <2>3. Mesh!TorusChip(n, "xpos") = l * KChip + Up(k, KChip)
    BY <1>3 DEF Mesh!TorusChip, l
  <2>4. Mesh!ChipLink(n, "xpos") = [node |-> n.node + 1, chip |-> n.chip]
    BY <1>1 DEF Mesh!ChipLink
  <2>5. CASE i = KNode - 1
    BY <1>1, <1>2, <2>1, <2>2, <2>3, <2>5
    DEF Mesh!TorusLink, Mesh!NodeID, Place, Up, UpChip, InChip, Chips
  <2>6. CASE i # KNode - 1
    BY <1>1, <1>2, <2>1, <2>4, <2>6
    DEF Mesh!TorusLink, Mesh!NodeID, Place, Up, UpChip, InChip, Chips
  <2> QED
    BY <2>5, <2>6
<1>7. Mesh!TorusLink(n, "yneg") = Place(i, Down(j, KNode), k, DownChip(j, l))
  <2>1. Mesh!AtChipEdge(n, "yneg") <=> j = 0
    BY DEF Mesh!AtChipEdge, j
  <2>2. Mesh!Facing(n, "yneg") = i + (KNode - 1) * KNode
    BY DEF Mesh!Facing, i
  <2>3. Mesh!TorusChip(n, "yneg") = Down(l, KChip) * KChip + k
    BY <1>4 DEF Mesh!TorusChip, k, l
  <2>4. Mesh!ChipLink(n, "yneg") = [node |-> n.node - KNode, chip |-> n.chip]
    BY <1>1 DEF Mesh!ChipLink
  <2>5. CASE j = 0
    <3>1. Down(j, KNode) = KNode - 1 /\ DownChip(j, l) = Down(l, KChip)
      BY <2>5 DEF Down, DownChip
    <3>2. i + (KNode - 1) * KNode = (KNode - 1) * KNode + i
      BY <1>1, <1>2 DEF InChip
    <3> QED
      BY <2>1, <2>2, <2>3, <2>5, <3>1, <3>2, Zenon DEF Mesh!TorusLink, Mesh!NodeID, Place
  <2>6. CASE j # 0
    BY <1>1, <1>2, <2>1, <2>4, <2>6
    DEF Mesh!TorusLink, Mesh!NodeID, Place, Down, DownChip, InChip, Chips
  <2> QED
    BY <2>5, <2>6
<1>8. Mesh!TorusLink(n, "ypos") = Place(i, Up(j, KNode), k, UpChip(j, l))
  <2>1. Mesh!AtChipEdge(n, "ypos") <=> j = KNode - 1
    BY DEF Mesh!AtChipEdge, j
  <2>2. Mesh!Facing(n, "ypos") = i
    BY DEF Mesh!Facing, i
  <2>3. Mesh!TorusChip(n, "ypos") = Up(l, KChip) * KChip + k
    BY <1>4 DEF Mesh!TorusChip, k, l
  <2>4. Mesh!ChipLink(n, "ypos") = [node |-> n.node + KNode, chip |-> n.chip]
    BY <1>1 DEF Mesh!ChipLink
  <2>5. CASE j = KNode - 1
    <3>1. Up(j, KNode) = 0 /\ UpChip(j, l) = Up(l, KChip)
      BY <2>5 DEF Up, UpChip
    <3>2. i = 0 * KNode + i
      BY <1>1, <1>2 DEF InChip
    <3> QED
      BY <2>1, <2>2, <2>3, <2>5, <3>1, <3>2, Zenon DEF Mesh!TorusLink, Mesh!NodeID, Place
  <2>6. CASE j # KNode - 1
    BY <1>1, <1>2, <2>1, <2>4, <2>6
    DEF Mesh!TorusLink, Mesh!NodeID, Place, Up, UpChip, InChip, Chips
  <2> QED
    BY <2>5, <2>6
<1> QED
  BY <1>5, <1>6, <1>7, <1>8 DEF i, j, k, l

\* The mesh has the links of the torus that do not lead around an edge.
LEMMA MeshLinks ==
  ASSUME NEW n \in Mesh!Nodes, NEW port \in Mesh!Ports, ~Mesh!AtEdge(n, port)
  PROVE  Mesh!MeshLink(n, port) = Mesh!TorusLink(n, port)
<1> DEFINE k == Mesh!ChipX(n)
           l == Mesh!ChipY(n)
<1> USE MeshAssumption
<1>1. k \in Chips /\ l \in Chips /\ n.chip = l * KChip + k
  BY NodePlace
<1> HIDE DEF k, l
<1>2. /\ l * KChip \in Nat
      /\ (l - 1) * KChip = l * KChip - KChip /\ (l + 1) * KChip = l * KChip + KChip
  BY <1>1, Products DEF Chips
<1>3. /\ (n.chip - 1 + KChip) % KChip = Down(k, KChip)
      /\ (n.chip + 1) % KChip = Up(k, KChip)
  <2>1. l \in Nat /\ k \in 0 .. KChip - 1
    BY <1>1 DEF Chips
  <2>2. /\ ((l * KChip + k) - 1 + KChip) % KChip = Down(k, KChip)
        /\ ((l * KChip + k) + 1) % KChip = Up(k, KChip)
    BY <2>1, Around
  <2> QED
    BY <1>1, <2>2, Zenon
<1>4. /\ (l - 1 + KChip) % KChip = Down(l, KChip)
      /\ (l + 1) % KChip = Up(l, KChip)
  BY <1>1, AroundOnce DEF Chips
<1>5. SUFFICES ASSUME Mesh!AtChipEdge(n, port)
               PROVE  Mesh!MeshChip(n, port) = Mesh!TorusChip(n, port)
  BY DEF Mesh!MeshLink, Mesh!TorusLink
<1>6. CASE port = "xneg"
  <2>1. k # 0
    BY <1>5, <1>6 DEF Mesh!AtEdge, k
  <2>2. Mesh!TorusChip(n, port) = l * KChip + Down(k, KChip)
    BY <1>3, <1>6 DEF Mesh!TorusChip, l
  <2> QED
    BY <1>1, <1>2, <1>6, <2>1, <2>2 DEF Mesh!MeshChip, Down, Chips
<1>7. CASE port = "xpos"
  <2>1. k # KChip - 1
    BY <1>5, <1>7 DEF Mesh!AtEdge, k
  <2>2. Mesh!TorusChip(n, port) = l * KChip + Up(k, KChip)
    BY <1>3, <1>7 DEF Mesh!TorusChip, l
  <2> QED
    BY <1>1, <1>2, <1>7, <2>1, <2>2 DEF Mesh!MeshChip, Up, Chips
<1>8. CASE port = "yneg"
  <2>1. l # 0
    BY <1>5, <1>8 DEF Mesh!AtEdge, l
  <2>2. Mesh!TorusChip(n, port) = Down(l, KChip) * KChip + k
    BY <1>4, <1>8 DEF Mesh!TorusChip, k, l
  <2> QED
    BY <1>1, <1>2, <1>8, <2>1, <2>2 DEF Mesh!MeshChip, Down, Chips
<1>9. CASE port = "ypos"
  <2>1. l # KChip - 1
    BY <1>5, <1>9 DEF Mesh!AtEdge, l
  <2>2. Mesh!TorusChip(n, port) = Up(l, KChip) * KChip + k
    BY <1>4, <1>9 DEF Mesh!TorusChip, k, l
  <2> QED
    BY <1>1, <1>2, <1>9, <2>1, <2>2 DEF Mesh!MeshChip, Up, Chips
<1> QED
  BY <1>6, <1>7, <1>8, <1>9 DEF Mesh!Ports

-----------------------------------------------------------------------------
(* Rows and columns of the system.                                         *)

LEMMA NodeRow ==
  ASSUME NEW n \in Mesh!Nodes
  PROVE  /\ Mesh!X(n) = Row(Mesh!InX(n), Mesh!ChipX(n))
         /\ Mesh!Y(n) = Row(Mesh!InY(n), Mesh!ChipY(n))
         /\ Mesh!X(n) \in 0 .. Width - 1 /\ Mesh!Y(n) \in 0 .. Width - 1
         /\ Mesh!AtEdge(n, "xneg") <=> Mesh!X(n) = 0
         /\ Mesh!AtEdge(n, "xpos") <=> Mesh!X(n) = Width - 1
         /\ Mesh!AtEdge(n, "yneg") <=> Mesh!Y(n) = 0
         /\ Mesh!AtEdge(n, "ypos") <=> Mesh!Y(n) = Width - 1
<1>1. /\ Mesh!InX(n) \in InChip /\ Mesh!InY(n) \in InChip
      /\ Mesh!ChipX(n) \in Chips /\ Mesh!ChipY(n) \in Chips
  BY NodePlace
<1>2. /\ Mesh!X(n) = Row(Mesh!InX(n), Mesh!ChipX(n))
      /\ Mesh!Y(n) = Row(Mesh!InY(n), Mesh!ChipY(n))
  BY DEF Mesh!X, Mesh!Y, Row
<1>3. /\ Mesh!AtEdge(n, "xneg") <=> Mesh!InX(n) = 0 /\ Mesh!ChipX(n) = 0
      /\ Mesh!AtEdge(n, "xpos") <=> Mesh!InX(n) = KNode - 1 /\ Mesh!ChipX(n) = KChip - 1
      /\ Mesh!AtEdge(n, "yneg") <=> Mesh!InY(n) = 0 /\ Mesh!ChipY(n) = 0
      /\ Mesh!AtEdge(n, "ypos") <=> Mesh!InY(n) = KNode - 1 /\ Mesh!ChipY(n) = KChip - 1
  BY DEF Mesh!AtEdge, Mesh!AtChipEdge
<1> QED
  BY <1>1, <1>2, <1>3, RowFacts

\* Every step can be taken back, and crosses the edge both ways or not at all.
LEMMA StepsBack ==
  ASSUME NEW n \in Nat \ {0}, NEW i \in 0 .. n - 1
  PROVE  /\ Down(i, n) \in 0 .. n - 1 /\ Up(Down(i, n), n) = i /\ (Down(i, n) = n - 1 <=> i = 0)
         /\ Up(i, n) \in 0 .. n - 1 /\ Down(Up(i, n), n) = i /\ (Up(i, n) = 0 <=> i = n - 1)
BY DEF Down, Up

LEMMA ChipStepsBack ==
  ASSUME NEW i \in InChip, NEW k \in Chips
  PROVE  /\ UpChip(Down(i, KNode), DownChip(i, k)) = k
         /\ DownChip(Up(i, KNode), UpChip(i, k)) = k
<1>1. KNode \in Nat \ {0} /\ KChip \in Nat \ {0}
  BY MeshAssumption
<1>2. Down(i, KNode) = KNode - 1 <=> i = 0
  BY <1>1, StepsBack DEF InChip
<1>3. Up(i, KNode) = 0 <=> i = KNode - 1
  BY <1>1, StepsBack DEF InChip
<1>4. Up(Down(k, KChip), KChip) = k /\ Down(Up(k, KChip), KChip) = k
  BY <1>1, StepsBack DEF Chips
<1> QED
  BY <1>2, <1>3, <1>4, Zenon DEF UpChip, DownChip

\* What is next to a node in the torus: m is a node, the link of port back of m
\* leads to n, and if one of the links leads around an edge, the other does.
Paired(n, port, m, back) ==
  /\ m \in Mesh!Nodes
  /\ Mesh!TorusLink(m, back) = n
  /\ Mesh!AtChipEdge(m, back) <=> Mesh!AtChipEdge(n, port)
  /\ Mesh!AtEdge(m, back) <=> Mesh!AtEdge(n, port)

LEMMA LinkXneg ==
  ASSUME NEW n \in Mesh!Nodes
  PROVE  LET m == Mesh!TorusLink(n, "xneg")
         IN /\ Paired(n, "xneg", m, "xpos")
            /\ Mesh!X(m) = Down(Mesh!X(n), Width) /\ Mesh!Y(m) = Mesh!Y(n)
<1> DEFINE m == Mesh!TorusLink(n, "xneg")
           i == Mesh!InX(n)
           j == Mesh!InY(n)
           k == Mesh!ChipX(n)
           l == Mesh!ChipY(n)
<1>1. /\ i \in InChip /\ j \in InChip /\ k \in Chips /\ l \in Chips
      /\ n = Place(i, j, k, l)
  BY NodePlace
<1>2. m = Place(Down(i, KNode), j, DownChip(i, k), l)
  BY TorusLinks
<1>3. KNode \in Nat \ {0} /\ Width \in Nat \ {0}
  BY <1>1, MeshAssumption, RowFacts
<1>4. Down(i, KNode) \in InChip /\ DownChip(i, k) \in Chips
  BY <1>1, RowSteps
<1>5. /\ m \in Mesh!Nodes
      /\ Mesh!InX(m) = Down(i, KNode) /\ Mesh!InY(m) = j
      /\ Mesh!ChipX(m) = DownChip(i, k) /\ Mesh!ChipY(m) = l
  BY <1>1, <1>2, <1>4, PlaceFacts
<1> HIDE DEF m
<1>6. /\ Mesh!X(m) = Down(Mesh!X(n), Width) /\ Mesh!Y(m) = Mesh!Y(n)
  BY <1>1, <1>5, NodeRow, RowSteps
<1>7. Mesh!TorusLink(m, "xpos") = n
  <2>1. Up(Down(i, KNode), KNode) = i
    BY <1>1, <1>3, StepsBack DEF InChip
  <2>2. UpChip(Down(i, KNode), DownChip(i, k)) = k
    BY <1>1, ChipStepsBack
  <2>3. Mesh!TorusLink(m, "xpos")
          = Place(Up(Mesh!InX(m), KNode), Mesh!InY(m), UpChip(Mesh!InX(m), Mesh!ChipX(m)), Mesh!ChipY(m))
    BY <1>5, TorusLinks
  <2> QED
    BY <1>1, <1>5, <2>1, <2>2, <2>3
<1>8. Mesh!AtChipEdge(m, "xpos") <=> Mesh!AtChipEdge(n, "xneg")
  BY <1>1, <1>3, <1>5, StepsBack DEF Mesh!AtChipEdge, InChip
<1>9. Mesh!AtEdge(m, "xpos") <=> Mesh!AtEdge(n, "xneg")
  BY <1>3, <1>5, <1>6, NodeRow, StepsBack
<1> QED
  BY <1>5, <1>6, <1>7, <1>8, <1>9 DEF Paired, m

LEMMA LinkXpos ==
  ASSUME NEW n \in Mesh!Nodes
  PROVE  LET m == Mesh!TorusLink(n, "xpos")
         IN /\ Paired(n, "xpos", m, "xneg")
            /\ Mesh!X(m) = Up(Mesh!X(n), Width) /\ Mesh!Y(m) = Mesh!Y(n)
<1> DEFINE m == Mesh!TorusLink(n, "xpos")
           i == Mesh!InX(n)
           j == Mesh!InY(n)
           k == Mesh!ChipX(n)
           l == Mesh!ChipY(n)
<1>1. /\ i \in InChip /\ j \in InChip /\ k \in Chips /\ l \in Chips
      /\ n = Place(i, j, k, l)
  BY NodePlace
<1>2. m = Place(Up(i, KNode), j, UpChip(i, k), l)
  BY TorusLinks
<1>3. KNode \in Nat \ {0} /\ Width \in Nat \ {0}
  BY <1>1, MeshAssumption, RowFacts
<1>4. Up(i, KNode) \in InChip /\ UpChip(i, k) \in Chips
  BY <1>1, RowSteps
<1>5. /\ m \in Mesh!Nodes
      /\ Mesh!InX(m) = Up(i, KNode) /\ Mesh!InY(m) = j
      /\ Mesh!ChipX(m) = UpChip(i, k) /\ Mesh!ChipY(m) = l
  BY <1>1, <1>2, <1>4, PlaceFacts
<1> HIDE DEF m
<1>6. /\ Mesh!X(m) = Up(Mesh!X(n), Width) /\ Mesh!Y(m) = Mesh!Y(n)
  BY <1>1, <1>5, NodeRow, RowSteps
<1>7. Mesh!TorusLink(m, "xneg") = n
  <2>1. Down(Up(i, KNode), KNode) = i
    BY <1>1, <1>3, StepsBack DEF InChip
  <2>2. DownChip(Up(i, KNode), UpChip(i, k)) = k
    BY <1>1, ChipStepsBack
  <2>3. Mesh!TorusLink(m, "xneg")
          = Place(Down(Mesh!InX(m), KNode), Mesh!InY(m), DownChip(Mesh!InX(m), Mesh!ChipX(m)), Mesh!ChipY(m))
    BY <1>5, TorusLinks
  <2> QED
    BY <1>1, <1>5, <2>1, <2>2, <2>3
<1>8. Mesh!AtChipEdge(m, "xneg") <=> Mesh!AtChipEdge(n, "xpos")
  BY <1>1, <1>3, <1>5, StepsBack DEF Mesh!AtChipEdge, InChip
<1>9. Mesh!AtEdge(m, "xneg") <=> Mesh!AtEdge(n, "xpos")
  BY <1>3, <1>5, <1>6, NodeRow, StepsBack
<1> QED
  BY <1>5, <1>6, <1>7, <1>8, <1>9 DEF Paired, m

LEMMA LinkYneg ==
  ASSUME NEW n \in Mesh!Nodes
  PROVE  LET m == Mesh!TorusLink(n, "yneg")
         IN /\ Paired(n, "yneg", m, "ypos")
            /\ Mesh!Y(m) = Down(Mesh!Y(n), Width) /\ Mesh!X(m) = Mesh!X(n)
<1> DEFINE m == Mesh!TorusLink(n, "yneg")
           i == Mesh!InX(n)
           j == Mesh!InY(n)
           k == Mesh!ChipX(n)
           l == Mesh!ChipY(n)
<1>1. /\ i \in InChip /\ j \in InChip /\ k \in Chips /\ l \in Chips
      /\ n = Place(i, j, k, l)
  BY NodePlace
<1>2. m = Place(i, Down(j, KNode), k, DownChip(j, l))
  BY TorusLinks
<1>3. KNode \in Nat \ {0} /\ Width \in Nat \ {0}
  BY <1>1, MeshAssumption, RowFacts
<1>4. Down(j, KNode) \in InChip /\ DownChip(j, l) \in Chips
  BY <1>1, RowSteps
<1>5. /\ m \in Mesh!Nodes
      /\ Mesh!InX(m) = i /\ Mesh!InY(m) = Down(j, KNode)
      /\ Mesh!ChipX(m) = k /\ Mesh!ChipY(m) = DownChip(j, l)
  BY <1>1, <1>2, <1>4, PlaceFacts
<1> HIDE DEF m
<1>6. /\ Mesh!Y(m) = Down(Mesh!Y(n), Width) /\ Mesh!X(m) = Mesh!X(n)
  BY <1>1, <1>5, NodeRow, RowSteps
<1>7. Mesh!TorusLink(m, "ypos") = n
  <2>1. Up(Down(j, KNode), KNode) = j
    BY <1>1, <1>3, StepsBack DEF InChip
  <2>2. UpChip(Down(j, KNode), DownChip(j, l)) = l
    BY <1>1, ChipStepsBack
  <2>3. Mesh!TorusLink(m, "ypos")
          = Place(Mesh!InX(m), Up(Mesh!InY(m), KNode), Mesh!ChipX(m), UpChip(Mesh!InY(m), Mesh!ChipY(m)))
    BY <1>5, TorusLinks
  <2> QED
    BY <1>1, <1>5, <2>1, <2>2, <2>3
<1>8. Mesh!AtChipEdge(m, "ypos") <=> Mesh!AtChipEdge(n, "yneg")
  BY <1>1, <1>3, <1>5, StepsBack DEF Mesh!AtChipEdge, InChip
<1>9. Mesh!AtEdge(m, "ypos") <=> Mesh!AtEdge(n, "yneg")
  BY <1>3, <1>5, <1>6, NodeRow, StepsBack
<1> QED
  BY <1>5, <1>6, <1>7, <1>8, <1>9 DEF Paired, m

LEMMA LinkYpos ==
  ASSUME NEW n \in Mesh!Nodes
  PROVE  LET m == Mesh!TorusLink(n, "ypos")
         IN /\ Paired(n, "ypos", m, "yneg")
            /\ Mesh!Y(m) = Up(Mesh!Y(n), Width) /\ Mesh!X(m) = Mesh!X(n)
<1> DEFINE m == Mesh!TorusLink(n, "ypos")
           i == Mesh!InX(n)
           j == Mesh!InY(n)
           k == Mesh!ChipX(n)
           l == Mesh!ChipY(n)
<1>1. /\ i \in InChip /\ j \in InChip /\ k \in Chips /\ l \in Chips
      /\ n = Place(i, j, k, l)
  BY NodePlace
<1>2. m = Place(i, Up(j, KNode), k, UpChip(j, l))
  BY TorusLinks
<1>3. KNode \in Nat \ {0} /\ Width \in Nat \ {0}
  BY <1>1, MeshAssumption, RowFacts
<1>4. Up(j, KNode) \in InChip /\ UpChip(j, l) \in Chips
  BY <1>1, RowSteps
<1>5. /\ m \in Mesh!Nodes
      /\ Mesh!InX(m) = i /\ Mesh!InY(m) = Up(j, KNode)
      /\ Mesh!ChipX(m) = k /\ Mesh!ChipY(m) = UpChip(j, l)
  BY <1>1, <1>2, <1>4, PlaceFacts
<1> HIDE DEF m
<1>6. /\ Mesh!Y(m) = Up(Mesh!Y(n), Width) /\ Mesh!X(m) = Mesh!X(n)
  BY <1>1, <1>5, NodeRow, RowSteps
<1>7. Mesh!TorusLink(m, "yneg") = n
  <2>1. Down(Up(j, KNode), KNode) = j
    BY <1>1, <1>3, StepsBack DEF InChip
  <2>2. DownChip(Up(j, KNode), UpChip(j, l)) = l
    BY <1>1, ChipStepsBack
  <2>3. Mesh!TorusLink(m, "yneg")
          = Place(Mesh!InX(m), Down(Mesh!InY(m), KNode), Mesh!ChipX(m), DownChip(Mesh!InY(m), Mesh!ChipY(m)))
    BY <1>5, TorusLinks
  <2> QED
    BY <1>1, <1>5, <2>1, <2>2, <2>3
<1>8. Mesh!AtChipEdge(m, "yneg") <=> Mesh!AtChipEdge(n, "ypos")
  BY <1>1, <1>3, <1>5, StepsBack DEF Mesh!AtChipEdge, InChip
<1>9. Mesh!AtEdge(m, "yneg") <=> Mesh!AtEdge(n, "ypos")
  BY <1>3, <1>5, <1>6, NodeRow, StepsBack
<1> QED
  BY <1>5, <1>6, <1>7, <1>8, <1>9 DEF Paired, m

-----------------------------------------------------------------------------
(* Distances, in the mesh and in the torus.                                *)

\* The torus is made of the same chips.
LEMMA SameTorus ==
  ASSUME NEW n, NEW port
  PROVE  /\ Torus!TorusLink(n, port) = Mesh!TorusLink(n, port)
         /\ Torus!AtChipEdge(n, port) = Mesh!AtChipEdge(n, port)
         /\ Torus!AtEdge(n, port) = Mesh!AtEdge(n, port)
         /\ Torus!X(n) = Mesh!X(n) /\ Torus!Y(n) = Mesh!Y(n)
         /\ Torus!Opposite(port) = Mesh!Opposite(port)
         /\ Torus!K = Width /\ Mesh!K = Width
<1>1. /\ Torus!InX(n) = Mesh!InX(n) /\ Torus!InY(n) = Mesh!InY(n)
      /\ Torus!ChipX(n) = Mesh!ChipX(n) /\ Torus!ChipY(n) = Mesh!ChipY(n)
  BY DEF Torus!InX, Mesh!InX, Torus!InY, Mesh!InY, Torus!ChipX, Mesh!ChipX, Torus!ChipY, Mesh!ChipY
<1>2. Torus!AtChipEdge(n, port) = Mesh!AtChipEdge(n, port)
  BY <1>1, Zenon DEF Torus!AtChipEdge, Mesh!AtChipEdge
<1>3. Torus!AtEdge(n, port) = Mesh!AtEdge(n, port)
  BY <1>1, <1>2, Zenon DEF Torus!AtEdge, Mesh!AtEdge
<1>4. /\ Torus!Facing(n, port) = Mesh!Facing(n, port)
      /\ Torus!TorusChip(n, port) = Mesh!TorusChip(n, port)
      /\ Torus!ChipLink(n, port) = Mesh!ChipLink(n, port)
  BY <1>1, Zenon
  DEF Torus!Facing, Mesh!Facing, Torus!TorusChip, Mesh!TorusChip, Torus!ChipLink, Mesh!ChipLink
<1>5. Torus!TorusLink(n, port) = Mesh!TorusLink(n, port)
  BY <1>2, <1>4, Zenon DEF Torus!TorusLink, Mesh!TorusLink, Torus!NodeID, Mesh!NodeID
<1>6. Torus!X(n) = Mesh!X(n) /\ Torus!Y(n) = Mesh!Y(n)
  BY <1>1, Zenon DEF Torus!X, Mesh!X, Torus!Y, Mesh!Y
<1>7. Torus!Opposite(port) = Mesh!Opposite(port)
  BY Zenon DEF Torus!Opposite, Mesh!Opposite
<1>8. Torus!K = Width /\ Mesh!K = Width
  BY Zenon DEF Torus!K, Mesh!K, Width
<1> QED
  BY <1>2, <1>3, <1>5, <1>6, <1>7, <1>8, Zenon

\* A linked port leads to a node, whose opposite port is linked and leads back.
LEMMA Neighbours ==
  ASSUME NEW c, NEW n \in Mesh!Nodes, NEW port \in LinkedPorts(c, n)
  PROVE  LET m == Link(c, n, port)
         IN /\ m = Mesh!TorusLink(n, port)
            /\ m \in Mesh!Nodes
            /\ Mesh!Opposite(port) \in LinkedPorts(c, m)
            /\ Link(c, m, Mesh!Opposite(port)) = n
            /\ MCChannel(c, m, Mesh!Opposite(port)) = MCChannel(c, n, port)
<1> DEFINE m == Mesh!TorusLink(n, port)
           back == Mesh!Opposite(port)
<1>1. port \in Mesh!Ports /\ back \in Mesh!Ports /\ (c # "CLUE" => ~Mesh!AtEdge(n, port))
  BY DEF LinkedPorts, Mesh!Ports, Mesh!Opposite
<1>2. Paired(n, port, m, back)
  <2>1. CASE port = "xneg"
    BY <2>1, LinkXneg DEF Mesh!Opposite
  <2>2. CASE port = "xpos"
    BY <2>2, LinkXpos DEF Mesh!Opposite
  <2>3. CASE port = "yneg"
    BY <2>3, LinkYneg DEF Mesh!Opposite
  <2>4. CASE port = "ypos"
    BY <2>4, LinkYpos DEF Mesh!Opposite
  <2> QED
    BY <1>1, <2>1, <2>2, <2>3, <2>4 DEF Mesh!Ports
<1> HIDE DEF m, back
<1>3. /\ m \in Mesh!Nodes /\ Mesh!TorusLink(m, back) = n
      /\ Mesh!AtChipEdge(m, back) <=> Mesh!AtChipEdge(n, port)
      /\ Mesh!AtEdge(m, back) <=> Mesh!AtEdge(n, port)
  BY <1>2 DEF Paired
<1>4. back \in LinkedPorts(c, m)
  BY <1>1, <1>3 DEF LinkedPorts
<1>5. CASE c = "CLUE"
  <2>1. Link(c, n, port) = m /\ Link(c, m, back) = n
    BY <1>3, <1>5, SameTorus, Zenon DEF Link, m
  <2>2. MCChannel(c, m, back) = MCChannel(c, n, port)
    BY <1>3, <1>5, SameTorus DEF MCChannel, Torus!TorusChannel
  <2> QED
    BY <1>3, <1>4, <2>1, <2>2 DEF m, back
<1>6. CASE c # "CLUE"
  <2>1. Link(c, n, port) = m
    BY <1>1, <1>6, MeshLinks DEF Link, m
  <2>2. Link(c, m, back) = n
    BY <1>1, <1>3, <1>6, MeshLinks DEF Link
  <2>3. MCChannel(c, m, back) = MCChannel(c, n, port)
    BY <1>3, <1>6 DEF MCChannel, Mesh!MeshChannel
  <2> QED
    BY <1>3, <1>4, <2>1, <2>2, <2>3 DEF m, back
<1> QED
  BY <1>5, <1>6

\* A step that is not around the edge, or is in the torus, is one step away.
LEMMA OneAway ==
  ASSUME NEW c, Width >= 2, NEW i \in 0 .. Width - 1
  PROVE  /\ Away(c, i, i) = 0
         /\ c = "CLUE" \/ i # 0 => Away(c, i, Down(i, Width)) = 1
         /\ c = "CLUE" \/ i # Width - 1 => Away(c, i, Up(i, Width)) = 1
<1>1. Width \in Nat /\ Mesh!K = Width
  BY MeshAssumption, Products DEF Width, Mesh!K
<1> HIDE DEF Width
<1> QED
  BY <1>1 DEF Away, Down, Up

LEMMA LinkDistance ==
  ASSUME NEW c, Width >= 2, NEW n \in Mesh!Nodes, NEW port \in LinkedPorts(c, n)
  PROVE  MCDistance(c, n, Link(c, n, port)) = 1
<1> DEFINE m == Mesh!TorusLink(n, port)
<1>1. /\ port \in Mesh!Ports /\ (c # "CLUE" => ~Mesh!AtEdge(n, port))
      /\ Link(c, n, port) = m /\ m \in Mesh!Nodes
  BY Neighbours DEF LinkedPorts
<1>2. Mesh!X(n) \in 0 .. Width - 1 /\ Mesh!Y(n) \in 0 .. Width - 1
  BY NodeRow
<1> HIDE DEF m
<1>3. SUFFICES Away(c, Mesh!X(n), Mesh!X(m)) + Away(c, Mesh!Y(n), Mesh!Y(m)) = 1
  BY <1>1 DEF MCDistance
<1>4. CASE port = "xneg"
  BY <1>1, <1>2, <1>4, LinkXneg, NodeRow, OneAway DEF m
<1>5. CASE port = "xpos"
  BY <1>1, <1>2, <1>5, LinkXpos, NodeRow, OneAway DEF m
<1>6. CASE port = "yneg"
  BY <1>1, <1>2, <1>6, LinkYneg, NodeRow, OneAway DEF m
<1>7. CASE port = "ypos"
  BY <1>1, <1>2, <1>7, LinkYpos, NodeRow, OneAway DEF m
<1> QED
  BY <1>1, <1>4, <1>5, <1>6, <1>7 DEF Mesh!Ports

-----------------------------------------------------------------------------
(* The ports that bring a packet at node n closer to node d.               *)

Nearer(c, n, d) ==
  {port \in LinkedPorts(c, n) : MCDistance(c, Link(c, n, port), d) = MCDistance(c, n, d) - 1}

LEMMA StepsInMesh ==
  ASSUME NEW c, c # "CLUE", NEW i \in 0 .. Width - 1, NEW j \in 0 .. Width - 1
  PROVE  /\ j < i => i # 0 /\ Away(c, Down(i, Width), j) = Away(c, i, j) - 1
         /\ i < j => i # Width - 1 /\ Away(c, Up(i, Width), j) = Away(c, i, j) - 1
         /\ Away(c, i, j) \in Nat
<1>1. Width \in Nat
  BY MeshAssumption, Products DEF Width
<1> HIDE DEF Width
<1> QED
  BY <1>1 DEF Away, Down, Up

LEMMA StepsInTorus ==
  ASSUME NEW c, c = "CLUE", NEW i \in 0 .. Width - 1, NEW j \in 0 .. Width - 1
  PROVE  /\ Torus!Negative(j - i) => Away(c, Down(i, Width), j) = Away(c, i, j) - 1
         /\ Torus!Positive(j - i) => Away(c, Up(i, Width), j) = Away(c, i, j) - 1
         /\ Away(c, i, j) \in Nat
<1>1. Width \in Nat /\ Mesh!K = Width /\ Torus!K = Width
  BY MeshAssumption, Products, SameTorus DEF Width
<1> DEFINE half == Width \div 2
<1>2. half \in Nat /\ 2 * half <= Width /\ Width <= 2 * half + 1 /\ Torus!Half = half
  BY <1>1 DEF Torus!Half
<1> HIDE DEF Width, half
<1>3. ASSUME Torus!Negative(j - i) PROVE Away(c, Down(i, Width), j) = Away(c, i, j) - 1
  <2>1. (-half <= j - i /\ j - i < 0) \/ j - i > half
    BY <1>2, <1>3 DEF Torus!Negative
  <2> QED
    BY <1>1, <1>2, <2>1 DEF Away, Down
<1>4. ASSUME Torus!Positive(j - i) PROVE Away(c, Up(i, Width), j) = Away(c, i, j) - 1
  <2>1. (0 < j - i /\ j - i <= half) \/ j - i < -half
    BY <1>2, <1>4 DEF Torus!Positive
  <2> QED
    BY <1>1, <1>2, <2>1 DEF Away, Up
<1>5. Away(c, i, j) \in Nat
  BY <1>1 DEF Away
<1> QED
  BY <1>3, <1>4, <1>5

LEMMA NearerInMesh ==
  ASSUME NEW c, c # "CLUE", NEW n \in Mesh!Nodes, NEW d \in Mesh!Nodes
  PROVE  /\ Mesh!DisX(n, d) < 0 => "xneg" \in Nearer(c, n, d)
         /\ Mesh!DisX(n, d) > 0 => "xpos" \in Nearer(c, n, d)
         /\ Mesh!DisY(n, d) < 0 => "yneg" \in Nearer(c, n, d)
         /\ Mesh!DisY(n, d) > 0 => "ypos" \in Nearer(c, n, d)
<1> DEFINE x == Mesh!X(n)
           y == Mesh!Y(n)
           u == Mesh!X(d)
           v == Mesh!Y(d)
<1>1. /\ x \in 0 .. Width - 1 /\ y \in 0 .. Width - 1
      /\ u \in 0 .. Width - 1 /\ v \in 0 .. Width - 1
      /\ Mesh!DisX(n, d) = u - x /\ Mesh!DisY(n, d) = v - y
  BY NodeRow DEF Mesh!DisX, Mesh!DisY
<1>2. /\ "xneg" \in LinkedPorts(c, n) <=> x # 0
      /\ "xpos" \in LinkedPorts(c, n) <=> x # Width - 1
      /\ "yneg" \in LinkedPorts(c, n) <=> y # 0
      /\ "ypos" \in LinkedPorts(c, n) <=> y # Width - 1
  BY NodeRow DEF LinkedPorts, Mesh!Ports
<1>3. MCDistance(c, n, d) = Away(c, x, u) + Away(c, y, v)
  BY DEF MCDistance
<1>4. Away(c, x, u) \in Nat /\ Away(c, y, v) \in Nat
  BY <1>1, StepsInMesh
<1>5. \A port \in LinkedPorts(c, n) :
        LET m == Mesh!TorusLink(n, port)
        IN MCDistance(c, Link(c, n, port), d) = Away(c, Mesh!X(m), u) + Away(c, Mesh!Y(m), v)
  BY Neighbours DEF MCDistance
<1> HIDE DEF x, y, u, v
<1>6. ASSUME u < x PROVE "xneg" \in Nearer(c, n, d)
  <2>1. x # 0 /\ Away(c, Down(x, Width), u) = Away(c, x, u) - 1
    BY <1>1, <1>6, StepsInMesh
  <2>2. MCDistance(c, Link(c, n, "xneg"), d) = Away(c, Down(x, Width), u) + Away(c, y, v)
    BY <1>2, <1>5, <2>1, LinkXneg DEF x, y
  <2> QED
    BY <1>2, <1>3, <1>4, <2>1, <2>2 DEF Nearer
<1>7. ASSUME x < u PROVE "xpos" \in Nearer(c, n, d)
  <2>1. x # Width - 1 /\ Away(c, Up(x, Width), u) = Away(c, x, u) - 1
    BY <1>1, <1>7, StepsInMesh
  <2>2. MCDistance(c, Link(c, n, "xpos"), d) = Away(c, Up(x, Width), u) + Away(c, y, v)
    BY <1>2, <1>5, <2>1, LinkXpos DEF x, y
  <2> QED
    BY <1>2, <1>3, <1>4, <2>1, <2>2 DEF Nearer
<1>8. ASSUME v < y PROVE "yneg" \in Nearer(c, n, d)
  <2>1. y # 0 /\ Away(c, Down(y, Width), v) = Away(c, y, v) - 1
    BY <1>1, <1>8, StepsInMesh
  <2>2. MCDistance(c, Link(c, n, "yneg"), d) = Away(c, x, u) + Away(c, Down(y, Width), v)
    BY <1>2, <1>5, <2>1, LinkYneg DEF x, y
  <2> QED
    BY <1>2, <1>3, <1>4, <2>1, <2>2 DEF Nearer
<1>9. ASSUME y < v PROVE "ypos" \in Nearer(c, n, d)
  <2>1. y # Width - 1 /\ Away(c, Up(y, Width), v) = Away(c, y, v) - 1
    BY <1>1, <1>9, StepsInMesh
  <2>2. MCDistance(c, Link(c, n, "ypos"), d) = Away(c, x, u) + Away(c, Up(y, Width), v)
    BY <1>2, <1>5, <2>1, LinkYpos DEF x, y
  <2> QED
    BY <1>2, <1>3, <1>4, <2>1, <2>2 DEF Nearer
<1>10. Width \in Nat
  BY MeshAssumption, Products DEF Width
<1> HIDE DEF Width
<1>11. (u - x < 0 => u < x) /\ (u - x > 0 => x < u) /\ (v - y < 0 => v < y) /\ (v - y > 0 => y < v)
  BY <1>1, <1>10
<1> QED
  BY <1>1, <1>6, <1>7, <1>8, <1>9, <1>11

LEMMA NearerInTorus ==
  ASSUME NEW c, c = "CLUE", NEW n \in Mesh!Nodes, NEW d \in Mesh!Nodes
  PROVE  /\ Torus!Negative(Torus!DisX(n, d)) => "xneg" \in Nearer(c, n, d)
         /\ Torus!Positive(Torus!DisX(n, d)) => "xpos" \in Nearer(c, n, d)
         /\ Torus!Negative(Torus!DisY(n, d)) => "yneg" \in Nearer(c, n, d)
         /\ Torus!Positive(Torus!DisY(n, d)) => "ypos" \in Nearer(c, n, d)
<1> DEFINE x == Mesh!X(n)
           y == Mesh!Y(n)
           u == Mesh!X(d)
           v == Mesh!Y(d)
<1>1. /\ x \in 0 .. Width - 1 /\ y \in 0 .. Width - 1
      /\ u \in 0 .. Width - 1 /\ v \in 0 .. Width - 1
      /\ Torus!DisX(n, d) = u - x /\ Torus!DisY(n, d) = v - y
  BY NodeRow, SameTorus DEF Torus!DisX, Torus!DisY
<1>2. LinkedPorts(c, n) = {"xneg", "xpos", "yneg", "ypos"}
  BY DEF LinkedPorts, Mesh!Ports
<1>3. MCDistance(c, n, d) = Away(c, x, u) + Away(c, y, v)
  BY DEF MCDistance
<1>4. Away(c, x, u) \in Nat /\ Away(c, y, v) \in Nat
  BY <1>1, StepsInTorus
<1>5. \A port \in LinkedPorts(c, n) :
        LET m == Mesh!TorusLink(n, port)
        IN MCDistance(c, Link(c, n, port), d) = Away(c, Mesh!X(m), u) + Away(c, Mesh!Y(m), v)
  BY Neighbours DEF MCDistance
<1> HIDE DEF x, y, u, v
<1>6. ASSUME Torus!Negative(u - x) PROVE "xneg" \in Nearer(c, n, d)
  <2>1. Away(c, Down(x, Width), u) = Away(c, x, u) - 1
    BY <1>1, <1>6, StepsInTorus
  <2>2. MCDistance(c, Link(c, n, "xneg"), d) = Away(c, Down(x, Width), u) + Away(c, y, v)
    BY <1>2, <1>5, <2>1, LinkXneg DEF x, y
  <2> QED
    BY <1>2, <1>3, <1>4, <2>1, <2>2 DEF Nearer
<1>7. ASSUME Torus!Positive(u - x) PROVE "xpos" \in Nearer(c, n, d)
  <2>1. Away(c, Up(x, Width), u) = Away(c, x, u) - 1
    BY <1>1, <1>7, StepsInTorus
  <2>2. MCDistance(c, Link(c, n, "xpos"), d) = Away(c, Up(x, Width), u) + Away(c, y, v)
    BY <1>2, <1>5, <2>1, LinkXpos DEF x, y
  <2> QED
    BY <1>2, <1>3, <1>4, <2>1, <2>2 DEF Nearer
<1>8. ASSUME Torus!Negative(v - y) PROVE "yneg" \in Nearer(c, n, d)
  <2>1. Away(c, Down(y, Width), v) = Away(c, y, v) - 1
    BY <1>1, <1>8, StepsInTorus
  <2>2. MCDistance(c, Link(c, n, "yneg"), d) = Away(c, x, u) + Away(c, Down(y, Width), v)
    BY <1>2, <1>5, <2>1, LinkYneg DEF x, y
  <2> QED
    BY <1>2, <1>3, <1>4, <2>1, <2>2 DEF Nearer
<1>9. ASSUME Torus!Positive(v - y) PROVE "ypos" \in Nearer(c, n, d)
  <2>1. Away(c, Up(y, Width), v) = Away(c, y, v) - 1
    BY <1>1, <1>9, StepsInTorus
  <2>2. MCDistance(c, Link(c, n, "ypos"), d) = Away(c, x, u) + Away(c, Up(y, Width), v)
    BY <1>2, <1>5, <2>1, LinkYpos DEF x, y
  <2> QED
    BY <1>2, <1>3, <1>4, <2>1, <2>2 DEF Nearer
<1> QED
  BY <1>1, <1>6, <1>7, <1>8, <1>9

-----------------------------------------------------------------------------
(* The channels that the algorithms offer at node n for destination d:     *)
(* those of some ports.                                                    *)

Names == {"XY", "NFR", "NFR_adaptive", "CLUE"}

Channels(c, n, ports, vcs) ==
  {<<<<Link(c, n, port), Mesh!Opposite(port)>>, v>> : port \in ports, v \in vcs}

\* Candidates r are the channels of some set.
Lists(r, set) == r \in Seq(set) /\ Range(r) = set

LEMMA ListsNone == Lists(<<>>, {})
BY EmptySeq DEF Lists, Range

LEMMA ListsJoined ==
  ASSUME NEW r, NEW t, NEW R, NEW T, Lists(r, R), Lists(t, T)
  PROVE  Lists(r \o t, R \cup T)
<1>1. r \in Seq(R \cup T) /\ t \in Seq(R \cup T)
  BY SeqMonotonic DEF Lists
<1>2. r \o t \in Seq(R \cup T)
  BY <1>1, ConcatProperties
<1> QED
  BY <1>1, <1>2, RangeJoined DEF Lists

LEMMA MeshLists ==
  ASSUME NEW c, c # "CLUE", NEW n, NEW port, NEW first \in Int, NEW last \in Int
  PROVE  Lists(Mesh!VCs(n, port, first, last), Channels(c, n, {port}, first .. last))
<1> DEFINE S == Channels(c, n, {port}, first .. last)
           b == <<Link(c, n, port), Mesh!Opposite(port)>>
           e(i) == <<b, first + i - 1>>
           size == IF first <= last THEN last - first + 1 ELSE 0
           r == [i \in 1 .. size |-> e(i)]
<1>1. size \in Nat /\ 1 .. last - first + 1 = 1 .. size
  OBVIOUS
<1>2. \A i \in 1 .. size : first + i - 1 \in first .. last
  OBVIOUS
<1>3. \A v \in first .. last : v - first + 1 \in 1 .. size /\ first + (v - first + 1) - 1 = v
  OBVIOUS
<1>4. Mesh!VCs(n, port, first, last) = r
  BY <1>1 DEF Mesh!VCs, Mesh!LinkBuffer, Link
<1>5. S = {<<b, v>> : v \in first .. last}
  BY DEF Channels
<1> HIDE DEF S, b, size
<1>6. \A i \in 1 .. size : e(i) \in S
  BY <1>2, <1>5
<1>7. r \in Seq(S)
  <2> HIDE DEF e
  <2> QED
    BY <1>1, <1>6, IsASeq
<1>8. Range(r) = S
  <2>1. Range(r) = {e(i) : i \in 1 .. size}
    BY DEF Range
  <2>2. ASSUME NEW x \in S PROVE x \in {e(i) : i \in 1 .. size}
    <3>1. PICK v \in first .. last : x = <<b, v>>
      BY <1>5, <2>2
    <3>2. v - first + 1 \in 1 .. size /\ e(v - first + 1) = x
      BY <1>3, <3>1
    <3> QED
      BY <3>2
  <2> QED
    BY <1>6, <2>1, <2>2
<1> QED
  BY <1>4, <1>7, <1>8 DEF Lists, S

LEMMA TorusLists ==
  ASSUME NEW c, c = "CLUE", NEW n, NEW port, NEW v
  PROVE  Lists(Torus!VC(n, port, v), Channels(c, n, {port}, {v}))
<1>1. Torus!LinkBuffer(n, port) = <<Link(c, n, port), Mesh!Opposite(port)>>
  BY SameTorus DEF Torus!LinkBuffer, Link
<1> DEFINE x == <<Torus!LinkBuffer(n, port), v>>
<1>2. Channels(c, n, {port}, {v}) = {x}
  BY <1>1 DEF Channels
<1>3. Torus!VC(n, port, v) = <<x>>
  BY DEF Torus!VC
<1> HIDE DEF x
<1>4. <<x>> \in Seq({x}) /\ Range(<<x>>) = {x}
  BY DEF Range
<1> QED
  BY <1>2, <1>3, <1>4 DEF Lists

\* The ports that the algorithms take for an offset.
XYPorts(dx, dy) ==
  {port \in Mesh!Ports :
     \/ port = "xneg" /\ dx < 0
     \/ port = "xpos" /\ dx > 0
     \/ port = "yneg" /\ dx = 0 /\ dy < 0
     \/ port = "ypos" /\ dx = 0 /\ dy > 0}

NegativeFirstPorts(dx, dy) ==
  {port \in Mesh!Ports :
     \/ port = "xneg" /\ dx < 0
     \/ port = "yneg" /\ dy < 0
     \/ port = "xpos" /\ dx > 0 /\ dy >= 0
     \/ port = "ypos" /\ dx >= 0 /\ dy > 0}

MinimalPorts(dx, dy) ==
  {port \in Mesh!Ports :
     \/ port = "xneg" /\ dx < 0
     \/ port = "xpos" /\ dx > 0
     \/ port = "yneg" /\ dy < 0
     \/ port = "ypos" /\ dy > 0}

ShorterPorts(dx, dy) ==
  {port \in Mesh!Ports :
     \/ port = "xneg" /\ Torus!Negative(dx)
     \/ port = "xpos" /\ Torus!Positive(dx)
     \/ port = "yneg" /\ Torus!Negative(dy)
     \/ port = "ypos" /\ Torus!Positive(dy)}

EscapePorts(n, dx, dy) ==
  IF Torus!Abs(dx) <= Torus!Half /\ Torus!Abs(dy) <= Torus!Half THEN NegativeFirstPorts(dx, dy)
  ELSE IF Torus!Abs(dx) > Torus!Half
  THEN {port \in {"xneg", "xpos"} : Mesh!AtEdge(n, port)}
  ELSE {port \in {"yneg", "ypos"} : Mesh!AtEdge(n, port)}

LEMMA NegativeFirstLists ==
  ASSUME NEW c, c # "CLUE", NEW n \in Mesh!Nodes, NEW d \in Mesh!Nodes,
         NEW first \in Int, NEW last \in Int
  PROVE  Lists(Mesh!NegativeFirst(n, d, first, last),
               Channels(c, n, NegativeFirstPorts(Mesh!DisX(n, d), Mesh!DisY(n, d)), first .. last))
<1> DEFINE dx == Mesh!DisX(n, d)
           dy == Mesh!DisY(n, d)
           All(port) == Mesh!VCs(n, port, first, last)
           C(ports) == Channels(c, n, ports, first .. last)
           left == Mesh!When(dx < 0, All("xneg"))
           right == Mesh!When(dx > 0, All("xpos"))
           down == Mesh!When(dy < 0, All("yneg"))
           up == Mesh!When(dy > 0, All("ypos"))
           Left == IF dx < 0 THEN C({"xneg"}) ELSE {}
           Right == IF dx > 0 THEN C({"xpos"}) ELSE {}
           Lower == IF dy < 0 THEN C({"yneg"}) ELSE {}
           Upper == IF dy > 0 THEN C({"ypos"}) ELSE {}
<1>1. dx \in Int /\ dy \in Int
  BY NodeRow DEF Mesh!DisX, Mesh!DisY
<1>2. \A port \in Mesh!Ports : Lists(All(port), C({port}))
  BY MeshLists
<1>3. Mesh!NegativeFirst(n, d, first, last)
        = IF dx < 0 \/ dy < 0 THEN left \o down ELSE right \o up
  BY Zenon DEF Mesh!NegativeFirst
<1>4. C(NegativeFirstPorts(dx, dy)) = IF dx < 0 \/ dy < 0 THEN Left \cup Lower ELSE Right \cup Upper
  <2> HIDE DEF dx, dy
  <2>1. CASE dx < 0 \/ dy < 0
    <3>1. NegativeFirstPorts(dx, dy)
            = (IF dx < 0 THEN {"xneg"} ELSE {}) \cup (IF dy < 0 THEN {"yneg"} ELSE {})
      BY <1>1, <2>1 DEF NegativeFirstPorts, Mesh!Ports
    <3> QED
      BY <2>1, <3>1 DEF Channels
  <2>2. CASE ~(dx < 0 \/ dy < 0)
    <3>1. NegativeFirstPorts(dx, dy)
            = (IF dx > 0 THEN {"xpos"} ELSE {}) \cup (IF dy > 0 THEN {"ypos"} ELSE {})
      BY <1>1, <2>2 DEF NegativeFirstPorts, Mesh!Ports
    <3> QED
      BY <2>2, <3>1 DEF Channels
  <2> QED
    BY <2>1, <2>2
<1> HIDE DEF dx, dy, All, C
<1>5. Lists(left, Left) /\ Lists(right, Right) /\ Lists(down, Lower) /\ Lists(up, Upper)
  BY <1>2, ListsNone DEF Mesh!When, Mesh!Ports
<1> HIDE DEF left, right, down, up, Left, Right, Lower, Upper
<1>6. Lists(left \o down, Left \cup Lower) /\ Lists(right \o up, Right \cup Upper)
  BY <1>5, ListsJoined
<1>7. Lists(Mesh!NegativeFirst(n, d, first, last), C(NegativeFirstPorts(dx, dy)))
  BY <1>3, <1>4, <1>6
<1> QED
  BY <1>7 DEF C, dx, dy

LEMMA XYLists ==
  ASSUME NEW c, c # "CLUE", NEW n \in Mesh!Nodes, NEW d \in Mesh!Nodes
  PROVE  Lists(Mesh!XY_routing(n, d),
               Channels(c, n, XYPorts(Mesh!DisX(n, d), Mesh!DisY(n, d)), 0 .. VCNumber - 1))
<1> DEFINE dx == Mesh!DisX(n, d)
           dy == Mesh!DisY(n, d)
           ports == XYPorts(dx, dy)
<1>1. dx \in Int /\ dy \in Int
  BY NodeRow DEF Mesh!DisX, Mesh!DisY
<1>2. \A port \in Mesh!Ports :
        Lists(Mesh!VCs(n, port, 0, VCNumber - 1), Channels(c, n, {port}, 0 .. VCNumber - 1))
  BY MeshAssumption, MeshLists
<1>3. Lists(<<>>, Channels(c, n, {}, 0 .. VCNumber - 1))
  <2>1. Channels(c, n, {}, 0 .. VCNumber - 1) = {}
    BY DEF Channels
  <2> QED
    BY <2>1, ListsNone, Zenon
<1>4. CASE dx # 0
  <2>1. ports = {Mesh!TowardX(n, d)} /\ Mesh!TowardX(n, d) \in Mesh!Ports
    BY <1>1, <1>4 DEF XYPorts, Mesh!Ports, Mesh!TowardX
  <2>2. Mesh!XY_routing(n, d) = Mesh!VCs(n, Mesh!TowardX(n, d), 0, VCNumber - 1)
    BY <1>4 DEF Mesh!XY_routing
  <2> QED
    BY <1>2, <2>1, <2>2, Zenon
<1>5. CASE dx = 0 /\ dy # 0
  <2>1. ports = {Mesh!TowardY(n, d)} /\ Mesh!TowardY(n, d) \in Mesh!Ports
    BY <1>1, <1>5 DEF XYPorts, Mesh!Ports, Mesh!TowardY
  <2>2. Mesh!XY_routing(n, d) = Mesh!VCs(n, Mesh!TowardY(n, d), 0, VCNumber - 1)
    BY <1>5 DEF Mesh!XY_routing, Mesh!When
  <2> QED
    BY <1>2, <2>1, <2>2, Zenon
<1>6. CASE dx = 0 /\ dy = 0
  <2>1. ports = {}
    BY <1>6 DEF XYPorts
  <2>2. Mesh!XY_routing(n, d) = <<>>
    BY <1>6 DEF Mesh!XY_routing, Mesh!When
  <2> QED
    BY <1>3, <2>1, <2>2, Zenon
<1> QED
  BY <1>4, <1>5, <1>6

LEMMA AdaptiveLists ==
  ASSUME NEW c, c # "CLUE", NEW n \in Mesh!Nodes, NEW d \in Mesh!Nodes
  PROVE  LET dx == Mesh!DisX(n, d)
             dy == Mesh!DisY(n, d)
         IN Lists(Mesh!NFR_adaptive_routing(n, d),
                  Channels(c, n, MinimalPorts(dx, dy), 0 .. VCNumber - 2)
                    \cup Channels(c, n, NegativeFirstPorts(dx, dy), {VCNumber - 1}))
<1> DEFINE dx == Mesh!DisX(n, d)
           dy == Mesh!DisY(n, d)
           C(ports) == Channels(c, n, ports, 0 .. VCNumber - 2)
           rx == Mesh!When(dx # 0, Mesh!VCs(n, Mesh!TowardX(n, d), 0, VCNumber - 2))
           ry == Mesh!When(dy # 0, Mesh!VCs(n, Mesh!TowardY(n, d), 0, VCNumber - 2))
           escape == Mesh!NegativeFirst(n, d, VCNumber - 1, VCNumber - 1)
           RX == IF dx # 0 THEN C({Mesh!TowardX(n, d)}) ELSE {}
           RY == IF dy # 0 THEN C({Mesh!TowardY(n, d)}) ELSE {}
           E == Channels(c, n, NegativeFirstPorts(dx, dy), {VCNumber - 1})
<1>1. dx \in Int /\ dy \in Int
  BY NodeRow DEF Mesh!DisX, Mesh!DisY
<1>2. \A port \in Mesh!Ports : Lists(Mesh!VCs(n, port, 0, VCNumber - 2), C({port}))
  BY MeshAssumption, MeshLists
<1>3. /\ dx # 0 => Mesh!TowardX(n, d) = IF dx < 0 THEN "xneg" ELSE "xpos"
      /\ dy # 0 => Mesh!TowardY(n, d) = IF dy < 0 THEN "yneg" ELSE "ypos"
  BY DEF Mesh!TowardX, Mesh!TowardY
<1>4. Lists(rx, RX) /\ Lists(ry, RY)
  <2>1. Mesh!TowardX(n, d) \in Mesh!Ports /\ Mesh!TowardY(n, d) \in Mesh!Ports
    BY DEF Mesh!TowardX, Mesh!TowardY, Mesh!Ports
  <2> HIDE DEF C, dx, dy
  <2> QED
    BY <1>2, <2>1, ListsNone DEF Mesh!When
<1>5. Lists(escape, E)
  <2>1. VCNumber - 1 \in Int /\ VCNumber - 1 .. VCNumber - 1 = {VCNumber - 1}
    BY MeshAssumption
  <2> QED
    BY <2>1, NegativeFirstLists
<1>6. C(MinimalPorts(dx, dy)) = RX \cup RY
  <2> HIDE DEF dx, dy
  <2>1. MinimalPorts(dx, dy)
          = (IF dx # 0 THEN {Mesh!TowardX(n, d)} ELSE {}) \cup (IF dy # 0 THEN {Mesh!TowardY(n, d)} ELSE {})
    BY <1>1, <1>3 DEF MinimalPorts, Mesh!Ports
  <2> QED
    BY <2>1 DEF Channels
<1>7. Mesh!NFR_adaptive_routing(n, d) = rx \o ry \o escape
  BY DEF Mesh!NFR_adaptive_routing
<1> HIDE DEF C, rx, ry, escape, RX, RY, E
<1>8. Lists(rx \o ry, RX \cup RY)
  BY <1>4, ListsJoined
<1>9. Lists(rx \o ry \o escape, (RX \cup RY) \cup E)
  BY <1>5, <1>8, ListsJoined
<1>10. Lists(Mesh!NFR_adaptive_routing(n, d), C(MinimalPorts(dx, dy)) \cup E)
  BY <1>6, <1>7, <1>9, Zenon
<1> QED
  BY <1>10 DEF C, E

LEMMA EscapeLists ==
  ASSUME NEW c, c = "CLUE", NEW n \in Mesh!Nodes, NEW d \in Mesh!Nodes
  PROVE  Lists(Torus!Escape(n, d),
               Channels(c, n, EscapePorts(n, Mesh!DisX(n, d), Mesh!DisY(n, d)), {1}))
<1> DEFINE dx == Mesh!DisX(n, d)
           dy == Mesh!DisY(n, d)
           ax == Torus!Abs(dx)
           ay == Torus!Abs(dy)
           half == Torus!Half
           C(ports) == Channels(c, n, ports, {1})
           One(b, port) == Torus!When(b, Torus!VC(n, port, 1))
           Set(b, port) == IF b THEN C({port}) ELSE {}
<1>1. /\ dx \in Int /\ dy \in Int /\ Torus!DisX(n, d) = dx /\ Torus!DisY(n, d) = dy
      /\ Torus!X(n) = Mesh!X(n) /\ Torus!Y(n) = Mesh!Y(n) /\ Torus!K = Width
  BY NodeRow, SameTorus DEF Mesh!DisX, Mesh!DisY, Torus!DisX, Torus!DisY
<1>2. \A port : Lists(Torus!VC(n, port, 1), C({port}))
  BY TorusLists
<1>3. /\ Mesh!AtEdge(n, "xneg") <=> Mesh!X(n) = 0
      /\ Mesh!AtEdge(n, "xpos") <=> Mesh!X(n) = Width - 1
      /\ Mesh!AtEdge(n, "yneg") <=> Mesh!Y(n) = 0
      /\ Mesh!AtEdge(n, "ypos") <=> Mesh!Y(n) = Width - 1
  BY NodeRow
<1> HIDE DEF dx, dy, half, C
<1>4. ASSUME ax <= half /\ ay <= half
      PROVE  Lists(Torus!NegativeFirst(n, d), C(NegativeFirstPorts(dx, dy)))
  <2>1. CASE dx < 0 \/ dy < 0
    <3> DEFINE r == One(dx < 0, "xneg")
               t == One(dy < 0, "yneg")
               R == Set(dx < 0, "xneg")
               T == Set(dy < 0, "yneg")
    <3>1. Torus!NegativeFirst(n, d) = r \o t
      BY <1>1, <2>1 DEF Torus!NegativeFirst
    <3>2. Lists(r, R) /\ Lists(t, T)
      BY <1>2, ListsNone DEF Torus!When
    <3>3. NegativeFirstPorts(dx, dy)
            = (IF dx < 0 THEN {"xneg"} ELSE {}) \cup (IF dy < 0 THEN {"yneg"} ELSE {})
      BY <1>1, <2>1 DEF NegativeFirstPorts, Mesh!Ports
    <3>4. C(NegativeFirstPorts(dx, dy)) = R \cup T
      BY <3>3 DEF C, Channels
    <3> HIDE DEF r, t, R, T
    <3> QED
      BY <3>1, <3>2, <3>4, ListsJoined
  <2>2. CASE ~(dx < 0 \/ dy < 0)
    <3> DEFINE r == One(dx > 0, "xpos")
               t == One(dy > 0, "ypos")
               R == Set(dx > 0, "xpos")
               T == Set(dy > 0, "ypos")
    <3>1. Torus!NegativeFirst(n, d) = r \o t
      BY <1>1, <2>2 DEF Torus!NegativeFirst
    <3>2. Lists(r, R) /\ Lists(t, T)
      BY <1>2, ListsNone DEF Torus!When
    <3>3. NegativeFirstPorts(dx, dy)
            = (IF dx > 0 THEN {"xpos"} ELSE {}) \cup (IF dy > 0 THEN {"ypos"} ELSE {})
      BY <1>1, <2>2 DEF NegativeFirstPorts, Mesh!Ports
    <3>4. C(NegativeFirstPorts(dx, dy)) = R \cup T
      BY <3>3 DEF C, Channels
    <3> HIDE DEF r, t, R, T
    <3> QED
      BY <3>1, <3>2, <3>4, ListsJoined
  <2> QED
    BY <2>1, <2>2
<1>5. CASE ax <= half /\ ay <= half
  <2>1. Torus!Escape(n, d) = Torus!NegativeFirst(n, d)
    BY <1>1, <1>5 DEF Torus!Escape, half
  <2>2. EscapePorts(n, dx, dy) = NegativeFirstPorts(dx, dy)
    BY <1>5 DEF EscapePorts, half
  <2> QED
    BY <1>4, <1>5, <2>1, <2>2 DEF C, dx, dy
<1>6. CASE ~(ax <= half /\ ay <= half) /\ ax > half
  <2> DEFINE r == One(Mesh!X(n) = 0, "xneg")
             t == One(Mesh!X(n) = Width - 1, "xpos")
             R == Set(Mesh!X(n) = 0, "xneg")
             T == Set(Mesh!X(n) = Width - 1, "xpos")
  <2>1. Torus!Escape(n, d) = r \o t
    BY <1>1, <1>6 DEF Torus!Escape, half
  <2>2. Lists(r, R) /\ Lists(t, T)
    BY <1>2, ListsNone DEF Torus!When
  <2>3. EscapePorts(n, dx, dy)
          = (IF Mesh!X(n) = 0 THEN {"xneg"} ELSE {}) \cup (IF Mesh!X(n) = Width - 1 THEN {"xpos"} ELSE {})
    BY <1>3, <1>6 DEF EscapePorts, half
  <2>4. C(EscapePorts(n, dx, dy)) = R \cup T
    BY <2>3 DEF C, Channels
  <2> HIDE DEF r, t, R, T
  <2>5. Lists(Torus!Escape(n, d), C(EscapePorts(n, dx, dy)))
    BY <2>1, <2>2, <2>4, ListsJoined
  <2> QED
    BY <2>5 DEF C, dx, dy
<1>7. CASE ~(ax <= half /\ ay <= half) /\ ~(ax > half)
  <2> DEFINE r == One(Mesh!Y(n) = 0, "yneg")
             t == One(Mesh!Y(n) = Width - 1, "ypos")
             R == Set(Mesh!Y(n) = 0, "yneg")
             T == Set(Mesh!Y(n) = Width - 1, "ypos")
  <2>1. Torus!Escape(n, d) = r \o t
    BY <1>1, <1>7 DEF Torus!Escape, half
  <2>2. Lists(r, R) /\ Lists(t, T)
    BY <1>2, ListsNone DEF Torus!When
  <2>3. EscapePorts(n, dx, dy)
          = (IF Mesh!Y(n) = 0 THEN {"yneg"} ELSE {}) \cup (IF Mesh!Y(n) = Width - 1 THEN {"ypos"} ELSE {})
    BY <1>3, <1>7 DEF EscapePorts, half
  <2>4. C(EscapePorts(n, dx, dy)) = R \cup T
    BY <2>3 DEF C, Channels
  <2> HIDE DEF r, t, R, T
  <2>5. Lists(Torus!Escape(n, d), C(EscapePorts(n, dx, dy)))
    BY <2>1, <2>2, <2>4, ListsJoined
  <2> QED
    BY <2>5 DEF C, dx, dy
<1> QED
  BY <1>5, <1>6, <1>7

LEMMA CLUELists ==
  ASSUME NEW c, c = "CLUE", NEW n \in Mesh!Nodes, NEW d \in Mesh!Nodes
  PROVE  LET dx == Mesh!DisX(n, d)
             dy == Mesh!DisY(n, d)
         IN Lists(Torus!clue_routing(n, d),
                  Channels(c, n, ShorterPorts(dx, dy), {0})
                    \cup Channels(c, n, EscapePorts(n, dx, dy), {1}))
<1> DEFINE dx == Mesh!DisX(n, d)
           dy == Mesh!DisY(n, d)
           C(ports) == Channels(c, n, ports, {0})
           left == Torus!When(Torus!Negative(dx), Torus!VC(n, "xneg", 0))
           right == Torus!When(Torus!Positive(dx), Torus!VC(n, "xpos", 0))
           down == Torus!When(Torus!Negative(dy), Torus!VC(n, "yneg", 0))
           up == Torus!When(Torus!Positive(dy), Torus!VC(n, "ypos", 0))
           Left == IF Torus!Negative(dx) THEN C({"xneg"}) ELSE {}
           Right == IF Torus!Positive(dx) THEN C({"xpos"}) ELSE {}
           Lower == IF Torus!Negative(dy) THEN C({"yneg"}) ELSE {}
           Upper == IF Torus!Positive(dy) THEN C({"ypos"}) ELSE {}
<1>1. Torus!DisX(n, d) = dx /\ Torus!DisY(n, d) = dy
  BY SameTorus DEF Mesh!DisX, Mesh!DisY, Torus!DisX, Torus!DisY
<1>2. \A port : Lists(Torus!VC(n, port, 0), C({port}))
  BY TorusLists
<1>3. Torus!Adaptive(n, d) = left \o right \o down \o up
  BY <1>1 DEF Torus!Adaptive
<1>4. Lists(Torus!Escape(n, d), Channels(c, n, EscapePorts(n, dx, dy), {1}))
  BY EscapeLists
<1>5. C(ShorterPorts(dx, dy)) = ((Left \cup Right) \cup Lower) \cup Upper
  <2> HIDE DEF dx, dy
  <2>1. ShorterPorts(dx, dy)
          = (IF Torus!Negative(dx) THEN {"xneg"} ELSE {}) \cup (IF Torus!Positive(dx) THEN {"xpos"} ELSE {})
              \cup (IF Torus!Negative(dy) THEN {"yneg"} ELSE {}) \cup (IF Torus!Positive(dy) THEN {"ypos"} ELSE {})
    BY DEF ShorterPorts, Mesh!Ports
  <2> QED
    BY <2>1 DEF Channels
<1> HIDE DEF dx, dy, C
<1>6. Lists(left, Left) /\ Lists(right, Right) /\ Lists(down, Lower) /\ Lists(up, Upper)
  BY <1>2, ListsNone DEF Torus!When
<1> HIDE DEF left, right, down, up, Left, Right, Lower, Upper
<1>7. Lists(left \o right, Left \cup Right)
  BY <1>6, ListsJoined
<1>8. Lists(left \o right \o down, (Left \cup Right) \cup Lower)
  BY <1>6, <1>7, ListsJoined
<1>9. Lists(left \o right \o down \o up, ((Left \cup Right) \cup Lower) \cup Upper)
  BY <1>6, <1>8, ListsJoined
<1>10. Lists(Torus!Adaptive(n, d), C(ShorterPorts(dx, dy)))
  BY <1>3, <1>5, <1>9, Zenon
<1>11. Lists(Torus!Adaptive(n, d) \o Torus!Escape(n, d),
             C(ShorterPorts(dx, dy)) \cup Channels(c, n, EscapePorts(n, dx, dy), {1}))
  BY <1>4, <1>10, ListsJoined
<1> QED
  BY <1>11 DEF Torus!clue_routing, C, dx, dy

\* The channels that the algorithms offer.
Offered(c, n, d) ==
  LET dx == Mesh!DisX(n, d)
      dy == Mesh!DisY(n, d)
  IN CASE c = "XY" -> Channels(c, n, XYPorts(dx, dy), 0 .. VCNumber - 1)
       [] c = "NFR" -> Channels(c, n, NegativeFirstPorts(dx, dy), 0 .. VCNumber - 1)
       [] c = "NFR_adaptive" -> Channels(c, n, MinimalPorts(dx, dy), 0 .. VCNumber - 2)
                                  \cup Channels(c, n, NegativeFirstPorts(dx, dy), {VCNumber - 1})
       [] c = "CLUE" -> Channels(c, n, ShorterPorts(dx, dy), {0})
                          \cup Channels(c, n, EscapePorts(n, dx, dy), {1})

LEMMA RouteLists ==
  ASSUME NEW c \in Names,
         NEW s, NEW d \in Mesh!Nodes, NEW vc, NodeOf(vc) \in Mesh!Nodes
  PROVE  Lists(MCRoute(c, s, d, vc), Offered(c, NodeOf(vc), d))
<1> DEFINE n == NodeOf(vc)
<1> HIDE DEF n
<1>1. n \in Mesh!Nodes
  BY DEF n
<1>2. VCNumber \in Int
  BY MeshAssumption
<1>3. CASE c = "XY"
  <2>1. MCRoute(c, s, d, vc) = Mesh!XY_routing(n, d)
    BY <1>3 DEF MCRoute, Mesh!routing_algorithm, n
  <2> QED
    BY <1>1, <1>3, <2>1, XYLists DEF Offered, n
<1>4. CASE c = "NFR"
  <2>1. MCRoute(c, s, d, vc) = Mesh!NegativeFirst(n, d, 0, VCNumber - 1)
    BY <1>4 DEF MCRoute, Mesh!routing_algorithm, Mesh!NFR_routing, n
  <2> QED
    BY <1>1, <1>2, <1>4, <2>1, NegativeFirstLists DEF Offered, n
<1>5. CASE c = "NFR_adaptive"
  <2>1. MCRoute(c, s, d, vc) = Mesh!NFR_adaptive_routing(n, d)
    BY <1>5 DEF MCRoute, Mesh!routing_algorithm, n
  <2> QED
    BY <1>1, <1>5, <2>1, AdaptiveLists DEF Offered, n
<1>6. CASE c = "CLUE"
  <2>1. MCRoute(c, s, d, vc) = Torus!clue_routing(n, d)
    BY <1>6 DEF MCRoute, n
  <2> QED
    BY <1>1, <1>6, <2>1, CLUELists DEF Offered, n
<1> QED
  BY <1>3, <1>4, <1>5, <1>6 DEF Names

LEMMA RangeOfRoute ==
  ASSUME NEW c \in Names,
         NEW s, NEW d \in Mesh!Nodes, NEW vc, NodeOf(vc) \in Mesh!Nodes
  PROVE  Range(MCRoute(c, s, d, vc)) = Offered(c, NodeOf(vc), d)
BY RouteLists DEF Lists

\* Two nodes are in different columns or rows.
LEMMA NodesApart ==
  ASSUME NEW n \in Mesh!Nodes, NEW d \in Mesh!Nodes, n # d
  PROVE  Mesh!X(n) # Mesh!X(d) \/ Mesh!Y(n) # Mesh!Y(d)
<1>1. SUFFICES ASSUME Mesh!X(n) = Mesh!X(d), Mesh!Y(n) = Mesh!Y(d) PROVE FALSE
  OBVIOUS
<1>2. /\ KNode \in Nat \ {0}
      /\ \A m \in Mesh!Nodes : /\ Mesh!InX(m) \in 0 .. KNode - 1 /\ Mesh!InY(m) \in 0 .. KNode - 1
                              /\ Mesh!ChipX(m) \in Nat /\ Mesh!ChipY(m) \in Nat
  BY MeshAssumption, NodePlace DEF Chips, InChip
<1>3. Mesh!InX(n) = Mesh!InX(d) /\ Mesh!ChipX(n) = Mesh!ChipX(d)
  BY <1>1, <1>2, NumberOfMember DEF Mesh!X
<1>4. Mesh!InY(n) = Mesh!InY(d) /\ Mesh!ChipY(n) = Mesh!ChipY(d)
  BY <1>1, <1>2, NumberOfMember DEF Mesh!Y
<1> QED
  BY <1>3, <1>4, NodePlace, Zenon

LEMMA Offsets ==
  ASSUME NEW n \in Mesh!Nodes, NEW d \in Mesh!Nodes, n # d
  PROVE  /\ Mesh!DisX(n, d) \in Int /\ Mesh!DisY(n, d) \in Int
         /\ Mesh!DisX(n, d) # 0 \/ Mesh!DisY(n, d) # 0
<1>1. /\ Mesh!X(n) \in Int /\ Mesh!X(d) \in Int /\ Mesh!Y(n) \in Int /\ Mesh!Y(d) \in Int
  BY NodeRow
<1> QED
  BY <1>1, NodesApart DEF Mesh!DisX, Mesh!DisY

\* Two nodes are apart: some port leads negative-first, and first in x.
LEMMA SomePort ==
  ASSUME NEW n \in Mesh!Nodes, NEW d \in Mesh!Nodes, n # d
  PROVE  LET dx == Mesh!DisX(n, d)
             dy == Mesh!DisY(n, d)
         IN XYPorts(dx, dy) # {} /\ NegativeFirstPorts(dx, dy) # {}
<1> DEFINE dx == Mesh!DisX(n, d)
           dy == Mesh!DisY(n, d)
<1>1. dx \in Int /\ dy \in Int /\ (dx # 0 \/ dy # 0)
  BY Offsets
<1> HIDE DEF dx, dy
<1>2. \E port \in Mesh!Ports : port \in XYPorts(dx, dy)
  <2>1. dx < 0 => "xneg" \in XYPorts(dx, dy)
    BY DEF XYPorts, Mesh!Ports
  <2>2. dx > 0 => "xpos" \in XYPorts(dx, dy)
    BY DEF XYPorts, Mesh!Ports
  <2>3. dx = 0 /\ dy < 0 => "yneg" \in XYPorts(dx, dy)
    BY DEF XYPorts, Mesh!Ports
  <2>4. dx = 0 /\ dy > 0 => "ypos" \in XYPorts(dx, dy)
    BY DEF XYPorts, Mesh!Ports
  <2> QED
    BY <1>1, <2>1, <2>2, <2>3, <2>4 DEF XYPorts
<1>3. \E port \in Mesh!Ports : port \in NegativeFirstPorts(dx, dy)
  <2>1. dx < 0 => "xneg" \in NegativeFirstPorts(dx, dy)
    BY DEF NegativeFirstPorts, Mesh!Ports
  <2>2. dy < 0 => "yneg" \in NegativeFirstPorts(dx, dy)
    BY DEF NegativeFirstPorts, Mesh!Ports
  <2>3. dx > 0 /\ dy >= 0 => "xpos" \in NegativeFirstPorts(dx, dy)
    BY DEF NegativeFirstPorts, Mesh!Ports
  <2>4. dx >= 0 /\ dy > 0 => "ypos" \in NegativeFirstPorts(dx, dy)
    BY DEF NegativeFirstPorts, Mesh!Ports
  <2> QED
    BY <1>1, <2>1, <2>2, <2>3, <2>4 DEF NegativeFirstPorts
<1> QED
  BY <1>2, <1>3 DEF dx, dy

\* Around an edge, and negative-first inside: the shorter way, by which there
\* always is a port.
LEMMA ShorterWays ==
  ASSUME NEW n \in Mesh!Nodes, NEW d \in Mesh!Nodes
  PROVE  LET dx == Mesh!DisX(n, d)
             dy == Mesh!DisY(n, d)
         IN /\ EscapePorts(n, dx, dy) \subseteq ShorterPorts(dx, dy)
            /\ n # d => ShorterPorts(dx, dy) # {}
<1> DEFINE x == Mesh!X(n)
           y == Mesh!Y(n)
           dx == Mesh!DisX(n, d)
           dy == Mesh!DisY(n, d)
           half == Torus!Half
<1>1. /\ Width \in Nat
      /\ x \in 0 .. Width - 1 /\ Mesh!X(d) \in 0 .. Width - 1 /\ dx = Mesh!X(d) - x
      /\ y \in 0 .. Width - 1 /\ Mesh!Y(d) \in 0 .. Width - 1 /\ dy = Mesh!Y(d) - y
      /\ half \in Nat /\ 2 * half <= Width /\ Width <= 2 * half + 1
  <2>1. Width \in Nat /\ Torus!K = Width
    BY MeshAssumption, Products, SameTorus DEF Width
  <2>2. half \in Nat /\ 2 * half <= Width /\ Width <= 2 * half + 1
    <3> HIDE DEF Width
    <3> QED
      BY <2>1 DEF Torus!Half
  <2> QED
    BY <2>1, <2>2, NodeRow DEF Mesh!DisX, Mesh!DisY
<1>2. /\ Mesh!AtEdge(n, "xneg") <=> x = 0
      /\ Mesh!AtEdge(n, "xpos") <=> x = Width - 1
      /\ Mesh!AtEdge(n, "yneg") <=> y = 0
      /\ Mesh!AtEdge(n, "ypos") <=> y = Width - 1
  BY NodeRow
<1>3. n # d => dx # 0 \/ dy # 0
  BY Offsets
<1> HIDE DEF x, y, dx, dy, half, Width
<1>4. /\ -Width < dx /\ dx < Width /\ -Width < dy /\ dy < Width
      /\ dx \in Int /\ dy \in Int
  BY <1>1
<1>5. ASSUME NEW port \in EscapePorts(n, dx, dy) PROVE port \in ShorterPorts(dx, dy)
  <2>1. CASE Torus!Abs(dx) <= half /\ Torus!Abs(dy) <= half
    <3>1. /\ port \in Mesh!Ports
          /\ port = "xneg" => dx < 0
          /\ port = "yneg" => dy < 0
          /\ port = "xpos" => dx > 0
          /\ port = "ypos" => dy > 0
      BY <1>5, <2>1 DEF EscapePorts, NegativeFirstPorts, half
    <3>2. /\ dx < 0 => Torus!Negative(dx)
          /\ dx > 0 => Torus!Positive(dx)
          /\ dy < 0 => Torus!Negative(dy)
          /\ dy > 0 => Torus!Positive(dy)
      BY <1>1, <1>4, <2>1 DEF Torus!Abs, Torus!Negative, Torus!Positive, half
    <3> QED
      BY <3>1, <3>2 DEF ShorterPorts, Mesh!Ports
  <2>2. CASE ~(Torus!Abs(dx) <= half /\ Torus!Abs(dy) <= half) /\ Torus!Abs(dx) > half
    <3>1. port \in {"xneg", "xpos"} /\ Mesh!AtEdge(n, port)
      BY <1>5, <2>2 DEF EscapePorts, half
    <3>2. (x = 0 => Torus!Negative(dx)) /\ (x = Width - 1 => Torus!Positive(dx))
      BY <1>1, <1>4, <2>2 DEF Torus!Abs, Torus!Negative, Torus!Positive, half
    <3> QED
      BY <1>2, <3>1, <3>2 DEF ShorterPorts, Mesh!Ports
  <2>3. CASE ~(Torus!Abs(dx) <= half /\ Torus!Abs(dy) <= half) /\ ~(Torus!Abs(dx) > half)
    <3>1. port \in {"yneg", "ypos"} /\ Mesh!AtEdge(n, port)
      BY <1>5, <2>3 DEF EscapePorts, half
    <3>2. (y = 0 => Torus!Negative(dy)) /\ (y = Width - 1 => Torus!Positive(dy))
      BY <1>1, <1>4, <2>3 DEF Torus!Abs, Torus!Negative, Torus!Positive, half
    <3> QED
      BY <1>2, <3>1, <3>2 DEF ShorterPorts, Mesh!Ports
  <2> QED
    BY <2>1, <2>2, <2>3
<1>6. ASSUME n # d PROVE ShorterPorts(dx, dy) # {}
  <2>1. Torus!Negative(dx) \/ Torus!Positive(dx) \/ Torus!Negative(dy) \/ Torus!Positive(dy)
    BY <1>1, <1>3, <1>4, <1>6 DEF Torus!Negative, Torus!Positive, half
  <2> QED
    BY <2>1 DEF ShorterPorts, Mesh!Ports
<1> QED
  BY <1>5, <1>6 DEF dx, dy

\* The channels of the ports that lead closer.
Onward(c, n, d) == Channels(c, n, Nearer(c, n, d), VirtualChannels)

LEMMA Offering ==
  ASSUME NEW c, NEW n, NEW ports, NEW vcs, NEW port \in ports, NEW v \in vcs
  PROVE  <<<<Link(c, n, port), Mesh!Opposite(port)>>, v>> \in Channels(c, n, ports, vcs)
BY DEF Channels

LEMMA FewerChannels ==
  ASSUME NEW c, NEW n, NEW ports, NEW vcs, NEW all, NEW every, ports \subseteq all, vcs \subseteq every
  PROVE  /\ Channels(c, n, ports, vcs) \subseteq Channels(c, n, all, every)
         /\ ports # {} /\ vcs # {} => Channels(c, n, ports, vcs) # {}
<1>1. Channels(c, n, ports, vcs) \subseteq Channels(c, n, all, every)
  BY DEF Channels
<1>2. ASSUME ports # {}, vcs # {} PROVE Channels(c, n, ports, vcs) # {}
  <2>1. PICK port \in ports, v \in vcs : TRUE
    BY <1>2
  <2> QED
    BY <2>1, Offering
<1> QED
  BY <1>1, <1>2

\* There is a candidate, and each leads onward.
LEMMA OfferedOnward ==
  ASSUME NEW c \in Names, c = "CLUE" => VCNumber >= 2,
         NEW n \in Mesh!Nodes, NEW d \in Mesh!Nodes, n # d
  PROVE  Offered(c, n, d) # {} /\ Offered(c, n, d) \subseteq Onward(c, n, d)
<1> DEFINE dx == Mesh!DisX(n, d)
           dy == Mesh!DisY(n, d)
           N == Nearer(c, n, d)
<1>1. /\ VirtualChannels = 0 .. VCNumber - 1 /\ VirtualChannels # {}
      /\ 0 .. VCNumber - 2 \subseteq VirtualChannels
      /\ {VCNumber - 1} \subseteq VirtualChannels
      /\ c = "CLUE" => {0} \subseteq VirtualChannels /\ {1} \subseteq VirtualChannels
  <2>1. /\ VirtualChannels = 0 .. VCNumber - 1 /\ VCNumber \in Nat /\ VCNumber >= 1
        /\ VCNumber - 1 \in VirtualChannels
        /\ c = "CLUE" => 0 \in VirtualChannels /\ 1 \in VirtualChannels
    BY MeshAssumption
  <2> QED
    BY <2>1
<1>2. XYPorts(dx, dy) # {} /\ NegativeFirstPorts(dx, dy) # {}
  BY SomePort
<1>3. ASSUME c # "CLUE"
      PROVE  XYPorts(dx, dy) \subseteq N /\ NegativeFirstPorts(dx, dy) \subseteq N /\ MinimalPorts(dx, dy) \subseteq N
  <2>1. /\ dx < 0 => "xneg" \in N
        /\ dx > 0 => "xpos" \in N
        /\ dy < 0 => "yneg" \in N
        /\ dy > 0 => "ypos" \in N
    BY <1>3, NearerInMesh
  <2> HIDE DEF dx, dy, N
  <2> QED
    BY <2>1 DEF XYPorts, NegativeFirstPorts, MinimalPorts, Mesh!Ports
<1>4. ASSUME c = "CLUE"
      PROVE  ShorterPorts(dx, dy) \subseteq N /\ EscapePorts(n, dx, dy) \subseteq N /\ ShorterPorts(dx, dy) # {}
  <2>1. Torus!DisX(n, d) = dx /\ Torus!DisY(n, d) = dy
    BY SameTorus DEF Mesh!DisX, Mesh!DisY, Torus!DisX, Torus!DisY
  <2>2. /\ Torus!Negative(dx) => "xneg" \in N
        /\ Torus!Positive(dx) => "xpos" \in N
        /\ Torus!Negative(dy) => "yneg" \in N
        /\ Torus!Positive(dy) => "ypos" \in N
    BY <1>4, <2>1, NearerInTorus
  <2>3. ShorterPorts(dx, dy) \subseteq N
    <3> HIDE DEF dx, dy, N
    <3> QED
      BY <2>2 DEF ShorterPorts, Mesh!Ports
  <2> QED
    BY <2>3, ShorterWays
<1> HIDE DEF dx, dy, N
<1> DEFINE Leads(ports, vcs) ==
             /\ Channels(c, n, ports, vcs) \subseteq Onward(c, n, d)
             /\ ports # {} /\ vcs # {} => Channels(c, n, ports, vcs) # {}
<1>5. ASSUME NEW ports, NEW vcs, ports \subseteq N, vcs \subseteq VirtualChannels
      PROVE  Leads(ports, vcs)
  BY <1>5, FewerChannels DEF Onward, N
<1>6. CASE c = "XY"
  <2>1. Offered(c, n, d) = Channels(c, n, XYPorts(dx, dy), VirtualChannels)
    BY <1>1, <1>6 DEF Offered, dx, dy
  <2>2. Leads(XYPorts(dx, dy), VirtualChannels)
    BY <1>3, <1>5, <1>6
  <2> QED
    BY <1>1, <1>2, <2>1, <2>2
<1>7. CASE c = "NFR"
  <2>1. Offered(c, n, d) = Channels(c, n, NegativeFirstPorts(dx, dy), VirtualChannels)
    BY <1>1, <1>7 DEF Offered, dx, dy
  <2>2. Leads(NegativeFirstPorts(dx, dy), VirtualChannels)
    BY <1>3, <1>5, <1>7
  <2> QED
    BY <1>1, <1>2, <2>1, <2>2
<1>8. CASE c = "NFR_adaptive"
  <2>1. Offered(c, n, d) = Channels(c, n, MinimalPorts(dx, dy), 0 .. VCNumber - 2)
                             \cup Channels(c, n, NegativeFirstPorts(dx, dy), {VCNumber - 1})
    BY <1>8 DEF Offered, dx, dy
  <2>2. Leads(MinimalPorts(dx, dy), 0 .. VCNumber - 2)
    BY <1>1, <1>3, <1>5, <1>8
  <2>3. Leads(NegativeFirstPorts(dx, dy), {VCNumber - 1})
    BY <1>1, <1>3, <1>5, <1>8
  <2> QED
    BY <1>2, <2>1, <2>2, <2>3
<1>9. CASE c = "CLUE"
  <2>1. Offered(c, n, d) = Channels(c, n, ShorterPorts(dx, dy), {0})
                             \cup Channels(c, n, EscapePorts(n, dx, dy), {1})
    BY <1>9 DEF Offered, dx, dy
  <2>2. Leads(ShorterPorts(dx, dy), {0}) /\ Leads(EscapePorts(n, dx, dy), {1})
    BY <1>1, <1>4, <1>5, <1>9
  <2> QED
    BY <1>4, <1>9, <2>1, <2>2
<1> QED
  BY <1>6, <1>7, <1>8, <1>9 DEF Names

-----------------------------------------------------------------------------
(* A packet on its way.                                                    *)

\* Where the head of a packet can be: at its source, or in a buffer.
Heads == {AtSource(n) : n \in Mesh!Nodes} \cup ((Mesh!Nodes \X Mesh!Ports) \X VirtualChannels)

\* The walk is one through these topologies, as the configuration of the model
\* checker has it.
Walks ==
  \A c \in Configs :
    /\ Cores(c) = MCCores(c)
    /\ \A n \in Mesh!Nodes : Linked(c, n) = MCLinked(c, n)
    /\ \A m \in Mesh!Nodes, n \in Mesh!Nodes : Distance(c, m, n) = MCDistance(c, m, n)
    /\ \A s \in Mesh!Nodes, d \in Mesh!Nodes, vc \in Heads :
         Route(c, s, d, vc) = MCRoute(c, s, d, vc)

Underway ==
  /\ config \in Configs
  /\ source \in Mesh!Nodes /\ destination \in Mesh!Nodes /\ source # destination
  /\ head \in Heads /\ at \in Mesh!Nodes

\* The candidates of a packet on its way lead onward.
LEMMA CandidatesOnward ==
  ASSUME Walks, Underway, at # destination
  PROVE  Range(Candidates) # {} /\ Range(Candidates) \subseteq Onward(config, at, destination)
<1>1. config \in Names /\ (config = "CLUE" => VCNumber >= 2)
  BY MeshAssumption DEF Underway, Names
<1>2. Candidates = MCRoute(config, source, destination, head)
  BY DEF Walks, Underway, Candidates
<1>3. Range(Candidates) = Offered(config, at, destination)
  BY <1>1, <1>2, RangeOfRoute DEF Underway, at
<1> QED
  BY <1>1, <1>3, OfferedOnward DEF Underway

LEMMA InitUnderway ==
  ASSUME Walks, Init
  PROVE  Underway
<1>1. /\ config \in Configs /\ source \in Mesh!Nodes
      /\ destination \in Mesh!Nodes /\ source # destination
  BY DEF Init, Walks, MCCores
<1>2. head = AtSource(source)
  BY DEF Init
<1>3. head \in Heads /\ at = source
  BY <1>1, <1>2 DEF Heads, AtSource, at, NodeOf
<1> QED
  BY <1>1, <1>3 DEF Underway

\* A hop takes the packet to the buffer at the end of a link that leads closer.
LEMMA HopTaken ==
  ASSUME Walks, Underway, Hop
  PROVE  \E port \in Nearer(config, at, destination) :
           \E v \in VirtualChannels :
             head' = <<<<Link(config, at, port), Mesh!Opposite(port)>>, v>>
<1>1. head' \in Onward(config, at, destination)
  BY CandidatesOnward DEF Hop
<1> QED
  BY <1>1 DEF Onward, Channels

LEMMA NextUnderway ==
  ASSUME Walks, Underway, [Next]_vars
  PROVE  Underway'
<1>1. CASE Hop
  <2>1. PICK port \in Nearer(config, at, destination), v \in VirtualChannels :
          head' = <<<<Link(config, at, port), Mesh!Opposite(port)>>, v>>
    BY <1>1, HopTaken
  <2>2. port \in LinkedPorts(config, at) /\ Mesh!Opposite(port) \in Mesh!Ports
    BY DEF Nearer, LinkedPorts, Mesh!Ports, Mesh!Opposite
  <2>3. Link(config, at, port) \in Mesh!Nodes
    BY <2>2, Neighbours DEF Underway
  <2>4. head' \in Heads /\ at' = Link(config, at, port)
    BY <2>1, <2>2, <2>3 DEF Heads, at, NodeOf
  <2> QED
    BY <1>1, <2>3, <2>4 DEF Underway, Hop
<1>2. CASE UNCHANGED vars
  BY <1>2 DEF Underway, vars, at, NodeOf
<1> QED
  BY <1>1, <1>2 DEF Next, Arrived

LEMMA AlwaysUnderway ==
  ASSUME Walks
  PROVE  Spec => []Underway
BY InitUnderway, NextUnderway, PTL DEF Spec

\* There are two columns if there are two nodes.
LEMMA TwoColumns ==
  ASSUME Underway
  PROVE  Width >= 2
<1>1. Width \in Nat
  BY MeshAssumption, Products DEF Width
<1>2. Mesh!X(source) # Mesh!X(destination) \/ Mesh!Y(source) # Mesh!Y(destination)
  BY NodesApart DEF Underway
<1>3. /\ Mesh!X(source) \in 0 .. Width - 1 /\ Mesh!X(destination) \in 0 .. Width - 1
      /\ Mesh!Y(source) \in 0 .. Width - 1 /\ Mesh!Y(destination) \in 0 .. Width - 1
  BY NodeRow DEF Underway
<1> HIDE DEF Width
<1> QED
  BY <1>1, <1>2, <1>3

\* The code wires every link in both directions: connect_chiplets and set_chip
\* set a port and the port opposite it.  For chips and systems of every size,
\* the link at each port of each node, around the edges too, leads to the node
\* next in its direction, and the opposite port there leads back over a channel
\* of the same kind.
THEOREM LinksLeadBack ==
  ASSUME Walks
  PROVE  Spec => []LinksPaired
<1>1. ASSUME Underway PROVE LinksPaired
  <2> SUFFICES ASSUME NEW port \in LinkedPorts(config, at)
               PROVE  LET m == Link(config, at, port)
                      IN /\ m \in Mesh!Nodes
                         /\ Distance(config, at, m) = 1
                         /\ Link(config, m, Mesh!Opposite(port)) = at
                         /\ MCChannel(config, m, Mesh!Opposite(port)) = MCChannel(config, at, port)
    BY DEF LinksPaired
  <2>1. at \in Mesh!Nodes /\ config \in Configs
    BY <1>1 DEF Underway
  <2>2. Link(config, at, port) \in Mesh!Nodes
    BY <2>1, Neighbours
  <2>3. Distance(config, at, Link(config, at, port)) = 1
    BY <1>1, <2>1, <2>2, LinkDistance, TwoColumns DEF Walks
  <2> QED
    BY <2>1, <2>2, <2>3, Neighbours
<1> QED
  BY <1>1, AlwaysUnderway, PTL

\* System::routing asserts that a packet that has not arrived has a candidate,
\* and vc_allocate uses the candidates unchecked: for every size and number of
\* virtual channels, each of the four algorithms offers one, and only channels
\* of buffers at the end of a link of the node where the packet is.
THEOREM CandidatesAlwaysUsable ==
  ASSUME Walks
  PROVE  Spec => []CandidatesUsable
<1>1. ASSUME Underway PROVE CandidatesUsable
  <2> SUFFICES ASSUME at # destination
               PROVE  /\ \A vc \in Range(Candidates) :
                           vc[1] \in Linked(config, at) /\ vc[2] \in VirtualChannels
                      /\ Candidates # <<>>
    BY DEF CandidatesUsable, CandidatesExist
  <2>1. Range(Candidates) # {} /\ Range(Candidates) \subseteq Onward(config, at, destination)
    BY <1>1, CandidatesOnward
  <2>2. Candidates # <<>>
    BY <2>1 DEF Range
  <2>3. Linked(config, at) = MCLinked(config, at)
    BY <1>1 DEF Walks, Underway
  <2>4. ASSUME NEW vc \in Onward(config, at, destination)
        PROVE  vc[1] \in MCLinked(config, at) /\ vc[2] \in VirtualChannels
    BY <2>4 DEF Onward, Channels, Nearer, MCLinked
  <2> QED
    BY <2>1, <2>2, <2>3, <2>4
<1> QED
  BY <1>1, AlwaysUnderway, PTL

\* Whichever candidate vc_allocate takes, every hop brings the packet closer by
\* one link, in meshes and tori of every size: the algorithms are minimal, and
\* no packet goes in circles.
THEOREM EveryHopCloser ==
  ASSUME Walks
  PROVE  Spec => Closer
<1>1. ASSUME Underway, [Next]_vars
      PROVE  [Distance(config, at', destination) = Distance(config, at, destination) - 1]_vars
  <2> SUFFICES ASSUME Hop
               PROVE  Distance(config, at', destination) = Distance(config, at, destination) - 1
    BY <1>1 DEF Next, Arrived
  <2>1. PICK port \in Nearer(config, at, destination), v \in VirtualChannels :
          head' = <<<<Link(config, at, port), Mesh!Opposite(port)>>, v>>
    BY <1>1, HopTaken
  <2>2. at' = Link(config, at, port)
    BY <2>1 DEF at, NodeOf
  <2>3. at \in Mesh!Nodes /\ destination \in Mesh!Nodes /\ config \in Configs
    BY <1>1 DEF Underway
  <2>4. Link(config, at, port) \in Mesh!Nodes
    BY <2>3, Neighbours DEF Nearer
  <2>5. MCDistance(config, Link(config, at, port), destination)
          = MCDistance(config, at, destination) - 1
    BY DEF Nearer
  <2> QED
    BY <2>2, <2>3, <2>4, <2>5 DEF Walks
<1> QED
  BY <1>1, AlwaysUnderway, PTL DEF Spec, Closer

-----------------------------------------------------------------------------
(* Deadlock.  First, where the candidates lead.                            *)

\* Ports that lead straight towards d, without going around an edge.
LEMMA Straight ==
  ASSUME NEW c, NEW n \in Mesh!Nodes, NEW d \in Mesh!Nodes,
         NEW port \in MinimalPorts(Mesh!DisX(n, d), Mesh!DisY(n, d))
  PROVE  LET m == Link(c, n, port)
         IN /\ port \in LinkedPorts(c, n) /\ m \in Mesh!Nodes
            /\ ~Mesh!AtEdge(m, Mesh!Opposite(port))
            /\ port = "xneg" => Mesh!X(m) = Mesh!X(n) - 1 /\ Mesh!Y(m) = Mesh!Y(n)
            /\ port = "xpos" => Mesh!X(m) = Mesh!X(n) + 1 /\ Mesh!Y(m) = Mesh!Y(n)
            /\ port = "yneg" => Mesh!X(m) = Mesh!X(n) /\ Mesh!Y(m) = Mesh!Y(n) - 1
            /\ port = "ypos" => Mesh!X(m) = Mesh!X(n) /\ Mesh!Y(m) = Mesh!Y(n) + 1
<1> DEFINE m == Link(c, n, port)
           x == Mesh!X(n)
           y == Mesh!Y(n)
           dx == Mesh!DisX(n, d)
           dy == Mesh!DisY(n, d)
<1>1. /\ x \in 0 .. Width - 1 /\ y \in 0 .. Width - 1
      /\ Mesh!X(d) \in 0 .. Width - 1 /\ Mesh!Y(d) \in 0 .. Width - 1
      /\ dx = Mesh!X(d) - x /\ dy = Mesh!Y(d) - y
      /\ Mesh!AtEdge(n, "xneg") <=> x = 0
      /\ Mesh!AtEdge(n, "xpos") <=> x = Width - 1
      /\ Mesh!AtEdge(n, "yneg") <=> y = 0
      /\ Mesh!AtEdge(n, "ypos") <=> y = Width - 1
  BY NodeRow DEF Mesh!DisX, Mesh!DisY
<1>2. Width \in Nat
  BY MeshAssumption, Products DEF Width
<1> HIDE DEF Width
<1>3. /\ port \in Mesh!Ports
      /\ port = "xneg" => dx < 0
      /\ port = "xpos" => dx > 0
      /\ port = "yneg" => dy < 0
      /\ port = "ypos" => dy > 0
  BY DEF MinimalPorts
<1> HIDE DEF x, y, dx, dy
<1>4. /\ port = "xneg" => x # 0
      /\ port = "xpos" => x # Width - 1
      /\ port = "yneg" => y # 0
      /\ port = "ypos" => y # Width - 1
  BY <1>1, <1>2, <1>3
<1>5. ~Mesh!AtEdge(n, port) /\ port \in LinkedPorts(c, n)
  BY <1>1, <1>3, <1>4 DEF LinkedPorts, Mesh!Ports
<1>6. m = Mesh!TorusLink(n, port) /\ m \in Mesh!Nodes
  BY <1>5, Neighbours
<1> HIDE DEF m
<1>7. CASE port = "xneg"
  <2>1. Paired(n, port, m, "xpos") /\ Mesh!X(m) = Down(x, Width) /\ Mesh!Y(m) = y
    BY <1>6, <1>7, LinkXneg DEF x, y
  <2> QED
    BY <1>4, <1>5, <1>6, <1>7, <2>1 DEF Paired, Down, Mesh!Opposite, x, y, m
<1>8. CASE port = "xpos"
  <2>1. Paired(n, port, m, "xneg") /\ Mesh!X(m) = Up(x, Width) /\ Mesh!Y(m) = y
    BY <1>6, <1>8, LinkXpos DEF x, y
  <2> QED
    BY <1>4, <1>5, <1>6, <1>8, <2>1 DEF Paired, Up, Mesh!Opposite, x, y, m
<1>9. CASE port = "yneg"
  <2>1. Paired(n, port, m, "ypos") /\ Mesh!Y(m) = Down(y, Width) /\ Mesh!X(m) = x
    BY <1>6, <1>9, LinkYneg DEF x, y
  <2> QED
    BY <1>4, <1>5, <1>6, <1>9, <2>1 DEF Paired, Down, Mesh!Opposite, x, y, m
<1>10. CASE port = "ypos"
  <2>1. Paired(n, port, m, "yneg") /\ Mesh!Y(m) = Up(y, Width) /\ Mesh!X(m) = x
    BY <1>6, <1>10, LinkYpos DEF x, y
  <2> QED
    BY <1>4, <1>5, <1>6, <1>10, <2>1 DEF Paired, Up, Mesh!Opposite, x, y, m
<1> QED
  BY <1>3, <1>7, <1>8, <1>9, <1>10 DEF Mesh!Ports

-----------------------------------------------------------------------------
(* Ranks of channels.  A packet in front of a channel always has a         *)
(* candidate of a lower rank: no channels can wait for each other in a     *)
(* circle.  The buffer at port "xpos" is that of the packets which travel  *)
(* in negative direction, and so on.                                       *)

\* First x, then y: down to the last column or row in the direction.
XYRank(n, port) ==
  CASE port = "xpos" -> Width + Mesh!X(n)
    [] port = "xneg" -> 2 * Width - 1 - Mesh!X(n)
    [] port = "ypos" -> Mesh!Y(n)
    [] port = "yneg" -> Width - 1 - Mesh!Y(n)

\* First negative directions, then positive ones.
NegativeFirstRank(n, port) ==
  IF port \in {"xpos", "ypos"} THEN 2 * Width - 1 + Mesh!X(n) + Mesh!Y(n)
  ELSE 2 * Width - 2 - (Mesh!X(n) + Mesh!Y(n))

\* Links to the nearest edges of the system.
Nearest(i) == IF 2 * i < Width THEN i ELSE Width - 1 - i
ToEdges(n) == Nearest(Mesh!X(n)) + Nearest(Mesh!Y(n))

\* CLUE: on VC 0 towards the edges; around them on VC 1, in x and then in y;
\* then negative-first.
CLUERank(n, port, v) ==
  IF v = 0 THEN 4 * Width + 3 * ToEdges(n)
  ELSE IF ~Mesh!AtEdge(n, port) THEN NegativeFirstRank(n, port)
  ELSE IF port \in {"xneg", "xpos"} THEN 4 * Width - 1 + 3 * ToEdges(n)
  ELSE 4 * Width - 2 + 3 * ToEdges(n)

Rank(c, n, port, v) ==
  CASE c = "XY" -> XYRank(n, port)
    [] c = "NFR" -> NegativeFirstRank(n, port)
    [] c = "NFR_adaptive" ->
         IF v = VCNumber - 1 THEN NegativeFirstRank(n, port) ELSE 4 * Width - 2
    [] c = "CLUE" -> CLUERank(n, port, v)

\* What is known of a packet to d in front of a channel of n.
XYAlong(n, port, dx, dy) ==
  /\ port = "xpos" => dx <= 0
  /\ port = "xneg" => dx >= 0
  /\ port = "ypos" => dx = 0 /\ dy <= 0
  /\ port = "yneg" => dx = 0 /\ dy >= 0

NegativeFirstAlong(port, dx, dy) ==
  port \in {"xneg", "yneg"} => dx >= 0 /\ dy >= 0

CLUEAlong(n, port, dx, dy) ==
  /\ Torus!Abs(dx) <= Torus!Half
  /\ port \in {"yneg", "ypos"} \/ ~Mesh!AtEdge(n, port) => Torus!Abs(dy) <= Torus!Half
  /\ ~Mesh!AtEdge(n, port) => NegativeFirstAlong(port, dx, dy)

Along(c, n, port, v, d) ==
  LET dx == Mesh!DisX(n, d)
      dy == Mesh!DisY(n, d)
  IN CASE c = "XY" -> XYAlong(n, port, dx, dy)
       [] c = "NFR" -> NegativeFirstAlong(port, dx, dy)
       [] c = "NFR_adaptive" -> v = VCNumber - 1 => NegativeFirstAlong(port, dx, dy)
       [] c = "CLUE" -> v \in {0, 1} /\ (v = 1 => CLUEAlong(n, port, dx, dy))

\* Columns, rows and offsets of two nodes.
LEMMA PlaceOffsets ==
  ASSUME NEW n \in Mesh!Nodes, NEW d \in Mesh!Nodes
  PROVE  /\ Width \in Nat \ {0}
         /\ Mesh!X(n) \in Int /\ 0 <= Mesh!X(n) /\ Mesh!X(n) <= Width - 1
         /\ Mesh!Y(n) \in Int /\ 0 <= Mesh!Y(n) /\ Mesh!Y(n) <= Width - 1
         /\ Mesh!DisX(n, d) \in Int /\ 0 <= Mesh!X(n) + Mesh!DisX(n, d)
         /\ Mesh!X(n) + Mesh!DisX(n, d) <= Width - 1
         /\ Mesh!DisY(n, d) \in Int /\ 0 <= Mesh!Y(n) + Mesh!DisY(n, d)
         /\ Mesh!Y(n) + Mesh!DisY(n, d) <= Width - 1
         /\ Mesh!DisX(n, d) = Mesh!X(d) - Mesh!X(n) /\ Mesh!DisY(n, d) = Mesh!Y(d) - Mesh!Y(n)
<1>1. Width \in Nat
  BY MeshAssumption, Products DEF Width
<1>2. /\ Mesh!X(n) \in 0 .. Width - 1 /\ Mesh!Y(n) \in 0 .. Width - 1
      /\ Mesh!X(d) \in 0 .. Width - 1 /\ Mesh!Y(d) \in 0 .. Width - 1
  BY NodeRow
<1> HIDE DEF Width
<1> QED
  BY <1>1, <1>2 DEF Mesh!DisX, Mesh!DisY

\* Negative first: a candidate continues it, and has a lower rank.
LEMMA NegativeFirstSteps ==
  ASSUME NEW c, NEW n \in Mesh!Nodes, NEW d \in Mesh!Nodes,
         NEW port \in NegativeFirstPorts(Mesh!DisX(n, d), Mesh!DisY(n, d))
  PROVE  LET m == Link(c, n, port)
             to == Mesh!Opposite(port)
         IN /\ port \in MinimalPorts(Mesh!DisX(n, d), Mesh!DisY(n, d))
            /\ NegativeFirstAlong(to, Mesh!DisX(m, d), Mesh!DisY(m, d))
            /\ NegativeFirstRank(m, to) < 4 * Width - 2
            /\ \A back \in Mesh!Ports :
                 NegativeFirstAlong(back, Mesh!DisX(n, d), Mesh!DisY(n, d)) =>
                   NegativeFirstRank(m, to) < NegativeFirstRank(n, back)
<1> DEFINE m == Link(c, n, port)
           to == Mesh!Opposite(port)
           dx == Mesh!DisX(n, d)
           dy == Mesh!DisY(n, d)
<1>1. /\ port \in Mesh!Ports
      /\ port = "xneg" => dx < 0
      /\ port = "yneg" => dy < 0
      /\ port = "xpos" => dx > 0 /\ dy >= 0
      /\ port = "ypos" => dx >= 0 /\ dy > 0
  BY DEF NegativeFirstPorts
<1>2. port \in MinimalPorts(dx, dy)
  BY <1>1 DEF MinimalPorts, Mesh!Ports
<1>3. /\ m \in Mesh!Nodes
      /\ port = "xneg" => Mesh!X(m) = Mesh!X(n) - 1 /\ Mesh!Y(m) = Mesh!Y(n)
      /\ port = "xpos" => Mesh!X(m) = Mesh!X(n) + 1 /\ Mesh!Y(m) = Mesh!Y(n)
      /\ port = "yneg" => Mesh!X(m) = Mesh!X(n) /\ Mesh!Y(m) = Mesh!Y(n) - 1
      /\ port = "ypos" => Mesh!X(m) = Mesh!X(n) /\ Mesh!Y(m) = Mesh!Y(n) + 1
  BY <1>2, Straight
<1>4. /\ Width \in Nat \ {0}
      /\ Mesh!X(n) \in Int /\ 0 <= Mesh!X(n) /\ Mesh!X(n) <= Width - 1
      /\ Mesh!Y(n) \in Int /\ 0 <= Mesh!Y(n) /\ Mesh!Y(n) <= Width - 1
      /\ dx = Mesh!X(d) - Mesh!X(n) /\ dy = Mesh!Y(d) - Mesh!Y(n)
      /\ Mesh!X(d) \in Int /\ Mesh!Y(d) \in Int
      /\ Mesh!X(d) <= Width - 1 /\ Mesh!Y(d) <= Width - 1
  BY PlaceOffsets
<1>5. Mesh!DisX(m, d) = Mesh!X(d) - Mesh!X(m) /\ Mesh!DisY(m, d) = Mesh!Y(d) - Mesh!Y(m)
  BY DEF Mesh!DisX, Mesh!DisY
<1>6. /\ Mesh!X(m) \in Int /\ 0 <= Mesh!X(m) /\ Mesh!X(m) <= Width - 1
      /\ Mesh!Y(m) \in Int /\ 0 <= Mesh!Y(m) /\ Mesh!Y(m) <= Width - 1
  BY <1>3, PlaceOffsets
<1>7. to = CASE port = "xneg" -> "xpos" [] port = "xpos" -> "xneg"
             [] port = "yneg" -> "ypos" [] port = "ypos" -> "yneg"
  BY DEF Mesh!Opposite
<1> HIDE DEF m, to, dx, dy, Width
<1>8. NegativeFirstAlong(to, Mesh!DisX(m, d), Mesh!DisY(m, d))
  BY <1>1, <1>3, <1>4, <1>5, <1>7 DEF NegativeFirstAlong, Mesh!Ports
<1>9. NegativeFirstRank(m, to) < 4 * Width - 2
  BY <1>4, <1>6 DEF NegativeFirstRank
<1>10. ASSUME NEW back \in Mesh!Ports, NegativeFirstAlong(back, dx, dy)
       PROVE  NegativeFirstRank(m, to) < NegativeFirstRank(n, back)
  <2>1. back \in {"xneg", "yneg"} => dx >= 0 /\ dy >= 0
    BY <1>10 DEF NegativeFirstAlong
  <2>2. CASE port \in {"xneg", "yneg"}
    <3>1. back \in {"xpos", "ypos"} /\ to \in {"xpos", "ypos"}
      BY <1>1, <1>4, <1>7, <2>1, <2>2 DEF Mesh!Ports
    <3>2. Mesh!X(m) + Mesh!Y(m) < Mesh!X(n) + Mesh!Y(n)
      BY <1>3, <1>4, <2>2
    <3> QED
      BY <1>4, <1>6, <3>1, <3>2 DEF NegativeFirstRank
  <2>3. CASE port \in {"xpos", "ypos"}
    <3>1. to \in {"xneg", "yneg"}
      BY <1>7, <2>3
    <3>2. Mesh!X(m) + Mesh!Y(m) > Mesh!X(n) + Mesh!Y(n)
      BY <1>3, <1>4, <2>3
    <3> QED
      BY <1>4, <1>6, <3>1, <3>2 DEF NegativeFirstRank, Mesh!Ports
  <2> QED
    BY <1>1, <2>2, <2>3 DEF Mesh!Ports
<1> QED
  BY <1>2, <1>8, <1>9, <1>10 DEF m, to, dx, dy

LEMMA XYSteps ==
  ASSUME NEW c, NEW n \in Mesh!Nodes, NEW d \in Mesh!Nodes,
         NEW port \in XYPorts(Mesh!DisX(n, d), Mesh!DisY(n, d))
  PROVE  LET m == Link(c, n, port)
             to == Mesh!Opposite(port)
         IN /\ port \in MinimalPorts(Mesh!DisX(n, d), Mesh!DisY(n, d))
            /\ XYAlong(m, to, Mesh!DisX(m, d), Mesh!DisY(m, d))
            /\ \A back \in Mesh!Ports :
                 XYAlong(n, back, Mesh!DisX(n, d), Mesh!DisY(n, d)) =>
                   XYRank(m, to) < XYRank(n, back)
<1> DEFINE m == Link(c, n, port)
           to == Mesh!Opposite(port)
           dx == Mesh!DisX(n, d)
           dy == Mesh!DisY(n, d)
<1>1. /\ port \in Mesh!Ports
      /\ port = "xneg" => dx < 0
      /\ port = "xpos" => dx > 0
      /\ port = "yneg" => dx = 0 /\ dy < 0
      /\ port = "ypos" => dx = 0 /\ dy > 0
  BY DEF XYPorts
<1>2. port \in MinimalPorts(dx, dy)
  BY <1>1 DEF MinimalPorts, Mesh!Ports
<1>3. /\ m \in Mesh!Nodes
      /\ port = "xneg" => Mesh!X(m) = Mesh!X(n) - 1 /\ Mesh!Y(m) = Mesh!Y(n)
      /\ port = "xpos" => Mesh!X(m) = Mesh!X(n) + 1 /\ Mesh!Y(m) = Mesh!Y(n)
      /\ port = "yneg" => Mesh!X(m) = Mesh!X(n) /\ Mesh!Y(m) = Mesh!Y(n) - 1
      /\ port = "ypos" => Mesh!X(m) = Mesh!X(n) /\ Mesh!Y(m) = Mesh!Y(n) + 1
  BY <1>2, Straight
<1>4. /\ Width \in Nat \ {0}
      /\ Mesh!X(n) \in Int /\ 0 <= Mesh!X(n) /\ Mesh!X(n) <= Width - 1
      /\ Mesh!Y(n) \in Int /\ 0 <= Mesh!Y(n) /\ Mesh!Y(n) <= Width - 1
      /\ dx = Mesh!X(d) - Mesh!X(n) /\ dy = Mesh!Y(d) - Mesh!Y(n)
      /\ Mesh!X(d) \in Int /\ Mesh!Y(d) \in Int
  BY PlaceOffsets
<1>5. Mesh!DisX(m, d) = Mesh!X(d) - Mesh!X(m) /\ Mesh!DisY(m, d) = Mesh!Y(d) - Mesh!Y(m)
  BY DEF Mesh!DisX, Mesh!DisY
<1>6. /\ Mesh!X(m) \in Int /\ 0 <= Mesh!X(m) /\ Mesh!X(m) <= Width - 1
      /\ Mesh!Y(m) \in Int /\ 0 <= Mesh!Y(m) /\ Mesh!Y(m) <= Width - 1
  BY <1>3, PlaceOffsets
<1>7. to = CASE port = "xneg" -> "xpos" [] port = "xpos" -> "xneg"
             [] port = "yneg" -> "ypos" [] port = "ypos" -> "yneg"
  BY DEF Mesh!Opposite
<1> HIDE DEF m, to, dx, dy, Width
<1>8. XYAlong(m, to, Mesh!DisX(m, d), Mesh!DisY(m, d))
  BY <1>1, <1>3, <1>4, <1>5, <1>7 DEF XYAlong, Mesh!Ports
<1>9. ASSUME NEW back \in Mesh!Ports, XYAlong(n, back, dx, dy)
      PROVE  XYRank(m, to) < XYRank(n, back)
  <2>1. CASE back = "xneg"
    BY <1>1, <1>3, <1>4, <1>6, <1>7, <1>9, <2>1 DEF XYAlong, XYRank, Mesh!Ports
  <2>2. CASE back = "xpos"
    BY <1>1, <1>3, <1>4, <1>6, <1>7, <1>9, <2>2 DEF XYAlong, XYRank, Mesh!Ports
  <2>3. CASE back = "yneg"
    BY <1>1, <1>3, <1>4, <1>6, <1>7, <1>9, <2>3 DEF XYAlong, XYRank, Mesh!Ports
  <2>4. CASE back = "ypos"
    BY <1>1, <1>3, <1>4, <1>6, <1>7, <1>9, <2>4 DEF XYAlong, XYRank, Mesh!Ports
  <2> QED
    BY <2>1, <2>2, <2>3, <2>4 DEF Mesh!Ports
<1> QED
  BY <1>2, <1>8, <1>9 DEF m, to, dx, dy

\* Around an edge of the torus.
LEMMA AroundSteps ==
  ASSUME NEW c, c = "CLUE", NEW n \in Mesh!Nodes,
         NEW port \in Mesh!Ports, Mesh!AtEdge(n, port)
  PROVE  LET m == Link(c, n, port)
         IN /\ m \in Mesh!Nodes /\ Mesh!AtEdge(m, Mesh!Opposite(port))
            /\ port = "xneg" => Mesh!X(n) = 0 /\ Mesh!X(m) = Width - 1 /\ Mesh!Y(m) = Mesh!Y(n)
            /\ port = "xpos" => Mesh!X(n) = Width - 1 /\ Mesh!X(m) = 0 /\ Mesh!Y(m) = Mesh!Y(n)
            /\ port = "yneg" => Mesh!Y(n) = 0 /\ Mesh!Y(m) = Width - 1 /\ Mesh!X(m) = Mesh!X(n)
            /\ port = "ypos" => Mesh!Y(n) = Width - 1 /\ Mesh!Y(m) = 0 /\ Mesh!X(m) = Mesh!X(n)
<1> DEFINE m == Link(c, n, port)
<1>1. port \in LinkedPorts(c, n)
  BY DEF LinkedPorts
<1>2. m = Mesh!TorusLink(n, port) /\ m \in Mesh!Nodes
  BY <1>1, Neighbours
<1>3. /\ port = "xneg" => Mesh!X(n) = 0
      /\ port = "xpos" => Mesh!X(n) = Width - 1
      /\ port = "yneg" => Mesh!Y(n) = 0
      /\ port = "ypos" => Mesh!Y(n) = Width - 1
  BY NodeRow
<1> HIDE DEF m, Width
<1>4. CASE port = "xneg"
  BY <1>2, <1>3, <1>4, LinkXneg DEF Paired, Down, Mesh!Opposite, m
<1>5. CASE port = "xpos"
  BY <1>2, <1>3, <1>5, LinkXpos DEF Paired, Up, Mesh!Opposite, m
<1>6. CASE port = "yneg"
  BY <1>2, <1>3, <1>6, LinkYneg DEF Paired, Down, Mesh!Opposite, m
<1>7. CASE port = "ypos"
  BY <1>2, <1>3, <1>7, LinkYpos DEF Paired, Up, Mesh!Opposite, m
<1> QED
  BY <1>4, <1>5, <1>6, <1>7 DEF Mesh!Ports

LEMMA HalfFacts ==
  /\ Torus!Half \in Nat /\ 2 * Torus!Half <= Width /\ Width <= 2 * Torus!Half + 1
  /\ \A i \in Int : Torus!Abs(i) \in Int /\ (Torus!Abs(i) = i \/ Torus!Abs(i) = -i) /\ Torus!Abs(i) >= 0
<1>1. Width \in Nat /\ Torus!K = Width
  BY MeshAssumption, Products, SameTorus DEF Width
<1> HIDE DEF Width
<1> QED
  BY <1>1 DEF Torus!Half, Torus!Abs

LEMMA EscapeSteps ==
  ASSUME NEW c, c = "CLUE", NEW n \in Mesh!Nodes, NEW d \in Mesh!Nodes,
         NEW port \in EscapePorts(n, Mesh!DisX(n, d), Mesh!DisY(n, d))
  PROVE  LET m == Link(c, n, port)
         IN /\ port \in LinkedPorts(c, n) /\ m \in Mesh!Nodes
            /\ CLUEAlong(m, Mesh!Opposite(port), Mesh!DisX(m, d), Mesh!DisY(m, d))
<1> DEFINE m == Link(c, n, port)
           to == Mesh!Opposite(port)
           dx == Mesh!DisX(n, d)
           dy == Mesh!DisY(n, d)
           half == Torus!Half
<1>1. Mesh!DisX(m, d) = Mesh!X(d) - Mesh!X(m) /\ Mesh!DisY(m, d) = Mesh!Y(d) - Mesh!Y(m)
  BY DEF Mesh!DisX, Mesh!DisY
<1>2. /\ Width \in Nat \ {0}
      /\ Mesh!X(n) \in Int /\ 0 <= Mesh!X(n) /\ Mesh!X(n) <= Width - 1
      /\ Mesh!Y(n) \in Int /\ 0 <= Mesh!Y(n) /\ Mesh!Y(n) <= Width - 1
      /\ dx = Mesh!X(d) - Mesh!X(n) /\ dy = Mesh!Y(d) - Mesh!Y(n)
      /\ Mesh!X(d) \in Int /\ 0 <= Mesh!X(d) /\ Mesh!X(d) <= Width - 1
      /\ Mesh!Y(d) \in Int /\ 0 <= Mesh!Y(d) /\ Mesh!Y(d) <= Width - 1
  BY PlaceOffsets
<1>3. half \in Nat /\ 2 * half <= Width /\ Width <= 2 * half + 1
  BY HalfFacts
<1>4. CASE Torus!Abs(dx) <= half /\ Torus!Abs(dy) <= half
  <2>1. port \in NegativeFirstPorts(dx, dy)
    BY <1>4 DEF EscapePorts
  <2>2. port \in MinimalPorts(dx, dy) /\ NegativeFirstAlong(to, Mesh!DisX(m, d), Mesh!DisY(m, d))
    BY <2>1, NegativeFirstSteps
  <2>3. /\ port \in LinkedPorts(c, n) /\ m \in Mesh!Nodes /\ ~Mesh!AtEdge(m, to)
        /\ port = "xneg" => Mesh!X(m) = Mesh!X(n) - 1 /\ Mesh!Y(m) = Mesh!Y(n)
        /\ port = "xpos" => Mesh!X(m) = Mesh!X(n) + 1 /\ Mesh!Y(m) = Mesh!Y(n)
        /\ port = "yneg" => Mesh!X(m) = Mesh!X(n) /\ Mesh!Y(m) = Mesh!Y(n) - 1
        /\ port = "ypos" => Mesh!X(m) = Mesh!X(n) /\ Mesh!Y(m) = Mesh!Y(n) + 1
    BY <2>2, Straight
  <2>4. /\ port \in Mesh!Ports
        /\ port = "xneg" => dx < 0
        /\ port = "yneg" => dy < 0
        /\ port = "xpos" => dx > 0
        /\ port = "ypos" => dy > 0
    BY <2>2 DEF MinimalPorts
  <2> HIDE DEF m, to, dx, dy, half, Width
  <2>5. Torus!Abs(Mesh!DisX(m, d)) <= half /\ Torus!Abs(Mesh!DisY(m, d)) <= half
    BY <1>1, <1>2, <1>3, <1>4, <2>3, <2>4 DEF Torus!Abs, Mesh!Ports
  <2> QED
    BY <2>2, <2>3, <2>5 DEF CLUEAlong, m, to, half
<1>5. CASE ~(Torus!Abs(dx) <= half /\ Torus!Abs(dy) <= half) /\ Torus!Abs(dx) > half
  <2>1. port \in {"xneg", "xpos"} /\ Mesh!AtEdge(n, port)
    BY <1>5 DEF EscapePorts
  <2>2. port \in Mesh!Ports /\ port \in LinkedPorts(c, n) /\ to \in {"xneg", "xpos"}
    BY <2>1 DEF Mesh!Ports, LinkedPorts, Mesh!Opposite
  <2>3. /\ m \in Mesh!Nodes /\ Mesh!AtEdge(m, to)
        /\ port = "xneg" => Mesh!X(n) = 0 /\ Mesh!X(m) = Width - 1
        /\ port = "xpos" => Mesh!X(n) = Width - 1 /\ Mesh!X(m) = 0
    BY <2>1, <2>2, AroundSteps
  <2> HIDE DEF m, to, dx, dy, half, Width
  <2>4. Torus!Abs(Mesh!DisX(m, d)) <= half
    BY <1>1, <1>2, <1>3, <1>5, <2>1, <2>3 DEF Torus!Abs
  <2> QED
    BY <2>2, <2>3, <2>4 DEF CLUEAlong, m, to, half
<1>6. CASE ~(Torus!Abs(dx) <= half /\ Torus!Abs(dy) <= half) /\ ~(Torus!Abs(dx) > half)
  <2>1. port \in {"yneg", "ypos"} /\ Mesh!AtEdge(n, port)
    BY <1>6 DEF EscapePorts
  <2>2. port \in Mesh!Ports /\ port \in LinkedPorts(c, n) /\ to \in {"yneg", "ypos"}
    BY <2>1 DEF Mesh!Ports, LinkedPorts, Mesh!Opposite
  <2>3. /\ m \in Mesh!Nodes /\ Mesh!AtEdge(m, to) /\ Mesh!X(m) = Mesh!X(n)
        /\ port = "yneg" => Mesh!Y(n) = 0 /\ Mesh!Y(m) = Width - 1
        /\ port = "ypos" => Mesh!Y(n) = Width - 1 /\ Mesh!Y(m) = 0
    BY <2>1, <2>2, AroundSteps
  <2> HIDE DEF m, to, dx, dy, half, Width
  <2>4. Torus!Abs(dx) <= half /\ Torus!Abs(dy) > half
    BY <1>2, <1>3, <1>6 DEF Torus!Abs
  <2>5. Torus!Abs(Mesh!DisX(m, d)) <= half
    BY <1>1, <1>2, <2>3, <2>4
  <2>6. Torus!Abs(Mesh!DisY(m, d)) <= half
    BY <1>1, <1>2, <1>3, <2>1, <2>3, <2>4 DEF Torus!Abs
  <2> QED
    BY <2>2, <2>3, <2>5, <2>6 DEF CLUEAlong, m, to, half
<1> QED
  BY <1>4, <1>5, <1>6

\* A candidate is a channel of a node, in front of which the packet is as it
\* should be.
LEMMA OfferedAlong ==
  ASSUME NEW c \in Names, c = "CLUE" => VCNumber >= 2,
         NEW n \in Mesh!Nodes, NEW d \in Mesh!Nodes, NEW vc \in Offered(c, n, d)
  PROVE  \E m \in Mesh!Nodes, to \in Mesh!Ports, v \in VirtualChannels :
           vc = <<<<m, to>>, v>> /\ Along(c, m, to, v, d)
<1> DEFINE dx == Mesh!DisX(n, d)
           dy == Mesh!DisY(n, d)
<1>1. /\ VCNumber \in Nat \ {0} /\ VirtualChannels = 0 .. VCNumber - 1
      /\ c = "CLUE" => 0 \in VirtualChannels /\ 1 \in VirtualChannels
  BY MeshAssumption
<1>2. \A port \in Mesh!Ports : Mesh!Opposite(port) \in Mesh!Ports
  BY DEF Mesh!Ports, Mesh!Opposite
<1>3. CASE c = "XY"
  <2>1. PICK port \in XYPorts(dx, dy), v \in 0 .. VCNumber - 1 :
          vc = <<<<Link(c, n, port), Mesh!Opposite(port)>>, v>>
    BY <1>3 DEF Offered, Channels
  <2> DEFINE m == Link(c, n, port)
             to == Mesh!Opposite(port)
  <2>2. port \in MinimalPorts(dx, dy) /\ XYAlong(m, to, Mesh!DisX(m, d), Mesh!DisY(m, d))
    BY XYSteps
  <2>3. m \in Mesh!Nodes /\ to \in Mesh!Ports
    BY <1>2, <2>2, Straight DEF MinimalPorts
  <2>4. Along(c, m, to, v, d)
    BY <1>3, <2>2 DEF Along
  <2> QED
    BY <1>1, <2>1, <2>3, <2>4
<1>4. CASE c = "NFR"
  <2>1. PICK port \in NegativeFirstPorts(dx, dy), v \in 0 .. VCNumber - 1 :
          vc = <<<<Link(c, n, port), Mesh!Opposite(port)>>, v>>
    BY <1>4 DEF Offered, Channels
  <2> DEFINE m == Link(c, n, port)
             to == Mesh!Opposite(port)
  <2>2. port \in MinimalPorts(dx, dy) /\ NegativeFirstAlong(to, Mesh!DisX(m, d), Mesh!DisY(m, d))
    BY NegativeFirstSteps
  <2>3. m \in Mesh!Nodes /\ to \in Mesh!Ports
    BY <1>2, <2>2, Straight DEF MinimalPorts
  <2>4. Along(c, m, to, v, d)
    BY <1>4, <2>2 DEF Along
  <2> QED
    BY <1>1, <2>1, <2>3, <2>4
<1>5. CASE c = "NFR_adaptive"
  <2>1. CASE vc \in Channels(c, n, MinimalPorts(dx, dy), 0 .. VCNumber - 2)
    <3>1. PICK port \in MinimalPorts(dx, dy), v \in 0 .. VCNumber - 2 :
            vc = <<<<Link(c, n, port), Mesh!Opposite(port)>>, v>>
      BY <2>1 DEF Channels
    <3> DEFINE m == Link(c, n, port)
               to == Mesh!Opposite(port)
    <3>2. m \in Mesh!Nodes /\ to \in Mesh!Ports
      BY <1>2, Straight DEF MinimalPorts
    <3>3. v \in VirtualChannels /\ v # VCNumber - 1
      BY <1>1
    <3>4. Along(c, m, to, v, d)
      BY <1>5, <3>3 DEF Along
    <3> QED
      BY <3>1, <3>2, <3>3, <3>4
  <2>2. CASE vc \in Channels(c, n, NegativeFirstPorts(dx, dy), {VCNumber - 1})
    <3>1. PICK port \in NegativeFirstPorts(dx, dy), v \in {VCNumber - 1} :
            vc = <<<<Link(c, n, port), Mesh!Opposite(port)>>, v>>
      BY <2>2 DEF Channels
    <3> DEFINE m == Link(c, n, port)
               to == Mesh!Opposite(port)
    <3>2. port \in MinimalPorts(dx, dy) /\ NegativeFirstAlong(to, Mesh!DisX(m, d), Mesh!DisY(m, d))
      BY NegativeFirstSteps
    <3>3. m \in Mesh!Nodes /\ to \in Mesh!Ports
      BY <1>2, <3>2, Straight DEF MinimalPorts
    <3>4. Along(c, m, to, v, d)
      BY <1>5, <3>2 DEF Along
    <3>5. v \in VirtualChannels
      BY <1>1
    <3> QED
      BY <3>1, <3>3, <3>4, <3>5
  <2> QED
    BY <1>5, <2>1, <2>2 DEF Offered
<1>6. CASE c = "CLUE"
  <2>1. CASE vc \in Channels(c, n, ShorterPorts(dx, dy), {0})
    <3>1. PICK port \in ShorterPorts(dx, dy) :
            vc = <<<<Link(c, n, port), Mesh!Opposite(port)>>, 0>>
      BY <2>1 DEF Channels
    <3> DEFINE m == Link(c, n, port)
               to == Mesh!Opposite(port)
    <3>2. port \in LinkedPorts(c, n)
      BY <1>6 DEF LinkedPorts, ShorterPorts
    <3>3. m \in Mesh!Nodes /\ to \in Mesh!Ports
      BY <1>2, <3>2, Neighbours DEF LinkedPorts
    <3>4. Along(c, m, to, 0, d)
      BY <1>6 DEF Along
    <3> QED
      BY <1>1, <1>6, <3>1, <3>3, <3>4
  <2>2. CASE vc \in Channels(c, n, EscapePorts(n, dx, dy), {1})
    <3>1. PICK port \in EscapePorts(n, dx, dy) :
            vc = <<<<Link(c, n, port), Mesh!Opposite(port)>>, 1>>
      BY <2>2 DEF Channels
    <3> DEFINE m == Link(c, n, port)
               to == Mesh!Opposite(port)
    <3>2. /\ port \in LinkedPorts(c, n) /\ m \in Mesh!Nodes
          /\ CLUEAlong(m, to, Mesh!DisX(m, d), Mesh!DisY(m, d))
      BY <1>6, EscapeSteps
    <3>3. to \in Mesh!Ports
      BY <1>2, <3>2 DEF LinkedPorts
    <3>4. Along(c, m, to, 1, d)
      BY <1>6, <3>2 DEF Along
    <3> QED
      BY <1>1, <1>6, <3>1, <3>2, <3>3, <3>4
  <2> QED
    BY <1>6, <2>1, <2>2 DEF Offered
<1> QED
  BY <1>3, <1>4, <1>5, <1>6 DEF Names

LEMMA RankBounds ==
  ASSUME NEW c \in Names, NEW n \in Mesh!Nodes, NEW port \in Mesh!Ports, NEW v
  PROVE  Rank(c, n, port, v) \in Nat /\ Rank(c, n, port, v) < 8 * Width
<1>1. /\ Width \in Nat \ {0}
      /\ Mesh!X(n) \in Int /\ 0 <= Mesh!X(n) /\ Mesh!X(n) <= Width - 1
      /\ Mesh!Y(n) \in Int /\ 0 <= Mesh!Y(n) /\ Mesh!Y(n) <= Width - 1
  BY PlaceOffsets
<1> HIDE DEF Width
<1>2. XYRank(n, port) \in Nat /\ XYRank(n, port) < 8 * Width
  BY <1>1 DEF XYRank, Mesh!Ports
<1>3. NegativeFirstRank(n, port) \in Nat /\ NegativeFirstRank(n, port) < 4 * Width
  BY <1>1 DEF NegativeFirstRank
<1>4. ToEdges(n) \in Nat /\ ToEdges(n) <= Width - 1
  BY <1>1 DEF ToEdges, Nearest
<1>5. CLUERank(n, port, v) \in Nat /\ CLUERank(n, port, v) < 8 * Width
  BY <1>1, <1>3, <1>4 DEF CLUERank
<1> QED
  BY <1>1, <1>2, <1>3, <1>5 DEF Rank, Names

\* Some candidate has a rank below the bound.
Below(c, n, d, bound) ==
  \E m \in Mesh!Nodes, to \in Mesh!Ports, v \in VirtualChannels :
    <<<<m, to>>, v>> \in Offered(c, n, d) /\ Rank(c, m, to, v) < bound

LEMMA BelowByPort ==
  ASSUME NEW c \in Names, c = "CLUE" => VCNumber >= 2,
         NEW n \in Mesh!Nodes, NEW d \in Mesh!Nodes, NEW port, NEW v, NEW bound,
         <<<<Link(c, n, port), Mesh!Opposite(port)>>, v>> \in Offered(c, n, d),
         Rank(c, Link(c, n, port), Mesh!Opposite(port), v) < bound
  PROVE  Below(c, n, d, bound)
<1> DEFINE vc == <<<<Link(c, n, port), Mesh!Opposite(port)>>, v>>
<1>1. PICK m \in Mesh!Nodes, to \in Mesh!Ports, w \in VirtualChannels : vc = <<<<m, to>>, w>>
  BY OfferedAlong
<1>2. m = Link(c, n, port) /\ to = Mesh!Opposite(port) /\ w = v
  BY <1>1
<1> QED
  BY <1>1, <1>2 DEF Below

\* The shorter way in x is the one around the edge.
LEMMA RoundX ==
  ASSUME VCNumber >= 2, NEW n \in Mesh!Nodes, NEW d \in Mesh!Nodes,
         Torus!Abs(Mesh!DisX(n, d)) > Torus!Half
  PROVE  Below("CLUE", n, d, 4 * Width + 3 * ToEdges(n))
<1> DEFINE c == "CLUE"
           x == Mesh!X(n)
           dx == Mesh!DisX(n, d)
           dy == Mesh!DisY(n, d)
           half == Torus!Half
           bound == 4 * Width + 3 * ToEdges(n)
<1>1. /\ Width \in Nat \ {0}
      /\ x \in Int /\ 0 <= x /\ x <= Width - 1
      /\ Mesh!Y(n) \in Int /\ 0 <= Mesh!Y(n) /\ Mesh!Y(n) <= Width - 1
      /\ dx \in Int /\ 0 <= x + dx /\ x + dx <= Width - 1
  BY PlaceOffsets
<1>2. half \in Nat /\ 2 * half <= Width /\ Width <= 2 * half + 1
  BY HalfFacts
<1>3. (Mesh!AtEdge(n, "xneg") <=> x = 0) /\ (Mesh!AtEdge(n, "xpos") <=> x = Width - 1)
  BY NodeRow
<1>4. dx > half \/ dx < -half
  BY <1>1, <1>2 DEF Torus!Abs
<1>5. /\ \A port \in ShorterPorts(dx, dy) :
           <<<<Link(c, n, port), Mesh!Opposite(port)>>, 0>> \in Offered(c, n, d)
      /\ \A port \in {"xneg", "xpos"} : Mesh!AtEdge(n, port) =>
           <<<<Link(c, n, port), Mesh!Opposite(port)>>, 1>> \in Offered(c, n, d)
  <2>1. \A port \in {"xneg", "xpos"} : Mesh!AtEdge(n, port) => port \in EscapePorts(n, dx, dy)
    <3>1. ~(Torus!Abs(dx) <= half) /\ Torus!Abs(dx) > half
      BY <1>1, <1>2, HalfFacts
    <3> QED
      BY <3>1 DEF EscapePorts
  <2> QED
    BY <2>1, Offering DEF Offered
<1>6. ASSUME NEW port \in {"xneg", "xpos"}, Mesh!AtEdge(n, port) PROVE Below(c, n, d, bound)
  <2> DEFINE m == Link(c, n, port)
             to == Mesh!Opposite(port)
  <2>1. /\ m \in Mesh!Nodes /\ Mesh!AtEdge(m, to) /\ Mesh!Y(m) = Mesh!Y(n)
        /\ port = "xneg" => x = 0 /\ Mesh!X(m) = Width - 1
        /\ port = "xpos" => x = Width - 1 /\ Mesh!X(m) = 0
    BY <1>6, AroundSteps DEF Mesh!Ports
  <2>2. to \in {"xneg", "xpos"}
    BY DEF Mesh!Opposite
  <2> HIDE DEF m, to, Width, x
  <2>3. Nearest(Mesh!X(m)) = Nearest(x)
    BY <1>1, <2>1 DEF Nearest
  <2>4. ToEdges(m) = ToEdges(n)
    BY <2>1, <2>3 DEF ToEdges, x
  <2>5. ToEdges(n) \in Int
    BY <1>1 DEF ToEdges, Nearest, x
  <2>6. Rank(c, m, to, 1) < bound
    BY <1>1, <2>1, <2>2, <2>4, <2>5 DEF Rank, CLUERank
  <2> HIDE DEF bound
  <2> QED
    BY <1>5, <1>6, <2>6, BelowByPort DEF Names, m, to
<1>7. ASSUME NEW port \in {"xneg", "xpos"}, ~Mesh!AtEdge(n, port), port \in ShorterPorts(dx, dy),
             port = "xneg" => dx > half, port = "xpos" => dx < -half
      PROVE  Below(c, n, d, bound)
  <2> DEFINE m == Link(c, n, port)
             to == Mesh!Opposite(port)
  <2>1. port \in LinkedPorts(c, n)
    BY DEF LinkedPorts, Mesh!Ports
  <2>2. m = Mesh!TorusLink(n, port) /\ m \in Mesh!Nodes
    BY <2>1, Neighbours
  <2>3. /\ Mesh!Y(m) = Mesh!Y(n)
        /\ port = "xneg" => Mesh!X(m) = Down(x, Width)
        /\ port = "xpos" => Mesh!X(m) = Up(x, Width)
    BY <2>2, LinkXneg, LinkXpos
  <2> HIDE DEF m, to, x, dx, half, Width
  <2>4. /\ port = "xneg" => x # 0 /\ Mesh!X(m) = x - 1 /\ 2 * x < Width
        /\ port = "xpos" => x # Width - 1 /\ Mesh!X(m) = x + 1 /\ 2 * x > Width
    BY <1>1, <1>2, <1>3, <1>7, <2>3 DEF Down, Up
  <2>5. Nearest(Mesh!X(m)) = Nearest(x) - 1
    BY <1>1, <2>4 DEF Nearest
  <2>6. Nearest(x) \in Int /\ Nearest(Mesh!Y(n)) \in Int
    BY <1>1 DEF Nearest
  <2>7. ToEdges(m) = ToEdges(n) - 1 /\ ToEdges(n) \in Int
    BY <2>3, <2>5, <2>6 DEF ToEdges, x
  <2>8. Rank(c, m, to, 0) < bound
    BY <1>1, <2>7 DEF Rank, CLUERank
  <2> HIDE DEF bound
  <2> QED
    BY <1>5, <1>7, <2>8, BelowByPort DEF Names, m, to
<1>8. /\ dx > half => "xneg" \in ShorterPorts(dx, dy)
      /\ dx < -half => "xpos" \in ShorterPorts(dx, dy)
  BY DEF ShorterPorts, Mesh!Ports, Torus!Negative, Torus!Positive
<1> HIDE DEF dx, half, bound
<1>9. CASE dx > half
  <2>1. ~(dx < -half)
    BY <1>1, <1>2, <1>9
  <2> QED
    BY <1>6, <1>7, <1>8, <1>9, <2>1 DEF bound
<1>10. CASE dx < -half
  <2>1. ~(dx > half)
    BY <1>1, <1>2, <1>10
  <2> QED
    BY <1>6, <1>7, <1>8, <1>10, <2>1 DEF bound
<1> QED
  BY <1>4, <1>9, <1>10

\* The shorter way in y is the one around the edge.
LEMMA RoundY ==
  ASSUME VCNumber >= 2, NEW n \in Mesh!Nodes, NEW d \in Mesh!Nodes,
         Torus!Abs(Mesh!DisX(n, d)) <= Torus!Half, Torus!Abs(Mesh!DisY(n, d)) > Torus!Half
  PROVE  Below("CLUE", n, d, 4 * Width - 1 + 3 * ToEdges(n))
<1> DEFINE c == "CLUE"
           y == Mesh!Y(n)
           dx == Mesh!DisX(n, d)
           dy == Mesh!DisY(n, d)
           half == Torus!Half
           bound == 4 * Width - 1 + 3 * ToEdges(n)
<1>1. /\ Width \in Nat \ {0}
      /\ Mesh!X(n) \in Int /\ 0 <= Mesh!X(n) /\ Mesh!X(n) <= Width - 1
      /\ y \in Int /\ 0 <= y /\ y <= Width - 1
      /\ dy \in Int /\ 0 <= y + dy /\ y + dy <= Width - 1 /\ dx \in Int
  BY PlaceOffsets
<1>2. half \in Nat /\ 2 * half <= Width /\ Width <= 2 * half + 1
  BY HalfFacts
<1>3. (Mesh!AtEdge(n, "yneg") <=> y = 0) /\ (Mesh!AtEdge(n, "ypos") <=> y = Width - 1)
  BY NodeRow
<1>4. dy > half \/ dy < -half
  BY <1>1, <1>2 DEF Torus!Abs
<1>5. /\ \A port \in ShorterPorts(dx, dy) :
           <<<<Link(c, n, port), Mesh!Opposite(port)>>, 0>> \in Offered(c, n, d)
      /\ \A port \in {"yneg", "ypos"} : Mesh!AtEdge(n, port) =>
           <<<<Link(c, n, port), Mesh!Opposite(port)>>, 1>> \in Offered(c, n, d)
  <2>1. \A port \in {"yneg", "ypos"} : Mesh!AtEdge(n, port) => port \in EscapePorts(n, dx, dy)
    <3>1. ~(Torus!Abs(dy) <= half) /\ ~(Torus!Abs(dx) > half)
      BY <1>1, <1>2, HalfFacts
    <3> QED
      BY <3>1 DEF EscapePorts
  <2> QED
    BY <2>1, Offering DEF Offered
<1>6. ASSUME NEW port \in {"yneg", "ypos"}, Mesh!AtEdge(n, port) PROVE Below(c, n, d, bound)
  <2> DEFINE m == Link(c, n, port)
             to == Mesh!Opposite(port)
  <2>1. /\ m \in Mesh!Nodes /\ Mesh!AtEdge(m, to) /\ Mesh!X(m) = Mesh!X(n)
        /\ port = "yneg" => y = 0 /\ Mesh!Y(m) = Width - 1
        /\ port = "ypos" => y = Width - 1 /\ Mesh!Y(m) = 0
    BY <1>6, AroundSteps DEF Mesh!Ports
  <2>2. to \in {"yneg", "ypos"}
    BY DEF Mesh!Opposite
  <2> HIDE DEF m, to, Width, y
  <2>3. Nearest(Mesh!Y(m)) = Nearest(y)
    BY <1>1, <2>1 DEF Nearest
  <2>4. ToEdges(m) = ToEdges(n)
    BY <2>1, <2>3 DEF ToEdges, y
  <2>5. ToEdges(n) \in Int
    BY <1>1 DEF ToEdges, Nearest, y
  <2>6. Rank(c, m, to, 1) < bound
    BY <1>1, <2>1, <2>2, <2>4, <2>5 DEF Rank, CLUERank
  <2> HIDE DEF bound
  <2> QED
    BY <1>5, <1>6, <2>6, BelowByPort DEF Names, m, to
<1>7. ASSUME NEW port \in {"yneg", "ypos"}, ~Mesh!AtEdge(n, port), port \in ShorterPorts(dx, dy),
             port = "yneg" => dy > half, port = "ypos" => dy < -half
      PROVE  Below(c, n, d, bound)
  <2> DEFINE m == Link(c, n, port)
             to == Mesh!Opposite(port)
  <2>1. port \in LinkedPorts(c, n)
    BY DEF LinkedPorts, Mesh!Ports
  <2>2. m = Mesh!TorusLink(n, port) /\ m \in Mesh!Nodes
    BY <2>1, Neighbours
  <2>3. /\ Mesh!X(m) = Mesh!X(n)
        /\ port = "yneg" => Mesh!Y(m) = Down(y, Width)
        /\ port = "ypos" => Mesh!Y(m) = Up(y, Width)
    BY <2>2, LinkYneg, LinkYpos
  <2> HIDE DEF m, to, y, dy, half, Width
  <2>4. /\ port = "yneg" => y # 0 /\ Mesh!Y(m) = y - 1 /\ 2 * y < Width
        /\ port = "ypos" => y # Width - 1 /\ Mesh!Y(m) = y + 1 /\ 2 * y > Width
    BY <1>1, <1>2, <1>3, <1>7, <2>3 DEF Down, Up
  <2>5. Nearest(Mesh!Y(m)) = Nearest(y) - 1
    BY <1>1, <2>4 DEF Nearest
  <2>6. Nearest(y) \in Int /\ Nearest(Mesh!X(n)) \in Int
    BY <1>1 DEF Nearest
  <2>7. ToEdges(m) = ToEdges(n) - 1 /\ ToEdges(n) \in Int
    BY <2>3, <2>5, <2>6 DEF ToEdges, y
  <2>8. Rank(c, m, to, 0) < bound
    BY <1>1, <2>7 DEF Rank, CLUERank
  <2> HIDE DEF bound
  <2> QED
    BY <1>5, <1>7, <2>8, BelowByPort DEF Names, m, to
<1>8. /\ dy > half => "yneg" \in ShorterPorts(dx, dy)
      /\ dy < -half => "ypos" \in ShorterPorts(dx, dy)
  BY DEF ShorterPorts, Mesh!Ports, Torus!Negative, Torus!Positive
<1> HIDE DEF dy, half, bound
<1>9. CASE dy > half
  <2>1. ~(dy < -half)
    BY <1>1, <1>2, <1>9
  <2> QED
    BY <1>6, <1>7, <1>8, <1>9, <2>1 DEF bound
<1>10. CASE dy < -half
  <2>1. ~(dy > half)
    BY <1>1, <1>2, <1>10
  <2> QED
    BY <1>6, <1>7, <1>8, <1>10, <2>1 DEF bound
<1> QED
  BY <1>4, <1>9, <1>10

\* A packet in front of a channel, not at its destination, has a candidate of a
\* lower rank.
LEMMA LowerCandidate ==
  ASSUME NEW c \in Names, c = "CLUE" => VCNumber >= 2,
         NEW n \in Mesh!Nodes, NEW d \in Mesh!Nodes, n # d,
         NEW back \in Mesh!Ports, NEW v \in VirtualChannels, Along(c, n, back, v, d)
  PROVE  Below(c, n, d, Rank(c, n, back, v))
<1> DEFINE dx == Mesh!DisX(n, d)
           dy == Mesh!DisY(n, d)
           bound == Rank(c, n, back, v)
<1>1. XYPorts(dx, dy) # {} /\ NegativeFirstPorts(dx, dy) # {}
  BY SomePort
<1>2. VCNumber \in Nat \ {0} /\ 0 \in 0 .. VCNumber - 1
  BY MeshAssumption
<1>3. CASE c = "XY"
  <2>1. PICK port \in XYPorts(dx, dy) : TRUE
    BY <1>1
  <2>2. XYRank(Link(c, n, port), Mesh!Opposite(port)) < XYRank(n, back)
    BY <1>3, XYSteps DEF Along
  <2>3. <<<<Link(c, n, port), Mesh!Opposite(port)>>, 0>> \in Offered(c, n, d)
    BY <1>2, <1>3, Offering DEF Offered
  <2>4. Rank(c, Link(c, n, port), Mesh!Opposite(port), 0) < bound
    BY <1>3, <2>2 DEF Rank
  <2> QED
    BY <1>3, <2>3, <2>4, BelowByPort
<1>4. PICK port \in NegativeFirstPorts(dx, dy) : TRUE
  BY <1>1
<1> DEFINE m == Link(c, n, port)
           to == Mesh!Opposite(port)
<1>5. /\ port \in MinimalPorts(dx, dy) /\ NegativeFirstRank(m, to) < 4 * Width - 2
      /\ NegativeFirstAlong(back, dx, dy) => NegativeFirstRank(m, to) < NegativeFirstRank(n, back)
  BY NegativeFirstSteps
<1>6. CASE c = "NFR"
  <2>1. <<<<m, to>>, 0>> \in Offered(c, n, d)
    BY <1>2, <1>6, Offering DEF Offered
  <2>2. Rank(c, m, to, 0) < bound
    BY <1>5, <1>6 DEF Rank, Along
  <2> QED
    BY <1>6, <2>1, <2>2, BelowByPort
<1>7. CASE c = "NFR_adaptive"
  <2>1. <<<<m, to>>, VCNumber - 1>> \in Offered(c, n, d)
    BY <1>7, Offering DEF Offered
  <2>2. Rank(c, m, to, VCNumber - 1) < bound
    BY <1>5, <1>7 DEF Rank, Along
  <2> QED
    BY <1>7, <2>1, <2>2, BelowByPort
<1>8. CASE c = "CLUE"
  <2>1. /\ v \in {0, 1} /\ (v = 1 => CLUEAlong(n, back, dx, dy))
    BY <1>8 DEF Along
  <2>2. bound = CLUERank(n, back, v)
    BY <1>8 DEF Rank
  <2>3. /\ Width \in Nat \ {0} /\ ToEdges(n) \in Nat
        /\ Torus!Abs(dx) \in Int /\ Torus!Abs(dy) \in Int /\ Torus!Half \in Int
    <3>1. /\ Width \in Nat \ {0} /\ dx \in Int /\ dy \in Int
          /\ Mesh!X(n) \in Int /\ 0 <= Mesh!X(n) /\ Mesh!X(n) <= Width - 1
          /\ Mesh!Y(n) \in Int /\ 0 <= Mesh!Y(n) /\ Mesh!Y(n) <= Width - 1
      BY PlaceOffsets
    <3>2. ToEdges(n) \in Nat
      <4> HIDE DEF Width
      <4> QED
        BY <3>1 DEF ToEdges, Nearest
    <3> QED
      BY <3>1, <3>2, HalfFacts
  <2>4. CASE Torus!Abs(dx) <= Torus!Half /\ Torus!Abs(dy) <= Torus!Half
    <3>1. <<<<m, to>>, 1>> \in Offered(c, n, d)
      BY <1>8, <2>4, Offering DEF Offered, EscapePorts
    <3>2. CLUERank(m, to, 1) = NegativeFirstRank(m, to)
      <4>1. ~Mesh!AtEdge(m, to)
        BY <1>5, Straight
      <4> QED
        BY <4>1 DEF CLUERank
    <3>3. CLUERank(m, to, 1) < CLUERank(n, back, v)
      <4>1. CASE v = 1 /\ ~Mesh!AtEdge(n, back)
        BY <1>5, <2>1, <3>2, <4>1 DEF CLUEAlong, CLUERank
      <4>2. CASE v = 0 \/ Mesh!AtEdge(n, back)
        <5>1. NegativeFirstRank(m, to) \in Int
          <6>1. Mesh!X(m) \in Int /\ Mesh!Y(m) \in Int
            BY <1>5, Straight, PlaceOffsets
          <6> QED
            BY <2>3, <6>1 DEF NegativeFirstRank
        <5> HIDE DEF m, to, Width
        <5> QED
          BY <1>5, <2>1, <2>3, <3>2, <4>2, <5>1 DEF CLUERank
      <4> QED
        BY <2>1, <4>1, <4>2
    <3>4. Rank(c, m, to, 1) < bound
      BY <1>8, <2>2, <3>3 DEF Rank
    <3> QED
      BY <1>8, <3>1, <3>4, BelowByPort
  <2>5. CASE Torus!Abs(dx) > Torus!Half
    <3>1. v = 0
      BY <2>1, <2>3, <2>5 DEF CLUEAlong
    <3>2. bound = 4 * Width + 3 * ToEdges(n)
      BY <2>2, <3>1 DEF CLUERank
    <3> QED
      BY <1>8, <2>5, <3>2, RoundX
  <2>6. CASE Torus!Abs(dx) <= Torus!Half /\ Torus!Abs(dy) > Torus!Half
    <3>1. Below("CLUE", n, d, 4 * Width - 1 + 3 * ToEdges(n))
      BY <1>8, <2>6, RoundY
    <3>2. v = 1 => Mesh!AtEdge(n, back) /\ back \in {"xneg", "xpos"}
      BY <2>1, <2>3, <2>6 DEF CLUEAlong, Mesh!Ports
    <3>3. bound \in Int /\ bound >= 4 * Width - 1 + 3 * ToEdges(n)
      <4> HIDE DEF Width
      <4> QED
        BY <2>1, <2>2, <2>3, <3>2 DEF CLUERank
    <3>4. PICK i \in Mesh!Nodes, p \in Mesh!Ports, w \in VirtualChannels :
            <<<<i, p>>, w>> \in Offered(c, n, d) /\ Rank(c, i, p, w) < 4 * Width - 1 + 3 * ToEdges(n)
      BY <1>8, <3>1 DEF Below
    <3>5. Rank(c, i, p, w) \in Nat
      BY RankBounds
    <3> HIDE DEF Width, bound
    <3>6. Rank(c, i, p, w) < bound
      BY <2>3, <3>3, <3>4, <3>5
    <3> QED
      BY <3>4, <3>6 DEF Below, bound
  <2> QED
    BY <2>3, <2>4, <2>5, <2>6
<1> QED
  BY <1>3, <1>6, <1>7, <1>8 DEF Names

-----------------------------------------------------------------------------
(* No packets wait for each other in a circle.                             *)

RankOf(c, vc) == Rank(c, vc[1][1], vc[1][2], vc[2])

\* Channels that a packet goes on to, if a set is closed under going on.
LEMMA VisitedWithin ==
  ASSUME MaxRounds \in Nat, NEW a, NEW s, NEW d, NEW Places,
         Out(a, s, d, AtSource(s)) \subseteq Places,
         \A vc \in Places : Out(a, s, d, vc) \subseteq Places
  PROVE  Visited(a, s, d) \subseteq Places
<1> DEFINE T == SUBSET Places
           first == Out(a, s, d, AtSource(s))
           More(V) == V \cup UNION {Out(a, s, d, vc) : vc \in V}
           step == [V \in T |-> More(V)]
           Body(f) == [i \in Nat |-> IF i = 0 THEN first ELSE More(f[i - 1])]
           W == CHOOSE f : f = Body(f)
<1>1. first \in T
  OBVIOUS
<1>2. \A V \in T : More(V) \in T
  OBVIOUS
<1>3. step \in [T -> T]
  BY <1>2
<1> HIDE DEF T, first, More
<1>4. PICK f \in [Nat -> T] : Iterates(f, first, step)
  <2> HIDE DEF step
  <2> QED
    BY <1>1, <1>3, IterationExists
<1>5. f = Body(f)
  <2>1. \A i \in Nat : i # 0 => step[f[i - 1]] = More(f[i - 1])
    OBVIOUS
  <2> HIDE DEF step
  <2> QED
    BY <1>4, <2>1 DEF Iterates
<1>6. W = Body(W)
  <2> HIDE DEF Body
  <2> QED
    BY <1>5
<1>7. W[0] = first /\ \A i \in Nat : W[i + 1] = More(W[i])
  <2> HIDE DEF W
  <2>1. \A i \in Nat : i + 1 \in Nat /\ i + 1 # 0 /\ (i + 1) - 1 = i
    OBVIOUS
  <2>2. \A i \in Nat : W[i] = IF i = 0 THEN first ELSE More(W[i - 1])
    BY <1>6
  <2> QED
    BY <2>1, <2>2
<1>8. \A i \in Nat : W[i] \in T
  <2> HIDE DEF W
  <2> QED
    BY <1>1, <1>2, <1>7, StaysIn
<1>9. Visited(a, s, d) = W[MaxRounds]
  BY DEF Visited, first, More
<1> HIDE DEF W
<1> QED
  BY <1>8, <1>9 DEF T

\* Channels that some packet waits in front of.
Occupied(a) == {w[1] : w \in Waits(a)}

\* Channels in front of which a packet to d may wait.
Waiting(c, d) ==
  {vc \in (Mesh!Nodes \X Mesh!Ports) \X VirtualChannels :
     NodeOf(vc) # d /\ Along(c, vc[1][1], vc[1][2], vc[2], d)}

LEMMA NamedAlgorithm ==
  ASSUME NEW c \in Configs
  PROVE  c \in Names /\ (c = "CLUE" => VCNumber >= 2)
BY MeshAssumption DEF Names

LEMMA OutWaits ==
  ASSUME Walks, NEW c \in Configs, NEW s \in Mesh!Nodes, NEW d \in Mesh!Nodes,
         NEW vc \in Heads, NodeOf(vc) \in Mesh!Nodes
  PROVE  Out(c, s, d, vc) \subseteq Waiting(c, d)
<1>1. c \in Names /\ (c = "CLUE" => VCNumber >= 2)
  BY NamedAlgorithm
<1>2. Route(c, s, d, vc) = MCRoute(c, s, d, vc)
  BY DEF Walks
<1>3. Range(MCRoute(c, s, d, vc)) = Offered(c, NodeOf(vc), d)
  BY <1>1, RangeOfRoute DEF Names
<1>4. SUFFICES ASSUME NEW x \in Offered(c, NodeOf(vc), d), NodeOf(x) # d
               PROVE  x \in Waiting(c, d)
  BY <1>2, <1>3 DEF Out
<1>5. PICK m \in Mesh!Nodes, to \in Mesh!Ports, v \in VirtualChannels :
        x = <<<<m, to>>, v>> /\ Along(c, m, to, v, d)
  BY <1>1, OfferedAlong
<1>6. x \in (Mesh!Nodes \X Mesh!Ports) \X VirtualChannels
      /\ x[1][1] = m /\ x[1][2] = to /\ x[2] = v
  BY <1>5
<1> QED
  BY <1>4, <1>5, <1>6 DEF Waiting

LEMMA VisitedWaits ==
  ASSUME Walks, NEW c \in Configs, NEW s \in Mesh!Nodes, NEW d \in Mesh!Nodes
  PROVE  Visited(c, s, d) \subseteq Waiting(c, d)
<1>1. Out(c, s, d, AtSource(s)) \subseteq Waiting(c, d)
  <2>1. AtSource(s) \in Heads /\ NodeOf(AtSource(s)) = s
    BY DEF Heads, AtSource, NodeOf
  <2> QED
    BY <2>1, OutWaits
<1>2. ASSUME NEW vc \in Waiting(c, d) PROVE Out(c, s, d, vc) \subseteq Waiting(c, d)
  <2>1. vc \in Heads /\ NodeOf(vc) \in Mesh!Nodes
    BY DEF Waiting, Heads, NodeOf
  <2> QED
    BY <2>1, OutWaits
<1>3. MaxRounds \in Nat
  BY MeshAssumption
<1> QED
  BY <1>1, <1>2, <1>3, VisitedWithin

\* A packet that waits in front of a channel may go on to a channel of a lower
\* rank.
LEMMA WaitsForLower ==
  ASSUME Walks, NEW c \in Configs, NEW w \in Waits(c)
  PROVE  /\ RankOf(c, w[1]) \in Nat /\ RankOf(c, w[1]) < 8 * Width
         /\ \E x \in w[2] : RankOf(c, x) \in Nat /\ RankOf(c, x) < RankOf(c, w[1])
<1>1. c \in Names /\ (c = "CLUE" => VCNumber >= 2)
  BY NamedAlgorithm
<1>2. Cores(c) = Mesh!Nodes
  BY DEF Walks, MCCores
<1>3. PICK s \in Mesh!Nodes, d \in Mesh!Nodes :
        \E vc \in Visited(c, s, d) : w = <<vc, Range(Route(c, s, d, vc))>>
  BY <1>2 DEF Waits
<1> PICK vc \in Visited(c, s, d) : w = <<vc, Range(Route(c, s, d, vc))>>
  BY <1>3
<1>4. vc \in Waiting(c, d)
  BY VisitedWaits
<1>5. PICK n \in Mesh!Nodes, port \in Mesh!Ports, v \in VirtualChannels :
        /\ vc = <<<<n, port>>, v>> /\ n # d /\ Along(c, n, port, v, d)
        /\ vc \in Heads /\ NodeOf(vc) = n
  BY <1>4 DEF Waiting, NodeOf, Heads
<1>6. RankOf(c, vc) = Rank(c, n, port, v)
  BY <1>5 DEF RankOf
<1>7. Range(Route(c, s, d, vc)) = Offered(c, n, d)
  <2>1. Route(c, s, d, vc) = MCRoute(c, s, d, vc)
    BY <1>5 DEF Walks
  <2>2. Range(MCRoute(c, s, d, vc)) = Offered(c, NodeOf(vc), d)
    BY <1>1, <1>5, RangeOfRoute DEF Names
  <2> QED
    BY <1>5, <2>1, <2>2
<1>8. PICK m \in Mesh!Nodes, to \in Mesh!Ports, u \in VirtualChannels :
        <<<<m, to>>, u>> \in Offered(c, n, d) /\ Rank(c, m, to, u) < Rank(c, n, port, v)
  BY <1>1, <1>5, LowerCandidate DEF Below
<1>9. Rank(c, m, to, u) \in Nat /\ Rank(c, n, port, v) \in Nat /\ Rank(c, n, port, v) < 8 * Width
  BY <1>1, RankBounds
<1> DEFINE x == <<<<m, to>>, u>>
<1>10. RankOf(c, x) = Rank(c, m, to, u)
  BY DEF RankOf
<1>11. w[1] = vc /\ w[2] = Offered(c, n, d) /\ x \in w[2]
  BY <1>3, <1>7, <1>8
<1> QED
  BY <1>6, <1>8, <1>9, <1>10, <1>11

LEMMA NoneBlocked ==
  ASSUME Walks, NEW c \in Configs
  PROVE  Blocked[c] = {}
<1> DEFINE rank == [vc \in Occupied(c) |-> RankOf(c, vc)]
<1>1. MaxRounds \in Nat /\ 4 * MaxRounds >= 8 * Width /\ Width \in Nat
  BY MeshAssumption, Products, SameTorus DEF Width
<1>2. rank \in [Occupied(c) -> 0 .. 4 * MaxRounds - 1]
  <2> SUFFICES ASSUME NEW vc \in Occupied(c) PROVE RankOf(c, vc) \in 0 .. 4 * MaxRounds - 1
    OBVIOUS
  <2>1. RankOf(c, vc) \in Nat /\ RankOf(c, vc) < 8 * Width
    BY WaitsForLower DEF Occupied
  <2> HIDE DEF Width
  <2> QED
    BY <1>1, <2>1
<1>3. ASSUME NEW w \in Waits(c)
      PROVE  \E x \in w[2] : x \in Occupied(c) => rank[x] < rank[w[1]]
  <2>1. PICK x \in w[2] : RankOf(c, x) < RankOf(c, w[1])
    BY WaitsForLower
  <2>2. w[1] \in Occupied(c)
    BY DEF Occupied
  <2> QED
    BY <2>1, <2>2
<1> HIDE DEF rank
<1>4. Blocked[c] = BlockedAfter(Waits(c), 4 * MaxRounds) /\ 4 * MaxRounds \in Nat
  BY <1>1 DEF Blocked, BlockedAfter
<1> QED
  BY <1>2, <1>3, <1>4, RanksUnblock DEF Occupied

\* No set of packets can wait for each other in a circle, in a mesh and a torus
\* of any size: the channels can be put in an order in which every packet has a
\* candidate before the one that it occupies.
THEOREM NoDeadlock ==
  ASSUME Walks
  PROVE  Spec => []DeadlockFree
<1>1. Underway => DeadlockFree
  BY NoneBlocked DEF Underway, DeadlockFree
<1> QED
  BY <1>1, AlwaysUnderway, PTL

-----------------------------------------------------------------------------
(* The pipeline in a mesh or torus.                                        *)

CONSTANTS Topology, Packets, Src, Dst, NoBuffer

\* A node has an input buffer at each of its linked ports.
LinkBuffers == {b \in Mesh!Nodes \X Mesh!Ports : b[2] \in LinkedPorts(Topology, b[1])}

\* What the head of packet p is offered in place c.
FabricRoute(p, c) ==
  MCRoute(Topology, Src[p], Dst[p], IF c = <<NoBuffer, 0>> THEN AtSource(Src[p]) ELSE c)

Fabric == INSTANCE Fabric WITH
  Buffers <- LinkBuffers, VCs <- VirtualChannels, Route <- FabricRoute,
  DownNode <- [b \in LinkBuffers |-> b[1]],
  UpNode <- [b \in LinkBuffers |-> Link(Topology, b[1], b[2])]

\* Packets between different nodes of one of the topologies.
OnMesh ==
  /\ Topology \in Configs
  /\ \A p \in Packets : Src[p] \in Mesh!Nodes /\ Dst[p] \in Mesh!Nodes /\ Src[p] # Dst[p]
  /\ NoBuffer \notin LinkBuffers

\* The instance names the operators of the library anew.
LEMMA SameCardinality ==
  \A S : Fabric!Cardinality(S) = Cardinality(S)
BY Zenon DEF Fabric!Cardinality, Cardinality, Fabric!IsFiniteSet, IsFiniteSet

LEMMA NodesFinite == IsFiniteSet(Mesh!Nodes)
<1> DEFINE a == KNode * KNode - 1
           b == KChip * KChip - 1
           A == 0 .. a
           B == 0 .. b
           f == [x \in A \X B |-> Mesh!NodeID(x[1], x[2])]
<1>1. IsFiniteSet(A) /\ IsFiniteSet(B)
  <2>1. a \in Int /\ b \in Int
    BY MeshAssumption
  <2> HIDE DEF a, b
  <2> QED
    BY <2>1, FS_Interval
<1>2. Mesh!Nodes = {f[x] : x \in A \X B}
  <2>1. Mesh!Nodes = [node : A, chip : B]
    BY Zenon DEF Mesh!Nodes
  <2> HIDE DEF A, B
  <2>2. ASSUME NEW n \in [node : A, chip : B] PROVE n \in {f[x] : x \in A \X B}
    <3>1. <<n.node, n.chip>> \in A \X B /\ f[<<n.node, n.chip>>] = n
      BY DEF Mesh!NodeID
    <3> QED
      BY <3>1
  <2>3. ASSUME NEW x \in A \X B PROVE f[x] \in [node : A, chip : B]
    BY DEF Mesh!NodeID
  <2> QED
    BY <2>1, <2>2, <2>3
<1> HIDE DEF A, B, f
<1>3. IsFiniteSet(A \X B)
  BY <1>1, FS_Product
<1> QED
  BY <1>2, <1>3, ImageFinite

\* The steps between two nodes are a number.
LEMMA DistanceType ==
  ASSUME NEW c, NEW m \in Mesh!Nodes, NEW n \in Mesh!Nodes
  PROVE  MCDistance(c, m, n) \in Nat
<1>1. /\ Mesh!X(m) \in 0 .. Width - 1 /\ Mesh!X(n) \in 0 .. Width - 1
      /\ Mesh!Y(m) \in 0 .. Width - 1 /\ Mesh!Y(n) \in 0 .. Width - 1
  BY NodeRow
<1>2. \A i, j \in 0 .. Width - 1 : Away(c, i, j) \in Nat
  BY StepsInMesh, StepsInTorus
<1> QED
  BY <1>1, <1>2 DEF MCDistance

\* What a packet that has not arrived is offered: a candidate at least, and
\* only channels of its fabric, of buffers whose links come from where it is
\* and which are closer to its destination.
LEMMA LedOn ==
  ASSUME OnMesh, NEW p \in Packets, NEW c \in Fabric!Places, Fabric!NodeAt(p, c) # Dst[p]
  PROVE  LET n == Fabric!NodeAt(p, c)
             r == FabricRoute(p, c)
         IN /\ n \in Mesh!Nodes
            /\ r \in Seq(Fabric!Channels) /\ r # <<>>
            /\ \A i \in 1 .. Len(r) :
                 LET b == r[i][1] IN
                 /\ b \in LinkBuffers
                 /\ Link(Topology, b[1], b[2]) = n
                 /\ MCDistance(Topology, b[1], Dst[p]) = MCDistance(Topology, n, Dst[p]) - 1
<1> DEFINE n == Fabric!NodeAt(p, c)
           vc == IF c = <<NoBuffer, 0>> THEN AtSource(Src[p]) ELSE c
           r == MCRoute(Topology, Src[p], Dst[p], vc)
           O == Offered(Topology, n, Dst[p])
<1>1. /\ Topology \in Names /\ (Topology = "CLUE" => VCNumber >= 2)
      /\ Src[p] \in Mesh!Nodes /\ Dst[p] \in Mesh!Nodes
  BY MeshAssumption DEF OnMesh, Names
<1>2. n \in Mesh!Nodes /\ NodeOf(vc) = n
  <2>1. CASE c = <<NoBuffer, 0>>
    BY <1>1, <2>1 DEF Fabric!NodeAt, Fabric!Source, NodeOf, AtSource
  <2>2. CASE c # <<NoBuffer, 0>>
    <3>1. c \in LinkBuffers \X VirtualChannels
      BY <2>2 DEF Fabric!Places, Fabric!Source, Fabric!Channels
    <3>2. c[1] \in LinkBuffers /\ c[1][1] \in Mesh!Nodes
      BY <3>1 DEF LinkBuffers
    <3>3. n = c[1][1]
      BY <2>2, <3>2 DEF Fabric!NodeAt, Fabric!Source, Fabric!BufferOf
    <3> QED
      BY <2>2, <3>2, <3>3 DEF NodeOf
  <2> QED
    BY <2>1, <2>2
<1>3. Lists(r, O)
  BY <1>1, <1>2, RouteLists
<1>4. O # {} /\ O \subseteq Onward(Topology, n, Dst[p])
  BY <1>1, <1>2, OfferedOnward
<1>5. ASSUME NEW x \in O
      PROVE  /\ x \in LinkBuffers \X VirtualChannels
             /\ Link(Topology, x[1][1], x[1][2]) = n
             /\ MCDistance(Topology, x[1][1], Dst[p]) = MCDistance(Topology, n, Dst[p]) - 1
  <2>1. PICK port \in Nearer(Topology, n, Dst[p]), v \in VirtualChannels :
          x = <<<<Link(Topology, n, port), Mesh!Opposite(port)>>, v>>
    BY <1>4 DEF Onward, Channels
  <2> DEFINE m == Link(Topology, n, port)
             back == Mesh!Opposite(port)
  <2>2. port \in LinkedPorts(Topology, n)
        /\ MCDistance(Topology, m, Dst[p]) = MCDistance(Topology, n, Dst[p]) - 1
    BY DEF Nearer
  <2>3. m \in Mesh!Nodes /\ Link(Topology, m, back) = n
    BY <1>2, <2>2, Neighbours
  <2>4. back \in LinkedPorts(Topology, m)
    BY <1>2, <2>2, Neighbours
  <2> HIDE DEF m, back
  <2>5. <<m, back>> \in LinkBuffers
    BY <2>3, <2>4 DEF LinkBuffers, LinkedPorts
  <2> QED
    BY <2>1, <2>2, <2>3, <2>5 DEF m, back
<1> HIDE DEF O
<1>6. r \in Seq(LinkBuffers \X VirtualChannels)
  <2>1. O \subseteq LinkBuffers \X VirtualChannels
    BY <1>5
  <2> HIDE DEF r
  <2> QED
    BY <1>3, <2>1, SeqMonotonic DEF Lists
<1>7. r # <<>>
  <2> HIDE DEF r
  <2> QED
    BY <1>3, <1>4 DEF Lists, Range
<1>8. \A i \in 1 .. Len(r) : r[i] \in O
  <2> HIDE DEF r
  <2> QED
    BY <1>3 DEF Lists
<1>9. FabricRoute(p, c) = r
  BY DEF FabricRoute
<1> HIDE DEF r, n
<1>10. ASSUME NEW i \in 1 .. Len(r)
       PROVE  /\ r[i][1] \in LinkBuffers
              /\ Link(Topology, r[i][1][1], r[i][1][2]) = n
              /\ MCDistance(Topology, r[i][1][1], Dst[p]) = MCDistance(Topology, n, Dst[p]) - 1
  <2>1. r[i] \in O
    BY <1>8
  <2> QED
    BY <1>5, <2>1
<1> QED
  BY <1>2, <1>6, <1>7, <1>9, <1>10 DEF n, Fabric!Channels

\* Each node of the topology is one of the fabric.
LEMMA FabricNodes ==
  ASSUME OnMesh, Packets # {}
  PROVE  Fabric!Nodes = Mesh!Nodes
<1>1. /\ Topology \in Names /\ (Topology = "CLUE" => VCNumber >= 2)
      /\ \A p \in Packets : Src[p] \in Mesh!Nodes /\ Dst[p] \in Mesh!Nodes /\ Src[p] # Dst[p]
  BY MeshAssumption DEF OnMesh, Names
<1>2. ASSUME NEW b \in LinkBuffers
      PROVE  [x \in LinkBuffers |-> x[1]][b] \in Mesh!Nodes
  BY DEF LinkBuffers
<1>3. Fabric!Nodes \subseteq Mesh!Nodes
  BY <1>1, <1>2 DEF Fabric!Nodes
<1>4. ASSUME NEW n \in Mesh!Nodes PROVE n \in Fabric!Nodes
  <2>1. PICK d \in Mesh!Nodes : d # n
    BY <1>1
  <2>2. Onward(Topology, n, d) # {}
    BY <1>1, <2>1, OfferedOnward
  <2>3. PICK port \in LinkedPorts(Topology, n) : TRUE
    BY <2>2 DEF Onward, Channels, Nearer
  <2>4. <<n, port>> \in LinkBuffers
    BY <2>3 DEF LinkBuffers, LinkedPorts
  <2>5. [x \in LinkBuffers |-> x[1]][<<n, port>>] = n
    BY <2>4
  <2> QED
    BY <2>4, <2>5 DEF Fabric!Nodes
<1> QED
  BY <1>3, <1>4

\* What the pipeline takes for granted of its topology holds of meshes and tori
\* of every size with each of the four algorithms: there are finitely many
\* buffers, and from wherever its head is, every packet is offered channels that
\* lead on, over links of the node where it is, and in no circle.
THEOREM MeshesLeadOn ==
  ASSUME OnMesh
  PROVE  IsFiniteSet(LinkBuffers) /\ Fabric!RoutesLeadOn
<1>1. IsFiniteSet(LinkBuffers)
  <2>1. IsFiniteSet(Mesh!Ports)
    <3>1. IsFiniteSet({"xneg"}) /\ IsFiniteSet({"xpos"}) /\ IsFiniteSet({"yneg"}) /\ IsFiniteSet({"ypos"})
      BY FS_Singleton
    <3>2. IsFiniteSet({"xneg"} \cup {"xpos"}) /\ IsFiniteSet({"yneg"} \cup {"ypos"})
      BY <3>1, FS_Union
    <3>3. Mesh!Ports = ({"xneg"} \cup {"xpos"}) \cup ({"yneg"} \cup {"ypos"})
      BY DEF Mesh!Ports
    <3> QED
      BY <3>2, <3>3, FS_Union
  <2>2. IsFiniteSet(Mesh!Nodes \X Mesh!Ports)
    BY <2>1, NodesFinite, FS_Product
  <2>3. LinkBuffers \subseteq Mesh!Nodes \X Mesh!Ports
    BY DEF LinkBuffers
  <2> QED
    BY <2>2, <2>3, FS_Subset
<1>2. Fabric!RoutesLeadOn
  <2> SUFFICES ASSUME NEW p \in Packets
               PROVE  \E way \in SUBSET Fabric!Nodes :
                        \E rank \in [way -> 0 .. Cardinality(Fabric!Nodes)] :
                          Fabric!LeadsOn(p, way, rank)
    BY SameCardinality DEF Fabric!RoutesLeadOn
  <2> DEFINE N == Mesh!Nodes
             steps == [n \in N |-> MCDistance(Topology, n, Dst[p])]
  <2>1. Src[p] \in N /\ Dst[p] \in N
    BY DEF OnMesh
  <2>2. Fabric!Nodes = N
    BY FabricNodes DEF N
  <2>3. \A n \in N : MCDistance(Topology, n, Dst[p]) \in Nat
    BY <2>1, DistanceType
  <2>4. steps \in [N -> Nat] /\ \A n \in N : steps[n] = MCDistance(Topology, n, Dst[p])
    BY <2>3
  <2> HIDE DEF N, steps
  <2>5. PICK rank \in [N -> 0 .. Cardinality(N)] :
          \A m, n \in N : steps[m] < steps[n] => rank[m] < rank[n]
    BY <2>4, NodesFinite, RankWithin DEF N
  <2>6. ASSUME NEW c \in Fabric!Places, Fabric!NodeAt(p, c) \in N \ {Dst[p]}
        PROVE  /\ FabricRoute(p, c) \in Seq(Fabric!Channels) /\ FabricRoute(p, c) # <<>>
               /\ \A i \in 1 .. Len(FabricRoute(p, c)) :
                    LET b == Fabric!BufferOf(FabricRoute(p, c)[i]) IN
                    /\ [x \in LinkBuffers |-> Link(Topology, x[1], x[2])][b] = Fabric!NodeAt(p, c)
                    /\ [x \in LinkBuffers |-> x[1]][b] \in N
                    /\ rank[[x \in LinkBuffers |-> x[1]][b]] < rank[Fabric!NodeAt(p, c)]
    <3> DEFINE n == Fabric!NodeAt(p, c)
               r == FabricRoute(p, c)
    <3>1. /\ n \in N /\ r \in Seq(Fabric!Channels) /\ r # <<>>
          /\ \A i \in 1 .. Len(r) :
               /\ r[i][1] \in LinkBuffers
               /\ Link(Topology, r[i][1][1], r[i][1][2]) = n
               /\ MCDistance(Topology, r[i][1][1], Dst[p]) = MCDistance(Topology, n, Dst[p]) - 1
      BY <2>6, LedOn DEF N
    <3> HIDE DEF n, r
    <3>2. ASSUME NEW i \in 1 .. Len(r)
          PROVE  LET b == Fabric!BufferOf(r[i]) IN
                 /\ [x \in LinkBuffers |-> Link(Topology, x[1], x[2])][b] = n
                 /\ [x \in LinkBuffers |-> x[1]][b] \in N
                 /\ rank[[x \in LinkBuffers |-> x[1]][b]] < rank[n]
      <4> DEFINE b == r[i][1]
      <4>1. /\ b \in LinkBuffers /\ Link(Topology, b[1], b[2]) = n
            /\ MCDistance(Topology, b[1], Dst[p]) = MCDistance(Topology, n, Dst[p]) - 1
        BY <3>1
      <4>2. b[1] \in N
        BY <4>1 DEF LinkBuffers, N
      <4>3. steps[b[1]] < steps[n]
        BY <2>4, <3>1, <4>1, <4>2
      <4>4. rank[b[1]] < rank[n]
        BY <2>5, <3>1, <4>2, <4>3
      <4> HIDE DEF b
      <4>5. Fabric!BufferOf(r[i]) = b
        BY DEF Fabric!BufferOf, b
      <4> QED
        BY <4>1, <4>2, <4>4, <4>5
    <3> QED
      BY <3>1, <3>2 DEF n, r
  <2>7. Fabric!LeadsOn(p, N, rank)
    BY <2>1, <2>6 DEF Fabric!LeadsOn
  <2> QED
    BY <2>2, <2>5, <2>7
<1> QED
  BY <1>1, <1>2
=============================================================================
