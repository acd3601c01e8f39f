---------------------------- MODULE TorusRouting ----------------------------
(***************************************************************************)
(* MultiChipTorus::clue_routing: the candidate channels at node n for      *)
(* destination d, in the order in which vc_allocate tries them.            *)
(***************************************************************************)
EXTENDS MeshTopology, Sequences

LinkBuffer(n, port) == <<TorusLink(n, port), Opposite(port)>>
VC(n, port, vcb) == <<<<LinkBuffer(n, port), vcb>>>>
When(condition, candidates) == IF condition THEN candidates ELSE <<>>

Abs(i) == IF i < 0 THEN -i ELSE i
Half == K \div 2
DisX(n, d) == X(d) - X(n)
DisY(n, d) == Y(d) - Y(n)

\* Mutant: forwards also where the way round the edge is shorter.
PositiveInMesh(dis) == 0 < dis

\* The shorter way round from offset dis; forwards when both are as long.
Negative(dis) == (-Half <= dis /\ dis < 0) \/ dis > Half
Positive(dis) == (0 < dis /\ dis <= Half) \/ dis < -Half

Adaptive(n, d) ==
  LET dx == DisX(n, d)
      dy == DisY(n, d)
  IN When(Negative(dx), VC(n, "xneg", 0)) \o When(Positive(dx), VC(n, "xpos", 0))
       \o When(Negative(dy), VC(n, "yneg", 0)) \o When(Positive(dy), VC(n, "ypos", 0))

NegativeFirst(n, d) ==
  LET dx == DisX(n, d)
      dy == DisY(n, d)
  IN IF dx < 0 \/ dy < 0
       THEN When(dx < 0, VC(n, "xneg", 1)) \o When(dy < 0, VC(n, "yneg", 1))
       ELSE When(dx > 0, VC(n, "xpos", 1)) \o When(dy > 0, VC(n, "ypos", 1))

\* VC 1: around the edge where the way round is shorter, and negative-first
\* when it is not shorter in any dimension.
Escape(n, d) ==
  LET dx == DisX(n, d)
      dy == DisY(n, d)
  IN IF Abs(dx) <= Half /\ Abs(dy) <= Half THEN NegativeFirst(n, d)
     ELSE IF Abs(dx) > Half
     THEN When(X(n) = 0, VC(n, "xneg", 1)) \o When(X(n) = K - 1, VC(n, "xpos", 1))
     ELSE When(Y(n) = 0, VC(n, "yneg", 1)) \o When(Y(n) = K - 1, VC(n, "ypos", 1))

clue_routing(n, d) == Adaptive(n, d) \o Escape(n, d)
=============================================================================
