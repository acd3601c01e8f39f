----------------------------- MODULE MeshRouting -----------------------------
(***************************************************************************)
(* The routing algorithms of SingleChipMesh and MultiChipMesh: the         *)
(* candidate channels at node n for destination d, in the order in which   *)
(* vc_allocate tries them.                                                 *)
(***************************************************************************)
EXTENDS MeshTopology, Sequences

CONSTANT VCNumber   \* vc_number: virtual channels of a buffer

\* The buffer that the output port leads to, and the VCs first to last of it.
LinkBuffer(n, port) == <<MeshLink(n, port), Opposite(port)>>
VCs(n, port, first, last) ==
  [i \in 1 .. last - first + 1 |-> <<LinkBuffer(n, port), first + i - 1>>]

When(condition, candidates) == IF condition THEN candidates ELSE <<>>

DisX(n, d) == X(d) - X(n)
DisY(n, d) == Y(d) - Y(n)

\* Mutant: the sign of the offset is turned round.
TowardXReversed(n, d) == IF DisX(n, d) < 0 THEN "xpos" ELSE "xneg"

\* Ports that lead closer in each dimension.
TowardX(n, d) == IF DisX(n, d) < 0 THEN "xneg" ELSE "xpos"
TowardY(n, d) == IF DisY(n, d) < 0 THEN "yneg" ELSE "ypos"

\* First x, then y.
XY_routing(n, d) ==
  IF DisX(n, d) # 0 THEN VCs(n, TowardX(n, d), 0, VCNumber - 1)
  ELSE When(DisY(n, d) # 0, VCs(n, TowardY(n, d), 0, VCNumber - 1))

\* Mutant: positive directions are not put off.
NegativeFirstInAnyOrder(n, d, first, last) ==
  When(DisX(n, d) # 0, VCs(n, TowardX(n, d), first, last))
    \o When(DisY(n, d) # 0, VCs(n, TowardY(n, d), first, last))

\* Negative directions first, on the VCs first to last.
NegativeFirst(n, d, first, last) ==
  IF DisX(n, d) < 0 \/ DisY(n, d) < 0
    THEN When(DisX(n, d) < 0, VCs(n, "xneg", first, last))
           \o When(DisY(n, d) < 0, VCs(n, "yneg", first, last))
    ELSE When(DisX(n, d) > 0, VCs(n, "xpos", first, last))
           \o When(DisY(n, d) > 0, VCs(n, "ypos", first, last))

NFR_routing(n, d) == NegativeFirst(n, d, 0, VCNumber - 1)

\* All but the last VC in any direction that leads closer; the last one is
\* the escape channel, negative-first.
NFR_adaptive_routing(n, d) ==
  When(DisX(n, d) # 0, VCs(n, TowardX(n, d), 0, VCNumber - 2))
    \o When(DisY(n, d) # 0, VCs(n, TowardY(n, d), 0, VCNumber - 2))
    \o NegativeFirst(n, d, VCNumber - 1, VCNumber - 1)

routing_algorithm(name, n, d) ==
  CASE name = "XY" -> XY_routing(n, d)
    [] name = "NFR" -> NFR_routing(n, d)
    [] name = "NFR_adaptive" -> NFR_adaptive_routing(n, d)
=============================================================================
