------------------------------ MODULE Traffic ------------------------------
(***************************************************************************)
(* The traffic patterns of the traffic manager: which pairs of cores a     *)
(* pattern can draw, and which node a core is.  gen() % n is any number    *)
(* below n.  sd_trace_mess takes its numbers from a file and is left out.  *)
(***************************************************************************)
EXTENDS Integers, FiniteSetsExt

\* Division and remainder of C++, which round towards 0.
Quotient(a, n) == IF a >= 0 THEN a \div n ELSE -((-a) \div n)
Remainder(a, n) == a - n * Quotient(a, n)

\* NodeID(id % core_per_chip, id / core_per_chip): node and chip of a core.
NodeOfCore(id, core_per_chip) ==
  [node_id |-> Remainder(id, core_per_chip), chip_id |-> Quotient(id, core_per_chip)]

Cores(scale) == 0 .. scale - 1

-----------------------------------------------------------------------------
(* Patterns of random pairs.                                               *)

UniformDraws(scale) == Cores(scale) \X Cores(scale)

HotspotCores(scale) ==
  LET node_per_WG == scale \div 4 IN
  {(10 * g * node_per_WG + n) % scale : g \in 0 .. 3, n \in 0 .. node_per_WG - 1}
HotspotDraws(scale) == HotspotCores(scale) \X HotspotCores(scale)

AdversarialDraws(scale) ==
  LET node_per_WG == scale \div 41 IN
  {<<src, ((src \div node_per_WG + 1) * node_per_WG + n) % scale>> :
     src \in Cores(scale), n \in 0 .. node_per_WG - 1}

-----------------------------------------------------------------------------
(* Patterns on the bits of the source.                                     *)

Power[j \in Nat] == IF j = 0 THEN 1 ELSE 2 * Power[j - 1]

\* floor(log2(scale))
Bits(scale) == CHOOSE b \in 0 .. scale : Power[b] <= scale /\ scale < Power[b + 1]

Bit(n, j) == (n \div Power[j]) % 2

\* Mutant: the last bit is not wrapped around by the shuffle.
SourceBitShifted(pattern, bits, j) ==
  CASE pattern = "bitcomplement" -> j
    [] pattern = "bitreverse" -> bits - 1 - j
    [] pattern = "bitshuffle" -> IF j = 0 THEN 0 ELSE j - 1
    [] pattern = "bittranspose" -> (j + bits \div 2) % bits

\* The bit of the source that becomes bit j of the destination.
SourceBit(pattern, bits, j) ==
  CASE pattern = "bitcomplement" -> j
    [] pattern = "bitreverse" -> bits - 1 - j
    [] pattern = "bitshuffle" -> IF j = 0 THEN bits - 1 ELSE j - 1
    [] pattern = "bittranspose" -> (j + bits \div 2) % bits

\* dynamic_bitset keeps the low bits of the source only.
BitDest(pattern, scale, src) ==
  LET bits == Bits(scale)
      value(j) == LET b == Bit(src, SourceBit(pattern, bits, j)) IN
                  IF pattern = "bitcomplement" THEN 1 - b ELSE b
      weight == [j \in 0 .. bits - 1 |-> value(j) * Power[j]]
  IN MapThenSumSet(LAMBDA j : weight[j], 0 .. bits - 1) % scale

BitPatterns == {"bitcomplement", "bitreverse", "bitshuffle", "bittranspose"}

-----------------------------------------------------------------------------
(* Ring all-reduce: every core sends one packet, or one in each direction. *)

\* Mutant: a row of the C-group is left at once.
RingDestShort(topology, scale, src) ==
  IF topology = "DragonflySW" THEN (src + 1) % scale
  ELSE LET at == src % 16 IN
       CASE at \in {0, 1, 4, 5} -> Remainder(src + 2, scale)
         [] at \in {2, 3, 6, 7} \cup {8, 9, 12, 13} -> Remainder(src + 4, scale)
         [] at \in {10, 11, 14, 15} -> Remainder(src - 2, scale)

RingDest(topology, scale, src) ==
  IF topology = "DragonflySW" THEN (src + 1) % scale
  ELSE LET at == src % 16 IN
       CASE at \in {0, 1, 4, 5} -> Remainder(src + 2, scale)
         [] at \in {2, 3, 6, 7} \cup {8, 9, 12, 13} -> Remainder(src + 8, scale)
         [] at \in {10, 11, 14, 15} -> Remainder(src - 2, scale)

\* dest2 of the bidirectional ring.
RingBackDest(topology, scale, src) ==
  IF topology = "DragonflySW" THEN Remainder(src - 1, scale)
  ELSE LET at == src % 16 IN
       CASE at \in {0, 1, 4, 5} -> Remainder(src - 8 + scale, scale)
         [] at \in {2, 3, 6, 7} -> Remainder(src - 2, scale)
         [] at \in {8, 9, 12, 13} -> Remainder(src + 2, scale)
         [] at \in {10, 11, 14, 15} -> Remainder(src - 8, scale)

-----------------------------------------------------------------------------
\* Pairs that one turn of the loop of a pattern may make, for the rings all those
\* that it makes.
Draws(traffic, topology, scale) ==
  CASE traffic \in {"uniform", "intra_group_uniform"} -> UniformDraws(scale)
    [] traffic = "hotspot" -> HotspotDraws(scale)
    [] traffic = "adversarial" -> AdversarialDraws(scale)
    [] traffic \in BitPatterns -> {<<src, BitDest(traffic, scale, src)>> : src \in Cores(scale)}
    [] traffic = "ring_all_reduce" ->
         {<<src, RingDest(topology, scale, src)>> : src \in Cores(scale)}
    [] traffic = "ring_all_reduce_bi" ->
         {<<src, RingDest(topology, scale, src)>> : src \in Cores(scale)}
         \cup {<<src, RingBackDest(topology, scale, src)>> : src \in Cores(scale)}

Rings == {"ring_all_reduce", "ring_all_reduce_bi"}

\* Mutant: the loop accepts the first draw.
PacketsFirstDraw(traffic, topology, scale) == Draws(traffic, topology, scale)

\* Packets of a traffic: a draw is repeated while source and destination are the
\* same; adversarial_mess asserts that they are not, the rings rely on it.
Packets(traffic, topology, scale) ==
  IF traffic \in {"adversarial"} \cup Rings THEN Draws(traffic, topology, scale)
  ELSE {d \in Draws(traffic, topology, scale) : d[1] # d[2]}
=============================================================================
