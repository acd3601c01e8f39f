---------------------------- MODULE MCSimulation ----------------------------
(* Every traffic for a short time at several scales; a pattern and a ring   *)
(* of two cores at all rates up to saturation, with limits on timeouts that *)
(* end a rate and that do not; every netrace of up to three packets in      *)
(* cycles 0 to 2.                                                           *)
EXTENDS SimulationProps, SequencesExt

Started(traffic, topology, scale, time, increment, limit) ==
  [traffic |-> traffic, topology |-> topology, traffic_scale |-> scale,
   simulation_time |-> time, increment |-> increment, timeout_limit |-> limit,
   num_cycles |-> 0, trace |-> <<>>]

Long ==
  {Started("uniform", "DragonflySW", 4, 6, 1, limit) : limit \in {1, 3}}
  \cup {Started("ring_all_reduce", "DragonflySW", 2, 6, 2, limit) : limit \in {1, 3}}

Short ==
  {Started(t, "MultiChipMesh", s, 1, 5, 1) :
     t \in {"uniform", "intra_group_uniform", "hotspot"} \cup BitPatterns,
     s \in {4, 6, 8, 12, 16, 20}}
  \cup {Started(t, "MultiChipMesh", 3, 1, 5, 1) : t \in BitPatterns}
  \cup {Started("adversarial", "DragonflySW", s, 1, 5, 1) : s \in {41, 42, 60, 81, 82, 100}}
  \cup {Started(t, "DragonflyChiplet", s, 1, 4 * s + 1, 1) : t \in Rings, s \in {9, 16, 20, 32, 48}}
  \cup {Started("ring_all_reduce", "DragonflySW", s, 1, 2 * s + 1, 1) : s \in {3, 8}}

Records == [cycle : 0 .. 2, kind : {"packet", "local", "invalid"}]
InOrder(t) == \A m \in 1 .. Len(t) - 1 : t[m].cycle <= t[m + 1].cycle
Traces ==
  {[Started("netrace", "MultiChipMesh", 4, 1, 1, 1) EXCEPT
      !.trace = t, !.num_cycles = IF t = <<>> THEN 0 ELSE t[Len(t)].cycle] :
     t \in {s \in BoundedSeq(Records, 3) : InOrder(s)}}

MCParams == Long \cup Short \cup Traces

\* The ring with a way back on the other Dragonfly, for one rate.
RingBack == {Started("ring_all_reduce_bi", "DragonflySW", 4, 1, 17, 1)}
=============================================================================
