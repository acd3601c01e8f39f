--------------------------- MODULE SimulationProps ---------------------------
(***************************************************************************)
(* What the loop of main and the counters have to agree on.                *)
(***************************************************************************)
EXTENDS Simulation

CONSTANT CoresPerChip   \* numbers of cores on a chip

\* The scales on which the generator of a pattern finds packets: at others it
\* divides by zero, draws for ever, or a step of the ring (2 or 8 cores on
\* DragonflyChiplet) is no way to another core.  The rings exist on Dragonflies.
PatternFits(p) ==
  LET scale == p.traffic_scale IN
  CASE p.traffic \in {"uniform", "intra_group_uniform"} -> scale >= 2
    [] p.traffic = "hotspot" -> scale >= 4 /\ scale # 5
    [] p.traffic = "adversarial" -> scale >= 41
    [] p.traffic \in Rings ->
         \/ p.topology = "DragonflyChiplet" /\ scale > 8
         \/ p.topology = "DragonflySW" /\ scale >= 2
    [] p.traffic \in BitPatterns -> scale >= IF p.traffic = "bitcomplement" THEN 2 ELSE 3
    [] OTHER -> TRUE

ASSUME PatternAssumption ==
  /\ \A p \in Params : PatternFits(p)
  /\ CoresPerChip \subseteq Nat \ {0}

\* Type invariant; no timeout is counted beyond the bound, nor more packets
\* read than the netrace has.
TypeOK ==
  /\ phase \in {"serial", "update"}
  /\ travelling \in Nat /\ arrived \in 0 .. Capacity
  /\ ParamType(param)
  /\ stage \in {"warmUp", "measure", "drain", "judged", "netrace", "done"}
  /\ at \in {"head", "body"} /\ (phase = "update" => at = "body")
  /\ i \in Nat /\ rate \in Nat /\ pkt_for_injection \in Nat
  /\ all_message_num \in Nat /\ message_arrived \in Nat
  /\ message_timeout \in 0 .. MaxTimeouts
  /\ cursor \in 0 .. Len(param.trace)
  /\ saturated \in BOOLEAN /\ verdict \in {"open", "none", "possible"}
  /\ carried \in Int

\* Every packet is accounted for: the arrivals of a rate and the packets under
\* way are the injected ones and those that TM->reset found in the network
\* after the warm-up, so "Arrived" exceeds "Injected" by no more than these.
PacketsConserved ==
  /\ message_arrived + travelling = all_message_num + carried
  /\ stage = "measure" => carried >= 0

\* A rate that is not called saturated has delivered five of six of the packets
\* it was responsible for, although the test counts arrived packets that are
\* still in the vector a second time.
UnsaturatedDelivers ==
  stage = "judged" /\ ~saturated =>
    6 * message_arrived >= 5 * (all_message_num + carried)

\* The measured injection is the nominal one: what has been injected and the
\* remainder make up the rate exactly, the remainder is less than one packet (at
\* most one round of a ring), and a ring sends from all its cores or none.
InjectionOnSchedule ==
  stage = "measure" =>
    /\ all_message_num * Unit + pkt_for_injection = rate * Begun
    /\ IF param.traffic \in Rings THEN pkt_for_injection <= Burst * Unit
                                 ELSE pkt_for_injection < Unit
    /\ all_message_num % Burst = 0

\* "No deadlock!" means that every packet has arrived; "Possible Deadlock!" that
\* one has not, or arrived in the very last cycle.
DrainVerdictSound ==
  stage = "judged" =>
    /\ verdict = "none" => message_arrived = all_message_num + carried /\ arrived = 0
    /\ verdict = "possible" => message_arrived < all_message_num + carried \/ arrived > 0

\* No packet of a netrace misses its time stamp: when a cycle is over all packets
\* with this stamp or an earlier one have been read, in spite of the look-ahead,
\* and at the end all have been injected.
TraceInTime ==
  param.traffic = "netrace" =>
    /\ \A m \in DOMAIN param.trace : param.trace[m].cycle < i => m <= cursor
    /\ stage = "done" =>
         all_message_num = Cardinality({m \in DOMAIN param.trace : param.trace[m].kind = "packet"})

\* The traffics of Params.  What is said of each is a function of the constants,
\* looked up when packets have been injected, or when a rate is judged.
Workloads ==
  {[traffic |-> p.traffic, topology |-> p.topology, scale |-> p.traffic_scale] :
     p \in {q \in Params : q.traffic # "netrace"}}
Workload ==
  [traffic |-> param.traffic, topology |-> param.topology, scale |-> param.traffic_scale]

WellAddressed ==
  [w \in Workloads |->
     LET packets == Packets(w.traffic, w.topology, w.scale) IN
     /\ packets # {}
     /\ \A d \in packets :
          /\ d[1] # d[2]
          /\ \A c \in CoresPerChip, n \in {d[1], d[2]} :
               /\ NodeOfCore(n, c).node_id \in 0 .. c - 1
               /\ NodeOfCore(n, c).chip_id \in 0 .. (w.scale + c - 1) \div c - 1]

\* The loop of a pattern can end, and its packets go from one core to another,
\* both of which exist in the smallest system with as many cores as the pattern
\* uses.  The assertions that no packet is sent to its source
\* (traffic_manager.cpp:257, system.cpp:122) hold also when the scale is no
\* power of two and when the last group of the adversarial pattern is partial.
\* The one exception is the way back of the bidirectional ring on DragonflySW:
\* core 0 sends to core -1.
PacketsWellAddressed ==
  param.traffic # "netrace" /\ all_message_num > 0 => WellAddressed[Workload]

Permutes ==
  [w \in {v \in Workloads : v.traffic \in BitPatterns /\ v.scale = Power[Bits(v.scale)]} |->
     {BitDest(w.traffic, w.scale, src) : src \in Cores(w.scale)} = Cores(w.scale)]

\* On a power of two of cores the bit patterns spread the load: no two cores send
\* to the same one.
BitPatternsPermute == stage = "judged" /\ Workload \in DOMAIN Permutes => Permutes[Workload]

\* Cores a message passes that is sent on around the ring for n steps.
Round(w, src, n) ==
  LET visited[m \in 0 .. n] ==
        IF m = 0 THEN src ELSE RingDest(w.topology, w.scale, visited[m - 1])
  IN visited

\* On DragonflyChiplet a ring is laid out for C-groups of 16 cores.
HasRing(w) ==
  w.traffic \in Rings /\ (w.topology = "DragonflyChiplet" => w.scale % 16 = 0)

Closes ==
  [w \in {v \in Workloads : HasRing(v)} |->
     \A src \in Cores(w.scale) :
       LET length == IF w.topology = "DragonflySW" THEN w.scale ELSE w.scale \div 4
           round == Round(w, src, length)
       IN /\ round[length] = src
          /\ \A m, n \in 0 .. length - 1 : round[m] = round[n] => m = n
          /\ w.traffic = "ring_all_reduce_bi" =>
               RingBackDest(w.topology, w.scale, RingDest(w.topology, w.scale, src)) = src]

\* The rings close: one ring through all cores of DragonflySW, and on any number
\* of C-groups of 16 cores four rings through a quarter of the cores each; and
\* the way back of the bidirectional ring undoes the way forth, but for the one
\* exception above.
RingsClose == stage = "judged" /\ HasRing(Workload) => Closes[Workload]

\* The search for the saturation point ends: the network delivers a bounded
\* number of packets in a cycle, and the rate rises until that shows.  A netrace
\* ends, too.
SearchEnds == <>(stage = "done")

\* main.cpp:136, "inject according to the time_stamp": a packet of a netrace
\* enters the network in the cycle of its time stamp.
InjectedAtTimeStamp ==
  [][\A m \in cursor + 1 .. cursor' :
       param.trace[m].kind = "packet" => i = param.trace[m].cycle]_vars
=============================================================================
