# Verification of Chiplet Network Sim

TLA+ models, TLC runs and TLAPS proofs for the packet-parallel network
simulator in `src/`.

## 1. Inventory

### Components, state, operations

| Component | Source | State | Operations |
|---|---|---|---|
| Cycle driver and worker pool | `src/src/main.cpp` 13-134, 188-200 | `mtxs`, `cv`, `thread_ready`, `worker_launch`, `finished`, `pkt_i`, packet vector | `worker`, `update_packets`, `run_one_cycle`, thread start and join |
| Simulation loop | `main.cpp` 136-187 | injection rate, saturation flag, packet vector | warm-up, `TM->reset`, measuring, saturation test, draining, `network->reset` |
| Input buffer | `src/src/buffer.h`, `buffer.cpp` | `in_link_used_`, `sw_link_used_`, `vc_buffer_[v]` (credits), `vc_head_packet[v]` + `vc_queue_[v]` | `allocate_buffer`, `release_buffer`, `allocate_in_link`, `release_in_link`, `allocate_sw_link`, `release_sw_link`, `push_pkt`, `pop_pkt`, `reset` |
| Packet and router pipeline | `packet.*`, `system.cpp` 44-226 | `flit_trace_`, `candidate_channels_`, `next_vc_`, `switch_allocated_`, timers, `releaselink_`, `leaving_vc_`, `finished_` | `onestage`, `twostage`, `Threestage`, `routing`, `vc_allocate`, `switch_allocate`, `update` |
| Mesh and torus topologies | `topologies/chip_mesh`, `single_chip_mesh`, `multiple_chip_mesh`, `multiple_chip_torus` | static wiring (`link_nodes_`, `link_buffers_`, channels) | `set_chip`, `connect_chiplets`, `XY_routing`, `NFR_routing`, `NFR_adaptive_routing`, `clue_routing` |
| Dragonfly topologies | `topologies/dragonfly_sw`, `dragonfly_chiplet` | static wiring, local and global link maps | `connect_local`, `connect_global`, `MIN_routing`, `XY_routing` |
| Arbitrary topology | `topologies/basic_arbitrary` | adjacency, next-router and VC tables, `buf_conn_map`, `next_buf_id` | table loaders, `connect_chiplets`, `NRL_routing` |
| Traffic manager | `traffic_manager.*` | `pkt_for_injection_`, statistics counters, trace cursor | `genMes`, the traffic patterns, `netrace`, `reset`, `receiving_rate` |
| Configuration | `config.*` | parameters | constructor |
| Netrace reader | `src/src/netrace` | trace context, dependency table | third-party C library; only read/size/free are called |

### Interactions

`main` repeats a cycle: `genMes` appends packets; `run_one_cycle` first walks
the vector alone (release links, delete arrived packets, compact), then updates
every packet through `System::update`, alone or on the worker pool. `update`
calls the topology's `routing_algorithm` and the atomic operations of the
buffers; buffers are the only state two packets share in the parallel phase,
and the statistics counters the only state the traffic manager shares.

### What makes a component correct

* Cycle driver: every packet is updated exactly once between two serial phases
  that no worker overlaps; the pool starts, cycles and shuts down without a lost
  wake-up.
* Buffer: credits are conserved, a link has one owner, a refusal means that there
  was no room at some moment of the call.
* Pipeline: links, queue places and room belong to the packets that use them at
  every step, a packet stays a connected worm, every packet is delivered.
* Routing: candidates are real links and channels, ways are short, no set of
  channels can block for ever; wiring gives no port to two links.
* Arbitrary topology: loaders and look-ups agree; escape VCs are for good.
* Traffic: source and destination are different, existing cores; bit patterns
  spread the load, rings close; no packet of a netrace is late.
* Simulation loop: every packet is accounted for across warm-up, `TM->reset`,
  measuring and drain; what was injected is the nominal rate; the verdicts on
  saturation and deadlock mean what they say; the search for saturation ends.

### What is hard

* The barrier between `main` and the workers is built from one condition
  variable, one mutex per worker and volatile flags; the first wait has no
  predicate and `worker_launch` starts uninitialised.
* Workers claim batches of packets from a shared index by compare-and-swap.
* The outcome of VC and switch allocation depends on the order in which threads
  reach a buffer; the switch link is held for a moment and given back when the
  link behind it is taken.
* A packet spans several buffers; links, queue slots and credits are given back
  in different steps and in the next cycle.
* Routing must name existing, adjacent channels, make progress, and stay free
  of cyclic waiting.
* Table files, traffic patterns and port numbering are index arithmetic.
* Packets outlive the counters they were counted in: `TM->reset` comes with packets
  under way, the vector holds arrived packets for one more cycle, and the
  netrace is read one packet ahead.

## 2. Plan

Order, most important first; all items are done.

1. `Cycle` (abstract: every packet updated exactly once between two serial
   phases) and `WorkerPool` (detailed: mutexes, condition variable, flags,
   claim index); `WorkerPool` implements `Cycle`; proofs in `WorkerPool_proofs`.
2. `BufferSpec` (abstract: atomic credits and link locks) and `BufferAtomics`
   (detailed: load / compare-and-swap loops with weak failures); proofs in
   `BufferAtomics_proofs`.
3. `Network`: buffers and packets of a small network, one step per shared access
   of `System::update`, up to `Threads` packets at a time.
4. Routing: `MeshTopology`, `MeshRouting`, `TorusRouting`, `DragonflySW`,
   `DragonflyChiplet`, `BasicArbitrary`, driven by `Walk`.
5. `Transport` (abstract: what the loop of `main` may expect of the network),
   implemented by `Network`; `Simulation` over it, with `Traffic`; proofs in
   `Simulation_proofs`.
6. Proofs for every size, of what the runs show on one: the whole of `Network`
   and that it implements `Transport` (`Network_proofs`), credits of a buffer,
   wiring, progress and deadlock freedom of meshes and tori (`Mesh_proofs`), wiring,
   ways and the switches' deadlock freedom of the Dragonflies (`Dragonfly_proofs`),
   wiring, candidates and escape VCs of the arbitrary topology for every adjacency
   matrix and table (`Arbitrary_proofs`), addresses, rings and permutations of the
   traffic patterns (`Simulation_proofs`).

Oddities met while reading that no run shows:

* `dragonfly_sw.cpp:51` asserts `vc_number >= 2`, `MIN_routing` names VC 2 (line 167).
* `dragonfly_chiplet.cpp:243-245`: the mis-routing branch does not return
  (DragonflySW's does), so a second, minimal candidate is added. With
  `"chiplets_misrouting"` added to `Configs` of run `dragonflies` (and to its assumption),
  `DeadlockFree` fails; with a return it holds.
* `traffic_manager.cpp:287, 314`: both rings use an uninitialised destination on any
  other topology than the two Dragonflies. On DragonflyChiplet (`:288-297`) their table
  is laid out for C-groups of 16 cores; with 8 cores or fewer a core may send to
  itself or to one that does not exist.
* `src/README.md:112`: the date-line table of Example 1 has -1 for every node off the
  way, and `load_3d_vc_matrix` (`basic_arbitrary.cpp:391`) ends the program at the first
  one.
* `traffic_manager.cpp:201, 220, 237, 171`: reverse, shuffle and transpose on 2 cores
  and hotspot on 5 never draw different cores, so `genMes` does not return;
  hotspot below 4 cores and adversarial below 41 divide by zero.
* `sd_trace` (README, config.h, constructor) against `sd_traces` (genMes, config.cpp).
* `main.cpp:165` / `config.h:82` "Timeout Pkts Limit": timeouts are counted once per hop, not per packet.
* `multiple_chip_torus`: VC 1 is used but vc_number is not checked (default 1).

## 3. Modules

```
Cycle <== WorkerPool <- WorkerPoolProps <- MCWorkerPool, WorkerPool_proofs
BufferSpec <== BufferAtomics <- BufferProps <- MCBuffer, BufferAtomics_proofs
Transport <== Network <- NetworkProps <- MCNetwork, Network_proofs
Fabric <- Network, Mesh_proofs, Dragonfly_proofs
Transport, Traffic <- Simulation <- SimulationProps <- MCSimulation, Simulation_proofs
Walk <- WalkProps <- MCMeshes       (MeshTopology <- MeshRouting, TorusRouting) <- Mesh_proofs
                  <- MCDragonflies  (Dragonfly <- DragonflySW, DragonflyChiplet) <- Dragonfly_proofs
                  <- ArbitraryProps (BasicArbitrary) <- MCArbitrary, Arbitrary_proofs
Lemmas <- all modules of proofs but WorkerPool_proofs
```
(`<-` is EXTENDS or INSTANCE, `<==` is refinement.)

The levels fit together by what they take for granted. `Cycle` is the contract
of the pool; `Network` alternates a serial and an update phase in just that way.
`BufferSpec` is the contract of a buffer; `Network` makes each buffer operation
one step. `Network` takes any fabric (module `Fabric`: buffers, the nodes at both ends
of their links, a routing function); `Walk` and the routing modules say what the
topologies supply. `Walk` lets the head of a packet take
any candidate, which covers every outcome of the allocation in `Network`.
`Transport` is the contract of the network, by the number of packets: `Network`
keeps it, which run `network` shows on small networks and `KeepsContract` proves of
its safety part for all; `Simulation` is built from its actions and leaves the
packets alone otherwise (`KeepsToContract`), so what holds of `Simulation` holds
with any network and routing that keep the contract. What `Network` takes for
granted of its fabric (`RoutesLeadOn`: wherever a packet is on its way there are
candidates, behind links of that node, and in no circle) is proved of the
topologies: `MeshesLeadOn` for meshes and tori with all four algorithms,
`SwitchesLeadOn` for DragonflySW, of every size. So what is proved of `Network` holds
of the pipeline in each of these. It does not hold in DragonflyChiplet, where a
packet may leap over the link of another C-group (run `chiplet_leap`), and in the
arbitrary topology it depends on the user's tables, whose general VCs may close
circles.

### WorkerPool (`main.cpp` 13-134, 188-200)

`pc[t]` is the program location of thread t; 0 is `main`. A wait on the condition
variable is three locations: about to wait, parked with the mutex released,
woken and not yet holding the mutex. `mtx`, `ready`, `launch`, `finished`, `pktI`
are the variables of the file; `launch` starts with any value, as the
`new volatile bool[]` leaves it. `cur` and `lim` are `i` and `max_i` of
`update_packets`; `updated` is a history variable. Actions follow the statements:
`Load`, `ClaimBatch`, `ClaimFails`, `UpdatePacket` (`update_packets`); `Start`,
`SetReady`, `Park`, `SpuriousWakeup`, `Reacquire`, `Loop`, `ClearLaunch`, `Check`
(`worker`); `Spawn` ... `Spin`, `LockWorker` (start-up and `run_one_cycle`);
`Finish`, `UnlockEnd`, `NotifyEnd`, `Join` (end of `main`). The work on a packet is
one step here.

### BufferAtomics (`buffer.cpp` 52-110)

One buffer, one VC. Each load and each compare-and-swap is a step;
`compare_exchange_weak` may fail spuriously. `holds` is the resources of a packet;
callers release only what they hold, as `System::update` does.

### Network (`system.cpp` 44-226, `main.cpp` 56-134, `buffer.h`, `packet.*`)

A channel is a pair of buffer and VC (`Fabric`). `Route(p, c)` is what
`routing_algorithm` offers packet p when its head is in place c. `trace` is `flit_trace_`, `cand`
`candidate_channels_`, `next` `next_vc_`, `switched` `switch_allocated_`, `release`
and `leaving` are `releaselink_` and `leaving_vc_`; `queue[c]` is
`vc_head_packet` followed by `vc_queue_`. `Begin` is the start of `update`
(timers, routing, choice of stage); `IsEmpty`, `TakeEmpty`, `TakeAny` are the two
passes of `vc_allocate`; `AllocateSwLink`, `AllocateInLink`, `Push`, `GiveBackSwLink`
are `switch_allocate`; `Move` and `Arrive` are the rest of `update`. `ReleaseLinks`
is the serial loop over the packets, in one step because `main` is alone then;
`Reset` is `System::reset` between two injection rates. `param` is `router_stages`,
`processing_time` and the packets that the traffic may generate; it never changes. At most `Threads`
packets are between `Begin` and the end of their update.

### Transport, Simulation, Traffic (`main.cpp` 106-187, `traffic_manager.*`)

`Transport` counts the packets of the vector: `travelling`, and `arrived` for those with
`finished_`, which the next serial part deletes. In one cycle no more than
`Capacity` packets arrive, one for each buffer at a destination.

`Simulation` is `main` after the start. `stage` says which loop it is in, `i` is that
loop's index, `at` whether `genMes` of this cycle has run. `param` is the parameters;
`rate` is `message_per_cycle()`, `pkt_for_injection` and the three counters are the
members of the traffic manager, `cursor` is the place in the netrace, of which
`Stamp(cursor)` is `latest_active_packet_cycle`. `GenMes` is the head of a loop with
the call of `genMes`: `Inject` is the loops of `genMes` and of the rings, `Netrace` with
`ReadTo` is `netrace()` over `nt_read_packet`. `StartCycle`, `Receive`, `Timeout` and
`FinishCycle` are `run_one_cycle`; `WarmedUp` is the end of the warm-up with
`TM->reset`; `Judge` the saturation test; `Drained` the end of the drain of a DEBUG
build; `NextRate` the deletion of all packets and the step to the next rate.
`carried` is a history variable: packets that arrive under other counters than
they were injected under.

`Traffic` is pure: the pairs of cores each pattern can draw, with C++ division. The
patterns have no state, so the properties about them are functions of `Params`.

### Routing

`Walk` holds the configuration, the source, the destination, the channel in
which the head is, and the hops so far. `MeshTopology` and `MeshRouting` are
`chip_mesh`, `single_chip_mesh` and `multiple_chip_mesh`; `TorusRouting` is
`multiple_chip_torus`; `DragonflySW` and `DragonflyChiplet` are the modules of their
names, built on `Dragonfly` for the numbering of ports that both share;
`BasicArbitrary` is the loaders, `connect_chiplets` and `NRL_routing`;
`ArbitraryProps` takes the matrix and the tables as constants and says what a
packet may expect of them. Wiring and routing are functions of the constants, so
`Walk` needs no state for them.

`DeadlockFree` is computed from the dependency of channels: for every pair of
different source and destination, the channels a packet can be in front of, with
its candidates. `Blocked` starts with all channels and drops, round after round,
those out of which every packet has a way; what is left could wait for ever.
An empty `Blocked` proves that no circle of waiting packets can exist. A
non-empty one is a circle that can be filled if each of its packets has one
candidate, which is so in the run that shows one.

## 4. Runs

| Run | States, time | Question |
|---|---|---|
| `pool` | 62,831, 13 s | Two workers, batches of two, vectors of 0 to 3 packets, two spurious wake-ups: is every packet updated exactly once between exclusive serial phases, and does the pool shut down? |
| `buffer` | 98,458, 20 s | Three packets (1, 2, 2 flits) on 3 credits and two links, two calls each, one weak failure: do the loops behave like one-step operations? |
| `network` | 110,671, 105 s | Two routers into one into two, and a circle of links; one, two and three stages, one and two VCs, links of different width and latency, packets of one to three flits, two updated at a time: who owns room, links and queue places, and does the network keep the contract `Transport`? |
| `meshes` | 79,468, 55 s | XY, NFR, NFR_adaptive and CLUE on 3 x 3 chips of 2 x 2 nodes, all pairs of nodes, all choices. |
| `dragonflies` | 32,760, 25 s | DragonflySW (30 switches in 10 groups), with and without mis-routing; DragonflyChiplet (14 C-groups of four nodes). |
| `arbitrary` | 240, 3 s | Ring of five nodes, tables dense and sparse, VC by flow and by date line. |
| `simulation` | 401,702, 45 s | Every traffic for a short time at several scales; a pattern and a ring at all rates up to saturation; every netrace of up to three packets: do counters, injection, verdicts and addresses mean what they say, and does the search end? |
| `chiplet_leap` | violation | Does a packet take a local link before a global link of another C-group? |
| `chiplet_deadlock` | violation | Is MIN routing free of circles with 3 x 3 nodes in a C-group? |
| `arbitrary_order` | violation | Does a sparse file in the order of the README route packets? |
| `ring_back` | violation | Does the way back of the ring on DragonflySW lead to cores that exist? |
| `netrace` | violation | Does a packet of a netrace enter in the cycle of its time stamp? |

Bounds, and why they are enough.

* `pool`: two workers make every interleaving of two claimers and of a late and
  an early worker; batches of two over three packets give a full and a partial
  batch; the vector may also be shorter than `NThreads`, the path on which main
  works alone. Two spurious wake-ups hit both workers, or one twice. The proofs
  remove these bounds for safety.
* `buffer`: two calls per packet are an allocation and its release, or two
  resources at once. Two packets fit together only if one is the short one, so
  both outcomes of the test occur at each point.
* `network`: four sets of parameters over one set of links. *merge*: three stages;
  packets from different inputs meet at one link, and one is stuck behind
  another in a queue. *line*: one stage, two VCs, a packet longer than a link is
  wide, one that starts half way. *cross*: two stages. *ring*: three
  packets go two links each around a circle of three; each fills a channel, so on
  one VC all wait for the room that the next one has, and `ImplementsTransport`
  fails. With VC 1 behind a date line, as the torus and the arbitrary topology have
  it, they arrive. Together: contention for
  the switch link (same input), the input link (different inputs) and the
  credits of a VC, a packet that spreads over two buffers, and one that arrives
  in the update in which its tail moved. There are more buffers at destinations
  than packets, so the bound on the arrivals in a cycle bites in no set; it is
  proved (`KeepsContract`). `Threads` = 2 gives every overlap of the
  accesses of two updates; three at once are checked for a single buffer only
  (run `buffer`).
* `simulation`: `Capacity` = 2 is the least that lets several packets arrive in one
  cycle; `Unit` = 2 makes rates of half a packet, so a remainder is carried. A
  `simulation_time` of 6 gives warm-ups of 3 and drains of up to 12 cycles, enough
  for rates that saturate and rates that do not, drains that end early, late
  and with a packet that arrives last. `MaxTimeouts` = 2 with limits 1 and 3: the
  limit ends a rate, or never does. `Slack` = 2 stands for the 1000 cycles after
  a netrace; the proof takes any number above 0. Traces of three packets have
  gaps, equal stamps, and packets without a size or to their own source
  anywhere. Scales are powers of two and not, for the rings several C-groups,
  for adversarial both sides of multiples of 41; the other traffics run for one
  rate, since the loop does not tell patterns apart.
* `meshes`: K = 6, even, so that the ambiguous offset of half the torus occurs,
  with chip borders inside rows; three chips in a row are the fewest with a
  chip that is at neither edge. The longest way has 10 links; `MaxRounds` = 12 is
  what the proof of deadlock freedom asks for, twice the width of the mesh.
* `dragonflies`: six ports give groups of three switches, the fewest with
  a local port on either side of the gap in the numbering. For other sizes the
  wiring, the length of the ways and the switches' deadlock freedom are proved.
* `arbitrary`: an odd ring of five has one shortest way between two nodes and
  needs the date line. The run also evaluates `TablesAssumption` for its tables, in
  the order `MCEscapeRank` of the escape channels: date-line tables and tables with
  one index for a whole way are sound. What depends on the matrix and the tables
  is proved for all of them.
* `MaxRounds` bounds the iteration to the fixpoint of the deadlock analysis
  (`4 * MaxRounds` rounds); too small a bound would leave `Blocked` too large and
  the property violated, never hide a circle among the visited channels, and the
  ways themselves are at most `MaxRounds` long. It is proved that `MaxRounds` =
  2 * width is always enough for meshes and tori, and 2 for switches.

`buffer` stops when the calls are used up, hence `CHECK_DEADLOCK FALSE` there and
nowhere else; the other models loop or have an explicit end step.

Every property has a mutant in `PROJECT.json`: an operator next to the
definition that it alters (a dropped guard, a swapped order, a missing
reset), marked `Mutant:` in a comment. Mutants are not part of any specification.

### Findings

* `dragonfly_chiplet.cpp:259`: only the node number is compared, so a packet can
  take a global link of another C-group (`chiplet_leap`).
* `dragonfly_chiplet.cpp:220-229`: VC 2 serves before and after the local link;
  from 3 x 3 nodes in a C-group on the channels wait in a circle (`chiplet_deadlock`).
* `src/README.md:78` gives sparse NRL tuples as (current, source, destination, next);
  code and shipped files use (source, destination, current, next) (`arbitrary_order`).
* `traffic_manager.cpp:331`: on DragonflySW the way back of the bidirectional ring,
  `(src - 1) % scale`, is -1 for source 0, a node that no chip has (`ring_back`). No other
  packet of any traffic is addressed wrongly (`OnlyOneMisses`).
* `main.cpp:136` says of the netrace "inject according to the time_stamp";
  `netrace()` (`traffic_manager.cpp:353`) injects each packet in the cycle of its
  predecessor's stamp, the first in cycle 0 (`netrace`). Packets may be early, never
  late (`TraceInTime`).

## 5. Fairness

* `WorkerPool`: weak fairness of main's steps and of each worker: the operating
  system runs every thread that can run. None for `SpuriousWakeup`, `GenMes` and
  `Finish`: main may stop between two cycles, or simulate for ever. Taking a mutex
  needs weak fairness only, since main never takes a mutex again before the worker that wants it has had it.
* `BufferAtomics`: weak fairness of each packet's next access. A swap can fail
  only because another succeeded, or spuriously, which is bounded by `MaxWeak`.
* `Network`: weak fairness of the serial loop, the end of the cycle, and each
  packet's update: `Cycle` provides it. Nothing is assumed about the order of the
  packets in a cycle. No fairness of `Generate`. From this follows the fairness of
  `Transport` (its `Arrive` is strongly fair, since nothing can arrive in the serial
  part of a cycle, so it is never enabled for good).
* `Simulation`: weak fairness of `main` alone. Arrivals may stop at any time, as in a
  deadlocked network: `SearchEnds` holds nevertheless, because rates rise, and no
  more than `Capacity` packets arrive in a cycle.
* `Walk`: none. That packets arrive follows from a bound on hops (`FewHops`) or a
  distance that falls (`Closer`), and from the absence of deadlock.

## 6. Proofs

TLAPS proves, for all values of the constants:

* `WorkerPool_proofs` (from `PoolAssumption`: natural numbers, at least one thread
  and an issue width of at least one): `TypeOK`, `SerialPhaseExclusive`,
  `ClaimsDisjoint`, `ExactlyOnce`, and that every step is a step of `Cycle` or
  stutters. The invariant is `PoolInv`:
  - `Locking`: who holds a mutex follows from the locations of main and the worker;
  - `Flags`: what `ready` and `launch` say of the location of a worker. This is
    what makes the first wait, which has no predicate, harmless: a worker that
    leaves it before main has taken its mutex finds an empty vector, and one that
    wakes later cannot pass before main gives the mutex back, with the flag raised
    and `pktI` reset;
  - `Batches`: claimed ranges lie below `pktI` and are disjoint;
  - `Progress`: every index below `pktI` is updated or claimed by somebody, none
    above is, and a thread that has left `update_packets` has seen the end.
  `ExactlyOnce` is not inductive: it needs `Batches` and `Progress` while the cycle
  runs, these need `Flags` to know that no worker is late when `pktI` is reset,
  and that needs `Locking`.
* `BufferAtomics_proofs` (from `BufferAssumption`): `TypeOK` (credits never go
  below zero), `LinkHasOneOwner`, `CreditConserved`, and the safety part of
  `BufferSpec`. The invariant adds `Calling`: a packet in an operation holds the
  resource exactly if it releases it, and a value it is about to swap in is large
  enough. `CreditConserved` follows from `CreditInv`: the holders are a finite set,
  even if the packets are not, and credits and lengths of the holders add up.
* `Network_proofs` (from `NetworkAssumption`: finitely many packets and buffers, of
  at least one flit and a width of at least one; and `RouteAssumption`): `TypeOK`,
  `CreditConserved`, `LinksOwned`, `QueuesOrdered`, `WormConnected`,
  `AssertionsHold`, `LinkWidthKept`, and the safety part of `Transport`.
  `RouteAssumption` says of the fabric that on the way of a packet the routing has
  candidates, that they lie behind links of the node, and that the number of links
  ahead goes down. The code relies on it (`system.cpp:79` asserts the first);
  without it `WormConnected` fails, for a packet would come back to a channel it
  still occupies. The invariant `IInv` adds
  - `Control`: what the location of an update says of timers and candidates;
  - `Worm`: each flit is on the way of its packet and in the place of the flit
    before it or one hop behind, so places that flits have left are never met again;
  - `Left`, `OnItsWay`: what a packet that moved on has still to give back in the
    serial phase, and that a packet between two updates has not yet arrived;
  - `Owned`, `Queued`, `InFront`: each mark on a link and each place in a queue has
    its packet; a packet with flits ahead of a channel is first in its queue.
    These need each other: the switch link of a buffer has one owner only because
    just the first packet of a queue may go on;
  - `Credits`: the room kept and the room free add up, by the lemmas on sums.
  For the contract `Timed` is added: of the packets that have come through the last
  buffer before their destination no two are due in the same cycle, and one that
  is still coming is due after all of them. This is why no more than `Capacity`
  packets arrive in a cycle.
* `Mesh_proofs` (from `MeshAssumption`: at least one node, chip and VC; `MaxRounds`
  at least twice the width): `LinksPaired`, `CandidatesUsable`, `Closer` and
  `DeadlockFree` for all four algorithms.
  - Nodes are places `i`, `j` in chip `k`, `l`; `PlaceFacts` and `NodePlace` turn the
    divisions of the code into these. From them `LinksPaired`: the buffer at the
    end of a link leads back.
  - `Offered` gives the candidates of each algorithm as a set of channels, from the
    ports that are nearer (`Nearer`); so they exist, there is one, and each is a
    hop closer.
  - Deadlock: every channel has a rank. In front of it a packet always has a
    candidate of a lower rank, or its destination: for XY channels in x rank above
    those in y, for NFR negative directions above positive ones, for CLUE VC 0
    above the way around the edges on VC 1, and that above negative-first on VC 1;
    in NFR_adaptive all but the last VC rank above it. `Along` says in which
    channels a packet to d can wait at all; it holds in the channels that
    `Visited` collects. After `i` rounds only channels of rank `i` or more are in
    `Blocked`, and ranks are below `4 * MaxRounds`.
  - `MeshesLeadOn`: the buffers at the linked ports and the candidates of the four
    algorithms make a fabric as `Network` needs it. The rank of a node is its
    distance from the destination, brought below the number of nodes by `RankWithin`.
    Hypothesis is `OnMesh`: one of the configurations, packets between different nodes.
  - Hypothesis of the other four theorems is `Walks`: the operators that `Walk` takes as
    constants (`Cores`, `Linked`, `Distance`, `Route`) are those of `MCMeshes`, as the
    `.cfg` says. It is no ASSUME of the module since TLC would compare all routes of
    the instance, which takes longer than the run.
* `Dragonfly_proofs` (from `DragonflyAssumption`: `sw_radix` at least 4 and `k_node` at
  least 2, below which there are no local or no global ports; a VC; `MaxRounds` at
  least 2): `PortsConnectedOnce`, `FewHops`, `FewGlobalHops`, and `DeadlockFree` of the
  switches, for every radix, even or odd, and with and without mis-routing.
  - Wiring: ports to cores, local and global ports lie in disjoint ranges; inside a
    range, the number of a port determines its link (`PortTowardsApart`), the number
    of a switch its group and place (`NumberOfMember`), and the nodes at the border
    of a C-group are different for different ports (`PortsApart`).
  - Switches: a way goes through stages (`InStage`: to the first switch, the
    mis-routing link, the local link to the global one, the global link, the last
    local link, the core), and every candidate leads to a later one (`StageNext`).
    This bounds the hops. The stages refined by VC are ranks of the channels, so
    nothing stays in `Blocked`. `Along` says which groups a packet may be in, whence
    `FewGlobalHops`.
  - `SwitchesLeadOn`: the same for the fabric of the switches, wherever a packet is,
    on its stages or not; `SwitchRank` counts the links still ahead of a node.
    Hypothesis is `AmongSwitches`: packets between different cores, and the three VCs
    that the routing numbers (the code asserts two, see section 2).
  - C-groups: `Left(n, d)` is a bound on the hops left from node n, summed over the
    C-groups still ahead, each with its way inside; every hop decreases it
    (`NearerByRouting`), also the leap over a global link of another C-group
    (`dragonfly_chiplet.cpp:259`), which is no longer than the way it replaces.
    `DeadlockFree` is not claimed: it is false from `k_node` = 3 on (run
    `chiplet_deadlock`).
  - Hypothesis of the theorems about ways is `Walks`, as in `Mesh_proofs`.
* `Arbitrary_proofs` (from `ArbitraryAssumption`: a matrix with links both ways, none of
  a node to itself, and at no node more than ports; tables as the loaders return
  them, which `DenseTables` and `SparseTable` prove they do for every file):
  `PortsConnectedOnce`, `EscapeForGood`, `CandidatesExist`, and for configurations in
  `SoundConfigs` also `CandidatesUsable` and `DeadlockFree`.
  - Wiring: `Wired(k, w)` is what holds after k entries of the matrix. The links that
    have ports are those met so far and their ways back; different links have
    different ports at a node; the next free port is the number of its links that
    have some, whence no more are given out than there are; a port is connected
    once its own entry has been met. `NextWired` carries this over one round of
    `connect_chiplets`, `AllWired` over all of them.
  - `RangeOfRoute` gives the candidates as a set. They exist whatever the tables
    say, since a hop that names no link ends the program.
  - Which tables a user supplies the code does not check, so that they lead
    anywhere is an assumption: `TablesAssumption` says of `SoundConfigs` that from
    every source, and every node that they lead to, the tables lead on, and that
    packets that go from escape channel to escape channel come down an order of
    these (`EscapeRank`). Nothing is said of the general VCs: ways through them may
    close circles, as in the ring of run `arbitrary`. The proof ranks them above all
    escape channels; a packet in any of them has an escape channel as a candidate.
  - Hypothesis of the theorems about packets is `Walks`, as in `Mesh_proofs`.
* In all three, `VisitedWithin` says that a set of channels that holds the ways out
  of the source and is closed under routing holds all of `Visited`, and `RanksUnblock`
  of `Lemmas` that `Blocked` is empty if every wait is for a lower rank.
* `Simulation_proofs` (from `SimulationAssumption`: the types of the parameters, a
  unit and a slack of at least one, and traces in the order of their stamps):
  `TypeOK`, `PacketsConserved`, `InjectionOnSchedule`, `UnsaturatedDelivers`,
  `DrainVerdictSound` and `TraceInTime`; with `PatternAssumption` also `RingsClose`,
  `PacketsWellAddressed` and `BitPatternsPermute`. The invariant `IInv` adds
  - `Stages`: which loop main is in while a cycle runs, and that a netrace never
    enters the loops of a pattern;
  - `Judgement`: what the tests found is still so when their result is used,
    which needs `Stages`: no cycle runs between test and deletion;
  - `Ahead`: the trace is always read up to a packet whose stamp is still to come,
    or to its end. `TraceInTime` is not inductive: that nothing was missed at
    stamp `i` says nothing of the next cycle unless the look-ahead is known.
  `KeepsToContract` states that every step of the loop is a step of `Transport` or
  leaves the packets alone (safety part; nothing is assumed of arrivals).
  The arithmetic of the injection loop is in the lemma `WholeSteps`; that `ReadTo`
  finds a packet is `LeastElement`, from the well-foundedness of the natural numbers.
  `PatternAssumption` leaves out the scales on which a generator divides by zero or
  never returns, and the rings on 8 cores or fewer of DragonflyChiplet and on a single
  one of DragonflySW. A core of DragonflyChiplet is a place in one of four lanes
  (`Place`); `ChipletSteps` and `SwitchSteps` say which place a core sends to, forth and
  back. n steps around a ring of n places visit all of them and end where they
  began (`StepsAround`), which `SentAround` carries over to the recursion of `Round`.
  `RingsClose` speaks of C-groups of 16 cores, the size for which the table is laid
  out: all cores on one ring on DragonflySW, a quarter of them on each of four on
  DragonflyChiplet. `EveryRingCloses` and `AllWellAddressed` have the hypothesis
  `NoWayBackOnSwitches`, since both properties are false of the bidirectional ring on
  DragonflySW; `OnlyOneMisses` needs none and names the one packet that goes astray.
  For hotspot and adversarial the cores that are drawn
  exist and differ (`HotspotAddressed`, `AdversarialAddressed`, `CoreExists`).
  The bit patterns: a number below a power of two is determined by its bits
  (`SameBits`), and every choice of bits is that of one number (`NumberOfBits`). A pattern
  takes each bit of the source to a place of its own (`SourceBitInverse`), for every
  number of bits, even or odd. So the bits of a destination are known (`BitsOfDest`),
  the source of a given destination can be put together (`BitsPermute`), and a core
  that does not send to itself shows in bit 0 (`BitsAddressed`).
* `Lemmas`: division, sums over finite sets, induction. The provers cannot use an
  induction theorem over an operator, so induction is stated over sets: a set that
  holds 0 and with each number the next is `Nat` (`NatInductionOnSets`); the same
  for finite sets (`SetInduction`), and that a recursive function over `Nat` exists
  (`IterationExists`). With them a sum does not depend on the order in which it is
  added up (`AddsAgree`), and `Blocked`, `Visited` and the rounds of `connect_chiplets`
  are sequences of values.

Model-checked only:

* Liveness: `ImplementsCycle`, `ImplementsBufferSpec`, `ImplementsTransport` as a
  whole, `ShutdownCompletes`, `SearchEnds`. Fairness needs ENABLED, which is out of
  the prover's reach.
* `DeadlockFree` of DragonflyChiplet with 2 x 2 nodes in a C-group (false from 3 x 3).
* That the loaders read the tables of run `arbitrary` right, and that these are sound.

## 7. Not modelled

* `sd_trace_mess`, whose cores are numbers in a file, and the fixed pair of the
  traffic `test`. Both are injected by the loop that `Inject` models.
* Printed averages and the maximum receiving rate: output only. `message_per_cycle()`
  is a whole number of units instead of a double, so rounding is left out.
* Scales at which a pattern divides by zero or never returns, and the rings on
  topologies that are no Dragonfly (see section 2).
* `config.*`: reading of parameters; each model takes them as constants.
* `src/src/netrace`, third-party C code: only `nt_read_packet` is modelled, by its clock
  and its end of file. Dependencies are switched off by the traffic manager;
  seeking, self-throttling and printing are not called.
* Statistics: hop counters, timers and sums feed nothing back, apart from the
  timeout counter of the simulation loop.
* `XY_adaptive_routing` of DragonflyChiplet: nothing calls it.
* The text of table files: rows, separators and comments. The loaders are
  modelled from the numbers on, with their range checks and look-up orders.
* Adjacency matrices with one-way entries, with links of a node to itself or with
  more links than ports, for the arbitrary topology.
* Nodes and chips (`node.*`, `chip.*`): containers of buffers and links; their reset
  is part of `Reset` in `Network`, their wiring belongs to the topologies.
