-------------------------------- MODULE Walk --------------------------------
(***************************************************************************)
(* The head of one packet on its way through a topology: it is injected at *)
(* a core and takes, hop by hop, any of the channels that the routing      *)
(* algorithm offers, as System::routing and vc_allocate let it.            *)
(*                                                                         *)
(* A VCInfo is a buffer and a virtual channel of it; a buffer is the node  *)
(* that it belongs to and the port of the node where it sits.              *)
(***************************************************************************)
EXTENDS Integers, Sequences, Functions

CONSTANTS
  Configs,           \* topologies, with the settings that the routing depends on
  Cores(_),          \* nodes that packets start from and go to
  Route(_, _, _, _)  \* candidate_channels_ for (config, source, destination, head)

VARIABLES
  config,       \* the topology and algorithm_
  source,       \* source_
  destination,  \* destination_
  head,         \* head_trace()
  hops          \* internal_hops_, parallel_hops_, serial_hops_, other_hops_ together

vars == <<config, source, destination, head, hops>>

NodeOf(vc) == vc[1][1]

\* VCInfo(source): a node, and no buffer.
AtSource(s) == <<<<s>>, 0>>

at == NodeOf(head)
Candidates == Route(config, source, destination, head)

Init ==
  /\ config \in Configs
  /\ source \in Cores(config)
  /\ destination \in Cores(config) \ {source}
  /\ head = AtSource(source)
  /\ hops = 0

Hop ==
  /\ at # destination
  /\ head' \in Range(Candidates)
  /\ hops' = hops + 1
  /\ UNCHANGED <<config, source, destination>>

\* The packet leaves the system: nothing more happens to it.
Arrived == at = destination /\ UNCHANGED vars

Next == Hop \/ Arrived

Spec == Init /\ [][Next]_vars
=============================================================================
