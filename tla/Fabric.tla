------------------------------- MODULE Fabric -------------------------------
(***************************************************************************)
(* What the pipeline takes for granted of a topology: nodes, input buffers *)
(* at the ends of the links between them, and a routing function that      *)
(* leads every packet on.                                                  *)
(*                                                                         *)
(* A channel is one VC of one input buffer, <<buffer, vc>>; a flit that    *)
(* has not left the source sits at Source.                                 *)
(***************************************************************************)
EXTENDS Integers, Sequences, FiniteSets

CONSTANTS
  Packets, Src, Dst,   \* source_ and destination_ of a packet
  Buffers, VCs,        \* input buffers, their virtual channels
  NoBuffer,            \* nullptr
  DownNode, UpNode,    \* node a buffer belongs to, node its link comes from
  Route(_, _)          \* routing_algorithm: candidates of (packet, place of its head)

Source == <<NoBuffer, 0>>    \* a VCInfo without a buffer
Channels == Buffers \X VCs
Places == Channels \cup {Source}
BufferOf(c) == c[1]

NodeAt(p, c) == IF c = Source THEN Src[p] ELSE DownNode[BufferOf(c)]
Nodes == {Src[p] : p \in Packets} \cup {DownNode[b] : b \in Buffers}

\* The nodes of way are those that packet p can come to.  In each of them the
\* routing has candidates to offer (system.cpp:79), they lie at the other end of
\* a link, and what rank counts, the links still ahead at most, goes down.
LeadsOn(p, way, rank) ==
  /\ Src[p] \in way
  /\ \A c \in Places : NodeAt(p, c) \in way \ {Dst[p]} =>
       /\ Route(p, c) \in Seq(Channels) /\ Route(p, c) # <<>>
       /\ \A i \in 1 .. Len(Route(p, c)) :
            LET b == BufferOf(Route(p, c)[i]) IN
            /\ UpNode[b] = NodeAt(p, c)
            /\ DownNode[b] \in way /\ rank[DownNode[b]] < rank[NodeAt(p, c)]

\* No packet is led in a circle, or into a node where nothing leads on.
RoutesLeadOn ==
  \A p \in Packets : \E way \in SUBSET Nodes :
    \E rank \in [way -> 0 .. Cardinality(Nodes)] : LeadsOn(p, way, rank)
=============================================================================
