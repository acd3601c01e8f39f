---------------------------- MODULE NetworkProps ----------------------------
(***************************************************************************)
(* What the pipeline has to guarantee.  A packet is spread over several    *)
(* buffers and its resources come and go in different steps, of different  *)
(* cycles: the properties say who owns a resource at every moment.         *)
(***************************************************************************)
EXTENDS Network, FiniteSetsExt

Locations ==
  {"idle", "empty", "take", "any", "switch", "inLink", "push", "giveBack", "move", "arrive"}

\* Type invariant; credits stay within the size of the buffer, which is the
\* assertion in release_buffer.
TypeOK ==
  /\ param \in Params
  /\ phase \in {"serial", "update"}
  /\ todo \subseteq Live
  /\ status \in [Packets -> {"new", "live", "gone"}]
  /\ \A p \in Packets : trace[p] \in [1 .. Length[p] -> Places]
  /\ \A p \in Packets : Range(cand[p]) \subseteq Channels
  /\ next \in [Packets -> Places] /\ leaving \in [Packets -> Places]
  /\ switched \in [Packets -> BOOLEAN]
  /\ procTimer \in [Packets -> 0 .. param.processing_time]
  /\ linkTimer \in [Packets -> Nat]
  /\ finished \in [Packets -> BOOLEAN] /\ release \in [Packets -> BOOLEAN]
  /\ pc \in [Packets -> Locations]
  /\ \A p \in Packets : k[p] \in 1 .. Len(cand[p]) \/ k[p] = 1
  /\ credit \in [Channels -> 0 .. BufferSize]
  /\ \A c \in Channels : Range(queue[c]) \subseteq Packets
  /\ inLink \in [Buffers -> BOOLEAN] /\ swLink \in [Buffers -> BOOLEAN]

Occupies(p, c) == \E i \in 1 .. Length[p] : trace[p][i] = c
InBuffer(p, b) == \E v \in VCs : Occupies(p, <<b, v>>)

\* Packets for which channel c keeps room: whole packets, from allocate_buffer
\* until the tail has left, or has arrived.
RoomHolders(c) == {p \in Live : ~finished[p] /\ (Occupies(p, c) \/ next[p] = c)}

\* Virtual cut-through: the free credits of a channel and the packets it keeps
\* room for always add up to its size, whatever updates overlap.
CreditConserved ==
  \A c \in Channels :
    credit[c] + MapThenSumSet(LAMBDA p : Length[p], RoomHolders(c)) = BufferSize

\* A packet owns the input link of b from the moment its head is granted it
\* until the serial phase after its tail came over.
InLinkOwners(b) ==
  {p \in Live :
     \/ switched[p] /\ BufferOf(next[p]) = b
     \/ InBuffer(p, b) /\ BufferOf(TailAt(p)) # b
     \/ release[p] /\ BufferOf(TailAt(p)) = b}

\* A packet owns the switch link of b from its switch allocation until the
\* serial phase after its tail left b.
SwLinkOwners(b) ==
  {p \in Live :
     \/ (switched[p] \/ pc[p] \in {"inLink", "giveBack"}) /\ BufferOf(HeadAt(p)) = b
     \/ InBuffer(p, b) /\ BufferOf(HeadAt(p)) # b
     \/ release[p] /\ BufferOf(leaving[p]) = b}

\* A link is marked used exactly while one packet owns it: no two packets send
\* flits over a link in the same cycle, and no link is lost.
LinksOwned ==
  \A b \in Buffers :
    /\ Cardinality(InLinkOwners(b)) = IF inLink[b] THEN 1 ELSE 0
    /\ Cardinality(SwLinkOwners(b)) = IF swLink[b] THEN 1 ELSE 0

\* Packets with a place in the queue of c: granted the link to it, in it, or
\* with the tail just out; a packet does not queue at its destination.
QueueMembers(c) ==
  {p \in Live :
     /\ DownNode[BufferOf(c)] # Dst[p]
     /\ \/ switched[p] /\ next[p] = c /\ pc[p] # "push"
        \/ Occupies(p, c)
        \/ release[p] /\ leaving[p] = c}

\* The queue of a channel holds its packets once each, and only the packet in
\* front has flits ahead of the channel.
QueuesOrdered ==
  \A c \in Channels :
    /\ Range(queue[c]) = QueueMembers(c)
    /\ Len(queue[c]) = Cardinality(QueueMembers(c))
    /\ \A p \in QueueMembers(c) :
         (Occupies(p, c) \/ (leaving[p] = c /\ release[p])) /\ HeadAt(p) # c => Head(queue[c]) = p

\* The flits of a packet are a connected worm: consecutive flits are in the
\* same channel or in channels one hop apart.
WormConnected ==
  \A p \in Live : \A i \in 1 .. Length[p] - 1 :
    \/ trace[p][i] = trace[p][i + 1]
    \/ trace[p][i] # Source /\ UpNode[BufferOf(trace[p][i])] = NodeAt(p, trace[p][i + 1])

\* The assertions of buffer.cpp and system.cpp at the points where the code
\* states them: an update never begins with the tail at the destination
\* (system.cpp:122), a link that is released was in use, and the packet whose
\* tail left is still in front of its old queue (buffer.cpp:84, 87, 106).
AssertionsHold ==
  /\ \A p \in todo : linkTimer[p] > 0 \/ NodeAt(p, TailAt(p)) # Dst[p]
  /\ \A p \in Live : release[p] =>
       /\ inLink[BufferOf(TailAt(p))]
       /\ leaving[p] # Source =>
            /\ queue[leaving[p]] # <<>> /\ Head(queue[leaving[p]]) = p
            /\ swLink[BufferOf(leaving[p])]
  /\ \A p \in Live : pc[p] = "giveBack" => swLink[BufferOf(HeadAt(p))]

\* In one step at most Width flits of a packet enter a buffer, each over the
\* one link that leads there.
LinkWidthKept ==
  [][\A p \in Packets, b \in Buffers :
       LET entered == {i \in 1 .. Length[p] :
                         trace'[p][i] # trace[p][i] /\ BufferOf(trace'[p][i]) = b} IN
       /\ Cardinality(entered) <= Width[b]
       /\ \A i \in entered : NodeAt(p, trace[p][i]) = UpNode[b]]_vars

\* The network keeps the contract that the simulation loop is modelled with: as
\* long as main runs cycles, packets that are under way arrive, and so all of
\* them do, whatever the order of the allocations (routes do not wait in a
\* circle); and at most one packet arrives through a buffer in a cycle.
Contract == INSTANCE Transport WITH
  Capacity <- Cardinality({b \in Buffers : \E p \in Packets : Dst[p] = DownNode[b]}),
  travelling <- Cardinality({p \in Live : ~finished[p]}),
  arrived <- Cardinality({p \in Live : finished[p]})
ImplementsTransport == Contract!Spec
=============================================================================
