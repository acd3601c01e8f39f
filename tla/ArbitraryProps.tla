--------------------------- MODULE ArbitraryProps ---------------------------
(***************************************************************************)
(* Packets on a topology read from files: any adjacency matrix with links  *)
(* both ways, and any tables that the loaders can make.                    *)
(***************************************************************************)
EXTENDS BasicArbitrary, WalkProps, FiniteSets

CONSTANTS
  adjacency,    \* adjacency_matrix_: whether there is a link from i to j
  NRL,          \* for a configuration: the table of next nodes, as loaded
  VCTable,      \* for a configuration: the table of escape indices, as loaded
  SoundConfigs, \* configurations whose tables lead to every destination
  EscapeRank    \* for a sound configuration: an order of its escape channels

Flow == Nodes \X Nodes \X Nodes
Neighbours(i) == {j \in Nodes : adjacency[i][j] # 0}

\* What the loaders return: a value for some triples of source, destination and
\* current node; for none if the file is rejected.
IsTable(table, values) ==
  /\ DOMAIN table \subseteq Flow
  /\ \A k \in DOMAIN table : table[k] \in values

ASSUME ArbitraryAssumption ==
  /\ n_nodes \in Nat \ {0} /\ Radix \in Nat /\ MaxRounds \in Nat
  /\ num_total_vcs \in Nat \ {0} /\ num_escape_vcs \in 1 .. num_total_vcs
  /\ VirtualChannels = 0 .. num_total_vcs - 1
  /\ \A i \in Nodes, j \in Nodes : adjacency[i][j] # 0 => adjacency[j][i] # 0
  /\ \A i \in Nodes : adjacency[i][i] = 0 /\ Cardinality(Neighbours(i)) <= Radix
  /\ \A c \in Configs : IsTable(NRL[c], -1 .. n_nodes - 1) /\ IsTable(VCTable[c], EscapeIndices)

Wiring == connect_chiplets(adjacency)
InputBuffers == {p \in DOMAIN Wiring.link_buffers : Wiring.link_buffers[p] # nullptr}

ArbitraryRoute(c, s, d, vc) == NRL_routing(NRL[c], VCTable[c], Wiring, s, d, vc)
ArbitraryCores(c) == Nodes
ArbitraryLinked(c, n) == {Wiring.link_buffers[p] : p \in {q \in InputBuffers : q[1] = n}}

\* A port never serves two links; the input buffer behind a port belongs to
\* the link whose way back starts there.
PortsConnectedOnce ==
  \A p \in InputBuffers :
    p[1] = at =>
      /\ p[2] < Radix
      /\ Wiring.link_buffers[Wiring.link_buffers[p]] = p
      /\ Cardinality({q \in InputBuffers : Wiring.link_buffers[q] = Wiring.link_buffers[p]}) = 1

IsEscape(vc) == Len(vc[1]) = 2 /\ vc[2] >= base_escape

\* Once a packet is in an escape VC, it stays in escape VCs.
EscapeForGood == [][IsEscape(head) => IsEscape(head')]_vars

-----------------------------------------------------------------------------
(* What tables have to be for packets to arrive.                           *)

\* A packet from k[1] to k[2] finds its way on at k[3].
LeadsOn(c, k) ==
  /\ k \in DOMAIN NRL[c] /\ k \in DOMAIN VCTable[c]
  /\ NRL[c][k] \in Neighbours(k[3])

Onward(c, k) == <<k[1], k[2], NRL[c][k]>>
Arrives(c, k) == NRL[c][k] = k[2]

\* The tables lead on from every source, and from every node to which they
\* lead and which is not the destination.
TablesLeadOn(c) ==
  \A s \in Nodes, d \in Nodes : s # d =>
    /\ LeadsOn(c, <<s, d, s>>)
    /\ \A n \in Nodes \ {d} :
         LET k == <<s, d, n>>
         IN LeadsOn(c, k) /\ ~Arrives(c, k) => LeadsOn(c, Onward(c, k))

\* The buffer that the table leads to, and the escape VC that it names there.
NextBuffer(c, k) == Wiring.link_buffers[<<k[3], Wiring.buf_conn_map[<<k[3], NRL[c][k]>>][1]>>]
EscapeChannel(c, k) == <<NextBuffer(c, k), base_escape + VCTable[c][k]>>

EscapeChannels ==
  {Wiring.link_buffers[p] : p \in InputBuffers} \X (base_escape .. num_total_vcs - 1)

\* Every packet that goes from escape channel to escape channel comes down an
\* order of them.
EscapesDescend(c, rank) ==
  \A s \in Nodes, d \in Nodes, n \in Nodes :
    LET k == <<s, d, n>>
    IN s # d /\ n # d /\ LeadsOn(c, k) /\ ~Arrives(c, k) =>
         rank[EscapeChannel(c, Onward(c, k))] < rank[EscapeChannel(c, k)]

ASSUME TablesAssumption ==
  \A c \in SoundConfigs :
    /\ TablesLeadOn(c)
    /\ EscapeRank[c] \in [EscapeChannels -> 0 .. 4 * MaxRounds - 2]
    /\ EscapesDescend(c, EscapeRank[c])
=============================================================================
