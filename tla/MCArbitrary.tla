---------------------------- MODULE MCArbitrary ----------------------------
(* A ring of five nodes, routed the shorter way round, with one general    *)
(* and two escape VCs.  The tables come from dense and from sparse files;  *)
(* the VC tables are per flow, or by a date line between nodes 4 and 0.    *)
EXTENDS ArbitraryProps

MCAdjacency ==
  [i \in Nodes |-> [j \in Nodes |-> IF (i - j) % n_nodes \in {1, n_nodes - 1} THEN 1 ELSE 0]]

\* Steps forward from i to j, the next node, and whether the way crosses the
\* date line behind or before node c.
Forward(i, j) == (j - i) % n_nodes
Clockwise(s, d) == Forward(s, d) <= n_nodes \div 2
NextNode(s, d, c) == IF Clockwise(s, d) THEN (c + 1) % n_nodes ELSE (c - 1) % n_nodes
Wraps(s, d) == IF Clockwise(s, d) THEN d < s ELSE d > s
Crosses(s, d, c) == Wraps(s, d) /\ (IF Clockwise(s, d) THEN c >= s ELSE c <= s)

OnWay(s, d, c) ==
  /\ s # d /\ c # d
  /\ IF Clockwise(s, d) THEN Forward(s, c) < Forward(s, d) ELSE Forward(c, s) < Forward(d, s)

NRLFile ==
  [c \in Nodes |-> [s \in Nodes |-> [d \in Nodes |->
     IF OnWay(s, d, c) THEN NextNode(s, d, c) ELSE -1]]]
FlowFile == [s \in Nodes |-> [d \in Nodes |-> IF Wraps(s, d) THEN 1 ELSE 0]]
DatelineFile ==
  [s \in Nodes |-> [d \in Nodes |-> [c \in Nodes |-> IF Crosses(s, d, c) THEN 1 ELSE 0]]]

\* The lines of a sparse file, in the order of the shipped files.
Flows == {f \in Flow : OnWay(f[1], f[2], f[3])}
Lines(value(_)) ==
  [i \in 1 .. n_nodes * n_nodes * n_nodes |->
     LET k == <<(i - 1) \div (n_nodes * n_nodes), ((i - 1) \div n_nodes) % n_nodes, (i - 1) % n_nodes>>
     IN k \o <<value(k)>>]
Kept(lines) == SelectSeq(lines, LAMBDA l : Key(l) \in Flows)

MCConfigs == {"dense, flow", "dense, dateline", "sparse, dateline"}

\* What README.md asks for: tuples (current node, source, destination, next
\* router).
ReadmeOrder == {"sparse, README.md"}
ReadmeLines ==
  LET lines == Kept(Lines(LAMBDA k : NextNode(k[1], k[2], k[3])))
  IN [i \in DOMAIN lines |-> <<lines[i][3], lines[i][1], lines[i][2], lines[i][4]>>]

MCNRL == [c \in MCConfigs \cup ReadmeOrder |->
  CASE c = "sparse, dateline" ->
         load_tupled_routing_table(Kept(Lines(LAMBDA k : NextNode(k[1], k[2], k[3]))))
    [] c = "sparse, README.md" -> load_tupled_routing_table(ReadmeLines)
    [] OTHER -> load_3d_routing_table(NRLFile)]
MCVCTable == [c \in MCConfigs \cup ReadmeOrder |->
  CASE c = "dense, flow" -> load_vc_matrix(FlowFile)
    [] c = "sparse, dateline" ->
         load_tupled_vc_matrix(Kept(Lines(LAMBDA k : DatelineFile[k[1]][k[2]][k[3]])))
    [] OTHER -> load_3d_vc_matrix(DatelineFile)]

NoDistance(c, m, n) == 0
MCMostHops(c) == n_nodes \div 2

\* Into node n the escape VCs of index 1, which lead to the date line and over
\* it, come before those of index 0, either way round the ring.
MCEscapeRank ==
  [c \in MCConfigs |-> [vc \in EscapeChannels |->
     LET n == NodeOf(vc)
         port == CHOOSE p \in InputBuffers : Wiring.link_buffers[p] = vc[1]
         half == n_nodes \div 2
     IN IF n = (port[1] + 1) % n_nodes
        THEN IF vc[2] = base_escape THEN (-n) % n_nodes ELSE n_nodes + ((half - 1 - n) % n_nodes)
        ELSE IF vc[2] = base_escape THEN n ELSE n_nodes + ((half + n) % n_nodes)]]
=============================================================================
