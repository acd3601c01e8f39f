--------------------------- MODULE BasicArbitrary ---------------------------
(***************************************************************************)
(* A topology read from files: which tables the loaders accept and what    *)
(* they make of them, the ports that connect_chiplets gives the links, and *)
(* NRL_routing.  Every chip has one node; a node is the number of its chip.*)
(*                                                                         *)
(* A table maps source, destination and current node to the next node, or  *)
(* to the index of an escape VC.  A dense file is a function of its rows   *)
(* and columns, a sparse one a sequence of tuples.                         *)
(***************************************************************************)
EXTENDS Integers, Sequences, Functions

CONSTANTS
  n_nodes,         \* num_nodes_
  Radix,           \* ports of a node
  num_total_vcs,   \* num_total_vcs_
  num_escape_vcs   \* num_escape_vcs_

Nodes == 0 .. n_nodes - 1
EscapeIndices == 0 .. num_escape_vcs - 1
base_escape == num_total_vcs - num_escape_vcs

\* The program has ended with an error.
Rejected == <<>>
nullptr == <<>>

load_3d_routing_table(file) ==
  IF \A c \in Nodes, s \in Nodes, d \in Nodes : file[c][s][d] \in -1 .. n_nodes - 1
  THEN [k \in Nodes \X Nodes \X Nodes |-> file[k[3]][k[1]][k[2]]]
  ELSE Rejected

\* src_dst_vc_table_: the same index all along the way.
load_vc_matrix(file) ==
  IF \A s \in Nodes, d \in Nodes : file[s][d] \in EscapeIndices
  THEN [k \in Nodes \X Nodes \X Nodes |-> file[k[1]][k[2]]]
  ELSE Rejected

load_3d_vc_matrix(file) ==
  IF \A s \in Nodes, d \in Nodes, c \in Nodes : file[s][d][c] \in EscapeIndices
  THEN [k \in Nodes \X Nodes \X Nodes |-> file[k[1]][k[2]][k[3]]]
  ELSE Rejected

Key(line) == <<line[1], line[2], line[3]>>

\* A later tuple overwrites an earlier one.
load_tupled(lines, values) ==
  IF \A line \in Range(lines) : Key(line) \in Nodes \X Nodes \X Nodes /\ line[4] \in values
  THEN [k \in {Key(line) : line \in Range(lines)} |->
          LET last == CHOOSE i \in DOMAIN lines :
                        Key(lines[i]) = k /\ \A j \in DOMAIN lines : j > i => Key(lines[j]) # k
          IN lines[last][4]]
  ELSE Rejected

load_tupled_routing_table(lines) == load_tupled(lines, -1 .. n_nodes - 1)
load_tupled_vc_matrix(lines) == load_tupled(lines, EscapeIndices)

\* The map f with an entry for k, new or overwritten.
With(f, k, v) == [x \in DOMAIN f \cup {k} |-> IF x = k THEN v ELSE f[x]]

\* Mutant: the way back is not entered.
ConnectOneWay(adjacency, i, j, w) ==
  LET seen == <<i, j>> \in DOMAIN w.buf_conn_map
      ports == IF seen THEN w.buf_conn_map[<<i, j>>] ELSE <<w.next_buf_id[i], w.next_buf_id[j]>>
  IN IF adjacency[i][j] = 0 THEN w
     ELSE [buf_conn_map |-> With(w.buf_conn_map, <<i, j>>, ports),
           next_buf_id |-> IF seen THEN w.next_buf_id
                           ELSE [w.next_buf_id EXCEPT ![i] = @ + 1, ![j] = @ + 1],
           link_buffers |-> With(w.link_buffers, <<i, ports[1]>>, <<j, ports[2]>>)]

\* One round of connect_chiplets, for the entry in row i and column j: a new
\* link takes the next free port at both ends, the way back uses the same.
Connect(adjacency, i, j, w) ==
  LET seen == <<i, j>> \in DOMAIN w.buf_conn_map
      ports == IF seen THEN w.buf_conn_map[<<i, j>>] ELSE <<w.next_buf_id[i], w.next_buf_id[j]>>
  IN IF adjacency[i][j] = 0 THEN w
     ELSE [buf_conn_map |->
             With(With(w.buf_conn_map, <<i, j>>, ports), <<j, i>>, <<ports[2], ports[1]>>),
           next_buf_id |-> IF seen THEN w.next_buf_id
                           ELSE [w.next_buf_id EXCEPT ![i] = @ + 1, ![j] = @ + 1],
           link_buffers |-> With(w.link_buffers, <<i, ports[1]>>, <<j, ports[2]>>)]

connect_chiplets(adjacency) ==
  LET W[k \in 0 .. n_nodes * n_nodes] ==
        IF k = 0
        THEN [buf_conn_map |-> <<>>,
              next_buf_id |-> [n \in Nodes |-> 0],
              link_buffers |-> [p \in Nodes \X (0 .. Radix - 1) |-> nullptr]]
        ELSE Connect(adjacency, (k - 1) \div n_nodes, (k - 1) % n_nodes, W[k - 1])
  IN W[n_nodes * n_nodes]

\* Mutant: off by one.
prev_is_escapeAbove(prev) == Len(prev[1]) = 2 /\ prev[2] > base_escape

\* at_source: the head_trace has no buffer.
prev_is_escape(prev) == Len(prev[1]) = 2 /\ prev[2] >= base_escape

\* Mutant: always the first VC of the partition.
first_escape_vc(vc, key) == base_escape

\* The VC of the partition that the table names.
escape_vc(vc, key) == base_escape + vc[key]

\* Mutant: the ports of the way back are looked up.
NRL_routingBackwards(nrl, vc, wiring, s, d, prev) ==
  LET n == prev[1][1]
      key == <<s, d, n>>
      hop == <<nrl[key], n>>
      buffer == wiring.link_buffers[<<n, wiring.buf_conn_map[hop][1]>>]
      general == [i \in 1 .. base_escape |-> <<buffer, i - 1>>]
      escape == <<<<buffer, escape_vc(vc, key)>>>>
  IN IF key \notin DOMAIN nrl \/ key \notin DOMAIN vc THEN <<>>
     ELSE IF nrl[key] = -1 \/ hop \notin DOMAIN wiring.buf_conn_map THEN <<>>
     ELSE IF prev_is_escape(prev) THEN escape
     ELSE general \o escape

\* A packet in an escape VC may only take the escape VC that the table names;
\* any other packet may also take any general VC.  No candidates stand for the
\* end of the program: an entry is missing, or it names no linked node.
NRL_routing(nrl, vc, wiring, s, d, prev) ==
  LET n == prev[1][1]
      key == <<s, d, n>>
      hop == <<n, nrl[key]>>
      buffer == wiring.link_buffers[<<n, wiring.buf_conn_map[hop][1]>>]
      general == [i \in 1 .. base_escape |-> <<buffer, i - 1>>]
      escape == <<<<buffer, escape_vc(vc, key)>>>>
  IN IF key \notin DOMAIN nrl \/ key \notin DOMAIN vc THEN <<>>
     ELSE IF nrl[key] = -1 \/ hop \notin DOMAIN wiring.buf_conn_map THEN <<>>
     ELSE IF prev_is_escape(prev) THEN escape
     ELSE general \o escape
=============================================================================
