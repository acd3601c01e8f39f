-------------------------- MODULE Arbitrary_proofs --------------------------
(***************************************************************************)
(* For every adjacency matrix with links both ways and no more of them     *)
(* than ports, and for all tables that the loaders make: no port serves    *)
(* two links, candidates exist, and escape VCs are never left again.  If   *)
(* the tables lead on and the escape VCs have an order, packets are never  *)
(* without a candidate and never wait for each other in a circle, whatever *)
(* they do in the general VCs.                                             *)
(***************************************************************************)
EXTENDS ArbitraryProps, Lemmas

-----------------------------------------------------------------------------
(* The loaders return tables, whatever the files hold.                     *)

LEMMA DenseTables ==
  ASSUME NEW file
  PROVE  /\ IsTable(load_3d_routing_table(file), -1 .. n_nodes - 1)
         /\ IsTable(load_vc_matrix(file), EscapeIndices)
         /\ IsTable(load_3d_vc_matrix(file), EscapeIndices)
<1>1. ASSUME NEW k \in Flow PROVE k[1] \in Nodes /\ k[2] \in Nodes /\ k[3] \in Nodes
  BY <1>1 DEF Flow
<1>2. \A values : IsTable(Rejected, values)
  BY DEF IsTable, Rejected
<1>3. IsTable(load_3d_routing_table(file), -1 .. n_nodes - 1)
  BY <1>1, <1>2 DEF load_3d_routing_table, IsTable, Flow
<1>4. IsTable(load_vc_matrix(file), EscapeIndices)
  BY <1>1, <1>2 DEF load_vc_matrix, IsTable, Flow
<1>5. IsTable(load_3d_vc_matrix(file), EscapeIndices)
  BY <1>1, <1>2 DEF load_3d_vc_matrix, IsTable, Flow
<1> QED
  BY <1>3, <1>4, <1>5

LEMMA SparseTable ==
  ASSUME NEW S, NEW lines \in Seq(S), NEW values
  PROVE  IsTable(load_tupled(lines, values), values)
<1> DEFINE ok == \A line \in Range(lines) : Key(line) \in Flow /\ line[4] \in values
           keys == {Key(line) : line \in Range(lines)}
           Last(k, i) == Key(lines[i]) = k /\ \A j \in DOMAIN lines : j > i => Key(lines[j]) # k
<1>1. CASE ~ok
  BY <1>1 DEF load_tupled, Flow, IsTable, Rejected
<1>2. CASE ok
  <2>1. load_tupled(lines, values)
          = [k \in keys |-> LET last == CHOOSE i \in DOMAIN lines : Last(k, i) IN lines[last][4]]
    BY <1>2 DEF load_tupled, Flow
  <2>2. keys \subseteq Flow
    BY <1>2
  <2>3. DOMAIN lines = 1 .. Len(lines) /\ Len(lines) \in Nat
    BY LenProperties
  <2>4. ASSUME NEW k \in keys PROVE \E i \in DOMAIN lines : Last(k, i)
    <3> DEFINE After == {Len(lines) - i : i \in {j \in DOMAIN lines : Key(lines[j]) = k}}
    <3>1. After \in SUBSET Nat
      BY <2>3
    <3>2. After # {}
      BY DEF Range
    <3>3. PICK a \in After : \A b \in After : a <= b
      BY <3>1, <3>2, LeastElement
    <3>4. PICK i \in DOMAIN lines : Key(lines[i]) = k /\ a = Len(lines) - i
      OBVIOUS
    <3>5. ASSUME NEW j \in DOMAIN lines, j > i PROVE Key(lines[j]) # k
      <4>1. Key(lines[j]) = k => Len(lines) - j \in After
        OBVIOUS
      <4>2. Len(lines) - j \in After => a <= Len(lines) - j
        BY <3>3
      <4> HIDE DEF After
      <4> QED
        BY <2>3, <3>4, <3>5, <4>1, <4>2
    <3> QED
      BY <3>4, <3>5
  <2>5. ASSUME NEW k \in keys
        PROVE  lines[CHOOSE i \in DOMAIN lines : Last(k, i)][4] \in values
    <3> DEFINE last == CHOOSE i \in DOMAIN lines : Last(k, i)
    <3>1. last \in DOMAIN lines
      BY <2>4
    <3> HIDE DEF last
    <3>2. lines[last] \in Range(lines)
      BY <3>1 DEF Range
    <3>3. lines[last][4] \in values
      BY <1>2, <3>2
    <3> QED
      BY <3>3 DEF last
  <2> HIDE DEF keys, Last
  <2> QED
    BY <2>1, <2>2, <2>5 DEF IsTable
<1> QED
  BY <1>1, <1>2

-----------------------------------------------------------------------------
(* Ports.  The entries of the matrix are visited row by row.               *)

Pairs == Nodes \X Nodes
Back(e) == <<e[2], e[1]>>
Edges == {e \in Pairs : adjacency[e[1]][e[2]] # 0}
Total == n_nodes * n_nodes

\* Entries that the first k rounds have connected, and those that have ports.
Done(k) == {e \in Edges : e[1] * n_nodes + e[2] < k}
Known(k) == {e \in Edges : e \in Done(k) \/ Back(e) \in Done(k)}

Wirings ==
  [buf_conn_map : UNION {[K -> Nat \X Nat] : K \in SUBSET Pairs},
   next_buf_id : [Nodes -> Nat],
   link_buffers : UNION {[K -> (Nodes \X Nat) \cup {nullptr}] : K \in SUBSET (Nodes \X Nat)}]

Unwired ==
  [buf_conn_map |-> <<>>,
   next_buf_id |-> [n \in Nodes |-> 0],
   link_buffers |-> [p \in Nodes \X (0 .. Radix - 1) |-> nullptr]]

Port(w, e) == <<e[1], w.buf_conn_map[e][1]>>

\* What is so after k rounds.
Mapped(k, w) ==
  /\ DOMAIN w.buf_conn_map = Known(k)
  /\ \A e \in Known(k) :
       /\ w.buf_conn_map[e][1] < w.next_buf_id[e[1]]
       /\ w.buf_conn_map[Back(e)] = Back(w.buf_conn_map[e])
  /\ \A e \in Known(k), f \in Known(k) : Port(w, e) = Port(w, f) => e = f

Counted(k, w) ==
  \A i \in Nodes : w.next_buf_id[i] = Cardinality({j \in Nodes : <<i, j>> \in Known(k)})

Connected(k, w) ==
  /\ \A e \in Done(k) :
       Port(w, e) \in DOMAIN w.link_buffers /\ w.link_buffers[Port(w, e)] = Port(w, Back(e))
  /\ \A p \in DOMAIN w.link_buffers :
       w.link_buffers[p] # nullptr => \E e \in Done(k) : p = Port(w, e)

Wired(k, w) == w \in Wirings /\ Mapped(k, w) /\ Counted(k, w) /\ Connected(k, w)

LEMMA BackFacts ==
  /\ \A e \in Pairs : Back(e) \in Pairs /\ Back(Back(e)) = e
  /\ \A e \in Edges : Back(e) \in Edges /\ Back(e) # e
  /\ \A k : \A e \in Known(k) : Back(e) \in Known(k)
<1>1. \A e \in Pairs : Back(e) \in Pairs /\ Back(Back(e)) = e
  BY DEF Pairs, Back
<1>2. ASSUME NEW e \in Edges PROVE Back(e) \in Edges /\ Back(e) # e
  <2>1. e[1] \in Nodes /\ e[2] \in Nodes /\ e = <<e[1], e[2]>> /\ adjacency[e[1]][e[2]] # 0
    BY DEF Edges, Pairs
  <2>2. adjacency[e[2]][e[1]] # 0 /\ e[1] # e[2]
    BY <2>1, ArbitraryAssumption
  <2> QED
    BY <2>1, <2>2 DEF Edges, Pairs, Back
<1>3. ASSUME NEW k, NEW e \in Known(k) PROVE Back(e) \in Known(k)
  <2>1. e \in Edges /\ e \in Pairs /\ (e \in Done(k) \/ Back(e) \in Done(k))
    BY DEF Known, Edges
  <2>2. Back(e) \in Edges /\ Back(Back(e)) = e
    BY <1>1, <1>2, <2>1
  <2> QED
    BY <2>1, <2>2 DEF Known
<1> QED
  BY <1>1, <1>2, <1>3

\* The round k visits the entry in this row and column.
Entry(k) == <<k \div n_nodes, k % n_nodes>>

LEMMA EntryFacts ==
  ASSUME NEW k \in 0 .. Total - 1
  PROVE  /\ Entry(k) \in Pairs
         /\ \A e \in Pairs : e[1] * n_nodes + e[2] = k <=> e = Entry(k)
<1>1. k \in Nat /\ n_nodes \in Nat \ {0} /\ Total \in Nat
  BY ArbitraryAssumption DEF Total
<1> DEFINE i == k \div n_nodes
           j == k % n_nodes
<1>2. i \in Nat /\ j \in Nodes /\ k = i * n_nodes + j
  BY <1>1, Division DEF Nodes
<1>3. i \in Nodes
  <2>1. i < n_nodes
    <3>1. SUFFICES ASSUME i >= n_nodes PROVE FALSE
      BY <1>1, <1>2
    <3>2. i * n_nodes >= n_nodes * n_nodes
      <4> HIDE DEF i
      <4> QED
        BY <1>1, <1>2, <3>1
    <3>3. k < n_nodes * n_nodes
      BY <1>1 DEF Total
    <3>4. j >= 0 /\ i * n_nodes \in Nat /\ n_nodes * n_nodes \in Nat /\ j \in Nat
      BY <1>1, <1>2 DEF Nodes
    <3> HIDE DEF i, j
    <3> QED
      BY <1>1, <1>2, <3>2, <3>3, <3>4
  <2> QED
    BY <1>1, <1>2, <2>1 DEF Nodes
<1> HIDE DEF i, j
<1>4. ASSUME NEW e \in Pairs PROVE e[1] * n_nodes + e[2] = k <=> e = <<i, j>>
  <2>1. e[1] \in Nat /\ e[2] \in 0 .. n_nodes - 1 /\ e = <<e[1], e[2]>>
        /\ j \in 0 .. n_nodes - 1
    BY <1>1, <1>2 DEF Pairs, Nodes
  <2>2. ASSUME e[1] * n_nodes + e[2] = k PROVE e[1] = i /\ e[2] = j
    <3>1. e[1] * n_nodes + e[2] = i * n_nodes + j
      BY <1>2, <2>2
    <3> QED
      BY ONLY <1>1, <1>2, <2>1, <3>1, NumberOfMember
  <2> QED
    BY <1>2, <2>1, <2>2
<1> QED
  BY <1>2, <1>3, <1>4 DEF Entry, i, j, Pairs

LEMMA NextKnown ==
  ASSUME NEW k \in 0 .. Total - 1
  PROVE  /\ Entry(k) \notin Edges => Done(k + 1) = Done(k) /\ Known(k + 1) = Known(k)
         /\ Entry(k) \in Edges =>
              /\ Done(k + 1) = Done(k) \cup {Entry(k)}
              /\ Known(k + 1) = Known(k) \cup {Entry(k), Back(Entry(k))}
<1>1. ASSUME NEW e \in Edges PROVE e \in Done(k + 1) <=> e \in Done(k) \/ e = Entry(k)
  <2>1. e \in Pairs /\ e[1] \in Int /\ e[2] \in Int
    BY DEF Edges, Pairs, Nodes
  <2>2. n_nodes \in Nat /\ k \in Int
    BY ArbitraryAssumption
  <2> DEFINE m == e[1] * n_nodes + e[2]
  <2>3. m \in Int /\ (m = k <=> e = Entry(k))
    BY <2>1, <2>2, EntryFacts
  <2>4. (e \in Done(k) <=> m < k) /\ (e \in Done(k + 1) <=> m < k + 1)
    BY DEF Done
  <2> HIDE DEF m
  <2> QED
    BY <2>2, <2>3, <2>4
<1>2. Done(k) \subseteq Edges /\ Done(k + 1) \subseteq Edges
  BY DEF Done
<1>3. ASSUME NEW e \in Edges
      PROVE  e \in Known(k + 1) <=> e \in Known(k) \/ e = Entry(k) \/ Back(e) = Entry(k)
  BY <1>1, BackFacts DEF Known
<1>4. Known(k) \subseteq Edges /\ Known(k + 1) \subseteq Edges
  BY DEF Known
<1>5. ASSUME Entry(k) \notin Edges PROVE Done(k + 1) = Done(k) /\ Known(k + 1) = Known(k)
  <2>1. \A e \in Edges : e # Entry(k) /\ Back(e) # Entry(k)
    BY <1>5, BackFacts
  <2> QED
    BY <1>1, <1>2, <1>3, <1>4, <2>1
<1>6. ASSUME Entry(k) \in Edges
      PROVE  /\ Done(k + 1) = Done(k) \cup {Entry(k)}
             /\ Known(k + 1) = Known(k) \cup {Entry(k), Back(Entry(k))}
  <2>1. Back(Entry(k)) \in Edges
    BY <1>6, BackFacts
  <2>2. \A e \in Edges : Back(e) = Entry(k) <=> e = Back(Entry(k))
    <3>1. Edges \subseteq Pairs
      BY DEF Edges
    <3> QED
      BY <1>6, <3>1, BackFacts
  <2> QED
    BY <1>1, <1>2, <1>3, <1>4, <1>6, <2>1, <2>2
<1> QED
  BY <1>5, <1>6

LEMMA WiringTypes ==
  ASSUME NEW w \in Wirings
  PROVE  /\ DOMAIN w.buf_conn_map \subseteq Pairs
         /\ w.buf_conn_map = [e \in DOMAIN w.buf_conn_map |-> w.buf_conn_map[e]]
         /\ \A e \in DOMAIN w.buf_conn_map : w.buf_conn_map[e] \in Nat \X Nat
         /\ w.next_buf_id \in [Nodes -> Nat]
         /\ DOMAIN w.link_buffers \subseteq Nodes \X Nat
         /\ w.link_buffers = [p \in DOMAIN w.link_buffers |-> w.link_buffers[p]]
         /\ \A p \in DOMAIN w.link_buffers :
              w.link_buffers[p] \in (Nodes \X Nat) \cup {nullptr}
<1>1. PICK K \in SUBSET Pairs : w.buf_conn_map \in [K -> Nat \X Nat]
  BY DEF Wirings
<1>2. PICK L \in SUBSET (Nodes \X Nat) :
        w.link_buffers \in [L -> (Nodes \X Nat) \cup {nullptr}]
  BY DEF Wirings
<1>3. w.next_buf_id \in [Nodes -> Nat]
  BY DEF Wirings
<1> QED
  BY <1>1, <1>2, <1>3

\* How Connect leaves the map of ports and the next free ports, for a link that
\* has ports already and for a new one.
Ports(w, e) ==
  IF e \in DOMAIN w.buf_conn_map THEN w.buf_conn_map[e]
  ELSE <<w.next_buf_id[e[1]], w.next_buf_id[e[2]]>>

LEMMA ConnectFacts ==
  ASSUME NEW e \in Edges, NEW w \in Wirings
  PROVE  LET v == Connect(adjacency, e[1], e[2], w)
         IN /\ v.buf_conn_map
                 = With(With(w.buf_conn_map, e, Ports(w, e)), Back(e), Back(Ports(w, e)))
            /\ e \in DOMAIN w.buf_conn_map => v.next_buf_id = w.next_buf_id
            /\ e \notin DOMAIN w.buf_conn_map =>
                 v.next_buf_id
                   = [w.next_buf_id EXCEPT ![e[1]] = @ + 1, ![e[2]] = @ + 1]
            /\ v.link_buffers
                 = With(w.link_buffers, <<e[1], Ports(w, e)[1]>>, <<e[2], Ports(w, e)[2]>>)
            /\ v = [buf_conn_map |-> v.buf_conn_map, next_buf_id |-> v.next_buf_id,
                    link_buffers |-> v.link_buffers]
<1>1. e = <<e[1], e[2]>> /\ adjacency[e[1]][e[2]] # 0
  BY DEF Edges, Pairs
<1> QED
  BY <1>1 DEF Connect, Ports, Back

\* After a link is connected it has ports both ways, and no other link has got
\* different ones.
Kept(k, w, v) ==
  LET e == Entry(k)
      m == v.buf_conn_map
  IN /\ Ports(w, e) \in Nat \X Nat
     /\ DOMAIN m = Known(k + 1)
     /\ m = [f \in Known(k + 1) |-> m[f]]
     /\ m[e] = Ports(w, e) /\ m[Back(e)] = Back(Ports(w, e))
     /\ \A f \in Known(k) : m[f] = w.buf_conn_map[f]

LEMMA PortsKept ==
  ASSUME NEW k \in 0 .. Total - 1, NEW w, Wired(k, w), Entry(k) \in Edges,
         NEW v, v = Connect(adjacency, Entry(k)[1], Entry(k)[2], w)
  PROVE  Kept(k, w, v)
<1> DEFINE e == Entry(k)
           m == v.buf_conn_map
           old == w.buf_conn_map
           ps == Ports(w, e)
           half == With(old, e, ps)
<1>1. w \in Wirings /\ DOMAIN old = Known(k) /\ Mapped(k, w)
  BY DEF Wired, Mapped
<1>2. e \in Edges /\ e \in Pairs /\ e[1] \in Nodes /\ e[2] \in Nodes /\ Back(e) # e
  BY BackFacts DEF Edges, Pairs
<1>3. Known(k + 1) = Known(k) \cup {e, Back(e)}
  BY NextKnown
<1>4. ps \in Nat \X Nat
  BY <1>1, <1>2, WiringTypes DEF Ports
<1>5. m = With(half, Back(e), Back(ps))
  BY <1>1, <1>2, ConnectFacts
<1> HIDE DEF e, m, old, ps
<1>6. /\ DOMAIN half = DOMAIN old \cup {e} /\ half[e] = ps
      /\ \A f \in DOMAIN old : f # e => half[f] = old[f]
  BY DEF With
<1> HIDE DEF half
<1>7. /\ DOMAIN m = DOMAIN half \cup {Back(e)} /\ m[Back(e)] = Back(ps)
      /\ \A f \in DOMAIN half : f # Back(e) => m[f] = half[f]
      /\ m = [f \in DOMAIN half \cup {Back(e)} |-> m[f]]
  BY <1>5 DEF With
<1>8. DOMAIN half \cup {Back(e)} = Known(k + 1)
  BY <1>1, <1>3, <1>6
<1>9. m[e] = ps
  BY <1>2, <1>6, <1>7
<1>10. ASSUME NEW f \in Known(k) PROVE m[f] = old[f]
  <2>1. CASE f = e
    BY <1>1, <1>9, <2>1 DEF Ports, ps, old
  <2>2. CASE f = Back(e)
    <3>1. e \in Known(k) /\ Back(Back(e)) = e
      BY <1>2, <2>2, BackFacts
    <3>2. ps = old[e]
      BY <1>1, <3>1 DEF Ports, ps, old
    <3>3. old[Back(e)] = Back(old[e])
      BY <1>1, <3>1 DEF Mapped, old
    <3> QED
      BY <1>7, <2>2, <3>2, <3>3
  <2>3. CASE f # e /\ f # Back(e)
    BY <1>1, <1>6, <1>7, <2>3
  <2> QED
    BY <2>1, <2>2, <2>3
<1> QED
  BY <1>4, <1>7, <1>8, <1>9, <1>10 DEF e, m, old, ps, Kept

\* The next free ports count up for a new link, at both of its ends.
LEMMA PortsCounted ==
  ASSUME NEW k \in 0 .. Total - 1, NEW w, Wired(k, w), Entry(k) \in Edges,
         NEW v, v = Connect(adjacency, Entry(k)[1], Entry(k)[2], w)
  PROVE  LET e == Entry(k)
         IN /\ v.next_buf_id \in [Nodes -> Nat]
            /\ e \in Known(k) => v.next_buf_id = w.next_buf_id
            /\ e \notin Known(k) =>
                 \A i \in Nodes : v.next_buf_id[i]
                                    = IF i \in {e[1], e[2]} THEN w.next_buf_id[i] + 1
                                      ELSE w.next_buf_id[i]
<1> DEFINE e == Entry(k)
<1>1. w \in Wirings /\ DOMAIN w.buf_conn_map = Known(k) /\ w.next_buf_id \in [Nodes -> Nat]
  BY WiringTypes DEF Wired, Mapped
<1>2. e \in Edges /\ e[1] \in Nodes /\ e[2] \in Nodes /\ e[1] # e[2]
  <2>1. e \in Edges /\ e[1] \in Nodes /\ e[2] \in Nodes /\ Back(e) # e /\ e = <<e[1], e[2]>>
    BY BackFacts DEF Edges, Pairs
  <2> QED
    BY <2>1 DEF Back
<1>3. /\ e \in Known(k) => v.next_buf_id = w.next_buf_id
      /\ e \notin Known(k) =>
           v.next_buf_id = [w.next_buf_id EXCEPT ![e[1]] = @ + 1, ![e[2]] = @ + 1]
  BY <1>1, <1>2, ConnectFacts
<1> HIDE DEF e
<1> QED
  BY <1>1, <1>2, <1>3 DEF e

LEMMA NextMapped ==
  ASSUME NEW k \in 0 .. Total - 1, NEW w, Wired(k, w), Entry(k) \in Edges,
         NEW v, v = Connect(adjacency, Entry(k)[1], Entry(k)[2], w)
  PROVE  Mapped(k + 1, v)
<1> DEFINE e == Entry(k)
           m == v.buf_conn_map
           old == w.buf_conn_map
<1>1. /\ DOMAIN old = Known(k)
      /\ \A f \in Known(k) : old[f][1] < w.next_buf_id[f[1]] /\ old[Back(f)] = Back(old[f])
      /\ \A f \in Known(k), g \in Known(k) : Port(w, f) = Port(w, g) => f = g
  BY DEF Wired, Mapped
<1>2. /\ e \in Edges /\ e \in Pairs /\ e[1] \in Nodes /\ e[2] \in Nodes
      /\ Back(e) # e /\ e = <<e[1], e[2]>> /\ Back(Back(e)) = e
  BY BackFacts DEF Edges, Pairs
<1>3. Known(k + 1) = Known(k) \cup {e, Back(e)}
  BY NextKnown
<1>4. /\ DOMAIN m = Known(k + 1) /\ m[e] = Ports(w, e) /\ m[Back(e)] = Back(Ports(w, e))
      /\ \A f \in Known(k) : m[f] = old[f]
  <2>1. Kept(k, w, v)
    BY PortsKept
  <2> QED
    BY <2>1 DEF Kept
<1>5. \A f \in Known(k) : Back(f) \in Known(k) /\ f[1] \in Nodes /\ old[f] \in Nat \X Nat
  BY <1>1, BackFacts, WiringTypes DEF Known, Edges, Pairs, Wired
<1>6. CASE e \in Known(k)
  <2>1. Known(k + 1) = Known(k)
    BY <1>3, <1>5, <1>6
  <2>2. v.next_buf_id = w.next_buf_id
    BY <1>6, PortsCounted
  <2>3. \A f \in Known(k) : Port(v, f) = Port(w, f)
    BY <1>4 DEF Port
  <2> QED
    BY <1>1, <1>4, <1>5, <2>1, <2>2, <2>3 DEF Mapped
<1>7. CASE e \notin Known(k)
  <2> DEFINE next == w.next_buf_id
             ps == Ports(w, e)
  <2>1. Back(e) \notin Known(k)
    BY <1>2, <1>5, <1>7
  <2>2. ps = <<next[e[1]], next[e[2]]>> /\ next \in [Nodes -> Nat]
    BY <1>1, <1>7, WiringTypes DEF Ports, Wired
  <2>3. /\ v.next_buf_id \in [Nodes -> Nat]
        /\ \A i \in Nodes : v.next_buf_id[i] = IF i \in {e[1], e[2]} THEN next[i] + 1 ELSE next[i]
    BY <1>7, PortsCounted
  <2>4. m[e] = <<next[e[1]], next[e[2]]>> /\ m[Back(e)] = <<next[e[2]], next[e[1]]>>
    BY <1>4, <2>2 DEF Back
  <2>5. Back(e)[1] = e[2] /\ e[1] # e[2]
    BY <1>2 DEF Back
  <2> HIDE DEF e, m, old, next, ps
  <2>6. ASSUME NEW f \in Known(k + 1)
        PROVE  m[f][1] < v.next_buf_id[f[1]] /\ m[Back(f)] = Back(m[f])
    <3>1. CASE f = e
      BY <1>2, <2>2, <2>3, <2>4, <3>1 DEF Back
    <3>2. CASE f = Back(e)
      BY <1>2, <2>2, <2>3, <2>4, <2>5, <3>2 DEF Back
    <3>3. CASE f \in Known(k)
      <4>1. m[f] = old[f] /\ m[Back(f)] = old[Back(f)] /\ old[f][1] \in Nat
        BY <1>4, <1>5, <3>3
      <4>2. m[f][1] < next[f[1]] /\ m[Back(f)] = Back(m[f])
        BY <1>1, <3>3, <4>1 DEF next
      <4> QED
        BY <1>5, <2>2, <2>3, <3>3, <4>1, <4>2
    <3> QED
      BY <1>3, <3>1, <3>2, <3>3
  <2>7. \A f \in Known(k) : m[f][1] < next[f[1]] /\ m[f][1] \in Nat /\ f[1] \in Nodes
    BY <1>1, <1>4, <1>5 DEF next, old
  <2>8. ASSUME NEW f \in Known(k + 1), NEW g \in Known(k + 1), f[1] = g[1], m[f][1] = m[g][1]
        PROVE  f = g
    <3>1. f \in Known(k) \cup {e, Back(e)} /\ g \in Known(k) \cup {e, Back(e)}
      BY <1>3
    <3>2. CASE f \in Known(k) /\ g \in Known(k)
      <4>1. Port(w, f) = Port(w, g)
        BY <1>4, <2>8, <3>2 DEF Port, old
      <4> QED
        BY <1>1, <3>2, <4>1
    <3>3. CASE f \in Known(k) /\ g \notin Known(k)
      BY <2>2, <2>4, <2>5, <2>7, <2>8, <3>1, <3>3
    <3>4. CASE f \notin Known(k) /\ g \in Known(k)
      BY <2>2, <2>4, <2>5, <2>7, <2>8, <3>1, <3>4
    <3>5. CASE f \notin Known(k) /\ g \notin Known(k)
      BY <2>5, <2>8, <3>1, <3>5
    <3> QED
      BY <3>2, <3>3, <3>4, <3>5
  <2>9. \A f \in Known(k + 1), g \in Known(k + 1) : Port(v, f) = Port(v, g) => f = g
    BY <2>8 DEF Port, m
  <2> QED
    BY <1>4, <2>6, <2>9 DEF Mapped, m
<1> QED
  BY <1>6, <1>7

\* Ends of the links at a node that have ports.
Ends(k, i) == {j \in Nodes : <<i, j>> \in Known(k)}

LEMMA EndsFinite ==
  ASSUME NEW k, NEW i
  PROVE  IsFiniteSet(Ends(k, i)) /\ Cardinality(Ends(k, i)) \in Nat
<1>1. IsFiniteSet(Nodes)
  BY ArbitraryAssumption, FS_Interval DEF Nodes
<1>2. Ends(k, i) \in SUBSET Nodes
  BY DEF Ends
<1> QED
  BY <1>1, <1>2, FS_Subset, FS_CardinalityType

LEMMA NextCounted ==
  ASSUME NEW k \in 0 .. Total - 1, NEW w, Wired(k, w), Entry(k) \in Edges,
         NEW v, v = Connect(adjacency, Entry(k)[1], Entry(k)[2], w)
  PROVE  Counted(k + 1, v)
<1> DEFINE e == Entry(k)
<1>1. e \in Edges /\ e[1] \in Nodes /\ e[2] \in Nodes /\ e = <<e[1], e[2]>> /\ Back(e) # e
  BY BackFacts DEF Edges, Pairs
<1>2. Known(k + 1) = Known(k) \cup {e, Back(e)}
  BY NextKnown
<1>3. /\ e \in Known(k) => v.next_buf_id = w.next_buf_id
      /\ e \notin Known(k) =>
           \A i \in Nodes : v.next_buf_id[i] = IF i \in {e[1], e[2]} THEN w.next_buf_id[i] + 1
                                               ELSE w.next_buf_id[i]
  BY PortsCounted
<1>4. \A i \in Nodes : w.next_buf_id[i] = Cardinality(Ends(k, i))
  BY DEF Wired, Counted, Ends
<1>5. e \in Known(k) <=> Back(e) \in Known(k)
  <2>1. e \in Pairs
    BY <1>1 DEF Pairs
  <2> QED
    BY <2>1, BackFacts
<1>6. e[1] # e[2]
  BY <1>1 DEF Back
<1> HIDE DEF e
<1>7. ASSUME NEW i \in Nodes PROVE v.next_buf_id[i] = Cardinality(Ends(k + 1, i))
  <2>1. CASE e \in Known(k)
    <3>1. Ends(k + 1, i) = Ends(k, i)
      BY <1>2, <1>5, <2>1 DEF Ends
    <3> QED
      BY <1>3, <1>4, <2>1, <3>1
  <2>2. CASE e \notin Known(k) /\ i \notin {e[1], e[2]}
    <3>1. \A j \in Nodes : <<i, j>> # e /\ <<i, j>> # Back(e)
      BY <1>1, <2>2 DEF Back
    <3>2. Ends(k + 1, i) = Ends(k, i)
      BY <1>2, <3>1 DEF Ends
    <3> QED
      BY <1>3, <1>4, <2>2, <3>2
  <2>3. ASSUME NEW j \in Nodes, e \notin Known(k), i \in {e[1], e[2]},
               <<i, j>> \notin Known(k),
               \A h \in Nodes : <<i, h>> \in {e, Back(e)} <=> h = j
        PROVE  v.next_buf_id[i] = Cardinality(Ends(k + 1, i))
    <3>1. Ends(k + 1, i) = Ends(k, i) \cup {j} /\ j \notin Ends(k, i)
      BY <1>2, <2>3 DEF Ends
    <3>2. Cardinality(Ends(k + 1, i)) = Cardinality(Ends(k, i)) + 1
      BY <3>1, EndsFinite, FS_AddElement
    <3> QED
      BY <1>3, <1>4, <2>3, <3>2
  <2>4. CASE e \notin Known(k) /\ i = e[1]
    <3>1. \A h \in Nodes : <<i, h>> \in {e, Back(e)} <=> h = e[2]
      BY <1>1, <1>6, <2>4 DEF Back
    <3>2. <<i, e[2]>> \notin Known(k)
      BY <1>1, <2>4
    <3> QED
      BY <1>1, <2>3, <2>4, <3>1, <3>2
  <2>5. CASE e \notin Known(k) /\ i = e[2]
    <3>1. \A h \in Nodes : <<i, h>> \in {e, Back(e)} <=> h = e[1]
      BY <1>1, <1>6, <2>5 DEF Back
    <3>2. <<i, e[1]>> \notin Known(k)
      BY <1>5, <2>5 DEF Back
    <3> QED
      BY <1>1, <2>3, <2>5, <3>1, <3>2
  <2> QED
    BY <2>1, <2>2, <2>4, <2>5
<1> QED
  BY <1>7 DEF Counted, Ends

LEMMA NextConnected ==
  ASSUME NEW k \in 0 .. Total - 1, NEW w, Wired(k, w), Entry(k) \in Edges,
         NEW v, v = Connect(adjacency, Entry(k)[1], Entry(k)[2], w)
  PROVE  Connected(k + 1, v)
<1> DEFINE e == Entry(k)
           links == w.link_buffers
           after == v.link_buffers
<1>1. e \in Edges /\ e[1] \in Nodes /\ e[2] \in Nodes
  BY DEF Edges, Pairs
<1>2. Done(k + 1) = Done(k) \cup {e} /\ Known(k + 1) = Known(k) \cup {e, Back(e)}
  BY NextKnown
<1>3. Kept(k, w, v) /\ Mapped(k + 1, v)
  BY PortsKept, NextMapped
<1>4. Port(v, e) = <<e[1], Ports(w, e)[1]>> /\ Port(v, Back(e)) = <<e[2], Ports(w, e)[2]>>
  BY <1>3 DEF Kept, Port, Back
<1>5. after = With(links, Port(v, e), Port(v, Back(e)))
  BY <1>1, <1>4, ConnectFacts DEF Wired
<1>6. \A f \in Known(k) : Port(v, f) = Port(w, f)
  BY <1>3 DEF Kept, Port
<1>7. \A f \in Done(k) : f \in Known(k) /\ Back(f) \in Known(k)
  BY BackFacts DEF Known, Done
<1>8. /\ \A f \in Done(k) : Port(w, f) \in DOMAIN links /\ links[Port(w, f)] = Port(w, Back(f))
      /\ \A p \in DOMAIN links : links[p] # nullptr => \E f \in Done(k) : p = Port(w, f)
  BY DEF Wired, Connected
<1>9. \A f \in Known(k + 1), g \in Known(k + 1) : Port(v, f) = Port(v, g) => f = g
  BY <1>3 DEF Mapped
<1> HIDE DEF e, links, after
<1>10. /\ DOMAIN after = DOMAIN links \cup {Port(v, e)} /\ after[Port(v, e)] = Port(v, Back(e))
       /\ \A p \in DOMAIN links : p # Port(v, e) => after[p] = links[p]
  BY <1>5 DEF With
<1>11. ASSUME NEW f \in Done(k + 1)
       PROVE  Port(v, f) \in DOMAIN after /\ after[Port(v, f)] = Port(v, Back(f))
  <2>1. CASE f = e
    BY <1>10, <2>1
  <2>2. CASE f # e
    <3>1. f \in Done(k) /\ f \in Known(k) /\ Back(f) \in Known(k)
      BY <1>2, <1>7, <2>2
    <3>2. Port(v, f) # Port(v, e)
      BY <1>2, <1>9, <2>2, <3>1
    <3> QED
      BY <1>6, <1>8, <1>10, <3>1, <3>2
  <2> QED
    BY <2>1, <2>2
<1>12. ASSUME NEW p \in DOMAIN after, after[p] # nullptr
       PROVE  \E f \in Done(k + 1) : p = Port(v, f)
  <2>1. CASE p = Port(v, e)
    BY <1>2, <2>1
  <2>2. CASE p # Port(v, e)
    <3>1. PICK f \in Done(k) : p = Port(w, f)
      BY <1>8, <1>10, <1>12, <2>2
    <3> QED
      BY <1>2, <1>6, <1>7, <3>1
  <2> QED
    BY <2>1, <2>2
<1> QED
  BY <1>11, <1>12 DEF Connected, after

LEMMA NextType ==
  ASSUME NEW k \in 0 .. Total - 1, NEW w, Wired(k, w), Entry(k) \in Edges,
         NEW v, v = Connect(adjacency, Entry(k)[1], Entry(k)[2], w)
  PROVE  v \in Wirings
<1> DEFINE e == Entry(k)
           m == v.buf_conn_map
           ps == Ports(w, e)
           links == w.link_buffers
           after == v.link_buffers
<1>1. w \in Wirings /\ DOMAIN w.buf_conn_map = Known(k)
  BY DEF Wired, Mapped
<1>2. e \in Edges /\ e[1] \in Nodes /\ e[2] \in Nodes
  BY DEF Edges, Pairs
<1>3. /\ ps \in Nat \X Nat /\ m = [f \in Known(k + 1) |-> m[f]]
      /\ m[e] = ps /\ m[Back(e)] = Back(ps) /\ \A f \in Known(k) : m[f] = w.buf_conn_map[f]
  <2>1. Kept(k, w, v)
    BY PortsKept
  <2> QED
    BY <2>1 DEF Kept
<1>4. Known(k + 1) = Known(k) \cup {e, Back(e)} /\ Known(k + 1) \in SUBSET Pairs
  BY NextKnown DEF Known, Edges
<1>5. after = With(links, <<e[1], ps[1]>>, <<e[2], ps[2]>>)
      /\ v = [buf_conn_map |-> m, next_buf_id |-> v.next_buf_id, link_buffers |-> after]
  BY <1>1, <1>2, ConnectFacts
<1>6. \A f \in Known(k) : w.buf_conn_map[f] \in Nat \X Nat
  BY <1>1, WiringTypes
<1>7. v.next_buf_id \in [Nodes -> Nat]
  BY PortsCounted
<1>8. /\ DOMAIN links \subseteq Nodes \X Nat
      /\ \A p \in DOMAIN links : links[p] \in (Nodes \X Nat) \cup {nullptr}
  BY <1>1, WiringTypes
<1> HIDE DEF e, m, ps, links, after
<1>9. m \in [Known(k + 1) -> Nat \X Nat]
  <2>1. Back(ps) \in Nat \X Nat
    BY <1>3 DEF Back
  <2>2. \A f \in Known(k + 1) : m[f] \in Nat \X Nat
    BY <1>3, <1>4, <1>6, <2>1
  <2> QED
    BY <1>3, <2>2
<1> DEFINE L == DOMAIN links \cup {<<e[1], ps[1]>>}
<1>10. L \in SUBSET (Nodes \X Nat)
  BY <1>2, <1>3, <1>8
<1>11. after \in [L -> (Nodes \X Nat) \cup {nullptr}]
  BY <1>2, <1>3, <1>5, <1>8 DEF With
<1> HIDE DEF L
<1> QED
  BY <1>4, <1>5, <1>7, <1>9, <1>10, <1>11 DEF Wirings

LEMMA NextWired ==
  ASSUME NEW k \in 0 .. Total - 1, NEW w, Wired(k, w)
  PROVE  Wired(k + 1, Connect(adjacency, Entry(k)[1], Entry(k)[2], w))
<1> DEFINE v == Connect(adjacency, Entry(k)[1], Entry(k)[2], w)
<1>1. CASE Entry(k) \in Edges
  <2>1. v \in Wirings
    BY <1>1, NextType
  <2>2. Mapped(k + 1, v)
    BY <1>1, NextMapped
  <2>3. Counted(k + 1, v)
    BY <1>1, NextCounted
  <2>4. Connected(k + 1, v)
    BY <1>1, NextConnected
  <2> QED
    BY <2>1, <2>2, <2>3, <2>4 DEF Wired
<1>2. CASE Entry(k) \notin Edges
  <2>1. v = w
    BY <1>2, EntryFacts DEF Edges, Connect
  <2>2. Done(k + 1) = Done(k) /\ Known(k + 1) = Known(k)
    BY <1>2, NextKnown
  <2> QED
    BY <2>1, <2>2 DEF Wired, Mapped, Counted, Connected
<1> QED
  BY <1>1, <1>2

LEMMA FirstWired == Wired(0, Unwired)
<1>1. Done(0) = {} /\ Known(0) = {}
  <2>1. ASSUME NEW e \in Edges PROVE e \notin Done(0)
    <3>1. e[1] \in Nat /\ e[2] \in Nat /\ n_nodes \in Nat
      BY ArbitraryAssumption DEF Edges, Pairs, Nodes
    <3>2. ~(e[1] * n_nodes + e[2] < 0)
      BY <3>1
    <3> QED
      BY <3>2 DEF Done
  <2> QED
    BY <2>1, BackFacts DEF Done, Known
<1>2. \A i \in Nodes : {j \in Nodes : <<i, j>> \in Known(0)} = {}
  BY <1>1
<1>3. DOMAIN Unwired.buf_conn_map = {} /\ Unwired.buf_conn_map \in [{} -> Nat \X Nat]
  BY DEF Unwired
<1> DEFINE all == Nodes \X (0 .. Radix - 1)
<1>4. all \in SUBSET (Nodes \X Nat) /\ Unwired.link_buffers \in [all -> (Nodes \X Nat) \cup {nullptr}]
  BY ArbitraryAssumption DEF Unwired
<1>5. Unwired \in Wirings
  <2>1. {} \in SUBSET Pairs /\ Unwired.next_buf_id \in [Nodes -> Nat]
    BY DEF Unwired
  <2>2. Unwired = [buf_conn_map |-> Unwired.buf_conn_map, next_buf_id |-> Unwired.next_buf_id,
                   link_buffers |-> Unwired.link_buffers]
    BY DEF Unwired
  <2> HIDE DEF all
  <2> QED
    BY <1>3, <1>4, <2>1, <2>2 DEF Wirings
<1>6. Mapped(0, Unwired)
  BY <1>1, <1>3 DEF Mapped
<1>7. Counted(0, Unwired)
  BY <1>2, FS_EmptySet DEF Counted, Unwired
<1>8. Connected(0, Unwired)
  BY <1>1 DEF Connected, Unwired
<1> QED
  BY <1>5, <1>6, <1>7, <1>8 DEF Wired

\* One round after the other.
Round(k, w) == Connect(adjacency, Entry(k)[1], Entry(k)[2], w)
Rounds(W) ==
  W = [k \in 0 .. Total |-> IF k = 0 THEN Unwired ELSE Round(k - 1, W[k - 1])]

LEMMA RoundsExist == \E W : Rounds(W)
<1> DEFINE T == {p \in (0 .. Total) \X Wirings : Wired(p[1], p[2])}
           Goes(p) == IF p[1] < Total THEN <<p[1] + 1, Round(p[1], p[2])>> ELSE p
           step == [p \in T |-> Goes(p)]
           first == <<0, Unwired>>
<1>1. Total \in Nat
  BY ArbitraryAssumption DEF Total
<1>2. first \in T
  BY <1>1, FirstWired DEF Wired
<1>3. ASSUME NEW p \in T PROVE Goes(p) \in T
  <2>1. CASE p[1] < Total
    <3>1. p[1] \in 0 .. Total - 1 /\ p[1] + 1 \in 0 .. Total
      BY <1>1, <2>1
    <3>2. Wired(p[1] + 1, Round(p[1], p[2]))
      BY <3>1, NextWired DEF Round
    <3> QED
      BY <2>1, <3>1, <3>2 DEF Wired
  <2>2. CASE ~(p[1] < Total)
    BY <2>2
  <2> QED
    BY <2>1, <2>2
<1> HIDE DEF T, Goes, first
<1>4. step \in [T -> T]
  BY <1>3
<1>5. PICK f \in [Nat -> T] : Iterates(f, first, step)
  <2> HIDE DEF step
  <2> QED
    BY <1>2, <1>4, IterationExists
<1>6. f[0] = first /\ \A i \in Nat : f[i + 1] = Goes(f[i])
  <2>1. \A i \in Nat : f[i] = IF i = 0 THEN first ELSE step[f[i - 1]]
    <3> HIDE DEF step
    <3> QED
      BY <1>5 DEF Iterates
  <2>2. \A i \in Nat : i + 1 \in Nat /\ i + 1 # 0 /\ (i + 1) - 1 = i /\ f[i] \in T
    OBVIOUS
  <2> QED
    BY <2>1, <2>2
<1> DEFINE Good == {i \in Nat : i <= Total => f[i][1] = i}
<1>7. 0 \in Good
  BY <1>6 DEF first
<1>8. ASSUME NEW i \in Nat, i \in Good PROVE i + 1 \in Good
  <2>1. SUFFICES ASSUME i + 1 <= Total PROVE f[i + 1][1] = i + 1
    OBVIOUS
  <2>2. i < Total /\ i <= Total
    BY <1>1, <2>1
  <2>3. f[i][1] = i
    BY <1>8, <2>2
  <2>4. f[i + 1] = Goes(f[i])
    BY <1>6
  <2>5. Goes(f[i]) = <<i + 1, Round(i, f[i][2])>>
    BY <2>2, <2>3 DEF Goes
  <2> QED
    BY <2>4, <2>5
<1>9. Nat \subseteq Good
  <2> HIDE DEF Good
  <2> QED
    BY <1>7, <1>8, NatInductionOnSets
<1> DEFINE W == [k \in 0 .. Total |-> f[k][2]]
<1>10. ASSUME NEW k \in 0 .. Total
       PROVE  W[k] = IF k = 0 THEN Unwired ELSE Round(k - 1, W[k - 1])
  <2>1. CASE k = 0
    BY <1>1, <1>6, <2>1 DEF first
  <2>2. CASE k # 0
    <3>1. k - 1 \in Nat /\ k - 1 \in 0 .. Total /\ k - 1 < Total /\ (k - 1) + 1 = k
      BY <1>1, <2>2
    <3>2. f[k - 1][1] = k - 1
      BY <1>9, <3>1
    <3>3. f[k] = Goes(f[k - 1])
      BY <1>6, <3>1
    <3>4. f[k][2] = Round(k - 1, f[k - 1][2])
      BY <3>1, <3>2, <3>3 DEF Goes
    <3> QED
      BY <2>2, <3>1, <3>4
  <2> QED
    BY <2>1, <2>2
<1>11. Rounds(W)
  <2>1. W = [k \in 0 .. Total |-> W[k]]
    OBVIOUS
  <2> HIDE DEF W
  <2> QED
    BY <1>10, <2>1 DEF Rounds
<1> QED
  BY <1>11

LEMMA AllWired == Wired(Total, Wiring)
<1> DEFINE Body(f) == [k \in 0 .. n_nodes * n_nodes |->
                         IF k = 0 THEN Unwired
                         ELSE Connect(adjacency, (k - 1) \div n_nodes, (k - 1) % n_nodes, f[k - 1])]
           W == CHOOSE f : f = Body(f)
<1>1. Total \in Nat
  BY ArbitraryAssumption DEF Total
<1>2. \E f : f = Body(f)
  BY RoundsExist DEF Rounds, Round, Entry, Total
<1>3. W = Body(W)
  <2> HIDE DEF Body
  <2> QED
    BY <1>2
<1>4. Wiring = W[Total]
  BY DEF Wiring, connect_chiplets, Unwired, Total
<1> HIDE DEF W
<1>5. Rounds(W)
  BY <1>3 DEF Rounds, Round, Entry, Total
<1> DEFINE Good == {i \in Nat : i <= Total => Wired(i, W[i])}
<1>6. W[0] = Unwired /\ \A k \in 0 .. Total - 1 : W[k + 1] = Round(k, W[k])
  <2>1. \A k \in 0 .. Total : W[k] = IF k = 0 THEN Unwired ELSE Round(k - 1, W[k - 1])
    BY <1>5 DEF Rounds
  <2>2. \A k \in 0 .. Total - 1 : k + 1 \in 0 .. Total /\ k + 1 # 0 /\ (k + 1) - 1 = k
    BY <1>1
  <2> QED
    BY <1>1, <2>1, <2>2
<1>7. 0 \in Good
  BY <1>6, FirstWired
<1>8. ASSUME NEW i \in Nat, i \in Good PROVE i + 1 \in Good
  <2>1. SUFFICES ASSUME i + 1 <= Total PROVE Wired(i + 1, W[i + 1])
    OBVIOUS
  <2>2. i \in 0 .. Total - 1 /\ i <= Total
    BY <1>1, <2>1
  <2>3. Wired(i, W[i])
    BY <1>8, <2>2
  <2> QED
    BY <1>6, <2>2, <2>3, NextWired DEF Round
<1>9. Nat \subseteq Good
  <2> HIDE DEF Good
  <2> QED
    BY <1>7, <1>8, NatInductionOnSets
<1> QED
  BY <1>1, <1>4, <1>9

-----------------------------------------------------------------------------
(* What connect_chiplets leaves.                                           *)

LEMMA AllKnown ==
  /\ Done(Total) = Edges /\ Known(Total) = Edges
  /\ Edges = {e \in Pairs : e[2] \in Neighbours(e[1])}
<1>1. ASSUME NEW e \in Edges PROVE e[1] * n_nodes + e[2] < Total
  <2>1. n_nodes \in Nat \ {0} /\ e[1] \in 0 .. n_nodes - 1 /\ e[2] \in 0 .. n_nodes - 1
    BY ArbitraryAssumption DEF Edges, Pairs, Nodes
  <2> DEFINE i == e[1]
             j == e[2]
  <2> HIDE DEF i, j
  <2>2. i \in Nat /\ j \in Nat /\ i + 1 <= n_nodes /\ j < n_nodes
    BY <2>1 DEF i, j
  <2>3. (i + 1) * n_nodes <= n_nodes * n_nodes
    BY <2>1, <2>2
  <2>4. i * n_nodes + j < (i + 1) * n_nodes
    BY <2>1, <2>2
  <2> QED
    BY <2>1, <2>2, <2>3, <2>4 DEF Total, i, j
<1> QED
  BY <1>1 DEF Done, Known, Edges, Pairs, Neighbours

\* The ends of the link e.
Here(e) == Port(Wiring, e)
There(e) == Port(Wiring, Back(e))

LEMMA WiringFacts ==
  /\ DOMAIN Wiring.buf_conn_map = Edges
  /\ InputBuffers = {Here(e) : e \in Edges}
  /\ \A e \in Edges :
       /\ Here(e) \in Nodes \X Nat /\ Here(e)[1] = e[1] /\ Here(e)[2] < Radix
       /\ Wiring.link_buffers[Here(e)] = There(e)
       /\ Back(e) \in Edges /\ Back(Back(e)) = e
       /\ There(e) \in Nodes \X Nat /\ There(e)[1] = e[2]
  /\ \A e \in Edges, f \in Edges : Here(e) = Here(f) => e = f
<1>1. /\ Wiring \in Wirings /\ Mapped(Total, Wiring) /\ Counted(Total, Wiring)
      /\ Connected(Total, Wiring)
  BY AllWired DEF Wired
<1>2. Done(Total) = Edges /\ Known(Total) = Edges
  BY AllKnown
<1>3. DOMAIN Wiring.buf_conn_map = Edges
      /\ \A e \in Edges, f \in Edges : Here(e) = Here(f) => e = f
  BY <1>1, <1>2 DEF Mapped, Here
<1>4. ASSUME NEW e \in Edges
      PROVE  /\ Here(e) \in Nodes \X Nat /\ Here(e)[1] = e[1] /\ Here(e)[2] < Radix
             /\ Back(e) \in Edges /\ Back(Back(e)) = e
             /\ Back(e)[1] = e[2]
  <2>1. e \in Pairs /\ e[1] \in Nodes /\ Back(e) \in Edges /\ Back(Back(e)) = e
        /\ Back(e)[1] = e[2]
    BY BackFacts DEF Edges, Pairs, Back
  <2>2. Wiring.buf_conn_map[e] \in Nat \X Nat
    BY <1>1, <1>3, WiringTypes
  <2>3. Wiring.buf_conn_map[e][1] < Wiring.next_buf_id[e[1]]
    BY <1>1, <1>2 DEF Mapped
  <2>4. {j \in Nodes : <<e[1], j>> \in Known(Total)} = Neighbours(e[1])
    BY <1>2, <2>1, AllKnown DEF Pairs, Neighbours
  <2>5. Wiring.next_buf_id[e[1]] = Cardinality(Neighbours(e[1]))
    BY <1>1, <2>1, <2>4 DEF Counted
  <2>6. Cardinality(Neighbours(e[1])) <= Radix /\ Radix \in Nat
    BY <2>1, ArbitraryAssumption
  <2>7. Wiring.next_buf_id[e[1]] \in Nat
    BY <1>1, <2>1, WiringTypes
  <2>8. Wiring.buf_conn_map[e][1] \in Nat
    BY <2>2
  <2>9. Wiring.buf_conn_map[e][1] < Radix
    BY <2>3, <2>5, <2>6, <2>7, <2>8
  <2> QED
    BY <2>1, <2>8, <2>9 DEF Here, Port
<1>5. \A e \in Edges : Here(e) \in DOMAIN Wiring.link_buffers
                       /\ Wiring.link_buffers[Here(e)] = There(e)
  BY <1>1, <1>2 DEF Connected, Here, There
<1>6. \A e \in Edges : There(e) \in Nodes \X Nat /\ There(e)[1] = e[2]
  BY <1>4 DEF There, Here
<1>7. InputBuffers = {Here(e) : e \in Edges}
  <2>1. \A e \in Edges : Here(e) \in InputBuffers
    <3>1. \A x \in Nodes \X Nat : x # nullptr
      BY DEF nullptr
    <3> QED
      BY <1>5, <1>6, <3>1 DEF InputBuffers
  <2>2. \A p \in InputBuffers : \E e \in Edges : p = Here(e)
    BY <1>1, <1>2 DEF Connected, InputBuffers, Here
  <2> QED
    BY <2>1, <2>2
<1> QED
  BY <1>3, <1>4, <1>5, <1>6, <1>7

-----------------------------------------------------------------------------
(* A packet on its way.                                                    *)

\* Where the head of a packet can be: at its source, or in an input buffer.
Buffers == {Wiring.link_buffers[p] : p \in InputBuffers}
Heads == {AtSource(n) : n \in Nodes} \cup (Buffers \X VirtualChannels)

\* The walk is one through these topologies, as the configuration of the model
\* checker has it.
Walks ==
  \A c \in Configs :
    /\ Cores(c) = ArbitraryCores(c)
    /\ \A n \in Nodes : Linked(c, n) = ArbitraryLinked(c, n)
    /\ \A s \in Nodes, d \in Nodes, vc \in Heads :
         Route(c, s, d, vc) = ArbitraryRoute(c, s, d, vc)

Underway ==
  /\ config \in Configs
  /\ source \in Nodes /\ destination \in Nodes /\ source # destination
  /\ head \in Heads /\ at \in Nodes

LEMMA BufferFacts ==
  /\ Buffers = {Here(e) : e \in Edges}
  /\ \A vc \in Heads : NodeOf(vc) \in Nodes
<1>1. \A e \in Edges : There(e) = Here(Back(e))
  BY DEF Here, There
<1>2. Buffers = {Here(e) : e \in Edges}
  <2>1. \A e \in Edges : Here(e) \in Buffers
    <3> SUFFICES ASSUME NEW e \in Edges PROVE Here(e) \in Buffers
      OBVIOUS
    <3>1. Back(e) \in Edges /\ Here(e) = Wiring.link_buffers[Here(Back(e))]
      BY <1>1, WiringFacts
    <3>2. Here(Back(e)) \in InputBuffers
      BY <3>1, WiringFacts
    <3> QED
      BY <3>1, <3>2 DEF Buffers
  <2>2. \A b \in Buffers : \E e \in Edges : b = Here(e)
    <3> SUFFICES ASSUME NEW p \in InputBuffers
                 PROVE  \E e \in Edges : Wiring.link_buffers[p] = Here(e)
      BY DEF Buffers
    <3>1. PICK e \in Edges : p = Here(e)
      BY WiringFacts
    <3>2. Back(e) \in Edges /\ Wiring.link_buffers[p] = Here(Back(e))
      BY <1>1, <3>1, WiringFacts
    <3> QED
      BY <3>2
  <2> QED
    BY <2>1, <2>2
<1>3. \A b \in Buffers : b[1] \in Nodes
  BY <1>2, WiringFacts
<1> QED
  BY <1>2, <1>3 DEF Heads, NodeOf, AtSource

\* The general VCs of the buffer that the table leads to.
Generals(c, k) == {<<NextBuffer(c, k), v>> : v \in 0 .. base_escape - 1}

\* What a packet may take.
Offered(c, k, vc) ==
  IF ~LeadsOn(c, k) THEN {}
  ELSE IF IsEscape(vc) THEN {EscapeChannel(c, k)}
  ELSE Generals(c, k) \cup {EscapeChannel(c, k)}

LEMMA EscapeNumbers ==
  /\ base_escape \in Nat /\ base_escape <= num_total_vcs - 1 /\ num_total_vcs \in Nat
  /\ VirtualChannels = 0 .. num_total_vcs - 1
  /\ \A i \in EscapeIndices : base_escape + i \in base_escape .. num_total_vcs - 1
BY ArbitraryAssumption DEF base_escape, EscapeIndices

LEMMA RangeOfRoute ==
  ASSUME NEW c \in Configs, NEW s \in Nodes, NEW d \in Nodes, NEW vc \in Heads
  PROVE  /\ Range(ArbitraryRoute(c, s, d, vc)) = Offered(c, <<s, d, NodeOf(vc)>>, vc)
         /\ LeadsOn(c, <<s, d, NodeOf(vc)>>) => ArbitraryRoute(c, s, d, vc) # <<>>
<1> DEFINE n == NodeOf(vc)
           k == <<s, d, n>>
           hop == <<n, NRL[c][k]>>
           b == NextBuffer(c, k)
           general == [i \in 1 .. base_escape |-> <<b, i - 1>>]
           escape == <<EscapeChannel(c, k)>>
<1>1. n \in Nodes
  BY BufferFacts
<1>2. LeadsOn(c, k) <=> k \in DOMAIN NRL[c] /\ k \in DOMAIN VCTable[c]
                        /\ NRL[c][k] # -1 /\ hop \in DOMAIN Wiring.buf_conn_map
  <2>1. DOMAIN Wiring.buf_conn_map = {e \in Pairs : e[2] \in Neighbours(e[1])}
    BY WiringFacts, AllKnown
  <2>2. k \in DOMAIN NRL[c] => NRL[c][k] \in -1 .. n_nodes - 1
    BY ArbitraryAssumption DEF IsTable
  <2>3. \A m : m \in Neighbours(n) => m \in Nodes /\ m # -1
    BY ArbitraryAssumption DEF Neighbours, Nodes
  <2>4. \A m \in -1 .. n_nodes - 1 : m # -1 => m \in Nodes
    BY ArbitraryAssumption DEF Nodes
  <2>5. k[3] = n
    <3> HIDE DEF n
    <3> QED
      BY Zenon
  <2> HIDE DEF k, n
  <2> QED
    BY <1>1, <2>1, <2>2, <2>3, <2>4, <2>5 DEF LeadsOn, Pairs
<1>3. ArbitraryRoute(c, s, d, vc)
        = IF ~LeadsOn(c, k) THEN <<>> ELSE IF IsEscape(vc) THEN escape ELSE general \o escape
  <2>1. prev_is_escape(vc) <=> IsEscape(vc)
    BY DEF prev_is_escape, IsEscape
  <2>2. escape = <<<<b, escape_vc(VCTable[c], k)>>>>
    BY DEF EscapeChannel, escape_vc
  <2>3. b = Wiring.link_buffers[<<n, Wiring.buf_conn_map[hop][1]>>]
    BY DEF NextBuffer
  <2> QED
    BY <1>2, <2>1, <2>2, <2>3 DEF ArbitraryRoute, NRL_routing, NodeOf
<1> DEFINE S == Generals(c, k) \cup {EscapeChannel(c, k)}
<1>4. general \in Seq(S) /\ escape \in Seq(S)
  <2>1. \A i \in 1 .. base_escape : i - 1 \in 0 .. base_escape - 1
    BY EscapeNumbers
  <2>2. \A i \in 1 .. base_escape : general[i] \in S
    BY <2>1 DEF Generals
  <2>3. general \in Seq(S)
    BY <2>2, EscapeNumbers, IsASeq
  <2> QED
    BY <2>3
<1>5. Range(general) = Generals(c, k)
  <2>1. \A v \in 0 .. base_escape - 1 : v + 1 \in 1 .. base_escape /\ (v + 1) - 1 = v
    BY EscapeNumbers
  <2>2. \A i \in 1 .. base_escape : i - 1 \in 0 .. base_escape - 1
    BY EscapeNumbers
  <2> HIDE DEF b
  <2> QED
    BY <2>1, <2>2 DEF Generals, Range, b
<1>6. Range(escape) = {EscapeChannel(c, k)} /\ Range(<<>>) = {}
  BY DEF Range
<1>7. Range(general \o escape) = Generals(c, k) \cup {EscapeChannel(c, k)}
  <2> HIDE DEF general, escape, S
  <2> QED
    BY <1>4, <1>5, <1>6, RangeJoined
<1>8. general \o escape # <<>> /\ escape # <<>>
  <2>1. EscapeChannel(c, k) \in Range(general \o escape) /\ Range(<<>>) = {}
    BY <1>6, <1>7
  <2> HIDE DEF general
  <2> QED
    BY <2>1
<1> HIDE DEF general, escape, S, b, hop
<1> QED
  BY <1>3, <1>6, <1>7, <1>8 DEF Offered

\* The link that the table names, and the channels behind it.
LEMMA OnwardFacts ==
  ASSUME NEW c \in Configs, NEW k \in Flow, LeadsOn(c, k)
  PROVE  /\ NRL[c][k] \in Nodes
         /\ NextBuffer(c, k) \in Buffers /\ NextBuffer(c, k)[1] = NRL[c][k]
         /\ Len(NextBuffer(c, k)) = 2
         /\ NextBuffer(c, k) \in ArbitraryLinked(c, k[3])
         /\ VCTable[c][k] \in EscapeIndices
         /\ EscapeChannel(c, k) \in EscapeChannels
         /\ Generals(c, k) \subseteq Buffers \X VirtualChannels
         /\ EscapeChannels \subseteq Buffers \X VirtualChannels
<1> DEFINE m == NRL[c][k]
           e == <<k[3], m>>
<1>1. m \in Nodes /\ k[3] \in Nodes /\ e \in Pairs /\ e \in Edges
  BY AllKnown DEF LeadsOn, Neighbours, Flow, Pairs
<1>2. NextBuffer(c, k) = Wiring.link_buffers[Here(e)]
  BY DEF NextBuffer, Here, Port
<1> HIDE DEF m
<1>3. /\ Wiring.link_buffers[Here(e)] = There(e) /\ There(e) \in Nodes \X Nat
      /\ There(e)[1] = m /\ Here(e) \in InputBuffers /\ Here(e)[1] = k[3]
  BY <1>1, WiringFacts
<1>4. VCTable[c][k] \in EscapeIndices
  BY ArbitraryAssumption DEF LeadsOn, IsTable
<1>5. NextBuffer(c, k) \in Buffers /\ NextBuffer(c, k) \in ArbitraryLinked(c, k[3])
  BY <1>2, <1>3 DEF Buffers, ArbitraryLinked
<1>6. Len(NextBuffer(c, k)) = 2
  BY <1>2, <1>3
<1>7. EscapeChannel(c, k) \in EscapeChannels
  BY <1>4, <1>5, EscapeNumbers DEF EscapeChannel, EscapeChannels, Buffers
<1>8. EscapeChannels \subseteq Buffers \X VirtualChannels
  BY EscapeNumbers DEF EscapeChannels, Buffers
<1>9. Generals(c, k) \subseteq Buffers \X VirtualChannels
  BY <1>5, EscapeNumbers DEF Generals
<1> QED
  BY <1>1, <1>2, <1>3, <1>4, <1>5, <1>6, <1>7, <1>8, <1>9 DEF m

\* Everything that a packet may take exists.
LEMMA OfferedFacts ==
  ASSUME NEW c \in Configs, NEW k \in Flow, NEW vc \in Heads, NEW x \in Offered(c, k, vc)
  PROVE  /\ LeadsOn(c, k) /\ x[1] = NextBuffer(c, k) /\ NodeOf(x) = NRL[c][k]
         /\ x \in Buffers \X VirtualChannels /\ x \in Heads /\ NodeOf(x) \in Nodes
         /\ x[2] < base_escape \/ x = EscapeChannel(c, k)
<1>1. LeadsOn(c, k) /\ x \in Generals(c, k) \cup {EscapeChannel(c, k)}
  BY DEF Offered
<1>2. x[1] = NextBuffer(c, k)
  BY <1>1 DEF Generals, EscapeChannel
<1>3. x[2] < base_escape \/ x = EscapeChannel(c, k)
  BY <1>1, EscapeNumbers DEF Generals
<1>4. x \in Buffers \X VirtualChannels
  BY <1>1, OnwardFacts
<1> QED
  BY <1>1, <1>2, <1>3, <1>4, OnwardFacts DEF Heads, NodeOf

LEMMA CandidatesOffered ==
  ASSUME Walks, Underway
  PROVE  /\ Range(Candidates) = Offered(config, <<source, destination, at>>, head)
         /\ LeadsOn(config, <<source, destination, at>>) => Candidates # <<>>
         /\ <<source, destination, at>> \in Flow
<1>1. Candidates = ArbitraryRoute(config, source, destination, head)
  BY DEF Walks, Underway, Candidates
<1> QED
  BY <1>1, RangeOfRoute DEF Underway, at, Flow

LEMMA InitUnderway ==
  ASSUME Walks, Init
  PROVE  Underway
<1>1. /\ config \in Configs /\ source \in Nodes
      /\ destination \in Nodes /\ source # destination
  BY DEF Init, Walks, ArbitraryCores
<1>2. head = AtSource(source)
  BY DEF Init
<1>3. head \in Heads /\ at = source
  BY <1>1, <1>2 DEF Heads, AtSource, at, NodeOf
<1> QED
  BY <1>1, <1>3 DEF Underway

LEMMA HopTaken ==
  ASSUME Walks, Underway, Hop
  PROVE  /\ LeadsOn(config, <<source, destination, at>>)
         /\ head' \in Offered(config, <<source, destination, at>>, head)
         /\ head' \in Heads /\ at' = NRL[config][<<source, destination, at>>] /\ at' \in Nodes
<1>1. head' \in Offered(config, <<source, destination, at>>, head)
      /\ <<source, destination, at>> \in Flow
  BY CandidatesOffered DEF Hop
<1>2. at' = NodeOf(head')
  BY DEF at, NodeOf
<1> QED
  BY <1>1, <1>2, OfferedFacts DEF Underway

LEMMA NextUnderway ==
  ASSUME Walks, Underway, [Next]_vars
  PROVE  Underway'
<1>1. CASE Hop
  BY <1>1, HopTaken DEF Underway, Hop
<1>2. CASE UNCHANGED vars
  BY <1>2 DEF Underway, vars, at, NodeOf
<1> QED
  BY <1>1, <1>2 DEF Next, Arrived

LEMMA AlwaysUnderway ==
  ASSUME Walks
  PROVE  Spec => []Underway
BY InitUnderway, NextUnderway, PTL DEF Spec

\* connect_chiplets takes the next free port at both ends of a link that it
\* meets for the first time, and looks the ports up when it comes to the way
\* back: for every matrix with links both ways, each port is in range, serves
\* one link, and the port that it leads to leads back.
THEOREM EveryLinkItsPorts == Spec => []PortsConnectedOnce
<1>1. PortsConnectedOnce
  <2> SUFFICES ASSUME NEW p \in InputBuffers
               PROVE  /\ p[2] < Radix
                      /\ Wiring.link_buffers[Wiring.link_buffers[p]] = p
                      /\ Cardinality({q \in InputBuffers :
                                        Wiring.link_buffers[q] = Wiring.link_buffers[p]}) = 1
    BY DEF PortsConnectedOnce
  <2>1. \A e \in Edges : There(e) = Here(Back(e)) /\ There(Back(e)) = Here(e)
    BY WiringFacts DEF Here, There
  <2>2. \A q \in InputBuffers : Wiring.link_buffers[Wiring.link_buffers[q]] = q
    <3> SUFFICES ASSUME NEW q \in InputBuffers
                 PROVE  Wiring.link_buffers[Wiring.link_buffers[q]] = q
      OBVIOUS
    <3>1. PICK e \in Edges : q = Here(e)
      BY WiringFacts
    <3>2. Back(e) \in Edges /\ Wiring.link_buffers[q] = Here(Back(e))
      BY <2>1, <3>1, WiringFacts
    <3> QED
      BY <2>1, <3>1, <3>2, WiringFacts
  <2>3. {q \in InputBuffers : Wiring.link_buffers[q] = Wiring.link_buffers[p]} = {p}
    BY <2>2
  <2>4. p[2] < Radix
    BY WiringFacts
  <2> QED
    BY <2>2, <2>3, <2>4, FS_Singleton
<1> QED
  BY <1>1, PTL

\* vc_allocate uses the candidates of NRL_routing unchecked: for all tables that
\* the loaders make, they are channels that exist, behind a link of the node
\* where the packet is.
THEOREM CandidatesAlwaysExist ==
  ASSUME Walks
  PROVE  Spec => []CandidatesExist
<1>1. ASSUME Underway PROVE CandidatesExist
  <2> SUFFICES ASSUME NEW x \in Range(Candidates)
               PROVE  x[1] \in Linked(config, at) /\ x[2] \in VirtualChannels
    BY DEF CandidatesExist
  <2> DEFINE k == <<source, destination, at>>
  <2>1. k \in Flow /\ x \in Offered(config, k, head) /\ k[3] = at
    BY <1>1, CandidatesOffered
  <2> HIDE DEF k
  <2>2. LeadsOn(config, k) /\ x[1] = NextBuffer(config, k) /\ x \in Buffers \X VirtualChannels
    BY <1>1, <2>1, OfferedFacts DEF Underway
  <2>3. NextBuffer(config, k) \in ArbitraryLinked(config, at)
    BY <1>1, <2>1, <2>2, OnwardFacts DEF Underway
  <2> QED
    BY <1>1, <2>2, <2>3 DEF Walks, Underway
<1> QED
  BY <1>1, AlwaysUnderway, PTL

\* NRL_routing offers a packet in an escape VC nothing but the escape VC that
\* the table names, whatever the tables: it never comes back to a general VC.
THEOREM EscapesAreForGood ==
  ASSUME Walks
  PROVE  Spec => EscapeForGood
<1>1. ASSUME Underway, [Next]_vars
      PROVE  [IsEscape(head) => IsEscape(head')]_vars
  <2>1. CASE UNCHANGED vars
    BY <2>1
  <2>2. CASE Hop
    <3> SUFFICES ASSUME IsEscape(head) PROVE IsEscape(head')
      OBVIOUS
    <3> DEFINE k == <<source, destination, at>>
    <3>1. LeadsOn(config, k) /\ head' = EscapeChannel(config, k)
      BY <1>1, <2>2, HopTaken DEF Offered
    <3>2. config \in Configs /\ k \in Flow
      BY <1>1, CandidatesOffered DEF Underway
    <3> HIDE DEF k
    <3>3. /\ Len(NextBuffer(config, k)) = 2
          /\ VCTable[config][k] \in EscapeIndices
      BY <3>1, <3>2, OnwardFacts
    <3>4. base_escape + VCTable[config][k] >= base_escape
      BY <3>3, EscapeNumbers DEF EscapeIndices
    <3>5. EscapeChannel(config, k)[1] = NextBuffer(config, k)
          /\ EscapeChannel(config, k)[2] = base_escape + VCTable[config][k]
      BY DEF EscapeChannel
    <3> QED
      BY <3>1, <3>3, <3>4, <3>5 DEF IsEscape
  <2> QED
    BY <1>1, <2>1, <2>2 DEF Next, Arrived
<1> QED
  BY <1>1, AlwaysUnderway, PTL DEF Spec, EscapeForGood

-----------------------------------------------------------------------------
(* Tables that lead on.                                                    *)

\* A packet that has not arrived is at a node to which its tables lead.
OnItsWay ==
  config \in SoundConfigs /\ at # destination =>
    LeadsOn(config, <<source, destination, at>>)

LEMMA InitOnItsWay ==
  ASSUME Walks, Init
  PROVE  OnItsWay
<1>1. Underway
  BY InitUnderway
<1>2. at = source
  BY DEF Init, at, NodeOf, AtSource
<1> QED
  BY <1>1, <1>2, TablesAssumption DEF Underway, OnItsWay, TablesLeadOn

LEMMA NextOnItsWay ==
  ASSUME Walks, Underway, OnItsWay, [Next]_vars
  PROVE  OnItsWay'
<1>1. CASE Hop
  <2> SUFFICES ASSUME config \in SoundConfigs, at' # destination
               PROVE  LeadsOn(config, <<source, destination, at'>>)
    BY <1>1 DEF OnItsWay, Hop
  <2> DEFINE k == <<source, destination, at>>
  <2>1. LeadsOn(config, k) /\ at' = NRL[config][k]
    BY <1>1, HopTaken
  <2>2. at \in Nodes \ {destination} /\ source \in Nodes /\ destination \in Nodes
        /\ source # destination
    BY <1>1 DEF Underway, Hop
  <2>3. ~Arrives(config, k) /\ Onward(config, k) = <<source, destination, at'>>
    BY <2>1 DEF Arrives, Onward
  <2> QED
    BY <2>1, <2>2, <2>3, TablesAssumption DEF TablesLeadOn
<1>2. CASE UNCHANGED vars
  BY <1>2 DEF OnItsWay, vars, at, NodeOf
<1> QED
  BY <1>1, <1>2 DEF Next, Arrived

\* System::routing asserts that a packet that has not arrived has a candidate:
\* one that routes with tables that lead on from every source, and from every
\* node to which they lead, has one all the way.
THEOREM CandidatesAlwaysUsable ==
  ASSUME Walks
  PROVE  Spec => [](config \in SoundConfigs => CandidatesUsable)
<1>1. ASSUME Underway, OnItsWay, CandidatesExist
      PROVE  config \in SoundConfigs => CandidatesUsable
  BY <1>1, CandidatesOffered DEF OnItsWay, CandidatesUsable
<1>2. Init => OnItsWay
  BY InitOnItsWay
<1>3. Underway /\ OnItsWay /\ [Next]_vars => OnItsWay'
  BY NextOnItsWay
<1> QED
  BY <1>1, <1>2, <1>3, AlwaysUnderway, CandidatesAlwaysExist, PTL DEF Spec

-----------------------------------------------------------------------------
(* Deadlock.                                                               *)

\* Channels that a packet goes on to, if a set is closed under going on.
LEMMA VisitedWithin ==
  ASSUME MaxRounds \in Nat, NEW a, NEW s, NEW d, NEW Places,
         Out(a, s, d, AtSource(s)) \subseteq Places,
         \A vc \in Places : Out(a, s, d, vc) \subseteq Places
  PROVE  Visited(a, s, d) \subseteq Places
<1> DEFINE T == SUBSET Places
           first == Out(a, s, d, AtSource(s))
           More(V) == V \cup UNION {Out(a, s, d, vc) : vc \in V}
           step == [V \in T |-> More(V)]
           Body(f) == [i \in Nat |-> IF i = 0 THEN first ELSE More(f[i - 1])]
           W == CHOOSE f : f = Body(f)
<1>1. first \in T
  OBVIOUS
<1>2. \A V \in T : More(V) \in T
  OBVIOUS
<1>3. step \in [T -> T]
  BY <1>2
<1> HIDE DEF T, first, More
<1>4. PICK f \in [Nat -> T] : Iterates(f, first, step)
  <2> HIDE DEF step
  <2> QED
    BY <1>1, <1>3, IterationExists
<1>5. f = Body(f)
  <2>1. \A i \in Nat : i # 0 => step[f[i - 1]] = More(f[i - 1])
    OBVIOUS
  <2> HIDE DEF step
  <2> QED
    BY <1>4, <2>1 DEF Iterates
<1>6. W = Body(W)
  <2> HIDE DEF Body
  <2> QED
    BY <1>5
<1>7. W[0] = first /\ \A i \in Nat : W[i + 1] = More(W[i])
  <2> HIDE DEF W
  <2>1. \A i \in Nat : i + 1 \in Nat /\ i + 1 # 0 /\ (i + 1) - 1 = i
    OBVIOUS
  <2>2. \A i \in Nat : W[i] = IF i = 0 THEN first ELSE More(W[i - 1])
    BY <1>6
  <2> QED
    BY <2>1, <2>2
<1>8. \A i \in Nat : W[i] \in T
  <2> HIDE DEF W
  <2> QED
    BY <1>1, <1>2, <1>7, StaysIn
<1>9. Visited(a, s, d) = W[MaxRounds]
  BY DEF Visited, first, More
<1> HIDE DEF W
<1> QED
  BY <1>8, <1>9 DEF T

\* Channels in front of which a packet from s to d may wait, and the node that
\* led it there.
WaitsFrom(c, s, d, n, vc) ==
  LET k == <<s, d, n>>
  IN /\ LeadsOn(c, k) /\ NRL[c][k] = NodeOf(vc) /\ NodeOf(vc) # d
     /\ vc[2] < base_escape \/ vc = EscapeChannel(c, k)

Waiting(c, s, d) ==
  {vc \in Buffers \X VirtualChannels : \E n \in Nodes \ {d} : WaitsFrom(c, s, d, n, vc)}

LEMMA OutWaits ==
  ASSUME Walks, NEW c \in Configs, NEW s \in Nodes, NEW d \in Nodes,
         NEW vc \in Heads, NodeOf(vc) # d
  PROVE  Out(c, s, d, vc) \subseteq Waiting(c, s, d)
<1> DEFINE n == NodeOf(vc)
           k == <<s, d, n>>
<1>1. n \in Nodes /\ k \in Flow
  BY BufferFacts DEF Flow
<1>2. Range(Route(c, s, d, vc)) = Offered(c, k, vc)
  BY RangeOfRoute DEF Walks
<1>3. SUFFICES ASSUME NEW x \in Offered(c, k, vc), NodeOf(x) # d
               PROVE  x \in Waiting(c, s, d)
  BY <1>2 DEF Out
<1>4. WaitsFrom(c, s, d, n, x) /\ x \in Buffers \X VirtualChannels
  BY <1>1, <1>3, OfferedFacts DEF WaitsFrom
<1> QED
  BY <1>1, <1>4 DEF Waiting

LEMMA VisitedWaits ==
  ASSUME Walks, NEW c \in Configs, NEW s \in Nodes, NEW d \in Nodes, s # d
  PROVE  Visited(c, s, d) \subseteq Waiting(c, s, d)
<1>1. Out(c, s, d, AtSource(s)) \subseteq Waiting(c, s, d)
  <2>1. AtSource(s) \in Heads /\ NodeOf(AtSource(s)) = s
    BY DEF Heads, AtSource, NodeOf
  <2> QED
    BY <2>1, OutWaits
<1>2. ASSUME NEW vc \in Waiting(c, s, d) PROVE Out(c, s, d, vc) \subseteq Waiting(c, s, d)
  <2>1. vc \in Heads /\ NodeOf(vc) # d
    BY DEF Waiting, WaitsFrom, Heads
  <2> QED
    BY <2>1, OutWaits
<1>3. MaxRounds \in Nat
  BY ArbitraryAssumption
<1> QED
  BY <1>1, <1>2, <1>3, VisitedWithin

\* General VCs come after all escape VCs.
Rank(c, vc) == IF vc[2] < base_escape THEN 4 * MaxRounds - 1 ELSE EscapeRank[c][vc]

LEMMA RankBounds ==
  ASSUME NEW c \in SoundConfigs, NEW vc \in Buffers \X VirtualChannels
  PROVE  /\ Rank(c, vc) \in 0 .. 4 * MaxRounds - 1
         /\ \A x \in EscapeChannels :
              Rank(c, x) = EscapeRank[c][x] /\ EscapeRank[c][x] \in 0 .. 4 * MaxRounds - 2
<1>1. MaxRounds \in Nat
  BY ArbitraryAssumption
<1>2. ASSUME NEW x \in EscapeChannels
      PROVE  Rank(c, x) = EscapeRank[c][x] /\ EscapeRank[c][x] \in 0 .. 4 * MaxRounds - 2
  <2>1. x[2] \in base_escape .. num_total_vcs - 1
    BY DEF EscapeChannels
  <2> QED
    BY <2>1, EscapeNumbers, TablesAssumption DEF Rank
<1>3. <<vc[1], base_escape>> \in EscapeChannels
  BY EscapeNumbers DEF EscapeChannels, Buffers
<1>4. 4 * MaxRounds - 2 >= 0
  BY <1>1, <1>2, <1>3
<1>5. CASE vc[2] < base_escape
  <2>1. Rank(c, vc) \in 0 .. 4 * MaxRounds - 1
    BY <1>1, <1>4, <1>5 DEF Rank
  <2> QED
    BY <1>2, <2>1
<1>6. CASE ~(vc[2] < base_escape)
  <2>1. vc \in EscapeChannels
    BY <1>6, EscapeNumbers DEF EscapeChannels, Buffers
  <2> QED
    BY <1>1, <1>2, <2>1
<1> QED
  BY <1>2, <1>5, <1>6

\* A packet that waits in front of a channel may go on to an escape channel of a
\* lower rank.
LEMMA WaitsForLower ==
  ASSUME Walks, NEW c \in SoundConfigs, c \in Configs, NEW w \in Waits(c)
  PROVE  /\ w[1] \in Buffers \X VirtualChannels
         /\ \E x \in w[2] : Rank(c, x) < Rank(c, w[1])
<1>1. Cores(c) = Nodes
  BY DEF Walks, ArbitraryCores
<1>2. PICK s \in Nodes, d \in Nodes :
        s # d /\ \E vc \in Visited(c, s, d) : w = <<vc, Range(Route(c, s, d, vc))>>
  BY <1>1 DEF Waits
<1> PICK vc \in Visited(c, s, d) : w = <<vc, Range(Route(c, s, d, vc))>>
  BY <1>2
<1>3. vc \in Buffers \X VirtualChannels /\ vc \in Heads
      /\ \E n \in Nodes \ {d} : WaitsFrom(c, s, d, n, vc)
  BY <1>2, VisitedWaits DEF Waiting, Heads
<1> PICK n \in Nodes \ {d} : WaitsFrom(c, s, d, n, vc)
  BY <1>3
<1> DEFINE k == <<s, d, n>>
           m == NodeOf(vc)
           on == <<s, d, m>>
           x == EscapeChannel(c, on)
<1>4. /\ k \in Flow /\ LeadsOn(c, k) /\ NRL[c][k] = m /\ m # d
      /\ vc[2] < base_escape \/ vc = EscapeChannel(c, k)
  BY DEF WaitsFrom, Flow
<1>5. m \in Nodes /\ on \in Flow
  BY <1>3, BufferFacts DEF Flow
<1>6. ~Arrives(c, k) /\ Onward(c, k) = on
  BY <1>4 DEF Arrives, Onward
<1>7. LeadsOn(c, on)
  BY <1>2, <1>4, <1>6, TablesAssumption DEF TablesLeadOn
<1>8. Range(Route(c, s, d, vc)) = Offered(c, on, vc)
  BY <1>3, RangeOfRoute DEF Walks
<1>9. x \in w[2] /\ w[1] = vc
  BY <1>2, <1>7, <1>8 DEF Offered
<1>10. x \in EscapeChannels /\ EscapeChannel(c, k) \in EscapeChannels
  BY <1>4, <1>5, <1>7, OnwardFacts
<1>11. Rank(c, x) = EscapeRank[c][x] /\ EscapeRank[c][x] \in 0 .. 4 * MaxRounds - 2
       /\ Rank(c, EscapeChannel(c, k)) = EscapeRank[c][EscapeChannel(c, k)]
  BY <1>3, <1>10, RankBounds
<1>12. EscapeRank[c][x] < EscapeRank[c][EscapeChannel(c, k)]
  BY <1>2, <1>4, <1>6, TablesAssumption DEF EscapesDescend
<1> HIDE DEF x, k
<1>13. Rank(c, x) < Rank(c, vc)
  <2>1. CASE vc[2] < base_escape
    <3>1. Rank(c, vc) = 4 * MaxRounds - 1 /\ MaxRounds \in Nat
      BY <2>1, ArbitraryAssumption DEF Rank
    <3> QED
      BY <1>11, <3>1
  <2>2. CASE vc = EscapeChannel(c, k)
    BY <1>11, <1>12, <2>2
  <2> QED
    BY <1>4, <2>1, <2>2
<1> QED
  BY <1>3, <1>9, <1>13

LEMMA NoneBlocked ==
  ASSUME Walks, NEW c \in SoundConfigs, c \in Configs
  PROVE  Blocked[c] = {}
<1> DEFINE places == {w[1] : w \in Waits(c)}
           rank == [vc \in places |-> Rank(c, vc)]
<1>1. MaxRounds \in Nat /\ 4 * MaxRounds \in Nat
  BY ArbitraryAssumption
<1>2. rank \in [places -> 0 .. 4 * MaxRounds - 1]
  <2>1. \A vc \in places : vc \in Buffers \X VirtualChannels
    BY WaitsForLower
  <2> QED
    BY <2>1, RankBounds
<1>3. ASSUME NEW w \in Waits(c)
      PROVE  \E x \in w[2] : x \in places => rank[x] < rank[w[1]]
  <2>1. PICK x \in w[2] : Rank(c, x) < Rank(c, w[1])
    BY WaitsForLower
  <2>2. w[1] \in places
    OBVIOUS
  <2> QED
    BY <2>1, <2>2
<1> HIDE DEF rank
<1>4. Blocked[c] = BlockedAfter(Waits(c), 4 * MaxRounds)
  BY DEF Blocked, BlockedAfter
<1> QED
  BY <1>1, <1>2, <1>3, <1>4, RanksUnblock

\* No set of packets can wait for each other in a circle if the tables lead on
\* and the escape channels that they name have an order: a packet in a general
\* VC, which may go wherever the table leads, still has the escape VC as a way
\* out, and among themselves the escape VCs cannot close a circle.
THEOREM NoDeadlockWithEscapes ==
  ASSUME Walks
  PROVE  Spec => [](config \in SoundConfigs => DeadlockFree)
<1>1. Underway => (config \in SoundConfigs => DeadlockFree)
  BY NoneBlocked DEF Underway, DeadlockFree
<1> QED
  BY <1>1, AlwaysUnderway, PTL
=============================================================================
