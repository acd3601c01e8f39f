--------------------------- MODULE Network_proofs ---------------------------
(***************************************************************************)
(* For any wiring, routing without circles, packets, sizes and number of   *)
(* threads: a packet stays a connected worm on its route, a link has one   *)
(* owner exactly while it is marked used, a queue holds its packets in     *)
(* order and the credits of a channel add up to its size.                  *)
(***************************************************************************)
EXTENDS NetworkProps, Lemmas, SequenceTheorems

-----------------------------------------------------------------------------
(* Routes.                                                                 *)

\* Nodes on the way of each packet, and links that are still ahead.
Way == [p \in Packets |->
  CHOOSE way \in SUBSET Nodes :
    \E rank \in [way -> 0 .. Cardinality(Nodes)] : LeadsOn(p, way, rank)]
Rank == [p \in Packets |->
  CHOOSE rank \in [Way[p] -> 0 .. Cardinality(Nodes)] : LeadsOn(p, Way[p], rank)]

\* Routing offers channel c to packet p where it is in place d.
Hop(p, d, c) ==
  /\ d \in Places /\ NodeAt(p, d) # Dst[p]
  /\ \E i \in 1 .. Len(Route(p, d)) : c = Route(p, d)[i]

\* Every packet has a way and a rank.
LEMMA WayAndRank ==
  ASSUME NEW p \in Packets
  PROVE  /\ Way[p] \in SUBSET Nodes
         /\ Rank[p] \in [Way[p] -> Nat]
         /\ LeadsOn(p, Way[p], Rank[p])
<1> DEFINE Ranks(way) == [way -> 0 .. Cardinality(Nodes)]
           HasRank(way) == \E rank \in Ranks(way) : LeadsOn(p, way, rank)
<1>1. \E way \in SUBSET Nodes : HasRank(way)
  BY RouteAssumption DEF RoutesLeadOn
<1>2. Way[p] = CHOOSE way \in SUBSET Nodes : HasRank(way)
  BY DEF Way
<1>3. Way[p] \in SUBSET Nodes /\ HasRank(Way[p])
  <2> HIDE DEF HasRank
  <2> QED
    BY <1>1, <1>2
<1>4. Rank[p] = CHOOSE rank \in Ranks(Way[p]) : LeadsOn(p, Way[p], rank)
  BY DEF Rank
<1>5. Rank[p] \in Ranks(Way[p]) /\ LeadsOn(p, Way[p], Rank[p])
  <2> HIDE DEF Ranks
  <2> QED
    BY <1>3, <1>4 DEF HasRank
<1>6. Cardinality(Nodes) \in Nat
  <2>1. IsFiniteSet({Src[q] : q \in Packets}) /\ IsFiniteSet({DownNode[b] : b \in Buffers})
    BY NetworkAssumption, ImageFinite
  <2> QED
    BY <2>1, FS_Union, FS_CardinalityType DEF Nodes
<1> QED
  BY <1>3, <1>5, <1>6

LEMMA Constants ==
  /\ Source \notin Channels /\ Channels \subseteq Places /\ Source \in Places
  /\ \A c \in Channels : BufferOf(c) \in Buffers /\ BufferOf(c) # BufferOf(Source)
  /\ \A c \in Places : c \in Channels <=> c # Source
  /\ \A p \in Packets : Length[p] \in Nat \ {0} /\ Src[p] # Dst[p] /\ 1 \in 1 .. Length[p]
                            /\ Length[p] \in 1 .. Length[p]
  /\ \A p \in Packets, c \in Channels : NodeAt(p, c) = DownNode[BufferOf(c)]
  /\ \A p \in Packets : NodeAt(p, Source) = Src[p]
BY NetworkAssumption DEF Source, Channels, Places, BufferOf, NodeAt

LEMMA HopFacts ==
  ASSUME NEW p \in Packets, NEW d, NodeAt(p, d) \in Way[p], NEW c, Hop(p, d, c)
  PROVE  /\ c \in Channels
         /\ UpNode[BufferOf(c)] = NodeAt(p, d)
         /\ NodeAt(p, c) \in Way[p]
         /\ Rank[p][NodeAt(p, c)] < Rank[p][NodeAt(p, d)]
<1> DEFINE n == NodeAt(p, d)
           r == Route(p, d)
<1>1. PICK i \in 1 .. Len(r) : c = r[i]
  BY DEF Hop
<1>2. d \in Places /\ n \in Way[p] \ {Dst[p]}
  BY DEF Hop
<1>3. /\ r \in Seq(Channels)
      /\ UpNode[BufferOf(c)] = n
      /\ DownNode[BufferOf(c)] \in Way[p] /\ Rank[p][DownNode[BufferOf(c)]] < Rank[p][n]
  BY <1>1, <1>2, WayAndRank DEF LeadsOn
<1>4. c \in Channels
  BY <1>1, <1>3, ElementOfSeq
<1>5. NodeAt(p, c) = DownNode[BufferOf(c)]
  BY <1>4, Constants
<1> QED
  BY <1>3, <1>4, <1>5

-----------------------------------------------------------------------------
(* The inductive invariant.                                                *)

Typed ==
  /\ param \in Params
  /\ phase \in {"serial", "update"}
  /\ todo \subseteq Packets
  /\ status \in [Packets -> {"new", "live", "gone"}]
  /\ trace = [p \in Packets |-> trace[p]]
  /\ \A p \in Packets : trace[p] \in [1 .. Length[p] -> Places]
  /\ cand \in [Packets -> Seq(Channels)]
  /\ next \in [Packets -> Places] /\ leaving \in [Packets -> Places]
  /\ switched \in [Packets -> BOOLEAN]
  /\ procTimer \in [Packets -> 0 .. param.processing_time]
  /\ linkTimer \in [Packets -> Nat]
  /\ finished \in [Packets -> BOOLEAN] /\ release \in [Packets -> BOOLEAN]
  /\ pc \in [Packets -> Locations] /\ k \in [Packets -> Nat]
  /\ credit \in [Channels -> Int]
  /\ queue \in [Channels -> Seq(Packets)]
  /\ inLink \in [Buffers -> BOOLEAN] /\ swLink \in [Buffers -> BOOLEAN]

\* Where a packet is in its update, and what it has got by then.
Control(p) ==
  /\ status[p] = "new" => /\ pc[p] = "idle" /\ ~finished[p] /\ ~release[p] /\ next[p] = Source
                          /\ \A i \in 1 .. Length[p] : trace[p][i] = Source
  /\ p \in todo => /\ phase = "update" /\ status[p] = "live"
                   /\ pc[p] = "idle" /\ ~finished[p] /\ ~release[p]
  /\ pc[p] # "idle" => phase = "update" /\ status[p] = "live" /\ ~finished[p]
  /\ pc[p] \notin {"idle", "arrive"} => ~release[p]
  /\ IF pc[p] \in {"empty", "take", "any"}
       THEN next[p] = Source /\ k[p] \in 1 .. Len(cand[p])
       ELSE k[p] = 1
  /\ pc[p] \in {"switch", "inLink", "push", "giveBack"} => next[p] # Source
  /\ pc[p] \in {"inLink", "giveBack"} => HeadAt(p) # Source
  /\ pc[p] = "push" => switched[p] /\ NodeAt(p, next[p]) # Dst[p]
  /\ switched[p] => pc[p] \in {"push", "move"} /\ next[p] # Source
  /\ pc[p] = "arrive" \/ finished[p] => next[p] = Source /\ NodeAt(p, TailAt(p)) = Dst[p]
  /\ finished[p] => pc[p] = "idle"

\* Each flit is where the flits before it came from, or one hop behind.
Worm(p) ==
  /\ \A i \in 1 .. Length[p] : NodeAt(p, trace[p][i]) \in Way[p]
  /\ \A i \in 1 .. Length[p] - 1 :
       trace[p][i] = trace[p][i + 1] \/ Hop(p, trace[p][i + 1], trace[p][i])
  /\ \A i \in 1 .. Len(cand[p]) : Hop(p, HeadAt(p), cand[p][i])
  /\ next[p] # Source => Hop(p, HeadAt(p), next[p])

\* A packet that has links to give back has left a place for good.
Left(p) ==
  release[p] => /\ TailAt(p) # Source
                /\ NodeAt(p, leaving[p]) # Dst[p]
                /\ \A i \in 1 .. Length[p] : BufferOf(trace[p][i]) # BufferOf(leaving[p])

\* Between two updates a packet is not complete at its destination, unless it
\* is still on the link.
OnItsWay(p) ==
  status[p] = "live" /\ pc[p] = "idle" /\ ~finished[p] =>
    linkTimer[p] > 0 \/ NodeAt(p, TailAt(p)) # Dst[p]

\* Packet p owns the input link, or the switch link, of buffer b.
Touches(p, b) == \E i \in 1 .. Length[p] : BufferOf(trace[p][i]) = b
HasIn(p, b) ==
  /\ status[p] = "live"
  /\ \/ switched[p] /\ BufferOf(next[p]) = b
     \/ Touches(p, b) /\ BufferOf(TailAt(p)) # b
     \/ release[p] /\ BufferOf(TailAt(p)) = b
HasSw(p, b) ==
  /\ status[p] = "live"
  /\ \/ (switched[p] \/ pc[p] \in {"inLink", "giveBack"}) /\ BufferOf(HeadAt(p)) = b
     \/ Touches(p, b) /\ BufferOf(HeadAt(p)) # b
     \/ release[p] /\ BufferOf(leaving[p]) = b

\* A link has one owner at most, and its mark says whether there is one.
Owned ==
  \A b \in Buffers :
    /\ inLink[b] <=> \E p \in Packets : HasIn(p, b)
    /\ \A p, q \in Packets : HasIn(p, b) /\ HasIn(q, b) => p = q
    /\ swLink[b] <=> \E p \in Packets : HasSw(p, b)
    /\ \A p, q \in Packets : HasSw(p, b) /\ HasSw(q, b) => p = q

\* Packet p has a place in the queue of channel c, or has to be in front of it:
\* it has a switch, or flits that went ahead.
Member(p, c) ==
  /\ status[p] = "live" /\ DownNode[BufferOf(c)] # Dst[p]
  /\ \/ switched[p] /\ next[p] = c /\ pc[p] # "push"
     \/ Occupies(p, c)
     \/ release[p] /\ leaving[p] = c
Leads(p, c) ==
  /\ status[p] = "live"
  /\ \/ HeadAt(p) = c /\ (switched[p] \/ pc[p] \in {"inLink", "giveBack"})
     \/ /\ DownNode[BufferOf(c)] # Dst[p] /\ HeadAt(p) # c
        /\ Occupies(p, c) \/ (release[p] /\ leaving[p] = c)

\* A queue holds its members once each.
Elem(s, x) == \E i \in 1 .. Len(s) : s[i] = x
Distinct(s) == \A i, j \in 1 .. Len(s) : s[i] = s[j] => i = j
Queued ==
  \A c \in Channels :
    Distinct(queue[c]) /\ \A p \in Packets : Elem(queue[c], p) <=> Member(p, c)

InFront ==
  \A c \in Channels, p \in Packets : Leads(p, c) => queue[c] # <<>> /\ Head(queue[c]) = p

\* Channel c keeps room for packet p, and the credits account for it.
Holder(p, c) == status[p] = "live" /\ ~finished[p] /\ (Occupies(p, c) \/ next[p] = c)
Credits ==
  \A c \in Channels :
    credit[c] + SumOf(Length, {p \in Packets : Holder(p, c)}) = BufferSize /\ credit[c] >= 0

Local(p) == Control(p) /\ Worm(p) /\ Left(p) /\ OnItsWay(p)
Packed == \A p \in Packets : Local(p)
Serial == phase = "serial" => todo = {} /\ \A p \in Packets : pc[p] = "idle"

-----------------------------------------------------------------------------
(* The worm: the flits of one packet.                                      *)

\* Flits ahead of other flits are in the same place or nearer to the destination.
LEMMA WormOrder ==
  ASSUME NEW p \in Packets, trace[p] \in [1 .. Length[p] -> Places], Worm(p),
         NEW i \in 1 .. Length[p], NEW j \in i .. Length[p]
  PROVE  \/ trace[p][i] = trace[p][j]
         \/ /\ trace[p][i] \in Channels
            /\ NodeAt(p, trace[p][j]) # Dst[p]
            /\ Rank[p][NodeAt(p, trace[p][i])] < Rank[p][NodeAt(p, trace[p][j])]
<1> DEFINE t == trace[p]
           n(h) == NodeAt(p, t[h])
           r(h) == Rank[p][n(h)]
           Ahead(h) == t[i] = t[h] \/ (t[i] \in Channels /\ n(h) # Dst[p] /\ r(i) < r(h))
           S == {h \in i .. Length[p] : ~Ahead(h)}
<1>1. Length[p] \in Nat
  BY Constants
<1>2. \A h \in 1 .. Length[p] : n(h) \in Way[p] /\ r(h) \in Nat
  BY WayAndRank DEF Worm
<1>3. ASSUME NEW h \in i .. Length[p] - 1, Ahead(h)
      PROVE  Ahead(h + 1)
  <2>1. h \in 1 .. Length[p] - 1 /\ h \in 1 .. Length[p] /\ h + 1 \in 1 .. Length[p]
    BY <1>1
  <2>2. CASE t[h] = t[h + 1]
    BY <1>3, <2>2
  <2>3. CASE Hop(p, t[h + 1], t[h])
    <3>1. /\ t[h] \in Channels /\ r(h) < r(h + 1)
          /\ n(h + 1) # Dst[p]
      BY <1>2, <2>1, <2>3, HopFacts DEF Hop
    <3>2. r(i) \in Nat /\ r(h) \in Nat /\ r(h + 1) \in Nat
      BY <1>2, <2>1
    <3> HIDE DEF r, n, t
    <3> QED
      BY <1>3, <3>1, <3>2 DEF r, n
  <2> QED
    BY <2>1, <2>2, <2>3 DEF Worm
<1>4. S = {}
  <2> SUFFICES ASSUME S # {} PROVE FALSE
    OBVIOUS
  <2>1. S \in SUBSET Nat
    BY <1>1
  <2> HIDE DEF Ahead
  <2>2. PICK h \in S : \A g \in S : h <= g
    BY <2>1, LeastElement
  <2>3. h # i
    BY <2>2 DEF Ahead
  <2>4. h - 1 \in i .. Length[p] - 1 /\ h - 1 \notin S
    BY <1>1, <2>2, <2>3
  <2>5. Ahead(h - 1) /\ (h - 1) + 1 = h
    BY <1>1, <2>2, <2>4
  <2> QED
    BY <1>3, <2>2, <2>4, <2>5
<1> QED
  BY <1>4

\* Flits between two that are in one node are in the same channel as these.
LEMMA SamePlace ==
  ASSUME NEW p \in Packets, trace[p] \in [1 .. Length[p] -> Places], Worm(p),
         NEW i \in 1 .. Length[p], NEW j \in i .. Length[p], NEW h \in i .. j,
         NodeAt(p, trace[p][i]) = NodeAt(p, trace[p][j])
  PROVE  trace[p][h] = trace[p][i] /\ trace[p][h] = trace[p][j]
<1> DEFINE t == trace[p]
           r(g) == Rank[p][NodeAt(p, t[g])]
<1>1. Length[p] \in Nat
  BY Constants
<1>2. \A g \in 1 .. Length[p] : r(g) \in Nat
  BY WayAndRank DEF Worm
<1>3. h \in 1 .. Length[p] /\ j \in h .. Length[p] /\ h \in i .. Length[p] /\ j \in 1 .. Length[p]
  BY <1>1
<1>4. t[i] = t[h] \/ r(i) < r(h)
  BY <1>3, WormOrder
<1>5. t[h] = t[j] \/ r(h) < r(j)
  BY <1>3, WormOrder
<1>6. t[i] = t[j] \/ r(i) < r(j)
  BY WormOrder
<1>7. r(i) = r(j)
  OBVIOUS
<1>8. r(i) \in Nat /\ r(j) \in Nat /\ r(h) \in Nat
  BY <1>2, <1>3
<1>9. (t[i] = t[h] => r(i) = r(h)) /\ (t[h] = t[j] => r(h) = r(j))
  OBVIOUS
<1> HIDE DEF t, r
<1>10. t[i] = t[j]
  BY <1>6, <1>7, <1>8
<1>11. t[h] = t[i]
  BY <1>4, <1>5, <1>7, <1>8, <1>9, <1>10
<1> QED
  BY <1>10, <1>11 DEF t

\* Two flits in one buffer are in the same channel of it.
LEMMA SameBuffer ==
  ASSUME NEW p \in Packets, trace[p] \in [1 .. Length[p] -> Places], Worm(p),
         NEW i \in 1 .. Length[p], NEW j \in 1 .. Length[p],
         BufferOf(trace[p][i]) = BufferOf(trace[p][j])
  PROVE  trace[p][i] = trace[p][j]
<1>1. \A c \in Places, d \in Places : BufferOf(c) = BufferOf(d) => NodeAt(p, c) = NodeAt(p, d)
  BY Constants
<1>2. NodeAt(p, trace[p][i]) = NodeAt(p, trace[p][j])
  BY <1>1
<1>3. i \in j .. Length[p] \/ j \in i .. Length[p]
  BY Constants
<1>4. i \in i .. j \/ j \in j .. i
  BY Constants
<1> QED
  BY <1>2, <1>3, <1>4, SamePlace

\* Flit g is the first of those flits of the place of i that move on together:
\* in the place of the head they move only with a switch.
GroupFirst(p, g, i) ==
  /\ g \in 1 .. i
  /\ g = 1 => switched[p]
  /\ \A h \in g .. i : trace[p][h] = trace[p][i]
  /\ g > 1 => trace[p][g - 1] # trace[p][i]

\* The place that this group moves to.
Ahead(p, g) == IF g = 1 THEN next[p] ELSE trace[p][g - 1]

LEMMA GroupUnique ==
  ASSUME NEW p \in Packets, NEW i \in 1 .. Length[p],
         NEW g, NEW h, GroupFirst(p, g, i), GroupFirst(p, h, i)
  PROVE  g = h
<1>1. g \in 1 .. i /\ h \in 1 .. i /\ i \in Nat
  BY Constants DEF GroupFirst
<1>2. ASSUME NEW a \in 1 .. i, NEW b \in 1 .. i, a < b, GroupFirst(p, a, i), GroupFirst(p, b, i)
      PROVE  FALSE
  <2>1. b - 1 \in a .. i /\ b > 1
    BY <1>1, <1>2
  <2> QED
    BY <1>2, <2>1 DEF GroupFirst
<1> QED
  BY <1>1, <1>2

\* Without a switch, the flits before FirstBehind are those where the head is.
LEMMA FirstBehindFacts ==
  ASSUME NEW p \in Packets, trace[p] \in [1 .. Length[p] -> Places], Worm(p)
  PROVE  /\ FirstBehind(p) \in 2 .. Length[p] + 1
         /\ \A i \in 1 .. Length[p] : i < FirstBehind(p) <=> trace[p][i] = trace[p][1]
<1> DEFINE n(i) == NodeAt(p, trace[p][i])
           behind == {i \in 1 .. Length[p] : n(i) # n(1)}
<1>1. Length[p] \in Nat /\ 1 \in 1 .. Length[p]
  BY Constants
<1>2. ASSUME NEW i \in 1 .. Length[p], n(i) = n(1), NEW h \in 1 .. i
      PROVE  trace[p][h] = trace[p][1]
  BY <1>1, <1>2, SamePlace
<1>3. FirstBehind(p) = IF behind = {} THEN Length[p] + 1
                       ELSE CHOOSE i \in behind : \A h \in behind : i <= h
  BY DEF FirstBehind, HeadAt
<1>4. CASE behind = {}
  <2>1. \A i \in 1 .. Length[p] : trace[p][i] = trace[p][1]
    BY <1>1, <1>2, <1>4
  <2> QED
    BY <1>1, <1>3, <1>4, <2>1
<1>5. CASE behind # {}
  <2> DEFINE m == FirstBehind(p)
  <2>1. behind \in SUBSET Nat
    BY <1>1
  <2> HIDE DEF behind
  <2>2. \E i \in behind : \A h \in behind : i <= h
    BY <1>5, <2>1, LeastElement
  <2>3. m \in behind /\ \A h \in behind : m <= h
    BY <1>3, <1>5, <2>2
  <2>4. m \in 2 .. Length[p]
    BY <1>1, <2>3 DEF behind
  <2>5. ASSUME NEW i \in 1 .. Length[p], i < m
        PROVE  trace[p][i] = trace[p][1]
    <3>1. i \notin behind
      BY <1>1, <2>3, <2>4, <2>5
    <3> QED
      BY <1>1, <1>2, <3>1 DEF behind
  <2>6. ASSUME NEW i \in 1 .. Length[p], m <= i
        PROVE  trace[p][i] # trace[p][1]
    <3>1. SUFFICES ASSUME trace[p][i] = trace[p][1] PROVE FALSE
      OBVIOUS
    <3>2. m \in 1 .. i
      BY <2>4, <2>6
    <3>3. trace[p][m] = trace[p][1]
      BY <1>2, <3>1, <3>2
    <3> QED
      BY <2>3, <3>3 DEF behind
  <2> QED
    BY <1>1, <2>4, <2>5, <2>6
<1> QED
  BY <1>4, <1>5

First(p) == IF switched[p] THEN 1 ELSE FirstBehind(p)

\* A flit is in the place of the head and without a switch, or it has a group.
LEMMA FirstFacts ==
  ASSUME NEW p \in Packets, trace[p] \in [1 .. Length[p] -> Places], Worm(p)
  PROVE  /\ First(p) \in 1 .. Length[p] + 1
         /\ First(p) = 1 <=> switched[p]
         /\ \A i \in 1 .. Length[p] :
              i < First(p) <=> ~switched[p] /\ trace[p][i] = trace[p][1]
<1>1. Length[p] \in Nat /\ 1 \in 1 .. Length[p]
  BY Constants
<1>2. CASE switched[p]
  BY <1>1, <1>2 DEF First
<1>3. CASE ~switched[p]
  BY <1>1, <1>3, FirstBehindFacts DEF First
<1> QED
  BY <1>2, <1>3

LEMMA GroupOfFacts ==
  ASSUME NEW p \in Packets, trace[p] \in [1 .. Length[p] -> Places], Worm(p),
         NEW i \in 1 .. Length[p], First(p) <= i
  PROVE  GroupFirst(p, GroupOf(p, i, First(p)), i)
<1> DEFINE n(h) == NodeAt(p, trace[p][h])
           fst == First(p)
           Alike(g) == \A h \in g .. i : n(h) = n(i)
           C(g) == Alike(g) /\ (g = fst \/ n(g - 1) # n(i))
           S == {g \in fst .. i : Alike(g)}
<1>1. Length[p] \in Nat /\ 1 \in 1 .. Length[p] /\ i \in Nat /\ fst \in 1 .. i
  BY Constants, FirstFacts
<1>2. \E g \in fst .. i : C(g)
  <2>1. i \in S
    BY <1>1
  <2>2. S \in SUBSET Nat
    BY <1>1
  <2> HIDE DEF S
  <2>3. PICK g \in S : \A h \in S : g <= h
    BY <2>1, <2>2, LeastElement
  <2>4. g \in fst .. i /\ Alike(g)
    BY <2>3 DEF S
  <2>5. ASSUME g # fst
        PROVE  n(g - 1) # n(i)
    <3>1. g - 1 \in fst .. i /\ g - 1 \notin S
      BY <1>1, <2>2, <2>3, <2>4, <2>5
    <3>2. ~Alike(g - 1)
      BY <3>1 DEF S
    <3>3. PICK h \in g - 1 .. i : n(h) # n(i)
      BY <3>2
    <3>4. h = g - 1
      <4>1. h \notin g .. i
        BY <2>4, <3>3
      <4> QED
        BY <1>1, <2>4, <3>3, <4>1
    <3> QED
      BY <3>3, <3>4
  <2> QED
    BY <2>4, <2>5
<1> DEFINE g == GroupOf(p, i, fst)
<1>3. g \in fst .. i /\ C(g)
  <2>1. g = CHOOSE x \in fst .. i : C(x)
    BY DEF GroupOf
  <2> HIDE DEF C, g
  <2> QED
    BY <1>2, <2>1
<1> HIDE DEF g
<1>4. g \in 1 .. i
  BY <1>1, <1>3
<1>5. ASSUME NEW h \in g .. i
      PROVE  trace[p][h] = trace[p][i]
  <2>1. g \in 1 .. Length[p] /\ i \in g .. Length[p] /\ n(g) = n(i)
    BY <1>1, <1>3, <1>4
  <2> QED
    BY <2>1, <1>5, SamePlace
<1>6. g = 1 => switched[p]
  BY <1>1, <1>3, <1>4, FirstFacts
<1>7. ASSUME g > 1
      PROVE  trace[p][g - 1] # trace[p][i]
  <2>1. g - 1 \in 1 .. Length[p]
    BY <1>1, <1>4, <1>7
  <2>2. CASE g = fst
    <3>1. g - 1 < fst /\ ~(i < fst)
      BY <1>1, <1>4, <2>2
    <3>2. trace[p][g - 1] = trace[p][1] /\ ~switched[p]
      BY <2>1, <3>1, FirstFacts
    <3>3. trace[p][i] # trace[p][1]
      BY <3>1, <3>2, FirstFacts
    <3> QED
      BY <3>2, <3>3
  <2>3. CASE g # fst
    BY <1>3, <2>3
  <2> QED
    BY <2>2, <2>3
<1> QED
  BY <1>4, <1>5, <1>6, <1>7 DEF GroupFirst, g

\* What MoveFlits does with each flit.
LEMMA MoveFlitsFacts ==
  ASSUME NEW p \in Packets, trace[p] \in [1 .. Length[p] -> Places], Worm(p),
         next[p] \in Places
  PROVE  /\ MoveFlits(p) \in [1 .. Length[p] -> Places]
         /\ \A i \in 1 .. Length[p] :
              \/ /\ ~switched[p] /\ trace[p][i] = trace[p][1]
                 /\ MoveFlits(p)[i] = trace[p][i]
              \/ \E g \in 1 .. i : GroupFirst(p, g, i)
         /\ \A i \in 1 .. Length[p], g \in 1 .. Length[p] : GroupFirst(p, g, i) =>
              MoveFlits(p)[i] = IF i - g < Width[BufferOf(Ahead(p, g))]
                                THEN Ahead(p, g) ELSE trace[p][i]
<1> DEFINE fst == First(p)
           lead == IF switched[p] THEN next[p] ELSE HeadAt(p)
           G(i) == GroupOf(p, i, fst)
           A(i) == IF G(i) = fst THEN lead ELSE trace[p][G(i) - 1]
           f == [i \in 1 .. Length[p] |->
                  IF i >= fst /\ i - G(i) < Width[BufferOf(A(i))] THEN A(i) ELSE trace[p][i]]
<1>1. Length[p] \in Nat /\ 1 \in 1 .. Length[p] /\ fst \in 1 .. Length[p] + 1
  BY Constants, FirstFacts
<1>2. MoveFlits(p) = f
  BY DEF MoveFlits, First
<1>3. ASSUME NEW i \in 1 .. Length[p], fst <= i
      PROVE  GroupFirst(p, G(i), i) /\ A(i) = Ahead(p, G(i)) /\ A(i) \in Places
  <2> DEFINE g == G(i)
  <2>1. GroupFirst(p, g, i)
    BY <1>3, GroupOfFacts
  <2> HIDE DEF g
  <2>2. g \in 1 .. i /\ (g = 1 => switched[p])
    BY <2>1 DEF GroupFirst
  <2>3. CASE g = 1
    <3>1. fst = 1
      BY <2>2, <2>3, FirstFacts
    <3> QED
      BY <2>1, <2>2, <2>3, <3>1 DEF Ahead, g
  <2>4. CASE g # 1
    <3>1. g - 1 \in 1 .. Length[p]
      BY <1>1, <2>2, <2>4
    <3>2. CASE g = fst
      <4>1. ~switched[p] /\ g - 1 < fst
        BY <1>1, <2>2, <2>4, <3>2, FirstFacts
      <4>2. trace[p][g - 1] = trace[p][1]
        BY <3>1, <4>1, FirstFacts
      <4> QED
        BY <2>1, <2>4, <3>1, <3>2, <4>1, <4>2 DEF Ahead, g, HeadAt
    <3>3. CASE g # fst
      BY <2>1, <2>4, <3>1, <3>3 DEF Ahead, g
    <3> QED
      BY <3>2, <3>3
  <2> QED
    BY <2>3, <2>4
<1>4. f \in [1 .. Length[p] -> Places]
  <2> HIDE DEF A, fst, G
  <2> QED
    BY <1>1, <1>3
<1>5. ASSUME NEW i \in 1 .. Length[p]
      PROVE  \/ ~switched[p] /\ trace[p][i] = trace[p][1] /\ f[i] = trace[p][i]
             \/ \E g \in 1 .. i : GroupFirst(p, g, i)
  <2>1. CASE i < fst
    <3>1. ~switched[p] /\ trace[p][i] = trace[p][1]
      BY <2>1, FirstFacts
    <3>2. ~(i >= fst)
      BY <1>1, <2>1
    <3> HIDE DEF A, G, fst
    <3>3. f[i] = trace[p][i]
      BY <3>2
    <3> QED
      BY <3>1, <3>3
  <2>2. CASE fst <= i
    BY <1>3, <2>2 DEF GroupFirst
  <2> QED
    BY <1>1, <2>1, <2>2
<1>6. ASSUME NEW i \in 1 .. Length[p], NEW g \in 1 .. Length[p], GroupFirst(p, g, i)
      PROVE  f[i] = IF i - g < Width[BufferOf(Ahead(p, g))] THEN Ahead(p, g) ELSE trace[p][i]
  <2>1. fst <= i
    <3>1. SUFFICES ASSUME i < fst PROVE FALSE
      BY <1>1
    <3>2. ~switched[p] /\ trace[p][i] = trace[p][1]
      BY <3>1, FirstFacts
    <3>3. g \in 1 .. i /\ g # 1 /\ trace[p][g - 1] # trace[p][i]
      BY <1>6, <3>2 DEF GroupFirst
    <3>4. g - 1 \in 1 .. i /\ i \in 1 .. Length[p] /\ 1 \in 1 .. Length[p]
      BY <1>1, <3>3
    <3> QED
      BY <3>2, <3>3, <3>4, SamePlace
  <2>2. GroupFirst(p, G(i), i) /\ A(i) = Ahead(p, G(i))
    BY <1>3, <2>1
  <2>3. G(i) = g
    BY <1>6, <2>2, GroupUnique
  <2> HIDE DEF A, G, fst
  <2> QED
    BY <2>1, <2>2, <2>3
<1> HIDE DEF f
<1> QED
  BY <1>2, <1>4, <1>5, <1>6

-----------------------------------------------------------------------------
(* Where the flits are after Move.                                         *)

\* A place where packet p is before, or where its head goes with a switch.
Reaches(p, c) == (\E i \in 1 .. Length[p] : trace[p][i] = c) \/ (switched[p] /\ c = next[p])

LEMMA AheadHop ==
  ASSUME NEW p \in Packets, trace[p] \in [1 .. Length[p] -> Places], Worm(p),
         switched[p] => next[p] # Source,
         NEW i \in 1 .. Length[p], NEW g, GroupFirst(p, g, i)
  PROVE  /\ Hop(p, trace[p][i], Ahead(p, g))
         /\ Ahead(p, g) \in Channels /\ Ahead(p, g) # trace[p][i]
         /\ Width[BufferOf(Ahead(p, g))] \in Nat \ {0}
         /\ Reaches(p, Ahead(p, g))
<1>1. Length[p] \in Nat /\ g \in 1 .. i
  BY Constants DEF GroupFirst
<1>2. trace[p][g] = trace[p][i]
  BY <1>1 DEF GroupFirst
<1>3. Hop(p, trace[p][i], Ahead(p, g)) /\ Reaches(p, Ahead(p, g))
  <2>1. CASE g = 1
    <3>1. Ahead(p, g) = next[p] /\ HeadAt(p) = trace[p][i] /\ switched[p]
      BY <1>2, <2>1 DEF Ahead, HeadAt, GroupFirst
    <3> QED
      BY <3>1 DEF Worm, Reaches
  <2>2. CASE g # 1
    <3>1. g - 1 \in 1 .. Length[p] - 1 /\ (g - 1) + 1 = g /\ g - 1 \in 1 .. Length[p]
      BY <1>1, <2>2
    <3>2. trace[p][g - 1] # trace[p][i] /\ Ahead(p, g) = trace[p][g - 1]
      BY <1>1, <2>2 DEF GroupFirst, Ahead
    <3>3. trace[p][g - 1] = trace[p][g] \/ Hop(p, trace[p][g], trace[p][g - 1])
      BY <3>1 DEF Worm
    <3> QED
      BY <1>2, <3>1, <3>2, <3>3 DEF Reaches
  <2> QED
    BY <2>1, <2>2
<1>4. NodeAt(p, trace[p][i]) \in Way[p]
  BY DEF Worm
<1>5. /\ Ahead(p, g) \in Channels
      /\ Rank[p][NodeAt(p, Ahead(p, g))] < Rank[p][NodeAt(p, trace[p][i])]
  BY <1>3, <1>4, HopFacts
<1>6. Rank[p][NodeAt(p, trace[p][i])] \in Nat
  BY <1>4, WayAndRank
<1>7. Ahead(p, g) # trace[p][i]
  BY <1>5, <1>6
<1>8. Width[BufferOf(Ahead(p, g))] \in Nat \ {0}
  BY <1>5, Constants, NetworkAssumption
<1> QED
  BY <1>3, <1>5, <1>7, <1>8

\* The channel allocated next is in a buffer where the packet has not been.
LEMMA NextIsNew ==
  ASSUME NEW p \in Packets, trace[p] \in [1 .. Length[p] -> Places], Worm(p),
         NEW c, Hop(p, HeadAt(p), c), NEW i \in 1 .. Length[p]
  PROVE  /\ BufferOf(trace[p][i]) # BufferOf(c)
         /\ trace[p][i] # c
         /\ NodeAt(p, trace[p][i]) # Dst[p]
<1> DEFINE r(d) == Rank[p][NodeAt(p, d)]
<1>1. 1 \in 1 .. Length[p] /\ i \in 1 .. Length[p] /\ HeadAt(p) = trace[p][1]
  BY Constants DEF HeadAt
<1>2. NodeAt(p, trace[p][1]) \in Way[p] /\ NodeAt(p, trace[p][i]) \in Way[p]
  BY <1>1 DEF Worm
<1>3. c \in Channels /\ NodeAt(p, c) \in Way[p] /\ r(c) < r(trace[p][1])
  BY <1>1, <1>2, HopFacts
<1>4. r(c) \in Nat /\ r(trace[p][1]) \in Nat /\ r(trace[p][i]) \in Nat
  BY <1>2, <1>3, WayAndRank
<1>5. \/ trace[p][1] = trace[p][i]
      \/ NodeAt(p, trace[p][i]) # Dst[p] /\ r(trace[p][1]) < r(trace[p][i])
  BY <1>1, WormOrder
<1>6. r(trace[p][1]) <= r(trace[p][i])
  <2> HIDE DEF r
  <2> QED
    BY <1>4, <1>5 DEF r
<1>7. BufferOf(trace[p][i]) # BufferOf(c)
  <2>1. SUFFICES ASSUME BufferOf(trace[p][i]) = BufferOf(c) PROVE FALSE
    OBVIOUS
  <2>2. trace[p][i] \in Channels
    BY <1>3, <2>1, Constants
  <2>3. NodeAt(p, trace[p][i]) = NodeAt(p, c)
    BY <1>3, <2>1, <2>2, Constants
  <2>4. r(trace[p][i]) = r(c)
    BY <2>3
  <2> HIDE DEF r
  <2> QED
    BY <1>3, <1>4, <1>6, <2>4
<1>8. NodeAt(p, trace[p][i]) # Dst[p]
  BY <1>1, <1>5 DEF Hop
<1> QED
  BY <1>7, <1>8

\* After Move the packet is where it was and where its head went, except that it
\* has left the place of its tail if the tail moved.
LEMMA MovedPlaces ==
  ASSUME NEW p \in Packets, trace[p] \in [1 .. Length[p] -> Places], Worm(p),
         next[p] \in Places, switched[p] => next[p] # Source,
         NEW c
  PROVE  (\E i \in 1 .. Length[p] : MoveFlits(p)[i] = c)
           <=> Reaches(p, c) /\ (c = TailAt(p) => MoveFlits(p)[Length[p]] = c)
<1> DEFINE f == MoveFlits(p)
           t == trace[p]
           L == Length[p]
<1>1. L \in Nat /\ 1 \in 1 .. L /\ L \in 1 .. L /\ TailAt(p) = t[L]
  BY Constants DEF TailAt
<1>2. /\ \A i \in 1 .. L : (~switched[p] /\ t[i] = t[1] /\ f[i] = t[i])
                             \/ \E g \in 1 .. i : GroupFirst(p, g, i)
      /\ \A i \in 1 .. L, g \in 1 .. L : GroupFirst(p, g, i) =>
           f[i] = IF i - g < Width[BufferOf(Ahead(p, g))] THEN Ahead(p, g) ELSE t[i]
  BY MoveFlitsFacts
<1> HIDE DEF f
<1>3. ASSUME NEW i \in 1 .. L, f[i] = t[L], f[L] # t[L]
      PROVE  FALSE
  <2>1. PICK g \in 1 .. L : GroupFirst(p, g, L)
    BY <1>1, <1>2, <1>3
  <2>2. f[L] = Ahead(p, g) /\ L - g < Width[BufferOf(Ahead(p, g))]
    BY <1>1, <1>2, <1>3, <2>1
  <2>3. ASSUME NEW h \in 1 .. L, t[h] = t[L], NEW j \in h .. L
        PROVE  t[j] = t[L]
    BY <1>1, <2>3, SamePlace
  <2>4. t[i] = t[L]
    <3>1. SUFFICES ASSUME t[i] # t[L] PROVE FALSE
      OBVIOUS
    <3>2. PICK e \in 1 .. i : GroupFirst(p, e, i)
      BY <1>2, <1>3, <3>1
    <3>3. f[i] = Ahead(p, e)
      BY <1>1, <1>2, <1>3, <3>1, <3>2
    <3>4. CASE e = 1
      <4>1. switched[p] /\ t[L] = next[p]
        BY <1>3, <3>2, <3>3, <3>4 DEF Ahead, GroupFirst
      <4>2. Hop(p, HeadAt(p), next[p])
        BY <4>1 DEF Worm
      <4> QED
        BY <1>1, <4>1, <4>2, NextIsNew
    <3>5. CASE e # 1
      <4>1. e - 1 \in 1 .. L /\ i \in e - 1 .. L /\ t[e - 1] = t[L]
        BY <1>1, <1>3, <3>2, <3>3, <3>5 DEF Ahead
      <4> QED
        BY <2>3, <3>1, <4>1
    <3> QED
      BY <3>4, <3>5
  <2>5. CASE ~switched[p] /\ t[i] = t[1]
    <3>1. g # 1 /\ t[g - 1] # t[L]
      BY <1>1, <2>1, <2>5 DEF GroupFirst
    <3>2. g - 1 \in 1 .. L
      BY <1>1, <3>1
    <3> QED
      BY <1>1, <2>3, <2>4, <2>5, <3>1, <3>2
  <2>6. ASSUME NEW e \in 1 .. i, GroupFirst(p, e, i)
        PROVE  FALSE
    <3>1. e \in 1 .. L /\ t[e] = t[L] /\ i \in Nat
      BY <1>1, <2>4, <2>6 DEF GroupFirst
    <3>2. GroupFirst(p, e, L)
      <4>1. \A h \in e .. L : t[h] = t[L]
        BY <2>3, <3>1
      <4> QED
        BY <1>1, <2>4, <2>6, <3>1, <4>1 DEF GroupFirst
    <3>3. e = g
      BY <1>1, <2>1, <3>2, GroupUnique
    <3>4. Width[BufferOf(Ahead(p, g))] \in Nat /\ Ahead(p, g) # t[i]
      BY <2>6, <3>3, AheadHop
    <3>5. i - g < Width[BufferOf(Ahead(p, g))]
      BY <1>1, <2>2, <3>1, <3>4
    <3>6. f[i] = Ahead(p, g)
      BY <1>2, <2>6, <3>1, <3>3, <3>5
    <3> QED
      BY <1>3, <2>4, <3>4, <3>6
  <2> QED
    BY <1>2, <2>5, <2>6
<1>4. ASSUME NEW i \in 1 .. L, f[i] = c
      PROVE  Reaches(p, c)
  <2>1. CASE f[i] = t[i]
    BY <1>4, <2>1 DEF Reaches
  <2>2. CASE f[i] # t[i]
    <3>1. PICK g \in 1 .. i : GroupFirst(p, g, i)
      BY <1>2, <2>2
    <3>2. f[i] = Ahead(p, g)
      BY <1>1, <1>2, <2>2, <3>1
    <3> QED
      BY <1>4, <3>1, <3>2, AheadHop
  <2> QED
    BY <2>1, <2>2
<1>5. ASSUME switched[p]
      PROVE  f[1] = next[p]
  <2>1. GroupFirst(p, 1, 1) /\ Ahead(p, 1) = next[p]
    BY <1>5 DEF GroupFirst, Ahead
  <2>2. Width[BufferOf(Ahead(p, 1))] \in Nat \ {0}
    BY <1>1, <2>1, AheadHop
  <2>3. 1 - 1 < Width[BufferOf(Ahead(p, 1))]
    BY <2>2
  <2> QED
    BY <1>1, <1>2, <2>1, <2>3
<1>6. ASSUME NEW j \in 1 .. L, t[j] = c, c # t[L]
      PROVE  \E i \in 1 .. L : f[i] = c
  <2> DEFINE S == {i \in j .. L : t[i] # c}
  <2>1. L \in S /\ S \in SUBSET Nat
    BY <1>1, <1>6
  <2> HIDE DEF S
  <2>2. PICK i \in S : \A h \in S : i <= h
    BY <2>1, LeastElement
  <2>3. i \in j .. L /\ t[i] # c /\ i # j
    BY <1>6, <2>2 DEF S
  <2>4. i - 1 \in j .. L /\ i - 1 \notin S /\ i \in 1 .. L /\ i - 1 \in 1 .. i /\ i # 1
    BY <1>1, <2>1, <2>2, <2>3
  <2>5. t[i - 1] = c
    BY <2>4 DEF S
  <2>6. t[i] # t[1]
    <3>1. SUFFICES ASSUME t[i] = t[1] PROVE FALSE
      OBVIOUS
    <3>2. i - 1 \in 1 .. i /\ i \in 1 .. L
      BY <2>4
    <3> QED
      BY <1>1, <2>3, <2>5, <3>1, <3>2, SamePlace
  <2>7. PICK g \in 1 .. i : GroupFirst(p, g, i)
    BY <1>2, <2>4, <2>6
  <2>8. g = i
    <3>1. i - 1 \notin g .. i
      BY <2>3, <2>5, <2>7 DEF GroupFirst
    <3> QED
      BY <1>1, <2>4, <2>7, <3>1
  <2>9. Ahead(p, i) = c /\ GroupFirst(p, i, i)
    BY <2>4, <2>5, <2>7, <2>8 DEF Ahead
  <2>10. Width[BufferOf(Ahead(p, i))] \in Nat \ {0}
    BY <2>4, <2>9, AheadHop
  <2>11. i - i < Width[BufferOf(Ahead(p, i))]
    BY <2>4, <2>10
  <2>12. f[i] = c
    BY <1>2, <2>4, <2>9, <2>11
  <2> QED
    BY <2>4, <2>12
<1>7. (\E i \in 1 .. L : f[i] = c) => Reaches(p, c) /\ (c = t[L] => f[L] = c)
  BY <1>3, <1>4
<1>8. Reaches(p, c) /\ (c = t[L] => f[L] = c) => \E i \in 1 .. L : f[i] = c
  BY <1>1, <1>5, <1>6 DEF Reaches
<1> QED
  BY <1>1, <1>7, <1>8 DEF f

\* The head goes where it has a switch to; the tail stays or takes a hop.
LEMMA MovedEnds ==
  ASSUME NEW p \in Packets, trace[p] \in [1 .. Length[p] -> Places], Worm(p),
         next[p] \in Places, switched[p] => next[p] # Source
  PROVE  /\ MoveFlits(p)[1] = IF switched[p] THEN next[p] ELSE HeadAt(p)
         /\ \A i \in 1 .. Length[p] :
              MoveFlits(p)[i] = trace[p][i] \/ Hop(p, trace[p][i], MoveFlits(p)[i])
<1> DEFINE f == MoveFlits(p)
           t == trace[p]
           L == Length[p]
<1>1. L \in Nat /\ 1 \in 1 .. L
  BY Constants
<1>2. /\ \A i \in 1 .. L : (~switched[p] /\ t[i] = t[1] /\ f[i] = t[i])
                             \/ \E g \in 1 .. i : GroupFirst(p, g, i)
      /\ \A i \in 1 .. L, g \in 1 .. L : GroupFirst(p, g, i) =>
           f[i] = IF i - g < Width[BufferOf(Ahead(p, g))] THEN Ahead(p, g) ELSE t[i]
  BY MoveFlitsFacts
<1> HIDE DEF f
<1>3. ASSUME switched[p]
      PROVE  f[1] = next[p]
  <2>1. GroupFirst(p, 1, 1) /\ Ahead(p, 1) = next[p]
    BY <1>3 DEF GroupFirst, Ahead
  <2>2. Width[BufferOf(Ahead(p, 1))] \in Nat \ {0}
    BY <1>1, <2>1, AheadHop
  <2>3. 1 - 1 < Width[BufferOf(Ahead(p, 1))]
    BY <2>2
  <2> QED
    BY <1>1, <1>2, <2>1, <2>3
<1>4. ASSUME ~switched[p]
      PROVE  f[1] = HeadAt(p)
  <2>1. ~ \E g \in 1 .. 1 : GroupFirst(p, g, 1)
    BY <1>4 DEF GroupFirst
  <2>2. f[1] = t[1]
    BY <1>1, <1>2, <2>1
  <2> QED
    BY <2>2 DEF HeadAt
<1>5. ASSUME NEW i \in 1 .. L
      PROVE  f[i] = t[i] \/ Hop(p, t[i], f[i])
  <2>1. SUFFICES ASSUME f[i] # t[i] PROVE Hop(p, t[i], f[i])
    OBVIOUS
  <2>2. PICK g \in 1 .. i : GroupFirst(p, g, i)
    BY <1>2, <2>1
  <2>3. f[i] = Ahead(p, g)
    BY <1>1, <1>2, <2>1, <2>2
  <2> QED
    BY <2>2, <2>3, AheadHop
<1> QED
  BY <1>3, <1>4, <1>5 DEF f

\* The worm stays connected.
LEMMA MovedWorm ==
  ASSUME NEW p \in Packets, trace[p] \in [1 .. Length[p] -> Places], Worm(p),
         next[p] \in Places, switched[p] => next[p] # Source
  PROVE  /\ \A i \in 1 .. Length[p] : NodeAt(p, MoveFlits(p)[i]) \in Way[p]
         /\ \A i \in 1 .. Length[p] - 1 :
              \/ MoveFlits(p)[i] = MoveFlits(p)[i + 1]
              \/ Hop(p, MoveFlits(p)[i + 1], MoveFlits(p)[i])
<1> DEFINE f == MoveFlits(p)
           t == trace[p]
           L == Length[p]
<1>1. L \in Nat /\ 1 \in 1 .. L
  BY Constants
<1>2. /\ \A i \in 1 .. L : (~switched[p] /\ t[i] = t[1] /\ f[i] = t[i])
                             \/ \E g \in 1 .. i : GroupFirst(p, g, i)
      /\ \A i \in 1 .. L, g \in 1 .. L : GroupFirst(p, g, i) =>
           f[i] = IF i - g < Width[BufferOf(Ahead(p, g))] THEN Ahead(p, g) ELSE t[i]
  BY MoveFlitsFacts
<1>3. ASSUME NEW i \in 1 .. L
      PROVE  NodeAt(p, f[i]) \in Way[p]
  <2>1. f[i] = t[i] \/ Hop(p, t[i], f[i])
    BY MovedEnds
  <2>2. NodeAt(p, t[i]) \in Way[p]
    BY DEF Worm
  <2> HIDE DEF f
  <2> QED
    BY <2>1, <2>2, HopFacts
<1> HIDE DEF f
<1>4. ASSUME NEW i \in 1 .. L - 1
      PROVE  f[i] = f[i + 1] \/ Hop(p, f[i + 1], f[i])
  <2>1. i \in 1 .. L /\ i + 1 \in 1 .. L /\ i \in Nat
    BY <1>1
  <2>2. CASE ~switched[p] /\ t[i + 1] = t[1] /\ f[i + 1] = t[i + 1]
    <3>1. t[i] = t[1]
      <4>1. i \in 1 .. i + 1
        BY <2>1
      <4> QED
        BY <1>1, <2>1, <2>2, <4>1, SamePlace
    <3>2. ASSUME NEW g \in 1 .. i, GroupFirst(p, g, i)
          PROVE  FALSE
      <4>1. g # 1 /\ t[g - 1] # t[i]
        BY <2>1, <2>2, <3>2 DEF GroupFirst
      <4>2. g - 1 \in 1 .. i
        BY <2>1, <4>1
      <4> QED
        BY <1>1, <2>1, <3>1, <4>1, <4>2, SamePlace
    <3>3. f[i] = t[i]
      BY <1>2, <2>1, <3>2
    <3> QED
      BY <2>2, <3>1, <3>3
  <2>3. ASSUME NEW g \in 1 .. i + 1, GroupFirst(p, g, i + 1)
        PROVE  f[i] = f[i + 1] \/ Hop(p, f[i + 1], f[i])
    <3> DEFINE W == Width[BufferOf(Ahead(p, g))]
    <3>1. g \in 1 .. L /\ W \in Nat \ {0} /\ Hop(p, t[i + 1], Ahead(p, g))
      BY <1>1, <2>1, <2>3, AheadHop
    <3>2. f[i + 1] = IF (i + 1) - g < W THEN Ahead(p, g) ELSE t[i + 1]
      BY <1>2, <2>1, <2>3, <3>1
    <3>3. CASE g = i + 1
      <4>1. f[i + 1] = Ahead(p, g)
        BY <2>1, <3>1, <3>2, <3>3
      <4>2. Ahead(p, g) = t[i]
        BY <2>1, <3>3 DEF Ahead
      <4>3. f[i] = t[i] \/ Hop(p, t[i], f[i])
        BY <2>1, MovedEnds DEF f
      <4> QED
        BY <4>1, <4>2, <4>3
    <3>4. CASE g # i + 1
      <4>1. g \in 1 .. i /\ t[i] = t[i + 1] /\ i \in g .. i + 1
        BY <2>1, <2>3, <3>4 DEF GroupFirst
      <4>2. GroupFirst(p, g, i)
        BY <2>1, <2>3, <4>1 DEF GroupFirst
      <4>3. f[i] = IF i - g < W THEN Ahead(p, g) ELSE t[i]
        BY <1>2, <2>1, <3>1, <4>2
      <4>4. (i + 1) - g < W => i - g < W
        BY <2>1, <3>1
      <4> HIDE DEF W
      <4>5. CASE (i + 1) - g < W
        BY <3>2, <4>3, <4>4, <4>5
      <4>6. CASE ~((i + 1) - g < W)
        BY <3>1, <3>2, <4>1, <4>3, <4>6
      <4> QED
        BY <4>5, <4>6
    <3> QED
      BY <3>3, <3>4
  <2> QED
    BY <1>2, <2>1, <2>2, <2>3
<1> QED
  BY <1>3, <1>4 DEF f

\* The flits that enter a buffer in one step come over the link to it, from one
\* group, and they are not more than the link is wide.
LEMMA MovedWidth ==
  ASSUME NEW p \in Packets, trace[p] \in [1 .. Length[p] -> Places], Worm(p),
         next[p] \in Places, switched[p] => next[p] # Source,
         NEW b \in Buffers,
         NEW entered, entered = {i \in 1 .. Length[p] :
                                   MoveFlits(p)[i] # trace[p][i] /\ BufferOf(MoveFlits(p)[i]) = b}
  PROVE  /\ Cardinality(entered) <= Width[b]
         /\ \A i \in entered : NodeAt(p, trace[p][i]) = UpNode[b]
<1> DEFINE f == MoveFlits(p)
           t == trace[p]
           L == Length[p]
<1>1. L \in Nat /\ 1 \in 1 .. L /\ Width[b] \in Nat \ {0}
  BY Constants, NetworkAssumption
<1>2. ASSUME NEW i \in entered
      PROVE  /\ \E g \in 1 .. i : GroupFirst(p, g, i) /\ Ahead(p, g) = f[i] /\ i - g < Width[b]
             /\ NodeAt(p, t[i]) = UpNode[b]
  <2>1. i \in 1 .. L /\ f[i] # t[i] /\ BufferOf(f[i]) = b
    OBVIOUS
  <2> HIDE DEF f
  <2>2. PICK g \in 1 .. i : GroupFirst(p, g, i)
    BY <2>1, MoveFlitsFacts DEF f
  <2>3. g \in 1 .. L
    BY <1>1, <2>1, <2>2
  <2>4. f[i] = IF i - g < Width[BufferOf(Ahead(p, g))] THEN Ahead(p, g) ELSE t[i]
    BY <2>1, <2>2, <2>3, MoveFlitsFacts DEF f
  <2>5. f[i] = Ahead(p, g) /\ i - g < Width[b]
    BY <2>1, <2>4
  <2>6. Hop(p, t[i], f[i])
    BY <2>1, <2>2, <2>5, AheadHop
  <2>7. NodeAt(p, t[i]) \in Way[p]
    BY <2>1 DEF Worm
  <2> QED
    BY <2>1, <2>2, <2>5, <2>6, <2>7, HopFacts
<1> HIDE DEF f
<1>3. ASSUME NEW i \in entered, NEW j \in entered, i <= j
      PROVE  j - i < Width[b]
  <2>1. i \in 1 .. L /\ j \in 1 .. L /\ f[i] # t[i] /\ f[j] # t[j] /\ BufferOf(f[i]) = BufferOf(f[j])
    BY DEF f
  <2>2. PICK g \in 1 .. i : GroupFirst(p, g, i) /\ Ahead(p, g) = f[i] /\ i - g < Width[b]
    BY <1>2
  <2>3. PICK h \in 1 .. j : GroupFirst(p, h, j) /\ Ahead(p, h) = f[j] /\ j - h < Width[b]
    BY <1>2
  <2>4. h <= g
    <3>1. SUFFICES ASSUME g < h PROVE FALSE
      BY <1>1, <2>1, <2>2, <2>3
    <3>2. h - 1 \in 1 .. L /\ f[j] = t[h - 1]
      BY <1>1, <2>1, <2>2, <2>3, <3>1 DEF Ahead
    <3>3. CASE g = 1
      <4>1. switched[p] /\ f[i] = next[p]
        BY <2>2, <3>3 DEF GroupFirst, Ahead
      <4>2. Hop(p, HeadAt(p), next[p])
        BY <4>1 DEF Worm
      <4> QED
        BY <2>1, <3>2, <4>1, <4>2, NextIsNew
    <3>4. CASE g # 1
      <4>1. g - 1 \in 1 .. L /\ f[i] = t[g - 1] /\ g \in 1 .. L
        BY <1>1, <2>1, <2>2, <3>4 DEF Ahead
      <4>2. t[g - 1] = t[h - 1]
        BY <2>1, <3>2, <4>1, SameBuffer
      <4>3. h - 1 \in g - 1 .. L /\ g \in g - 1 .. h - 1
        BY <1>1, <2>1, <2>2, <2>3, <3>1, <3>2, <4>1
      <4>4. t[g] = t[g - 1]
        BY <4>1, <4>2, <4>3, SamePlace
      <4>5. t[g - 1] # t[i] /\ t[g] = t[i]
        BY <2>1, <2>2, <3>4 DEF GroupFirst
      <4> QED
        BY <4>4, <4>5
    <3> QED
      BY <3>3, <3>4
  <2> QED
    BY <1>1, <2>1, <2>2, <2>3, <2>4
<1>4. ASSUME entered = {}
      PROVE  Cardinality(entered) <= Width[b]
  <2>1. Cardinality({}) = 0
    BY FS_EmptySet
  <2>2. 0 <= Width[b]
    BY <1>1
  <2> QED
    BY <1>4, <2>1, <2>2, Zenon
<1>5. ASSUME entered # {}
      PROVE  Cardinality(entered) <= Width[b]
  <2>1. entered \in SUBSET Nat /\ entered \subseteq 1 .. L
    BY <1>1
  <2>2. PICK i \in entered : \A j \in entered : i <= j
    BY <1>5, <2>1, LeastElement
  <2>3. i \in Nat
    BY <2>1
  <2> DEFINE last == i + Width[b] - 1
  <2>4. entered \in SUBSET (i .. last)
    <3>1. ASSUME NEW j \in entered
          PROVE  j \in i .. last
      BY <1>1, <1>3, <2>1, <2>2, <2>3
    <3> QED
      BY <3>1
  <2>5. IsFiniteSet(i .. last) /\ Cardinality(i .. last) = Width[b]
    <3>1. i \in Int /\ last \in Int /\ ~(i > last) /\ last - i + 1 = Width[b]
      <4>1. i \in Nat /\ Width[b] \in Nat \ {0}
        BY <1>1, <2>3
      <4> QED
        BY ONLY <4>1
    <3> HIDE DEF last
    <3> QED
      BY <3>1, FS_Interval
  <2> HIDE DEF last
  <2>6. Cardinality(entered) <= Cardinality(i .. last)
    BY <2>4, <2>5, FS_Subset
  <2> QED
    BY <2>5, <2>6
<1> QED
  BY <1>2, <1>4, <1>5

-----------------------------------------------------------------------------
(* Types.                                                                  *)

LEMMA InitTyped == Init => Typed
<1> SUFFICES ASSUME Init PROVE Typed
  OBVIOUS
<1>1. \A p \in Packets : trace[p] \in [1 .. Length[p] -> Places]
  BY Constants DEF Init
<1>2. param.processing_time \in Nat
  BY NetworkAssumption DEF Init, ParamType
<1>3. procTimer \in [Packets -> 0 .. param.processing_time]
  BY <1>2 DEF Init
<1>4. BufferSize \in Int
  BY NetworkAssumption
<1> QED
  BY <1>1, <1>3, <1>4, Constants DEF Init, Typed, Locations

\* The places that a packet, and a new route, may name.
LEMMA PlacesNamed ==
  ASSUME Typed, NEW p \in Packets, Control(p), Worm(p)
  PROVE  /\ NodeAt(p, HeadAt(p)) # Dst[p] =>
              /\ Route(p, HeadAt(p)) \in Seq(Channels)
              /\ Len(Route(p, HeadAt(p))) \in Nat \ {0}
         /\ HeadAt(p) \in Places /\ TailAt(p) \in Places
         /\ pc[p] \in {"empty", "take", "any"} => Candidate(p) \in Channels
         /\ pc[p] \in {"switch", "inLink", "push", "giveBack"} \/ switched[p] => next[p] \in Channels
         /\ MoveFlits(p) \in [1 .. Length[p] -> Places]
<1>1. trace[p] \in [1 .. Length[p] -> Places] /\ next[p] \in Places /\ cand[p] \in Seq(Channels)
  BY DEF Typed
<1>2. HeadAt(p) \in Places /\ TailAt(p) \in Places
  BY <1>1, Constants DEF HeadAt, TailAt
<1>3. ASSUME NodeAt(p, HeadAt(p)) # Dst[p]
      PROVE  /\ Route(p, HeadAt(p)) \in Seq(Channels)
             /\ Len(Route(p, HeadAt(p))) \in Nat \ {0}
  <2> DEFINE r == Route(p, HeadAt(p))
  <2>1. NodeAt(p, HeadAt(p)) \in Way[p] \ {Dst[p]}
    BY <1>3, Constants DEF Worm, HeadAt
  <2>2. r \in Seq(Channels) /\ r # <<>>
    BY <1>2, <2>1, WayAndRank DEF LeadsOn
  <2> HIDE DEF r
  <2> QED
    BY <2>2, EmptySeq, LenProperties DEF r
<1>4. ASSUME pc[p] \in {"empty", "take", "any"}
      PROVE  Candidate(p) \in Channels
  BY <1>1, <1>4, ElementOfSeq DEF Control, Candidate
<1>5. ASSUME pc[p] \in {"switch", "inLink", "push", "giveBack"} \/ switched[p]
      PROVE  next[p] \in Channels
  BY <1>1, <1>5, Constants DEF Control
<1>6. MoveFlits(p) \in [1 .. Length[p] -> Places]
  BY <1>1, MoveFlitsFacts
<1> QED
  BY <1>2, <1>3, <1>4, <1>5, <1>6

\* The packet whose tail left a channel is still in front of its queue.
LEMMA LeavingInFront ==
  ASSUME Typed, InFront, NEW p \in Live, Left(p), release[p], leaving[p] # Source
  PROVE  /\ leaving[p] \in Channels
         /\ queue[leaving[p]] # <<>> /\ Head(queue[leaving[p]]) = p
         /\ HeadAt(p) # leaving[p] /\ ~Occupies(p, leaving[p])
         /\ DownNode[BufferOf(leaving[p])] # Dst[p]
<1>1. p \in Packets /\ leaving[p] \in Places
  BY DEF Typed, Live
<1>2. leaving[p] \in Channels /\ DownNode[BufferOf(leaving[p])] # Dst[p]
  BY <1>1, Constants DEF Left
<1>3. HeadAt(p) # leaving[p] /\ ~Occupies(p, leaving[p])
  BY <1>1, Constants DEF Left, HeadAt, Occupies
<1> QED
  BY <1>1, <1>2, <1>3 DEF InFront, Leads, Live

LEMMA NextTyped == Typed /\ Packed /\ InFront /\ [Next]_vars => Typed'
<1> SUFFICES ASSUME Typed, Packed, InFront, [Next]_vars
             PROVE  Typed'
  OBVIOUS
<1> USE DEF Locations
<1>1. CASE ReleaseLinks
  <2>1. inLink' \in [Buffers -> BOOLEAN] /\ swLink' \in [Buffers -> BOOLEAN]
    BY <1>1, Zenon DEF ReleaseLinks
  <2>2. ASSUME NEW c \in Channels
        PROVE  queue'[c] \in Seq(Packets)
    <3>1. queue[c] \in Seq(Packets)
      BY DEF Typed
    <3>2. CASE \E p \in {p \in Live : release[p]} : leaving[p] = c
      <4>1. PICK p \in Live : release[p] /\ leaving[p] = c
        BY <3>2
      <4>2. queue[c] # <<>>
        BY <4>1, LeavingInFront, Constants DEF Packed, Local, Live
      <4>3. queue'[c] = Tail(queue[c])
        BY <1>1, <3>2 DEF ReleaseLinks
      <4> QED
        BY <3>1, <4>2, <4>3, HeadTailProperties
    <3>3. CASE ~ \E p \in {p \in Live : release[p]} : leaving[p] = c
      <4>1. queue'[c] = queue[c]
        BY <1>1, <3>3 DEF ReleaseLinks
      <4> QED
        BY <3>1, <4>1
    <3> QED
      BY <3>2, <3>3
  <2>3. queue' \in [Channels -> Seq(Packets)]
    <3>1. queue' = [c \in Channels |-> queue'[c]]
      BY <1>1 DEF ReleaseLinks
    <3> QED
      BY <2>2, <3>1
  <2>4. status' \in [Packets -> {"new", "live", "gone"}]
    BY <1>1 DEF ReleaseLinks, Typed
  <2> QED
    BY <1>1, <2>1, <2>3, <2>4 DEF ReleaseLinks, Typed, Live
<1>2. CASE Reset
  <2>1. BufferSize \in Int
    BY NetworkAssumption
  <2>2. status' \in [Packets -> {"new", "live", "gone"}]
    BY <1>2 DEF Reset, Typed
  <2> QED
    BY <1>2, <2>1, <2>2 DEF Reset, Typed, packet
<1>3. CASE EndCycle
  BY <1>3 DEF EndCycle, Typed, packet, buffer
<1>4. ASSUME NEW p \in Packets, Generate(p)
      PROVE  Typed'
  BY <1>4 DEF Generate, Typed, packet, buffer
<1> USE DEF Goto
<1>5. ASSUME NEW p \in Packets, Begin(p)
      PROVE  Typed'
  <2>1. NodeAt(p, HeadAt(p)) # Dst[p] => Route(p, HeadAt(p)) \in Seq(Channels)
    BY PlacesNamed DEF Packed, Local
  <2>2. cand' \in [Packets -> Seq(Channels)]
    BY <1>5, <2>1 DEF Begin, Typed
  <2>3. procTimer' \in [Packets -> 0 .. param.processing_time]
    BY <1>5, NetworkAssumption DEF Begin, Typed, ParamType
  <2>4. linkTimer' \in [Packets -> Nat]
    <3>1. linkTimer \in [Packets -> Nat]
      BY DEF Typed
    <3> QED
      BY <1>5, <3>1 DEF Begin
  <2>5. pc' \in [Packets -> Locations]
    BY <1>5 DEF Begin, Typed, Stage
  <2> QED
    BY <1>5, <2>2, <2>3, <2>4, <2>5 DEF Begin, Typed, buffer
<1>6. ASSUME NEW p \in Packets, IsEmpty(p)
      PROVE  Typed'
  <2>1. k \in [Packets -> Nat] /\ pc \in [Packets -> Locations]
    BY DEF Typed
  <2>2. k' \in [Packets -> Nat] /\ pc' \in [Packets -> Locations]
    BY <1>6, <2>1 DEF IsEmpty, NextCandidate
  <2> QED
    BY <1>6, <2>2 DEF IsEmpty, Typed, cycle, packet, buffer
<1>7. ASSUME NEW p \in Packets, TakeEmpty(p) \/ TakeAny(p)
      PROVE  Typed'
  <2>1. Candidate(p) \in Channels
    BY <1>7, PlacesNamed DEF Packed, Local, TakeEmpty, TakeAny
  <2>2. Length[p] \in Nat
    BY Constants
  <2>3. /\ credit \in [Channels -> Int] /\ next \in [Packets -> Places]
        /\ k \in [Packets -> Nat] /\ pc \in [Packets -> Locations]
    BY DEF Typed
  <2>4. credit' \in [Channels -> Int]
    BY <1>7, <2>1, <2>2, <2>3 DEF TakeEmpty, TakeAny, TakeCandidate
  <2>5. next' \in [Packets -> Places]
    BY <1>7, <2>1, <2>3, Constants DEF TakeEmpty, TakeAny, TakeCandidate
  <2>6. pc' \in [Packets -> Locations] /\ k' \in [Packets -> Nat]
    <3>1. PICK l \in Locations, n \in Nat :
            pc' = [pc EXCEPT ![p] = l] /\ k' = [k EXCEPT ![p] = n]
      <4>1. k[p] \in Nat /\ k[p] + 1 \in Nat
        BY <2>3
      <4>2. CASE TakeCandidate(p)
        BY <4>2 DEF TakeCandidate
      <4>3. CASE NextCandidate(p, "empty", "any") \/ NextCandidate(p, "any", "move")
        BY <4>1, <4>3 DEF NextCandidate
      <4> QED
        BY <1>7, <4>2, <4>3 DEF TakeEmpty, TakeAny
    <3> QED
      BY <2>3, <3>1
  <2> QED
    BY <1>7, <2>4, <2>5, <2>6 DEF TakeEmpty, TakeAny, Typed, cycle
<1>8. ASSUME NEW p \in Packets, AllocateSwLink(p) \/ GiveBackSwLink(p)
      PROVE  Typed'
  <2>1. swLink' \in [Buffers -> BOOLEAN]
    BY <1>8 DEF AllocateSwLink, GiveBackSwLink, Typed
  <2>2. pc' \in [Packets -> Locations]
    <3>1. pc \in [Packets -> Locations]
      BY DEF Typed
    <3> QED
      <4>1. CASE AllocateSwLink(p)
        BY <3>1, <4>1 DEF AllocateSwLink
      <4>2. CASE GiveBackSwLink(p)
        BY <3>1, <4>2 DEF GiveBackSwLink
      <4> QED
        BY <1>8, <4>1, <4>2
  <2> QED
    <3>1. UNCHANGED <<cycle, packet, k, credit, queue, inLink>>
      BY <1>8 DEF AllocateSwLink, GiveBackSwLink
    <3> QED
      BY <2>1, <2>2, <3>1 DEF Typed, cycle, packet
<1>9. ASSUME NEW p \in Packets, AllocateInLink(p)
      PROVE  Typed'
  <2>1. inLink' \in [Buffers -> BOOLEAN] /\ switched' \in [Packets -> BOOLEAN]
    BY <1>9 DEF AllocateInLink, Typed
  <2>2. pc' \in [Packets -> Locations]
    <3>1. pc \in [Packets -> Locations]
      BY DEF Typed
    <3> QED
      BY <1>9, <3>1 DEF AllocateInLink
  <2> QED
    BY <1>9, <2>1, <2>2 DEF AllocateInLink, Typed, cycle
<1>10. ASSUME NEW p \in Packets, Push(p)
       PROVE  Typed'
  <2>1. queue' \in [Channels -> Seq(Packets)]
    <3>1. queue \in [Channels -> Seq(Packets)]
      BY DEF Typed
    <3>2. \A c \in Channels : Append(queue[c], p) \in Seq(Packets)
      BY <3>1
    <3> QED
      BY <1>10, <3>1, <3>2 DEF Push
  <2> QED
    BY <1>10, <2>1 DEF Push, Typed, cycle, packet
<1>11. ASSUME NEW p \in Packets, Move(p)
       PROVE  Typed'
  <2> DEFINE f == MoveFlits(p)
             old == TailAt(p)
  <2>1. f \in [1 .. Length[p] -> Places] /\ old \in Places
    BY PlacesNamed DEF Packed, Local
  <2>2. trace' = [trace EXCEPT ![p] = f]
    BY <1>11 DEF Move
  <2>3. trace' = [q \in Packets |-> trace'[q]] /\ \A q \in Packets : trace'[q] \in [1 .. Length[q] -> Places]
    <3> HIDE DEF f
    <3> QED
      BY <2>1, <2>2 DEF Typed
  <2>4. cand' \in [Packets -> Seq(Channels)] /\ next' \in [Packets -> Places]
    BY <1>11, Constants DEF Move, Typed
  <2>5. switched' \in [Packets -> BOOLEAN]
    BY <1>11 DEF Move, Typed
  <2>6. release' \in [Packets -> BOOLEAN]
    BY <1>11 DEF Move, Typed
  <2>7. leaving' \in [Packets -> Places]
    BY <1>11, <2>1 DEF Move, Typed
  <2>8. linkTimer' \in [Packets -> Nat]
    <3>1. switched[p] => Latency[BufferOf(next[p])] \in Nat
      BY PlacesNamed, Constants, NetworkAssumption DEF Packed, Local
    <3> QED
      BY <1>11, <3>1 DEF Move, Typed
  <2>9. credit' \in [Channels -> Int]
    <3>1. credit \in [Channels -> Int] /\ Length[p] \in Nat
      BY Constants DEF Typed
    <3>2. TailAt(p) # Source => TailAt(p) \in Channels
      BY <2>1, Constants
    <3> QED
      BY <1>11, <3>1, <3>2 DEF Move
  <2>10. pc' \in [Packets -> Locations]
    <3>1. pc \in [Packets -> Locations]
      BY DEF Typed
    <3> QED
      BY <1>11, <3>1 DEF Move
  <2> QED
    BY <1>11, <2>3, <2>4, <2>5, <2>6, <2>7, <2>8, <2>9, <2>10 DEF Move, Typed, cycle
<1>12. ASSUME NEW p \in Packets, Arrive(p)
       PROVE  Typed'
  <2>1. credit' \in [Channels -> Int]
    <3>1. credit \in [Channels -> Int] /\ Length[p] \in Nat
      BY Constants DEF Typed
    <3>2. TailAt(p) \in Channels
      <4>1. TailAt(p) \in Places
        BY PlacesNamed DEF Packed, Local
      <4>2. NodeAt(p, TailAt(p)) = Dst[p]
        BY <1>12 DEF Arrive, Packed, Local, Control
      <4> QED
        BY <4>1, <4>2, Constants
    <3> QED
      BY <1>12, <3>1, <3>2 DEF Arrive
  <2>2. finished' \in [Packets -> BOOLEAN]
    BY <1>12 DEF Arrive, Typed
  <2>3. pc' \in [Packets -> Locations]
    <3>1. pc \in [Packets -> Locations]
      BY DEF Typed
    <3> QED
      BY <1>12, <3>1 DEF Arrive
  <2> QED
    BY <1>12, <2>1, <2>2, <2>3 DEF Arrive, Typed, cycle
<1>13. CASE UNCHANGED vars
  BY <1>13 DEF vars, cycle, packet, buffer, Typed
<1> QED
  BY <1>1, <1>2, <1>3, <1>4, <1>5, <1>6, <1>7, <1>8, <1>9, <1>10, <1>11, <1>12, <1>13
     DEF Next, Update

-----------------------------------------------------------------------------
(* One packet: what it has got, and where its flits are.                   *)

\* An update of another packet leaves all that is a packet's own alone.
Untouched(p) ==
  /\ trace'[p] = trace[p] /\ cand'[p] = cand[p] /\ next'[p] = next[p]
  /\ switched'[p] = switched[p] /\ linkTimer'[p] = linkTimer[p]
  /\ finished'[p] = finished[p] /\ release'[p] = release[p] /\ leaving'[p] = leaving[p]
  /\ pc'[p] = pc[p] /\ k'[p] = k[p]

LEMMA UpdateFrame ==
  ASSUME Typed, NEW q \in Packets, Update(q)
  PROVE  /\ UNCHANGED <<param, phase, status>>
         /\ \A p \in Packets : p # q => Untouched(p) /\ (p \in todo' <=> p \in todo)
<1> USE DEF Untouched, Goto, cycle, packet, buffer
<1>1. CASE Begin(q)
  BY <1>1 DEF Begin, Typed
<1>2. CASE IsEmpty(q)
  BY <1>2 DEF IsEmpty, NextCandidate, Typed
<1>3. CASE TakeEmpty(q) \/ TakeAny(q)
  BY <1>3 DEF TakeEmpty, TakeAny, TakeCandidate, NextCandidate, Typed
<1>4. CASE AllocateSwLink(q) \/ GiveBackSwLink(q) \/ Push(q)
  BY <1>4 DEF AllocateSwLink, GiveBackSwLink, Push, Typed
<1>5. CASE AllocateInLink(q)
  BY <1>5 DEF AllocateInLink, Typed
<1>6. CASE Move(q)
  BY <1>6 DEF Move, Typed
<1>7. CASE Arrive(q)
  BY <1>7 DEF Arrive, Typed
<1> QED
  BY <1>1, <1>2, <1>3, <1>4, <1>5, <1>6, <1>7 DEF Update

LEMMA UntouchedLocal ==
  ASSUME NEW p \in Packets, Local(p), Untouched(p), UNCHANGED phase,
         status'[p] = status[p], p \in todo' <=> p \in todo
  PROVE  Local(p)'
<1> USE DEF Untouched, HeadAt, TailAt
<1>1. Control(p)'
  BY DEF Local, Control
<1>2. Worm(p)'
  BY DEF Local, Worm
<1>3. Left(p)'
  BY DEF Local, Left
<1>4. OnItsWay(p)'
  BY DEF Local, OnItsWay
<1> QED
  BY <1>1, <1>2, <1>3, <1>4 DEF Local

LEMMA BeginLocal ==
  ASSUME Typed, NEW p \in Packets, Local(p), Begin(p)
  PROVE  Local(p)'
<1>1. /\ pc[p] = "idle" /\ ~finished[p] /\ ~release[p] /\ ~switched[p]
      /\ phase = "update" /\ status[p] = "live" /\ p \in todo /\ k[p] = 1
  BY DEF Begin, Local, Control
<1>2. /\ UNCHANGED <<phase, status, trace, next, switched, finished, release, leaving>>
      /\ p \notin todo' /\ k'[p] = 1
  BY DEF Begin, Typed
<1>3. HeadAt(p)' = HeadAt(p) /\ TailAt(p)' = TailAt(p)
  BY <1>2 DEF HeadAt, TailAt
<1>4. CASE pc'[p] = "idle"
  <2>1. NodeAt(p, HeadAt(p)) = Src[p] /\ procTimer[p] > 0
    BY <1>4 DEF Begin, Typed, Goto, Stage
  <2>2. UNCHANGED <<cand, linkTimer, pc>>
    BY <2>1 DEF Begin
  <2>3. Control(p)'
    BY <1>1, <1>2, <1>3, <1>4 DEF Local, Control
  <2> QED
    BY <1>2, <1>3, <2>2, <2>3 DEF Local, Worm, Left, OnItsWay
<1>5. CASE pc'[p] # "idle"
  <2>1. \/ /\ NodeAt(p, HeadAt(p)) # Dst[p]
           /\ cand' = IF cand[p] = <<>>
                      THEN [cand EXCEPT ![p] = Route(p, HeadAt(p))] ELSE cand
           /\ pc'[p] = Stage(p)
        \/ UNCHANGED cand /\ pc'[p] = "move"
    BY <1>1, <1>5 DEF Begin, Typed, Goto
  <2>2. \A i \in 1 .. Len(cand'[p]) : Hop(p, HeadAt(p), cand'[p][i])
    <3>1. CASE cand'[p] = cand[p]
      BY <3>1 DEF Local, Worm
    <3>2. CASE cand'[p] # cand[p]
      <4>1. NodeAt(p, HeadAt(p)) # Dst[p] /\ cand'[p] = Route(p, HeadAt(p))
        BY <2>1, <3>2 DEF Typed
      <4>2. HeadAt(p) \in Places
        BY PlacesNamed DEF Local
      <4> QED
        BY <4>1, <4>2 DEF Hop
    <3> QED
      BY <3>1, <3>2
  <2>3. pc'[p] \in {"switch", "empty", "move"}
    BY <2>1 DEF Stage
  <2>4. pc'[p] = "empty" => next[p] = Source /\ 1 \in 1 .. Len(cand'[p])
    <3>1. SUFFICES ASSUME pc'[p] = "empty" PROVE next[p] = Source /\ 1 \in 1 .. Len(cand'[p])
      OBVIOUS
    <3>2. next[p] = Source
      BY <2>1, <3>1 DEF Stage
    <3>3. cand[p] \in Seq(Channels)
      BY DEF Typed
    <3>4. CASE cand[p] # <<>>
      <4>1. cand'[p] = cand[p]
        BY <2>1, <3>4 DEF Typed
      <4>2. Len(cand[p]) \in Nat \ {0}
        BY <3>3, <3>4, EmptySeq, LenProperties
      <4> QED
        BY <3>2, <4>1, <4>2
    <3>5. CASE cand[p] = <<>>
      <4>1. NodeAt(p, HeadAt(p)) # Dst[p] /\ cand'[p] = Route(p, HeadAt(p))
        BY <2>1, <3>1, <3>5 DEF Typed
      <4>2. Len(cand'[p]) \in Nat \ {0}
        BY <4>1, PlacesNamed DEF Local
      <4> QED
        BY <3>2, <4>2
    <3> QED
      BY <3>4, <3>5
  <2>5. pc'[p] = "switch" => next[p] # Source
    BY <2>1 DEF Stage
  <2>6. Control(p)'
    BY <1>1, <1>2, <1>3, <2>3, <2>4, <2>5 DEF Local, Control
  <2> QED
    BY <1>1, <1>2, <1>3, <1>5, <2>2, <2>6 DEF Local, Worm, Left, OnItsWay
<1> QED
  BY <1>4, <1>5

\* The steps of an update that leave the trace alone and go on to a location.
LEMMA AllocateLocal ==
  ASSUME Typed, NEW p \in Packets, Local(p),
         \/ IsEmpty(p) \/ TakeEmpty(p) \/ TakeAny(p) \/ AllocateSwLink(p)
         \/ AllocateInLink(p) \/ Push(p) \/ GiveBackSwLink(p)
  PROVE  Local(p)'
<1>1. /\ pc[p] \notin {"idle", "arrive"}
      /\ UNCHANGED <<phase, todo, status, trace, cand, finished, release, leaving, linkTimer>>
  BY DEF IsEmpty, TakeEmpty, TakeAny, AllocateSwLink, AllocateInLink, Push, GiveBackSwLink,
         cycle, packet
<1>2. HeadAt(p)' = HeadAt(p) /\ TailAt(p)' = TailAt(p)
  BY <1>1 DEF HeadAt, TailAt
<1>3. p \notin todo /\ status[p] = "live" /\ phase = "update" /\ ~finished[p] /\ ~release[p]
  BY <1>1 DEF Local, Control
<1>4. pc'[p] # "idle" /\ pc'[p] # "arrive"
  BY DEF IsEmpty, TakeEmpty, TakeAny, TakeCandidate, NextCandidate, AllocateSwLink,
         AllocateInLink, Push, GiveBackSwLink, Goto, Typed
<1>5. Left(p)' /\ OnItsWay(p)'
  BY <1>1, <1>2, <1>3, <1>4 DEF Left, OnItsWay
<1>6. ASSUME next'[p] # Source
      PROVE  Hop(p, HeadAt(p), next'[p])
  <2>1. CASE next'[p] = next[p]
    BY <1>6, <2>1 DEF Local, Worm
  <2>2. CASE next'[p] # next[p]
    <3>1. next'[p] = Candidate(p) /\ pc[p] \in {"take", "any"}
      BY <2>2 DEF IsEmpty, TakeEmpty, TakeAny, TakeCandidate, AllocateSwLink, AllocateInLink,
                  Push, GiveBackSwLink, packet, Typed
    <3> QED
      BY <3>1 DEF Local, Control, Worm, Candidate
  <2> QED
    BY <2>1, <2>2
<1>7. Worm(p)'
  BY <1>1, <1>2, <1>6 DEF Local, Worm
<1>8. ASSUME IsEmpty(p) \/ TakeEmpty(p) \/ TakeAny(p)
      PROVE  Control(p)'
  <2>1. /\ pc[p] \in {"empty", "take", "any"}
        /\ next[p] = Source /\ k[p] \in 1 .. Len(cand[p]) /\ ~switched[p]
    BY <1>8 DEF IsEmpty, TakeEmpty, TakeAny, Local, Control
  <2>2. switched' = switched
    BY <1>8 DEF IsEmpty, TakeEmpty, TakeAny, packet
  <2>3. Len(cand[p]) \in Nat
    BY LenProperties DEF Typed
  <2>4. CASE TakeCandidate(p)
    <3>1. pc'[p] \in {"switch", "move"} /\ k'[p] = 1 /\ next'[p] = Candidate(p)
      BY <2>4 DEF TakeCandidate, Goto, Typed
    <3>2. next'[p] # Source
      BY <2>1, <3>1, PlacesNamed, Constants DEF Local
    <3> QED
      BY <1>1, <1>2, <1>3, <2>1, <2>2, <3>1, <3>2 DEF Control
  <2>5. CASE ~TakeCandidate(p)
    <3>1. /\ next' = next
          /\ \/ pc'[p] = "take" /\ k'[p] = k[p]
             \/ pc'[p] \in {"empty", "any"} /\ k[p] < Len(cand[p]) /\ k'[p] = k[p] + 1
             \/ pc'[p] = "any" /\ k'[p] = 1
             \/ pc'[p] = "move" /\ k'[p] = 1
      <4>1. pc \in [Packets -> Locations] /\ k \in [Packets -> Nat]
        BY DEF Typed
      <4> QED
        BY <1>8, <2>5, <4>1 DEF IsEmpty, TakeEmpty, TakeAny, NextCandidate, Goto, packet
    <3>2. pc'[p] \in {"empty", "take", "any"} => k'[p] \in 1 .. Len(cand[p])
      <4>1. k[p] \in 1 .. Len(cand[p])
        BY <2>1
      <4> QED
        BY <2>3, <3>1, <4>1
    <3> QED
      BY <1>1, <1>2, <1>3, <2>1, <2>2, <3>1, <3>2 DEF Control
  <2> QED
    BY <2>4, <2>5
<1>9. ASSUME AllocateSwLink(p) \/ AllocateInLink(p) \/ Push(p) \/ GiveBackSwLink(p)
      PROVE  Control(p)'
  <2>1. /\ pc[p] \in {"switch", "inLink", "push", "giveBack"}
        /\ next[p] # Source /\ k[p] = 1 /\ next' = next /\ k' = k
    BY <1>9 DEF AllocateSwLink, AllocateInLink, Push, GiveBackSwLink, Local, Control, packet
  <2>2. NodeAt(p, next[p]) = DownNode[BufferOf(next[p])]
    BY <2>1, PlacesNamed, Constants DEF Local
  <2>3. CASE AllocateSwLink(p)
    <3>1. /\ switched' = switched /\ ~switched[p] /\ HeadAt(p) # Source
          /\ pc'[p] \in {"inLink", "move"}
      BY <2>3 DEF AllocateSwLink, Goto, AtSource, packet, Local, Control, Typed
    <3> QED
      BY <1>1, <1>2, <1>3, <2>1, <3>1 DEF Control
  <2>4. CASE AllocateInLink(p)
    <3>1. ~switched[p] /\ (HeadAt(p) = Source <=> AtSource(p))
      BY <2>4 DEF AllocateInLink, AtSource, Local, Control
    <3>2. \/ /\ switched' = switched
             /\ pc'[p] = IF AtSource(p) THEN "move" ELSE "giveBack"
          \/ /\ switched'[p] = TRUE
             /\ pc'[p] = IF DownNode[BufferOf(next[p])] # Dst[p] THEN "push" ELSE "move"
      BY <2>4 DEF AllocateInLink, Goto, Typed
    <3> QED
      BY <1>1, <1>2, <1>3, <2>1, <2>2, <3>1, <3>2 DEF Control
  <2>5. CASE Push(p) \/ GiveBackSwLink(p)
    <3>1. pc'[p] = "move" /\ switched' = switched
      BY <2>5 DEF Push, GiveBackSwLink, Goto, Typed, packet
    <3> QED
      BY <1>1, <1>2, <1>3, <2>1, <3>1 DEF Local, Control
  <2> QED
    BY <1>9, <2>3, <2>4, <2>5
<1> QED
  BY <1>5, <1>7, <1>8, <1>9 DEF Local

\* What Move does to the packet.
LEMMA MoveEffect ==
  ASSUME Typed, NEW p \in Packets, Local(p), Move(p)
  PROVE  /\ trace'[p] = MoveFlits(p)
         /\ HeadAt(p)' = IF switched[p] THEN next[p] ELSE HeadAt(p)
         /\ TailAt(p)' = MoveFlits(p)[Length[p]]
         /\ TailAt(p)' = TailAt(p) \/ Hop(p, TailAt(p), TailAt(p)')
         /\ NodeAt(p, TailAt(p)') # NodeAt(p, TailAt(p)) <=> TailAt(p)' # TailAt(p)
         /\ ~switched'[p]
         /\ next'[p] = IF switched[p] THEN Source ELSE next[p]
         /\ cand'[p] = IF switched[p] THEN <<>> ELSE cand[p]
         /\ ~release[p] /\ ~finished[p] /\ status[p] = "live" /\ phase = "update" /\ p \notin todo
         /\ release'[p] <=> TailAt(p)' # TailAt(p)
         /\ TailAt(p)' # TailAt(p) => leaving'[p] = TailAt(p)
         /\ pc[p] = "move" /\ pc'[p] \in {"idle", "arrive"}
         /\ pc'[p] = "arrive" <=> linkTimer'[p] = 0 /\ NodeAt(p, TailAt(p)') = Dst[p]
         /\ UNCHANGED <<param, phase, todo, status, finished, k, queue, inLink, swLink>>
<1>1. /\ trace[p] \in [1 .. Length[p] -> Places] /\ next[p] \in Places /\ Worm(p)
      /\ switched[p] => next[p] # Source
  BY DEF Typed, Local, Control
<1>2. 1 \in 1 .. Length[p] /\ Length[p] \in 1 .. Length[p]
  BY Constants
<1>3. trace'[p] = MoveFlits(p)
  BY DEF Move, Typed
<1>4. HeadAt(p)' = IF switched[p] THEN next[p] ELSE HeadAt(p)
  BY <1>1, <1>3, MovedEnds DEF HeadAt
<1>5. TailAt(p)' = MoveFlits(p)[Length[p]]
  BY <1>3 DEF TailAt
<1>6. TailAt(p)' = TailAt(p) \/ Hop(p, TailAt(p), TailAt(p)')
  BY <1>1, <1>2, <1>5, MovedEnds DEF TailAt
<1>7. NodeAt(p, TailAt(p)') # NodeAt(p, TailAt(p)) <=> TailAt(p)' # TailAt(p)
  <2>1. NodeAt(p, TailAt(p)) \in Way[p]
    BY <1>1, <1>2 DEF Worm, TailAt
  <2>2. ASSUME Hop(p, TailAt(p), TailAt(p)'), NodeAt(p, TailAt(p)') = NodeAt(p, TailAt(p))
        PROVE  FALSE
    <3>1. Rank[p][NodeAt(p, TailAt(p)')] < Rank[p][NodeAt(p, TailAt(p))]
      BY <2>1, <2>2, HopFacts
    <3>2. Rank[p][NodeAt(p, TailAt(p))] \in Nat
      BY <2>1, WayAndRank
    <3> QED
      BY <2>2, <3>1, <3>2
  <2> QED
    BY <1>6, <2>2
<1>8. ~release[p] /\ ~finished[p] /\ status[p] = "live" /\ phase = "update" /\ p \notin todo
  BY DEF Move, Local, Control
<1>9. /\ ~switched'[p]
      /\ next'[p] = IF switched[p] THEN Source ELSE next[p]
      /\ cand'[p] = IF switched[p] THEN <<>> ELSE cand[p]
  BY DEF Move, Typed
<1>10. release'[p] <=> TailAt(p)' # TailAt(p)
  BY <1>5, <1>7, <1>8 DEF Move, Typed
<1>11. TailAt(p)' # TailAt(p) => leaving'[p] = TailAt(p)
  BY <1>5, <1>7 DEF Move, Typed
<1>12. /\ pc[p] = "move" /\ pc'[p] \in {"idle", "arrive"}
       /\ pc'[p] = "arrive" <=> linkTimer'[p] = 0 /\ NodeAt(p, TailAt(p)') = Dst[p]
  BY <1>5 DEF Move, Goto, Typed
<1>13. UNCHANGED <<param, phase, todo, status, finished, k, queue, inLink, swLink>>
  BY DEF Move, cycle
<1> QED
  BY <1>3, <1>4, <1>5, <1>6, <1>7, <1>8, <1>9, <1>10, <1>11, <1>12, <1>13

\* Where the flits are after a move: where they or the flits ahead were.
LEMMA MovedReach ==
  ASSUME Typed, NEW p \in Packets, Local(p), Move(p), NEW i \in 1 .. Length[p]
  PROVE  /\ trace'[p][i] = TailAt(p) => TailAt(p)' = TailAt(p)
         /\ \/ \E j \in 1 .. Length[p] : trace[p][j] = trace'[p][i]
            \/ switched[p] /\ trace'[p][i] = next[p]
<1>1. /\ trace[p] \in [1 .. Length[p] -> Places] /\ next[p] \in Places /\ Worm(p)
      /\ switched[p] => next[p] # Source
  BY DEF Typed, Local, Control
<1>2. trace'[p] = MoveFlits(p) /\ TailAt(p)' = MoveFlits(p)[Length[p]]
  BY MoveEffect
<1>3. Reaches(p, MoveFlits(p)[i])
      /\ (MoveFlits(p)[i] = TailAt(p) => MoveFlits(p)[Length[p]] = MoveFlits(p)[i])
  BY <1>1, MovedPlaces
<1> QED
  BY <1>2, <1>3 DEF Reaches

LEMMA MoveLocal ==
  ASSUME Typed, Typed', NEW p \in Packets, Local(p), Move(p)
  PROVE  Local(p)'
<1>1. /\ trace[p] \in [1 .. Length[p] -> Places] /\ next[p] \in Places /\ Worm(p)
      /\ switched[p] => next[p] # Source
      /\ next[p] # Source => Hop(p, HeadAt(p), next[p])
      /\ TailAt(p) = trace[p][Length[p]] /\ Length[p] \in 1 .. Length[p]
  BY Constants DEF Typed, Local, Control, Worm, TailAt
<1>2. ASSUME pc'[p] = "arrive"
      PROVE  next'[p] = Source /\ NodeAt(p, TailAt(p)') = Dst[p]
  <2>1. NodeAt(p, TailAt(p)') = Dst[p]
    BY <1>2, MoveEffect
  <2>2. ASSUME next'[p] # Source
        PROVE  FALSE
    <3>1. ~switched[p] /\ Hop(p, HeadAt(p), next[p])
      BY <1>1, <2>2, MoveEffect
    <3>2. \A i \in 1 .. Length[p] : NodeAt(p, trace[p][i]) # Dst[p]
      BY <1>1, <3>1, NextIsNew
    <3>3. \E j \in 1 .. Length[p] : trace[p][j] = trace'[p][Length[p]]
      BY <1>1, <3>1, MovedReach
    <3>4. trace'[p][Length[p]] = TailAt(p)'
      BY DEF TailAt
    <3> QED
      BY <2>1, <3>2, <3>3, <3>4
  <2> QED
    BY <2>1, <2>2
<1>3. Control(p)'
  <2>1. k[p] = 1
    BY DEF Move, Local, Control
  <2>2. NodeAt(p, TailAt(p))' = NodeAt(p, TailAt(p)')
    BY DEF NodeAt
  <2> QED
    BY <1>2, <2>1, <2>2, MoveEffect DEF Control
<1>4. Worm(p)'
  <2>1. /\ \A i \in 1 .. Length[p] : NodeAt(p, trace'[p][i]) \in Way[p]
        /\ \A i \in 1 .. Length[p] - 1 :
             trace'[p][i] = trace'[p][i + 1] \/ Hop(p, trace'[p][i + 1], trace'[p][i])
    BY <1>1, MovedWorm, MoveEffect
  <2>2. CASE switched[p]
    <3>1. next'[p] = Source /\ cand'[p] = <<>>
      BY <2>2, MoveEffect
    <3>2. 1 .. Len(cand'[p]) = {}
      BY <3>1, EmptySeq
    <3> QED
      BY <2>1, <3>1, <3>2 DEF Worm
  <2>3. CASE ~switched[p]
    <3>1. next'[p] = next[p] /\ cand'[p] = cand[p] /\ HeadAt(p)' = HeadAt(p)
      BY <2>3, MoveEffect
    <3> QED
      BY <1>1, <2>1, <3>1 DEF Worm
  <2> QED
    BY <2>2, <2>3
<1>5. Left(p)'
  <2>1. SUFFICES ASSUME release'[p]
                 PROVE  /\ TailAt(p)' # Source
                        /\ NodeAt(p, leaving'[p]) # Dst[p]
                        /\ \A i \in 1 .. Length[p] : BufferOf(trace'[p][i]) # BufferOf(leaving'[p])
    BY DEF Left, NodeAt
  <2>2. /\ TailAt(p)' # TailAt(p) /\ leaving'[p] = TailAt(p)
        /\ Hop(p, TailAt(p), TailAt(p)')
    BY <2>1, MoveEffect
  <2>3. TailAt(p)' \in Channels
    BY <1>1, <2>2, HopFacts DEF Worm
  <2>4. ASSUME NEW i \in 1 .. Length[p]
        PROVE  BufferOf(trace'[p][i]) # BufferOf(TailAt(p))
    <3>1. trace'[p][i] # TailAt(p)
      BY <2>2, MovedReach
    <3>2. CASE \E j \in 1 .. Length[p] : trace[p][j] = trace'[p][i]
      <4>1. PICK j \in 1 .. Length[p] : trace[p][j] = trace'[p][i]
        BY <3>2
      <4> QED
        BY <1>1, <3>1, <4>1, SameBuffer
    <3>3. CASE switched[p] /\ trace'[p][i] = next[p]
      <4>1. BufferOf(trace[p][Length[p]]) # BufferOf(next[p])
        BY <1>1, <3>3, NextIsNew
      <4> QED
        BY <1>1, <3>3, <4>1
    <3> QED
      BY <3>2, <3>3, MovedReach
  <2> QED
    BY <2>2, <2>3, <2>4, Constants DEF Hop
<1>6. OnItsWay(p)'
  <2>1. linkTimer'[p] \in Nat /\ NodeAt(p, TailAt(p))' = NodeAt(p, TailAt(p)')
    BY DEF Typed, NodeAt
  <2> QED
    BY <2>1, MoveEffect DEF OnItsWay
<1> QED
  BY <1>3, <1>4, <1>5, <1>6 DEF Local

LEMMA ArriveLocal ==
  ASSUME Typed, NEW p \in Packets, Local(p), Arrive(p)
  PROVE  Local(p)'
<1>1. /\ UNCHANGED <<phase, todo, status, trace, cand, next, switched, linkTimer, release, leaving, k>>
      /\ pc[p] = "arrive" /\ pc'[p] = "idle" /\ finished'[p] = TRUE
  BY DEF Arrive, Goto, Typed, cycle
<1>2. HeadAt(p)' = HeadAt(p) /\ TailAt(p)' = TailAt(p)
  BY <1>1 DEF HeadAt, TailAt
<1>3. Control(p)'
  BY <1>1, <1>2 DEF Local, Control
<1> QED
  BY <1>1, <1>2, <1>3 DEF Local, Worm, Left, OnItsWay

LEMMA UpdateLocal ==
  ASSUME Typed, Typed', NEW p \in Packets, Local(p), Update(p)
  PROVE  Local(p)'
BY BeginLocal, AllocateLocal, MoveLocal, ArriveLocal DEF Update

LEMMA NextPacked == Typed /\ Typed' /\ Packed /\ Serial /\ [Next]_vars => Packed'
<1> SUFFICES ASSUME Typed, Typed', Packed, Serial, [Next]_vars
             PROVE  Packed'
  OBVIOUS
<1> SUFFICES ASSUME NEW p \in Packets PROVE Local(p)'
  BY DEF Packed
<1>0. Local(p)
  BY DEF Packed
<1>1. ASSUME UNCHANGED <<trace, cand, next, switched, linkTimer, finished, leaving, pc, k>>
      PROVE  /\ HeadAt(p)' = HeadAt(p) /\ TailAt(p)' = TailAt(p)
             /\ Worm(p)'
  <2>1. HeadAt(p)' = HeadAt(p) /\ TailAt(p)' = TailAt(p)
    BY <1>1 DEF HeadAt, TailAt
  <2> QED
    BY <1>0, <1>1, <2>1 DEF Local, Worm
<1>2. CASE ReleaseLinks
  <2>1. /\ UNCHANGED <<trace, cand, next, switched, linkTimer, finished, leaving, pc, k>>
        /\ pc[p] = "idle" /\ phase' = "update" /\ release'[p] = FALSE
        /\ status'[p] = IF p \in Live /\ finished[p] THEN "gone" ELSE status[p]
        /\ p \in todo' <=> status[p] = "live" /\ ~finished[p]
    BY <1>2 DEF ReleaseLinks, Serial, Live
  <2>2. /\ HeadAt(p)' = HeadAt(p) /\ TailAt(p)' = TailAt(p)
        /\ Worm(p)'
    BY <1>1, <2>1
  <2>3. Control(p)'
    BY <1>0, <2>1, <2>2 DEF Local, Control, Live
  <2> QED
    BY <1>0, <2>1, <2>2, <2>3 DEF Local, Left, OnItsWay, Live
<1>3. CASE Reset
  <2>1. /\ UNCHANGED <<trace, cand, next, switched, linkTimer, finished, release, leaving, pc, k>>
        /\ pc[p] = "idle" /\ p \notin todo' /\ phase' = phase
        /\ status'[p] = IF p \in Live THEN "gone" ELSE status[p]
    BY <1>3 DEF Reset, Serial, packet
  <2>2. /\ HeadAt(p)' = HeadAt(p) /\ TailAt(p)' = TailAt(p)
        /\ Worm(p)'
    BY <1>1, <2>1
  <2>3. Control(p)'
    BY <1>0, <2>1, <2>2 DEF Local, Control, Live
  <2> QED
    BY <1>0, <2>1, <2>2, <2>3 DEF Local, Left, OnItsWay, Live
<1>4. CASE EndCycle
  <2>1. /\ UNCHANGED <<trace, cand, next, switched, linkTimer, finished, release, leaving, pc, k>>
        /\ pc[p] = "idle" /\ p \notin todo' /\ status' = status
    BY <1>4 DEF EndCycle, packet, Busy
  <2>2. /\ HeadAt(p)' = HeadAt(p) /\ TailAt(p)' = TailAt(p)
        /\ Worm(p)'
    BY <1>1, <2>1
  <2>3. Control(p)'
    BY <1>0, <2>1, <2>2 DEF Local, Control
  <2> QED
    BY <1>0, <2>1, <2>2, <2>3 DEF Local, Left, OnItsWay
<1>5. ASSUME NEW q \in Packets, Generate(q)
      PROVE  Local(p)'
  <2>1. /\ UNCHANGED <<trace, cand, next, switched, linkTimer, finished, release, leaving, pc, k>>
        /\ pc[p] = "idle" /\ p \notin todo' /\ phase' = phase
        /\ p # q => status'[p] = status[p]
        /\ status[q] = "new" /\ status'[q] = "live"
    BY <1>5 DEF Generate, packet, Serial, Typed
  <2>2. /\ HeadAt(p)' = HeadAt(p) /\ TailAt(p)' = TailAt(p)
        /\ Worm(p)'
    BY <1>1, <2>1
  <2>3. Control(p)'
    BY <1>0, <2>1, <2>2 DEF Local, Control
  <2>4. p = q => NodeAt(p, TailAt(p)) # Dst[p]
    BY <1>0, <2>1, Constants DEF Local, Control, TailAt
  <2> QED
    BY <1>0, <2>1, <2>2, <2>3, <2>4 DEF Local, Left, OnItsWay
<1>6. ASSUME NEW q \in Packets, Update(q)
      PROVE  Local(p)'
  <2>1. CASE p = q
    BY <1>0, <1>6, <2>1, UpdateLocal
  <2>2. CASE p # q
    BY <1>0, <1>6, <2>2, UpdateFrame, UntouchedLocal
  <2> QED
    BY <2>1, <2>2
<1>7. CASE UNCHANGED vars
  <2>1. Untouched(p) /\ phase' = phase /\ status' = status /\ todo' = todo
    BY <1>7 DEF vars, cycle, packet, Untouched
  <2> QED
    BY <1>0, <2>1, UntouchedLocal
<1> QED
  BY <1>2, <1>3, <1>4, <1>5, <1>6, <1>7 DEF Next

\* Main is alone in the serial phase.
LEMMA NextSerial == Typed /\ Packed /\ Serial /\ [Next]_vars => Serial'
<1> SUFFICES ASSUME Typed, Packed, Serial, [Next]_vars
             PROVE  Serial'
  OBVIOUS
<1>1. CASE ReleaseLinks
  BY <1>1 DEF ReleaseLinks, Serial
<1>2. CASE Reset
  BY <1>2 DEF Reset, Serial
<1>3. CASE EndCycle
  BY <1>3 DEF EndCycle, Serial, Busy
<1>4. ASSUME NEW q \in Packets, Generate(q)
      PROVE  Serial'
  BY <1>4 DEF Generate, Serial
<1>5. ASSUME NEW q \in Packets, Update(q)
      PROVE  Serial'
  <2>1. q \in todo \/ pc[q] # "idle"
    BY <1>5 DEF Update, Begin, IsEmpty, TakeEmpty, TakeAny, AllocateSwLink, AllocateInLink, Push,
                GiveBackSwLink, Move, Arrive
  <2>2. phase = "update"
    BY <2>1 DEF Packed, Local, Control
  <2>3. phase' = phase
    BY <1>5, UpdateFrame
  <2> QED
    BY <2>2, <2>3 DEF Serial
<1>6. CASE UNCHANGED vars
  BY <1>6 DEF vars, cycle, Serial
<1> QED
  BY <1>1, <1>2, <1>3, <1>4, <1>5, <1>6 DEF Next

-----------------------------------------------------------------------------
(* The links: who owns which.                                              *)

\* The flits of a packet in its tail's place when the tail has arrived.
LEMMA ArrivedWorm ==
  ASSUME Typed, NEW p \in Packets, Local(p), finished[p], NEW i \in 1 .. Length[p]
  PROVE  trace[p][i] = TailAt(p)
<1>1. trace[p] \in [1 .. Length[p] -> Places] /\ Worm(p) /\ NodeAt(p, TailAt(p)) = Dst[p]
  BY DEF Typed, Local, Control
<1>2. Length[p] \in i .. Length[p]
  BY Constants
<1> QED
  BY <1>1, <1>2, WormOrder DEF TailAt

\* A move takes no link and gives none back.
LEMMA MoveKeepsLinks ==
  ASSUME Typed, NEW p \in Packets, Local(p), Move(p), NEW b \in Buffers
  PROVE  (HasIn(p, b)' <=> HasIn(p, b)) /\ (HasSw(p, b)' <=> HasSw(p, b))
<1>1. /\ trace[p] \in [1 .. Length[p] -> Places] /\ next[p] \in Places /\ Worm(p)
      /\ switched[p] => next[p] # Source
      /\ switched[p] => Hop(p, HeadAt(p), next[p])
      /\ HeadAt(p) = trace[p][1] /\ TailAt(p) = trace[p][Length[p]]
      /\ HeadAt(p)' = trace'[p][1] /\ TailAt(p)' = trace'[p][Length[p]]
      /\ 1 \in 1 .. Length[p] /\ Length[p] \in 1 .. Length[p]
  BY Constants DEF Typed, Local, Control, Worm, HeadAt, TailAt
<1>2. /\ HeadAt(p)' = IF switched[p] THEN next[p] ELSE HeadAt(p)
      /\ release'[p] <=> TailAt(p)' # TailAt(p)
      /\ TailAt(p)' # TailAt(p) => leaving'[p] = TailAt(p)
      /\ ~switched'[p] /\ ~release[p] /\ status[p] = "live" /\ status'[p] = "live"
      /\ pc[p] = "move" /\ pc'[p] \notin {"inLink", "giveBack"}
  BY MoveEffect
\* Places that are left, and places that are come to.
<1>3. ASSUME NEW j \in 1 .. Length[p], trace[p][j] # TailAt(p) \/ TailAt(p)' = TailAt(p)
      PROVE  \E i \in 1 .. Length[p] : trace'[p][i] = trace[p][j]
  <2>1. trace'[p] = MoveFlits(p)
    BY MoveEffect
  <2>2. Reaches(p, trace[p][j])
    BY DEF Reaches
  <2>3. trace[p][j] = TailAt(p) => MoveFlits(p)[Length[p]] = trace[p][j]
    BY <1>1, <1>3, <2>1
  <2> QED
    BY <1>1, <2>1, <2>2, <2>3, MovedPlaces
<1>4. ASSUME NEW i \in 1 .. Length[p]
      PROVE  /\ trace'[p][i] = TailAt(p) => TailAt(p)' = TailAt(p)
             /\ \/ \E j \in 1 .. Length[p] : trace[p][j] = trace'[p][i]
                \/ switched[p] /\ trace'[p][i] = next[p]
  BY MovedReach
\* Buffers tell the places of a packet apart.
<1>5. ASSUME NEW i \in 1 .. Length[p], NEW j \in 1 .. Length[p],
             BufferOf(trace[p][i]) = BufferOf(trace[p][j])
      PROVE  trace[p][i] = trace[p][j]
  BY <1>1, <1>5, SameBuffer
<1>6. ASSUME switched[p], NEW i \in 1 .. Length[p]
      PROVE  BufferOf(trace[p][i]) # BufferOf(next[p])
  BY <1>1, <1>6, NextIsNew
<1>7. ASSUME TailAt(p)' # TailAt(p), BufferOf(HeadAt(p)) = BufferOf(TailAt(p))
      PROVE  switched[p]
  <2>1. trace[p][1] = trace[p][Length[p]]
    BY <1>1, <1>5, <1>7
  <2>2. \A h \in 1 .. Length[p] : trace[p][h] = TailAt(p)
    BY <1>1, <2>1, SamePlace
  <2> QED
    BY <1>1, <1>4, <1>7, <2>2
<1>8. HasIn(p, b)' => HasIn(p, b)
  <2>1. ASSUME NEW i \in 1 .. Length[p], BufferOf(trace'[p][i]) = b,
               trace'[p][i] # TailAt(p)
        PROVE  HasIn(p, b)
    <3>1. CASE switched[p] /\ trace'[p][i] = next[p]
      BY <1>2, <2>1, <3>1 DEF HasIn
    <3>2. CASE \E j \in 1 .. Length[p] : trace[p][j] = trace'[p][i]
      <4>1. PICK j \in 1 .. Length[p] : trace[p][j] = trace'[p][i]
        BY <3>2
      <4>2. BufferOf(TailAt(p)) # b
        BY <1>1, <1>5, <2>1, <4>1
      <4> QED
        BY <1>2, <2>1, <4>1, <4>2 DEF HasIn, Touches
    <3> QED
      BY <1>4, <3>1, <3>2
  <2>2. ASSUME Touches(p, b)', BufferOf(TailAt(p)') # b
        PROVE  HasIn(p, b)
    <3>1. PICK i \in 1 .. Length[p] : BufferOf(trace'[p][i]) = b
      BY <2>2 DEF Touches, BufferOf
    <3>2. trace'[p][i] # TailAt(p)
      BY <1>4, <2>2, <3>1
    <3> QED
      BY <2>1, <3>1, <3>2
  <2>3. ASSUME release'[p], BufferOf(TailAt(p)') = b
        PROVE  HasIn(p, b)
    BY <1>1, <1>2, <2>1, <2>3
  <2> QED
    BY <1>2, <2>2, <2>3 DEF HasIn, BufferOf
<1>9. HasIn(p, b) => HasIn(p, b)'
  <2>1. ASSUME NEW i \in 1 .. Length[p], BufferOf(trace'[p][i]) = b, BufferOf(TailAt(p)) # b
        PROVE  HasIn(p, b)'
    <3>1. Touches(p, b)'
      BY <2>1 DEF Touches, BufferOf
    <3>2. BufferOf(TailAt(p)') = b => release'[p]
      BY <1>2, <2>1
    <3> QED
      BY <1>2, <3>1, <3>2 DEF HasIn, BufferOf
  <2>2. ASSUME switched[p], BufferOf(next[p]) = b
        PROVE  HasIn(p, b)'
    BY <1>1, <1>2, <1>6, <2>1, <2>2
  <2>3. ASSUME Touches(p, b), BufferOf(TailAt(p)) # b
        PROVE  HasIn(p, b)'
    <3>1. PICK j \in 1 .. Length[p] : BufferOf(trace[p][j]) = b
      BY <2>3 DEF Touches
    <3>2. \E i \in 1 .. Length[p] : trace'[p][i] = trace[p][j]
      BY <1>3, <2>3, <3>1
    <3> QED
      BY <2>1, <2>3, <3>1, <3>2
  <2> QED
    BY <1>2, <2>2, <2>3 DEF HasIn
<1>10. HasSw(p, b)' => HasSw(p, b)
  <2>1. ASSUME NEW j \in 1 .. Length[p], BufferOf(trace[p][j]) = b,
               BufferOf(HeadAt(p)) = b => switched[p]
        PROVE  HasSw(p, b)
    BY <1>2, <2>1 DEF HasSw, Touches
  <2>2. ASSUME Touches(p, b)', BufferOf(HeadAt(p)') # b
        PROVE  HasSw(p, b)
    <3>1. PICK i \in 1 .. Length[p] : BufferOf(trace'[p][i]) = b
      BY <2>2 DEF Touches, BufferOf
    <3>2. \E j \in 1 .. Length[p] : trace[p][j] = trace'[p][i]
      BY <1>2, <1>4, <2>2, <3>1
    <3> QED
      BY <1>2, <2>1, <2>2, <3>1, <3>2
  <2>3. ASSUME release'[p], BufferOf(leaving'[p]) = b
        PROVE  HasSw(p, b)
    BY <1>1, <1>2, <1>7, <2>1, <2>3
  <2> QED
    BY <1>2, <2>2, <2>3 DEF HasSw, BufferOf
<1>11. HasSw(p, b) => HasSw(p, b)'
  <2>1. ASSUME NEW j \in 1 .. Length[p], BufferOf(trace[p][j]) = b, BufferOf(HeadAt(p)') # b
        PROVE  HasSw(p, b)'
    <3>1. CASE \E i \in 1 .. Length[p] : trace'[p][i] = trace[p][j]
      <4>1. Touches(p, b)'
        BY <2>1, <3>1 DEF Touches, BufferOf
      <4> QED
        BY <1>2, <2>1, <4>1 DEF HasSw, BufferOf
    <3>2. CASE ~\E i \in 1 .. Length[p] : trace'[p][i] = trace[p][j]
      <4>1. trace[p][j] = TailAt(p) /\ TailAt(p)' # TailAt(p)
        BY <1>3, <3>2
      <4>2. release'[p] /\ BufferOf(leaving'[p]) = b
        BY <1>2, <2>1, <4>1
      <4> QED
        BY <1>2, <4>2 DEF HasSw, BufferOf
    <3> QED
      BY <3>1, <3>2
  <2>2. ASSUME switched[p], BufferOf(HeadAt(p)) = b
        PROVE  HasSw(p, b)'
    BY <1>1, <1>2, <1>6, <2>1, <2>2
  <2>3. ASSUME Touches(p, b), BufferOf(HeadAt(p)) # b
        PROVE  HasSw(p, b)'
    <3>1. PICK j \in 1 .. Length[p] : BufferOf(trace[p][j]) = b
      BY <2>3 DEF Touches
    <3>2. BufferOf(HeadAt(p)') # b
      BY <1>2, <1>6, <2>3, <3>1
    <3> QED
      BY <2>1, <3>1, <3>2
  <2> QED
    BY <1>2, <2>2, <2>3 DEF HasSw
<1> QED
  BY <1>8, <1>9, <1>10, <1>11

\* Nor do the steps of an update that do not ask for a link.
LEMMA OthersKeepLinks ==
  ASSUME Typed, NEW p \in Packets, Local(p), NEW b \in Buffers,
         Begin(p) \/ IsEmpty(p) \/ TakeEmpty(p) \/ TakeAny(p) \/ Push(p) \/ Arrive(p)
  PROVE  (HasIn(p, b)' <=> HasIn(p, b)) /\ (HasSw(p, b)' <=> HasSw(p, b))
<1>1. /\ UNCHANGED <<status, trace, switched, release, leaving>>
      /\ next' = next \/ ~switched[p]
  BY DEF Begin, IsEmpty, TakeEmpty, TakeAny, Push, Arrive, Local, Control, cycle, packet
<1>2. /\ HeadAt(p)' = HeadAt(p) /\ TailAt(p)' = TailAt(p)
      /\ Touches(p, b)' <=> Touches(p, b)
  BY <1>1 DEF HeadAt, TailAt, Touches, BufferOf
<1>3. pc[p] \notin {"inLink", "giveBack"}
  BY DEF Begin, IsEmpty, TakeEmpty, TakeAny, Push, Arrive, Local, Control
<1>4. pc'[p] \notin {"inLink", "giveBack"}
  BY <1>3 DEF Begin, Stage, IsEmpty, TakeEmpty, TakeAny, TakeCandidate, NextCandidate, Push, Arrive,
           Goto, Typed
<1>5. HasIn(p, b)' <=> HasIn(p, b)
  BY <1>1, <1>2 DEF HasIn, BufferOf
<1>6. HasSw(p, b)' <=> HasSw(p, b)
  BY <1>1, <1>2, <1>3, <1>4 DEF HasSw, BufferOf
<1> QED
  BY <1>5, <1>6

\* A packet that is not updated keeps its links.
LEMMA UntouchedLinks ==
  ASSUME NEW p \in Packets, Untouched(p), status'[p] = status[p], NEW b \in Buffers
  PROVE  (HasIn(p, b)' <=> HasIn(p, b)) /\ (HasSw(p, b)' <=> HasSw(p, b))
BY DEF Untouched, HasIn, HasSw, Touches, HeadAt, TailAt, BufferOf

\* The serial loop takes the links back from exactly those that are done with them.
LEMMA ReleaseOwned ==
  ASSUME Typed, Packed, Serial, Owned, ReleaseLinks
  PROVE  Owned'
<1>1. /\ UNCHANGED <<trace, next, switched, pc, leaving>>
      /\ \A p \in Packets : ~switched[p] /\ pc[p] = "idle" /\ ~release'[p]
      /\ \A p \in Packets : status'[p] = "live" <=> status[p] = "live" /\ ~finished[p]
  BY DEF ReleaseLinks, Serial, Packed, Local, Control, Live, Typed
<1> SUFFICES ASSUME NEW b \in Buffers
             PROVE  /\ inLink'[b] <=> \E p \in Packets : HasIn(p, b)'
                    /\ \A p, q \in Packets : HasIn(p, b)' /\ HasIn(q, b)' => p = q
                    /\ swLink'[b] <=> \E p \in Packets : HasSw(p, b)'
                    /\ \A p, q \in Packets : HasSw(p, b)' /\ HasSw(q, b)' => p = q
  BY DEF Owned
<1> DEFINE GivesIn(p) == status[p] = "live" /\ release[p] /\ BufferOf(TailAt(p)) = b
           GivesSw(p) == status[p] = "live" /\ release[p] /\ BufferOf(leaving[p]) = b
<1>2. /\ inLink[b] <=> \E p \in Packets : HasIn(p, b)
      /\ \A p, q \in Packets : HasIn(p, b) /\ HasIn(q, b) => p = q
      /\ swLink[b] <=> \E p \in Packets : HasSw(p, b)
      /\ \A p, q \in Packets : HasSw(p, b) /\ HasSw(q, b) => p = q
  BY DEF Owned
<1>3. /\ inLink'[b] <=> inLink[b] /\ \A p \in Packets : ~GivesIn(p)
      /\ swLink'[b] <=> swLink[b] /\ \A p \in Packets : ~GivesSw(p)
  BY DEF ReleaseLinks, Live
<1>4. ASSUME NEW p \in Packets
      PROVE  /\ HasIn(p, b)' <=> HasIn(p, b) /\ ~GivesIn(p)
             /\ HasSw(p, b)' <=> HasSw(p, b) /\ ~GivesSw(p)
             /\ GivesIn(p) => HasIn(p, b)
             /\ GivesSw(p) => HasSw(p, b)
  <2>1. /\ HeadAt(p)' = HeadAt(p) /\ TailAt(p)' = TailAt(p)
        /\ Touches(p, b)' <=> Touches(p, b)
    BY <1>1 DEF HeadAt, TailAt, Touches, BufferOf
  <2>2. ASSUME finished[p], Touches(p, b)
        PROVE  BufferOf(TailAt(p)) = b /\ BufferOf(HeadAt(p)) = b
    BY <2>2, ArrivedWorm, Constants DEF Packed, Touches, HeadAt
  <2>3. ASSUME release[p], BufferOf(leaving[p]) = b
        PROVE  ~Touches(p, b)
    BY <2>3 DEF Packed, Local, Left, Touches
  <2>4. HasIn(p, b)' <=> HasIn(p, b) /\ ~GivesIn(p)
    BY <1>1, <2>1, <2>2 DEF HasIn, BufferOf
  <2>5. HasSw(p, b)' <=> HasSw(p, b) /\ ~GivesSw(p)
    BY <1>1, <2>1, <2>2, <2>3 DEF HasSw, BufferOf
  <2> QED
    BY <2>4, <2>5 DEF HasIn, HasSw
<1> HIDE DEF GivesIn, GivesSw
<1>5. /\ inLink'[b] <=> \E p \in Packets : HasIn(p, b)'
      /\ swLink'[b] <=> \E p \in Packets : HasSw(p, b)'
  BY <1>2, <1>3, <1>4, Zenon
<1> QED
  BY <1>2, <1>4, <1>5

LEMMA InitOwned == Init => Owned
<1> SUFFICES ASSUME Init PROVE Owned
  OBVIOUS
<1>1. \A p \in Packets, b \in Buffers : ~HasIn(p, b) /\ ~HasSw(p, b)
  BY DEF Init, HasIn, HasSw
<1>2. \A b \in Buffers : ~inLink[b] /\ ~swLink[b]
  BY DEF Init
<1> QED
  BY <1>1, <1>2 DEF Owned

LEMMA NextOwned == Typed /\ Packed /\ Serial /\ Owned /\ [Next]_vars => Owned'
<1> SUFFICES ASSUME Typed, Packed, Serial, Owned, [Next]_vars
             PROVE  Owned'
  OBVIOUS
\* All packets own what they owned, and the marks are what they were.
<1>1. ASSUME UNCHANGED <<inLink, swLink>>,
             \A p \in Packets, b \in Buffers :
               (HasIn(p, b)' <=> HasIn(p, b)) /\ (HasSw(p, b)' <=> HasSw(p, b))
      PROVE  Owned'
  BY <1>1 DEF Owned
<1>2. CASE ReleaseLinks
  BY <1>2, ReleaseOwned
<1>3. CASE Reset
  <2>1. \A p \in Packets, b \in Buffers : ~HasIn(p, b)' /\ ~HasSw(p, b)'
    BY <1>3 DEF Reset, HasIn, HasSw, Live
  <2>2. \A b \in Buffers : ~inLink'[b] /\ ~swLink'[b]
    BY <1>3 DEF Reset
  <2> QED
    BY <2>1, <2>2 DEF Owned
<1>4. CASE EndCycle \/ UNCHANGED vars
  <2>1. UNCHANGED <<status, packet, pc, buffer>>
    BY <1>4 DEF EndCycle, vars, cycle
  <2> QED
    BY <1>1, <2>1 DEF packet, buffer, HasIn, HasSw, Touches, HeadAt, TailAt, BufferOf
<1>5. ASSUME NEW q \in Packets, Generate(q)
      PROVE  Owned'
  <2>1. /\ UNCHANGED <<trace, next, switched, release, leaving, pc, inLink, swLink>>
        /\ \A p \in Packets : p # q => status'[p] = status[p]
    BY <1>5 DEF Generate, packet, buffer, Typed
  <2>2. /\ status[q] = "new" /\ pc[q] = "idle" /\ ~switched[q] /\ ~release[q]
        /\ \A i \in 1 .. Length[q] : trace[q][i] = Source
    BY <1>5 DEF Generate, Packed, Local, Control
  <2>3. \A b \in Buffers : BufferOf(Source) # b
    BY NetworkAssumption DEF Source, BufferOf
  <2>4. ASSUME NEW b \in Buffers
        PROVE  ~HasIn(q, b) /\ ~HasSw(q, b) /\ ~HasIn(q, b)' /\ ~HasSw(q, b)'
    BY <2>1, <2>2, <2>3 DEF HasIn, HasSw, Touches, BufferOf
  <2>5. ASSUME NEW p \in Packets, p # q, NEW b \in Buffers
        PROVE  (HasIn(p, b)' <=> HasIn(p, b)) /\ (HasSw(p, b)' <=> HasSw(p, b))
    BY <2>1, <2>5 DEF HasIn, HasSw, Touches, HeadAt, TailAt, BufferOf
  <2> QED
    BY <1>1, <2>1, <2>4, <2>5
<1>6. ASSUME NEW q \in Packets, Update(q)
      PROVE  Owned'
  <2>0. Local(q)
    BY DEF Packed
  <2>1. ASSUME NEW p \in Packets, p # q, NEW b \in Buffers
        PROVE  (HasIn(p, b)' <=> HasIn(p, b)) /\ (HasSw(p, b)' <=> HasSw(p, b))
    BY <1>6, <2>1, UpdateFrame, UntouchedLinks
  <2>2. ASSUME \A b \in Buffers : (HasIn(q, b)' <=> HasIn(q, b)) /\ (HasSw(q, b)' <=> HasSw(q, b)),
               UNCHANGED <<inLink, swLink>>
        PROVE  Owned'
    BY <1>1, <2>1, <2>2
  <2>3. CASE Begin(q) \/ IsEmpty(q) \/ TakeEmpty(q) \/ TakeAny(q) \/ Push(q) \/ Arrive(q)
    <3>1. UNCHANGED <<inLink, swLink>>
      BY <2>3 DEF Begin, IsEmpty, TakeEmpty, TakeAny, Push, Arrive, buffer
    <3> QED
      BY <2>0, <2>2, <2>3, <3>1, OthersKeepLinks
  <2>4. CASE Move(q)
    BY <2>0, <2>2, <2>4, MoveEffect, MoveKeepsLinks
  <2>5. CASE AllocateSwLink(q)
    <3> DEFINE h == BufferOf(HeadAt(q))
    <3>1. /\ UNCHANGED <<status, trace, next, switched, release, leaving, inLink>>
          /\ pc[q] = "switch" /\ ~switched[q] /\ ~release[q] /\ status[q] = "live"
          /\ HeadAt(q) # Source
      BY <2>0, <2>5 DEF AllocateSwLink, AtSource, Local, Control, cycle, packet
    <3>2. /\ HeadAt(q)' = HeadAt(q) /\ TailAt(q)' = TailAt(q)
          /\ \A b \in Buffers : Touches(q, b)' <=> Touches(q, b)
      BY <3>1 DEF HeadAt, TailAt, Touches, BufferOf
    <3>3. CASE swLink' = swLink /\ pc'[q] = "move"
      BY <2>2, <3>1, <3>2, <3>3 DEF HasIn, HasSw, BufferOf
    <3>4. CASE ~swLink[h] /\ swLink' = [swLink EXCEPT ![h] = TRUE] /\ pc'[q] = "inLink"
      <4>1. h \in Buffers
        BY <2>0, <3>1, PlacesNamed, Constants DEF Local
      <4>2. \A b \in Buffers : HasIn(q, b)' <=> HasIn(q, b)
        BY <3>1, <3>2, <3>4 DEF HasIn, BufferOf
      <4>3. \A b \in Buffers : HasSw(q, b)' <=> HasSw(q, b) \/ b = h
        BY <3>1, <3>2, <3>4 DEF HasSw, BufferOf
      <4>4. \A p \in Packets : ~HasSw(p, h)
        BY <3>4, <4>1 DEF Owned
      <4>5. \A b \in Buffers : swLink'[b] <=> swLink[b] \/ b = h
        BY <3>4 DEF Typed
      <4>6. \A p \in Packets, b \in Buffers : HasIn(p, b)' <=> HasIn(p, b)
        BY <2>1, <4>2
      <4>7. \A p \in Packets, b \in Buffers : HasSw(p, b)' <=> HasSw(p, b) \/ (p = q /\ b = h)
        BY <2>1, <4>3
      <4> HIDE DEF h
      <4> QED
        <5> SUFFICES ASSUME NEW b \in Buffers
                     PROVE  /\ inLink'[b] <=> \E p \in Packets : HasIn(p, b)'
                            /\ \A p, r \in Packets : HasIn(p, b)' /\ HasIn(r, b)' => p = r
                            /\ swLink'[b] <=> \E p \in Packets : HasSw(p, b)'
                            /\ \A p, r \in Packets : HasSw(p, b)' /\ HasSw(r, b)' => p = r
          BY DEF Owned
        <5>1. /\ inLink[b] <=> \E p \in Packets : HasIn(p, b)
              /\ \A p, r \in Packets : HasIn(p, b) /\ HasIn(r, b) => p = r
              /\ swLink[b] <=> \E p \in Packets : HasSw(p, b)
              /\ \A p, r \in Packets : HasSw(p, b) /\ HasSw(r, b) => p = r
          BY DEF Owned
        <5>2. inLink'[b] <=> inLink[b]
          BY <3>1
        <5> QED
          BY <5>1, <5>2, <4>4, <4>5, <4>6, <4>7
    <3> QED
      BY <2>5, <3>3, <3>4 DEF AllocateSwLink, Goto, Typed
  <2>6. CASE AllocateInLink(q)
    <3> DEFINE h == BufferOf(next[q])
    <3>1. /\ UNCHANGED <<status, trace, next, release, leaving, swLink>>
          /\ ~switched[q] /\ ~release[q] /\ status[q] = "live"
          /\ \/ pc[q] = "inLink" /\ HeadAt(q) # Source
             \/ pc[q] = "switch" /\ HeadAt(q) = Source
      BY <2>0, <2>6 DEF AllocateInLink, AtSource, Local, Control, cycle, packet
    <3>2. /\ HeadAt(q)' = HeadAt(q) /\ TailAt(q)' = TailAt(q)
          /\ \A b \in Buffers : Touches(q, b)' <=> Touches(q, b)
      BY <3>1 DEF HeadAt, TailAt, Touches, BufferOf
    <3>3. \A b \in Buffers : BufferOf(Source) # b
      BY NetworkAssumption DEF Source, BufferOf
    <3>4. CASE /\ inLink' = inLink /\ switched' = switched
               /\ pc'[q] = IF AtSource(q) THEN "move" ELSE "giveBack"
      BY <2>2, <3>1, <3>2, <3>3, <3>4 DEF HasIn, HasSw, BufferOf, AtSource
    <3>5. CASE /\ ~inLink[h] /\ inLink' = [inLink EXCEPT ![h] = TRUE]
               /\ switched'[q] = TRUE /\ pc'[q] \in {"push", "move"}
      <4>1. h \in Buffers
        BY <2>0, <3>1, PlacesNamed, Constants DEF Local
      <4>2. \A b \in Buffers : HasSw(q, b)' <=> HasSw(q, b)
        BY <3>1, <3>2, <3>3, <3>5 DEF HasSw, BufferOf
      <4>3. \A b \in Buffers : HasIn(q, b)' <=> HasIn(q, b) \/ b = h
        BY <3>1, <3>2, <3>5 DEF HasIn, BufferOf
      <4>4. \A p \in Packets : ~HasIn(p, h)
        BY <3>5, <4>1 DEF Owned
      <4>5. \A b \in Buffers : inLink'[b] <=> inLink[b] \/ b = h
        BY <3>5 DEF Typed
      <4>6. \A p \in Packets, b \in Buffers : HasSw(p, b)' <=> HasSw(p, b)
        BY <2>1, <4>2
      <4>7. \A p \in Packets, b \in Buffers : HasIn(p, b)' <=> HasIn(p, b) \/ (p = q /\ b = h)
        BY <2>1, <4>3
      <4> HIDE DEF h
      <4> QED
        <5> SUFFICES ASSUME NEW b \in Buffers
                     PROVE  /\ swLink'[b] <=> \E p \in Packets : HasSw(p, b)'
                            /\ \A p, r \in Packets : HasSw(p, b)' /\ HasSw(r, b)' => p = r
                            /\ inLink'[b] <=> \E p \in Packets : HasIn(p, b)'
                            /\ \A p, r \in Packets : HasIn(p, b)' /\ HasIn(r, b)' => p = r
          BY DEF Owned
        <5>1. /\ inLink[b] <=> \E p \in Packets : HasIn(p, b)
              /\ \A p, r \in Packets : HasIn(p, b) /\ HasIn(r, b) => p = r
              /\ swLink[b] <=> \E p \in Packets : HasSw(p, b)
              /\ \A p, r \in Packets : HasSw(p, b) /\ HasSw(r, b) => p = r
          BY DEF Owned
        <5>2. swLink'[b] <=> swLink[b]
          BY <3>1
        <5> QED
          BY <5>1, <5>2, <4>4, <4>5, <4>6, <4>7
    <3> QED
      BY <2>6, <3>4, <3>5 DEF AllocateInLink, Goto, Typed
  <2>7. CASE GiveBackSwLink(q)
    <3> DEFINE h == BufferOf(HeadAt(q))
    <3>1. /\ UNCHANGED <<status, trace, next, switched, release, leaving, inLink>>
          /\ pc[q] = "giveBack" /\ ~switched[q] /\ ~release[q] /\ status[q] = "live"
          /\ HeadAt(q) # Source
      BY <2>0, <2>7 DEF GiveBackSwLink, Local, Control, cycle, packet
    <3>2. /\ HeadAt(q)' = HeadAt(q) /\ TailAt(q)' = TailAt(q)
          /\ \A b \in Buffers : Touches(q, b)' <=> Touches(q, b)
      BY <3>1 DEF HeadAt, TailAt, Touches, BufferOf
    <3>3. swLink' = [swLink EXCEPT ![h] = FALSE] /\ pc'[q] = "move"
      BY <2>7 DEF GiveBackSwLink, Goto, Typed
    <3>4. h \in Buffers
      BY <2>0, <3>1, PlacesNamed, Constants DEF Local
    <3>5. \A b \in Buffers : HasIn(q, b)' <=> HasIn(q, b)
      BY <3>1, <3>2 DEF HasIn, BufferOf
    <3>6. HasSw(q, h) /\ \A b \in Buffers : HasSw(q, b)' <=> HasSw(q, b) /\ b # h
      BY <3>1, <3>2, <3>3 DEF HasSw, BufferOf
    <3>7. \A b \in Buffers : swLink'[b] <=> swLink[b] /\ b # h
      BY <3>3 DEF Typed
    <3>8. \A p \in Packets, b \in Buffers : HasIn(p, b)' <=> HasIn(p, b)
      BY <2>1, <3>5
    <3>9. \A p \in Packets, b \in Buffers : HasSw(p, b)' <=> HasSw(p, b) /\ ~(p = q /\ b = h)
      BY <2>1, <3>6
    <3>10. \A p \in Packets : HasSw(p, h) => p = q
      BY <3>4, <3>6 DEF Owned
    <3> HIDE DEF h
    <3> QED
      <4> SUFFICES ASSUME NEW b \in Buffers
                   PROVE  /\ inLink'[b] <=> \E p \in Packets : HasIn(p, b)'
                          /\ \A p, r \in Packets : HasIn(p, b)' /\ HasIn(r, b)' => p = r
                          /\ swLink'[b] <=> \E p \in Packets : HasSw(p, b)'
                          /\ \A p, r \in Packets : HasSw(p, b)' /\ HasSw(r, b)' => p = r
        BY DEF Owned
      <4>1. /\ inLink[b] <=> \E p \in Packets : HasIn(p, b)
            /\ \A p, r \in Packets : HasIn(p, b) /\ HasIn(r, b) => p = r
            /\ swLink[b] <=> \E p \in Packets : HasSw(p, b)
            /\ \A p, r \in Packets : HasSw(p, b) /\ HasSw(r, b) => p = r
        BY DEF Owned
      <4>2. inLink'[b] <=> inLink[b]
        BY <3>1
      <4> QED
        BY <4>1, <4>2, <3>6, <3>7, <3>8, <3>9, <3>10
  <2> QED
    BY <1>6, <2>3, <2>4, <2>5, <2>6, <2>7 DEF Update
<1> QED
  BY <1>2, <1>3, <1>4, <1>5, <1>6 DEF Next

-----------------------------------------------------------------------------
(* The queues.                                                             *)

\* The front of a queue without duplicates leaves it.
LEMMA TailOfQueue ==
  ASSUME NEW S, NEW s \in Seq(S), s # <<>>, Distinct(s)
  PROVE  /\ Distinct(Tail(s))
         /\ \A x : Elem(Tail(s), x) <=> Elem(s, x) /\ x # Head(s)
<1>1. /\ Len(s) \in Nat \ {0} /\ Len(Tail(s)) = Len(s) - 1 /\ Head(s) = s[1]
      /\ \A i \in 1 .. Len(Tail(s)) : Tail(s)[i] = s[i + 1]
  BY HeadTailProperties, EmptySeq
<1>2. Distinct(Tail(s))
  BY <1>1 DEF Distinct
<1>3. ASSUME NEW x, Elem(Tail(s), x)
      PROVE  Elem(s, x) /\ x # Head(s)
  BY <1>1, <1>3 DEF Distinct, Elem
<1>4. ASSUME NEW x, Elem(s, x), x # Head(s)
      PROVE  Elem(Tail(s), x)
  <2>1. PICK i \in 1 .. Len(s) : s[i] = x
    BY <1>4 DEF Elem
  <2>2. i - 1 \in 1 .. Len(Tail(s)) /\ Tail(s)[i - 1] = s[(i - 1) + 1]
    BY <1>1, <1>4, <2>1
  <2> QED
    BY <1>1, <2>1, <2>2 DEF Elem
<1> QED
  BY <1>2, <1>3, <1>4

\* A newcomer goes to the end.
LEMMA AppendToQueue ==
  ASSUME NEW S, NEW s \in Seq(S), NEW e \in S, Distinct(s), ~Elem(s, e)
  PROVE  /\ Distinct(Append(s, e))
         /\ \A x : Elem(Append(s, e), x) <=> Elem(s, x) \/ x = e
         /\ Append(s, e) # <<>>
         /\ s # <<>> => Head(Append(s, e)) = Head(s)
<1>1. /\ Len(s) \in Nat /\ Len(Append(s, e)) = Len(s) + 1 /\ Append(s, e) # <<>>
      /\ \A i \in 1 .. Len(s) : Append(s, e)[i] = s[i]
      /\ Append(s, e)[Len(s) + 1] = e
  BY AppendProperties, LenProperties
<1>2. Distinct(Append(s, e))
  BY <1>1 DEF Distinct, Elem
<1>3. \A x : Elem(Append(s, e), x) <=> Elem(s, x) \/ x = e
  BY <1>1 DEF Elem
<1>4. s # <<>> => Head(Append(s, e)) = Head(s)
  BY HeadTailAppend
<1> QED
  BY <1>1, <1>2, <1>3, <1>4

\* What a packet has in the queues changes in three steps only.
LEMMA UntouchedPlaces ==
  ASSUME NEW p \in Packets, Untouched(p), status'[p] = status[p], NEW c \in Channels
  PROVE  (Member(p, c)' <=> Member(p, c)) /\ (Leads(p, c)' <=> Leads(p, c))
BY DEF Untouched, Member, Leads, Occupies, HeadAt, BufferOf

LEMMA OthersKeepPlaces ==
  ASSUME Typed, NEW p \in Packets, Local(p), NEW c \in Channels,
         \/ Begin(p) \/ IsEmpty(p) \/ TakeEmpty(p) \/ TakeAny(p) \/ AllocateSwLink(p)
         \/ AllocateInLink(p) \/ GiveBackSwLink(p) \/ Arrive(p)
  PROVE  /\ Member(p, c)' <=> Member(p, c)
         /\ Leads(p, c)' => Leads(p, c) \/ (HeadAt(p) = c /\ FrontOfQueue(p))
<1>1. /\ UNCHANGED <<status, trace, release, leaving>>
      /\ ~switched[p]
      /\ status[p] = "live"
  BY DEF Begin, IsEmpty, TakeEmpty, TakeAny, AllocateSwLink, AllocateInLink, GiveBackSwLink, Arrive,
         Local, Control, cycle, packet
<1>2. /\ HeadAt(p)' = HeadAt(p)
      /\ Occupies(p, c)' <=> Occupies(p, c)
  BY <1>1 DEF HeadAt, Occupies
<1>3. ~switched'[p] \/ (/\ AllocateInLink(p) /\ pc'[p] \in {"push", "move"}
                        /\ pc'[p] # "push" => DownNode[BufferOf(next[p])] = Dst[p]
                        /\ next'[p] = next[p] /\ (HeadAt(p) = Source \/ pc[p] = "inLink"))
  BY <1>1 DEF Begin, IsEmpty, TakeEmpty, TakeAny, AllocateSwLink, AllocateInLink, GiveBackSwLink,
         Arrive, Goto, AtSource, packet, Typed
<1>4. Member(p, c)' <=> Member(p, c)
  BY <1>1, <1>2, <1>3 DEF Member, BufferOf
<1>5. pc'[p] \in {"inLink", "giveBack"} =>
        pc[p] \in {"inLink", "giveBack"} \/ FrontOfQueue(p)
  <2>0. pc \in [Packets -> Locations]
    BY DEF Typed
  <2>1. CASE Begin(p)
    BY <2>0, <2>1 DEF Begin, Stage, Goto
  <2>2. CASE IsEmpty(p)
    BY <2>0, <2>2 DEF IsEmpty, NextCandidate, Goto
  <2>3. CASE TakeEmpty(p) \/ TakeAny(p)
    BY <2>0, <2>3 DEF TakeEmpty, TakeAny, TakeCandidate, NextCandidate, Goto
  <2>4. CASE AllocateSwLink(p)
    BY <2>0, <2>4 DEF AllocateSwLink, Goto
  <2>5. CASE AllocateInLink(p)
    BY <2>0, <2>5 DEF AllocateInLink, Goto
  <2>6. CASE GiveBackSwLink(p) \/ Arrive(p)
    BY <2>0, <2>6 DEF GiveBackSwLink, Arrive, Goto
  <2> QED
    BY <2>1, <2>2, <2>3, <2>4, <2>5, <2>6
<1>6. Source # c
  BY Constants
<1>7. Leads(p, c)' => Leads(p, c) \/ (HeadAt(p) = c /\ FrontOfQueue(p))
  BY <1>1, <1>2, <1>3, <1>5, <1>6 DEF Leads, BufferOf
<1> QED
  BY <1>4, <1>7

LEMMA PushTakesPlace ==
  ASSUME Typed, NEW p \in Packets, Local(p), Push(p), NEW c \in Channels
  PROVE  /\ Member(p, c)' <=> Member(p, c) \/ c = next[p]
         /\ ~Member(p, next[p])
         /\ Leads(p, c)' <=> Leads(p, c)
<1>1. /\ UNCHANGED <<status, trace, next, switched, release, leaving>>
      /\ pc[p] = "push" /\ pc'[p] = "move"
      /\ switched[p] /\ status[p] = "live" /\ ~release[p] /\ NodeAt(p, next[p]) # Dst[p]
  BY DEF Push, Goto, Typed, Local, Control, cycle, packet
<1>2. /\ HeadAt(p)' = HeadAt(p)
      /\ \A d \in Channels : Occupies(p, d)' <=> Occupies(p, d)
  BY <1>1 DEF HeadAt, Occupies
<1>3. next[p] \in Channels /\ DownNode[BufferOf(next[p])] # Dst[p]
  BY <1>1, PlacesNamed, Constants DEF Local
<1>4. ~Occupies(p, next[p])
  <2>1. trace[p] \in [1 .. Length[p] -> Places] /\ Worm(p) /\ Hop(p, HeadAt(p), next[p])
    BY <1>3, Constants DEF Typed, Local, Worm
  <2> QED
    BY <2>1, NextIsNew DEF Occupies
<1>5. Member(p, c)' <=> Member(p, c) \/ c = next[p]
  BY <1>1, <1>2, <1>3 DEF Member, BufferOf
<1>6. ~Member(p, next[p])
  BY <1>1, <1>4 DEF Member
<1>7. Leads(p, c)' <=> Leads(p, c)
  BY <1>1, <1>2 DEF Leads, BufferOf
<1> QED
  BY <1>5, <1>6, <1>7

LEMMA MoveKeepsPlaces ==
  ASSUME Typed, NEW p \in Packets, Local(p), Move(p), NEW c \in Channels
  PROVE  /\ Member(p, c)' <=> Member(p, c)
         /\ Leads(p, c)' => Leads(p, c)
<1>1. /\ trace[p] \in [1 .. Length[p] -> Places] /\ next[p] \in Places /\ Worm(p)
      /\ switched[p] => next[p] # Source
      /\ TailAt(p) = trace[p][Length[p]] /\ TailAt(p)' = trace'[p][Length[p]]
      /\ Length[p] \in 1 .. Length[p]
  BY Constants DEF Typed, Local, Control, Worm, TailAt
<1>2. /\ HeadAt(p)' = IF switched[p] THEN next[p] ELSE HeadAt(p)
      /\ release'[p] <=> TailAt(p)' # TailAt(p)
      /\ TailAt(p)' # TailAt(p) => leaving'[p] = TailAt(p)
      /\ ~switched'[p] /\ ~release[p] /\ status[p] = "live" /\ status'[p] = "live"
      /\ pc[p] = "move" /\ pc'[p] \notin {"inLink", "giveBack"}
      /\ trace'[p] = MoveFlits(p)
  BY MoveEffect
<1>3. Occupies(p, c)' <=> Reaches(p, c) /\ (c = TailAt(p) => TailAt(p)' = c)
  <2>1. (\E i \in 1 .. Length[p] : MoveFlits(p)[i] = c)
          <=> Reaches(p, c) /\ (c = TailAt(p) => MoveFlits(p)[Length[p]] = c)
    BY <1>1, MovedPlaces
  <2> QED
    BY <1>1, <1>2, <2>1 DEF Occupies
<1>4. Reaches(p, c) <=> Occupies(p, c) \/ (switched[p] /\ c = next[p])
  BY DEF Reaches, Occupies
<1>5. c = TailAt(p) => Occupies(p, c)
  BY <1>1 DEF Occupies
<1>6. Reaches(p, c) <=> Occupies(p, c)' \/ (release'[p] /\ leaving'[p] = c)
  BY <1>2, <1>3, <1>4, <1>5
<1>7. Member(p, c)' <=> Member(p, c)
  BY <1>2, <1>4, <1>6 DEF Member, BufferOf
<1>8. Leads(p, c)' => Leads(p, c)
  BY <1>2, <1>4, <1>6 DEF Leads, BufferOf
<1> QED
  BY <1>7, <1>8

\* The serial loop takes from each queue the packet whose tail has left.
LEMMA ReleaseQueues ==
  ASSUME Typed, Packed, Serial, Queued, InFront, ReleaseLinks
  PROVE  Queued' /\ InFront'
<1>1. /\ UNCHANGED <<trace, next, switched, pc, leaving>>
      /\ \A p \in Packets : ~switched[p] /\ pc[p] = "idle" /\ ~release'[p]
      /\ \A p \in Packets : status'[p] = "live" <=> status[p] = "live" /\ ~finished[p]
  BY DEF ReleaseLinks, Serial, Packed, Local, Control, Live, Typed
<1> DEFINE Gone(p, c) == status[p] = "live" /\ release[p] /\ leaving[p] = c
<1>2. ASSUME NEW p \in Packets, NEW c \in Channels
      PROVE  /\ Member(p, c)' <=> Member(p, c) /\ ~Gone(p, c)
             /\ Leads(p, c)' => Leads(p, c) /\ ~Gone(p, c)
             /\ Gone(p, c) => Leads(p, c)
  <2>1. HeadAt(p)' = HeadAt(p) /\ (Occupies(p, c)' <=> Occupies(p, c))
    BY <1>1 DEF HeadAt, Occupies
  <2>2. ASSUME finished[p], Occupies(p, c)
        PROVE  DownNode[BufferOf(c)] = Dst[p]
    <3>1. c = TailAt(p)
      BY <2>2, ArrivedWorm DEF Packed, Occupies
    <3>2. NodeAt(p, TailAt(p)) = Dst[p]
      BY <2>2 DEF Packed, Local, Control
    <3> QED
      BY <3>1, <3>2, Constants
  <2>3. ASSUME Gone(p, c)
        PROVE  HeadAt(p) # c /\ ~Occupies(p, c) /\ DownNode[BufferOf(c)] # Dst[p]
    BY <2>3, LeavingInFront, Constants DEF Packed, Local, Live
  <2>4. Member(p, c)' <=> Member(p, c) /\ ~Gone(p, c)
    BY <1>1, <2>1, <2>2, <2>3 DEF Member, BufferOf
  <2>5. Leads(p, c)' => Leads(p, c) /\ ~Gone(p, c)
    BY <1>1, <2>1, <2>3 DEF Leads, BufferOf
  <2>6. Gone(p, c) => Leads(p, c)
    BY <2>3 DEF Leads
  <2> QED
    BY <2>4, <2>5, <2>6
<1>3. ASSUME NEW c \in Channels
      PROVE  /\ Distinct(queue'[c])
             /\ \A p \in Packets : Elem(queue'[c], p) <=> Member(p, c)'
             /\ \A p \in Packets : Leads(p, c)' => queue'[c] # <<>> /\ Head(queue'[c]) = p
  <2>1. /\ queue[c] \in Seq(Packets) /\ Distinct(queue[c])
        /\ \A p \in Packets : Elem(queue[c], p) <=> Member(p, c)
        /\ \A p \in Packets : Leads(p, c) => queue[c] # <<>> /\ Head(queue[c]) = p
    BY DEF Typed, Queued, InFront
  <2>2. CASE \E p \in Packets : Gone(p, c)
    <3>1. PICK p \in Packets : Gone(p, c)
      BY <2>2
    <3>2. queue[c] # <<>> /\ Head(queue[c]) = p
      BY <1>2, <2>1, <3>1
    <3>3. queue'[c] = Tail(queue[c])
      BY <3>1 DEF ReleaseLinks, Live
    <3>4. \A q \in Packets : Gone(q, c) => q = p
      BY <1>2, <2>1, <3>2
    <3>5. Distinct(queue'[c]) /\ \A q \in Packets : Elem(queue'[c], q) <=> Member(q, c) /\ q # p
      BY <2>1, <3>2, <3>3, TailOfQueue
    <3>6. \A q \in Packets : ~Leads(q, c)'
      BY <1>2, <2>1, <3>1, <3>2
    <3> HIDE DEF Gone
    <3>7. \A q \in Packets : Member(q, c)' <=> Member(q, c) /\ q # p
      BY <1>2, <3>1, <3>4
    <3> QED
      BY <3>5, <3>6, <3>7
  <2>3. CASE ~\E p \in Packets : Gone(p, c)
    <3>1. queue'[c] = queue[c]
      BY <2>3 DEF ReleaseLinks, Live
    <3> HIDE DEF Gone
    <3> QED
      BY <1>2, <2>1, <2>3, <3>1
  <2> QED
    BY <2>2, <2>3
<1> QED
  BY <1>3 DEF Queued, InFront

LEMMA InitQueues == Init => Queued /\ InFront
<1> SUFFICES ASSUME Init PROVE Queued /\ InFront
  OBVIOUS
<1>1. \A p \in Packets, c \in Channels : ~Member(p, c) /\ ~Leads(p, c)
  BY DEF Init, Member, Leads
<1>2. \A c \in Channels : queue[c] = <<>>
  BY DEF Init
<1>3. Distinct(<<>>) /\ \A p : ~Elem(<<>>, p)
  BY EmptySeq DEF Distinct, Elem
<1> QED
  BY <1>1, <1>2, <1>3 DEF Queued, InFront

LEMMA NextQueues ==
  Typed /\ Packed /\ Serial /\ Queued /\ InFront /\ [Next]_vars => Queued' /\ InFront'
<1> SUFFICES ASSUME Typed, Packed, Serial, Queued, InFront, [Next]_vars
             PROVE  Queued' /\ InFront'
  OBVIOUS
\* The queues and who is in them are the same, and who newly leads is in front.
<1>1. ASSUME queue' = queue,
             \A p \in Packets, c \in Channels :
               /\ Member(p, c)' <=> Member(p, c)
               /\ Leads(p, c)' => Leads(p, c) \/ (HeadAt(p) = c /\ FrontOfQueue(p))
      PROVE  Queued' /\ InFront'
  BY <1>1 DEF Queued, InFront, FrontOfQueue
<1>2. CASE ReleaseLinks
  BY <1>2, ReleaseQueues
<1>3. CASE Reset
  <2>1. \A p \in Packets, c \in Channels : ~Member(p, c)' /\ ~Leads(p, c)'
    BY <1>3 DEF Reset, Member, Leads, Live
  <2>2. \A c \in Channels : queue'[c] = <<>>
    BY <1>3 DEF Reset
  <2>3. Distinct(<<>>) /\ \A p : ~Elem(<<>>, p)
    BY EmptySeq DEF Distinct, Elem
  <2> QED
    BY <2>1, <2>2, <2>3 DEF Queued, InFront
<1>4. CASE EndCycle \/ UNCHANGED vars
  <2>1. UNCHANGED <<status, packet, pc, buffer>>
    BY <1>4 DEF EndCycle, vars, cycle
  <2> QED
    BY <1>1, <2>1 DEF packet, buffer, Member, Leads, Occupies, HeadAt, BufferOf
<1>5. ASSUME NEW q \in Packets, Generate(q)
      PROVE  Queued' /\ InFront'
  <2>1. /\ UNCHANGED <<trace, next, switched, release, leaving, pc, queue>>
        /\ \A p \in Packets : p # q => status'[p] = status[p]
    BY <1>5 DEF Generate, packet, buffer, Typed
  <2>2. /\ status[q] = "new" /\ pc[q] = "idle" /\ ~switched[q] /\ ~release[q]
        /\ \A i \in 1 .. Length[q] : trace[q][i] = Source
    BY <1>5 DEF Generate, Packed, Local, Control
  <2>3. ASSUME NEW c \in Channels
        PROVE  ~Member(q, c) /\ ~Member(q, c)' /\ ~Leads(q, c)'
    BY <2>1, <2>2, Constants DEF Member, Leads, Occupies, BufferOf
  <2>4. ASSUME NEW p \in Packets, p # q, NEW c \in Channels
        PROVE  (Member(p, c)' <=> Member(p, c)) /\ (Leads(p, c)' <=> Leads(p, c))
    BY <2>1, <2>4 DEF Member, Leads, Occupies, HeadAt, BufferOf
  <2> QED
    BY <1>1, <2>1, <2>3, <2>4
<1>6. ASSUME NEW q \in Packets, Update(q)
      PROVE  Queued' /\ InFront'
  <2>0. Local(q)
    BY DEF Packed
  <2>1. ASSUME NEW p \in Packets, p # q, NEW c \in Channels
        PROVE  (Member(p, c)' <=> Member(p, c)) /\ (Leads(p, c)' <=> Leads(p, c))
    BY <1>6, <2>1, UpdateFrame, UntouchedPlaces
  <2>2. CASE \/ Begin(q) \/ IsEmpty(q) \/ TakeEmpty(q) \/ TakeAny(q) \/ AllocateSwLink(q)
             \/ AllocateInLink(q) \/ GiveBackSwLink(q) \/ Arrive(q)
    <3>1. queue' = queue
      BY <2>2 DEF Begin, IsEmpty, TakeEmpty, TakeAny, AllocateSwLink, AllocateInLink,
                  GiveBackSwLink, Arrive, buffer
    <3> QED
      BY <1>1, <2>0, <2>1, <2>2, <3>1, OthersKeepPlaces
  <2>3. CASE Move(q)
    BY <1>1, <2>0, <2>1, <2>3, MoveEffect, MoveKeepsPlaces
  <2>4. CASE Push(q)
    <3>1. next[q] \in Channels
      <4>1. pc[q] = "push"
        BY <2>4 DEF Push
      <4> QED
        BY <2>0, <4>1, PlacesNamed DEF Local
    <3>2. ASSUME NEW c \in Channels
          PROVE  /\ \A p \in Packets : Member(p, c)' <=> Member(p, c) \/ (p = q /\ c = next[q])
                 /\ \A p \in Packets : Leads(p, c)' <=> Leads(p, c)
                 /\ ~Member(q, next[q])
      BY <2>0, <2>1, <2>4, PushTakesPlace
    <3>3. ASSUME NEW c \in Channels
          PROVE  /\ Distinct(queue'[c])
                 /\ \A p \in Packets : Elem(queue'[c], p) <=> Elem(queue[c], p) \/ (p = q /\ c = next[q])
                 /\ queue[c] # <<>> => queue'[c] # <<>> /\ Head(queue'[c]) = Head(queue[c])
      <4>1. CASE c # next[q]
        <5>1. queue'[c] = queue[c]
          BY <2>4, <4>1 DEF Push, Typed
        <5> QED
          BY <4>1, <5>1 DEF Queued
      <4>2. CASE c = next[q]
        <5>1. queue'[c] = Append(queue[c], q)
          BY <2>4, <4>2 DEF Push, Typed
        <5>2. queue[c] \in Seq(Packets) /\ Distinct(queue[c]) /\ ~Elem(queue[c], q)
          BY <3>2, <4>2 DEF Typed, Queued
        <5> QED
          BY <4>2, <5>1, <5>2, AppendToQueue
      <4> QED
        BY <4>1, <4>2
    <3>4. Queued'
      <4>1. \A c \in Channels, p \in Packets : Elem(queue[c], p) <=> Member(p, c)
        BY DEF Queued
      <4> QED
        BY <3>2, <3>3, <4>1 DEF Queued
    <3>5. InFront'
      BY <3>2, <3>3 DEF InFront
    <3> QED
      BY <3>4, <3>5
  <2> QED
    BY <1>6, <2>2, <2>3, <2>4 DEF Update
<1> QED
  BY <1>2, <1>3, <1>4, <1>5, <1>6 DEF Next

-----------------------------------------------------------------------------
(* The invariant, and what follows from it.                                *)

IInv == Typed /\ Packed /\ Serial /\ Owned /\ Queued /\ InFront

LEMMA InitPacked == Init => Packed /\ Serial
<1> SUFFICES ASSUME Init PROVE Packed /\ Serial
  OBVIOUS
<1>1. ASSUME NEW p \in Packets
      PROVE  Local(p)
  <2>1. /\ \A i \in 1 .. Length[p] : trace[p][i] = Source
        /\ HeadAt(p) = Source /\ TailAt(p) = Source
    BY <1>1, Constants DEF Init, HeadAt, TailAt
  <2>2. /\ status[p] = "new" /\ todo = {} /\ cand[p] = <<>> /\ next[p] = Source /\ ~switched[p]
        /\ ~finished[p] /\ ~release[p] /\ pc[p] = "idle" /\ k[p] = 1
    BY DEF Init
  <2>3. Src[p] \in Way[p] /\ NodeAt(p, Source) = Src[p]
    BY WayAndRank, Constants DEF LeadsOn
  <2>4. Worm(p)
    <3>1. 1 .. Len(<<>>) = {}
      BY EmptySeq
    <3>2. \A i \in 1 .. Length[p] - 1 : i \in 1 .. Length[p] /\ i + 1 \in 1 .. Length[p]
      BY Constants
    <3> QED
      BY <2>1, <2>2, <2>3, <3>1, <3>2 DEF Worm
  <2>5. Control(p)
    BY <2>1, <2>2 DEF Control
  <2> QED
    BY <2>2, <2>4, <2>5 DEF Local, Left, OnItsWay
<1>2. Serial
  BY DEF Init, Serial
<1> QED
  BY <1>1, <1>2 DEF Packed

\* IInv holds initially and every step keeps it.
THEOREM Invariant == Spec => []IInv
<1>1. Init => IInv
  BY InitTyped, InitPacked, InitOwned, InitQueues DEF IInv
<1>2. IInv /\ [Next]_vars => IInv'
  BY NextTyped, NextPacked, NextSerial, NextOwned, NextQueues DEF IInv
<1> QED
  BY <1>1, <1>2, PTL DEF Spec

\* The flits of a packet are a connected worm.
THEOREM Connected == Spec => []WormConnected
<1>1. IInv => WormConnected
  <2> SUFFICES ASSUME IInv, NEW p \in Live, NEW i \in 1 .. Length[p] - 1,
                      trace[p][i] # trace[p][i + 1]
               PROVE  trace[p][i] # Source /\ UpNode[BufferOf(trace[p][i])] = NodeAt(p, trace[p][i + 1])
    BY DEF WormConnected
  <2>1. p \in Packets /\ i + 1 \in 1 .. Length[p]
    BY Constants DEF Live
  <2>2. NodeAt(p, trace[p][i + 1]) \in Way[p] /\ Hop(p, trace[p][i + 1], trace[p][i])
    BY <2>1 DEF IInv, Packed, Local, Worm
  <2> QED
    BY <2>1, <2>2, HopFacts, Constants
<1> QED
  BY <1>1, Invariant, PTL

\* A flit in buffer b is in one of its channels.
LEMMA BufferTouched ==
  ASSUME Typed, NEW p \in Packets, NEW b \in Buffers
  PROVE  InBuffer(p, b) <=> Touches(p, b)
<1>1. ASSUME NEW i \in 1 .. Length[p]
      PROVE  BufferOf(trace[p][i]) = b <=> \E v \in VCs : trace[p][i] = <<b, v>>
  <2>1. trace[p][i] \in Places /\ BufferOf(Source) # b
    BY NetworkAssumption DEF Typed, Source, BufferOf
  <2> QED
    BY <2>1 DEF Places, Channels, BufferOf
<1> QED
  BY <1>1 DEF InBuffer, Occupies, Touches

\* The cardinality of a set that has at most one element.
LEMMA OneOrNone ==
  ASSUME NEW used \in BOOLEAN, NEW S, used <=> S # {}, \A x, y \in S : x = y
  PROVE  Cardinality(S) = IF used THEN 1 ELSE 0
<1>1. CASE S = {}
  <2>1. Cardinality({}) = 0
    BY FS_EmptySet
  <2> QED
    BY <1>1, <2>1, Zenon
<1>2. CASE S # {}
  <2>1. PICK x \in S : TRUE
    BY <1>2
  <2>2. S = {x}
    BY <2>1
  <2>3. Cardinality({x}) = 1
    BY FS_Singleton
  <2> QED
    BY <1>2, <2>2, <2>3, Zenon
<1> QED
  BY <1>1, <1>2

\* A link is marked used exactly while one packet owns it.
THEOREM LinkOwnership == Spec => []LinksOwned
<1>1. IInv => LinksOwned
  <2> SUFFICES ASSUME IInv, NEW b \in Buffers
               PROVE  /\ Cardinality(InLinkOwners(b)) = IF inLink[b] THEN 1 ELSE 0
                      /\ Cardinality(SwLinkOwners(b)) = IF swLink[b] THEN 1 ELSE 0
    BY DEF LinksOwned
  <2>1. \A p \in Packets : InBuffer(p, b) <=> Touches(p, b)
    BY BufferTouched DEF IInv
  <2>2. InLinkOwners(b) = {p \in Packets : HasIn(p, b)}
    BY <2>1 DEF InLinkOwners, HasIn, Live
  <2>3. SwLinkOwners(b) = {p \in Packets : HasSw(p, b)}
    BY <2>1 DEF SwLinkOwners, HasSw, Live
  <2>4. inLink[b] \in BOOLEAN /\ swLink[b] \in BOOLEAN
    BY DEF IInv, Typed
  <2>5. /\ inLink[b] <=> InLinkOwners(b) # {}
        /\ \A p, q \in InLinkOwners(b) : p = q
    BY <2>2 DEF IInv, Owned
  <2>6. /\ swLink[b] <=> SwLinkOwners(b) # {}
        /\ \A p, q \in SwLinkOwners(b) : p = q
    BY <2>3 DEF IInv, Owned
  <2> HIDE DEF IInv
  <2>7. Cardinality(InLinkOwners(b)) = IF inLink[b] THEN 1 ELSE 0
    BY <2>4, <2>5, OneOrNone, Zenon
  <2>8. Cardinality(SwLinkOwners(b)) = IF swLink[b] THEN 1 ELSE 0
    BY <2>4, <2>6, OneOrNone, Zenon
  <2> QED
    BY <2>7, <2>8
<1> QED
  BY <1>1, Invariant, PTL

\* A queue without duplicates is as long as the set of its elements.
LEMMA LengthOfQueue ==
  ASSUME NEW S, NEW s \in Seq(S), Distinct(s)
  PROVE  Len(s) = Cardinality(Range(s))
<1>1. Len(s) \in Nat /\ s \in [1 .. Len(s) -> S] /\ DOMAIN s = 1 .. Len(s)
  BY LenProperties
<1>2. s \in [1 .. Len(s) -> Range(s)]
  BY <1>1 DEF Range
<1>3. s \in Surjection(1 .. Len(s), Range(s))
  BY <1>1, <1>2 DEF Surjection, Range
<1>4. s \in Injection(1 .. Len(s), Range(s))
  BY <1>1, <1>2 DEF Injection, IsInjective, Distinct
<1>5. IsFiniteSet(1 .. Len(s)) /\ Cardinality(1 .. Len(s)) = Len(s)
  BY <1>1, FS_Interval
<1> QED
  BY <1>3, <1>4, <1>5, FS_Surjection

\* A queue holds its packets once each, and the packet in front alone has
\* flits ahead of the channel.
THEOREM QueueOrder == Spec => []QueuesOrdered
<1>1. IInv => QueuesOrdered
  <2> SUFFICES ASSUME IInv, NEW c \in Channels
               PROVE  /\ Range(queue[c]) = QueueMembers(c)
                      /\ Len(queue[c]) = Cardinality(QueueMembers(c))
                      /\ \A p \in QueueMembers(c) :
                           (Occupies(p, c) \/ (leaving[p] = c /\ release[p])) /\ HeadAt(p) # c
                             => Head(queue[c]) = p
    BY DEF QueuesOrdered
  <2>1. queue[c] \in Seq(Packets) /\ Distinct(queue[c])
    BY DEF IInv, Typed, Queued
  <2>2. QueueMembers(c) = {p \in Packets : Member(p, c)}
    BY DEF QueueMembers, Member, Live
  <2>3. Range(queue[c]) = {p \in Packets : Elem(queue[c], p)}
    <3>1. DOMAIN queue[c] = 1 .. Len(queue[c]) /\ queue[c] \in [1 .. Len(queue[c]) -> Packets]
      BY <2>1, LenProperties
    <3> QED
      BY <3>1 DEF Range, Elem
  <2>4. Range(queue[c]) = QueueMembers(c)
    BY <2>2, <2>3 DEF IInv, Queued
  <2>5. Len(queue[c]) = Cardinality(QueueMembers(c))
    BY <2>1, <2>4, LengthOfQueue
  <2>6. ASSUME NEW p \in QueueMembers(c),
               Occupies(p, c) \/ (leaving[p] = c /\ release[p]), HeadAt(p) # c
        PROVE  Head(queue[c]) = p
    <3>1. p \in Packets /\ Leads(p, c)
      BY <2>6 DEF QueueMembers, Leads, Live
    <3> QED
      BY <3>1 DEF IInv, InFront
  <2> QED
    BY <2>4, <2>5, <2>6
<1> QED
  BY <1>1, Invariant, PTL

\* The assertions in the code never fail.
THEOREM Assertions == Spec => []AssertionsHold
<1>1. IInv => AssertionsHold
  <2> SUFFICES ASSUME IInv PROVE AssertionsHold
    OBVIOUS
  <2> USE DEF IInv
  <2>1. ASSUME NEW p \in todo
        PROVE  linkTimer[p] > 0 \/ NodeAt(p, TailAt(p)) # Dst[p]
    BY <2>1 DEF Typed, Packed, Local, Control, OnItsWay
  <2>2. ASSUME NEW p \in Live, release[p]
        PROVE  /\ inLink[BufferOf(TailAt(p))]
               /\ leaving[p] # Source =>
                    /\ queue[leaving[p]] # <<>> /\ Head(queue[leaving[p]]) = p
                    /\ swLink[BufferOf(leaving[p])]
    <3>1. p \in Packets /\ status[p] = "live" /\ Left(p)
      BY DEF Live, Packed, Local
    <3>2. TailAt(p) \in Channels
      <4>1. TailAt(p) \in Places /\ TailAt(p) # Source
        BY <2>2, <3>1, Constants DEF Typed, Left, TailAt
      <4> QED
        BY <4>1, Constants
    <3>3. HasIn(p, BufferOf(TailAt(p))) /\ BufferOf(TailAt(p)) \in Buffers
      BY <2>2, <3>1, <3>2, Constants DEF HasIn
    <3>4. inLink[BufferOf(TailAt(p))]
      BY <3>1, <3>3 DEF Owned
    <3>5. ASSUME leaving[p] # Source
          PROVE  /\ queue[leaving[p]] # <<>> /\ Head(queue[leaving[p]]) = p
                 /\ swLink[BufferOf(leaving[p])]
      <4>1. /\ leaving[p] \in Channels
            /\ queue[leaving[p]] # <<>> /\ Head(queue[leaving[p]]) = p
        BY <2>2, <3>1, <3>5, LeavingInFront
      <4>2. HasSw(p, BufferOf(leaving[p])) /\ BufferOf(leaving[p]) \in Buffers
        BY <2>2, <3>1, <4>1, Constants DEF HasSw
      <4> QED
        BY <3>1, <4>1, <4>2 DEF Owned
    <3> QED
      BY <3>4, <3>5
  <2>3. ASSUME NEW p \in Live, pc[p] = "giveBack"
        PROVE  swLink[BufferOf(HeadAt(p))]
    <3>1. p \in Packets /\ status[p] = "live"
      BY DEF Live
    <3>2. HeadAt(p) \in Places /\ HeadAt(p) # Source
      <4>1. HeadAt(p) # Source
        BY <2>3, <3>1 DEF Packed, Local, Control
      <4>2. HeadAt(p) \in Places
        BY <3>1, Constants DEF Typed, HeadAt
      <4> QED
        BY <4>1, <4>2
    <3>3. HasSw(p, BufferOf(HeadAt(p))) /\ BufferOf(HeadAt(p)) \in Buffers
      BY <2>3, <3>1, <3>2, Constants DEF HasSw
    <3> QED
      BY <3>1, <3>3 DEF Owned
  <2> QED
    BY <2>1, <2>2, <2>3 DEF AssertionsHold
<1> QED
  BY <1>1, Invariant, PTL

\* No step sends more flits of a packet over a link than it is wide, or any
\* flit to a buffer it has no link to.
THEOREM WidthKept == Spec => LinkWidthKept
<1> DEFINE Entered(p, b) == {i \in 1 .. Length[p] :
                               trace'[p][i] # trace[p][i] /\ BufferOf(trace'[p][i]) = b}
           Kept == \A p \in Packets, b \in Buffers :
                     /\ Cardinality(Entered(p, b)) <= Width[b]
                     /\ \A i \in Entered(p, b) : NodeAt(p, trace[p][i]) = UpNode[b]
<1>1. IInv /\ [Next]_vars => [Kept]_vars
  <2> SUFFICES ASSUME IInv, Next, NEW p \in Packets, NEW b \in Buffers
               PROVE  /\ Cardinality(Entered(p, b)) <= Width[b]
                      /\ \A i \in Entered(p, b) : NodeAt(p, trace[p][i]) = UpNode[b]
    OBVIOUS
  <2>1. CASE Move(p)
    <3>1. /\ trace[p] \in [1 .. Length[p] -> Places] /\ Worm(p) /\ next[p] \in Places
          /\ switched[p] => next[p] # Source
      BY DEF IInv, Typed, Packed, Local, Control
    <3>2. trace'[p] = MoveFlits(p)
      BY <2>1, MoveEffect DEF IInv, Packed
    <3>3. Entered(p, b) = {i \in 1 .. Length[p] :
                             MoveFlits(p)[i] # trace[p][i] /\ BufferOf(MoveFlits(p)[i]) = b}
      BY <3>2
    <3> HIDE DEF Entered
    <3> QED
      BY <3>1, <3>3, MovedWidth
  <2>2. CASE trace'[p] = trace[p]
    <3>1. Entered(p, b) = {}
      BY <2>2
    <3>2. Cardinality({}) = 0 /\ Width[b] \in Nat
      BY FS_EmptySet, NetworkAssumption
    <3> HIDE DEF Entered
    <3> QED
      BY <3>1, <3>2
  <2>3. ~Move(p) => trace'[p] = trace[p]
    <3>1. CASE ReleaseLinks \/ Reset \/ EndCycle
      BY <3>1 DEF ReleaseLinks, Reset, EndCycle, packet
    <3>2. ASSUME NEW q \in Packets, Generate(q)
          PROVE  trace'[p] = trace[p]
      BY <3>2 DEF Generate, packet
    <3>3. ASSUME NEW q \in Packets, Update(q), p # q
          PROVE  trace'[p] = trace[p]
      BY <3>3, UpdateFrame DEF IInv, Untouched
    <3>4. ASSUME Update(p), ~Move(p)
          PROVE  trace'[p] = trace[p]
      BY <3>4 DEF Update, Begin, IsEmpty, TakeEmpty, TakeAny, AllocateSwLink, AllocateInLink, Push,
                  GiveBackSwLink, Arrive, packet
    <3> QED
      BY <3>1, <3>2, <3>3, <3>4 DEF Next
  <2> QED
    BY <2>1, <2>2, <2>3
<1> QED
  BY <1>1, Invariant, PTL DEF Spec, LinkWidthKept

-----------------------------------------------------------------------------
(* The credits.                                                            *)

\* One packet more, or one less, to keep room for.
LEMMA RoomFor ==
  /\ SumOf(Length, {}) = 0
  /\ \A H \in SUBSET Packets : SumOf(Length, H) \in Nat
  /\ \A H \in SUBSET Packets : \A q \in Packets \ H :
       SumOf(Length, H \cup {q}) = SumOf(Length, H) + Length[q]
<1>1. IsFiniteSet(Packets) /\ (\A x \in Packets : Length[x] \in Nat) /\ (\A x \in Packets : Length[x] \in Int)
  BY NetworkAssumption
<1>2. /\ SumOf(Length, {}) = 0
      /\ \A s \in SUBSET Packets : SumOf(Length, s) \in Int
      /\ \A s \in SUBSET Packets : \A y \in s : SumOf(Length, s) = Length[y] + SumOf(Length, s \ {y})
  BY <1>1, SumFacts
<1>3. \A H \in SUBSET Packets : SumOf(Length, H) \in Nat
  BY <1>1, SumBound
<1>4. ASSUME NEW H \in SUBSET Packets, NEW q \in Packets \ H
      PROVE  SumOf(Length, H \cup {q}) = SumOf(Length, H) + Length[q]
  <2>1. (H \cup {q}) \ {q} = H /\ H \cup {q} \in SUBSET Packets /\ q \in H \cup {q}
    OBVIOUS
  <2>2. SumOf(Length, H \cup {q}) = Length[q] + SumOf(Length, H)
    <3>1. SumOf(Length, H \cup {q}) = Length[q] + SumOf(Length, (H \cup {q}) \ {q})
      BY <1>2, <2>1
    <3> QED
      BY <2>1, <3>1, Zenon
  <2>3. SumOf(Length, H) \in Int /\ Length[q] \in Int
    BY <1>1, <1>2
  <2> QED
    BY <2>1, <2>2, <2>3
<1> QED
  BY <1>2, <1>3, <1>4

\* The steps that leave the packets that channels keep room for alone.
LEMMA OthersKeepRoom ==
  ASSUME Typed, NEW p \in Packets, Local(p), NEW c \in Channels,
         \/ Begin(p) \/ IsEmpty(p) \/ AllocateSwLink(p) \/ AllocateInLink(p) \/ Push(p)
         \/ GiveBackSwLink(p) \/ ((TakeEmpty(p) \/ TakeAny(p)) /\ ~TakeCandidate(p))
  PROVE  (Holder(p, c)' <=> Holder(p, c)) /\ credit' = credit
<1>1. UNCHANGED <<status, finished, trace, next, credit>>
  BY DEF Begin, IsEmpty, TakeEmpty, TakeAny, AllocateSwLink, AllocateInLink, Push, GiveBackSwLink,
         cycle, packet, buffer
<1> QED
  BY <1>1 DEF Holder, Occupies

LEMMA TakeRoom ==
  ASSUME Typed, NEW p \in Packets, Local(p), NEW c \in Channels,
         TakeEmpty(p) \/ TakeAny(p), TakeCandidate(p)
  PROVE  /\ Candidate(p) \in Channels /\ credit[Candidate(p)] >= Length[p]
         /\ credit' = [credit EXCEPT ![Candidate(p)] = @ - Length[p]]
         /\ Holder(p, c)' <=> Holder(p, c) \/ c = Candidate(p)
         /\ ~Holder(p, Candidate(p))
<1>1. /\ UNCHANGED <<status, trace, finished>>
      /\ pc[p] \in {"take", "any"} /\ next'[p] = Candidate(p)
      /\ credit[Candidate(p)] >= Length[p]
      /\ credit' = [credit EXCEPT ![Candidate(p)] = @ - Length[p]]
  BY DEF TakeEmpty, TakeAny, TakeCandidate, Typed, cycle
<1>2. status[p] = "live" /\ ~finished[p] /\ next[p] = Source /\ k[p] \in 1 .. Len(cand[p])
  BY <1>1 DEF Local, Control
<1>3. Candidate(p) \in Channels
  BY <1>1, PlacesNamed DEF Local
<1>4. ~Occupies(p, Candidate(p))
  <2>1. trace[p] \in [1 .. Length[p] -> Places] /\ Worm(p) /\ Hop(p, HeadAt(p), Candidate(p))
    BY <1>2 DEF Typed, Local, Worm, Candidate
  <2> QED
    BY <2>1, NextIsNew DEF Occupies
<1>5. \A d \in Channels : next[p] # d
  BY <1>2, Constants
<1>6. Holder(p, c)' <=> Holder(p, c) \/ c = Candidate(p)
  BY <1>1, <1>2, <1>5 DEF Holder, Occupies
<1>7. ~Holder(p, Candidate(p))
  BY <1>3, <1>4, <1>5 DEF Holder
<1> QED
  BY <1>1, <1>3, <1>6, <1>7

LEMMA MoveGivesRoom ==
  ASSUME Typed, NEW p \in Packets, Local(p), Move(p), NEW c \in Channels
  PROVE  /\ Holder(p, c)' <=> Holder(p, c) /\ ~(c = TailAt(p) /\ TailAt(p)' # TailAt(p))
         /\ c = TailAt(p) => Holder(p, c)
         /\ credit' = IF TailAt(p)' # TailAt(p) /\ TailAt(p) # Source
                      THEN [credit EXCEPT ![TailAt(p)] = @ + Length[p]] ELSE credit
<1>1. /\ trace[p] \in [1 .. Length[p] -> Places] /\ next[p] \in Places /\ Worm(p)
      /\ switched[p] => next[p] # Source
      /\ next[p] # Source => Hop(p, HeadAt(p), next[p])
      /\ TailAt(p) = trace[p][Length[p]] /\ TailAt(p)' = trace'[p][Length[p]]
      /\ Length[p] \in 1 .. Length[p]
  BY Constants DEF Typed, Local, Control, Worm, TailAt
<1>2. /\ next'[p] = IF switched[p] THEN Source ELSE next[p]
      /\ status[p] = "live" /\ status'[p] = "live" /\ ~finished[p] /\ ~finished'[p]
      /\ trace'[p] = MoveFlits(p)
  BY MoveEffect
<1>3. Occupies(p, c)' <=> Reaches(p, c) /\ (c = TailAt(p) => TailAt(p)' = c)
  <2>1. (\E i \in 1 .. Length[p] : MoveFlits(p)[i] = c)
          <=> Reaches(p, c) /\ (c = TailAt(p) => MoveFlits(p)[Length[p]] = c)
    BY <1>1, MovedPlaces
  <2> QED
    BY <1>1, <1>2, <2>1 DEF Occupies
<1>4. Reaches(p, c) <=> Occupies(p, c) \/ (switched[p] /\ c = next[p])
  BY DEF Reaches, Occupies
<1>5. c = TailAt(p) => Occupies(p, c) /\ c # next[p]
  <2>1. ASSUME c = TailAt(p), c = next[p]
        PROVE  FALSE
    <3>1. Hop(p, HeadAt(p), next[p])
      BY <1>1, <2>1, Constants
    <3> QED
      BY <1>1, <2>1, <3>1, NextIsNew
  <2> QED
    BY <1>1, <2>1 DEF Occupies
<1>6. c # Source
  BY Constants
<1>7. Holder(p, c)' <=> Holder(p, c) /\ ~(c = TailAt(p) /\ TailAt(p)' # TailAt(p))
  BY <1>2, <1>3, <1>4, <1>5, <1>6 DEF Holder
<1>8. credit' = IF TailAt(p)' # TailAt(p) /\ TailAt(p) # Source
                THEN [credit EXCEPT ![TailAt(p)] = @ + Length[p]] ELSE credit
  <2>1. NodeAt(p, MoveFlits(p)[Length[p]]) # NodeAt(p, TailAt(p)) <=> TailAt(p)' # TailAt(p)
    BY <1>1, <1>2, MoveEffect
  <2> QED
    BY <2>1 DEF Move
<1> QED
  BY <1>2, <1>5, <1>7, <1>8 DEF Holder

LEMMA ArriveGivesRoom ==
  ASSUME Typed, NEW p \in Packets, Local(p), Arrive(p), NEW c \in Channels
  PROVE  /\ TailAt(p) \in Channels
         /\ Holder(p, c) <=> c = TailAt(p)
         /\ ~Holder(p, c)'
         /\ credit' = [credit EXCEPT ![TailAt(p)] = @ + Length[p]]
<1>1. /\ pc[p] = "arrive" /\ finished'[p] = TRUE
      /\ credit' = [credit EXCEPT ![TailAt(p)] = @ + Length[p]]
  BY DEF Arrive, Typed
<1>2. /\ status[p] = "live" /\ ~finished[p] /\ next[p] = Source
      /\ NodeAt(p, TailAt(p)) = Dst[p]
  BY <1>1 DEF Local, Control
<1>3. TailAt(p) \in Channels
  <2>1. TailAt(p) \in Places
    BY PlacesNamed DEF Local
  <2> QED
    BY <1>2, <2>1, Constants
<1>4. \A i \in 1 .. Length[p] : trace[p][i] = TailAt(p)
  <2> TAKE i \in 1 .. Length[p]
  <2>1. trace[p] \in [1 .. Length[p] -> Places] /\ Worm(p) /\ Length[p] \in i .. Length[p]
    BY Constants DEF Typed, Local
  <2> QED
    BY <1>2, <2>1, WormOrder DEF TailAt
<1>5. Occupies(p, c) <=> c = TailAt(p)
  BY <1>4, Constants DEF Occupies
<1>6. Holder(p, c) <=> c = TailAt(p)
  BY <1>2, <1>5, Constants DEF Holder
<1> QED
  BY <1>1, <1>3, <1>6 DEF Holder

\* The credits of a channel after one packet got, or gave back, its room there.
LEMMA CreditsAdd ==
  ASSUME NEW H \in SUBSET Packets, NEW q \in Packets \ H, NEW n \in Int
  PROVE  /\ n + SumOf(Length, H \cup {q}) = BufferSize <=>
              (n + Length[q]) + SumOf(Length, H) = BufferSize
         /\ n + SumOf(Length, H) = BufferSize <=>
              (n - Length[q]) + SumOf(Length, H \cup {q}) = BufferSize
<1>1. SumOf(Length, H \cup {q}) = SumOf(Length, H) + Length[q] /\ SumOf(Length, H) \in Nat
  BY RoomFor
<1>2. Length[q] \in Nat /\ BufferSize \in Nat
  BY NetworkAssumption
<1> QED
  BY <1>1, <1>2

LEMMA InitCredits == Init => Credits
<1> SUFFICES ASSUME Init, NEW c \in Channels
             PROVE  credit[c] + SumOf(Length, {p \in Packets : Holder(p, c)}) = BufferSize
                    /\ credit[c] >= 0
  BY DEF Credits
<1>1. {p \in Packets : Holder(p, c)} = {}
  BY DEF Init, Holder
<1>2. SumOf(Length, {p \in Packets : Holder(p, c)}) = 0
  BY <1>1, RoomFor, Zenon
<1> QED
  BY <1>2, NetworkAssumption DEF Init

LEMMA NextCredits == IInv /\ Credits /\ [Next]_vars => Credits'
<1> SUFFICES ASSUME IInv, Credits, [Next]_vars, NEW c \in Channels
             PROVE  credit'[c] + SumOf(Length, {p \in Packets : Holder(p, c)'}) = BufferSize
                    /\ credit'[c] >= 0
  BY DEF Credits
<1> DEFINE H == {p \in Packets : Holder(p, c)}
           G == {p \in Packets : Holder(p, c)'}
<1>0. /\ Typed /\ Packed /\ Serial
      /\ credit[c] + SumOf(Length, H) = BufferSize
      /\ credit[c] \in Int /\ credit[c] >= 0
      /\ \A p \in Packets : Length[p] \in Nat
      /\ H \in SUBSET Packets
  BY Constants DEF IInv, Credits, Typed
\* The same packets, and the same credits.
<1>1. ASSUME \A p \in Packets : Holder(p, c)' <=> Holder(p, c), credit'[c] = credit[c]
      PROVE  credit'[c] + SumOf(Length, G) = BufferSize /\ credit'[c] >= 0
  <2>1. G = H
    BY <1>1
  <2> HIDE DEF G, H
  <2> QED
    BY <1>0, <1>1, <2>1
\* One packet less, and its length is free again.
<1>2. ASSUME NEW q \in Packets, Holder(q, c), credit'[c] = credit[c] + Length[q],
             \A p \in Packets : Holder(p, c)' <=> Holder(p, c) /\ p # q
      PROVE  credit'[c] + SumOf(Length, G) = BufferSize /\ credit'[c] >= 0
  <2>1. G \in SUBSET Packets /\ q \in Packets \ G /\ H = G \cup {q}
    BY <1>2
  <2> HIDE DEF G, H
  <2> QED
    BY <1>0, <1>2, <2>1, CreditsAdd
\* One packet more, for which there was room.
<1>3. ASSUME NEW q \in Packets, ~Holder(q, c), credit'[c] = credit[c] - Length[q],
             credit[c] >= Length[q],
             \A p \in Packets : Holder(p, c)' <=> Holder(p, c) \/ p = q
      PROVE  credit'[c] + SumOf(Length, G) = BufferSize /\ credit'[c] >= 0
  <2>1. H \in SUBSET Packets /\ q \in Packets \ H /\ G = H \cup {q}
    BY <1>3
  <2> HIDE DEF G, H
  <2> QED
    BY <1>0, <1>3, <2>1, CreditsAdd
<1>4. CASE ReleaseLinks
  <2>1. UNCHANGED <<trace, next, finished, credit>>
    BY <1>4 DEF ReleaseLinks
  <2>2. \A p \in Packets : status'[p] = "live" /\ ~finished[p] <=> status[p] = "live" /\ ~finished[p]
    BY <1>4 DEF ReleaseLinks, Live
  <2> QED
    BY <1>1, <2>1, <2>2 DEF Holder, Occupies
<1>5. CASE Reset
  <2>1. G = {}
    BY <1>5 DEF Reset, Holder, Live
  <2>2. credit'[c] = BufferSize /\ SumOf(Length, {}) = 0 /\ BufferSize \in Nat
    BY <1>5, RoomFor, NetworkAssumption DEF Reset
  <2> HIDE DEF G
  <2>3. SumOf(Length, G) = 0
    BY <2>1, <2>2, Zenon
  <2> QED
    BY <2>2, <2>3 DEF G
<1>6. CASE EndCycle \/ UNCHANGED vars
  <2>1. UNCHANGED <<status, packet, credit>>
    BY <1>6 DEF EndCycle, vars, cycle, buffer
  <2> QED
    BY <1>1, <2>1 DEF packet, Holder, Occupies
<1>7. ASSUME NEW q \in Packets, Generate(q)
      PROVE  credit'[c] + SumOf(Length, G) = BufferSize /\ credit'[c] >= 0
  <2>1. /\ UNCHANGED <<trace, next, finished, credit>>
        /\ \A p \in Packets : p # q => status'[p] = status[p]
    BY <1>0, <1>7 DEF Generate, packet, buffer, Typed
  <2>2. /\ status[q] = "new" /\ next[q] = Source
        /\ \A i \in 1 .. Length[q] : trace[q][i] = Source
    BY <1>0, <1>7 DEF Generate, Packed, Local, Control
  <2>3. ~Holder(q, c) /\ ~Holder(q, c)'
    BY <2>1, <2>2, Constants DEF Holder, Occupies
  <2> QED
    BY <1>1, <2>1, <2>3 DEF Holder, Occupies
<1>8. ASSUME NEW q \in Packets, Update(q)
      PROVE  credit'[c] + SumOf(Length, G) = BufferSize /\ credit'[c] >= 0
  <2>0. Local(q)
    BY <1>0 DEF Packed
  <2>1. ASSUME NEW p \in Packets, p # q
        PROVE  Holder(p, c)' <=> Holder(p, c)
    BY <1>0, <1>8, <2>1, UpdateFrame DEF Untouched, Holder, Occupies
  <2>2. ASSUME \/ Begin(q) \/ IsEmpty(q) \/ AllocateSwLink(q) \/ AllocateInLink(q) \/ Push(q)
               \/ GiveBackSwLink(q) \/ ((TakeEmpty(q) \/ TakeAny(q)) /\ ~TakeCandidate(q))
        PROVE  credit'[c] + SumOf(Length, G) = BufferSize /\ credit'[c] >= 0
    <3>1. (Holder(q, c)' <=> Holder(q, c)) /\ credit' = credit
      BY <1>0, <2>0, <2>2, OthersKeepRoom
    <3> QED
      BY <1>1, <2>1, <3>1
  <2>3. ASSUME TakeEmpty(q) \/ TakeAny(q), TakeCandidate(q)
        PROVE  credit'[c] + SumOf(Length, G) = BufferSize /\ credit'[c] >= 0
    <3>1. /\ Candidate(q) \in Channels /\ credit[Candidate(q)] >= Length[q]
          /\ credit' = [credit EXCEPT ![Candidate(q)] = @ - Length[q]]
          /\ Holder(q, c)' <=> Holder(q, c) \/ c = Candidate(q)
          /\ ~Holder(q, Candidate(q))
      BY <1>0, <2>0, <2>3, TakeRoom
    <3>2. CASE c = Candidate(q)
      <4>1. credit'[c] = credit[c] - Length[q]
        BY <1>0, <3>1, <3>2 DEF Typed
      <4> QED
        BY <1>3, <2>1, <3>1, <3>2, <4>1
    <3>3. CASE c # Candidate(q)
      <4>1. credit'[c] = credit[c]
        BY <1>0, <3>1, <3>3 DEF Typed
      <4> QED
        BY <1>1, <2>1, <3>1, <3>3, <4>1
    <3> QED
      BY <3>2, <3>3
  <2>4. ASSUME Move(q)
        PROVE  credit'[c] + SumOf(Length, G) = BufferSize /\ credit'[c] >= 0
    <3>1. /\ Holder(q, c)' <=> Holder(q, c) /\ ~(c = TailAt(q) /\ TailAt(q)' # TailAt(q))
          /\ c = TailAt(q) => Holder(q, c)
          /\ credit' = IF TailAt(q)' # TailAt(q) /\ TailAt(q) # Source
                       THEN [credit EXCEPT ![TailAt(q)] = @ + Length[q]] ELSE credit
      BY <1>0, <2>0, <2>4, MoveGivesRoom
    <3>2. c # Source
      BY Constants
    <3>3. CASE c = TailAt(q) /\ TailAt(q)' # TailAt(q)
      <4>1. credit'[c] = credit[c] + Length[q]
        BY <1>0, <3>1, <3>2, <3>3 DEF Typed
      <4> QED
        BY <1>2, <2>1, <3>1, <3>3, <4>1
    <3>4. CASE ~(c = TailAt(q) /\ TailAt(q)' # TailAt(q))
      <4>1. credit'[c] = credit[c]
        BY <1>0, <3>1, <3>4 DEF Typed
      <4> QED
        BY <1>1, <2>1, <3>1, <3>4, <4>1
    <3> QED
      BY <3>3, <3>4
  <2>5. ASSUME Arrive(q)
        PROVE  credit'[c] + SumOf(Length, G) = BufferSize /\ credit'[c] >= 0
    <3>1. /\ Holder(q, c) <=> c = TailAt(q)
          /\ ~Holder(q, c)'
          /\ credit' = [credit EXCEPT ![TailAt(q)] = @ + Length[q]]
      BY <1>0, <2>0, <2>5, ArriveGivesRoom
    <3>2. CASE c = TailAt(q)
      <4>1. credit'[c] = credit[c] + Length[q]
        BY <1>0, <3>1, <3>2 DEF Typed
      <4> QED
        BY <1>2, <2>1, <3>1, <3>2, <4>1
    <3>3. CASE c # TailAt(q)
      <4>1. credit'[c] = credit[c]
        BY <1>0, <3>1, <3>3 DEF Typed
      <4> QED
        BY <1>1, <2>1, <3>1, <3>3, <4>1
    <3> QED
      BY <3>2, <3>3
  <2> QED
    BY <1>8, <2>2, <2>3, <2>4, <2>5 DEF Update
<1> QED
  BY <1>4, <1>5, <1>6, <1>7, <1>8 DEF Next

LEMMA CreditInvariant == Spec => []Credits
<1> QED
  BY InitCredits, NextCredits, Invariant, PTL DEF Spec

\* The free credits of a channel and the packets it keeps room for add up to
\* its size.
THEOREM CreditsConserved == Spec => []CreditConserved
<1>1. Credits => CreditConserved
  <2> SUFFICES ASSUME Credits, NEW c \in Channels
               PROVE  credit[c] + MapThenSumSet(LAMBDA p : Length[p], RoomHolders(c)) = BufferSize
    BY DEF CreditConserved
  <2>1. RoomHolders(c) = {p \in Packets : Holder(p, c)}
    BY DEF RoomHolders, Holder, Live
  <2>2. credit[c] + SumOf(Length, RoomHolders(c)) = BufferSize
    BY <2>1 DEF Credits
  <2> QED
    BY <2>2 DEF SumOf
<1> QED
  BY <1>1, CreditInvariant, PTL

\* All variables keep their types, and no credit is more than the buffer has
\* or less than none.
THEOREM TypeCorrect == Spec => []TypeOK
<1>1. IInv /\ Credits => TypeOK
  <2> SUFFICES ASSUME IInv, Credits PROVE TypeOK
    OBVIOUS
  <2> USE DEF IInv
  <2>1. todo \subseteq Live
    BY DEF Typed, Packed, Local, Control, Live
  <2>2. ASSUME NEW p \in Packets
        PROVE  Range(cand[p]) \subseteq Channels
    <3>1. cand[p] \in [1 .. Len(cand[p]) -> Channels] /\ DOMAIN cand[p] = 1 .. Len(cand[p])
      BY LenProperties DEF Typed
    <3> QED
      BY <3>1 DEF Range
  <2>3. ASSUME NEW c \in Channels
        PROVE  Range(queue[c]) \subseteq Packets
    <3>1. queue[c] \in [1 .. Len(queue[c]) -> Packets] /\ DOMAIN queue[c] = 1 .. Len(queue[c])
      BY LenProperties DEF Typed
    <3> QED
      BY <3>1 DEF Range
  <2>4. \A p \in Packets : k[p] \in 1 .. Len(cand[p]) \/ k[p] = 1
    BY DEF Packed, Local, Control
  <2>5. ASSUME NEW c \in Channels
        PROVE  credit[c] \in 0 .. BufferSize
    <3>1. SumOf(Length, {p \in Packets : Holder(p, c)}) \in Nat
      BY RoomFor
    <3>2. /\ credit[c] + SumOf(Length, {p \in Packets : Holder(p, c)}) = BufferSize
          /\ credit[c] >= 0 /\ credit[c] \in Int
      BY DEF Typed, Credits
    <3>3. BufferSize \in Nat
      BY NetworkAssumption
    <3> QED
      BY <3>1, <3>2, <3>3
  <2>6. credit \in [Channels -> 0 .. BufferSize]
    <3>1. credit \in [Channels -> Int]
      BY DEF Typed
    <3> QED
      BY <2>5, <3>1
  <2> QED
    BY <2>1, <2>2, <2>3, <2>4, <2>6 DEF Typed, TypeOK
<1> QED
  BY <1>1, Invariant, CreditInvariant, PTL
-----------------------------------------------------------------------------
(* The contract with the simulation loop.                                  *)

\* The link timer of packet p, as it was when the cycle began.
Due(p) == IF p \in todo THEN linkTimer[p] ELSE linkTimer[p] + 1

\* Packet p reaches its destination through buffer b; all of it is there.
HeadIn(p, b) == status[p] = "live" /\ DownNode[b] = Dst[p] /\ BufferOf(HeadAt(p)) = b
TailIn(p, b) == HeadIn(p, b) /\ BufferOf(TailAt(p)) = b

\* Packets come through the last buffer one after the other, and the timers of
\* those that have crossed the link tell them apart: the one that is crossing
\* has the longest to go, so two are never due in the same cycle.
Arrived(p) == finished[p] \/ pc[p] = "arrive" => linkTimer[p] = 0 /\ p \notin todo
InLatency(p, b) ==
  HeadIn(p, b) => /\ Due(p) <= Latency[b] + 1
                  /\ HasIn(p, b) \/ Due(p) <= Latency[b]
Follows(p, q, b) == HeadIn(p, b) /\ HasIn(p, b) /\ TailIn(q, b) => Due(q) < Due(p)
Apart(p, q, b) == TailIn(p, b) /\ TailIn(q, b) => Due(p) # Due(q)
TimedAt(b) ==
  /\ \A p \in Packets : InLatency(p, b)
  /\ \A p, q \in Packets : p # q => Follows(p, q, b) /\ Apart(p, q, b)
Timed == (\A p \in Packets : Arrived(p)) /\ \A b \in Buffers : TimedAt(b)

LEMMA DueType ==
  ASSUME Typed, NEW p \in Packets
  PROVE  Due(p) \in Nat
<1>1. linkTimer[p] \in Nat
  BY DEF Typed
<1> QED
  BY <1>1 DEF Due

\* Nothing came to buffer b, and no packet in it has a different timer.
LEMMA SteadyAt ==
  ASSUME NEW b \in Buffers, TimedAt(b),
         \A p \in Packets : HeadIn(p, b)' =>
           HeadIn(p, b) /\ (HasIn(p, b)' <=> HasIn(p, b)) /\ Due(p)' = Due(p),
         \A p \in Packets : TailIn(p, b)' => TailIn(p, b)
  PROVE  TimedAt(b)'
<1>1. \A p \in Packets : TailIn(p, b)' => HeadIn(p, b)'
  BY DEF TailIn
<1>2. \A p \in Packets : InLatency(p, b)'
  BY DEF TimedAt, InLatency
<1>3. \A p, q \in Packets : p # q => Follows(p, q, b)' /\ Apart(p, q, b)'
  BY <1>1 DEF TimedAt, Follows, Apart
<1> QED
  BY <1>2, <1>3 DEF TimedAt

\* Packet q crosses the link to buffer b behind all packets that are there.
LEMMA CrossingAt ==
  ASSUME Typed', NEW b \in Buffers, TimedAt(b), NEW q \in Packets,
         HasIn(q, b)', Due(q)' <= Latency[b] + 1,
         \A p \in Packets : p # q =>
           /\ HeadIn(p, b)' =>
                HeadIn(p, b) /\ (HasIn(p, b)' <=> HasIn(p, b)) /\ Due(p)' = Due(p)
           /\ TailIn(p, b)' => TailIn(p, b) /\ Due(p)' < Due(q)'
           /\ ~HasIn(p, b)'
  PROVE  TimedAt(b)'
<1>1. \A p \in Packets : TailIn(p, b)' => HeadIn(p, b)'
  BY DEF TailIn
<1>2. \A p \in Packets : InLatency(p, b)'
  BY DEF TimedAt, InLatency
<1>3. \A p, r \in Packets : p # r => Follows(p, r, b)'
  BY DEF Follows
<1>4. \A p \in Packets : Due(p)' \in Nat
  BY DEF Typed, Due
<1>5. ASSUME NEW p \in Packets, NEW r \in Packets, p # r
      PROVE  Apart(p, r, b)'
  <2>1. CASE p # q /\ r # q
    BY <1>1, <1>5, <2>1 DEF TimedAt, Apart
  <2>2. CASE p = q \/ r = q
    BY <1>4, <1>5, <2>2 DEF Apart
  <2> QED
    BY <2>1, <2>2
<1> QED
  BY <1>2, <1>3, <1>5 DEF TimedAt

\* A packet that is not updated does not move, and its timer stands still.
LEMMA UntouchedTimes ==
  ASSUME NEW p \in Packets, Untouched(p), status'[p] = status[p], p \in todo' <=> p \in todo,
         NEW b \in Buffers
  PROVE  /\ HeadIn(p, b)' <=> HeadIn(p, b)
         /\ TailIn(p, b)' <=> TailIn(p, b)
         /\ HasIn(p, b)' <=> HasIn(p, b)
         /\ Due(p)' = Due(p)
         /\ Arrived(p) => Arrived(p)'
<1>1. /\ HeadIn(p, b)' <=> HeadIn(p, b)
      /\ TailIn(p, b)' <=> TailIn(p, b)
  BY DEF Untouched, HeadIn, TailIn, HeadAt, TailAt, BufferOf
<1>2. HasIn(p, b)' <=> HasIn(p, b)
  BY UntouchedLinks
<1>3. Due(p)' = Due(p) /\ (Arrived(p) => Arrived(p)')
  BY DEF Untouched, Due, Arrived
<1> QED
  BY <1>1, <1>2, <1>3

\* A packet with its head in the last buffer is behind with its tail, or has
\* all of it there and waits for its timer.
LEMMA BehindOrWaiting ==
  ASSUME Typed, NEW p \in Packets, Local(p), NEW b \in Buffers, HeadIn(p, b)
  PROVE  /\ NodeAt(p, HeadAt(p)) = Dst[p]
         /\ ~TailIn(p, b) => HasIn(p, b)
         /\ TailIn(p, b) => NodeAt(p, TailAt(p)) = Dst[p]
<1>1. \A c \in Places : BufferOf(c) = b => NodeAt(p, c) = DownNode[b]
  BY NetworkAssumption DEF Source, BufferOf, NodeAt
<1>2. HeadAt(p) \in Places /\ TailAt(p) \in Places /\ 1 \in 1 .. Length[p]
  BY Constants DEF Typed, HeadAt, TailAt
<1>3. ~TailIn(p, b) => HasIn(p, b)
  BY <1>2 DEF HeadIn, TailIn, HasIn, Touches, HeadAt
<1> QED
  BY <1>1, <1>2, <1>3 DEF HeadIn, TailIn


\* Between two cycles every packet that is not complete comes a cycle nearer.
LEMMA ReleaseTimes ==
  ASSUME Typed, Packed, Serial, Timed, ReleaseLinks
  PROVE  Timed'
<1>1. /\ UNCHANGED <<trace, next, switched, pc, linkTimer, finished, leaving>>
      /\ \A p \in Packets : pc[p] = "idle" /\ ~release'[p] /\ p \notin todo
      /\ \A p \in Packets : status'[p] = "live" <=> status[p] = "live" /\ ~finished[p]
      /\ \A p \in Packets : p \in todo' <=> status[p] = "live" /\ ~finished[p]
  BY DEF ReleaseLinks, Serial, Live, Typed
<1>2. \A p \in Packets : Arrived(p)'
  BY <1>1 DEF Timed, Arrived
<1>3. ASSUME NEW p \in Packets, NEW b \in Buffers
      PROVE  /\ TailIn(p, b)' => TailIn(p, b)
             /\ HeadIn(p, b)' => HeadIn(p, b) /\ Due(p) = Due(p)' + 1 /\ (HasIn(p, b)' => HasIn(p, b))
  <2>1. /\ HeadIn(p, b)' => HeadIn(p, b) /\ ~finished[p]
        /\ TailIn(p, b)' => TailIn(p, b)
    BY <1>1 DEF HeadIn, TailIn, HeadAt, TailAt, BufferOf
  <2>2. HasIn(p, b)' => HasIn(p, b)
    BY <1>1 DEF HasIn, Touches, TailAt, BufferOf
  <2>3. HeadIn(p, b) /\ ~finished[p] => Due(p) = Due(p)' + 1
    BY <1>1 DEF HeadIn, Due
  <2> QED
    BY <2>1, <2>2, <2>3
<1>4. ASSUME NEW b \in Buffers
      PROVE  TimedAt(b)'
  <2>1. \A p \in Packets : Due(p) \in Nat /\ Due(p)' \in Nat
    BY <1>1 DEF Due, Typed
  <2>2. Latency[b] \in Nat
    BY NetworkAssumption
  <2>3. TimedAt(b)
    BY DEF Timed
  <2>4. \A p \in Packets : InLatency(p, b)'
    BY <1>3, <2>1, <2>2, <2>3 DEF TimedAt, InLatency
  <2>5. \A p \in Packets : TailIn(p, b)' => HeadIn(p, b)'
    BY DEF TailIn
  <2>6. ASSUME NEW p \in Packets, NEW q \in Packets, p # q
        PROVE  Follows(p, q, b)' /\ Apart(p, q, b)'
    <3>1. Follows(p, q, b) /\ Apart(p, q, b)
      BY <2>3, <2>6 DEF TimedAt
    <3>2. Follows(p, q, b)'
      BY <1>3, <2>1, <2>5, <3>1 DEF Follows
    <3>3. Apart(p, q, b)'
      BY <1>3, <2>1, <2>5, <3>1 DEF Apart
    <3> QED
      BY <3>2, <3>3
  <2> QED
    BY <2>4, <2>6 DEF TimedAt
<1> QED
  BY <1>2, <1>4 DEF Timed

\* A packet arrives when its timer has run out.
LEMMA UpdateArrived ==
  ASSUME Typed, NEW q \in Packets, Local(q), Arrived(q), Update(q)
  PROVE  Arrived(q)'
<1>1. CASE Move(q)
  <2>1. /\ ~finished[q] /\ finished' = finished /\ todo' = todo /\ q \notin todo
        /\ pc'[q] = "arrive" => linkTimer'[q] = 0
    BY <1>1, MoveEffect
  <2> QED
    BY <2>1 DEF Arrived
<1>2. CASE Begin(q)
  <2>1. ~finished[q] /\ finished' = finished /\ pc[q] = "idle"
    BY <1>2 DEF Begin, Local, Control
  <2>2. pc'[q] # "arrive"
    BY <1>2, <2>1 DEF Begin, Goto, Stage, Typed
  <2> QED
    BY <2>1, <2>2 DEF Arrived
<1>3. CASE Arrive(q)
  <2>1. pc[q] = "arrive" /\ linkTimer' = linkTimer /\ todo' = todo
    BY <1>3 DEF Arrive, cycle
  <2> QED
    BY <2>1 DEF Arrived
<1>4. CASE ~Move(q) /\ ~Begin(q) /\ ~Arrive(q)
  <2>1. UNCHANGED <<finished, linkTimer, todo>> /\ pc'[q] # "arrive"
    BY <1>4 DEF Update, IsEmpty, TakeEmpty, TakeAny, TakeCandidate, NextCandidate,
       AllocateSwLink, AllocateInLink, Push, GiveBackSwLink, Goto, cycle, packet, Typed
  <2> QED
    BY <2>1 DEF Arrived
<1> QED
  BY <1>1, <1>2, <1>3, <1>4

\* An update of packet q that is no move: q stays where it is and keeps its
\* timer, or takes one from it as its turn comes.
LEMMA StayTimes ==
  ASSUME Typed, NEW q \in Packets, Local(q), Update(q), ~Move(q), NEW b \in Buffers
  PROVE  /\ HeadIn(q, b)' <=> HeadIn(q, b)
         /\ TailIn(q, b)' <=> TailIn(q, b)
         /\ HeadIn(q, b) => (HasIn(q, b)' <=> HasIn(q, b))
         /\ \/ HeadIn(q, b) => Due(q)' = Due(q)
            \/ ~TailIn(q, b) /\ Due(q) = 0 /\ Due(q)' = 1
<1>1. UNCHANGED <<trace, status>>
  BY DEF Update, Begin, IsEmpty, TakeEmpty, TakeAny, AllocateSwLink, AllocateInLink, Push,
         GiveBackSwLink, Arrive, cycle, packet
<1>2. /\ HeadAt(q)' = HeadAt(q) /\ TailAt(q)' = TailAt(q)
      /\ HeadIn(q, b)' <=> HeadIn(q, b)
      /\ TailIn(q, b)' <=> TailIn(q, b)
      /\ Touches(q, b)' <=> Touches(q, b)
  BY <1>1 DEF HeadIn, TailIn, HeadAt, TailAt, BufferOf, Touches
<1>3. ASSUME HeadIn(q, b)
      PROVE  HasIn(q, b)' <=> HasIn(q, b)
  <2>1. CASE Begin(q) \/ IsEmpty(q) \/ TakeEmpty(q) \/ TakeAny(q) \/ Push(q) \/ Arrive(q)
    BY <2>1, OthersKeepLinks
  <2>2. CASE AllocateSwLink(q) \/ GiveBackSwLink(q)
    <3>1. UNCHANGED <<next, switched, release>>
      BY <2>2 DEF AllocateSwLink, GiveBackSwLink, packet
    <3> QED
      BY <1>1, <1>2, <3>1 DEF HasIn, BufferOf
  <2>3. CASE AllocateInLink(q)
    <3>1. NodeAt(q, HeadAt(q)) = Dst[q]
      BY <1>3, BehindOrWaiting
    <3>2. next[q] # Source
      BY <2>3 DEF AllocateInLink, Local, Control
    <3>3. Hop(q, HeadAt(q), next[q])
      BY <3>2 DEF Local, Worm
    <3> QED
      BY <3>1, <3>3 DEF Hop
  <2> QED
    BY <2>1, <2>2, <2>3 DEF Update
<1>4. CASE Begin(q)
  <2>1. /\ q \in todo /\ q \notin todo' /\ status[q] = "live" /\ pc[q] = "idle"
        /\ ~finished[q] /\ linkTimer[q] \in Nat
    BY <1>4 DEF Begin, Local, Control, Typed
  <2>2. ASSUME HeadIn(q, b)
        PROVE  Due(q)' = Due(q) \/ (~TailIn(q, b) /\ Due(q) = 0 /\ Due(q)' = 1)
    <3>1. NodeAt(q, HeadAt(q)) = Dst[q] /\ (TailIn(q, b) => NodeAt(q, TailAt(q)) = Dst[q])
      BY <2>2, BehindOrWaiting
    <3>2. Src[q] # Dst[q]
      BY Constants
    <3>3. linkTimer'[q] = IF linkTimer[q] > 0 THEN linkTimer[q] - 1 ELSE 0
      BY <1>4, <3>1, <3>2 DEF Begin, Typed
    <3>4. linkTimer[q] > 0 \/ ~TailIn(q, b)
      BY <2>1, <3>1 DEF Local, OnItsWay
    <3> QED
      BY <2>1, <3>3, <3>4 DEF Due
  <2> QED
    BY <1>2, <1>3, <2>2
<1>5. CASE ~Begin(q)
  <2>1. UNCHANGED <<linkTimer, todo>>
    BY <1>5 DEF Update, IsEmpty, TakeEmpty, TakeAny, AllocateSwLink, AllocateInLink, Push,
           GiveBackSwLink, Arrive, cycle, packet
  <2> QED
    BY <1>2, <1>3, <2>1 DEF Due
<1> QED
  BY <1>4, <1>5

\* A move of packet q, at the buffer b where it arrives.
LEMMA MoveTimes ==
  ASSUME IInv, IInv', Timed, NEW q \in Packets, Move(q), NEW b \in Buffers,
         \A p \in Packets : p # q =>
           /\ (HeadIn(p, b)' <=> HeadIn(p, b)) /\ (TailIn(p, b)' <=> TailIn(p, b))
           /\ (HasIn(p, b)' <=> HasIn(p, b)) /\ Due(p)' = Due(p)
  PROVE  TimedAt(b)'
<1>1. /\ Typed /\ Local(q) /\ TimedAt(b)
      /\ \A p, r \in Packets : HasIn(p, b) /\ HasIn(r, b) => p = r
  BY DEF IInv, Packed, Owned, Timed
<1>2. /\ HasIn(q, b)' <=> HasIn(q, b)
      /\ status[q] = "live" /\ status'[q] = "live" /\ q \notin todo /\ q \notin todo' /\ ~release[q]
      /\ HeadAt(q)' = IF switched[q] THEN next[q] ELSE HeadAt(q)
      /\ linkTimer'[q] = IF switched[q] THEN Latency[BufferOf(next[q])] ELSE linkTimer[q]
  BY <1>1, MoveEffect, MoveKeepsLinks DEF Move, Typed
<1>3. \A p \in Packets : TailIn(p, b) => HeadIn(p, b)
  BY DEF TailIn
<1>4. CASE ~HeadIn(q, b)'
  <2>1. ~TailIn(q, b)'
    BY <1>4 DEF TailIn
  <2> QED
    BY <1>1, <1>4, <2>1, SteadyAt
<1>5. CASE HeadIn(q, b)' /\ switched[q]
  <2>1. BufferOf(next[q]) = b
    BY <1>2, <1>5 DEF HeadIn, BufferOf
  <2>2. HasIn(q, b)
    BY <1>2, <1>5, <2>1 DEF HasIn
  <2>3. Due(q)' = Latency[b] + 1
    BY <1>2, <1>5, <2>1 DEF Due
  <2>4. ASSUME NEW p \in Packets, p # q
        PROVE  ~HasIn(p, b) /\ (TailIn(p, b) => Due(p) < Latency[b] + 1)
    <3>1. ~HasIn(p, b)
      BY <1>1, <2>2, <2>4
    <3>2. TailIn(p, b) => Due(p) <= Latency[b]
      BY <1>1, <1>3, <3>1 DEF TimedAt, InLatency
    <3>3. Due(p) \in Nat /\ Latency[b] \in Nat
      BY <1>1, DueType, NetworkAssumption
    <3> QED
      BY <3>1, <3>2, <3>3
  <2>5. Due(q)' <= Latency[b] + 1
    BY <2>3, NetworkAssumption
  <2> QED
    BY <1>1, <1>2, <2>2, <2>3, <2>4, <2>5, CrossingAt DEF IInv
<1>6. CASE HeadIn(q, b)' /\ ~switched[q]
  <2>1. HeadIn(q, b) /\ Due(q)' = Due(q)
    BY <1>2, <1>6 DEF HeadIn, Due, BufferOf
  <2>2. CASE TailIn(q, b)' => TailIn(q, b)
    BY <1>1, <1>2, <2>1, <2>2, SteadyAt
  <2>3. CASE TailIn(q, b)' /\ ~TailIn(q, b)
    <3>1. HasIn(q, b)
      BY <1>1, <2>1, <2>3, BehindOrWaiting
    <3>2. \A p \in Packets : p # q => ~HasIn(p, b) /\ (TailIn(p, b) => Due(p) < Due(q))
      BY <1>1, <2>1, <3>1 DEF TimedAt, Follows
    <3>3. Due(q) <= Latency[b] + 1
      BY <1>1, <2>1 DEF TimedAt, InLatency
    <3> QED
      BY <1>1, <1>2, <2>1, <3>1, <3>2, <3>3, CrossingAt DEF IInv
  <2> QED
    BY <2>2, <2>3
<1> QED
  BY <1>4, <1>5, <1>6

LEMMA UpdateTimes ==
  ASSUME IInv, IInv', Timed, NEW q \in Packets, Update(q)
  PROVE  Timed'
<1>1. Typed /\ Local(q) /\ Arrived(q)
  BY DEF IInv, Packed, Timed
<1>2. ASSUME NEW p \in Packets, p # q, NEW b \in Buffers
      PROVE  /\ (HeadIn(p, b)' <=> HeadIn(p, b)) /\ (TailIn(p, b)' <=> TailIn(p, b))
             /\ (HasIn(p, b)' <=> HasIn(p, b)) /\ Due(p)' = Due(p)
  BY <1>1, <1>2, UpdateFrame, UntouchedTimes
<1>3. ASSUME NEW p \in Packets
      PROVE  Arrived(p)'
  <2>1. CASE p # q
    <3>1. Untouched(p) /\ (p \in todo' <=> p \in todo)
      BY <1>1, <2>1, UpdateFrame
    <3> QED
      BY <3>1 DEF Untouched, Timed, Arrived
  <2>2. CASE p = q
    BY <1>1, <2>2, UpdateArrived
  <2> QED
    BY <2>1, <2>2
<1>4. ASSUME NEW b \in Buffers
      PROVE  TimedAt(b)'
  <2>1. CASE Move(q)
    BY <1>2, <2>1, MoveTimes
  <2>2. CASE ~Move(q)
    <3>1. /\ TimedAt(b)
          /\ \A p, r \in Packets : HasIn(p, b) /\ HasIn(r, b) => p = r
          /\ Latency[b] \in Nat
      BY NetworkAssumption DEF IInv, Owned, Timed
    <3>2. /\ HeadIn(q, b)' <=> HeadIn(q, b)
          /\ TailIn(q, b)' <=> TailIn(q, b)
          /\ HeadIn(q, b) => (HasIn(q, b)' <=> HasIn(q, b))
          /\ \/ HeadIn(q, b) => Due(q)' = Due(q)
             \/ ~TailIn(q, b) /\ Due(q) = 0 /\ Due(q)' = 1
      BY <1>1, <2>2, StayTimes
    <3>3. CASE HeadIn(q, b) => Due(q)' = Due(q)
      BY <1>2, <3>1, <3>2, <3>3, SteadyAt
    <3>4. CASE HeadIn(q, b) /\ ~TailIn(q, b) /\ Due(q) = 0 /\ Due(q)' = 1
      <4>1. HasIn(q, b)
        BY <1>1, <3>4, BehindOrWaiting
      <4>2. ASSUME NEW p \in Packets, p # q
            PROVE  ~HasIn(p, b) /\ ~TailIn(p, b)
        <5>1. TailIn(p, b) => Due(p) < 0
          BY <3>1, <3>4, <4>1, <4>2 DEF TimedAt, Follows
        <5>2. Due(p) \in Nat
          BY <1>1, DueType
        <5> QED
          BY <3>1, <4>1, <4>2, <5>1, <5>2
      <4>3. Due(q)' <= Latency[b] + 1
        BY <3>1, <3>4
      <4> QED
        BY <1>2, <3>1, <3>2, <3>4, <4>1, <4>2, <4>3, CrossingAt DEF IInv
    <3> QED
      BY <3>2, <3>3, <3>4
  <2> QED
    BY <2>1, <2>2
<1> QED
  BY <1>3, <1>4 DEF Timed

LEMMA NextTimed == IInv /\ IInv' /\ Timed /\ [Next]_vars => Timed'
<1> SUFFICES ASSUME IInv, IInv', Timed, [Next]_vars PROVE Timed'
  OBVIOUS
<1>1. CASE ReleaseLinks
  BY <1>1, ReleaseTimes DEF IInv
<1>2. ASSUME \A p \in Packets, b \in Buffers : ~HeadIn(p, b)',
             UNCHANGED <<linkTimer, finished, pc, todo>>
      PROVE  Timed'
  <2>1. \A p \in Packets : Arrived(p)'
    BY <1>2 DEF Timed, Arrived
  <2>2. \A p \in Packets, b \in Buffers : ~TailIn(p, b)'
    BY <1>2 DEF TailIn
  <2>3. ASSUME NEW b \in Buffers
        PROVE  TimedAt(b)'
    BY <1>2, <2>2, <2>3 DEF TimedAt, InLatency, Follows, Apart
  <2> QED
    BY <2>1, <2>3 DEF Timed
<1>3. CASE Reset
  <2>1. \A p \in Packets : status'[p] # "live"
    BY <1>3 DEF Reset, Live
  <2> QED
    BY <1>2, <1>3, <2>1 DEF Reset, packet, HeadIn
<1>4. CASE EndCycle \/ UNCHANGED vars
  <2>1. UNCHANGED <<todo, status, packet, pc>>
    BY <1>4 DEF EndCycle, vars, cycle
  <2> QED
    BY <2>1 DEF packet, Timed, TimedAt, Arrived, InLatency, Follows, Apart, Due, HeadIn, TailIn, HasIn,
       Touches, HeadAt, TailAt, BufferOf
<1>5. ASSUME NEW q \in Packets, Generate(q)
      PROVE  Timed'
  <2>1. /\ UNCHANGED <<todo, trace, next, switched, linkTimer, finished, release, leaving, pc>>
        /\ \A p \in Packets : p # q => status'[p] = status[p]
    BY <1>5 DEF Generate, packet, IInv, Typed
  <2>2. HeadAt(q)' = Source
    <3>1. \A i \in 1 .. Length[q] : trace[q][i] = Source
      BY <1>5 DEF Generate, IInv, Packed, Local, Control
    <3> QED
      BY <2>1, <3>1, Constants DEF HeadAt
  <2>3. ASSUME NEW b \in Buffers
        PROVE  TimedAt(b)'
    <3>1. ~HeadIn(q, b)' /\ ~TailIn(q, b)'
      BY <2>2, NetworkAssumption DEF HeadIn, TailIn, Source, BufferOf
    <3>2. ASSUME NEW p \in Packets, p # q
          PROVE  /\ HeadIn(p, b)' => HeadIn(p, b) /\ (HasIn(p, b)' <=> HasIn(p, b)) /\ Due(p)' = Due(p)
                 /\ TailIn(p, b)' => TailIn(p, b)
      BY <2>1, <3>2 DEF Due, HeadIn, TailIn, HasIn, Touches, HeadAt, TailAt, BufferOf
    <3>3. TimedAt(b)
      BY DEF Timed
    <3> QED
      BY <3>1, <3>2, <3>3, SteadyAt
  <2>4. \A p \in Packets : Arrived(p)'
    BY <2>1 DEF Timed, Arrived
  <2> QED
    BY <2>3, <2>4 DEF Timed
<1>6. ASSUME NEW q \in Packets, Update(q)
      PROVE  Timed'
  BY <1>6, UpdateTimes
<1> QED
  BY <1>1, <1>3, <1>4, <1>5, <1>6 DEF Next

LEMMA InitTimed == Init => Timed
<1> SUFFICES ASSUME Init PROVE Timed
  OBVIOUS
<1>1. \A p \in Packets : status[p] = "new" /\ ~finished[p] /\ pc[p] = "idle"
  BY DEF Init
<1> QED
  BY <1>1 DEF Timed, TimedAt, Arrived, InLatency, Follows, Apart, HeadIn, TailIn

LEMMA TimedInvariant == Spec => []Timed
BY InitTimed, NextTimed, Invariant, PTL DEF Spec

-----------------------------------------------------------------------------
(* The refinement.                                                         *)

Travelling == {p \in Live : ~finished[p]}
Finished == {p \in Live : finished[p]}
Gates == {b \in Buffers : \E p \in Packets : Dst[p] = DownNode[b]}

LEMMA FiniteCounts ==
  /\ IsFiniteSet(Travelling) /\ Cardinality(Travelling) \in Nat
  /\ IsFiniteSet(Finished) /\ Cardinality(Finished) \in Nat
  /\ IsFiniteSet(Gates) /\ Cardinality(Gates) \in Nat
<1>1. Travelling \in SUBSET Packets /\ Finished \in SUBSET Packets /\ Gates \in SUBSET Buffers
  BY DEF Travelling, Finished, Gates, Live
<1>2. IsFiniteSet(Travelling) /\ IsFiniteSet(Finished) /\ IsFiniteSet(Gates)
  BY <1>1, NetworkAssumption, FS_Subset
<1> QED
  BY <1>2, FS_CardinalityType

\* A packet that is complete has come through a gate of its own in this cycle.
LEMMA ThroughGate ==
  ASSUME Typed, Packed, Timed, NEW p \in Packets, status[p] = "live", finished[p] \/ pc[p] = "arrive"
  PROVE  LET b == BufferOf(TailAt(p)) IN b \in Gates /\ TailIn(p, b) /\ Due(p) = 1
<1>1. Local(p) /\ Arrived(p)
  BY DEF Packed, Timed
<1>2. NodeAt(p, TailAt(p)) = Dst[p] /\ TailAt(p) \in Places
  BY <1>1, Constants DEF Local, Control, Typed, TailAt
<1>3. TailAt(p) \in Channels
  BY <1>2, Constants
<1>4. BufferOf(TailAt(p)) \in Gates /\ DownNode[BufferOf(TailAt(p))] = Dst[p]
  BY <1>2, <1>3, Constants DEF Gates
<1>5. HeadAt(p) = TailAt(p)
  <2>1. trace[p] \in [1 .. Length[p] -> Places] /\ Worm(p) /\ Length[p] \in 1 .. Length[p]
        /\ 1 \in 1 .. Length[p]
    BY <1>1, Constants DEF Typed, Local
  <2> QED
    BY <1>2, <2>1, WormOrder DEF HeadAt, TailAt
<1>6. Due(p) = 1
  BY <1>1 DEF Arrived, Due, Typed
<1> QED
  BY <1>4, <1>5, <1>6 DEF HeadIn, TailIn

\* No more packets than gates arrive in a cycle.
LEMMA RoomToArrive ==
  ASSUME Typed, Packed, Timed, NEW q \in Packets, status[q] = "live", pc[q] = "arrive"
  PROVE  Cardinality(Finished) < Cardinality(Gates)
<1> DEFINE S == Finished \cup {q}
           gate == [p \in S |-> BufferOf(TailAt(p))]
<1>1. \A p \in S : p \in Packets /\ status[p] = "live" /\ (finished[p] \/ pc[p] = "arrive")
  BY DEF Finished, Live
<1>2. \A p \in S : gate[p] \in Gates /\ TailIn(p, gate[p]) /\ Due(p) = 1
  BY <1>1, ThroughGate
<1>3. gate \in [S -> Gates]
  <2>1. \A p \in S : BufferOf(TailAt(p)) \in Gates
    BY <1>2
  <2> HIDE DEF S
  <2> QED
    BY <2>1
<1>4. ASSUME NEW p \in S, NEW r \in S, gate[p] = gate[r]
      PROVE  p = r
  <2>1. gate[p] \in Buffers /\ TailIn(p, gate[p]) /\ TailIn(r, gate[p]) /\ Due(p) = Due(r)
    BY <1>2, <1>4 DEF Gates
  <2> HIDE DEF gate, S
  <2> QED
    BY <1>1, <2>1 DEF Timed, TimedAt, Apart
<1>5. gate \in Injection(S, Gates)
  <2> HIDE DEF gate, S
  <2> QED
    BY <1>3, <1>4 DEF Injection, IsInjective
<1>6. Cardinality(S) <= Cardinality(Gates)
  <2> HIDE DEF gate, S
  <2> QED
    BY <1>5, FiniteCounts, FS_Injection
<1>7. q \notin Finished
  BY DEF Finished, Packed, Local, Control
<1>8. Cardinality(S) = Cardinality(Finished) + 1
  BY <1>7, FiniteCounts, FS_AddElement
<1> QED
  BY <1>6, <1>8, FiniteCounts
\* Every step of the network is a step of the contract, or none.
LEMMA ContractStep ==
  ASSUME IInv, Timed, [Next]_vars
  PROVE  [Contract!Next]_(Contract!transport)
<1>0. Typed /\ Packed /\ Serial
  BY DEF IInv
<1>1. ASSUME UNCHANGED <<phase, status, finished>>
      PROVE  UNCHANGED Contract!transport
  BY <1>1 DEF Contract!transport, Live
<1>2. CASE ReleaseLinks
  <2>1. phase = "serial" /\ phase' = "update"
    BY <1>2 DEF ReleaseLinks
  <2>2. Travelling' = Travelling /\ Finished' = {}
    BY <1>0, <1>2 DEF ReleaseLinks, Travelling, Finished, Live, Typed
  <2>3. Cardinality(Travelling') = Cardinality(Travelling) /\ Cardinality(Finished') = 0
    BY <2>2, FS_EmptySet, Zenon
  <2>4. Contract!Release
    BY <2>1, <2>3 DEF Contract!Release, Travelling, Finished
  <2> QED
    BY <2>4 DEF Contract!Next
<1>3. CASE Reset
  <2>1. phase = "serial" /\ phase' = phase
    BY <1>3 DEF Reset
  <2>2. Travelling' = {} /\ Finished' = {}
    BY <1>3 DEF Reset, Travelling, Finished, Live
  <2>3. Cardinality(Travelling') = 0 /\ Cardinality(Finished') = 0
    BY <2>2, FS_EmptySet, Zenon
  <2>4. Contract!Clear
    BY <2>1, <2>3 DEF Contract!Clear, Travelling, Finished
  <2> QED
    BY <2>4 DEF Contract!Next
<1>4. CASE EndCycle
  <2>1. phase = "update" /\ phase' = "serial" /\ UNCHANGED <<status, finished>>
    BY <1>4 DEF EndCycle, packet
  <2>2. Contract!EndCycle
    BY <2>1 DEF Contract!EndCycle, Live
  <2> QED
    BY <2>2 DEF Contract!Next
<1>5. ASSUME NEW q \in Packets, Generate(q)
      PROVE  Contract!Next
  <2>1. /\ phase = "serial" /\ phase' = phase /\ finished' = finished
        /\ status[q] = "new" /\ ~finished[q]
        /\ \A p \in Packets : status'[p] = IF p = q THEN "live" ELSE status[p]
    BY <1>0, <1>5 DEF Generate, packet, Typed, Packed, Local, Control
  <2>2. Travelling' = Travelling \cup {q} /\ q \notin Travelling /\ Finished' = Finished
    BY <2>1 DEF Travelling, Finished, Live
  <2>3. Cardinality(Travelling') = Cardinality(Travelling) + 1
    <3>1. Cardinality(Travelling \cup {q}) = Cardinality(Travelling) + 1
      BY <2>2, FiniteCounts, FS_AddElement
    <3> QED
      BY <2>2, <3>1, Zenon
  <2>4. Cardinality(Finished') = Cardinality(Finished)
    BY <2>2, Zenon
  <2>5. LET t == Cardinality(Travelling) IN
        /\ Cardinality(Travelling') > t
        /\ Cardinality(Travelling') = t + (Cardinality(Travelling') - t)
    BY <2>3, FiniteCounts
  <2> QED
    BY <2>1, <2>4, <2>5 DEF Contract!Next, Contract!Generate, Travelling, Finished
<1>6. ASSUME NEW q \in Packets, Arrive(q)
      PROVE  Contract!Next
  <2>1. /\ phase = "update" /\ phase' = phase /\ status' = status /\ pc[q] = "arrive"
        /\ status[q] = "live" /\ ~finished[q]
        /\ \A p \in Packets : finished'[p] <=> finished[p] \/ p = q
    BY <1>0, <1>6 DEF Arrive, cycle, Typed, Packed, Local, Control
  <2>2. /\ Travelling' = Travelling \ {q} /\ q \in Travelling
        /\ Finished' = Finished \cup {q} /\ q \notin Finished
    BY <2>1 DEF Travelling, Finished, Live
  <2>3. Cardinality(Travelling') = Cardinality(Travelling) - 1
    <3>1. Cardinality(Travelling \ {q}) = Cardinality(Travelling) - 1
      BY <2>2, FiniteCounts, FS_RemoveElement
    <3> QED
      BY <2>2, <3>1, Zenon
  <2>4. Cardinality(Finished') = Cardinality(Finished) + 1
    <3>1. Cardinality(Finished \cup {q}) = Cardinality(Finished) + 1
      BY <2>2, FiniteCounts, FS_AddElement
    <3> QED
      BY <2>2, <3>1, Zenon
  <2>5. Cardinality(Travelling) > 0
    <3>1. Cardinality(Travelling') \in Nat
      <4>1. IsFiniteSet(Travelling \ {q})
        BY FiniteCounts, FS_RemoveElement
      <4> QED
        BY <2>2, <4>1, FS_CardinalityType
    <3> QED
      BY <2>3, <3>1, FiniteCounts
  <2>6. Cardinality(Finished) < Cardinality(Gates)
    BY <1>0, <2>1, RoomToArrive
  <2>7. Contract!Arrive
    BY <2>1, <2>3, <2>4, <2>5, <2>6 DEF Contract!Arrive, Travelling, Finished, Gates
  <2> QED
    BY <2>7 DEF Contract!Next
<1>7. ASSUME NEW q \in Packets, Update(q), ~Arrive(q)
      PROVE  UNCHANGED Contract!transport
  <2>1. UNCHANGED <<phase, status>>
    BY <1>0, <1>7, UpdateFrame
  <2>2. UNCHANGED finished
    BY <1>7 DEF Update, Begin, IsEmpty, TakeEmpty, TakeAny, AllocateSwLink, AllocateInLink, Push,
       GiveBackSwLink, Move, packet
  <2> QED
    BY <1>1, <2>1, <2>2
<1>8. CASE UNCHANGED vars
  BY <1>1, <1>8 DEF vars, cycle, packet
<1> QED
  BY <1>2, <1>3, <1>4, <1>5, <1>6, <1>7, <1>8 DEF Next

\* The network keeps the contract the simulation loop is modelled with (the
\* safety part of Transport): packets enter and are removed by the serial part
\* of a cycle only, arrive while packets are updated, one at a time, and never
\* more of them in a cycle than buffers lead to destinations.
THEOREM KeepsContract == Spec => Contract!Safety
<1>1. Init => Contract!Init
  <2> SUFFICES ASSUME Init PROVE Contract!Init
    OBVIOUS
  <2>1. Travelling = {} /\ Finished = {}
    BY DEF Init, Travelling, Finished, Live
  <2>2. Cardinality(Travelling) = 0 /\ Cardinality(Finished) = 0
    BY <2>1, FS_EmptySet, Zenon
  <2> QED
    BY <2>2 DEF Init, Contract!Init, Travelling, Finished
<1>2. Spec => Init /\ [][Next]_vars
  BY DEF Spec
<1> QED
  BY <1>1, <1>2, ContractStep, Invariant, TimedInvariant, PTL DEF Contract!Safety
=============================================================================
