-------------------------- MODULE Dragonfly_proofs --------------------------
(***************************************************************************)
(* Dragonflies of every size.  First the wiring: in which part of a switch *)
(* or a C-group the ports of each kind of link lie, so that no port has    *)
(* two links.  Then the ways of packets: among the switches they go        *)
(* through stages, of which none comes twice; among the C-groups the       *)
(* number of links that may be left decreases with every hop.              *)
(***************************************************************************)
EXTENDS MCDragonflies, Lemmas

-----------------------------------------------------------------------------
(* The ports of a member of a group in which everybody is linked.          *)

\* The first i ports go to the i lower members, the others to higher ones.
LEMMA PortTowardsRange ==
  ASSUME NEW ports \in Nat, NEW i \in 0 .. ports, NEW j \in 0 .. ports, i # j
  PROVE  /\ j < i => SW!PortTowards(i, j, ports) \in 0 .. i - 1
         /\ i < j => SW!PortTowards(i, j, ports) \in i .. ports - 1
BY DEF SW!PortTowards

LEMMA PortTowardsApart ==
  ASSUME NEW ports \in Nat, NEW i \in 0 .. ports,
         NEW j \in 0 .. ports, NEW k \in 0 .. ports, i # j, i # k,
         SW!PortTowards(i, j, ports) = SW!PortTowards(i, k, ports)
  PROVE  j = k
BY DEF SW!PortTowards

\* Every port leads to somebody.
LEMMA EveryPortTowards ==
  ASSUME NEW ports \in Nat, NEW i \in 0 .. ports, NEW p \in 0 .. ports - 1
  PROVE  \E j \in 0 .. ports : i # j /\ SW!PortTowards(i, j, ports) = p
<1> DEFINE j == IF i <= p THEN i + (ports - p) ELSE IF p = 0 THEN i - 1 ELSE p - 1
<1>1. j \in 0 .. ports /\ i # j /\ SW!PortTowards(i, j, ports) = p
  BY DEF SW!PortTowards
<1> QED
  BY <1>1

\* Switches and C-groups are numbered in the same way.
LEMMA SameNumbering ==
  ASSUME NEW i, NEW j, NEW ports
  PROVE  CG!PortTowards(i, j, ports) = SW!PortTowards(i, j, ports)
BY DEF CG!PortTowards, SW!PortTowards

-----------------------------------------------------------------------------
(* The ports of a switch: cores, lower switches, global links, higher      *)
(* switches, in this order; one port may be free before the last ones.     *)

LEMMA SwitchSizes ==
  /\ SW!cores_per_sw \in Nat \ {0} /\ SW!l_ports_per_sw \in Nat \ {0}
  /\ SW!g_ports_per_sw \in Nat \ {0} /\ SW!sw_per_group \in Nat \ {0}
  /\ SW!sw_per_group = SW!l_ports_per_sw + 1
  /\ SW!cores_per_sw + SW!l_ports_per_sw + SW!g_ports_per_sw <= sw_radix
  /\ SW!g_ports_per_group \in Nat \ {0} /\ SW!num_group = SW!g_ports_per_group + 1
  /\ SW!num_switch \in Nat
<1>1. /\ SW!cores_per_sw \in Nat \ {0} /\ SW!l_ports_per_sw \in Nat \ {0}
      /\ SW!g_ports_per_sw \in Nat \ {0} /\ SW!sw_per_group \in Nat \ {0}
      /\ SW!sw_per_group = SW!l_ports_per_sw + 1
      /\ SW!cores_per_sw + SW!l_ports_per_sw + SW!g_ports_per_sw <= sw_radix
  BY DragonflyAssumption DEF SW!cores_per_sw, SW!l_ports_per_sw, SW!g_ports_per_sw, SW!sw_per_group
<1>2. SW!g_ports_per_group \in Nat \ {0}
  BY <1>1 DEF SW!g_ports_per_group
<1>3. SW!num_group = SW!g_ports_per_group + 1
  BY DEF SW!num_group
<1>4. SW!num_switch \in Nat
  BY <1>1, <1>2, <1>3 DEF SW!num_switch
<1> QED
  BY <1>1, <1>2, <1>3, <1>4

\* Switch number i of group g.
LEMMA SwitchNumber ==
  ASSUME NEW g \in SW!Groups, NEW i \in SW!Members
  PROVE  LET n == g * SW!sw_per_group + i
         IN /\ n \in 0 .. SW!num_switch - 1
            /\ n \div SW!sw_per_group = g /\ n % SW!sw_per_group = i
<1>1. /\ SW!sw_per_group \in Nat \ {0} /\ i \in 0 .. SW!sw_per_group - 1
      /\ g \in Nat /\ SW!num_group \in Nat /\ g + 1 <= SW!num_group
  BY SwitchSizes DEF SW!Groups, SW!Members
<1>2. (g + 1) * SW!sw_per_group <= SW!num_group * SW!sw_per_group
  BY <1>1
<1>3. /\ (g + 1) * SW!sw_per_group = g * SW!sw_per_group + SW!sw_per_group
      /\ g * SW!sw_per_group \in Nat /\ SW!num_group * SW!sw_per_group \in Nat
  BY <1>1
<1>4. g * SW!sw_per_group + i \in 0 .. SW!num_group * SW!sw_per_group - 1
  BY <1>1, <1>2, <1>3
<1>5. /\ (g * SW!sw_per_group + i) \div SW!sw_per_group = g
      /\ (g * SW!sw_per_group + i) % SW!sw_per_group = i
  BY <1>1, PlaceOfMember
<1> QED
  BY <1>4, <1>5 DEF SW!num_switch

\* Ports of switch number i of a group that lead to lower and higher switches.
LEMMA SwitchLocalRange ==
  ASSUME NEW i \in SW!Members, NEW j \in SW!Members, i # j
  PROVE  /\ j < i => SW!local_link(i, j) \in SW!cores_per_sw .. SW!cores_per_sw + i - 1
         /\ i < j => SW!local_link(i, j) \in SW!cores_per_sw + i + SW!g_ports_per_sw .. sw_radix - 1
<1> USE SwitchSizes DEF SW!Members
<1>1. sw_radix \in Nat
  BY DragonflyAssumption
<1>2. CASE i < j
  BY <1>1, <1>2 DEF SW!local_link, SW!PortTowards
<1>3. CASE j < i
  BY <1>1, <1>3 DEF SW!local_link, SW!PortTowards
<1> QED
  BY <1>2, <1>3

LEMMA SwitchLocalApart ==
  ASSUME NEW i \in SW!Members, NEW j \in SW!Members, NEW k \in SW!Members, i # j, i # k,
         SW!local_link(i, j) = SW!local_link(i, k)
  PROVE  j = k
<1> USE SwitchSizes DEF SW!Members
<1>1. sw_radix \in Nat
  BY DragonflyAssumption
<1> QED
  BY <1>1 DEF SW!local_link, SW!PortTowards

\* The switch of a global port, and where its port lies.
LEMMA SwitchGlobalRange ==
  ASSUME NEW id \in 0 .. SW!g_ports_per_group - 1
  PROVE  /\ SW!GlobalSwitch(id) \in SW!Members
         /\ SW!GlobalPort(id) \in SW!cores_per_sw + SW!GlobalSwitch(id)
                              .. SW!cores_per_sw + SW!GlobalSwitch(id) + SW!g_ports_per_sw - 1
<1> USE SwitchSizes
<1> DEFINE q == id \div SW!g_ports_per_sw
<1>1. id \in Nat /\ id < SW!g_ports_per_group
  OBVIOUS
<1>2. q \in Nat /\ id % SW!g_ports_per_sw \in 0 .. SW!g_ports_per_sw - 1
        /\ id = q * SW!g_ports_per_sw + (id % SW!g_ports_per_sw)
  BY <1>1, Division
<1> HIDE DEF q
<1>3. q < SW!sw_per_group
  <2>1. SUFFICES ASSUME SW!sw_per_group <= q PROVE FALSE
    BY <1>2
  <2>2. SW!g_ports_per_sw * SW!sw_per_group <= q * SW!g_ports_per_sw
    BY <1>2, <2>1
  <2> QED
    BY <1>1, <1>2, <2>2 DEF SW!g_ports_per_group
<1>4. SW!GlobalSwitch(id) = q
  BY DEF q, SW!GlobalSwitch
<1>5. SW!GlobalPort(id) = SW!cores_per_sw + q + (id % SW!g_ports_per_sw)
  BY <1>4 DEF SW!GlobalPort
<1> QED
  BY <1>2, <1>3, <1>4, <1>5 DEF SW!Members

LEMMA SwitchGlobalApart ==
  ASSUME NEW a \in 0 .. SW!g_ports_per_group - 1, NEW b \in 0 .. SW!g_ports_per_group - 1,
         SW!GlobalSwitch(a) = SW!GlobalSwitch(b), SW!GlobalPort(a) = SW!GlobalPort(b)
  PROVE  a = b
<1>1. a \in Nat /\ b \in Nat
  BY SwitchSizes
<1> QED
  BY <1>1, SwitchSizes, SameRemainder DEF SW!GlobalSwitch, SW!GlobalPort

-----------------------------------------------------------------------------
(* The links.                                                              *)

\* Where the port lies at which a link of each kind starts.
CoreStart(end) ==
  \/ end[1].node # SW!cores_per_sw
  \/ end[2] \in 0 .. SW!cores_per_sw - 1
GlobalStart(end) ==
  /\ end[1].node = SW!cores_per_sw
  /\ end[2] \in Nat /\ end[2] >= SW!cores_per_sw
  /\ LET first == SW!cores_per_sw + SW!IdInGroup(end[1]) IN
     end[2] \in first .. first + SW!g_ports_per_sw - 1
LocalStart(end) ==
  /\ end[1].node = SW!cores_per_sw
  /\ end[2] \in Nat /\ end[2] >= SW!cores_per_sw
  /\ LET first == SW!cores_per_sw + SW!IdInGroup(end[1]) IN
     end[2] \notin first .. first + SW!g_ports_per_sw - 1

\* The two ends of a link in group g between its switches i and j, and of the
\* link between groups g and h.
SwitchLocalLink(g, i, j) == <<SW!local_buffer(g, j, i), SW!local_buffer(g, i, j)>>
SwitchGlobalLink(g, h) == <<SW!global_link(g, h), SW!global_link(h, g)>>

LEMMA SwitchCoreLinks ==
  ASSUME NEW link \in SW!core_links
  PROVE  /\ CoreStart(link[1])
         /\ <<link[2], link[1]>> \in SW!core_links
         /\ \A other \in SW!core_links : other[1] = link[1] => other = link
<1> DEFINE Up(i, id) == <<<<SW!NodeID(i, id), 0>>, <<SW!Switch(id), i>>>>
           Down(i, id) == <<<<SW!Switch(id), i>>, <<SW!NodeID(i, id), 0>>>>
           Ports == 0 .. SW!cores_per_sw - 1
           Chips == 0 .. SW!num_switch - 1
           up == {Up(i, id) : i \in Ports, id \in Chips}
<1>1. SW!core_links = up \cup {<<l[2], l[1]>> : l \in up}
  BY DEF SW!core_links
<1>2. \A l \in up : \E i \in Ports, id \in Chips : l = Up(i, id)
  OBVIOUS
<1>3. \A i \in Ports, id \in Chips : Up(i, id) \in up
  OBVIOUS
<1> HIDE DEF up
<1>4. \A l \in SW!core_links : \E i \in Ports, id \in Chips : l = Up(i, id) \/ l = Down(i, id)
  <2> SUFFICES ASSUME NEW l \in SW!core_links
               PROVE  \E i \in Ports, id \in Chips : l = Up(i, id) \/ l = Down(i, id)
    OBVIOUS
  <2>1. l \in up \/ \E u \in up : l = <<u[2], u[1]>>
    BY <1>1
  <2> QED
    BY <2>1, <1>2
<1>5. \A i \in Ports, id \in Chips : Up(i, id) \in SW!core_links /\ Down(i, id) \in SW!core_links
  <2> SUFFICES ASSUME NEW i \in Ports, NEW id \in Chips
               PROVE  Up(i, id) \in SW!core_links /\ Down(i, id) \in SW!core_links
    OBVIOUS
  <2>1. Up(i, id) \in up /\ Down(i, id) = <<Up(i, id)[2], Up(i, id)[1]>>
    BY <1>3
  <2> QED
    BY <2>1, <1>1
<1> USE SwitchSizes DEF SW!Switch, SW!NodeID
<1>6. PICK i \in Ports, id \in Chips : link = Up(i, id) \/ link = Down(i, id)
  BY <1>4
<1>7. CoreStart(link[1])
  BY <1>6 DEF CoreStart
<1>8. <<link[2], link[1]>> \in SW!core_links
  BY <1>5, <1>6
<1>9. ASSUME NEW other \in SW!core_links, other[1] = link[1]
      PROVE  other = link
  <2>1. PICK k \in Ports, kd \in Chips : other = Up(k, kd) \/ other = Down(k, kd)
    BY <1>4
  <2>2. i # SW!cores_per_sw /\ k # SW!cores_per_sw
    OBVIOUS
  <2> QED
    BY <1>6, <1>9, <2>1, <2>2
<1> QED
  BY <1>7, <1>8, <1>9

LEMMA SwitchLocalLinks ==
  ASSUME NEW link \in SW!local_links
  PROVE  /\ LocalStart(link[1])
         /\ <<link[2], link[1]>> \in SW!local_links
         /\ \A other \in SW!local_links : other[1] = link[1] => other = link
<1>1. \A l \in SW!local_links :
        \E g \in SW!Groups, i \in SW!Members, j \in SW!Members : i # j /\ l = SwitchLocalLink(g, i, j)
  BY DEF SW!local_links, SwitchLocalLink
<1>2. \A g \in SW!Groups, i \in SW!Members, j \in SW!Members : i # j => SwitchLocalLink(g, i, j) \in SW!local_links
  <2> SUFFICES ASSUME NEW g \in SW!Groups, NEW i \in SW!Members, NEW j \in SW!Members, i # j
               PROVE  SwitchLocalLink(g, i, j) \in SW!local_links
    OBVIOUS
  <2> DEFINE Of(a, b) == {SwitchLocalLink(a, b, m) : m \in SW!Members \ {b}}
  <2>1. SW!local_links = UNION {Of(a, b) : a \in SW!Groups, b \in SW!Members}
    BY DEF SW!local_links, SwitchLocalLink
  <2>2. SwitchLocalLink(g, i, j) \in Of(g, i)
    OBVIOUS
  <2> HIDE DEF Of
  <2>3. Of(g, i) \in {Of(a, b) : a \in SW!Groups, b \in SW!Members}
    OBVIOUS
  <2> QED
    BY <2>1, <2>2, <2>3
<1>3. PICK g \in SW!Groups, i \in SW!Members, j \in SW!Members : i # j /\ link = SwitchLocalLink(g, i, j)
  BY <1>1
<1>4. link[1] = <<SW!Switch(g * SW!sw_per_group + i), SW!local_link(i, j)>>
  BY <1>3 DEF SwitchLocalLink, SW!local_buffer
<1>5. g \in Nat
  BY SwitchSizes DEF SW!Groups
<1>6. LocalStart(link[1])
  <2>1. SW!IdInGroup(link[1][1]) = i
    BY <1>4, SwitchNumber DEF SW!IdInGroup, SW!Switch, SW!NodeID
  <2>2. link[1][1].node = SW!cores_per_sw /\ link[1][2] = SW!local_link(i, j)
    BY <1>4 DEF SW!Switch, SW!NodeID
  <2>3. i < j \/ j < i
    BY <1>3, SwitchSizes DEF SW!Members
  <2> QED
    BY <1>3, <2>1, <2>2, <2>3, SwitchLocalRange, SwitchSizes DEF LocalStart, SW!Members
<1>7. <<link[2], link[1]>> \in SW!local_links
  <2>1. <<link[2], link[1]>> = SwitchLocalLink(g, j, i)
    BY <1>3 DEF SwitchLocalLink
  <2> QED
    BY <1>2, <1>3, <2>1
<1>8. ASSUME NEW other \in SW!local_links, other[1] = link[1]
      PROVE  other = link
  <2>1. PICK h \in SW!Groups, k \in SW!Members, m \in SW!Members : k # m /\ other = SwitchLocalLink(h, k, m)
    BY <1>1
  <2>2. other[1] = <<SW!Switch(h * SW!sw_per_group + k), SW!local_link(k, m)>>
    BY <2>1 DEF SwitchLocalLink, SW!local_buffer
  <2>3. h * SW!sw_per_group + k = g * SW!sw_per_group + i /\ SW!local_link(k, m) = SW!local_link(i, j)
    BY <1>4, <1>8, <2>2 DEF SW!Switch, SW!NodeID
  <2>4. h = g /\ k = i
    BY <1>5, <2>3, SwitchSizes, NumberOfMember DEF SW!Members, SW!Groups
  <2>5. m = j
    BY <1>3, <2>1, <2>3, <2>4, SwitchLocalApart
  <2> QED
    BY <1>3, <2>1, <2>4, <2>5
<1> QED
  BY <1>6, <1>7, <1>8

LEMMA SwitchGlobalLinks ==
  ASSUME NEW link \in SW!global_links
  PROVE  /\ GlobalStart(link[1])
         /\ <<link[2], link[1]>> \in SW!global_links
         /\ \A other \in SW!global_links : other[1] = link[1] => other = link
<1>1. \A l \in SW!global_links : \E g \in SW!Groups, h \in SW!Groups : g # h /\ l = SwitchGlobalLink(g, h)
  BY DEF SW!global_links, SwitchGlobalLink
<1>2. \A g \in SW!Groups, h \in SW!Groups : g # h => SwitchGlobalLink(g, h) \in SW!global_links
  BY DEF SW!global_links, SwitchGlobalLink
<1> DEFINE id(g, h) == SW!PortTowards(g, h, SW!g_ports_per_group)
<1>3. \A g \in SW!Groups, h \in SW!Groups :
        SW!global_link(g, h) = <<SW!Switch(g * SW!sw_per_group + SW!GlobalSwitch(id(g, h))), SW!GlobalPort(id(g, h))>>
  BY DEF SW!global_link
<1>4. \A g \in SW!Groups, h \in SW!Groups :
        g # h => id(g, h) \in 0 .. SW!g_ports_per_group - 1 /\ SW!GlobalSwitch(id(g, h)) \in SW!Members
  <2> SUFFICES ASSUME NEW g \in SW!Groups, NEW h \in SW!Groups, g # h
               PROVE  id(g, h) \in 0 .. SW!g_ports_per_group - 1 /\ SW!GlobalSwitch(id(g, h)) \in SW!Members
    OBVIOUS
  <2>1. g \in 0 .. SW!g_ports_per_group /\ h \in 0 .. SW!g_ports_per_group
    BY SwitchSizes DEF SW!Groups
  <2>2. id(g, h) \in 0 .. SW!g_ports_per_group - 1
    BY <2>1, SwitchSizes, PortTowardsRange
  <2> QED
    BY <2>2, SwitchGlobalRange
<1> HIDE DEF id
<1>5. PICK g \in SW!Groups, h \in SW!Groups : g # h /\ link = SwitchGlobalLink(g, h)
  BY <1>1
<1>6. link[1] = <<SW!Switch(g * SW!sw_per_group + SW!GlobalSwitch(id(g, h))), SW!GlobalPort(id(g, h))>>
  BY <1>3, <1>5 DEF SwitchGlobalLink
<1>7. g \in Nat
  BY SwitchSizes DEF SW!Groups
<1>8. GlobalStart(link[1])
  <2>1. SW!IdInGroup(link[1][1]) = SW!GlobalSwitch(id(g, h))
    <3>1. SW!GlobalSwitch(id(g, h)) \in 0 .. SW!sw_per_group - 1
      BY <1>4, <1>5 DEF SW!Members
    <3>2. link[1][1].chip = g * SW!sw_per_group + SW!GlobalSwitch(id(g, h))
      BY <1>6 DEF SW!Switch, SW!NodeID
    <3> QED
      BY <1>7, <3>1, <3>2, SwitchSizes, PlaceOfMember DEF SW!IdInGroup
  <2>2. link[1][1].node = SW!cores_per_sw /\ link[1][2] = SW!GlobalPort(id(g, h))
    BY <1>6 DEF SW!Switch, SW!NodeID
  <2> QED
    BY <1>4, <1>5, <2>1, <2>2, SwitchGlobalRange, SwitchSizes DEF GlobalStart, SW!Members
<1>9. <<link[2], link[1]>> \in SW!global_links
  <2>1. <<link[2], link[1]>> = SwitchGlobalLink(h, g)
    BY <1>5 DEF SwitchGlobalLink
  <2> QED
    BY <1>2, <1>5, <2>1
<1>10. ASSUME NEW other \in SW!global_links, other[1] = link[1]
       PROVE  other = link
  <2>1. PICK e \in SW!Groups, f \in SW!Groups : e # f /\ other = SwitchGlobalLink(e, f)
    BY <1>1
  <2>2. other[1] = <<SW!Switch(e * SW!sw_per_group + SW!GlobalSwitch(id(e, f))), SW!GlobalPort(id(e, f))>>
    BY <1>3, <2>1 DEF SwitchGlobalLink
  <2>3. /\ e * SW!sw_per_group + SW!GlobalSwitch(id(e, f)) = g * SW!sw_per_group + SW!GlobalSwitch(id(g, h))
        /\ SW!GlobalPort(id(e, f)) = SW!GlobalPort(id(g, h))
    BY <1>6, <1>10, <2>2 DEF SW!Switch, SW!NodeID
  <2>4. e = g /\ SW!GlobalSwitch(id(e, f)) = SW!GlobalSwitch(id(g, h))
    <3>1. e \in Nat
      BY SwitchSizes DEF SW!Groups
    <3>2. /\ SW!GlobalSwitch(id(e, f)) \in 0 .. SW!sw_per_group - 1
          /\ SW!GlobalSwitch(id(g, h)) \in 0 .. SW!sw_per_group - 1
      BY <1>4, <1>5, <2>1 DEF SW!Members
    <3> QED
      BY <1>7, <2>3, <3>1, <3>2, SwitchSizes, NumberOfMember
  <2>5. id(e, f) = id(g, h)
    BY <1>4, <1>5, <2>1, <2>3, <2>4, SwitchGlobalApart
  <2>6. f = h
    BY <1>5, <2>1, <2>4, <2>5, SwitchSizes, PortTowardsApart DEF id, SW!Groups
  <2> QED
    BY <1>5, <2>1, <2>4, <2>6
<1> QED
  BY <1>8, <1>9, <1>10

\* connect_local, connect_global and set_chip never connect a port twice, and
\* every connection leads back, whatever the radix of the switches.
THEOREM SwitchPortsPairedOnce ==
  SW!PairedOnce(SW!Links)
<1>1. \A l \in SW!core_links, m \in SW!local_links : l[1] # m[1]
  <2> SUFFICES ASSUME NEW l \in SW!core_links, NEW m \in SW!local_links, l[1] = m[1]
               PROVE  FALSE
    OBVIOUS
  <2>1. CoreStart(m[1]) /\ LocalStart(m[1])
    BY SwitchCoreLinks, SwitchLocalLinks
  <2> QED
    BY <2>1, SwitchSizes DEF CoreStart, LocalStart
<1>2. \A l \in SW!core_links, m \in SW!global_links : l[1] # m[1]
  <2> SUFFICES ASSUME NEW l \in SW!core_links, NEW m \in SW!global_links, l[1] = m[1]
               PROVE  FALSE
    OBVIOUS
  <2>1. CoreStart(m[1]) /\ GlobalStart(m[1])
    BY SwitchCoreLinks, SwitchGlobalLinks
  <2> QED
    BY <2>1, SwitchSizes DEF CoreStart, GlobalStart
<1>3. \A l \in SW!local_links, m \in SW!global_links : l[1] # m[1]
  BY SwitchLocalLinks, SwitchGlobalLinks DEF LocalStart, GlobalStart
<1>4. SUFFICES ASSUME NEW link \in SW!Links
               PROVE  /\ <<link[2], link[1]>> \in SW!Links
                      /\ \A other \in SW!Links : other[1] = link[1] => other = link
  BY DEF SW!PairedOnce
<1>5. CASE link \in SW!core_links
  BY <1>1, <1>2, <1>5, SwitchCoreLinks DEF SW!Links
<1>6. CASE link \in SW!local_links
  BY <1>1, <1>3, <1>6, SwitchLocalLinks DEF SW!Links
<1>7. CASE link \in SW!global_links
  BY <1>2, <1>3, <1>7, SwitchGlobalLinks DEF SW!Links
<1> QED
  BY <1>5, <1>6, <1>7 DEF SW!Links

-----------------------------------------------------------------------------
(* The ports of a C-group.                                                 *)

LEMMA CGroupSizes ==
  /\ CG!cgroup_radix = 4 * k_node - 4 /\ CG!cgroup_radix \in Nat \ {0}
  /\ CG!l_ports_per_cg \in Nat \ {0} /\ CG!g_ports_per_cg \in Nat \ {0}
  /\ CG!l_ports_per_cg + CG!g_ports_per_cg = CG!cgroup_radix
  /\ CG!cgroup_per_wgroup = CG!l_ports_per_cg + 1
  /\ CG!g_ports_per_wg \in Nat \ {0} /\ CG!num_wgroup = CG!g_ports_per_wg + 1
<1>1. /\ CG!cgroup_radix = 4 * k_node - 4 /\ CG!cgroup_radix \in Nat \ {0}
      /\ CG!l_ports_per_cg \in Nat \ {0} /\ CG!g_ports_per_cg \in Nat \ {0}
      /\ CG!l_ports_per_cg + CG!g_ports_per_cg = CG!cgroup_radix
      /\ CG!cgroup_per_wgroup = CG!l_ports_per_cg + 1
  BY DragonflyAssumption DEF CG!cgroup_radix, CG!l_ports_per_cg, CG!g_ports_per_cg, CG!cgroup_per_wgroup
<1>2. CG!g_ports_per_wg \in Nat \ {0}
  BY <1>1 DEF CG!g_ports_per_wg
<1>3. CG!num_wgroup = CG!g_ports_per_wg + 1
  BY DEF CG!num_wgroup
<1> QED
  BY <1>1, <1>2, <1>3

\* C-group number i of W-group g.
LEMMA CGroupNumber ==
  ASSUME NEW g \in CG!WGroups, NEW i \in CG!Members
  PROVE  LET n == g * CG!cgroup_per_wgroup + i
         IN /\ n \in 0 .. CG!num_cgroup - 1
            /\ n \div CG!cgroup_per_wgroup = g /\ n % CG!cgroup_per_wgroup = i
<1>1. /\ CG!cgroup_per_wgroup \in Nat \ {0} /\ i \in 0 .. CG!cgroup_per_wgroup - 1
      /\ g \in Nat /\ CG!num_wgroup \in Nat /\ g + 1 <= CG!num_wgroup
  BY CGroupSizes DEF CG!WGroups, CG!Members
<1>2. (g + 1) * CG!cgroup_per_wgroup <= CG!num_wgroup * CG!cgroup_per_wgroup
  BY <1>1
<1>3. /\ (g + 1) * CG!cgroup_per_wgroup = g * CG!cgroup_per_wgroup + CG!cgroup_per_wgroup
      /\ g * CG!cgroup_per_wgroup \in Nat /\ CG!num_wgroup * CG!cgroup_per_wgroup \in Nat
  BY <1>1
<1>4. g * CG!cgroup_per_wgroup + i \in 0 .. CG!num_wgroup * CG!cgroup_per_wgroup - 1
  BY <1>1, <1>2, <1>3
<1>5. /\ (g * CG!cgroup_per_wgroup + i) \div CG!cgroup_per_wgroup = g
      /\ (g * CG!cgroup_per_wgroup + i) % CG!cgroup_per_wgroup = i
  BY <1>1, PlaceOfMember
<1> QED
  BY <1>4, <1>5 DEF CG!num_cgroup

-----------------------------------------------------------------------------
(* The nodes of the external ports.                                        *)

\* Row and column of the node of a port.
Row(port) ==
  LET side == port - k_node
  IN IF side < 0 THEN 0 ELSE IF side < 2 * (k_node - 2) THEN side \div 2 + 1 ELSE k_node - 1
Column(port) ==
  LET side == port - k_node
  IN IF side < 0 THEN port
     ELSE IF side < 2 * (k_node - 2) THEN IF side % 2 = 0 THEN 0 ELSE k_node - 1
     ELSE side - 2 * (k_node - 2)

LEMMA NodeOfPort ==
  ASSUME NEW port \in 0 .. CG!cgroup_radix - 1
  PROVE  /\ Row(port) \in Nat /\ Column(port) \in 0 .. k_node - 1
         /\ CG!port_node(port) = Row(port) * k_node + Column(port)
<1> USE CGroupSizes
<1>1. k_node \in Nat /\ k_node >= 2 /\ port \in 0 .. 4 * k_node - 5
  BY DragonflyAssumption
<1>2. Row(port) \in Nat /\ Column(port) \in 0 .. k_node - 1
  BY <1>1 DEF Row, Column
<1>3. CG!port_node(port) = Row(port) * k_node + Column(port)
  BY <1>1 DEF Row, Column, CG!port_node
<1> QED
  BY <1>2, <1>3

LEMMA PortsApart ==
  ASSUME NEW a \in 0 .. CG!cgroup_radix - 1, NEW b \in 0 .. CG!cgroup_radix - 1,
         CG!port_node(a) = CG!port_node(b)
  PROVE  a = b
<1>1. k_node \in Nat /\ k_node >= 2 /\ a \in 0 .. 4 * k_node - 5 /\ b \in 0 .. 4 * k_node - 5
  BY CGroupSizes, DragonflyAssumption
<1>2. Row(a) = Row(b) /\ Column(a) = Column(b)
  <2>1. Row(a) \in Nat /\ Column(a) \in 0 .. k_node - 1
    BY NodeOfPort
  <2>2. Row(b) \in Nat /\ Column(b) \in 0 .. k_node - 1
    BY NodeOfPort
  <2>3. Row(a) * k_node + Column(a) = Row(b) * k_node + Column(b)
    BY NodeOfPort
  <2>4. k_node \in Nat \ {0}
    BY <1>1
  <2>5. \A g \in Nat, h \in Nat, i \in 0 .. k_node - 1, j \in 0 .. k_node - 1 :
          g * k_node + i = h * k_node + j => g = h /\ i = j
    BY <2>4, NumberOfMember
  <2> QED
    BY <2>1, <2>2, <2>3, <2>5, Zenon
<1> QED
  BY <1>1, <1>2 DEF Row, Column

\* The first ports of C-group number i of a W-group lead to lower C-groups, the
\* next ones are global, the last ones lead to higher C-groups.
LEMMA CGroupLocalRange ==
  ASSUME NEW i \in CG!Members, NEW j \in CG!Members, i # j
  PROVE  CG!PortTowards(i, j, CG!cgroup_radix)
           \in (0 .. i - 1) \cup (i + CG!g_ports_per_cg .. CG!cgroup_radix - 1)
BY CGroupSizes DEF CG!Members, CG!PortTowards

LEMMA CGroupGlobalRange ==
  ASSUME NEW id \in 0 .. CG!g_ports_per_wg - 1
  PROVE  /\ id \div CG!g_ports_per_cg \in CG!Members
         /\ id % CG!g_ports_per_cg \in 0 .. CG!g_ports_per_cg - 1
<1> USE CGroupSizes
<1> DEFINE q == id \div CG!g_ports_per_cg
<1>1. id \in Nat /\ id < CG!g_ports_per_wg
  OBVIOUS
<1>2. q \in Nat /\ id % CG!g_ports_per_cg \in 0 .. CG!g_ports_per_cg - 1
        /\ id = q * CG!g_ports_per_cg + (id % CG!g_ports_per_cg)
  BY <1>1, Division
<1> HIDE DEF q
<1>3. q < CG!cgroup_per_wgroup
  <2>1. SUFFICES ASSUME CG!cgroup_per_wgroup <= q PROVE FALSE
    BY <1>2
  <2>2. CG!g_ports_per_cg * CG!cgroup_per_wgroup <= q * CG!g_ports_per_cg
    BY <1>2, <2>1
  <2> QED
    BY <1>1, <1>2, <2>2 DEF CG!g_ports_per_wg
<1>4. q \in CG!Members
  BY <1>2, <1>3 DEF CG!Members
<1> QED
  BY <1>2, <1>4 DEF q

-----------------------------------------------------------------------------
(* The links.                                                              *)

\* The node of one of the global ports of its C-group, and of another port.
GlobalNode(n) ==
  \E p \in CG!IdInWGroup(n) .. CG!IdInWGroup(n) + CG!g_ports_per_cg - 1 :
    p \in 0 .. CG!cgroup_radix - 1 /\ n.node = CG!port_node(p)
LocalNode(n) ==
  \E p \in 0 .. CG!cgroup_radix - 1 :
    p \notin CG!IdInWGroup(n) .. CG!IdInWGroup(n) + CG!g_ports_per_cg - 1 /\ n.node = CG!port_node(p)

CGroupLocalLink(g, i, j) == <<CG!local_node(g, i, j), CG!local_node(g, j, i)>>
CGroupGlobalLink(g, h) == <<CG!global_link(g, h), CG!global_link(h, g)>>

LEMMA CGroupLocalLinks ==
  ASSUME NEW link \in CG!local_links
  PROVE  /\ LocalNode(link[1])
         /\ <<link[2], link[1]>> \in CG!local_links
         /\ \A other \in CG!local_links : other[1] = link[1] => other = link
<1>1. \A l \in CG!local_links :
        \E g \in CG!WGroups, i \in CG!Members, j \in CG!Members : i # j /\ l = CGroupLocalLink(g, i, j)
  BY DEF CG!local_links, CGroupLocalLink
<1>2. \A g \in CG!WGroups, i \in CG!Members, j \in CG!Members : i # j => CGroupLocalLink(g, i, j) \in CG!local_links
  <2> SUFFICES ASSUME NEW g \in CG!WGroups, NEW i \in CG!Members, NEW j \in CG!Members, i # j
               PROVE  CGroupLocalLink(g, i, j) \in CG!local_links
    OBVIOUS
  <2> DEFINE Of(a, b) == {CGroupLocalLink(a, b, m) : m \in CG!Members \ {b}}
  <2>1. CG!local_links = UNION {Of(a, b) : a \in CG!WGroups, b \in CG!Members}
    BY DEF CG!local_links, CGroupLocalLink
  <2>2. CGroupLocalLink(g, i, j) \in Of(g, i)
    OBVIOUS
  <2> HIDE DEF Of
  <2>3. Of(g, i) \in {Of(a, b) : a \in CG!WGroups, b \in CG!Members}
    OBVIOUS
  <2> QED
    BY <2>1, <2>2, <2>3
<1>3. PICK g \in CG!WGroups, i \in CG!Members, j \in CG!Members : i # j /\ link = CGroupLocalLink(g, i, j)
  BY <1>1
<1> DEFINE port(m, n) == CG!PortTowards(m, n, CG!cgroup_radix)
<1>4. link[1].node = CG!port_node(port(i, j)) /\ link[1].chip = g * CG!cgroup_per_wgroup + i
  BY <1>3 DEF CGroupLocalLink, CG!local_node, CG!local_link, CG!NodeID
<1>5. port(i, j) \in 0 .. CG!cgroup_radix - 1 /\ port(i, j) \notin i .. i + CG!g_ports_per_cg - 1
  BY <1>3, CGroupLocalRange, CGroupSizes DEF CG!Members
<1> HIDE DEF port
<1>6. g \in Nat /\ i \in 0 .. CG!cgroup_per_wgroup - 1
  BY CGroupSizes DEF CG!WGroups, CG!Members
<1>7. LocalNode(link[1])
  <2>1. CG!IdInWGroup(link[1]) = i
    BY <1>4, CGroupNumber DEF CG!IdInWGroup
  <2> QED
    BY <1>4, <1>5, <2>1 DEF LocalNode
<1>8. <<link[2], link[1]>> \in CG!local_links
  <2>1. <<link[2], link[1]>> = CGroupLocalLink(g, j, i)
    BY <1>3 DEF CGroupLocalLink
  <2> QED
    BY <1>2, <1>3, <2>1
<1>9. ASSUME NEW other \in CG!local_links, other[1] = link[1]
      PROVE  other = link
  <2>1. PICK h \in CG!WGroups, k \in CG!Members, m \in CG!Members : k # m /\ other = CGroupLocalLink(h, k, m)
    BY <1>1
  <2>2. other[1].node = CG!port_node(port(k, m)) /\ other[1].chip = h * CG!cgroup_per_wgroup + k
    BY <2>1 DEF CGroupLocalLink, CG!local_node, CG!local_link, CG!NodeID, port
  <2>3. port(k, m) \in 0 .. CG!cgroup_radix - 1
    BY <2>1, CGroupLocalRange, CGroupSizes DEF CG!Members, port
  <2>4. h \in Nat /\ k \in 0 .. CG!cgroup_per_wgroup - 1
    BY CGroupSizes DEF CG!WGroups, CG!Members
  <2>5. h = g /\ k = i
    <3>1. h * CG!cgroup_per_wgroup + k = g * CG!cgroup_per_wgroup + i
      BY <1>4, <1>9, <2>2
    <3>2. CG!cgroup_per_wgroup \in Nat \ {0}
      BY CGroupSizes
    <3> QED
      BY <1>6, <2>4, <3>1, <3>2, NumberOfMember
  <2>6. port(i, j) = port(i, m)
    BY <1>4, <1>5, <1>9, <2>2, <2>3, <2>5, PortsApart
  <2>7. j = m
    <3>1. CG!cgroup_radix \in Nat /\ {i, j, m} \subseteq 0 .. CG!cgroup_radix
      BY CGroupSizes DEF CG!Members
    <3> QED
      BY <1>3, <2>1, <2>5, <2>6, <3>1, PortTowardsApart, SameNumbering DEF port
  <2> QED
    BY <1>3, <2>1, <2>5, <2>7
<1> QED
  BY <1>7, <1>8, <1>9

LEMMA CGroupGlobalLinks ==
  ASSUME NEW link \in CG!global_links
  PROVE  /\ GlobalNode(link[1])
         /\ <<link[2], link[1]>> \in CG!global_links
         /\ \A other \in CG!global_links : other[1] = link[1] => other = link
<1>1. \A l \in CG!global_links : \E g \in CG!WGroups, h \in CG!WGroups : g # h /\ l = CGroupGlobalLink(g, h)
  BY DEF CG!global_links, CGroupGlobalLink
<1>2. \A g \in CG!WGroups, h \in CG!WGroups : g # h => CGroupGlobalLink(g, h) \in CG!global_links
  BY DEF CG!global_links, CGroupGlobalLink
<1> DEFINE id(g, h) == CG!PortTowards(g, h, CG!g_ports_per_wg)
           member(g, h) == id(g, h) \div CG!g_ports_per_cg
           rest(g, h) == id(g, h) % CG!g_ports_per_cg
<1>3. ASSUME NEW g \in CG!WGroups, NEW h \in CG!WGroups, g # h
      PROVE  /\ id(g, h) \in 0 .. CG!g_ports_per_wg - 1
             /\ member(g, h) \in 0 .. CG!cgroup_per_wgroup - 1
             /\ rest(g, h) \in 0 .. CG!g_ports_per_cg - 1
             /\ member(g, h) + rest(g, h) \in 0 .. CG!cgroup_radix - 1
             /\ CG!global_link(g, h).node = CG!port_node(member(g, h) + rest(g, h))
             /\ CG!global_link(g, h).chip = g * CG!cgroup_per_wgroup + member(g, h)
  <2>1. g \in 0 .. CG!g_ports_per_wg /\ h \in 0 .. CG!g_ports_per_wg
    BY CGroupSizes DEF CG!WGroups
  <2>2. id(g, h) \in 0 .. CG!g_ports_per_wg - 1
    <3>1. g < h \/ h < g
      BY <1>3, <2>1
    <3>2. CG!g_ports_per_wg \in Nat
      BY CGroupSizes
    <3>3. /\ h < g => id(g, h) \in 0 .. g - 1
          /\ g < h => id(g, h) \in g .. CG!g_ports_per_wg - 1
      BY <1>3, <2>1, <3>2, PortTowardsRange, SameNumbering
    <3> HIDE DEF id
    <3> QED
      BY <2>1, <3>1, <3>2, <3>3
  <2>3. member(g, h) \in 0 .. CG!cgroup_per_wgroup - 1 /\ rest(g, h) \in 0 .. CG!g_ports_per_cg - 1
    BY <2>2, CGroupGlobalRange DEF CG!Members
  <2>4. /\ CG!global_link(g, h).node = CG!port_node(member(g, h) + rest(g, h))
        /\ CG!global_link(g, h).chip = g * CG!cgroup_per_wgroup + member(g, h)
    BY DEF CG!global_link, CG!NodeID
  <2> HIDE DEF id, member, rest
  <2>5. member(g, h) + rest(g, h) \in 0 .. CG!cgroup_radix - 1
    BY <2>3, CGroupSizes
  <2> QED
    BY <2>2, <2>3, <2>4, <2>5
<1>4. ASSUME NEW g \in CG!WGroups, NEW h \in CG!WGroups, NEW f \in CG!WGroups, g # h, g # f,
             member(g, h) = member(g, f), rest(g, h) = rest(g, f)
      PROVE  h = f
  <2>1. id(g, h) \in Nat /\ id(g, f) \in Nat
    BY <1>3, <1>4
  <2>2. id(g, h) = id(g, f)
    <3> HIDE DEF id
    <3>1. id(g, h) = member(g, h) * CG!g_ports_per_cg + rest(g, h)
      BY <2>1, CGroupSizes, Division
    <3>2. id(g, f) = member(g, f) * CG!g_ports_per_cg + rest(g, f)
      BY <2>1, CGroupSizes, Division
    <3> QED
      BY <1>4, <3>1, <3>2
  <2> QED
    BY <1>4, <2>2, CGroupSizes, PortTowardsApart, SameNumbering DEF CG!WGroups, id
<1> HIDE DEF id, member, rest
<1>5. PICK g \in CG!WGroups, h \in CG!WGroups : g # h /\ link = CGroupGlobalLink(g, h)
  BY <1>1
<1>6. link[1] = CG!global_link(g, h) /\ g \in Nat
  BY <1>5, CGroupSizes DEF CGroupGlobalLink, CG!WGroups
<1>7. GlobalNode(link[1])
  <2>1. CG!IdInWGroup(link[1]) = member(g, h)
    <3>1. link[1].chip = g * CG!cgroup_per_wgroup + member(g, h)
      BY <1>3, <1>5, <1>6
    <3>2. member(g, h) \in 0 .. CG!cgroup_per_wgroup - 1 /\ CG!cgroup_per_wgroup \in Nat \ {0}
      BY <1>3, <1>5, CGroupSizes
    <3> QED
      BY <1>6, <3>1, <3>2, PlaceOfMember DEF CG!IdInWGroup
  <2>2. member(g, h) + rest(g, h) \in member(g, h) .. member(g, h) + CG!g_ports_per_cg - 1
    BY <1>3, <1>5, CGroupSizes
  <2> QED
    BY <1>3, <1>5, <1>6, <2>1, <2>2 DEF GlobalNode
<1>8. <<link[2], link[1]>> \in CG!global_links
  <2>1. <<link[2], link[1]>> = CGroupGlobalLink(h, g)
    BY <1>5 DEF CGroupGlobalLink
  <2> QED
    BY <1>2, <1>5, <2>1
<1>9. ASSUME NEW other \in CG!global_links, other[1] = link[1]
      PROVE  other = link
  <2>1. PICK e \in CG!WGroups, f \in CG!WGroups : e # f /\ other = CGroupGlobalLink(e, f)
    BY <1>1
  <2>2. other[1] = CG!global_link(e, f) /\ e \in Nat
    BY <2>1, CGroupSizes DEF CGroupGlobalLink, CG!WGroups
  <2>3. e = g /\ member(e, f) = member(g, h)
    <3>1. e * CG!cgroup_per_wgroup + member(e, f) = g * CG!cgroup_per_wgroup + member(g, h)
      BY <1>3, <1>5, <1>6, <1>9, <2>1, <2>2
    <3>2. member(e, f) \in 0 .. CG!cgroup_per_wgroup - 1 /\ member(g, h) \in 0 .. CG!cgroup_per_wgroup - 1
      BY <1>3, <1>5, <2>1
    <3>3. CG!cgroup_per_wgroup \in Nat \ {0} /\ e \in Nat /\ g \in Nat
      BY <1>6, <2>2, CGroupSizes
    <3> QED
      BY <3>1, <3>2, <3>3, NumberOfMember
  <2>4. member(e, f) + rest(e, f) = member(g, h) + rest(g, h)
    BY <1>3, <1>5, <1>6, <1>9, <2>1, <2>2, PortsApart
  <2>5. rest(g, f) = rest(g, h)
    BY <1>3, <1>5, <2>1, <2>3, <2>4
  <2>6. f = h
    BY <1>4, <1>5, <2>1, <2>3, <2>5
  <2> QED
    BY <1>5, <2>1, <2>3, <2>6
<1> QED
  BY <1>7, <1>8, <1>9

\* connect_local and connect_global never connect an external port twice, and
\* every connection leads back, whatever the size of the C-groups.
THEOREM ExternalPortsPairedOnce ==
  CG!PairedOnce(CG!Links)
<1>1. \A l \in CG!local_links, m \in CG!global_links : l[1] # m[1]
  <2> SUFFICES ASSUME NEW l \in CG!local_links, NEW m \in CG!global_links, l[1] = m[1]
               PROVE  FALSE
    OBVIOUS
  <2>1. LocalNode(m[1]) /\ GlobalNode(m[1])
    BY CGroupLocalLinks, CGroupGlobalLinks
  <2> QED
    BY <2>1, PortsApart DEF LocalNode, GlobalNode
<1> QED
  BY <1>1, CGroupLocalLinks, CGroupGlobalLinks DEF CG!PairedOnce, CG!Links

-----------------------------------------------------------------------------
(* A packet among the switches.                                            *)

\* The group and the place in it of a switch, and of the cores of a switch.
LEMMA SwitchPlace ==
  ASSUME NEW n \in 0 .. SW!num_switch - 1
  PROVE  /\ n \div SW!sw_per_group \in SW!Groups /\ n % SW!sw_per_group \in SW!Members
         /\ n = (n \div SW!sw_per_group) * SW!sw_per_group + (n % SW!sw_per_group)
<1> DEFINE q == n \div SW!sw_per_group
<1>1. /\ SW!sw_per_group \in Nat \ {0} /\ SW!num_group \in Nat /\ n \in Nat
      /\ n < SW!num_group * SW!sw_per_group
  BY SwitchSizes DEF SW!num_switch
<1>2. q \in Nat /\ n % SW!sw_per_group \in 0 .. SW!sw_per_group - 1
        /\ n = q * SW!sw_per_group + (n % SW!sw_per_group)
  BY <1>1, Division
<1> HIDE DEF q
<1>3. q < SW!num_group
  <2> SUFFICES ASSUME SW!num_group <= q PROVE FALSE
    BY <1>1, <1>2
  <2>1. SW!num_group * SW!sw_per_group <= q * SW!sw_per_group
    BY <1>1, <1>2
  <2> QED
    BY <1>1, <1>2, <2>1
<1>4. q \in SW!Groups
  BY <1>1, <1>2, <1>3 DEF SW!Groups
<1> QED
  BY <1>2, <1>4 DEF q, SW!Members

\* Switch number i of group g, and the one with the link of that group to h.
Member(g, i) == SW!Switch(g * SW!sw_per_group + i)
Gateway(g, h) == SW!GlobalSwitch(SW!PortTowards(g, h, SW!g_ports_per_group))

LEMMA MemberFacts ==
  ASSUME NEW g \in SW!Groups, NEW i \in SW!Members
  PROVE  /\ SW!Group(Member(g, i)) = g /\ SW!IdInGroup(Member(g, i)) = i
         /\ Member(g, i).node = SW!cores_per_sw
         /\ Member(g, i).chip = g * SW!sw_per_group + i
         /\ Member(g, i) \in SW!Switches /\ ~SW!Core(Member(g, i))
         /\ \A h \in SW!Groups, j \in SW!Members : Member(g, i) = Member(h, j) => g = h /\ i = j
<1>1. ASSUME NEW h \in SW!Groups, NEW j \in SW!Members
      PROVE  /\ SW!Group(Member(h, j)) = h /\ SW!IdInGroup(Member(h, j)) = j
             /\ Member(h, j).node = SW!cores_per_sw
             /\ Member(h, j).chip = h * SW!sw_per_group + j
             /\ Member(h, j) \in SW!Switches
  BY SwitchNumber DEF Member, SW!Switch, SW!NodeID, SW!Group, SW!IdInGroup, SW!Switches
<1>2. ~SW!Core(Member(g, i))
  BY <1>1 DEF SW!Core
<1> QED
  BY <1>1, <1>2

LEMMA CoreFacts ==
  ASSUME NEW n \in SW!CoreNodes
  PROVE  /\ n.node \in 0 .. SW!cores_per_sw - 1 /\ n.chip \in 0 .. SW!num_switch - 1
         /\ SW!Group(n) \in SW!Groups /\ SW!IdInGroup(n) \in SW!Members /\ SW!Core(n)
         /\ SW!Switch(n.chip) = Member(SW!Group(n), SW!IdInGroup(n))
         /\ n.chip = SW!Group(n) * SW!sw_per_group + SW!IdInGroup(n)
         /\ n = [node |-> n.node, chip |-> n.chip]
         /\ n \notin SW!Switches
<1>1. /\ n.node \in 0 .. SW!cores_per_sw - 1 /\ n.chip \in 0 .. SW!num_switch - 1
      /\ n = [node |-> n.node, chip |-> n.chip]
  BY DEF SW!CoreNodes
<1>2. n.node # SW!cores_per_sw
  BY <1>1, SwitchSizes
<1>3. n \notin SW!Switches
  BY <1>2 DEF SW!Switches, SW!Switch, SW!NodeID
<1> QED
  BY <1>1, <1>2, <1>3, SwitchPlace DEF SW!Group, SW!IdInGroup, SW!Core, Member

LEMMA GatewayFacts ==
  ASSUME NEW g \in SW!Groups, NEW h \in SW!Groups, g # h
  PROVE  /\ Gateway(g, h) \in SW!Members
         /\ SW!global_link(g, h)[1] = Member(g, Gateway(g, h))
         /\ GlobalStart(SW!global_link(g, h))
<1> DEFINE id == SW!PortTowards(g, h, SW!g_ports_per_group)
<1>1. SW!global_link(g, h) = <<Member(g, Gateway(g, h)), SW!GlobalPort(id)>>
  BY DEF SW!global_link, Member, Gateway
<1>2. id \in 0 .. SW!g_ports_per_group - 1
  <2>1. g \in 0 .. SW!g_ports_per_group /\ h \in 0 .. SW!g_ports_per_group
    BY SwitchSizes DEF SW!Groups
  <2>2. \A i \in 0 .. SW!g_ports_per_group, j \in 0 .. SW!g_ports_per_group :
          i # j => SW!PortTowards(i, j, SW!g_ports_per_group) \in 0 .. SW!g_ports_per_group - 1
    BY SwitchSizes DEF SW!PortTowards
  <2> QED
    BY <2>1, <2>2
<1> HIDE DEF id
<1>3. Gateway(g, h) \in SW!Members
  BY <1>2, SwitchGlobalRange DEF Gateway, id
<1>4. <<SW!global_link(g, h), SW!global_link(h, g)>> \in SW!global_links
  <2> DEFINE Of(f) == {<<SW!global_link(f, e), SW!global_link(e, f)>> : e \in SW!Groups \ {f}}
  <2>1. SW!global_links = UNION {Of(f) : f \in SW!Groups}
    BY DEF SW!global_links
  <2>2. <<SW!global_link(g, h), SW!global_link(h, g)>> \in Of(g)
    OBVIOUS
  <2> HIDE DEF Of
  <2> QED
    BY <2>1, <2>2
<1>5. GlobalStart(SW!global_link(g, h))
  BY <1>4, SwitchGlobalLinks
<1> QED
  BY <1>1, <1>3, <1>5

\* Every global port of a switch leads to another group.
LEMMA EveryGlobalPort ==
  ASSUME NEW g \in SW!Groups, NEW i \in SW!Members, NEW m \in 0 .. SW!cores_per_sw - 1
  PROVE  \E h \in SW!Groups \ {g} :
           SW!global_link(g, h) = <<Member(g, i), SW!cores_per_sw + i + m>>
<1>1. SW!cores_per_sw <= SW!g_ports_per_sw
  BY DragonflyAssumption DEF SW!cores_per_sw, SW!g_ports_per_sw, SW!l_ports_per_sw
<1>2. /\ SW!g_ports_per_sw \in Nat \ {0} /\ SW!sw_per_group \in Nat \ {0}
      /\ i \in 0 .. SW!sw_per_group - 1 /\ m \in 0 .. SW!g_ports_per_sw - 1
      /\ SW!cores_per_sw \in Nat /\ SW!g_ports_per_group \in Nat
      /\ SW!g_ports_per_group = SW!sw_per_group * SW!g_ports_per_sw
  BY <1>1, SwitchSizes DEF SW!Members, SW!g_ports_per_group
<1> DEFINE id == i * SW!g_ports_per_sw + m
<1>3. id \in 0 .. SW!g_ports_per_group - 1
  <2>1. (i + 1) * SW!g_ports_per_sw <= SW!sw_per_group * SW!g_ports_per_sw
    BY <1>2
  <2>2. /\ (i + 1) * SW!g_ports_per_sw = i * SW!g_ports_per_sw + SW!g_ports_per_sw
        /\ i * SW!g_ports_per_sw \in Nat
    BY <1>2
  <2> QED
    BY <1>2, <2>1, <2>2
<1>4. id \div SW!g_ports_per_sw = i /\ id % SW!g_ports_per_sw = m
  BY <1>2, PlaceOfMember
<1> HIDE DEF id
<1>5. g \in 0 .. SW!g_ports_per_group /\ SW!Groups = 0 .. SW!g_ports_per_group
  BY SwitchSizes DEF SW!Groups
<1>6. PICK h \in SW!Groups : g # h /\ SW!PortTowards(g, h, SW!g_ports_per_group) = id
  <2>1. \A n \in Nat : \A j \in 0 .. n, p \in 0 .. n - 1 :
          \E k \in 0 .. n : j # k /\ SW!PortTowards(j, k, n) = p
    BY EveryPortTowards
  <2>2. \E k \in 0 .. SW!g_ports_per_group :
          g # k /\ SW!PortTowards(g, k, SW!g_ports_per_group) = id
    <3>1. SW!g_ports_per_group \in Nat /\ g \in 0 .. SW!g_ports_per_group
      BY <1>2, <1>5
    <3> QED
      BY <1>3, <2>1, <3>1, Zenon
  <2> QED
    BY <1>5, <2>2, Zenon
<1>7. SW!global_link(g, h) = <<Member(g, i), SW!cores_per_sw + i + m>>
  BY <1>4, <1>6 DEF SW!global_link, SW!GlobalSwitch, SW!GlobalPort, Member
<1> QED
  BY <1>6, <1>7

-----------------------------------------------------------------------------
(* Where the routing among the switches leads.                             *)

SwitchConfigs == {"switches", "switches_misrouting"}
Channels(buffer) == {<<buffer, v>> : v \in 0 .. vc_number - 1}

LEMMA AnyVCRange ==
  ASSUME NEW buffer
  PROVE  Range(SW!AnyVC(buffer)) = Channels(buffer) /\ Channels(buffer) # {}
<1>1. vc_number \in Nat \ {0}
  BY DragonflyAssumption
<1>2. Range(SW!AnyVC(buffer)) = {<<buffer, i - 1>> : i \in 1 .. vc_number}
  BY <1>1 DEF Range, SW!AnyVC
<1>3. \A i \in 1 .. vc_number : i - 1 \in 0 .. vc_number - 1
  BY <1>1
<1>4. \A v \in 0 .. vc_number - 1 : v + 1 \in 1 .. vc_number /\ v = (v + 1) - 1
  BY <1>1
<1>5. 0 \in 0 .. vc_number - 1
  BY <1>1
<1> QED
  BY <1>2, <1>3, <1>4, <1>5 DEF Channels

LEMMA ChannelNodes ==
  ASSUME NEW n, NEW port, NEW x \in Channels(<<n, port>>)
  PROVE  NodeOf(x) = n
BY DEF Channels, NodeOf

LEMMA OneVCRange ==
  ASSUME NEW buffer, NEW v
  PROVE  Range(SW!VC(buffer, v)) = {<<buffer, v>>} /\ Range(CG!VC(buffer, v)) = {<<buffer, v>>}
BY DEF Range, SW!VC, CG!VC

Misroutes(c) == c = "switches_misrouting"

LEMMA FromCore ==
  ASSUME NEW c \in SwitchConfigs, NEW s, NEW d, NEW vc, NodeOf(vc) \in SW!CoreNodes
  PROVE  Range(MCRoute(c, s, d, vc))
           = Channels(<<SW!Switch(NodeOf(vc).chip), NodeOf(vc).node>>)
<1>1. SW!Core(NodeOf(vc))
  BY CoreFacts
<1>2. MCRoute(c, s, d, vc) = SW!AnyVC(<<SW!Switch(NodeOf(vc).chip), NodeOf(vc).node>>)
  BY <1>1 DEF MCRoute, SwitchConfigs, SW!MIN_routing
<1> QED
  BY <1>2, AnyVCRange

\* From switch number i of group g: which case of MIN_routing it is.
LEMMA AtSwitch ==
  ASSUME NEW d \in SW!CoreNodes, NEW g \in SW!Groups, NEW i \in SW!Members,
         NEW n, n = Member(g, i)
  PROVE  /\ SW!Group(n) = g /\ SW!IdInGroup(n) = i /\ ~SW!Core(n)
         /\ n.chip = d.chip <=> (g = SW!Group(d) /\ i = SW!IdInGroup(d))
<1>1. /\ SW!Group(n) = g /\ SW!IdInGroup(n) = i /\ ~SW!Core(n)
      /\ n.chip = g * SW!sw_per_group + i
  BY MemberFacts
<1>2. /\ SW!Group(d) \in SW!Groups /\ SW!IdInGroup(d) \in SW!Members
      /\ d.chip = SW!Group(d) * SW!sw_per_group + SW!IdInGroup(d)
  BY CoreFacts
<1> QED
  BY <1>1, <1>2, MemberFacts DEF Member

\* To the core.
LEMMA FromLastSwitch ==
  ASSUME NEW c \in SwitchConfigs, NEW s \in SW!CoreNodes, NEW d \in SW!CoreNodes, NEW vc,
         NodeOf(vc) = Member(SW!Group(d), SW!IdInGroup(d))
  PROVE  Range(MCRoute(c, s, d, vc)) = Channels(<<d, 0>>)
<1>1. SW!Group(d) \in SW!Groups /\ SW!IdInGroup(d) \in SW!Members
  BY CoreFacts
<1>2. ~SW!Core(NodeOf(vc)) /\ NodeOf(vc).chip = d.chip
  BY <1>1, AtSwitch
<1>3. MCRoute(c, s, d, vc) = SW!AnyVC(<<d, 0>>)
  BY <1>2 DEF MCRoute, SwitchConfigs, SW!MIN_routing, SW!Group
<1> QED
  BY <1>3, AnyVCRange

\* To the switch of the core in its group.
LEMMA FromLastGroup ==
  ASSUME NEW c \in SwitchConfigs, NEW s \in SW!CoreNodes, NEW d \in SW!CoreNodes, NEW vc,
         NEW i \in SW!Members, NodeOf(vc) = Member(SW!Group(d), i), i # SW!IdInGroup(d)
  PROVE  Range(MCRoute(c, s, d, vc))
           = {<<SW!local_buffer(SW!Group(d), i, SW!IdInGroup(d)), 2>>}
<1> DEFINE n == NodeOf(vc)
<1>1. SW!Group(d) \in SW!Groups
  BY CoreFacts
<1>2. ~SW!Core(n) /\ n.chip # d.chip /\ SW!Group(n) = SW!Group(d) /\ SW!IdInGroup(n) = i
  BY <1>1, AtSwitch
<1>3. MCRoute(c, s, d, vc) = SW!VC(SW!local_buffer(SW!Group(d), i, SW!IdInGroup(d)), 2)
  BY <1>2 DEF MCRoute, SwitchConfigs, SW!MIN_routing
<1> QED
  BY <1>3, OneVCRange

\* Out of the group of the source anywhere, with mis-routing.
LEMMA FromFirstGroup ==
  ASSUME NEW s \in SW!CoreNodes, NEW d \in SW!CoreNodes, NEW vc, NEW i \in SW!Members,
         NodeOf(vc) = Member(SW!Group(s), i), SW!Group(s) # SW!Group(d)
  PROVE  \E h \in SW!Groups \ {SW!Group(s)} :
           /\ Range(MCRoute("switches_misrouting", s, d, vc)) = {<<SW!global_buffer(SW!Group(s), h), 0>>}
           /\ SW!global_link(SW!Group(s), h)[1] = NodeOf(vc)
<1> DEFINE n == NodeOf(vc)
           g == SW!Group(s)
           port == <<n, SW!cores_per_sw + i + s.node>>
           h == CHOOSE h \in SW!Groups \ {g} : SW!global_link(g, h) = port
<1>1. g \in SW!Groups /\ s.node \in 0 .. SW!cores_per_sw - 1
  BY CoreFacts
<1>2. ~SW!Core(n) /\ n.chip # d.chip /\ SW!Group(n) = g /\ SW!IdInGroup(n) = i
  BY <1>1, AtSwitch
<1>3. MCRoute("switches_misrouting", s, d, vc) = SW!Misroute(n, s)
  BY <1>2 DEF MCRoute, SW!MIN_routing
<1>4. SW!Misroute(n, s) = SW!VC(SW!global_buffer(g, h), 0)
  BY <1>2 DEF SW!Misroute
<1>5. \E f \in SW!Groups \ {g} : SW!global_link(g, f) = port
  BY <1>1, EveryGlobalPort
<1>6. h \in SW!Groups \ {g} /\ SW!global_link(g, h) = port
  <2> HIDE DEF port, g
  <2> QED
    BY <1>5
<1> HIDE DEF h
<1>7. SW!global_link(g, h)[1] = n
  BY <1>6
<1> QED
  BY <1>3, <1>4, <1>6, <1>7, OneVCRange

\* Over the global link to the group of the core, or to the switch that has it.
LEMMA FromOtherGroup ==
  ASSUME NEW c \in SwitchConfigs, NEW s \in SW!CoreNodes, NEW d \in SW!CoreNodes, NEW vc,
         NEW g \in SW!Groups, NEW i \in SW!Members, NodeOf(vc) = Member(g, i),
         g # SW!Group(d), ~(Misroutes(c) /\ g = SW!Group(s))
  PROVE  LET gateway == Gateway(g, SW!Group(d))
             R == Range(MCRoute(c, s, d, vc))
         IN /\ i = gateway => R = {<<SW!global_buffer(g, SW!Group(d)), 1>>}
            /\ i # gateway => R = {<<SW!local_buffer(g, i, gateway), 1>>}
<1> DEFINE n == NodeOf(vc)
           there == SW!Group(d)
           gateway == Gateway(g, there)
<1>1. there \in SW!Groups
  BY CoreFacts
<1>2. ~SW!Core(n) /\ n.chip # d.chip /\ SW!Group(n) = g /\ SW!IdInGroup(n) = i
  BY AtSwitch
<1>3. MCRoute(c, s, d, vc) = SW!TowardsGroup(n, there)
  BY <1>2 DEF MCRoute, SwitchConfigs, Misroutes, SW!MIN_routing
<1>4. SW!global_link(g, there)[1] = Member(g, gateway) /\ gateway \in SW!Members
  BY <1>1, GatewayFacts
<1>5. SW!IdInGroup(Member(g, gateway)) = gateway /\ (n = Member(g, gateway) <=> i = gateway)
  BY <1>4, MemberFacts
<1>6. ASSUME i = gateway PROVE SW!TowardsGroup(n, there) = SW!VC(SW!global_buffer(g, there), 1)
  BY <1>2, <1>4, <1>5, <1>6 DEF SW!TowardsGroup
<1>7. ASSUME i # gateway PROVE SW!TowardsGroup(n, there) = SW!VC(SW!local_buffer(g, i, gateway), 1)
  BY <1>2, <1>4, <1>5, <1>7 DEF SW!TowardsGroup
<1> QED
  BY <1>3, <1>6, <1>7, OneVCRange

-----------------------------------------------------------------------------
(* The stages of a way through the switches.                               *)

\* Channel vc is one of the k-th part of the way from s to d: at the source; in
\* the switch of the source; after mis-routing; at the gateway of the group; in
\* the group of the destination; in its switch; there.  Parts may be left out,
\* and none is met twice.
InStage(c, s, d, k, vc) ==
  LET here == SW!Group(s)
      there == SW!Group(d)
  IN \/ k = 0 /\ vc = AtSource(s)
     \/ k = 1 /\ vc \in Channels(<<SW!Switch(s.chip), s.node>>)
     \/ k = 2 /\ Misroutes(c) /\ \E h \in SW!Groups \ {here} : vc = <<SW!global_buffer(here, h), 0>>
     \/ /\ k = 3
        /\ \E g \in SW!Groups \ {there}, i \in SW!Members :
             /\ i # Gateway(g, there) /\ ~(Misroutes(c) /\ g = here)
             /\ vc = <<SW!local_buffer(g, i, Gateway(g, there)), 1>>
     \/ k = 4 /\ \E g \in SW!Groups \ {there} : vc = <<SW!global_buffer(g, there), 1>>
     \/ /\ k = 5
        /\ \E i \in SW!Members \ {SW!IdInGroup(d)} :
             vc = <<SW!local_buffer(there, i, SW!IdInGroup(d)), 2>>
     \/ k = 6 /\ vc \in Channels(<<d, 0>>)

\* Node m is in the group of n, or comes after it by a global link of the way.
Along(c, s, d, n, m) ==
  SW!Group(m) # SW!Group(n) =>
    SW!Group(m) = SW!Group(d) \/ (Misroutes(c) /\ SW!Group(n) = SW!Group(s))

LEMMA BufferNodes ==
  ASSUME NEW g \in SW!Groups
  PROVE  /\ \A i \in SW!Members, j \in SW!Members, v \in Nat :
              NodeOf(<<SW!local_buffer(g, i, j), v>>) = Member(g, j)
         /\ \A h \in SW!Groups \ {g}, v \in Nat :
              /\ NodeOf(<<SW!global_buffer(g, h), v>>) = Member(h, Gateway(h, g))
              /\ Gateway(h, g) \in SW!Members
BY GatewayFacts DEF NodeOf, SW!local_buffer, SW!global_buffer, Member

LEMMA StageFromSwitch ==
  ASSUME NEW c \in SwitchConfigs, NEW s \in SW!CoreNodes, NEW d \in SW!CoreNodes, NEW vc,
         NEW g \in SW!Groups, NEW i \in SW!Members, NodeOf(vc) = Member(g, i)
  PROVE  LET there == SW!Group(d)
             gateway == Gateway(g, there)
             R == Range(MCRoute(c, s, d, vc))
         IN /\ R # {}
            /\ \A x \in R :
                 /\ Along(c, s, d, NodeOf(vc), NodeOf(x))
                 /\ IF g = there
                    THEN IF i = SW!IdInGroup(d) THEN InStage(c, s, d, 6, x)
                         ELSE InStage(c, s, d, 5, x)
                    ELSE IF Misroutes(c) /\ g = SW!Group(s) THEN InStage(c, s, d, 2, x)
                    ELSE IF i = gateway THEN InStage(c, s, d, 4, x)
                    ELSE InStage(c, s, d, 3, x)
<1> DEFINE there == SW!Group(d)
           gateway == Gateway(g, there)
           R == Range(MCRoute(c, s, d, vc))
           Good(k) == R # {} /\ \A x \in R : Along(c, s, d, NodeOf(vc), NodeOf(x)) /\ InStage(c, s, d, k, x)
<1>1. SW!Group(NodeOf(vc)) = g
  BY MemberFacts
<1>2. there \in SW!Groups /\ SW!IdInGroup(d) \in SW!Members
  BY CoreFacts
<1>3. ASSUME g = there, i = SW!IdInGroup(d) PROVE Good(6)
  <2>1. R = Channels(<<d, 0>>)
    BY <1>3, FromLastSwitch
  <2>2. Channels(<<d, 0>>) # {} /\ \A x \in Channels(<<d, 0>>) : NodeOf(x) = d
    BY AnyVCRange, ChannelNodes
  <2> QED
    BY <1>1, <1>3, <2>1, <2>2 DEF InStage, Along
<1>4. ASSUME g = there, i # SW!IdInGroup(d) PROVE Good(5)
  <2> DEFINE x == <<SW!local_buffer(g, i, SW!IdInGroup(d)), 2>>
  <2>1. R = {x}
    BY <1>4, FromLastGroup
  <2>2. SW!Group(NodeOf(x)) = g
    BY <1>2, BufferNodes, MemberFacts
  <2>3. InStage(c, s, d, 5, x)
    BY <1>4 DEF InStage
  <2> HIDE DEF x
  <2> QED
    BY <1>1, <2>1, <2>2, <2>3 DEF Along
<1>5. ASSUME g # there, Misroutes(c), g = SW!Group(s) PROVE Good(2)
  <2>1. PICK h \in SW!Groups \ {g} : R = {<<SW!global_buffer(g, h), 0>>}
    BY <1>5, FromFirstGroup DEF Misroutes
  <2>2. InStage(c, s, d, 2, <<SW!global_buffer(g, h), 0>>)
    BY <1>5 DEF InStage
  <2> QED
    BY <1>1, <1>5, <2>1, <2>2 DEF Along
<1>6. ASSUME g # there, ~(Misroutes(c) /\ g = SW!Group(s)), i = gateway PROVE Good(4)
  <2> DEFINE x == <<SW!global_buffer(g, there), 1>>
  <2>1. R = {x}
    BY <1>6, FromOtherGroup
  <2>2. SW!Group(NodeOf(x)) = there
    BY <1>2, <1>6, BufferNodes, MemberFacts
  <2>3. InStage(c, s, d, 4, x)
    BY <1>6 DEF InStage
  <2> HIDE DEF x
  <2> QED
    BY <2>1, <2>2, <2>3 DEF Along
<1>7. ASSUME g # there, ~(Misroutes(c) /\ g = SW!Group(s)), i # gateway PROVE Good(3)
  <2> DEFINE x == <<SW!local_buffer(g, i, gateway), 1>>
  <2>1. R = {x}
    BY <1>7, FromOtherGroup
  <2>2. SW!Group(NodeOf(x)) = g
    BY <1>2, <1>7, BufferNodes, MemberFacts, GatewayFacts
  <2>3. InStage(c, s, d, 3, x)
    BY <1>7 DEF InStage
  <2> HIDE DEF x
  <2> QED
    BY <1>1, <2>1, <2>2, <2>3 DEF Along
<1> HIDE DEF R, there, gateway
<1>8. CASE g = there
  <2>1. CASE i = SW!IdInGroup(d)
    BY <1>3, <1>8, <2>1 DEF R, there, gateway
  <2>2. CASE i # SW!IdInGroup(d)
    BY <1>4, <1>8, <2>2 DEF R, there, gateway
  <2> QED
    BY <2>1, <2>2
<1>9. CASE g # there
  <2>1. CASE Misroutes(c) /\ g = SW!Group(s)
    BY <1>5, <1>9, <2>1 DEF R, there, gateway
  <2>2. CASE ~(Misroutes(c) /\ g = SW!Group(s)) /\ i = gateway
    BY <1>6, <1>9, <2>2 DEF R, there, gateway
  <2>3. CASE ~(Misroutes(c) /\ g = SW!Group(s)) /\ i # gateway
    BY <1>7, <1>9, <2>3 DEF R, there, gateway
  <2> QED
    BY <2>1, <2>2, <2>3
<1> QED
  BY <1>8, <1>9

\* Every candidate leads to a later stage.
LEMMA StageNext ==
  ASSUME NEW c \in SwitchConfigs, NEW s \in SW!CoreNodes, NEW d \in SW!CoreNodes,
         NEW k \in 0 .. 5, NEW vc, InStage(c, s, d, k, vc)
  PROVE  /\ Range(MCRoute(c, s, d, vc)) # {}
         /\ \A x \in Range(MCRoute(c, s, d, vc)) :
              /\ \E l \in k + 1 .. 6 : InStage(c, s, d, l, x)
              /\ Along(c, s, d, NodeOf(vc), NodeOf(x))
<1> DEFINE here == SW!Group(s)
           there == SW!Group(d)
           R == Range(MCRoute(c, s, d, vc))
           Good == R # {} /\ \A x \in R : /\ \E l \in k + 1 .. 6 : InStage(c, s, d, l, x)
                                          /\ Along(c, s, d, NodeOf(vc), NodeOf(x))
<1>1. /\ here \in SW!Groups /\ SW!IdInGroup(s) \in SW!Members
      /\ there \in SW!Groups /\ SW!IdInGroup(d) \in SW!Members
      /\ SW!Switch(s.chip) = Member(here, SW!IdInGroup(s))
  BY CoreFacts
<1>2. ASSUME k = 0 PROVE Good
  <2>1. NodeOf(vc) = s
    BY <1>2 DEF InStage, AtSource, NodeOf
  <2>2. R = Channels(<<SW!Switch(s.chip), s.node>>)
    BY <2>1, FromCore
  <2>3. R # {} /\ \A x \in R : NodeOf(x) = SW!Switch(s.chip)
    BY <2>2, AnyVCRange, ChannelNodes
  <2>4. \A x \in R : InStage(c, s, d, 1, x)
    BY <2>2 DEF InStage
  <2>5. \A x \in R : Along(c, s, d, NodeOf(vc), NodeOf(x))
    BY <1>1, <2>1, <2>3, MemberFacts DEF Along
  <2> HIDE DEF R
  <2> QED
    BY <1>2, <2>3, <2>4, <2>5
<1>3. ASSUME k = 1 PROVE Good
  <2>1. NodeOf(vc) = Member(here, SW!IdInGroup(s))
    BY <1>1, <1>3 DEF InStage, Channels, NodeOf
  <2>2. R # {} /\ \A x \in R : /\ Along(c, s, d, NodeOf(vc), NodeOf(x))
                               /\ \/ InStage(c, s, d, 2, x) \/ InStage(c, s, d, 3, x)
                                  \/ InStage(c, s, d, 4, x) \/ InStage(c, s, d, 5, x)
                                  \/ InStage(c, s, d, 6, x)
    BY <1>1, <2>1, StageFromSwitch
  <2> HIDE DEF R
  <2> QED
    BY <1>3, <2>2
<1>4. ASSUME k = 2 PROVE Good
  <2>1. PICK h \in SW!Groups \ {here} : vc = <<SW!global_buffer(here, h), 0>>
    BY <1>4 DEF InStage
  <2>2. NodeOf(vc) = Member(h, Gateway(h, here)) /\ Gateway(h, here) \in SW!Members
    BY <1>1, <2>1, BufferNodes
  <2>3. R # {} /\ \A x \in R : /\ Along(c, s, d, NodeOf(vc), NodeOf(x))
                               /\ \/ InStage(c, s, d, 3, x)
                                  \/ InStage(c, s, d, 4, x) \/ InStage(c, s, d, 5, x)
                                  \/ InStage(c, s, d, 6, x)
    BY <2>2, StageFromSwitch
  <2> HIDE DEF R
  <2> QED
    BY <1>4, <2>3
<1>5. ASSUME k = 3 PROVE Good
  <2>1. PICK g \in SW!Groups \ {there}, i \in SW!Members :
          /\ i # Gateway(g, there) /\ ~(Misroutes(c) /\ g = here)
          /\ vc = <<SW!local_buffer(g, i, Gateway(g, there)), 1>>
    BY <1>5 DEF InStage
  <2>2. Gateway(g, there) \in SW!Members
    BY <1>1, GatewayFacts
  <2>3. NodeOf(vc) = Member(g, Gateway(g, there))
    BY <2>1, <2>2, BufferNodes
  <2>4. R # {} /\ \A x \in R : /\ Along(c, s, d, NodeOf(vc), NodeOf(x))
                               /\ InStage(c, s, d, 4, x)
    BY <2>1, <2>2, <2>3, StageFromSwitch
  <2> HIDE DEF R
  <2> QED
    BY <1>5, <2>4
<1>6. ASSUME k = 4 PROVE Good
  <2>1. PICK g \in SW!Groups \ {there} : vc = <<SW!global_buffer(g, there), 1>>
    BY <1>6 DEF InStage
  <2>2. NodeOf(vc) = Member(there, Gateway(there, g)) /\ Gateway(there, g) \in SW!Members
    BY <1>1, <2>1, BufferNodes
  <2>3. R # {} /\ \A x \in R : /\ Along(c, s, d, NodeOf(vc), NodeOf(x))
                               /\ InStage(c, s, d, 5, x) \/ InStage(c, s, d, 6, x)
    BY <1>1, <2>2, StageFromSwitch
  <2> HIDE DEF R
  <2> QED
    BY <1>6, <2>3
<1>7. ASSUME k = 5 PROVE Good
  <2>1. PICK i \in SW!Members \ {SW!IdInGroup(d)} :
          vc = <<SW!local_buffer(there, i, SW!IdInGroup(d)), 2>>
    BY <1>7 DEF InStage
  <2>2. NodeOf(vc) = Member(there, SW!IdInGroup(d))
    BY <1>1, <2>1, BufferNodes
  <2>3. R # {} /\ \A x \in R : /\ Along(c, s, d, NodeOf(vc), NodeOf(x))
                               /\ InStage(c, s, d, 6, x)
    BY <1>1, <2>2, StageFromSwitch
  <2> HIDE DEF R
  <2> QED
    BY <1>7, <2>3
<1> HIDE DEF R
<1>8. k \in {0, 1, 2, 3, 4, 5}
  OBVIOUS
<1>9. Good
  BY <1>2, <1>3, <1>4, <1>5, <1>6, <1>7, <1>8
<1> QED
  BY <1>9 DEF R

-----------------------------------------------------------------------------
(* A packet on its way.                                                    *)

\* The walk is one through these topologies, as the configuration of the model
\* checker has it.
Walks ==
  \A c \in Configs :
    /\ Cores(c) = MCCores(c)
    /\ MostHops(c) = MCMostHops(c)
    /\ \A s \in MCCores(c), d \in MCCores(c) : \A vc : Route(c, s, d, vc) = MCRoute(c, s, d, vc)

\* A part that mis-routing alone has is left out without it.
Shorter(c, k) == IF ~Misroutes(c) /\ k >= 3 THEN 1 ELSE 0

SwitchWay ==
  /\ config \in SwitchConfigs \cap Configs
  /\ source \in SW!CoreNodes /\ destination \in SW!CoreNodes /\ source # destination
  /\ hops \in Nat
  /\ \E k \in 0 .. 6 :
       InStage(config, source, destination, k, head) /\ hops + Shorter(config, k) <= k

LEMMA SwitchWayInit ==
  ASSUME Walks, Init, IsSW(config)
  PROVE  SwitchWay
<1>1. /\ config \in SwitchConfigs \cap Configs /\ source \in SW!CoreNodes
      /\ destination \in SW!CoreNodes /\ source # destination /\ hops = 0
  BY DEF Init, Walks, MCCores, IsSW, SwitchConfigs
<1>2. InStage(config, source, destination, 0, head)
  BY DEF Init, InStage
<1>3. Shorter(config, 0) = 0
  BY DEF Shorter
<1> QED
  BY <1>1, <1>2, <1>3 DEF SwitchWay

\* A hop leads to a later part, and from a group to the next one of the way.
LEMMA SwitchHop ==
  ASSUME Walks, SwitchWay, Hop
  PROVE  /\ SwitchWay'
         /\ Along(config, source, destination, at, at')
<1>1. PICK k \in 0 .. 6 : InStage(config, source, destination, k, head) /\ hops + Shorter(config, k) <= k
  BY DEF SwitchWay
<1>2. /\ config \in SwitchConfigs /\ config \in Configs /\ source \in SW!CoreNodes
      /\ destination \in SW!CoreNodes /\ source # destination /\ hops \in Nat
  BY DEF SwitchWay
<1>3. k \in 0 .. 5
  <2>1. SUFFICES ASSUME k = 6 PROVE FALSE
    OBVIOUS
  <2>2. head \in Channels(<<destination, 0>>)
    BY <1>1, <2>1 DEF InStage
  <2> QED
    BY <2>2, ChannelNodes DEF Hop, at
<1>4. head' \in Range(MCRoute(config, source, destination, head))
  BY <1>2 DEF Hop, Candidates, Walks, MCCores, IsSW, SwitchConfigs
<1>5. /\ \E l \in k + 1 .. 6 : InStage(config, source, destination, l, head')
      /\ Along(config, source, destination, NodeOf(head), NodeOf(head'))
  BY <1>1, <1>2, <1>3, <1>4, StageNext
<1>6. PICK l \in k + 1 .. 6 : InStage(config, source, destination, l, head')
  BY <1>5
<1>7. Misroutes(config) \/ l # 2
  BY <1>6 DEF InStage
<1>8. Misroutes(config) \/ k # 2
  BY <1>1 DEF InStage
<1>9. hops' = hops + 1 /\ config' = config /\ source' = source /\ destination' = destination
  BY DEF Hop
<1>10. hops' + Shorter(config, l) <= l /\ hops' \in Nat
  BY <1>1, <1>2, <1>3, <1>6, <1>7, <1>8, <1>9 DEF Shorter
<1>11. l \in 0 .. 6
  BY <1>3
<1>12. SwitchWay'
  BY <1>2, <1>6, <1>9, <1>10, <1>11 DEF SwitchWay
<1> QED
  BY <1>5, <1>12 DEF at

LEMMA SwitchWayHops ==
  ASSUME Walks, SwitchWay
  PROVE  FewHops
<1>1. PICK k \in 0 .. 6 : hops + Shorter(config, k) <= k
  BY DEF SwitchWay
<1>2. hops \in Nat /\ config \in SwitchConfigs /\ config \in Configs
  BY DEF SwitchWay
<1>3. MostHops(config) = IF Misroutes(config) THEN 6 ELSE 5
  BY <1>2 DEF Walks, MCMostHops, SwitchConfigs, Misroutes
<1>4. IF Misroutes(config) THEN hops <= 6 ELSE hops <= 5
  BY <1>1, <1>2 DEF Shorter
<1> QED
  BY <1>3, <1>4 DEF FewHops

-----------------------------------------------------------------------------
(* No packets wait for each other in a circle among the switches.          *)

\* The part of all ways that a channel belongs to: its port and its number
\* say which one.
PartOf(vc) ==
  IF vc[1][2] \in 0 .. SW!cores_per_sw - 1 THEN 1
  ELSE IF vc[2] = 0 THEN 2
  ELSE IF vc[2] = 2 THEN 5
  ELSE IF GlobalStart(vc[1]) THEN 4 ELSE 3

LEMMA LocalBufferPort ==
  ASSUME NEW g \in SW!Groups, NEW i \in SW!Members, NEW j \in SW!Members, i # j
  PROVE  LET buffer == SW!local_buffer(g, i, j)
         IN ~GlobalStart(buffer) /\ buffer[2] \notin 0 .. SW!cores_per_sw - 1
<1> DEFINE port == SW!local_link(j, i)
<1>1. /\ i < j => port \in SW!cores_per_sw .. SW!cores_per_sw + j - 1
      /\ j < i => port \in SW!cores_per_sw + j + SW!g_ports_per_sw .. sw_radix - 1
  BY SwitchLocalRange
<1>2. SW!IdInGroup(Member(g, j)) = j
  BY MemberFacts
<1>3. SW!local_buffer(g, i, j) = <<Member(g, j), port>>
  BY DEF SW!local_buffer, Member
<1>4. /\ i \in Nat /\ j \in Nat /\ SW!cores_per_sw \in Nat /\ SW!g_ports_per_sw \in Nat
      /\ sw_radix \in Nat
  BY SwitchSizes, DragonflyAssumption DEF SW!Members
<1> HIDE DEF port
<1>5. port \in Nat /\ port >= SW!cores_per_sw
  BY <1>1, <1>4
<1>6. port \notin SW!cores_per_sw + j .. SW!cores_per_sw + j + SW!g_ports_per_sw - 1
  BY <1>1, <1>4
<1> QED
  BY <1>2, <1>3, <1>4, <1>5, <1>6 DEF GlobalStart

LEMMA GlobalBufferPort ==
  ASSUME NEW g \in SW!Groups, NEW h \in SW!Groups, g # h
  PROVE  LET buffer == SW!global_buffer(g, h)
         IN GlobalStart(buffer) /\ buffer[2] \notin 0 .. SW!cores_per_sw - 1
<1>1. GlobalStart(SW!global_buffer(g, h))
  BY GatewayFacts DEF SW!global_buffer
<1>2. SW!cores_per_sw \in Nat
  BY SwitchSizes
<1> QED
  BY <1>1, <1>2 DEF GlobalStart

LEMMA PartOfStage ==
  ASSUME NEW c \in SwitchConfigs, NEW s \in SW!CoreNodes, NEW d \in SW!CoreNodes,
         NEW k \in 1 .. 5, NEW vc, InStage(c, s, d, k, vc)
  PROVE  PartOf(vc) = k
<1> DEFINE here == SW!Group(s)
           there == SW!Group(d)
<1>1. /\ here \in SW!Groups /\ there \in SW!Groups /\ SW!IdInGroup(d) \in SW!Members
      /\ s.node \in 0 .. SW!cores_per_sw - 1
  BY CoreFacts
<1>2. ASSUME k = 1 PROVE PartOf(vc) = 1
  BY <1>1, <1>2 DEF InStage, Channels, PartOf
<1>3. ASSUME k = 2 PROVE PartOf(vc) = 2
  <2>1. PICK h \in SW!Groups \ {here} : vc = <<SW!global_buffer(here, h), 0>>
    BY <1>3 DEF InStage
  <2> QED
    BY <1>1, <2>1, GlobalBufferPort DEF PartOf
<1>4. ASSUME k = 3 PROVE PartOf(vc) = 3
  <2>1. PICK g \in SW!Groups \ {there}, i \in SW!Members :
          i # Gateway(g, there) /\ vc = <<SW!local_buffer(g, i, Gateway(g, there)), 1>>
    BY <1>4 DEF InStage
  <2>2. Gateway(g, there) \in SW!Members
    BY <1>1, GatewayFacts
  <2> QED
    BY <2>1, <2>2, LocalBufferPort DEF PartOf
<1>5. ASSUME k = 4 PROVE PartOf(vc) = 4
  <2>1. PICK g \in SW!Groups \ {there} : vc = <<SW!global_buffer(g, there), 1>>
    BY <1>5 DEF InStage
  <2> QED
    BY <1>1, <2>1, GlobalBufferPort DEF PartOf
<1>6. ASSUME k = 5 PROVE PartOf(vc) = 5
  <2>1. PICK i \in SW!Members \ {SW!IdInGroup(d)} :
          vc = <<SW!local_buffer(there, i, SW!IdInGroup(d)), 2>>
    BY <1>6 DEF InStage
  <2> QED
    BY <1>1, <2>1, LocalBufferPort DEF PartOf
<1> QED
  BY <1>2, <1>3, <1>4, <1>5, <1>6

SwitchChannels == (SW!Switches \X Nat) \X Nat

LEMMA StageChannel ==
  ASSUME NEW c \in SwitchConfigs, NEW s \in SW!CoreNodes, NEW d \in SW!CoreNodes,
         NEW k \in 1 .. 5, NEW vc, InStage(c, s, d, k, vc)
  PROVE  vc \in SwitchChannels
<1> DEFINE here == SW!Group(s)
           there == SW!Group(d)
<1>1. /\ here \in SW!Groups /\ there \in SW!Groups /\ SW!IdInGroup(d) \in SW!Members
      /\ SW!IdInGroup(s) \in SW!Members /\ s.node \in Nat
      /\ SW!Switch(s.chip) = Member(here, SW!IdInGroup(s))
      /\ vc_number \in Nat
  BY CoreFacts, SwitchSizes, DragonflyAssumption
<1>2. ASSUME NEW g \in SW!Groups, NEW i \in SW!Members, NEW j \in SW!Members, i # j
      PROVE  SW!local_buffer(g, i, j) \in SW!Switches \X Nat
  <2>1. SW!local_buffer(g, i, j) = <<Member(g, j), SW!local_link(j, i)>>
    BY DEF SW!local_buffer, Member
  <2>2. /\ i < j => SW!local_link(j, i) \in SW!cores_per_sw .. SW!cores_per_sw + j - 1
        /\ j < i => SW!local_link(j, i) \in SW!cores_per_sw + j + SW!g_ports_per_sw .. sw_radix - 1
    BY <1>2, SwitchLocalRange
  <2>3. /\ i \in Nat /\ j \in Nat /\ SW!cores_per_sw \in Nat /\ SW!g_ports_per_sw \in Nat
        /\ sw_radix \in Nat
    BY SwitchSizes, DragonflyAssumption DEF SW!Members
  <2>4. SW!local_link(j, i) \in Nat
    BY <1>2, <2>2, <2>3
  <2>5. Member(g, j) \in SW!Switches
    BY MemberFacts
  <2> QED
    BY <2>1, <2>4, <2>5
<1>3. ASSUME NEW g \in SW!Groups, NEW h \in SW!Groups, g # h
      PROVE  SW!global_buffer(g, h) \in SW!Switches \X Nat
  <2>1. /\ Gateway(h, g) \in SW!Members /\ SW!global_link(h, g)[1] = Member(h, Gateway(h, g))
        /\ GlobalStart(SW!global_link(h, g))
    BY <1>3, GatewayFacts
  <2>2. Member(h, Gateway(h, g)) \in SW!Switches
    BY <2>1, MemberFacts
  <2>3. SW!global_link(h, g)[2] \in Nat
    BY <2>1 DEF GlobalStart
  <2>4. SW!global_link(h, g) = <<SW!global_link(h, g)[1], SW!global_link(h, g)[2]>>
    BY DEF SW!global_link
  <2> QED
    BY <2>1, <2>2, <2>3, <2>4 DEF SW!global_buffer
<1>4. ASSUME k = 1 PROVE vc \in SwitchChannels
  <2>1. PICK v \in 0 .. vc_number - 1 : vc = <<<<SW!Switch(s.chip), s.node>>, v>>
    BY <1>4 DEF InStage, Channels
  <2>2. SW!Switch(s.chip) \in SW!Switches
    BY <1>1, MemberFacts
  <2> QED
    BY <1>1, <2>1, <2>2 DEF SwitchChannels
<1>5. ASSUME k = 2 PROVE vc \in SwitchChannels
  <2>1. PICK h \in SW!Groups \ {here} : vc = <<SW!global_buffer(here, h), 0>>
    BY <1>5 DEF InStage
  <2> QED
    BY <1>1, <1>3, <2>1 DEF SwitchChannels
<1>6. ASSUME k = 3 PROVE vc \in SwitchChannels
  <2>1. PICK g \in SW!Groups \ {there}, i \in SW!Members :
          i # Gateway(g, there) /\ vc = <<SW!local_buffer(g, i, Gateway(g, there)), 1>>
    BY <1>6 DEF InStage
  <2>2. Gateway(g, there) \in SW!Members
    BY <1>1, GatewayFacts
  <2> QED
    BY <1>2, <2>1, <2>2 DEF SwitchChannels
<1>7. ASSUME k = 4 PROVE vc \in SwitchChannels
  <2>1. PICK g \in SW!Groups \ {there} : vc = <<SW!global_buffer(g, there), 1>>
    BY <1>7 DEF InStage
  <2> QED
    BY <1>1, <1>3, <2>1 DEF SwitchChannels
<1>8. ASSUME k = 5 PROVE vc \in SwitchChannels
  <2>1. PICK i \in SW!Members \ {SW!IdInGroup(d)} :
          vc = <<SW!local_buffer(there, i, SW!IdInGroup(d)), 2>>
    BY <1>8 DEF InStage
  <2> QED
    BY <1>1, <1>2, <2>1 DEF SwitchChannels
<1> QED
  BY <1>4, <1>5, <1>6, <1>7, <1>8

\* Channels that a packet goes on to, if a set is closed under going on.
LEMMA VisitedWithin ==
  ASSUME MaxRounds \in Nat, NEW a, NEW s, NEW d, NEW Places,
         Out(a, s, d, AtSource(s)) \subseteq Places,
         \A vc \in Places : Out(a, s, d, vc) \subseteq Places
  PROVE  Visited(a, s, d) \subseteq Places
<1> DEFINE T == SUBSET Places
           first == Out(a, s, d, AtSource(s))
           More(V) == V \cup UNION {Out(a, s, d, vc) : vc \in V}
           step == [V \in T |-> More(V)]
           Body(f) == [i \in Nat |-> IF i = 0 THEN first ELSE More(f[i - 1])]
           W == CHOOSE f : f = Body(f)
<1>1. first \in T
  OBVIOUS
<1>2. \A V \in T : More(V) \in T
  OBVIOUS
<1>3. step \in [T -> T]
  BY <1>2
<1> HIDE DEF T, first, More
<1>4. PICK f \in [Nat -> T] : Iterates(f, first, step)
  <2> HIDE DEF step
  <2> QED
    BY <1>1, <1>3, IterationExists
<1>5. f = Body(f)
  <2>1. \A i \in Nat : i # 0 => step[f[i - 1]] = More(f[i - 1])
    OBVIOUS
  <2> HIDE DEF step
  <2> QED
    BY <1>4, <2>1 DEF Iterates
<1>6. W = Body(W)
  <2> HIDE DEF Body
  <2> QED
    BY <1>5
<1>7. W[0] = first /\ \A i \in Nat : W[i + 1] = More(W[i])
  <2> HIDE DEF W
  <2>1. \A i \in Nat : i + 1 \in Nat /\ i + 1 # 0 /\ (i + 1) - 1 = i
    OBVIOUS
  <2>2. \A i \in Nat : W[i] = IF i = 0 THEN first ELSE More(W[i - 1])
    BY <1>6
  <2> QED
    BY <2>1, <2>2
<1>8. \A i \in Nat : W[i] \in T
  <2> HIDE DEF W
  <2> QED
    BY <1>1, <1>2, <1>7, StaysIn
<1>9. Visited(a, s, d) = W[MaxRounds]
  BY DEF Visited, first, More
<1> HIDE DEF W
<1> QED
  BY <1>8, <1>9 DEF T

\* Channels that some packet waits in front of.
Occupied(a) == {w[1] : w \in Waits(a)}

\* Channels in front of which packets from s to d may wait.
Waiting(c, s, d) ==
  {vc \in SwitchChannels : NodeOf(vc) # d /\ \E k \in 1 .. 5 : InStage(c, s, d, k, vc)}

LEMMA OutWaits ==
  ASSUME Walks, NEW c \in Configs, c \in SwitchConfigs, NEW s \in SW!CoreNodes, NEW d \in SW!CoreNodes,
         NEW k \in 0 .. 5, NEW vc, InStage(c, s, d, k, vc)
  PROVE  \A x \in Out(c, s, d, vc) : x \in Waiting(c, s, d)
<1>1. SUFFICES ASSUME NEW x \in Out(c, s, d, vc)
               PROVE  x \in Waiting(c, s, d)
  OBVIOUS
<1>2. Route(c, s, d, vc) = MCRoute(c, s, d, vc)
  BY DEF Walks, MCCores, IsSW, SwitchConfigs
<1>3. x \in Range(MCRoute(c, s, d, vc)) /\ NodeOf(x) # d
  BY <1>2 DEF Out
<1>4. PICK l \in k + 1 .. 6 : InStage(c, s, d, l, x)
  BY <1>3, StageNext
<1>5. l # 6
  BY <1>3, <1>4, ChannelNodes DEF InStage
<1>6. l \in 1 .. 5
  BY <1>5
<1>7. x \in SwitchChannels
  BY <1>4, <1>6, StageChannel
<1> QED
  BY <1>3, <1>4, <1>6, <1>7 DEF Waiting

LEMMA VisitedWaits ==
  ASSUME Walks, NEW c \in Configs, c \in SwitchConfigs, NEW s \in SW!CoreNodes, NEW d \in SW!CoreNodes
  PROVE  Visited(c, s, d) \subseteq Waiting(c, s, d)
<1>1. Out(c, s, d, AtSource(s)) \subseteq Waiting(c, s, d)
  <2>1. InStage(c, s, d, 0, AtSource(s))
    BY DEF InStage
  <2> QED
    BY <2>1, OutWaits
<1>2. \A vc \in Waiting(c, s, d) : Out(c, s, d, vc) \subseteq Waiting(c, s, d)
  <2>1. ASSUME NEW vc \in Waiting(c, s, d) PROVE Out(c, s, d, vc) \subseteq Waiting(c, s, d)
    <3>1. PICK k \in 1 .. 5 : InStage(c, s, d, k, vc)
      BY DEF Waiting
    <3>2. k \in 0 .. 5
      OBVIOUS
    <3> QED
      BY <3>1, <3>2, OutWaits
  <2> QED
    BY <2>1
<1>3. MaxRounds \in Nat
  BY DragonflyAssumption
<1> QED
  BY <1>1, <1>2, <1>3, VisitedWithin

LEMMA OccupiedChannel ==
  ASSUME Walks, NEW c \in Configs, c \in SwitchConfigs, NEW vc \in Occupied(c)
  PROVE  \E s \in SW!CoreNodes, d \in SW!CoreNodes : vc \in Waiting(c, s, d)
<1>1. Cores(c) = SW!CoreNodes
  BY DEF Walks, MCCores, IsSW, SwitchConfigs
<1>2. PICK w \in Waits(c) : vc = w[1]
  BY DEF Occupied
<1>3. PICK s \in SW!CoreNodes, d \in SW!CoreNodes :
        \E y \in Visited(c, s, d) : w = <<y, Range(Route(c, s, d, y))>>
  BY <1>1 DEF Waits
<1>4. vc \in Visited(c, s, d)
  BY <1>2, <1>3
<1>5. vc \in Waiting(c, s, d)
  BY <1>4, VisitedWaits
<1> QED
  BY <1>5

\* A packet that waits in front of a channel goes on to a channel of a later
\* part, or to its destination, where nobody waits.
LEMMA WaitsForLater ==
  ASSUME Walks, NEW c \in Configs, c \in SwitchConfigs, NEW w \in Waits(c)
  PROVE  \E x \in w[2] : x \in Occupied(c) => PartOf(x) > PartOf(w[1])
<1>1. Cores(c) = SW!CoreNodes
  BY DEF Walks, MCCores, IsSW, SwitchConfigs
<1>2. PICK s \in SW!CoreNodes, d \in SW!CoreNodes :
        \E y \in Visited(c, s, d) : w = <<y, Range(Route(c, s, d, y))>>
  BY <1>1 DEF Waits
<1> PICK vc \in Visited(c, s, d) : w = <<vc, Range(Route(c, s, d, vc))>>
  BY <1>2
<1>3. vc \in Waiting(c, s, d)
  BY VisitedWaits
<1>4. PICK k \in 1 .. 5 : InStage(c, s, d, k, vc)
  BY <1>3 DEF Waiting
<1>5. w[1] = vc /\ w[2] = Range(MCRoute(c, s, d, vc))
  BY DEF Walks, MCCores, IsSW, SwitchConfigs
<1>6. k \in 0 .. 5
  OBVIOUS
<1>7. /\ Range(MCRoute(c, s, d, vc)) # {}
      /\ \A x \in Range(MCRoute(c, s, d, vc)) : \E l \in k + 1 .. 6 : InStage(c, s, d, l, x)
  BY <1>4, <1>6, StageNext
<1>8. PICK x \in w[2] : \E l \in k + 1 .. 6 : InStage(c, s, d, l, x)
  BY <1>5, <1>7
<1>9. PICK l \in k + 1 .. 6 : InStage(c, s, d, l, x)
  BY <1>8
<1>10. PartOf(vc) = k
  BY <1>4, PartOfStage
<1>11. ASSUME l \in 1 .. 5 PROVE PartOf(x) > k
  <2>1. PartOf(x) = l
    BY <1>9, <1>11, PartOfStage
  <2> QED
    BY <1>9, <2>1
<1>12. ASSUME x \in Occupied(c) PROVE l # 6
  <2>1. SUFFICES ASSUME l = 6 PROVE FALSE
    OBVIOUS
  <2>2. NodeOf(x) = d
    BY <1>9, <2>1, ChannelNodes DEF InStage
  <2>3. NodeOf(x) \in SW!Switches
    BY <1>12, OccupiedChannel DEF Waiting, SwitchChannels, NodeOf
  <2> QED
    BY <2>2, <2>3, CoreFacts
<1>13. l = 6 \/ l \in 1 .. 5
  BY <1>9
<1> QED
  BY <1>5, <1>10, <1>11, <1>12, <1>13

LEMMA NoneBlocked ==
  ASSUME Walks, NEW c \in Configs, c \in SwitchConfigs
  PROVE  Blocked[c] = {}
<1> DEFINE rank == [vc \in Occupied(c) |-> 6 - PartOf(vc)]
<1>1. MaxRounds \in Nat /\ MaxRounds >= 2
  BY DragonflyAssumption
<1>2. ASSUME NEW vc \in Occupied(c) PROVE PartOf(vc) \in 1 .. 5
  <2>1. PICK s \in SW!CoreNodes, d \in SW!CoreNodes : vc \in Waiting(c, s, d)
    BY OccupiedChannel
  <2>2. PICK k \in 1 .. 5 : InStage(c, s, d, k, vc)
    BY <2>1 DEF Waiting
  <2>3. PartOf(vc) = k
    BY <2>2, PartOfStage
  <2> QED
    BY <2>3
<1>3. rank \in [Occupied(c) -> 0 .. 4 * MaxRounds - 1]
  <2> SUFFICES ASSUME NEW vc \in Occupied(c) PROVE 6 - PartOf(vc) \in 0 .. 4 * MaxRounds - 1
    OBVIOUS
  <2> QED
    BY <1>1, <1>2
<1>4. ASSUME NEW w \in Waits(c)
      PROVE  \E x \in w[2] : x \in Occupied(c) => rank[x] < rank[w[1]]
  <2>1. PICK x \in w[2] : x \in Occupied(c) => PartOf(x) > PartOf(w[1])
    BY WaitsForLater
  <2>2. w[1] \in Occupied(c)
    BY DEF Occupied
  <2>3. ASSUME x \in Occupied(c) PROVE rank[x] < rank[w[1]]
    <3>1. /\ rank[x] = 6 - PartOf(x) /\ rank[w[1]] = 6 - PartOf(w[1])
          /\ PartOf(x) \in 1 .. 5 /\ PartOf(w[1]) \in 1 .. 5 /\ PartOf(x) > PartOf(w[1])
      BY <1>2, <2>1, <2>2, <2>3
    <3> HIDE DEF rank
    <3> QED
      BY <3>1
  <2> QED
    BY <2>3
<1> HIDE DEF rank
<1>5. Blocked[c] = BlockedAfter(Waits(c), 4 * MaxRounds) /\ 4 * MaxRounds \in Nat
  BY <1>1 DEF Blocked, BlockedAfter
<1> QED
  BY <1>3, <1>4, <1>5, RanksUnblock DEF Occupied

-----------------------------------------------------------------------------
(* Ways inside a C-group.                                                  *)

Numbers == 0 .. k_node * k_node - 1

\* Links on the shortest way through the mesh from one node to another.
Gap(a, b) == IF a < b THEN b - a ELSE a - b
Across(m, id) == Gap(m % k_node, id % k_node) + Gap(m \div k_node, id \div k_node)

LEMMA PlaceNumber ==
  ASSUME NEW r \in 0 .. k_node - 1, NEW c \in 0 .. k_node - 1
  PROVE  /\ r * k_node + c \in Numbers
         /\ (r * k_node + c) \div k_node = r /\ (r * k_node + c) % k_node = c
<1>1. k_node \in Nat \ {0} /\ r \in Nat /\ c \in Nat
  BY DragonflyAssumption
<1>2. (r + 1) * k_node <= k_node * k_node
  BY <1>1
<1>3. (r + 1) * k_node = r * k_node + k_node /\ r * k_node \in Nat /\ k_node * k_node \in Nat
  BY <1>1
<1>4. r * k_node + c \in Numbers
  BY <1>1, <1>2, <1>3 DEF Numbers
<1> QED
  BY <1>1, <1>4, PlaceOfMember

LEMMA NumberPlace ==
  ASSUME NEW m \in Numbers
  PROVE  /\ m % k_node \in 0 .. k_node - 1 /\ m \div k_node \in 0 .. k_node - 1
         /\ m = (m \div k_node) * k_node + (m % k_node)
<1> DEFINE r == m \div k_node
<1>1. k_node \in Nat \ {0} /\ m \in Nat /\ m < k_node * k_node
  BY DragonflyAssumption DEF Numbers
<1>2. r \in Nat /\ m % k_node \in 0 .. k_node - 1 /\ m = r * k_node + (m % k_node)
  BY <1>1, Division
<1> HIDE DEF r
<1>3. r < k_node
  <2> SUFFICES ASSUME k_node <= r PROVE FALSE
    BY <1>1, <1>2
  <2>1. k_node * k_node <= r * k_node
    BY <1>1, <1>2
  <2> QED
    BY <1>1, <1>2, <2>1
<1>4. r \in 0 .. k_node - 1
  BY <1>1, <1>2, <1>3
<1> QED
  BY <1>2, <1>4 DEF r

\* The neighbours in a row and in a column.
LEMMA RowNeighbours ==
  ASSUME NEW m \in Numbers
  PROVE  /\ m % k_node > 0 =>
              /\ m - 1 \in Numbers
              /\ (m - 1) % k_node = (m % k_node) - 1 /\ (m - 1) \div k_node = m \div k_node
         /\ m % k_node < k_node - 1 =>
              /\ m + 1 \in Numbers
              /\ (m + 1) % k_node = (m % k_node) + 1 /\ (m + 1) \div k_node = m \div k_node
<1> DEFINE r == m \div k_node
           c == m % k_node
<1>1. /\ k_node \in Nat \ {0} /\ r \in 0 .. k_node - 1 /\ c \in 0 .. k_node - 1
      /\ m = r * k_node + c
  BY NumberPlace, DragonflyAssumption
<1> HIDE DEF r, c
<1>2. r * k_node \in Nat
  BY <1>1
<1>3. ASSUME c > 0
      PROVE  m - 1 \in Numbers /\ (m - 1) % k_node = c - 1 /\ (m - 1) \div k_node = r
  <2>1. PICK e \in 0 .. k_node - 1 : e = c - 1
    BY <1>1, <1>3
  <2> DEFINE a == r * k_node + e
  <2>2. m - 1 = a
    BY <1>1, <1>2, <2>1
  <2>3. a \in Numbers /\ a \div k_node = r /\ a % k_node = e
    BY <1>1, PlaceNumber
  <2> HIDE DEF a
  <2> QED
    BY <2>1, <2>2, <2>3, Zenon
<1>4. ASSUME c < k_node - 1
      PROVE  m + 1 \in Numbers /\ (m + 1) % k_node = c + 1 /\ (m + 1) \div k_node = r
  <2>1. PICK e \in 0 .. k_node - 1 : e = c + 1
    BY <1>1, <1>4
  <2> DEFINE a == r * k_node + e
  <2>2. m + 1 = a
    BY <1>1, <1>2, <2>1
  <2>3. a \in Numbers /\ a \div k_node = r /\ a % k_node = e
    BY <1>1, PlaceNumber
  <2> HIDE DEF a
  <2> QED
    BY <2>1, <2>2, <2>3, Zenon
<1> QED
  BY <1>3, <1>4 DEF r, c

LEMMA ColumnNeighbours ==
  ASSUME NEW m \in Numbers
  PROVE  /\ m \div k_node > 0 =>
              /\ m - k_node \in Numbers
              /\ (m - k_node) % k_node = m % k_node /\ (m - k_node) \div k_node = m \div k_node - 1
         /\ m \div k_node < k_node - 1 =>
              /\ m + k_node \in Numbers
              /\ (m + k_node) % k_node = m % k_node /\ (m + k_node) \div k_node = m \div k_node + 1
<1> DEFINE r == m \div k_node
           c == m % k_node
<1>1. /\ k_node \in Nat \ {0} /\ r \in 0 .. k_node - 1 /\ c \in 0 .. k_node - 1
      /\ m = r * k_node + c
  BY NumberPlace, DragonflyAssumption
<1> HIDE DEF r, c
<1>2. /\ r * k_node \in Nat /\ (r + 1) * k_node = r * k_node + k_node
      /\ (r - 1) * k_node = r * k_node - k_node
  BY <1>1
<1>3. ASSUME r > 0
      PROVE  m - k_node \in Numbers /\ (m - k_node) % k_node = c /\ (m - k_node) \div k_node = r - 1
  <2>1. r - 1 \in 0 .. k_node - 1 /\ m - k_node = (r - 1) * k_node + c
    BY <1>1, <1>2, <1>3
  <2> QED
    BY <1>1, <2>1, PlaceNumber, ZenonT(30)
<1>4. ASSUME r < k_node - 1
      PROVE  m + k_node \in Numbers /\ (m + k_node) % k_node = c /\ (m + k_node) \div k_node = r + 1
  <2>1. r + 1 \in 0 .. k_node - 1 /\ m + k_node = (r + 1) * k_node + c
    BY <1>1, <1>2, <1>4
  <2> QED
    BY <1>1, <2>1, PlaceNumber, ZenonT(30)
<1> QED
  BY <1>3, <1>4 DEF r, c

LEMMA AcrossRange ==
  ASSUME NEW m \in Numbers, NEW id \in Numbers
  PROVE  /\ Across(m, id) \in 0 .. 2 * (k_node - 1)
         /\ Across(m, m) = 0
<1>1. /\ m % k_node \in 0 .. k_node - 1 /\ m \div k_node \in 0 .. k_node - 1
      /\ id % k_node \in 0 .. k_node - 1 /\ id \div k_node \in 0 .. k_node - 1
  BY NumberPlace
<1>2. k_node \in Nat
  BY DragonflyAssumption
<1> QED
  BY <1>1, <1>2 DEF Across, Gap

\* XY_routing takes one link of the shortest way.
LEMMA XYCloser ==
  ASSUME NEW n \in CG!Nodes, NEW id \in Numbers, NEW v, NEW x \in Range(CG!XY_routing(n, id, v))
  PROVE  \E m \in Numbers : /\ NodeOf(x) = [node |-> m, chip |-> n.chip]
                            /\ Across(m, id) = Across(n.node, id) - 1
<1> DEFINE m == n.node
           To(port) == x = <<CG!MeshBuffer(n, port), v>>
<1>1. m \in Numbers /\ n = [node |-> m, chip |-> n.chip]
  BY DEF CG!Nodes, Numbers
<1>2. /\ CG!X(n) = m % k_node /\ CG!Y(n) = m \div k_node
      /\ CG!X(CG!NodeID(id, n.chip)) = id % k_node /\ CG!Y(CG!NodeID(id, n.chip)) = id \div k_node
  BY DEF CG!X, CG!Y, CG!NodeID
<1>3. /\ m % k_node \in 0 .. k_node - 1 /\ m \div k_node \in 0 .. k_node - 1
      /\ id % k_node \in 0 .. k_node - 1 /\ id \div k_node \in 0 .. k_node - 1
      /\ k_node \in Nat
  BY <1>1, NumberPlace, DragonflyAssumption
<1>4. \/ id % k_node < m % k_node /\ To("xneg")
      \/ id % k_node > m % k_node /\ To("xpos")
      \/ id % k_node = m % k_node /\ id \div k_node < m \div k_node /\ To("yneg")
      \/ id % k_node = m % k_node /\ id \div k_node > m \div k_node /\ To("ypos")
  <2>1. Range(<<>>) = {}
    BY DEF Range
  <2>2. \A b : Range(CG!VC(b, v)) = {<<b, v>>}
    BY OneVCRange
  <2> QED
    BY <1>2, <1>3, <2>1, <2>2 DEF CG!XY_routing
<1>5. /\ To("xneg") => NodeOf(x) = [node |-> m - 1, chip |-> n.chip]
      /\ To("xpos") => NodeOf(x) = [node |-> m + 1, chip |-> n.chip]
      /\ To("yneg") => NodeOf(x) = [node |-> m - k_node, chip |-> n.chip]
      /\ To("ypos") => NodeOf(x) = [node |-> m + k_node, chip |-> n.chip]
  BY <1>1 DEF NodeOf, CG!MeshBuffer
<1> HIDE DEF m, To
<1>6. ASSUME id % k_node < m % k_node
      PROVE  m - 1 \in Numbers /\ Across(m - 1, id) = Across(m, id) - 1
  <2>1. m % k_node > 0
    BY <1>3, <1>6
  <2>2. m - 1 \in Numbers /\ (m - 1) % k_node = (m % k_node) - 1 /\ (m - 1) \div k_node = m \div k_node
    BY <1>1, <2>1, RowNeighbours
  <2> QED
    BY <1>3, <1>6, <2>2 DEF Across, Gap
<1>7. ASSUME id % k_node > m % k_node
      PROVE  m + 1 \in Numbers /\ Across(m + 1, id) = Across(m, id) - 1
  <2>1. m % k_node < k_node - 1
    BY <1>3, <1>7
  <2>2. m + 1 \in Numbers /\ (m + 1) % k_node = (m % k_node) + 1 /\ (m + 1) \div k_node = m \div k_node
    BY <1>1, <2>1, RowNeighbours
  <2> QED
    BY <1>3, <1>7, <2>2 DEF Across, Gap
<1>8. ASSUME id \div k_node < m \div k_node
      PROVE  m - k_node \in Numbers /\ Across(m - k_node, id) = Across(m, id) - 1
  <2>1. m \div k_node > 0
    BY <1>3, <1>8
  <2>2. /\ m - k_node \in Numbers /\ (m - k_node) % k_node = m % k_node
        /\ (m - k_node) \div k_node = m \div k_node - 1
    BY <1>1, <2>1, ColumnNeighbours
  <2> QED
    BY <1>3, <1>8, <2>2 DEF Across, Gap
<1>9. ASSUME id \div k_node > m \div k_node
      PROVE  m + k_node \in Numbers /\ Across(m + k_node, id) = Across(m, id) - 1
  <2>1. m \div k_node < k_node - 1
    BY <1>3, <1>9
  <2>2. /\ m + k_node \in Numbers /\ (m + k_node) % k_node = m % k_node
        /\ (m + k_node) \div k_node = m \div k_node + 1
    BY <1>1, <2>1, ColumnNeighbours
  <2> QED
    BY <1>3, <1>9, <2>2 DEF Across, Gap
<1>10. n.node = m
  BY DEF m
<1> QED
  BY <1>4, <1>5, <1>6, <1>7, <1>8, <1>9, <1>10

-----------------------------------------------------------------------------
(* The ends of the links between C-groups.                                 *)

LEMMA CGroupPlace ==
  ASSUME NEW n \in CG!Nodes
  PROVE  /\ CG!WGroup(n) \in CG!WGroups /\ CG!IdInWGroup(n) \in CG!Members
         /\ n.chip = CG!WGroup(n) * CG!cgroup_per_wgroup + CG!IdInWGroup(n)
         /\ n.node \in Numbers /\ n.chip \in 0 .. CG!num_cgroup - 1
         /\ n = [node |-> n.node, chip |-> n.chip]
<1> DEFINE q == n.chip \div CG!cgroup_per_wgroup
<1>1. /\ n.node \in Numbers /\ n.chip \in 0 .. CG!num_cgroup - 1
      /\ n = [node |-> n.node, chip |-> n.chip]
  BY DEF CG!Nodes, Numbers
<1>2. /\ CG!cgroup_per_wgroup \in Nat \ {0} /\ CG!num_wgroup \in Nat /\ n.chip \in Nat
      /\ n.chip < CG!num_wgroup * CG!cgroup_per_wgroup
  BY <1>1, CGroupSizes DEF CG!num_cgroup
<1>3. q \in Nat /\ n.chip % CG!cgroup_per_wgroup \in 0 .. CG!cgroup_per_wgroup - 1
        /\ n.chip = q * CG!cgroup_per_wgroup + (n.chip % CG!cgroup_per_wgroup)
  BY <1>2, Division
<1> HIDE DEF q
<1>4. q < CG!num_wgroup
  <2> SUFFICES ASSUME CG!num_wgroup <= q PROVE FALSE
    BY <1>2, <1>3
  <2>1. CG!num_wgroup * CG!cgroup_per_wgroup <= q * CG!cgroup_per_wgroup
    BY <1>2, <1>3
  <2> QED
    BY <1>2, <1>3, <2>1
<1>5. q \in CG!WGroups
  BY <1>2, <1>3, <1>4 DEF CG!WGroups
<1> QED
  BY <1>1, <1>3, <1>5 DEF q, CG!WGroup, CG!IdInWGroup, CG!Members

LEMMA PortNodeNumber ==
  ASSUME NEW port \in 0 .. CG!cgroup_radix - 1
  PROVE  CG!port_node(port) \in Numbers
<1>1. /\ Row(port) \in Nat /\ Column(port) \in 0 .. k_node - 1
      /\ CG!port_node(port) = Row(port) * k_node + Column(port)
  BY NodeOfPort
<1>2. k_node \in Nat /\ k_node >= 2 /\ port \in 0 .. 4 * k_node - 5
  BY CGroupSizes, DragonflyAssumption
<1>3. Row(port) \in 0 .. k_node - 1
  BY <1>2 DEF Row
<1> QED
  BY <1>1, <1>3, PlaceNumber

\* A node of C-group number i of W-group g.
LEMMA NodeOfCGroup ==
  ASSUME NEW g \in CG!WGroups, NEW i \in CG!Members, NEW m \in Numbers,
         NEW n, n = CG!NodeID(m, g * CG!cgroup_per_wgroup + i)
  PROVE  /\ n \in CG!Nodes /\ CG!WGroup(n) = g /\ CG!IdInWGroup(n) = i
         /\ n.node = m /\ n.chip = g * CG!cgroup_per_wgroup + i
<1> DEFINE chip == g * CG!cgroup_per_wgroup + i
<1>1. /\ chip \in 0 .. CG!num_cgroup - 1 /\ chip \div CG!cgroup_per_wgroup = g
      /\ chip % CG!cgroup_per_wgroup = i
  BY CGroupNumber
<1>2. n = [node |-> m, chip |-> chip]
  BY DEF CG!NodeID
<1> HIDE DEF chip
<1>3. n \in CG!Nodes /\ CG!WGroup(n) = g /\ CG!IdInWGroup(n) = i /\ n.node = m /\ n.chip = chip
  BY <1>1, <1>2 DEF CG!Nodes, Numbers, CG!WGroup, CG!IdInWGroup
<1> QED
  BY <1>3 DEF chip

LEMMA LocalEnd ==
  ASSUME NEW g \in CG!WGroups, NEW i \in CG!Members, NEW j \in CG!Members, i # j
  PROVE  /\ CG!local_link(i, j) \in Numbers
         /\ CG!local_node(g, i, j) \in CG!Nodes
         /\ CG!WGroup(CG!local_node(g, i, j)) = g /\ CG!IdInWGroup(CG!local_node(g, i, j)) = i
         /\ CG!local_node(g, i, j).node = CG!local_link(i, j)
         /\ CG!local_node(g, i, j).chip = g * CG!cgroup_per_wgroup + i
<1> DEFINE port == CG!PortTowards(i, j, CG!cgroup_radix)
<1>1. port \in (0 .. i - 1) \cup (i + CG!g_ports_per_cg .. CG!cgroup_radix - 1)
  BY CGroupLocalRange
<1>2. i \in 0 .. CG!cgroup_radix - 1 /\ CG!g_ports_per_cg \in Nat /\ CG!cgroup_radix \in Nat
  BY CGroupSizes DEF CG!Members
<1> HIDE DEF port
<1>3. port \in 0 .. CG!cgroup_radix - 1
  BY <1>1, <1>2
<1>4. CG!local_link(i, j) \in Numbers
  BY <1>3, PortNodeNumber DEF CG!local_link, port
<1>5. CG!local_node(g, i, j) = CG!NodeID(CG!local_link(i, j), g * CG!cgroup_per_wgroup + i)
  BY DEF CG!local_node
<1> QED
  BY <1>4, <1>5, NodeOfCGroup

LEMMA GlobalEnd ==
  ASSUME NEW g \in CG!WGroups, NEW h \in CG!WGroups, g # h
  PROVE  CG!global_link(g, h) \in CG!Nodes /\ CG!WGroup(CG!global_link(g, h)) = g
<1> DEFINE id == CG!PortTowards(g, h, CG!g_ports_per_wg)
           i == id \div CG!g_ports_per_cg
           m == CG!port_node(i + (id % CG!g_ports_per_cg))
<1>1. id \in 0 .. CG!g_ports_per_wg - 1
  BY CGroupSizes DEF CG!WGroups, CG!PortTowards
<1> HIDE DEF id
<1>2. i \in CG!Members /\ id % CG!g_ports_per_cg \in 0 .. CG!g_ports_per_cg - 1
  BY <1>1, CGroupGlobalRange
<1> HIDE DEF i
<1>3. i + (id % CG!g_ports_per_cg) \in 0 .. CG!cgroup_radix - 1
  BY <1>2, CGroupSizes DEF CG!Members
<1>4. m \in Numbers
  BY <1>3, PortNodeNumber
<1> HIDE DEF m
<1>5. CG!global_link(g, h) = CG!NodeID(m, g * CG!cgroup_per_wgroup + i)
  BY DEF CG!global_link, m, i, id
<1> QED
  BY <1>2, <1>4, <1>5, NodeOfCGroup

\* Links that start at the same node end at the same node.
LEMMA SameEnd ==
  ASSUME NEW l \in CG!Links, NEW m \in CG!Links, l[1] = m[1]
  PROVE  l[2] = m[2]
BY ExternalPortsPairedOnce DEF CG!PairedOnce

LEMMA LinksOfAll ==
  /\ \A g \in CG!WGroups, i \in CG!Members, j \in CG!Members :
       i # j => <<CG!local_node(g, i, j), CG!local_node(g, j, i)>> \in CG!Links
  /\ \A g \in CG!WGroups, h \in CG!WGroups :
       g # h => <<CG!global_link(g, h), CG!global_link(h, g)>> \in CG!Links
<1>1. ASSUME NEW g \in CG!WGroups, NEW i \in CG!Members, NEW j \in CG!Members, i # j
      PROVE  <<CG!local_node(g, i, j), CG!local_node(g, j, i)>> \in CG!Links
  <2> DEFINE link == <<CG!local_node(g, i, j), CG!local_node(g, j, i)>>
             Of(a, b) == {<<CG!local_node(a, b, k), CG!local_node(a, k, b)>> : k \in CG!Members \ {b}}
  <2>1. link \in Of(g, i)
    BY <1>1
  <2>2. CG!local_links = UNION {Of(a, b) : a \in CG!WGroups, b \in CG!Members}
    BY DEF CG!local_links
  <2> HIDE DEF Of, link
  <2>3. Of(g, i) \in {Of(a, b) : a \in CG!WGroups, b \in CG!Members}
    OBVIOUS
  <2>4. link \in CG!Links
    BY <2>1, <2>2, <2>3 DEF CG!Links
  <2> QED
    BY <2>4 DEF link
<1>2. ASSUME NEW g \in CG!WGroups, NEW h \in CG!WGroups, g # h
      PROVE  <<CG!global_link(g, h), CG!global_link(h, g)>> \in CG!Links
  <2> DEFINE link == <<CG!global_link(g, h), CG!global_link(h, g)>>
             Of(a) == {<<CG!global_link(a, b), CG!global_link(b, a)>> : b \in CG!WGroups \ {a}}
  <2>1. link \in Of(g)
    BY <1>2
  <2>2. CG!global_links = UNION {Of(a) : a \in CG!WGroups}
    BY DEF CG!global_links
  <2> HIDE DEF Of, link
  <2>3. Of(g) \in {Of(a) : a \in CG!WGroups}
    OBVIOUS
  <2>4. link \in CG!Links
    BY <2>1, <2>2, <2>3 DEF CG!Links
  <2> QED
    BY <2>4 DEF link
<1> QED
  BY <1>1, <1>2

\* The external port of a node leads to the other end of its link.
LEMMA LinkedLocally ==
  ASSUME NEW g \in CG!WGroups, NEW i \in CG!Members, NEW j \in CG!Members, i # j
  PROVE  CG!linked(CG!local_node(g, i, j)) = CG!local_node(g, j, i)
<1> DEFINE n == CG!local_node(g, i, j)
           members == {k \in CG!Members \ {i} : CG!local_node(g, i, k) = n}
           wgroups == {h \in CG!WGroups \ {g} : CG!global_link(g, h) = n}
<1>1. CG!WGroup(n) = g /\ CG!IdInWGroup(n) = i
  BY LocalEnd
<1>2. wgroups = {}
  <2>1. SUFFICES ASSUME NEW h \in CG!WGroups \ {g}, CG!global_link(g, h) = n PROVE FALSE
    OBVIOUS
  <2>2. CG!global_link(h, g) = CG!local_node(g, j, i)
    BY <2>1, LinksOfAll, SameEnd
  <2>3. CG!WGroup(CG!global_link(h, g)) = h /\ CG!WGroup(CG!local_node(g, j, i)) = g
    BY GlobalEnd, LocalEnd
  <2> QED
    BY <2>2, <2>3
<1>3. members = {j}
  <2>1. ASSUME NEW k \in CG!Members \ {i}, CG!local_node(g, i, k) = n PROVE k = j
    <3> DEFINE l == <<CG!local_node(g, i, k), CG!local_node(g, k, i)>>
               m == <<n, CG!local_node(g, j, i)>>
    <3>1. l \in CG!Links /\ m \in CG!Links
      BY LinksOfAll
    <3>2. l[1] = m[1]
      BY <2>1
    <3>3. l[2] = m[2]
      <4> HIDE DEF l, m
      <4> QED
        BY <3>1, <3>2, SameEnd
    <3>4. CG!local_node(g, k, i) = CG!local_node(g, j, i)
      BY <3>3
    <3>5. CG!IdInWGroup(CG!local_node(g, k, i)) = k /\ CG!IdInWGroup(CG!local_node(g, j, i)) = j
      BY LocalEnd
    <3> QED
      BY <3>4, <3>5
  <2> QED
    BY <2>1
<1>4. CG!linked(n) = IF wgroups # {} THEN CG!global_link(CHOOSE h \in wgroups : TRUE, g)
                     ELSE CG!local_node(g, CHOOSE k \in members : TRUE, i)
  BY <1>1 DEF CG!linked
<1> HIDE DEF n, members, wgroups
<1>5. CG!linked(n) = CG!local_node(g, j, i)
  BY <1>2, <1>3, <1>4
<1> QED
  BY <1>5 DEF n

LEMMA LinkedGlobally ==
  ASSUME NEW g \in CG!WGroups, NEW h \in CG!WGroups, g # h
  PROVE  CG!linked(CG!global_link(g, h)) = CG!global_link(h, g)
<1> DEFINE n == CG!global_link(g, h)
           i == CG!IdInWGroup(n)
           members == {k \in CG!Members \ {i} : CG!local_node(g, i, k) = n}
           wgroups == {f \in CG!WGroups \ {g} : CG!global_link(g, f) = n}
<1>1. CG!WGroup(n) = g
  BY GlobalEnd
<1>2. wgroups = {h}
  <2>1. ASSUME NEW f \in CG!WGroups \ {g}, CG!global_link(g, f) = n PROVE f = h
    <3>1. CG!global_link(f, g) = CG!global_link(h, g)
      BY <2>1, LinksOfAll, SameEnd
    <3>2. CG!WGroup(CG!global_link(f, g)) = f /\ CG!WGroup(CG!global_link(h, g)) = h
      BY GlobalEnd
    <3> QED
      BY <3>1, <3>2
  <2> QED
    BY <2>1
<1>3. CG!linked(n) = IF wgroups # {} THEN CG!global_link(CHOOSE f \in wgroups : TRUE, g)
                     ELSE CG!local_node(g, CHOOSE k \in members : TRUE, i)
  BY <1>1 DEF CG!linked
<1> HIDE DEF n, i, members, wgroups
<1>4. CG!linked(n) = CG!global_link(h, g)
  BY <1>2, <1>3
<1> QED
  BY <1>4 DEF n

-----------------------------------------------------------------------------
(* The way from C-group to C-group.                                        *)

\* Links at most from one node of a C-group to another.
Most == 2 * (k_node - 1)

\* Links at most that a packet at n to d still has to take: to its destination
\* in this C-group, or to the node of the link out of it and on from there.
Left(n, d) ==
  LET g == CG!WGroup(n)
      h == CG!WGroup(d)
      port == CG!global_link(g, h)
      To(i) == Across(n.node, CG!local_link(CG!IdInWGroup(n), i))
  IN IF n.chip = d.chip THEN Across(n.node, d.node)
     ELSE IF g = h THEN To(CG!IdInWGroup(d)) + 1 + Most
     ELSE IF n.chip = port.chip THEN Across(n.node, port.node) + 2 + 2 * Most
     ELSE To(CG!IdInWGroup(port)) + 3 + 3 * Most

\* C-groups of a W-group are apart if their numbers are.
LEMMA SameCGroup ==
  ASSUME NEW m \in CG!Nodes, NEW n \in CG!Nodes, CG!WGroup(m) = CG!WGroup(n)
  PROVE  m.chip = n.chip <=> CG!IdInWGroup(m) = CG!IdInWGroup(n)
BY CGroupPlace DEF CG!IdInWGroup

LEMMA LeftRange ==
  ASSUME NEW n \in CG!Nodes, NEW d \in CG!Nodes
  PROVE  /\ Left(n, d) \in Nat /\ Left(n, d) <= 3 + 4 * Most
         /\ CG!WGroup(n) = CG!WGroup(d) => Left(n, d) <= 1 + 2 * Most
         /\ n.chip = d.chip => Left(n, d) <= Most
<1> DEFINE g == CG!WGroup(n)
           h == CG!WGroup(d)
           port == CG!global_link(g, h)
<1>1. /\ g \in CG!WGroups /\ h \in CG!WGroups /\ CG!IdInWGroup(n) \in CG!Members
      /\ CG!IdInWGroup(d) \in CG!Members /\ n.node \in Numbers /\ d.node \in Numbers
  BY CGroupPlace
<1>2. Most \in Nat
  BY DragonflyAssumption DEF Most
<1>3. \A a \in Numbers, b \in Numbers : Across(a, b) \in 0 .. Most
  BY AcrossRange DEF Most
<1>4. ASSUME n.chip = d.chip
      PROVE  g = h /\ Left(n, d) \in 0 .. Most
  BY <1>1, <1>3, <1>4 DEF Left, CG!WGroup
<1>5. ASSUME n.chip # d.chip, g = h
      PROVE  Left(n, d) \in 0 .. Most + 1 + Most
  <2> DEFINE a == Across(n.node, CG!local_link(CG!IdInWGroup(n), CG!IdInWGroup(d)))
  <2>1. CG!IdInWGroup(n) # CG!IdInWGroup(d)
    BY <1>5, SameCGroup
  <2>2. CG!local_link(CG!IdInWGroup(n), CG!IdInWGroup(d)) \in Numbers
    BY <1>1, <2>1, LocalEnd
  <2>3. a \in 0 .. Most
    BY <1>1, <1>3, <2>2
  <2>4. Left(n, d) = a + 1 + Most
    BY <1>5 DEF Left
  <2> HIDE DEF a
  <2> QED
    BY <1>2, <2>3, <2>4
<1>6. ASSUME g # h
      PROVE  n.chip # d.chip /\ Left(n, d) \in 0 .. 3 + 4 * Most
  <2>1. port \in CG!Nodes /\ CG!WGroup(port) = g
    BY <1>1, <1>6, GlobalEnd
  <2>2. port.node \in Numbers /\ CG!IdInWGroup(port) \in CG!Members
    BY <2>1, CGroupPlace
  <2>3. n.chip # d.chip
    BY <1>6 DEF CG!WGroup
  <2>4. ASSUME n.chip = port.chip
        PROVE  Left(n, d) \in 0 .. 3 + 4 * Most
    <3> DEFINE a == Across(n.node, port.node)
    <3>1. a \in 0 .. Most
      BY <1>1, <1>3, <2>2
    <3>2. Left(n, d) = a + 2 + 2 * Most
      BY <1>6, <2>3, <2>4 DEF Left
    <3> HIDE DEF a
    <3> QED
      BY <1>2, <3>1, <3>2
  <2>5. ASSUME n.chip # port.chip
        PROVE  Left(n, d) \in 0 .. 3 + 4 * Most
    <3> DEFINE a == Across(n.node, CG!local_link(CG!IdInWGroup(n), CG!IdInWGroup(port)))
    <3>1. CG!IdInWGroup(n) # CG!IdInWGroup(port)
      BY <2>1, <2>5, SameCGroup
    <3>2. CG!local_link(CG!IdInWGroup(n), CG!IdInWGroup(port)) \in Numbers
      BY <1>1, <2>2, <3>1, LocalEnd
    <3>3. a \in 0 .. Most
      BY <1>1, <1>3, <3>2
    <3>4. Left(n, d) = a + 3 + 3 * Most
      BY <1>6, <2>3, <2>5 DEF Left
    <3> HIDE DEF a
    <3> QED
      BY <1>2, <3>3, <3>4
  <2> QED
    BY <2>3, <2>4, <2>5
<1> HIDE DEF g, h
<1>7. Left(n, d) \in Nat
  BY <1>2, <1>4, <1>5, <1>6
<1>8. Left(n, d) <= 3 + 4 * Most
  BY <1>2, <1>4, <1>5, <1>6
<1>9. g = h => Left(n, d) <= 1 + 2 * Most
  BY <1>2, <1>4, <1>5
<1>10. n.chip = d.chip => Left(n, d) <= Most
  BY <1>2, <1>4
<1> QED
  BY <1>7, <1>8, <1>9, <1>10 DEF g, h

\* One link less, in the same W-group or in that of the destination.
Nearer(n, d, m) ==
  /\ m \in CG!Nodes /\ Left(m, d) + 1 <= Left(n, d)
  /\ CG!WGroup(m) = CG!WGroup(n) \/ CG!WGroup(m) = CG!WGroup(d)

\* Inside the C-group of the destination.
LEMMA NearerInside ==
  ASSUME NEW n \in CG!Nodes, NEW d \in CG!Nodes, n.chip = d.chip, NEW v,
         NEW x \in Range(CG!XY_routing(n, d.node, v))
  PROVE  Nearer(n, d, NodeOf(x))
<1>1. d.node \in Numbers /\ n.chip \in 0 .. CG!num_cgroup - 1 /\ n.node \in Numbers
  BY CGroupPlace
<1>2. PICK m \in Numbers : /\ NodeOf(x) = [node |-> m, chip |-> n.chip]
                           /\ Across(m, d.node) = Across(n.node, d.node) - 1
  BY <1>1, XYCloser
<1>3. Across(n.node, d.node) \in Nat
  BY <1>1, AcrossRange
<1>4. NodeOf(x) \in CG!Nodes /\ NodeOf(x).chip = n.chip /\ NodeOf(x).node = m
  BY <1>1, <1>2 DEF CG!Nodes, Numbers
<1>5. Left(NodeOf(x), d) = Across(m, d.node) /\ Left(n, d) = Across(n.node, d.node)
  BY <1>4 DEF Left
<1>6. CG!WGroup(NodeOf(x)) = CG!WGroup(n)
  BY <1>4 DEF CG!WGroup
<1> QED
  BY <1>2, <1>3, <1>4, <1>5, <1>6 DEF Nearer

\* A node of the same C-group has the same links out of it.
LEMMA LeftInCGroup ==
  ASSUME NEW n \in CG!Nodes, NEW d \in CG!Nodes, n.chip # d.chip, NEW m \in CG!Nodes, m.chip = n.chip
  PROVE  LET g == CG!WGroup(n)
             h == CG!WGroup(d)
             port == CG!global_link(g, h)
             i == CG!IdInWGroup(n)
         IN /\ CG!WGroup(m) = g
            /\ g = h => Left(m, d) = Across(m.node, CG!local_link(i, CG!IdInWGroup(d))) + 1 + Most
            /\ g # h /\ n.chip = port.chip => Left(m, d) = Across(m.node, port.node) + 2 + 2 * Most
            /\ g # h /\ n.chip # port.chip =>
                 Left(m, d) = Across(m.node, CG!local_link(i, CG!IdInWGroup(port))) + 3 + 3 * Most
<1>1. CG!WGroup(m) = CG!WGroup(n) /\ CG!IdInWGroup(m) = CG!IdInWGroup(n)
  BY DEF CG!WGroup, CG!IdInWGroup
<1> QED
  BY <1>1 DEF Left

\* Through the mesh: to a node of the same C-group, closer to the one asked for.
LEMMA InsideCGroup ==
  ASSUME NEW n \in CG!Nodes, NEW id \in Numbers, NEW v, NEW x \in Range(CG!XY_routing(n, id, v))
  PROVE  /\ NodeOf(x) \in CG!Nodes /\ NodeOf(x).chip = n.chip
         /\ Across(NodeOf(x).node, id) \in Int /\ Across(n.node, id) \in Int
         /\ Across(NodeOf(x).node, id) = Across(n.node, id) - 1
<1>1. n.chip \in 0 .. CG!num_cgroup - 1 /\ n.node \in Numbers
  BY CGroupPlace
<1>2. PICK m \in Numbers : /\ NodeOf(x) = [node |-> m, chip |-> n.chip]
                           /\ Across(m, id) = Across(n.node, id) - 1
  BY XYCloser
<1>3. Across(n.node, id) \in Nat /\ Across(m, id) \in Nat
  BY <1>1, AcrossRange
<1>4. NodeOf(x) \in CG!Nodes /\ NodeOf(x).chip = n.chip /\ NodeOf(x).node = m
  BY <1>1, <1>2 DEF CG!Nodes, Numbers
<1> QED
  BY <1>2, <1>3, <1>4

\* To the C-group of the destination in its W-group.
LEMMA NearerInWGroup ==
  ASSUME NEW n \in CG!Nodes, NEW d \in CG!Nodes, n.chip # d.chip, CG!WGroup(n) = CG!WGroup(d), NEW v,
         NEW x \in Range(CG!LeaveAt(n, CG!local_link(CG!IdInWGroup(n), CG!IdInWGroup(d)), v))
  PROVE  Nearer(n, d, NodeOf(x))
<1> DEFINE g == CG!WGroup(n)
           i == CG!IdInWGroup(n)
           j == CG!IdInWGroup(d)
           id == CG!local_link(i, j)
<1>1. g \in CG!WGroups /\ i \in CG!Members /\ j \in CG!Members /\ i # j
  BY CGroupPlace, SameCGroup
<1>2. id \in Numbers
  BY <1>1, LocalEnd
<1>3. Left(n, d) = Across(n.node, id) + 1 + Most
  BY LeftInCGroup
<1>4. Most \in Nat
  BY DragonflyAssumption DEF Most
<1>5. ASSUME n.node = id
      PROVE  Nearer(n, d, NodeOf(x))
  <2>1. CG!local_node(g, i, j) = n
    <3>1. n = [node |-> n.node, chip |-> n.chip] /\ n.chip = g * CG!cgroup_per_wgroup + i
      BY CGroupPlace
    <3> QED
      BY <1>5, <3>1 DEF CG!local_node, CG!NodeID
  <2>2. CG!linked(n) = CG!local_node(g, j, i)
    BY <1>1, <2>1, LinkedLocally
  <2>3. Range(CG!VC(CG!ExternalBuffer(n), v)) = {<<CG!ExternalBuffer(n), v>>}
    BY OneVCRange
  <2>4. x = <<<<CG!local_node(g, j, i), "external">>, v>>
    BY <1>5, <2>2, <2>3 DEF CG!LeaveAt, CG!ExternalBuffer
  <2>5. NodeOf(x) = CG!local_node(g, j, i)
    BY <2>4 DEF NodeOf
  <2>6. NodeOf(x) \in CG!Nodes /\ CG!WGroup(NodeOf(x)) = g /\ CG!IdInWGroup(NodeOf(x)) = j
    BY <1>1, <2>5, LocalEnd
  <2>7. NodeOf(x).chip = d.chip
    BY <2>6, SameCGroup
  <2>8. Left(NodeOf(x), d) \in Nat /\ Left(NodeOf(x), d) <= Most
    BY <2>6, <2>7, LeftRange
  <2>9. Across(n.node, id) = 0
    BY <1>2, <1>5, AcrossRange
  <2> QED
    BY <1>3, <1>4, <2>6, <2>8, <2>9 DEF Nearer
<1>6. ASSUME n.node # id
      PROVE  Nearer(n, d, NodeOf(x))
  <2>1. x \in Range(CG!XY_routing(n, id, v))
    BY <1>6 DEF CG!LeaveAt
  <2>2. /\ NodeOf(x) \in CG!Nodes /\ NodeOf(x).chip = n.chip
        /\ Across(NodeOf(x).node, id) \in Int /\ Across(n.node, id) \in Int
        /\ Across(NodeOf(x).node, id) = Across(n.node, id) - 1
    BY <1>2, <2>1, InsideCGroup
  <2>3. CG!WGroup(NodeOf(x)) = g /\ Left(NodeOf(x), d) = Across(NodeOf(x).node, id) + 1 + Most
    BY <2>2, LeftInCGroup
  <2> HIDE DEF id
  <2> QED
    BY <1>3, <1>4, <2>2, <2>3 DEF Nearer
<1> QED
  BY <1>5, <1>6

\* To the W-group of the destination: over the global link, or to its C-group.
LEMMA NearerOutside ==
  ASSUME NEW n \in CG!Nodes, NEW d \in CG!Nodes, CG!WGroup(n) # CG!WGroup(d),
         NEW x \in Range(CG!TowardsWGroup(n, CG!WGroup(d)))
  PROVE  Nearer(n, d, NodeOf(x))
<1> DEFINE g == CG!WGroup(n)
           h == CG!WGroup(d)
           port == CG!global_link(g, h)
           i == CG!IdInWGroup(n)
           j == CG!IdInWGroup(port)
           id == CG!local_link(i, j)
<1>1. /\ g \in CG!WGroups /\ h \in CG!WGroups /\ i \in CG!Members /\ n.node \in Numbers
      /\ n.chip # d.chip
  BY CGroupPlace DEF CG!WGroup
<1>2. port \in CG!Nodes /\ CG!WGroup(port) = g
  BY <1>1, GlobalEnd
<1>3. port.node \in Numbers /\ j \in CG!Members
  BY <1>2, CGroupPlace
<1>4. Most \in Nat
  BY DragonflyAssumption DEF Most
<1>5. n.chip = port.chip => Left(n, d) = Across(n.node, port.node) + 2 + 2 * Most
  BY <1>1, LeftInCGroup
<1>6. n.chip # port.chip => Left(n, d) = Across(n.node, id) + 3 + 3 * Most
  BY <1>1, LeftInCGroup
<1>7. n.chip # port.chip => i # j /\ id \in Numbers
  <2>1. n.chip # port.chip => i # j
    BY <1>2, SameCGroup
  <2> QED
    BY <1>1, <1>3, <2>1, LocalEnd
<1>8. CG!TowardsWGroup(n, h) =
        IF n.node = port.node THEN CG!VC(CG!ExternalBuffer(port), 1)
        ELSE IF n.chip = port.chip THEN CG!XY_routing(n, port.node, 1)
        ELSE CG!LeaveAt(n, id, 1)
  BY DEF CG!TowardsWGroup
\* Over the global link, from wherever it is.
<1>9. ASSUME n.node = port.node
      PROVE  Nearer(n, d, NodeOf(x))
  <2>1. CG!linked(port) = CG!global_link(h, g)
    BY <1>1, LinkedGlobally
  <2>2. Range(CG!VC(CG!ExternalBuffer(port), 1)) = {<<CG!ExternalBuffer(port), 1>>}
    BY OneVCRange
  <2>3. x = <<<<CG!global_link(h, g), "external">>, 1>>
    <3> HIDE DEF port
    <3> QED
      BY <1>8, <1>9, <2>1, <2>2 DEF CG!ExternalBuffer
  <2>4. NodeOf(x) = CG!global_link(h, g)
    BY <2>3 DEF NodeOf
  <2>5. NodeOf(x) \in CG!Nodes /\ CG!WGroup(NodeOf(x)) = h
    BY <1>1, <2>4, GlobalEnd
  <2>6. Left(NodeOf(x), d) \in Nat /\ Left(NodeOf(x), d) <= 1 + 2 * Most
    BY <2>5, LeftRange
  <2>7. Left(n, d) \in Nat /\ Left(n, d) >= 2 + 2 * Most
    <3>1. n.chip = port.chip => Across(n.node, port.node) \in Nat
      BY <1>1, <1>3, AcrossRange
    <3>2. n.chip # port.chip => Across(n.node, id) \in Nat
      BY <1>1, <1>7, AcrossRange
    <3> HIDE DEF port, id
    <3> QED
      BY <1>4, <1>5, <1>6, <3>1, <3>2
  <2> QED
    BY <1>4, <2>5, <2>6, <2>7 DEF Nearer
\* Inside the C-group that has the link.
<1>10. ASSUME n.node # port.node, n.chip = port.chip
       PROVE  Nearer(n, d, NodeOf(x))
  <2>1. x \in Range(CG!XY_routing(n, port.node, 1))
    BY <1>8, <1>10
  <2>2. /\ NodeOf(x) \in CG!Nodes /\ NodeOf(x).chip = n.chip
        /\ Across(NodeOf(x).node, port.node) \in Int /\ Across(n.node, port.node) \in Int
        /\ Across(NodeOf(x).node, port.node) = Across(n.node, port.node) - 1
    BY <1>3, <2>1, InsideCGroup
  <2>3. /\ CG!WGroup(NodeOf(x)) = g
        /\ Left(NodeOf(x), d) = Across(NodeOf(x).node, port.node) + 2 + 2 * Most
    BY <1>1, <1>10, <2>2, LeftInCGroup
  <2> HIDE DEF port
  <2> QED
    BY <1>4, <1>5, <1>10, <2>2, <2>3 DEF Nearer
\* To that C-group.
<1>11. ASSUME n.node # port.node, n.chip # port.chip, n.node = id
       PROVE  Nearer(n, d, NodeOf(x))
  <2>1. CG!local_node(g, i, j) = n
    <3>1. n = [node |-> n.node, chip |-> n.chip] /\ n.chip = g * CG!cgroup_per_wgroup + i
      BY CGroupPlace
    <3> QED
      BY <1>11, <3>1 DEF CG!local_node, CG!NodeID
  <2>2. CG!linked(n) = CG!local_node(g, j, i)
    BY <1>1, <1>3, <1>7, <1>11, <2>1, LinkedLocally
  <2>3. Range(CG!VC(CG!ExternalBuffer(n), 1)) = {<<CG!ExternalBuffer(n), 1>>}
    BY OneVCRange
  <2>4. x = <<<<CG!local_node(g, j, i), "external">>, 1>>
    BY <1>8, <1>11, <2>2, <2>3 DEF CG!LeaveAt, CG!ExternalBuffer
  <2>5. NodeOf(x) = CG!local_node(g, j, i)
    BY <2>4 DEF NodeOf
  <2>6. NodeOf(x) \in CG!Nodes /\ CG!WGroup(NodeOf(x)) = g /\ CG!IdInWGroup(NodeOf(x)) = j
    BY <1>1, <1>3, <1>7, <1>11, <2>5, LocalEnd
  <2>7. NodeOf(x).chip = port.chip /\ NodeOf(x).node \in Numbers
    BY <1>2, <2>6, SameCGroup, CGroupPlace
  <2>8. NodeOf(x).chip # d.chip
    BY <2>6 DEF CG!WGroup
  <2>9. Left(NodeOf(x), d) = Across(NodeOf(x).node, port.node) + 2 + 2 * Most
    BY <2>6, <2>7, <2>8, LeftInCGroup
  <2>10. Across(NodeOf(x).node, port.node) \in 0 .. Most
    BY <1>3, <2>7, AcrossRange DEF Most
  <2>11. Across(n.node, id) = 0
    BY <1>7, <1>11, AcrossRange
  <2> HIDE DEF port, id
  <2> QED
    BY <1>4, <1>6, <1>11, <2>6, <2>9, <2>10, <2>11 DEF Nearer
<1>12. ASSUME n.node # port.node, n.chip # port.chip, n.node # id
       PROVE  Nearer(n, d, NodeOf(x))
  <2>1. x \in Range(CG!XY_routing(n, id, 1))
    BY <1>8, <1>12 DEF CG!LeaveAt
  <2>2. /\ NodeOf(x) \in CG!Nodes /\ NodeOf(x).chip = n.chip
        /\ Across(NodeOf(x).node, id) \in Int /\ Across(n.node, id) \in Int
        /\ Across(NodeOf(x).node, id) = Across(n.node, id) - 1
    BY <1>7, <1>12, <2>1, InsideCGroup
  <2>3. CG!WGroup(NodeOf(x)) = g /\ Left(NodeOf(x), d) = Across(NodeOf(x).node, id) + 3 + 3 * Most
    BY <1>1, <1>12, <2>2, LeftInCGroup
  <2> HIDE DEF port, id
  <2> QED
    BY <1>4, <1>6, <1>12, <2>2, <2>3 DEF Nearer
<1> QED
  BY <1>9, <1>10, <1>11, <1>12

LEMMA NearerByRouting ==
  ASSUME NEW s \in CG!Nodes, NEW d \in CG!Nodes, NEW vc, NodeOf(vc) \in CG!Nodes,
         NEW x \in Range(MCRoute("chiplets", s, d, vc))
  PROVE  Nearer(NodeOf(vc), d, NodeOf(x))
<1> DEFINE n == NodeOf(vc)
<1>1. MCRoute("chiplets", s, d, vc) = CG!MIN_routing(FALSE, s, d, n)
  BY DEF MCRoute
<1> HIDE DEF n
<1>2. ASSUME n.chip = d.chip PROVE MCRoute("chiplets", s, d, vc) = CG!XY_routing(n, d.node, 2)
  BY <1>1, <1>2 DEF CG!MIN_routing, CG!WGroup
<1>3. ASSUME n.chip # d.chip, CG!WGroup(n) = CG!WGroup(d)
      PROVE  MCRoute("chiplets", s, d, vc)
               = CG!LeaveAt(n, CG!local_link(CG!IdInWGroup(n), CG!IdInWGroup(d)), 2)
  BY <1>1, <1>3 DEF CG!MIN_routing
<1>4. ASSUME CG!WGroup(n) # CG!WGroup(d)
      PROVE  MCRoute("chiplets", s, d, vc) = CG!TowardsWGroup(n, CG!WGroup(d))
  <2>1. n.chip # d.chip
    BY <1>4 DEF CG!WGroup
  <2> QED
    BY <1>1, <1>4, <2>1 DEF CG!MIN_routing
<1>5. n \in CG!Nodes
  BY DEF n
<1>6. Nearer(n, d, NodeOf(x))
  BY <1>2, <1>3, <1>4, <1>5, NearerInside, NearerInWGroup, NearerOutside
<1> QED
  BY <1>6 DEF n

ChipletWay ==
  /\ config = "chiplets" /\ config \in Configs
  /\ source \in CG!Nodes /\ destination \in CG!Nodes /\ at \in CG!Nodes
  /\ hops \in Nat /\ hops + Left(at, destination) <= 3 + 4 * Most

LEMMA ChipletWayInit ==
  ASSUME Walks, Init, config = "chiplets"
  PROVE  ChipletWay
<1>1. /\ config \in Configs /\ source \in CG!Nodes /\ destination \in CG!Nodes
      /\ hops = 0 /\ head = AtSource(source)
  BY DEF Init, Walks, MCCores, IsSW
<1>2. at = source
  BY <1>1 DEF at, AtSource, NodeOf
<1>3. Left(at, destination) \in Nat /\ Left(at, destination) <= 3 + 4 * Most
  BY <1>1, <1>2, LeftRange
<1> QED
  BY <1>1, <1>2, <1>3 DEF ChipletWay

LEMMA ChipletHop ==
  ASSUME Walks, ChipletWay, Hop
  PROVE  /\ ChipletWay'
         /\ CG!WGroup(at') = CG!WGroup(at) \/ CG!WGroup(at') = CG!WGroup(destination)
<1>1. /\ config = "chiplets" /\ config \in Configs /\ source \in CG!Nodes /\ destination \in CG!Nodes
      /\ at \in CG!Nodes /\ hops \in Nat /\ hops + Left(at, destination) <= 3 + 4 * Most
  BY DEF ChipletWay
<1>2. head' \in Range(MCRoute("chiplets", source, destination, head))
  BY <1>1 DEF Hop, Candidates, Walks, MCCores, IsSW
<1>3. Nearer(at, destination, at')
  BY <1>1, <1>2, NearerByRouting DEF at
<1>4. hops' = hops + 1 /\ config' = config /\ source' = source /\ destination' = destination
  BY DEF Hop
<1>5. /\ at' \in CG!Nodes /\ Left(at', destination) + 1 <= Left(at, destination)
      /\ CG!WGroup(at') = CG!WGroup(at) \/ CG!WGroup(at') = CG!WGroup(destination)
  BY <1>3 DEF Nearer
<1>6. Left(at', destination) \in Nat /\ Left(at, destination) \in Nat
  BY <1>1, <1>5, LeftRange
<1>7. Most \in Nat
  BY DragonflyAssumption DEF Most
<1>8. hops' \in Nat /\ hops' + Left(at', destination) <= 3 + 4 * Most
  BY <1>1, <1>4, <1>5, <1>6, <1>7
<1>9. Left(at', destination') = Left(at', destination)
  BY <1>4
<1> QED
  BY <1>1, <1>4, <1>5, <1>8, <1>9 DEF ChipletWay

LEMMA ChipletWayHops ==
  ASSUME Walks, ChipletWay
  PROVE  FewHops
<1>1. MostHops(config) = 3 + 4 * 2 * (k_node - 1)
  BY DEF ChipletWay, Walks, MCMostHops
<1>2. hops \in Nat /\ hops + Left(at, destination) <= 3 + 4 * Most
  BY DEF ChipletWay
<1>3. Left(at, destination) \in Nat
  BY LeftRange DEF ChipletWay
<1>4. Most \in Nat /\ 4 * Most = 4 * 2 * (k_node - 1)
  BY DragonflyAssumption DEF Most
<1> QED
  BY <1>1, <1>2, <1>3, <1>4 DEF FewHops

-----------------------------------------------------------------------------
(* The results.                                                            *)

Underway == SwitchWay \/ ChipletWay

LEMMA AlwaysUnderway ==
  ASSUME Walks
  PROVE  Spec => []Underway
<1>1. Init => Underway
  <2>1. SUFFICES ASSUME Init PROVE Underway
    OBVIOUS
  <2>2. IsSW(config) \/ config = "chiplets"
    BY <2>1, DragonflyAssumption DEF Init, IsSW
  <2> QED
    BY <2>1, <2>2, SwitchWayInit, ChipletWayInit DEF Underway
<1>2. Underway /\ [Next]_vars => Underway'
  <2>1. ASSUME Underway, Hop PROVE Underway'
    BY <2>1, SwitchHop, ChipletHop DEF Underway
  <2>2. ASSUME Underway, UNCHANGED vars PROVE Underway'
    BY <2>2 DEF Underway, SwitchWay, ChipletWay, vars, at
  <2> QED
    BY <2>1, <2>2 DEF Next, Arrived
<1> QED
  BY <1>1, <1>2, PTL DEF Spec

\* The wiring of both topologies, with switches of every radix and C-groups of
\* every size: connect_local, connect_global and set_chip never take a port that
\* is connected already, and every connection leads back.
THEOREM EveryPortConnectedOnce ==
  Spec => []PortsConnectedOnce
<1>1. config \in Configs => PortsConnectedOnce
  BY SwitchPortsPairedOnce, ExternalPortsPairedOnce DEF PortsConnectedOnce, Paired
<1>2. Init => config \in Configs
  BY DEF Init
<1>3. config \in Configs /\ [Next]_vars => (config \in Configs)'
  BY DEF Next, Hop, Arrived, vars
<1> QED
  BY <1>1, <1>2, <1>3, PTL DEF Spec

\* Wherever a packet comes from and goes to and whatever channels are free, its
\* way is never longer than MIN_routing needs: five links among switches, six
\* with mis-routing, and four ways through a C-group with the three links
\* between them.
THEOREM WaysAreShort ==
  ASSUME Walks
  PROVE  Spec => []FewHops
<1>1. Underway => FewHops
  BY SwitchWayHops, ChipletWayHops DEF Underway
<1> QED
  BY <1>1, AlwaysUnderway, PTL

\* A packet enters no group but that of its destination, and with mis-routing
\* one more, straight from the group of its source.
THEOREM WaysCrossFewGlobalLinks ==
  ASSUME Walks
  PROVE  Spec => FewGlobalHops
<1> DEFINE Few ==
      Group(config, at') # Group(config, at) =>
        \/ Group(config, at') = Group(config, destination)
        \/ config = "switches_misrouting" /\ Group(config, at) = Group(config, source)
<1>1. Underway /\ [Next]_vars => [Few]_vars
  <2>1. ASSUME SwitchWay, Hop PROVE Few
    <3>1. Along(config, source, destination, at, at')
      BY <2>1, SwitchHop
    <3>2. IsSW(config)
      BY <2>1 DEF SwitchWay, SwitchConfigs, IsSW
    <3> QED
      BY <3>1, <3>2 DEF Along, Misroutes, Group
  <2>2. ASSUME ChipletWay, Hop PROVE Few
    <3>1. CG!WGroup(at') = CG!WGroup(at) \/ CG!WGroup(at') = CG!WGroup(destination)
      BY <2>2, ChipletHop
    <3>2. ~IsSW(config)
      BY <2>2 DEF ChipletWay, IsSW
    <3> QED
      BY <3>1, <3>2 DEF Group
  <2> HIDE DEF Few
  <2> QED
    BY <2>1, <2>2 DEF Underway, Next, Arrived
<1>2. Spec => [][Few]_vars
  <2> HIDE DEF Few
  <2> QED
    BY <1>1, AlwaysUnderway, PTL DEF Spec
<1> QED
  BY <1>2 DEF FewGlobalHops

\* MIN_routing on DragonflySW, with mis-routing and without, never lets packets
\* wait for each other in a circle, whatever the radix of the switches: a way
\* crosses the three virtual channels in one order.  Nothing like that holds of
\* the C-groups of DragonflyChiplet.
THEOREM NoDeadlockAmongSwitches ==
  ASSUME Walks
  PROVE  Spec => [](IsSW(config) => DeadlockFree)
<1>1. Underway => (IsSW(config) => DeadlockFree)
  BY NoneBlocked DEF Underway, SwitchWay, ChipletWay, IsSW, DeadlockFree
<1> QED
  BY <1>1, AlwaysUnderway, PTL

-----------------------------------------------------------------------------
(* The pipeline among the switches.                                        *)

CONSTANTS Topology, Packets, Src, Dst, NoBuffer

\* A node has an input buffer at each of its connected ports; the link of the
\* buffer comes from the node at the other end.
SwitchNodes == SW!CoreNodes \cup SW!Switches
SwitchBuffers == {link[1] : link \in SW!Links}
Upstream(b) == (CHOOSE link \in SW!Links : link[1] = b)[2][1]

\* What the head of packet p is offered in place c.
FabricRoute(p, c) ==
  MCRoute(Topology, Src[p], Dst[p], IF c = <<NoBuffer, 0>> THEN AtSource(Src[p]) ELSE c)

Fabric == INSTANCE Fabric WITH
  Buffers <- SwitchBuffers, VCs <- 0 .. vc_number - 1, Route <- FabricRoute,
  DownNode <- [b \in SwitchBuffers |-> b[1]],
  UpNode <- [b \in SwitchBuffers |-> Upstream(b)]

\* Packets between different cores, and as many virtual channels as the routing
\* numbers.
AmongSwitches ==
  /\ Topology \in SwitchConfigs
  /\ \A p \in Packets : Src[p] \in SW!CoreNodes /\ Dst[p] \in SW!CoreNodes /\ Src[p] # Dst[p]
  /\ NoBuffer \notin SwitchBuffers
  /\ vc_number >= 3

\* Links still ahead at most: from a core; from the group of the source with
\* mis-routing; from another group, and from its gateway; from the group of the
\* destination; from its switch; there.
SwitchRank(c, s, d, n) ==
  IF SW!Core(n) THEN IF n = d THEN 0 ELSE 6
  ELSE IF SW!Group(n) = SW!Group(d) THEN IF n.chip = d.chip THEN 1 ELSE 2
  ELSE IF Misroutes(c) /\ SW!Group(n) = SW!Group(s) THEN 5
  ELSE IF SW!IdInGroup(n) = Gateway(SW!Group(n), SW!Group(d)) THEN 3 ELSE 4

LEMMA UpstreamOf ==
  ASSUME NEW link \in SW!Links
  PROVE  link[1] \in SwitchBuffers /\ Upstream(link[1]) = link[2][1]
<1>1. \A other \in SW!Links : other[1] = link[1] => other = link
  BY SwitchPortsPairedOnce DEF SW!PairedOnce
<1>2. (CHOOSE other \in SW!Links : other[1] = link[1]) = link
  BY <1>1
<1> QED
  BY <1>2, Zenon DEF Upstream, SwitchBuffers

\* The links at a core, inside a group and between groups.
LEMMA LinksKnown ==
  /\ \A n \in SW!CoreNodes :
       /\ <<<<n, 0>>, <<SW!Switch(n.chip), n.node>>>> \in SW!Links
       /\ <<<<SW!Switch(n.chip), n.node>>, <<n, 0>>>> \in SW!Links
  /\ \A g \in SW!Groups, i \in SW!Members, j \in SW!Members :
       i # j => <<SW!local_buffer(g, i, j), SW!local_buffer(g, j, i)>> \in SW!Links
  /\ \A g \in SW!Groups, h \in SW!Groups :
       g # h => <<SW!global_buffer(g, h), SW!global_buffer(h, g)>> \in SW!Links
<1>1. ASSUME NEW n \in SW!CoreNodes
      PROVE  /\ <<<<n, 0>>, <<SW!Switch(n.chip), n.node>>>> \in SW!core_links
             /\ <<<<SW!Switch(n.chip), n.node>>, <<n, 0>>>> \in SW!core_links
  <2> DEFINE Up(i, id) == <<<<SW!NodeID(i, id), 0>>, <<SW!Switch(id), i>>>>
             up == {Up(i, id) : i \in 0 .. SW!cores_per_sw - 1, id \in 0 .. SW!num_switch - 1}
  <2>1. SW!core_links = up \cup {<<l[2], l[1]>> : l \in up}
    BY DEF SW!core_links
  <2>2. n.node \in 0 .. SW!cores_per_sw - 1 /\ n.chip \in 0 .. SW!num_switch - 1
        /\ n = SW!NodeID(n.node, n.chip)
    BY CoreFacts DEF SW!NodeID
  <2>3. Up(n.node, n.chip) \in up
    BY <2>2
  <2>4. Up(n.node, n.chip) = <<<<n, 0>>, <<SW!Switch(n.chip), n.node>>>>
    BY <2>2
  <2> HIDE DEF up, Up
  <2> QED
    BY <2>1, <2>3, <2>4
<1>2. ASSUME NEW g \in SW!Groups, NEW i \in SW!Members, NEW j \in SW!Members, i # j
      PROVE  <<SW!local_buffer(g, i, j), SW!local_buffer(g, j, i)>> \in SW!local_links
  <2> DEFINE Of(a, b) == {<<SW!local_buffer(a, m, b), SW!local_buffer(a, b, m)>> : m \in SW!Members \ {b}}
  <2>1. SW!local_links = UNION {Of(a, b) : a \in SW!Groups, b \in SW!Members}
    BY DEF SW!local_links
  <2>2. <<SW!local_buffer(g, i, j), SW!local_buffer(g, j, i)>> \in Of(g, j)
    BY <1>2
  <2> HIDE DEF Of
  <2>3. Of(g, j) \in {Of(a, b) : a \in SW!Groups, b \in SW!Members}
    OBVIOUS
  <2> QED
    BY <2>1, <2>2, <2>3
<1>3. ASSUME NEW g \in SW!Groups, NEW h \in SW!Groups, g # h
      PROVE  <<SW!global_buffer(g, h), SW!global_buffer(h, g)>> \in SW!global_links
  BY <1>3 DEF SW!global_links, SW!global_buffer
<1> QED
  BY <1>1, <1>2, <1>3 DEF SW!Links

\* Candidate x of node n: a channel at the end of a link of the node, from where
\* fewer links are ahead.
Led(c, s, d, n, x) ==
  /\ x \in SwitchBuffers \X (0 .. vc_number - 1)
  /\ Upstream(x[1]) = n
  /\ x[1][1] \in SwitchNodes
  /\ SwitchRank(c, s, d, x[1][1]) < SwitchRank(c, s, d, n)

LEMMA LedByLink ==
  ASSUME NEW c, NEW s, NEW d, NEW n, NEW x, NEW link \in SW!Links, NEW v \in 0 .. vc_number - 1,
         x = <<link[1], v>>, link[2][1] = n, link[1][1] \in SwitchNodes,
         SwitchRank(c, s, d, link[1][1]) < SwitchRank(c, s, d, n)
  PROVE  Led(c, s, d, n, x)
BY UpstreamOf DEF Led

\* The rank of switch number i of group g.
LEMMA RankOfMember ==
  ASSUME NEW c, NEW s, NEW d \in SW!CoreNodes, NEW g \in SW!Groups, NEW i \in SW!Members
  PROVE  SwitchRank(c, s, d, Member(g, i))
           = IF g = SW!Group(d) THEN IF i = SW!IdInGroup(d) THEN 1 ELSE 2
             ELSE IF Misroutes(c) /\ g = SW!Group(s) THEN 5
             ELSE IF i = Gateway(g, SW!Group(d)) THEN 3 ELSE 4
<1> DEFINE n == Member(g, i)
<1>1. /\ SW!Group(n) = g /\ SW!IdInGroup(n) = i /\ ~SW!Core(n)
      /\ n.chip = d.chip <=> (g = SW!Group(d) /\ i = SW!IdInGroup(d))
  BY AtSwitch
<1> HIDE DEF n
<1>2. SwitchRank(c, s, d, n)
        = IF g = SW!Group(d) THEN IF i = SW!IdInGroup(d) THEN 1 ELSE 2
          ELSE IF Misroutes(c) /\ g = SW!Group(s) THEN 5
          ELSE IF i = Gateway(g, SW!Group(d)) THEN 3 ELSE 4
  BY <1>1 DEF SwitchRank
<1> QED
  BY <1>2 DEF n

LEMMA RankOfCore ==
  ASSUME NEW c, NEW s, NEW d, NEW n \in SW!CoreNodes
  PROVE  SwitchRank(c, s, d, n) = IF n = d THEN 0 ELSE 6
BY CoreFacts DEF SwitchRank

\* Each switch is one of a group.
LEMMA SwitchIsMember ==
  ASSUME NEW n \in SW!Switches
  PROVE  \E g \in SW!Groups, i \in SW!Members : n = Member(g, i)
<1>1. PICK id \in 0 .. SW!num_switch - 1 : n = SW!Switch(id)
  BY DEF SW!Switches
<1>2. /\ id \div SW!sw_per_group \in SW!Groups /\ id % SW!sw_per_group \in SW!Members
      /\ id = (id \div SW!sw_per_group) * SW!sw_per_group + (id % SW!sw_per_group)
  BY SwitchPlace
<1>3. n = Member(id \div SW!sw_per_group, id % SW!sw_per_group)
  BY <1>1, <1>2, Zenon DEF Member
<1> QED
  BY <1>2, <1>3

\* The candidates are a sequence.
LEMMA SwitchRouteListed ==
  ASSUME NEW c \in SwitchConfigs, NEW s, NEW d, NEW vc
  PROVE  MCRoute(c, s, d, vc) \in Seq(Range(MCRoute(c, s, d, vc)))
<1> DEFINE Listed(r) == r \in Seq(Range(r))
           n == NodeOf(vc)
<1>1. vc_number \in Nat
  BY DragonflyAssumption
<1>2. ASSUME NEW b PROVE Listed(SW!AnyVC(b))
  <2> DEFINE f == SW!AnyVC(b)
  <2>1. DOMAIN f = 1 .. vc_number /\ f = [i \in 1 .. vc_number |-> f[i]]
    BY DEF SW!AnyVC
  <2> HIDE DEF f
  <2>2. \A i \in 1 .. vc_number : f[i] \in Range(f)
    BY <2>1 DEF Range
  <2> QED
    BY <1>1, <2>1, <2>2 DEF f
<1>3. ASSUME NEW b, NEW v PROVE Listed(SW!VC(b, v))
  BY OneVCRange DEF SW!VC
<1> HIDE DEF Listed
<1>4. ASSUME NEW h PROVE Listed(SW!TowardsGroup(n, h))
  BY <1>3, Zenon DEF SW!TowardsGroup
<1>5. Listed(SW!Misroute(n, s))
  BY <1>3, Zenon DEF SW!Misroute
<1> HIDE DEF n
<1>6. ASSUME NEW m \in BOOLEAN PROVE Listed(SW!MIN_routing(m, s, d, n))
  <2>1. CASE SW!Core(n)
    BY <1>2, <2>1 DEF SW!MIN_routing
  <2>2. CASE ~SW!Core(n) /\ n.chip = d.chip
    BY <1>2, <2>2 DEF SW!MIN_routing, SW!Group
  <2>3. CASE ~SW!Core(n) /\ n.chip # d.chip /\ SW!Group(n) = SW!Group(d)
    BY <1>3, <2>3 DEF SW!MIN_routing
  <2>4. CASE ~SW!Core(n) /\ n.chip # d.chip /\ SW!Group(n) # SW!Group(d)
    BY <1>4, <1>5, <2>4 DEF SW!MIN_routing
  <2> QED
    BY <2>1, <2>2, <2>3, <2>4
<1>7. Listed(MCRoute(c, s, d, vc))
  BY <1>6 DEF MCRoute, SwitchConfigs, n
<1> QED
  BY <1>7 DEF Listed

\* From a core other than the destination to its switch.
LEMMA LedFromCore ==
  ASSUME NEW c \in SwitchConfigs, NEW s \in SW!CoreNodes, NEW d \in SW!CoreNodes,
         NEW n \in SW!CoreNodes, n # d, NEW vc, NodeOf(vc) = n
  PROVE  LET R == Range(MCRoute(c, s, d, vc))
         IN R # {} /\ \A x \in R : Led(c, s, d, n, x)
<1> DEFINE b == <<SW!Switch(n.chip), n.node>>
           link == <<b, <<n, 0>>>>
<1>1. Range(MCRoute(c, s, d, vc)) = Channels(b) /\ Channels(b) # {}
  BY FromCore, AnyVCRange
<1>2. /\ SW!Group(n) \in SW!Groups /\ SW!IdInGroup(n) \in SW!Members
      /\ SW!Switch(n.chip) = Member(SW!Group(n), SW!IdInGroup(n))
  BY CoreFacts
<1>3. SW!Switch(n.chip) \in SwitchNodes
  BY <1>2, MemberFacts DEF SwitchNodes
<1>4. SwitchRank(c, s, d, SW!Switch(n.chip)) < 6 /\ SwitchRank(c, s, d, n) = 6
  <2>1. SwitchRank(c, s, d, Member(SW!Group(n), SW!IdInGroup(n))) \in 1 .. 5
    BY <1>2, RankOfMember
  <2>2. SwitchRank(c, s, d, n) = 6
    BY RankOfCore
  <2> QED
    BY <1>2, <2>1, <2>2
<1>5. link \in SW!Links
  BY LinksKnown
<1>6. ASSUME NEW x \in Channels(b) PROVE Led(c, s, d, n, x)
  <2>1. PICK v \in 0 .. vc_number - 1 : x = <<b, v>>
    BY DEF Channels
  <2>2. link[1] = b /\ link[2][1] = n /\ link[1][1] = SW!Switch(n.chip)
    OBVIOUS
  <2> HIDE DEF link, b
  <2> QED
    BY <1>3, <1>4, <1>5, <2>1, <2>2, LedByLink
<1> QED
  BY <1>1, <1>6

\* From a switch: to the core, to its switch, out of the group of the source, to
\* the group of the destination or to the gateway there.
LEMMA LedFromSwitch ==
  ASSUME NEW c \in SwitchConfigs, NEW s \in SW!CoreNodes, NEW d \in SW!CoreNodes,
         vc_number >= 3, NEW g \in SW!Groups, NEW i \in SW!Members,
         NEW vc, NodeOf(vc) = Member(g, i)
  PROVE  LET R == Range(MCRoute(c, s, d, vc))
         IN R # {} /\ \A x \in R : Led(c, s, d, Member(g, i), x)
<1> DEFINE n == Member(g, i)
           there == SW!Group(d)
           last == SW!IdInGroup(d)
           gateway == Gateway(g, there)
           R == Range(MCRoute(c, s, d, vc))
           Goal == R # {} /\ \A x \in R : Led(c, s, d, n, x)
<1>1. /\ there \in SW!Groups /\ last \in SW!Members
      /\ SW!Switch(d.chip) = Member(there, last) /\ d \in SwitchNodes
  BY CoreFacts DEF SwitchNodes
<1>2. \A h \in SW!Groups, j \in SW!Members : Member(h, j) \in SwitchNodes
  BY MemberFacts DEF SwitchNodes
<1>3. 0 \in 0 .. vc_number - 1 /\ 1 \in 0 .. vc_number - 1 /\ 2 \in 0 .. vc_number - 1
  BY DragonflyAssumption
<1>4. ASSUME NEW j \in SW!Members, i # j, NEW v \in 0 .. vc_number - 1,
             SwitchRank(c, s, d, Member(g, j)) < SwitchRank(c, s, d, n),
             R = {<<SW!local_buffer(g, i, j), v>>}
      PROVE  Goal
  <2> DEFINE link == <<SW!local_buffer(g, i, j), SW!local_buffer(g, j, i)>>
  <2>1. link \in SW!Links
    BY <1>4, LinksKnown
  <2>2. link[1] = SW!local_buffer(g, i, j) /\ link[2][1] = n /\ link[1][1] = Member(g, j)
    BY DEF SW!local_buffer, Member
  <2> HIDE DEF link, n
  <2>3. Led(c, s, d, n, <<link[1], v>>)
    BY <1>2, <1>4, <2>1, <2>2, LedByLink
  <2> HIDE DEF R
  <2> QED
    BY <1>4, <2>2, <2>3
<1>5. ASSUME NEW h \in SW!Groups, g # h, NEW v \in 0 .. vc_number - 1,
             SW!global_link(g, h)[1] = n,
             SwitchRank(c, s, d, Member(h, Gateway(h, g))) < SwitchRank(c, s, d, n),
             R = {<<SW!global_buffer(g, h), v>>}
      PROVE  Goal
  <2> DEFINE link == <<SW!global_buffer(g, h), SW!global_buffer(h, g)>>
  <2>1. link \in SW!Links
    BY <1>5, LinksKnown
  <2>2. Gateway(h, g) \in SW!Members /\ SW!global_link(h, g)[1] = Member(h, Gateway(h, g))
    BY <1>5, GatewayFacts
  <2>3. link[1] = SW!global_buffer(g, h) /\ link[2][1] = n /\ link[1][1] = Member(h, Gateway(h, g))
    BY <1>5, <2>2 DEF SW!global_buffer
  <2> HIDE DEF link, n
  <2>4. Led(c, s, d, n, <<link[1], v>>)
    BY <1>2, <1>5, <2>1, <2>2, <2>3, LedByLink
  <2> HIDE DEF R
  <2> QED
    BY <1>5, <2>3, <2>4
<1>6. ASSUME NEW h \in SW!Groups, h = there, NEW j \in SW!Members
       PROVE  SwitchRank(c, s, d, Member(h, j)) = IF j = last THEN 1 ELSE 2
  <2>1. SwitchRank(c, s, d, Member(h, j))
          = IF h = SW!Group(d) THEN IF j = SW!IdInGroup(d) THEN 1 ELSE 2
            ELSE IF Misroutes(c) /\ h = SW!Group(s) THEN 5
            ELSE IF j = Gateway(h, SW!Group(d)) THEN 3 ELSE 4
    BY RankOfMember
  <2> QED
    BY <1>6, <2>1
<1>7. CASE g = there /\ i = last
  <2> DEFINE link == <<<<d, 0>>, <<SW!Switch(d.chip), d.node>>>>
  <2>1. R = Channels(<<d, 0>>) /\ Channels(<<d, 0>>) # {}
    BY <1>7, FromLastSwitch, AnyVCRange
  <2>2. SwitchRank(c, s, d, n) = 1 /\ SwitchRank(c, s, d, d) = 0
    BY <1>7, RankOfMember, RankOfCore
  <2>3. link \in SW!Links
    BY LinksKnown
  <2>4. link[1] = <<d, 0>> /\ link[2][1] = n /\ link[1][1] = d
    BY <1>1, <1>7
  <2> HIDE DEF link, n
  <2>5. ASSUME NEW x \in Channels(<<d, 0>>) PROVE Led(c, s, d, n, x)
    <3>1. PICK v \in 0 .. vc_number - 1 : x = <<<<d, 0>>, v>>
      BY DEF Channels
    <3> QED
      BY <1>1, <2>2, <2>3, <2>4, <3>1, LedByLink
  <2> QED
    BY <2>1, <2>5 DEF n
<1>8. CASE g = there /\ i # last
  <2>1. R = {<<SW!local_buffer(g, i, last), 2>>}
    BY <1>8, FromLastGroup
  <2>2. SwitchRank(c, s, d, n) = 2
    BY <1>8, RankOfMember
  <2>3. SwitchRank(c, s, d, Member(g, last)) = 1
    BY <1>1, <1>8, <1>6
  <2> HIDE DEF R, n
  <2> QED
    BY <1>1, <1>3, <1>4, <1>8, <2>1, <2>2, <2>3 DEF R, n
<1>9. CASE g # there /\ Misroutes(c) /\ g = SW!Group(s)
  <2>1. PICK h \in SW!Groups \ {g} :
          R = {<<SW!global_buffer(g, h), 0>>} /\ SW!global_link(g, h)[1] = n
    BY <1>9, FromFirstGroup DEF Misroutes
  <2>2. Gateway(h, g) \in SW!Members
    BY GatewayFacts
  <2>3. SwitchRank(c, s, d, n) = 5 /\ SwitchRank(c, s, d, Member(h, Gateway(h, g))) < 5
    BY <1>9, <2>2, RankOfMember
  <2> HIDE DEF R, n
  <2> QED
    BY <1>3, <1>5, <2>1, <2>3 DEF R, n
<1>10. CASE g # there /\ ~(Misroutes(c) /\ g = SW!Group(s)) /\ i = gateway
  <2>1. R = {<<SW!global_buffer(g, there), 1>>}
    BY <1>10, FromOtherGroup
  <2>2. Gateway(there, g) \in SW!Members /\ SW!global_link(g, there)[1] = n
    BY <1>1, <1>10, GatewayFacts
  <2>3. SwitchRank(c, s, d, n) = 3
    BY <1>10, RankOfMember
  <2>4. SwitchRank(c, s, d, Member(there, Gateway(there, g))) \in 1 .. 2
    BY <1>1, <2>2, <1>6
  <2> HIDE DEF R, n
  <2> QED
    BY <1>1, <1>3, <1>5, <1>10, <2>1, <2>2, <2>3, <2>4 DEF R, n
<1>11. CASE g # there /\ ~(Misroutes(c) /\ g = SW!Group(s)) /\ i # gateway
  <2>1. R = {<<SW!local_buffer(g, i, gateway), 1>>}
    BY <1>11, FromOtherGroup
  <2>2. gateway \in SW!Members
    BY <1>1, <1>11, GatewayFacts
  <2>3. SwitchRank(c, s, d, n) = 4 /\ SwitchRank(c, s, d, Member(g, gateway)) = 3
    BY <1>11, <2>2, RankOfMember
  <2> HIDE DEF R, n
  <2> QED
    BY <1>3, <1>4, <1>11, <2>1, <2>2, <2>3 DEF R, n
<1> QED
  BY <1>7, <1>8, <1>9, <1>10, <1>11

\* What a packet is offered wherever it is but at its destination.
LEMMA LedAmongSwitches ==
  ASSUME NEW c \in SwitchConfigs, NEW s \in SW!CoreNodes, NEW d \in SW!CoreNodes,
         vc_number >= 3, NEW vc, NodeOf(vc) \in SwitchNodes \ {d}
  PROVE  LET r == MCRoute(c, s, d, vc)
         IN /\ r \in Seq(SwitchBuffers \X (0 .. vc_number - 1)) /\ r # <<>>
            /\ \A i \in 1 .. Len(r) : Led(c, s, d, NodeOf(vc), r[i])
<1> DEFINE r == MCRoute(c, s, d, vc)
           n == NodeOf(vc)
<1>1. Range(r) # {} /\ \A x \in Range(r) : Led(c, s, d, n, x)
  <2>1. CASE n \in SW!CoreNodes
    BY <2>1, LedFromCore
  <2>2. CASE n \in SW!Switches
    <3>1. PICK g \in SW!Groups, i \in SW!Members : n = Member(g, i)
      BY <2>2, SwitchIsMember
    <3>2. Range(r) # {} /\ \A x \in Range(r) : Led(c, s, d, Member(g, i), x)
      BY <3>1, LedFromSwitch
    <3> HIDE DEF r, n
    <3> QED
      BY <3>1, <3>2
  <2> QED
    BY <2>1, <2>2 DEF SwitchNodes
<1>2. r \in Seq(Range(r))
  BY SwitchRouteListed
<1> HIDE DEF r
<1>3. Range(r) \subseteq SwitchBuffers \X (0 .. vc_number - 1)
  BY <1>1 DEF Led
<1>4. r \in Seq(SwitchBuffers \X (0 .. vc_number - 1))
  <2> DEFINE C == SwitchBuffers \X (0 .. vc_number - 1)
  <2>1. Range(r) \subseteq C
    BY <1>3
  <2> HIDE DEF C
  <2>2. r \in Seq(C)
    BY <1>2, <2>1, SeqMonotonic
  <2> QED
    BY <2>2 DEF C
<1>5. r # <<>>
  BY <1>1 DEF Range
<1>6. \A i \in 1 .. Len(r) : r[i] \in Range(r)
  BY <1>2
<1> QED
  BY <1>1, <1>4, <1>5, <1>6 DEF r

LEMMA SameCardinality ==
  \A S : Fabric!Cardinality(S) = Cardinality(S)
BY Zenon DEF Fabric!Cardinality, Cardinality, Fabric!IsFiniteSet, IsFiniteSet

\* There are finitely many nodes and buffers.
LEMMA SwitchesFinite ==
  IsFiniteSet(SwitchNodes) /\ IsFiniteSet(SwitchBuffers)
<1> DEFINE InSwitch == 0 .. SW!cores_per_sw - 1
           Chips == 0 .. SW!num_switch - 1
           G == SW!Groups
           M == SW!Members
           core == [x \in InSwitch \X Chips |-> SW!NodeID(x[1], x[2])]
           switch == [x \in Chips |-> SW!Switch(x)]
           coreport == [x \in InSwitch \X Chips |-> <<SW!NodeID(x[1], x[2]), 0>>]
           switchport == [x \in InSwitch \X Chips |-> <<SW!Switch(x[2]), x[1]>>]
           local == [x \in G \X (M \X M) |-> SW!local_buffer(x[1], x[2][1], x[2][2])]
           global == [x \in G \X G |-> SW!global_link(x[1], x[2])]
<1>1. IsFiniteSet(InSwitch) /\ IsFiniteSet(Chips) /\ IsFiniteSet(G) /\ IsFiniteSet(M)
  <2>1. SW!cores_per_sw \in Int /\ SW!num_switch \in Int /\ SW!num_group \in Int /\ SW!sw_per_group \in Int
    BY SwitchSizes
  <2>2. /\ SW!cores_per_sw - 1 \in Int /\ SW!num_switch - 1 \in Int /\ SW!num_group - 1 \in Int
        /\ SW!sw_per_group - 1 \in Int
    BY <2>1
  <2> QED
    BY <2>2, FS_Interval DEF SW!Groups, SW!Members
<1> HIDE DEF InSwitch, Chips, G, M
<1>2. /\ IsFiniteSet(InSwitch \X Chips) /\ IsFiniteSet(G \X (M \X M)) /\ IsFiniteSet(G \X G)
  BY <1>1, FS_Product
<1> DEFINE All(f, S) == {f[x] : x \in S}
<1>3. SW!CoreNodes \subseteq All(core, InSwitch \X Chips)
  <2> SUFFICES ASSUME NEW n \in SW!CoreNodes PROVE n \in All(core, InSwitch \X Chips)
    OBVIOUS
  <2>1. n.node \in InSwitch /\ n.chip \in Chips /\ n = SW!NodeID(n.node, n.chip)
    BY CoreFacts DEF InSwitch, Chips, SW!NodeID
  <2>2. <<n.node, n.chip>> \in InSwitch \X Chips /\ core[<<n.node, n.chip>>] = n
    BY <2>1
  <2> QED
    BY <2>2
<1>4. SW!Switches \subseteq All(switch, Chips)
  BY DEF SW!Switches, Chips
<1>5. SwitchBuffers \subseteq ((All(coreport, InSwitch \X Chips) \cup All(switchport, InSwitch \X Chips))
                               \cup (All(local, G \X (M \X M)) \cup All(global, G \X G)))
  <2> SUFFICES ASSUME NEW link \in SW!Links
               PROVE  \/ link[1] \in All(coreport, InSwitch \X Chips)
                      \/ link[1] \in All(switchport, InSwitch \X Chips)
                      \/ link[1] \in All(local, G \X (M \X M))
                      \/ link[1] \in All(global, G \X G)
    BY DEF SwitchBuffers
  <2>1. CASE link \in SW!core_links
    <3>1. PICK i \in InSwitch, id \in Chips :
            \/ link = <<<<SW!NodeID(i, id), 0>>, <<SW!Switch(id), i>>>>
            \/ link = <<<<SW!Switch(id), i>>, <<SW!NodeID(i, id), 0>>>>
      BY <2>1 DEF SW!core_links, InSwitch, Chips
    <3>2. <<i, id>> \in InSwitch \X Chips /\ coreport[<<i, id>>] = <<SW!NodeID(i, id), 0>>
          /\ switchport[<<i, id>>] = <<SW!Switch(id), i>>
      OBVIOUS
    <3>3. link[1] = coreport[<<i, id>>] \/ link[1] = switchport[<<i, id>>]
      BY <3>1, <3>2
    <3> HIDE DEF coreport, switchport
    <3> QED
      BY <3>2, <3>3
  <2>2. CASE link \in SW!local_links
    <3>1. PICK g \in G, i \in M, j \in M : link[1] = SW!local_buffer(g, j, i)
      BY <2>2 DEF SW!local_links, G, M
    <3>2. <<g, <<j, i>>>> \in G \X (M \X M) /\ local[<<g, <<j, i>>>>] = SW!local_buffer(g, j, i)
      OBVIOUS
    <3> HIDE DEF local
    <3> QED
      BY <3>1, <3>2
  <2>3. CASE link \in SW!global_links
    <3>1. PICK g \in G, h \in G : link[1] = SW!global_link(g, h)
      BY <2>3 DEF SW!global_links, G
    <3>2. <<g, h>> \in G \X G /\ global[<<g, h>>] = SW!global_link(g, h)
      OBVIOUS
    <3> HIDE DEF global
    <3> QED
      BY <3>1, <3>2
  <2> QED
    BY <2>1, <2>2, <2>3 DEF SW!Links
<1> HIDE DEF core, switch, coreport, switchport, local, global
<1>6. ASSUME NEW f, NEW S, IsFiniteSet(S) PROVE IsFiniteSet(All(f, S))
  BY <1>6, ImageFinite
<1> HIDE DEF All
<1>7. /\ IsFiniteSet(All(core, InSwitch \X Chips)) /\ IsFiniteSet(All(switch, Chips))
      /\ IsFiniteSet(All(coreport, InSwitch \X Chips)) /\ IsFiniteSet(All(switchport, InSwitch \X Chips))
      /\ IsFiniteSet(All(local, G \X (M \X M))) /\ IsFiniteSet(All(global, G \X G))
  BY <1>1, <1>2, <1>6
<1>8. IsFiniteSet(SW!CoreNodes) /\ IsFiniteSet(SW!Switches)
  BY <1>3, <1>4, <1>7, FS_Subset
<1>9. IsFiniteSet((All(coreport, InSwitch \X Chips) \cup All(switchport, InSwitch \X Chips))
                   \cup (All(local, G \X (M \X M)) \cup All(global, G \X G)))
  BY <1>7, FS_Union
<1> QED
  BY <1>5, <1>8, <1>9, FS_Subset, FS_Union DEF SwitchNodes

\* Each node has a buffer.
LEMMA FabricNodes ==
  ASSUME AmongSwitches
  PROVE  Fabric!Nodes = SwitchNodes
<1>1. ASSUME NEW b \in SwitchBuffers PROVE b[1] \in SwitchNodes
  <2>1. PICK link \in SW!Links : b = link[1]
    BY DEF SwitchBuffers
  <2>2. CASE link \in SW!core_links
    <3>1. PICK i \in 0 .. SW!cores_per_sw - 1, id \in 0 .. SW!num_switch - 1 :
            \/ link = <<<<SW!NodeID(i, id), 0>>, <<SW!Switch(id), i>>>>
            \/ link = <<<<SW!Switch(id), i>>, <<SW!NodeID(i, id), 0>>>>
      BY <2>2 DEF SW!core_links
    <3>2. SW!NodeID(i, id) \in SW!CoreNodes /\ SW!Switch(id) \in SW!Switches
      BY DEF SW!NodeID, SW!CoreNodes, SW!Switches
    <3> QED
      BY <2>1, <3>1, <3>2 DEF SwitchNodes
  <2>3. CASE link \in SW!local_links
    <3>1. PICK g \in SW!Groups, i \in SW!Members, j \in SW!Members : link[1] = SW!local_buffer(g, j, i)
      BY <2>3 DEF SW!local_links
    <3> QED
      BY <2>1, <3>1, MemberFacts DEF SW!local_buffer, Member, SwitchNodes
  <2>4. CASE link \in SW!global_links
    <3>1. PICK g \in SW!Groups, h \in SW!Groups : g # h /\ link[1] = SW!global_link(g, h)
      BY <2>4 DEF SW!global_links
    <3> QED
      BY <2>1, <3>1, GatewayFacts, MemberFacts DEF SwitchNodes
  <2> QED
    BY <2>2, <2>3, <2>4 DEF SW!Links
<1>2. Fabric!Nodes = {Src[p] : p \in Packets} \cup {[x \in SwitchBuffers |-> x[1]][b] : b \in SwitchBuffers}
  BY DEF Fabric!Nodes
<1>3. {[x \in SwitchBuffers |-> x[1]][b] : b \in SwitchBuffers} = {b[1] : b \in SwitchBuffers}
  OBVIOUS
<1>4. Fabric!Nodes \subseteq SwitchNodes
  BY <1>1, <1>2, <1>3 DEF AmongSwitches, SwitchNodes
<1>5. ASSUME NEW n \in SW!CoreNodes PROVE n \in {b[1] : b \in SwitchBuffers}
  <2>1. <<<<n, 0>>, <<SW!Switch(n.chip), n.node>>>> \in SW!Links
    BY LinksKnown
  <2>2. <<n, 0>> \in SwitchBuffers
    BY <2>1 DEF SwitchBuffers
  <2> QED
    BY <2>2
<1>6. ASSUME NEW n \in SW!Switches PROVE n \in {b[1] : b \in SwitchBuffers}
  <2>1. PICK id \in 0 .. SW!num_switch - 1 : n = SW!Switch(id)
    BY DEF SW!Switches
  <2> DEFINE m == SW!NodeID(0, id)
  <2>2. m \in SW!CoreNodes /\ m.chip = id /\ m.node = 0
    BY SwitchSizes DEF SW!CoreNodes, SW!NodeID
  <2> HIDE DEF m
  <2>3. <<<<SW!Switch(m.chip), m.node>>, <<m, 0>>>> \in SW!Links
    BY <2>2, LinksKnown
  <2>4. <<n, 0>> \in SwitchBuffers
    BY <2>1, <2>2, <2>3 DEF SwitchBuffers
  <2> QED
    BY <2>4
<1> QED
  BY <1>2, <1>3, <1>4, <1>5, <1>6 DEF SwitchNodes

\* What the pipeline takes for granted of its topology holds of DragonflySW with
\* switches of any radix, with and without mis-routing, if its buffers have the
\* three virtual channels that the routing numbers: there are finitely many
\* buffers, and from wherever its head is, every packet is offered channels that
\* lead on, over links of the node where it is, and in no circle.
THEOREM SwitchesLeadOn ==
  ASSUME AmongSwitches
  PROVE  IsFiniteSet(SwitchBuffers) /\ Fabric!RoutesLeadOn
<1>1. SUFFICES ASSUME NEW p \in Packets
               PROVE  \E way \in SUBSET Fabric!Nodes :
                        \E rank \in [way -> 0 .. Cardinality(Fabric!Nodes)] :
                          Fabric!LeadsOn(p, way, rank)
  BY SwitchesFinite, SameCardinality DEF Fabric!RoutesLeadOn
<1> DEFINE N == SwitchNodes
           left == [n \in N |-> SwitchRank(Topology, Src[p], Dst[p], n)]
<1>2. /\ Src[p] \in SW!CoreNodes /\ Dst[p] \in SW!CoreNodes /\ Topology \in SwitchConfigs
      /\ vc_number >= 3 /\ Src[p] \in N /\ Fabric!Nodes = N /\ IsFiniteSet(N)
  BY FabricNodes, SwitchesFinite DEF AmongSwitches, SwitchNodes
<1>3. left \in [N -> Nat] /\ \A n \in N : left[n] = SwitchRank(Topology, Src[p], Dst[p], n)
  BY DEF SwitchRank
<1> HIDE DEF N, left
<1>4. PICK rank \in [N -> 0 .. Cardinality(N)] :
        \A m, n \in N : left[m] < left[n] => rank[m] < rank[n]
  BY <1>2, <1>3, RankWithin
<1>5. ASSUME NEW c \in Fabric!Places, Fabric!NodeAt(p, c) \in N \ {Dst[p]}
      PROVE  /\ FabricRoute(p, c) \in Seq(Fabric!Channels) /\ FabricRoute(p, c) # <<>>
             /\ \A i \in 1 .. Len(FabricRoute(p, c)) :
                  LET b == Fabric!BufferOf(FabricRoute(p, c)[i]) IN
                  /\ [x \in SwitchBuffers |-> Upstream(x)][b] = Fabric!NodeAt(p, c)
                  /\ [x \in SwitchBuffers |-> x[1]][b] \in N
                  /\ rank[[x \in SwitchBuffers |-> x[1]][b]] < rank[Fabric!NodeAt(p, c)]
  <2> DEFINE n == Fabric!NodeAt(p, c)
             vc == IF c = <<NoBuffer, 0>> THEN AtSource(Src[p]) ELSE c
             r == FabricRoute(p, c)
  <2>1. NodeOf(vc) = n
    <3>1. CASE c = <<NoBuffer, 0>>
      BY <3>1 DEF Fabric!NodeAt, Fabric!Source, NodeOf, AtSource
    <3>2. CASE c # <<NoBuffer, 0>>
      <4>1. c \in SwitchBuffers \X (0 .. vc_number - 1)
        BY <3>2 DEF Fabric!Places, Fabric!Source, Fabric!Channels
      <4>2. c[1] \in SwitchBuffers
        BY <4>1
      <4>3. n = c[1][1]
        BY <3>2, <4>2 DEF Fabric!NodeAt, Fabric!Source, Fabric!BufferOf
      <4> QED
        BY <3>2, <4>3 DEF NodeOf
    <3> QED
      BY <3>1, <3>2
  <2>2. r = MCRoute(Topology, Src[p], Dst[p], vc)
    BY DEF FabricRoute
  <2> HIDE DEF n, vc, r
  <2>3. n \in N /\ n # Dst[p]
    BY <1>5 DEF n
  <2>4. /\ r \in Seq(SwitchBuffers \X (0 .. vc_number - 1)) /\ r # <<>>
        /\ \A i \in 1 .. Len(r) : Led(Topology, Src[p], Dst[p], n, r[i])
    BY <1>2, <2>1, <2>2, <2>3, LedAmongSwitches DEF N
  <2>5. ASSUME NEW i \in 1 .. Len(r)
        PROVE  LET b == Fabric!BufferOf(r[i]) IN
               /\ [x \in SwitchBuffers |-> Upstream(x)][b] = n
               /\ [x \in SwitchBuffers |-> x[1]][b] \in N
               /\ rank[[x \in SwitchBuffers |-> x[1]][b]] < rank[n]
    <3> DEFINE b == r[i][1]
    <3>1. /\ r[i] \in SwitchBuffers \X (0 .. vc_number - 1)
          /\ Upstream(b) = n /\ b[1] \in N
          /\ SwitchRank(Topology, Src[p], Dst[p], b[1]) < SwitchRank(Topology, Src[p], Dst[p], n)
      BY <2>4 DEF Led, N
    <3>2. b \in SwitchBuffers
      BY <3>1
    <3>3. Fabric!BufferOf(r[i]) = b
      BY DEF Fabric!BufferOf
    <3> HIDE DEF b
    <3>4. left[b[1]] < left[n]
      BY <1>3, <2>3, <3>1
    <3>5. rank[b[1]] < rank[n]
      BY <1>4, <2>3, <3>1, <3>4
    <3> QED
      BY <3>1, <3>2, <3>3, <3>5
  <2> QED
    BY <2>4, <2>5 DEF n, r, Fabric!Channels
<1>6. Fabric!LeadsOn(p, N, rank)
  BY <1>2, <1>5 DEF Fabric!LeadsOn
<1> QED
  BY <1>2, <1>4, <1>6
=============================================================================
