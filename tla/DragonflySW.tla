----------------------------- MODULE DragonflySW -----------------------------
(***************************************************************************)
(* Groups of switches with cores: the wiring that DragonflySW builds and   *)
(* its MIN routing, with and without mis-routing.                          *)
(*                                                                         *)
(* Nodes 0 .. cores_per_sw - 1 of a switch are its cores, the next one is  *)
(* the switch itself.                                                      *)
(***************************************************************************)
EXTENDS Dragonfly, Sequences

CONSTANTS
  sw_radix,        \* sw_radix_: ports of a switch
  fully_use_ports, \* fully_use_ports_: whether no port is left free
  vc_number        \* vc_number

cores_per_sw == sw_radix \div 4
l_ports_per_sw == sw_radix \div 2 - 1
g_ports_per_sw == sw_radix - cores_per_sw - l_ports_per_sw - (IF fully_use_ports THEN 0 ELSE 1)
sw_per_group == l_ports_per_sw + 1
g_ports_per_group == g_ports_per_sw * sw_per_group
num_group == g_ports_per_group + 1
num_switch == num_group * sw_per_group

NodeID(node_id, chip_id) == [node |-> node_id, chip |-> chip_id]
Switch(id) == NodeID(cores_per_sw, id)
Core(n) == n.node # cores_per_sw
CoreNodes == [node : 0 .. cores_per_sw - 1, chip : 0 .. num_switch - 1]
Switches == {Switch(id) : id \in 0 .. num_switch - 1}

Group(n) == n.chip \div sw_per_group
IdInGroup(n) == n.chip % sw_per_group

\* global_port_id_to_port_id: the id in the group of the switch that has the
\* global port with that number, and the port of it.
GlobalSwitch(global_port_id) == global_port_id \div g_ports_per_sw
GlobalPort(global_port_id) ==
  cores_per_sw + GlobalSwitch(global_port_id) + (global_port_id % g_ports_per_sw)

\* local_link_map_: port that leads from one switch of a group to another.
\* The lower ones are counted from the first port behind the cores.
local_link(i, j) ==
  IF i < j THEN PortTowards(i, j, sw_radix) ELSE cores_per_sw + PortTowards(i, j, sw_radix)

\* global_link_map_: switch and port that lead from group g to group h.
global_link(g, h) ==
  LET id == PortTowards(g, h, g_ports_per_group)
  IN <<Switch(g * sw_per_group + GlobalSwitch(id)), GlobalPort(id)>>

\* The input buffers that the ports of those links lead to.
local_buffer(g, i, j) == <<Switch(g * sw_per_group + j), local_link(j, i)>>
global_buffer(g, h) == global_link(h, g)

\* Pairs of ports connected to each other, both ways: those of cores and
\* switches, local and global ones.
Groups == 0 .. num_group - 1
Members == 0 .. sw_per_group - 1
core_links ==
  LET up == {<<<<NodeID(i, id), 0>>, <<Switch(id), i>>>> :
              i \in 0 .. cores_per_sw - 1, id \in 0 .. num_switch - 1}
  IN up \cup {<<link[2], link[1]>> : link \in up}
local_links ==
  UNION {{<<local_buffer(g, j, i), local_buffer(g, i, j)>> : j \in Members \ {i}} :
          g \in Groups, i \in Members}
global_links == UNION {{<<global_link(g, h), global_link(h, g)>> : h \in Groups \ {g}} : g \in Groups}
Links == core_links \cup local_links \cup global_links

AnyVC(buffer) == [i \in 1 .. vc_number |-> <<buffer, i - 1>>]
VC(buffer, vcb) == <<<<buffer, vcb>>>>

\* Mutant: the VC of the last group is used before the global link, too.
TowardsGroupOnLastVC(n, h) ==
  LET sw == global_link(Group(n), h)[1] IN
  IF n = sw THEN VC(global_buffer(Group(n), h), 2)
  ELSE VC(local_buffer(Group(n), IdInGroup(n), IdInGroup(sw)), 2)

\* The packet leaves its group over the global link for the group h.
TowardsGroup(n, h) ==
  LET sw == global_link(Group(n), h)[1] IN
  IF n = sw THEN VC(global_buffer(Group(n), h), 1)
  ELSE VC(local_buffer(Group(n), IdInGroup(n), IdInGroup(sw)), 1)

\* The packet leaves its group over one of the global ports of switch n, which
\* one depends on the core it comes from.
Misroute(n, s) ==
  LET port == <<n, cores_per_sw + IdInGroup(n) + s.node>>
      h == CHOOSE h \in Groups \ {Group(n)} : global_link(Group(n), h) = port
  IN VC(global_buffer(Group(n), h), 0)

\* Mutant: mis-routing in every group that is not the destination's.
MIN_routingMisroutesAgain(mis_routing, s, d, n) ==
  CASE Core(n) -> AnyVC(<<Switch(n.chip), n.node>>)
    [] ~Core(n) /\ n.chip = d.chip -> AnyVC(<<d, 0>>)
    [] ~Core(n) /\ n.chip # d.chip /\ Group(n) = Group(d) ->
         VC(local_buffer(Group(n), IdInGroup(n), IdInGroup(d)), 2)
    [] ~Core(n) /\ Group(n) # Group(d) ->
         IF mis_routing THEN Misroute(n, s) ELSE TowardsGroup(n, Group(d))

\* Inside a switch any VC; to the switch of the destination in its group VC 2;
\* out of the group of the source VC 0 with mis-routing, VC 1 otherwise.
MIN_routing(mis_routing, s, d, n) ==
  CASE Core(n) -> AnyVC(<<Switch(n.chip), n.node>>)
    [] ~Core(n) /\ n.chip = d.chip -> AnyVC(<<d, 0>>)
    [] ~Core(n) /\ n.chip # d.chip /\ Group(n) = Group(d) ->
         VC(local_buffer(Group(n), IdInGroup(n), IdInGroup(d)), 2)
    [] ~Core(n) /\ Group(n) # Group(d) ->
         IF mis_routing /\ Group(n) = Group(s) THEN Misroute(n, s) ELSE TowardsGroup(n, Group(d))
=============================================================================
