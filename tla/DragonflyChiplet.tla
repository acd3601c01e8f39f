-------------------------- MODULE DragonflyChiplet --------------------------
(***************************************************************************)
(* C-groups, meshes of k_node x k_node nodes, linked like the switches of  *)
(* a Dragonfly: the wiring that DragonflyChiplet builds and its MIN        *)
(* routing, with and without mis-routing.                                  *)
(*                                                                         *)
(* A node at the border of its C-group has one external port, number 4,    *)
(* behind the four ports of the mesh.                                      *)
(***************************************************************************)
EXTENDS Dragonfly, Sequences

CONSTANT k_node   \* k_node_in_CG_

cgroup_radix == 4 * k_node - 4
l_ports_per_cg == (cgroup_radix \div 3) * 2 - 1
g_ports_per_cg == cgroup_radix - l_ports_per_cg
cgroup_per_wgroup == l_ports_per_cg + 1
g_ports_per_wg == g_ports_per_cg * cgroup_per_wgroup
num_wgroup == g_ports_per_wg + 1
num_cgroup == num_wgroup * cgroup_per_wgroup

NodeID(node_id, chip_id) == [node |-> node_id, chip |-> chip_id]
Nodes == [node : 0 .. k_node * k_node - 1, chip : 0 .. num_cgroup - 1]
X(n) == n.node % k_node
Y(n) == n.node \div k_node
WGroup(n) == n.chip \div cgroup_per_wgroup
IdInWGroup(n) == n.chip % cgroup_per_wgroup

\* port_node_map_: the node of an external port of a C-group; the ports are
\* counted along the lower row, then row by row left and right, then the upper.
port_node(port) ==
  LET side == port - k_node
  IN IF side < 0 THEN port
     ELSE IF side < 2 * (k_node - 2)
     THEN (side \div 2 + 1) * k_node + (IF side % 2 = 0 THEN 0 ELSE k_node - 1)
     ELSE (k_node - 1) * k_node + (side - 2 * (k_node - 2))

\* local_link_map_: node of a C-group that is linked to another of its W-group.
local_link(i, j) == port_node(PortTowards(i, j, cgroup_radix))
local_node(g, i, j) == NodeID(local_link(i, j), g * cgroup_per_wgroup + i)

\* global_link_map_: the node that links W-group g to W-group h.
global_link(g, h) ==
  LET id == PortTowards(g, h, g_ports_per_wg)
      cgroup_id == id \div g_ports_per_cg
  IN NodeID(port_node(cgroup_id + (id % g_ports_per_cg)), g * cgroup_per_wgroup + cgroup_id)

\* Pairs of nodes whose external ports are connected, both ways.
WGroups == 0 .. num_wgroup - 1
Members == 0 .. cgroup_per_wgroup - 1
local_links ==
  UNION {{<<local_node(g, i, j), local_node(g, j, i)>> : j \in Members \ {i}} :
          g \in WGroups, i \in Members}
global_links == UNION {{<<global_link(g, h), global_link(h, g)>> : h \in WGroups \ {g}} : g \in WGroups}
Links == local_links \cup global_links

\* The node at the other end of the link at the external port of n.
linked(n) ==
  LET g == WGroup(n)
      i == IdInWGroup(n)
      members == {j \in Members \ {i} : local_node(g, i, j) = n}
      wgroups == {h \in WGroups \ {g} : global_link(g, h) = n}
  IN IF wgroups # {} THEN global_link(CHOOSE h \in wgroups : TRUE, g)
     ELSE local_node(g, CHOOSE j \in members : TRUE, i)

\* The neighbour in the mesh and the port of it that the buffer is at.
MeshBuffer(n, port) ==
  CASE port = "xneg" -> <<[n EXCEPT !.node = @ - 1], "xpos">>
    [] port = "xpos" -> <<[n EXCEPT !.node = @ + 1], "xneg">>
    [] port = "yneg" -> <<[n EXCEPT !.node = @ - k_node], "ypos">>
    [] port = "ypos" -> <<[n EXCEPT !.node = @ + k_node], "yneg">>

ExternalBuffer(n) == <<linked(n), "external">>
VC(buffer, vcb) == <<<<buffer, vcb>>>>

\* First x, then y, inside the C-group.
XY_routing(n, node_id, vcb) ==
  LET dest == NodeID(node_id, n.chip) IN
  IF X(dest) < X(n) THEN VC(MeshBuffer(n, "xneg"), vcb)
  ELSE IF X(dest) > X(n) THEN VC(MeshBuffer(n, "xpos"), vcb)
  ELSE IF Y(dest) < Y(n) THEN VC(MeshBuffer(n, "yneg"), vcb)
  ELSE IF Y(dest) > Y(n) THEN VC(MeshBuffer(n, "ypos"), vcb)
  ELSE <<>>

\* Out of the C-group at the node with that number, or on the way to it.
LeaveAt(n, node_id, vcb) ==
  IF n.node = node_id THEN VC(ExternalBuffer(n), vcb) ELSE XY_routing(n, node_id, vcb)

\* Towards another W-group.  Only the number of the node decides whether the
\* global link is here: a node with the same number in another C-group offers
\* the buffer of the link all the same.
TowardsWGroup(n, h) ==
  LET port == global_link(WGroup(n), h) IN
  IF n.node = port.node THEN VC(ExternalBuffer(port), 1)
  ELSE IF n.chip = port.chip THEN XY_routing(n, port.node, 1)
  ELSE LeaveAt(n, local_link(IdInWGroup(n), IdInWGroup(port)), 1)

MIN_routing(mis_routing, s, d, n) ==
  LET leave_node_id == port_node(IdInWGroup(s) + (s.node % g_ports_per_cg))
  IN CASE n.chip = d.chip -> XY_routing(n, d.node, 2)
       [] n.chip # d.chip /\ WGroup(n) = WGroup(d) ->
            LeaveAt(n, local_link(IdInWGroup(n), IdInWGroup(d)), 2)
       [] WGroup(n) # WGroup(d) ->
            IF ~mis_routing \/ WGroup(n) # WGroup(s) THEN TowardsWGroup(n, WGroup(d))
            ELSE IF n.node # leave_node_id THEN XY_routing(n, leave_node_id, 0)
            ELSE VC(ExternalBuffer(n), 0) \o TowardsWGroup(n, WGroup(d))
=============================================================================
