------------------------------ MODULE Dragonfly ------------------------------
(***************************************************************************)
(* The wiring that both Dragonfly topologies use twice: the members of a   *)
(* group are all linked to each other, and so are the groups.  A member    *)
(* has as many ports for that as there are other members, numbered from 0. *)
(***************************************************************************)
EXTENDS Integers

\* Mutant: the lower members are counted without the gap.
PortTowardsWithoutGap(i, j, ports) ==
  IF i < j THEN ports - (j - i)
  ELSE IF i = j + 1 THEN 0
  ELSE j

\* The port of member i that is linked to member j, out of ports ports: the
\* last ones go to higher members, the nearest first from the end; the first
\* one goes to the next lower member, the others to the lower ones in order.
PortTowards(i, j, ports) ==
  IF i < j THEN ports - (j - i)
  ELSE IF i = j + 1 THEN 0
  ELSE j + 1

\* Every link leads back, and no port belongs to two links: Port::connect was
\* called once for each pair and never took a port that was connected already.
PairedOnce(links) ==
  \A link \in links :
    /\ <<link[2], link[1]>> \in links
    /\ \A other \in links : other[1] = link[1] => other = link
=============================================================================
