----------------------------- MODULE MCNetwork -----------------------------
(* Two routers 1 and 2 feed router 3, which leads to 4 and to 5.  The links *)
(* on the way 2 -> 3 -> 5 have two VCs, the others one; 1 -> 3 is two flits *)
(* wide and without latency, the others are one flit wide and slower.      *)
(*                                                                         *)
(* merge: pkA and pkB meet at the input of 4; pkC follows pkA in the same  *)
(*   queue and turns to 5.  Three-stage routers.                           *)
(* line:  pkD and pkE cross from 2 to 5 and compete for the switch link of *)
(*   router 3; pkF starts there and competes for the input of 5.           *)
(* cross: pkC and pkD meet at the input of 5.  Two-stage routers.          *)
(* ring:  1 -> 3 -> 2 -> 1 is a circle of links.  Each of pkG, pkH, pkI    *)
(*   goes two links round it, starting at 1, 3 and 2, and fills a channel. *)
(*   Behind the date line, from link 2 -> 1 on, packets use VC 1.  One-    *)
(*   stage routers.                                                        *)
EXTENDS NetworkProps

CONSTANTS pkA, pkB, pkC, pkD, pkE, pkF, pkG, pkH, pkI

Ring == {pkG, pkH, pkI}
MCPackets == {pkA, pkB, pkC, pkD, pkE, pkF} \cup Ring
MCSrc == [p \in MCPackets |-> CASE p \in {pkA, pkC, pkG} -> 1 [] p \in {pkF, pkH} -> 3 [] OTHER -> 2]
MCDst == [p \in MCPackets |->
  CASE p \in {pkA, pkB} -> 4 [] p = pkG -> 2 [] p = pkH -> 1 [] p = pkI -> 3 [] OTHER -> 5]
MCLength == [p \in MCPackets |-> CASE p = pkD -> 3 [] p \in {pkC, pkE} -> 1 [] OTHER -> 2]
MCBuffers == {13, 21, 23, 32, 34, 35}      \* the buffer of link 1 -> 3 is 13
MCDownNode == [x \in MCBuffers |-> x % 10]
MCUpNode == [x \in MCBuffers |-> x \div 10]
MCWidth == [x \in MCBuffers |-> IF x = 13 THEN 2 ELSE 1]
MCLatency == [x \in MCBuffers |-> IF x = 13 THEN 0 ELSE 1]
MCRoute(p, place) ==
  LET node == NodeAt(p, place)
      b == IF node = 3 THEN 30 + MCDst[p] ELSE 10 * node + 3
      around == CASE node = 1 -> 13 [] node = 2 -> 21 [] node = 3 -> 32
  IN IF p \in Ring THEN <<<<around, IF around = 21 \/ place[2] = 1 THEN 1 ELSE 0>>>>
     ELSE IF b \in {13, 34} THEN <<<<b, 0>>>> ELSE <<<<b, 0>>, <<b, 1>>>>

MCParams ==
  {[router_stages |-> "ThreeStage", processing_time |-> 1, packets |-> {pkA, pkB, pkC}],
   [router_stages |-> "OneStage", processing_time |-> 0, packets |-> {pkD, pkE, pkF}],
   [router_stages |-> "TwoStage", processing_time |-> 0, packets |-> {pkC, pkD}],
   [router_stages |-> "OneStage", processing_time |-> 0, packets |-> Ring]}
=============================================================================
