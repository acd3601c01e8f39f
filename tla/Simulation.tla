----------------------------- MODULE Simulation -----------------------------
(***************************************************************************)
(* The simulation loop of main with the counters of the traffic manager.   *)
(*                                                                         *)
(* A synthetic pattern is simulated at one injection rate after the other: *)
(* warm-up, TM->reset, measuring, print_statistics and the test for        *)
(* saturation, then all packets are deleted; in a DEBUG build the network  *)
(* is drained first when it is saturated.  A netrace is read to its end    *)
(* and a little further, without any of this.                              *)
(*                                                                         *)
(* The network is its contract, Transport.  Rates are whole numbers of     *)
(* 1/Unit packets per cycle in place of a double.  Printed averages and    *)
(* the maximum receiving rate are output only and are left out.            *)
(***************************************************************************)
EXTENDS Traffic, Sequences

CONSTANTS
  Capacity,     \* as in Transport
  Params,       \* the parameters the program may be started with, see ParamType
  Unit,         \* granularity of rates
  Debug,        \* whether DEBUG is defined
  Slack,        \* the 1000 cycles that follow those of a netrace
  MaxTimeouts   \* bound on the timeouts that are counted

ParamType(p) ==
  /\ p.traffic \in {"uniform", "intra_group_uniform", "hotspot", "adversarial", "netrace"}
                  \cup BitPatterns \cup Rings
  /\ p.topology \in {"DragonflySW", "DragonflyChiplet", "MultiChipMesh"}
  /\ p.traffic_scale \in Nat \ {0}
  /\ p.simulation_time \in Nat \ {0}
  /\ p.increment \in Nat \ {0}           \* injection_increment, in 1/Unit packets
  /\ p.timeout_limit \in Nat
  /\ p.num_cycles \in Nat                \* of the header of the netrace
  /\ p.trace \in Seq([cycle : Nat, kind : {"packet", "local", "invalid"}])
  /\ \A l, m \in DOMAIN p.trace :        \* the file is in the order of its time stamps
       /\ p.trace[m].cycle <= p.num_cycles
       /\ l <= m => p.trace[l].cycle <= p.trace[m].cycle

ASSUME SimulationAssumption ==
  /\ \A p \in Params : ParamType(p)
  /\ Capacity \in Nat /\ MaxTimeouts \in Nat
  /\ Unit \in Nat \ {0} /\ Slack \in Nat \ {0} /\ Debug \in BOOLEAN

VARIABLES
  phase, travelling, arrived,  \* of Transport
  param,       \* param
  stage,       \* "warmUp", "measure", "drain", "judged", "netrace" or "done"
  at,          \* "head" of the loop, or past it in its "body", with run_one_cycle to come
  i,           \* index of the loop
  rate,        \* message_per_cycle(), in 1/Unit packets
  pkt_for_injection,                \* in 1/Unit packets
  all_message_num, message_arrived, message_timeout,
  cursor,      \* packets read from the netrace
  saturated, verdict,               \* verdict of the drain: "open", "none" or "possible"
  carried      \* history: packets counted in other counters than their arrival

Net == INSTANCE Transport

transport == <<phase, travelling, arrived>>
counters == <<all_message_num, message_arrived, message_timeout>>
main == <<param, stage, at, i, rate, pkt_for_injection, cursor, saturated, verdict>>
vars == <<transport, main, counters, carried>>

Init ==
  /\ Net!Init
  /\ param \in Params
  /\ stage = IF param.traffic = "netrace" THEN "netrace" ELSE "warmUp"
  /\ at = "head" /\ i = 0
  /\ rate = param.increment
  /\ pkt_for_injection = 0
  /\ all_message_num = 0 /\ message_arrived = 0 /\ message_timeout = 0
  /\ cursor = 0
  /\ saturated = FALSE /\ verdict = "open" /\ carried = 0

VectorSize == travelling + arrived

\* Cycles of the loop for which genMes has run.
Begun == IF at = "body" THEN i + 1 ELSE i

-----------------------------------------------------------------------------
(* genMes                                                                  *)

\* Packets that one step of the injection loop adds.
Burst ==
  CASE param.traffic = "ring_all_reduce" -> param.traffic_scale
    [] param.traffic = "ring_all_reduce_bi" -> 2 * param.traffic_scale
    [] OTHER -> 1

\* Mutant: a packet is sent as soon as any part of it is due.
StepsRoundedUp(d) ==
  IF param.traffic \in Rings
    THEN IF d > 0 THEN (d - 1) \div (Burst * Unit) ELSE 0
    ELSE (d + Unit - 1) \div Unit

\* Steps of the injection loop from d on: while at least one packet is due for
\* a pattern, while more than a step is due for a ring.
Steps(d) ==
  IF param.traffic \in Rings
    THEN IF d > 0 THEN (d - 1) \div (Burst * Unit) ELSE 0
    ELSE d \div Unit

\* Mutant: the remainder is dropped.
InjectDropsRest ==
  LET due == pkt_for_injection + rate
      n == Steps(due) * Burst
  IN /\ pkt_for_injection' = IF n > 0 THEN 0 ELSE due
     /\ all_message_num' = all_message_num + n
     /\ Net!Generate(n)
     /\ UNCHANGED cursor

Inject ==
  LET due == pkt_for_injection + rate
      n == Steps(due) * Burst
  IN /\ pkt_for_injection' = due - n * Unit
     /\ all_message_num' = all_message_num + n
     /\ Net!Generate(n)
     /\ UNCHANGED cursor

\* latest_active_packet_cycle after k packets were read.
Stamp(k) == IF k = 0 THEN 0 ELSE param.trace[k].cycle

\* Mutant: one packet a cycle.
ReadToOnce(k) ==
  IF i <= param.num_cycles /\ Stamp(k) = i /\ k < Len(param.trace) THEN k + 1 ELSE k

\* nt_read_packet until a packet of another cycle has been read, or the file
\* is at its end.
ReadTo(k) ==
  IF i > param.num_cycles THEN k
  ELSE Min({m \in k .. Len(param.trace) : Stamp(m) # i \/ m = Len(param.trace)})

\* Packets without a size, and those to their own source, are skipped.
Netrace ==
  LET last == ReadTo(cursor)
      n == Cardinality({m \in cursor + 1 .. last : param.trace[m].kind = "packet"})
  IN /\ cursor' = last
     /\ all_message_num' = all_message_num + n
     /\ Net!Generate(n)
     /\ UNCHANGED pkt_for_injection

-----------------------------------------------------------------------------
(* One cycle: the head of the loop with genMes, then run_one_cycle.        *)

LoopGoesOn ==
  CASE stage = "warmUp" -> i < param.simulation_time \div 2
    [] stage = "measure" -> i < param.simulation_time /\ message_timeout < param.timeout_limit
    [] stage = "drain" -> i < 2 * param.simulation_time /\ (i = 0 \/ VectorSize # 0)
    [] stage = "netrace" -> i < param.num_cycles + Slack
    [] OTHER -> FALSE

AtHead == phase = "serial" /\ at = "head"

GenMes ==
  /\ AtHead /\ LoopGoesOn
  /\ \/ stage \in {"warmUp", "measure"} /\ Inject
     \/ stage = "netrace" /\ Netrace
     \/ stage = "drain" /\ UNCHANGED <<pkt_for_injection, all_message_num, cursor, transport>>
  /\ at' = "body"
  /\ UNCHANGED <<param, stage, i, rate, message_arrived, message_timeout, saturated, verdict,
                 carried>>

StartCycle ==
  /\ at = "body"
  /\ Net!Release
  /\ UNCHANGED <<main, counters, carried>>

\* A packet arrives in its update.
Receive ==
  /\ Net!Arrive
  /\ message_arrived' = message_arrived + 1
  /\ UNCHANGED <<main, all_message_num, message_timeout, carried>>

\* A packet that does not arrive has waited for timeout_time_ cycles at its hop.
Timeout ==
  /\ phase = "update"
  /\ travelling > 0 /\ message_timeout < MaxTimeouts
  /\ message_timeout' = message_timeout + 1
  /\ UNCHANGED <<transport, main, all_message_num, message_arrived, carried>>

FinishCycle ==
  /\ Net!EndCycle
  /\ at' = "head" /\ i' = i + 1
  /\ UNCHANGED <<param, stage, rate, pkt_for_injection, cursor, saturated, verdict, counters,
                 carried>>

-----------------------------------------------------------------------------
(* Between the loops.                                                      *)

\* Mutant: the counter of arrivals goes on from the warm-up.
WarmedUpKeepsArrived ==
  /\ AtHead /\ stage = "warmUp" /\ ~LoopGoesOn
  /\ stage' = "measure" /\ i' = 0
  /\ pkt_for_injection' = 0
  /\ all_message_num' = 0 /\ message_timeout' = 0
  /\ carried' = travelling
  /\ UNCHANGED <<transport, param, at, rate, cursor, saturated, verdict, message_arrived>>

\* TM->reset after the warm-up; the packets under way stay.
WarmedUp ==
  /\ AtHead /\ stage = "warmUp" /\ ~LoopGoesOn
  /\ stage' = "measure" /\ i' = 0
  /\ pkt_for_injection' = 0
  /\ all_message_num' = 0 /\ message_arrived' = 0 /\ message_timeout' = 0
  /\ carried' = travelling
  /\ UNCHANGED <<transport, param, at, rate, cursor, saturated, verdict>>

\* Mutant: only the packets that timed out count against the rate.
JudgeByTimeouts ==
  /\ AtHead /\ stage = "measure" /\ ~LoopGoesOn
  /\ saturated' = (message_arrived < message_timeout * 5)
  /\ stage' = IF saturated' /\ Debug THEN "drain" ELSE "judged"
  /\ i' = 0
  /\ UNCHANGED <<transport, param, at, rate, pkt_for_injection, cursor, verdict, counters,
                 carried>>

\* The test for saturation, then the drain of a DEBUG build.
Judge ==
  /\ AtHead /\ stage = "measure" /\ ~LoopGoesOn
  /\ saturated' = (message_arrived < (message_timeout + VectorSize) * 5)
  /\ stage' = IF saturated' /\ Debug THEN "drain" ELSE "judged"
  /\ i' = 0
  /\ UNCHANGED <<transport, param, at, rate, pkt_for_injection, cursor, verdict, counters,
                 carried>>

\* Mutant: the verdict depends on whether the loop was left early.
DrainedByIndex ==
  /\ AtHead /\ stage = "drain" /\ ~LoopGoesOn
  /\ verdict' = IF i < 2 * param.simulation_time THEN "none" ELSE "possible"
  /\ stage' = "judged"
  /\ UNCHANGED <<transport, param, at, i, rate, pkt_for_injection, cursor, saturated,
                 counters, carried>>

Drained ==
  /\ AtHead /\ stage = "drain" /\ ~LoopGoesOn
  /\ verdict' = IF VectorSize = 0 THEN "none" ELSE "possible"
  /\ stage' = "judged"
  /\ UNCHANGED <<transport, param, at, i, rate, pkt_for_injection, cursor, saturated,
                 counters, carried>>

\* Mutant: the rate stays.
NextRateSame ==
  /\ stage = "judged"
  /\ Net!Clear
  /\ stage' = IF saturated THEN "done" ELSE "warmUp"
  /\ i' = 0
  /\ carried' = message_arrived - all_message_num
  /\ UNCHANGED <<param, at, rate, pkt_for_injection, cursor, saturated, verdict, counters>>

\* All packets are deleted, the network is reset, and the next rate begins
\* unless the network was saturated.
NextRate ==
  /\ stage = "judged"
  /\ Net!Clear
  /\ IF saturated THEN stage' = "done" /\ UNCHANGED rate
     ELSE stage' = "warmUp" /\ rate' = rate + param.increment
  /\ i' = 0
  /\ carried' = message_arrived - all_message_num
  /\ UNCHANGED <<param, at, pkt_for_injection, cursor, saturated, verdict, counters>>

TraceEnds ==
  /\ AtHead /\ stage = "netrace" /\ ~LoopGoesOn
  /\ stage' = "done"
  /\ UNCHANGED <<transport, param, at, i, rate, pkt_for_injection, cursor, saturated,
                 verdict, counters, carried>>

\* main has returned.
Returned == stage = "done" /\ UNCHANGED vars

MainStep ==
  \/ GenMes \/ StartCycle \/ FinishCycle
  \/ WarmedUp \/ Judge \/ Drained \/ NextRate \/ TraceEnds

Next == MainStep \/ Receive \/ Timeout \/ Returned

\* main goes on; nothing is assumed about arrivals.
Spec == Init /\ [][Next]_vars /\ WF_vars(MainStep)
=============================================================================
