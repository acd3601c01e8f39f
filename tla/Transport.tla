----------------------------- MODULE Transport -----------------------------
(***************************************************************************)
(* What the simulation loop may expect of the network, by the number of    *)
(* packets: packets enter and are removed in the serial part of a cycle,   *)
(* they arrive while the cycle updates packets, not more of them in one    *)
(* cycle than links lead to destinations, and if time goes on they all     *)
(* arrive.                                                                 *)
(***************************************************************************)
EXTENDS Integers

CONSTANT Capacity   \* input buffers of the network: each can see one packet arrive in a cycle

VARIABLES
  phase,      \* "serial" or "update"
  travelling, \* packets of the vector that are not finished_
  arrived     \* packets of the vector that are finished_

transport == <<phase, travelling, arrived>>

Init == phase = "serial" /\ travelling = 0 /\ arrived = 0

Generate(n) ==
  /\ phase = "serial"
  /\ travelling' = travelling + n
  /\ UNCHANGED <<phase, arrived>>

\* The serial loop of run_one_cycle deletes the packets that have arrived.
Release ==
  /\ phase = "serial"
  /\ phase' = "update" /\ arrived' = 0
  /\ UNCHANGED travelling

Arrive ==
  /\ phase = "update"
  /\ travelling > 0 /\ arrived < Capacity
  /\ travelling' = travelling - 1 /\ arrived' = arrived + 1
  /\ UNCHANGED phase

EndCycle ==
  /\ phase = "update"
  /\ phase' = "serial"
  /\ UNCHANGED <<travelling, arrived>>

\* All packets are deleted and the network is reset.
Clear ==
  /\ phase = "serial"
  /\ travelling' = 0 /\ arrived' = 0
  /\ UNCHANGED phase

Next ==
  \/ travelling' > travelling /\ Generate(travelling' - travelling)
  \/ Release \/ Arrive \/ EndCycle \/ Clear

Fairness ==
  WF_transport(Release) /\ WF_transport(EndCycle) /\ SF_transport(Arrive)

\* Without the promise that packets arrive.
Safety == Init /\ [][Next]_transport

Spec == Safety /\ Fairness
=============================================================================
