------------------------------- MODULE Cycle -------------------------------
(***************************************************************************)
(* What one simulation cycle promises, whatever thread does the work: a    *)
(* serial phase in which the packet vector is rebuilt, then a phase in     *)
(* which every packet of the vector is updated exactly once, in any order, *)
(* and the next serial phase begins only after the last of them.           *)
(***************************************************************************)
EXTENDS Integers

CONSTANT MaxPackets       \* bound on the length of the packet vector, a natural number

VARIABLES
  phase,    \* "serial", "update" or "done"
  todo      \* indices of the packets that this cycle has still to update

cycleVars == <<phase, todo>>

Init ==
  /\ phase = "serial"
  /\ todo = {}

\* The vector has been rebuilt (injected packets appended, arrived ones gone).
BeginUpdate ==
  /\ phase = "serial"
  /\ phase' = "update"
  /\ \E n \in 0 .. MaxPackets : todo' = 0 .. n - 1

UpdateOne ==
  /\ phase = "update"
  /\ \E p \in todo : todo' = todo \ {p}
  /\ UNCHANGED phase

EndUpdate ==
  /\ phase = "update"
  /\ todo = {}
  /\ phase' = "serial"
  /\ UNCHANGED todo

Stop ==
  /\ phase = "serial"
  /\ phase' = "done"
  /\ UNCHANGED todo

Next == BeginUpdate \/ UpdateOne \/ EndUpdate \/ Stop

Fairness == WF_cycleVars(UpdateOne) /\ WF_cycleVars(EndUpdate)

Safety == Init /\ [][Next]_cycleVars

Spec == Safety /\ Fairness
=============================================================================
