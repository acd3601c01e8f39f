----------------------------- MODULE BufferSpec -----------------------------
(***************************************************************************)
(* What a Buffer promises to the packets that use it concurrently: each    *)
(* operation takes effect in one step, on the state of that moment.        *)
(* A buffer guards three resources: the credits of a VC (counted in flits, *)
(* a packet takes them for its whole length), the input link and the link  *)
(* to the switch (one packet at a time each).                              *)
(***************************************************************************)
EXTENDS Integers

CONSTANTS
  Packets,      \* packets that use the buffer
  Length,       \* length_ of a packet, in flits
  BufferSize,   \* buffer_size_
  MaxCalls      \* bound on the operations one packet calls

Links == {"in", "sw"}
Idle == <<"none", "none">>
Operations == {"allocate", "release"} \X ({"credit"} \cup Links)

VARIABLES
  credit,   \* vc_buffer_[vcb]
  used,     \* in_link_used_ and sw_link_used_
  op,       \* the operation a packet is in, or Idle
  holds,    \* the resources a packet holds
  calls     \* operations a packet has called so far

specVars == <<credit, used, op, holds, calls>>

Init ==
  /\ credit = BufferSize
  /\ used = [l \in Links |-> FALSE]
  /\ op = [p \in Packets |-> Idle]
  /\ holds = [p \in Packets |-> {}]
  /\ calls = [p \in Packets |-> 0]

\* System::update allocates what the packet lacks and releases what it holds.
MayCall(p, o) == o[2] \in holds[p] <=> o[1] = "release"

Call(p) ==
  /\ op[p] = Idle
  /\ calls[p] < MaxCalls
  /\ \E o \in Operations : MayCall(p, o) /\ op' = [op EXCEPT ![p] = o]
  /\ calls' = [calls EXCEPT ![p] = @ + 1]
  /\ UNCHANGED <<credit, used, holds>>

Return(p) == op' = [op EXCEPT ![p] = Idle] /\ UNCHANGED calls

Take(p, r) == holds' = [holds EXCEPT ![p] = @ \cup {r}] /\ Return(p)
Give(p, r) == holds' = [holds EXCEPT ![p] = @ \ {r}] /\ Return(p)

Available(p, r) == IF r = "credit" THEN Length[p] <= credit ELSE ~used[r]

Allocate(p, r) ==
  /\ op[p] = <<"allocate", r>>
  /\ Available(p, r)
  /\ credit' = IF r = "credit" THEN credit - Length[p] ELSE credit
  /\ used' = IF r = "credit" THEN used ELSE [used EXCEPT ![r] = TRUE]
  /\ Take(p, r)

Refuse(p, r) ==
  /\ op[p] = <<"allocate", r>>
  /\ ~Available(p, r)
  /\ Return(p)
  /\ UNCHANGED <<credit, used, holds>>

Release(p, r) ==
  /\ op[p] = <<"release", r>>
  /\ credit' = IF r = "credit" THEN credit + Length[p] ELSE credit
  /\ used' = IF r = "credit" THEN used ELSE [used EXCEPT ![r] = FALSE]
  /\ Give(p, r)

Perform(p) ==
  \E r \in {"credit"} \cup Links : Allocate(p, r) \/ Refuse(p, r) \/ Release(p, r)

Next == \E p \in Packets : Call(p) \/ Perform(p)

Safety == Init /\ [][Next]_specVars

\* A thread inside an operation goes on until it returns.
Spec == Safety /\ \A p \in Packets : WF_specVars(Perform(p))
=============================================================================
