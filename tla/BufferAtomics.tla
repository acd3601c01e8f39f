--------------------------- MODULE BufferAtomics ---------------------------
(***************************************************************************)
(* The operations of Buffer as buffer.cpp writes them: a load, then        *)
(* compare-and-swap until it succeeds (credits, compare_exchange_weak), or *)
(* once (links, compare_exchange_strong).  Every access of an atomic is a  *)
(* step; a packet is updated by one thread, so the packet names the        *)
(* thread.                                                                 *)
(***************************************************************************)
EXTENDS Integers

CONSTANTS
  Packets,      \* packets that use the buffer
  Length,       \* length_ of a packet, in flits
  BufferSize,   \* buffer_size_
  MaxCalls,     \* bound on the operations one packet calls
  MaxWeak       \* bound on the spurious failures of compare_exchange_weak

ASSUME BufferAssumption ==
  /\ BufferSize \in Nat
  /\ Length \in [Packets -> Nat \ {0}]
  /\ MaxCalls \in Nat
  /\ MaxWeak \in Nat

Links == {"in", "sw"}
Idle == <<"none", "none">>
Operations == {"allocate", "release"} \X ({"credit"} \cup Links)

VARIABLES
  credit,   \* vc_buffer_[vcb]
  used,     \* in_link_used_ and sw_link_used_
  op,       \* the operation a packet is in, or Idle
  holds,    \* the resources a packet holds
  calls,    \* operations a packet has called so far
  pc,       \* "idle", "load" or "cas"
  local,    \* the local variable buffer of allocate_buffer, release_buffer
  weak      \* spurious failures so far

vars == <<credit, used, op, holds, calls, pc, local, weak>>

Init ==
  /\ credit = BufferSize
  /\ used = [l \in Links |-> FALSE]
  /\ op = [p \in Packets |-> Idle]
  /\ holds = [p \in Packets |-> {}]
  /\ calls = [p \in Packets |-> 0]
  /\ pc = [p \in Packets |-> "idle"]
  /\ local = [p \in Packets |-> 0]
  /\ weak = 0

\* System::update allocates what the packet lacks and releases what it holds.
MayCall(p, o) == o[2] \in holds[p] <=> o[1] = "release"

Call(p) ==
  /\ pc[p] = "idle"
  /\ calls[p] < MaxCalls
  /\ \E o \in Operations : MayCall(p, o) /\ op' = [op EXCEPT ![p] = o]
  /\ calls' = [calls EXCEPT ![p] = @ + 1]
  /\ pc' = [pc EXCEPT ![p] = "load"]
  /\ UNCHANGED <<credit, used, holds, local, weak>>

In(p, location, verb, r) == pc[p] = location /\ op[p] = <<verb, r>>

Return(p) ==
  /\ pc' = [pc EXCEPT ![p] = "idle"]
  /\ op' = [op EXCEPT ![p] = Idle]
  /\ UNCHANGED <<calls, weak>>

Take(p, r) == holds' = [holds EXCEPT ![p] = @ \cup {r}]
Give(p, r) == holds' = [holds EXCEPT ![p] = @ \ {r}]

-----------------------------------------------------------------------------
(* allocate_buffer, release_buffer                                         *)

\* The loop head of allocate_buffer with value b in the local variable: give
\* up if b is too small, else try to swap.
TryWith(p, b) ==
  /\ local' = [local EXCEPT ![p] = b]
  /\ IF b < Length[p]
       THEN Return(p)
       ELSE /\ pc' = [pc EXCEPT ![p] = "cas"]
            /\ UNCHANGED <<op, calls, weak>>
  /\ UNCHANGED <<credit, used, holds>>

AllocateLoad(p) == In(p, "load", "allocate", "credit") /\ TryWith(p, credit)

\* Mutant: the value to store is computed from the stale local variable and
\* stored without a comparison.
AllocateStore(p) ==
  /\ In(p, "cas", "allocate", "credit")
  /\ credit' = local[p] - Length[p]
  /\ Take(p, "credit")
  /\ Return(p)
  /\ UNCHANGED <<used, local>>

AllocateSwap(p) ==
  /\ In(p, "cas", "allocate", "credit")
  /\ credit = local[p]
  /\ credit' = local[p] - Length[p]
  /\ Take(p, "credit")
  /\ Return(p)
  /\ UNCHANGED <<used, local>>

\* Mutant: the loop does not test the refreshed value again.
AllocateRetryUntested(p) ==
  /\ In(p, "cas", "allocate", "credit")
  /\ credit # local[p]
  /\ local' = [local EXCEPT ![p] = credit]
  /\ UNCHANGED <<credit, used, op, holds, calls, pc, weak>>

\* A failed swap leaves the present value in the local variable.
AllocateRetry(p) ==
  /\ In(p, "cas", "allocate", "credit")
  /\ credit # local[p]
  /\ TryWith(p, credit)

ReleaseLoad(p) ==
  /\ In(p, "load", "release", "credit")
  /\ local' = [local EXCEPT ![p] = credit]
  /\ pc' = [pc EXCEPT ![p] = "cas"]
  /\ UNCHANGED <<credit, used, op, holds, calls, weak>>

ReleaseSwap(p) ==
  /\ In(p, "cas", "release", "credit")
  /\ credit = local[p]
  /\ credit' = local[p] + Length[p]
  /\ Give(p, "credit")
  /\ Return(p)
  /\ UNCHANGED <<used, local>>

\* Mutant: the local variable is not refreshed, so the loop never ends.
ReleaseRetryStale(p) ==
  /\ In(p, "cas", "release", "credit")
  /\ credit # local[p]
  /\ UNCHANGED vars

ReleaseRetry(p) ==
  /\ In(p, "cas", "release", "credit")
  /\ credit # local[p]
  /\ local' = [local EXCEPT ![p] = credit]
  /\ UNCHANGED <<credit, used, op, holds, calls, pc, weak>>

\* compare_exchange_weak may fail although the value is the expected one.
SpuriousFailure(p) ==
  /\ pc[p] = "cas" /\ op[p][2] = "credit"
  /\ credit = local[p]
  /\ weak < MaxWeak
  /\ weak' = weak + 1
  /\ UNCHANGED <<credit, used, op, holds, calls, pc, local>>

-----------------------------------------------------------------------------
(* allocate_in_link, allocate_sw_link, release_in_link, release_sw_link    *)

LinkLoad(p, l) ==
  /\ In(p, "load", "allocate", l)
  /\ IF used[l]
       THEN Return(p)
       ELSE /\ pc' = [pc EXCEPT ![p] = "cas"]
            /\ UNCHANGED <<op, calls, weak>>
  /\ UNCHANGED <<credit, used, holds, local>>

\* Mutant: the link is taken because the load saw it free.
LinkSetUntested(p, l) ==
  /\ In(p, "cas", "allocate", l)
  /\ used' = [used EXCEPT ![l] = TRUE]
  /\ Take(p, l)
  /\ Return(p)
  /\ UNCHANGED <<credit, local>>

LinkSwap(p, l) ==
  /\ In(p, "cas", "allocate", l)
  /\ IF used[l]
       THEN UNCHANGED <<used, holds>>
       ELSE used' = [used EXCEPT ![l] = TRUE] /\ Take(p, l)
  /\ Return(p)
  /\ UNCHANGED <<credit, local>>

LinkStore(p, l) ==
  /\ In(p, "load", "release", l)
  /\ used' = [used EXCEPT ![l] = FALSE]
  /\ Give(p, l)
  /\ Return(p)
  /\ UNCHANGED <<credit, local>>

-----------------------------------------------------------------------------
Access(p) ==
  \/ AllocateLoad(p) \/ AllocateSwap(p) \/ AllocateRetry(p)
  \/ ReleaseLoad(p) \/ ReleaseSwap(p) \/ ReleaseRetry(p)
  \/ \E l \in Links : LinkLoad(p, l) \/ LinkSwap(p, l) \/ LinkStore(p, l)

Next == \E p \in Packets : Call(p) \/ Access(p) \/ SpuriousFailure(p)

Fairness == \A p \in Packets : WF_vars(Access(p))

Spec == Init /\ [][Next]_vars /\ Fairness
=============================================================================
