---------------------------- MODULE BufferProps ----------------------------
(***************************************************************************)
(* What the atomic operations of a buffer have to guarantee.               *)
(***************************************************************************)
EXTENDS BufferAtomics, FiniteSetsExt

\* Type invariant; vc_buffer_ is a signed integer that never goes below zero.
TypeOK ==
  /\ credit \in Nat
  /\ used \in [Links -> BOOLEAN]
  /\ op \in [Packets -> Operations \cup {Idle}]
  /\ holds \in [Packets -> SUBSET ({"credit"} \cup Links)]
  /\ calls \in [Packets -> 0 .. MaxCalls]
  /\ pc \in [Packets -> {"idle", "load", "cas"}]
  /\ \A p \in Packets : pc[p] = "idle" <=> op[p] = Idle
  /\ local \in [Packets -> Int]
  /\ weak \in 0 .. MaxWeak

\* No credit is lost and none is invented, however the loads and swaps of
\* allocate_buffer and release_buffer interleave; this is what the assertion
\* at the end of release_buffer relies on.
CreditConserved ==
  LET holders == {p \in Packets : "credit" \in holds[p]} IN
  credit + MapThenSumSet(LAMBDA p : Length[p], holders) = BufferSize

\* A link that is marked used has exactly one owner, and a free one none.
LinkHasOneOwner ==
  \A l \in Links :
    /\ used[l] <=> \E p \in Packets : l \in holds[p]
    /\ \A p, q \in Packets : l \in holds[p] /\ l \in holds[q] => p = q

\* The loops behave like the one-step operations of BufferSpec: in
\* particular an allocation is refused only at a moment when there really is
\* too little room, and every operation returns.
Abstract == INSTANCE BufferSpec
ImplementsBufferSpec == Abstract!Spec
=============================================================================
