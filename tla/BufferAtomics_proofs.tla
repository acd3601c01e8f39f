------------------------ MODULE BufferAtomics_proofs ------------------------
(***************************************************************************)
(* For any number of packets of any length: a link has one owner, credits  *)
(* never run below zero and are never lost, and the load /                 *)
(* compare-and-swap code implements the one-step operations of BufferSpec. *)
(***************************************************************************)
EXTENDS BufferProps, Lemmas

\* What a packet inside an operation knows: it lacks what it allocates, holds
\* what it releases, and tries to take credits only from a value that was
\* large enough.
Calling ==
  \A p \in Packets :
    /\ op[p] # Idle => op[p] \in Operations /\ MayCall(p, op[p])
    /\ In(p, "cas", "allocate", "credit") => Length[p] <= local[p]
    /\ pc[p] = "cas" => op[p] \in {<<"allocate", "credit">>, <<"release", "credit">>}
                                    \cup {<<"allocate", l>> : l \in Links}

BufferInv == TypeOK /\ Calling /\ LinkHasOneOwner

USE BufferAssumption DEF Links, Idle, Operations, In

LEMMA InitStep == Init => BufferInv
BY DEF Init, BufferInv, TypeOK, Calling, MayCall, LinkHasOneOwner

LEMMA CallStep ==
  ASSUME BufferInv, NEW p \in Packets, Call(p)
  PROVE  BufferInv'
<1> USE DEF BufferInv
<1>1. PICK o \in Operations : MayCall(p, o) /\ op' = [op EXCEPT ![p] = o]
  BY DEF Call
<1>2. TypeOK'
  BY <1>1 DEF Call, TypeOK
<1>3. Calling'
  BY <1>1 DEF Call, TypeOK, Calling, MayCall
<1>4. LinkHasOneOwner'
  BY DEF Call, LinkHasOneOwner
<1> QED
  BY <1>2, <1>3, <1>4

\* Steps that change neither a credit nor a link nor who holds what.
LEMMA QuietStep ==
  ASSUME BufferInv, NEW p \in Packets,
         \/ AllocateLoad(p) \/ AllocateRetry(p) \/ ReleaseLoad(p) \/ ReleaseRetry(p)
         \/ SpuriousFailure(p) \/ \E l \in Links : LinkLoad(p, l)
  PROVE  BufferInv'
<1> USE DEF BufferInv
<1>1. UNCHANGED <<credit, used, holds>>
  BY DEF AllocateLoad, AllocateRetry, TryWith, ReleaseLoad, ReleaseRetry, SpuriousFailure, LinkLoad
<1>2. TypeOK'
  BY SMTT(30) DEF AllocateLoad, AllocateRetry, TryWith, ReleaseLoad, ReleaseRetry, SpuriousFailure,
     LinkLoad, Return, TypeOK
<1>3. Calling'
  BY <1>1 DEF AllocateLoad, AllocateRetry, TryWith, ReleaseLoad, ReleaseRetry, SpuriousFailure,
     LinkLoad, Return, TypeOK, Calling, MayCall
<1>4. LinkHasOneOwner'
  BY <1>1 DEF LinkHasOneOwner
<1> QED
  BY <1>2, <1>3, <1>4

LEMMA CreditStep ==
  ASSUME BufferInv, NEW p \in Packets, AllocateSwap(p) \/ ReleaseSwap(p)
  PROVE  BufferInv'
<1> USE DEF BufferInv
<1>1. TypeOK'
  BY SMTT(30) DEF AllocateSwap, ReleaseSwap, Take, Give, Return, TypeOK, Calling
<1>2. Calling'
  BY DEF AllocateSwap, ReleaseSwap, Take, Give, Return, TypeOK, Calling, MayCall
<1>3. LinkHasOneOwner'
  <2>1. \A q \in Packets, l \in Links : l \in holds'[q] <=> l \in holds[q]
    BY DEF AllocateSwap, ReleaseSwap, Take, Give, TypeOK
  <2>2. used' = used
    BY DEF AllocateSwap, ReleaseSwap
  <2> QED
    BY <2>1, <2>2 DEF LinkHasOneOwner
<1> QED
  BY <1>1, <1>2, <1>3

LEMMA LinkStep ==
  ASSUME BufferInv, NEW p \in Packets, NEW l \in Links, LinkSwap(p, l) \/ LinkStore(p, l)
  PROVE  BufferInv'
<1> USE DEF BufferInv
<1>1. TypeOK'
  <2>1. holds' \in [Packets -> SUBSET ({"credit"} \cup Links)]
    BY DEF LinkSwap, LinkStore, Take, Give, TypeOK
  <2>2. used' \in [Links -> BOOLEAN]
    BY DEF LinkSwap, LinkStore, TypeOK
  <2> QED
    BY <2>1, <2>2 DEF LinkSwap, LinkStore, Return, TypeOK
<1>2. Calling'
  BY DEF LinkSwap, LinkStore, Take, Give, Return, TypeOK, Calling, MayCall
<1>3. LinkHasOneOwner'
  <2>1. CASE LinkSwap(p, l) /\ used[l]
    BY <2>1 DEF LinkSwap, LinkHasOneOwner
  <2>2. CASE LinkSwap(p, l) /\ ~used[l]
    <3>1. \A q \in Packets, m \in Links :
            m \in holds'[q] <=> m \in holds[q] \/ (q = p /\ m = l)
      BY <2>2 DEF LinkSwap, Take, TypeOK
    <3>2. \A m \in Links : used'[m] <=> used[m] \/ m = l
      BY <2>2 DEF LinkSwap, TypeOK
    <3>3. \A q \in Packets : l \notin holds[q]
      BY <2>2 DEF LinkHasOneOwner
    <3> QED
      BY <3>1, <3>2, <3>3 DEF LinkHasOneOwner
  <2>3. CASE LinkStore(p, l)
    <3>1. l \in holds[p]
      BY <2>3 DEF LinkStore, Calling, MayCall
    <3> QED
      BY <2>3, <3>1 DEF LinkStore, Give, LinkHasOneOwner, TypeOK
  <2> QED
    BY <2>1, <2>2, <2>3
<1> QED
  BY <1>1, <1>2, <1>3

LEMMA NextStep == BufferInv /\ [Next]_vars => BufferInv'
<1> SUFFICES ASSUME BufferInv, [Next]_vars PROVE BufferInv'
  OBVIOUS
<1>1. CASE UNCHANGED vars
  BY <1>1 DEF vars, BufferInv, TypeOK, Calling, MayCall, LinkHasOneOwner
<1>2. ASSUME NEW p \in Packets, Call(p) \/ Access(p) \/ SpuriousFailure(p)
      PROVE  BufferInv'
  BY <1>2, CallStep, QuietStep, CreditStep, LinkStep DEF Access
<1> QED
  BY <1>1, <1>2 DEF Next

THEOREM BufferInvariant == Spec => []BufferInv
BY InitStep, NextStep, PTL DEF Spec

\* Every variable keeps its type, in any number of packets.
THEOREM TypeCorrect == Spec => []TypeOK
<1>1. BufferInv => TypeOK
  BY DEF BufferInv
<1> QED
  BY <1>1, BufferInvariant, PTL

\* The test-and-set of in_link_used_ and sw_link_used_ is a lock: a used link
\* has exactly one owner.
THEOREM OneOwner == Spec => []LinkHasOneOwner
<1>1. BufferInv => LinkHasOneOwner
  BY DEF BufferInv
<1> QED
  BY <1>1, BufferInvariant, PTL

-----------------------------------------------------------------------------
(* The credits.                                                            *)

Holders == {p \in Packets : "credit" \in holds[p]}

\* Each step adds at most one packet to those that hold credits, so they are
\* finitely many, however many packets there are.
CreditInv ==
  /\ IsFiniteSet(Holders)
  /\ credit + SumOf(Length, Holders) = BufferSize

LEMMA InitCredits == Init => CreditInv
<1> SUFFICES ASSUME Init PROVE CreditInv
  OBVIOUS
<1>1. Holders = {}
  BY DEF Init, Holders
<1>2. IsFiniteSet({}) /\ SumOf(Length, {}) = 0
  <2>1. IsFiniteSet({})
    BY FS_EmptySet
  <2>2. \A x \in {} : Length[x] \in Int
    OBVIOUS
  <2> QED
    BY <2>1, <2>2, SumFacts
<1> QED
  BY <1>1, <1>2 DEF Init, CreditInv

\* The sum with one more packet.
LEMMA OneMore ==
  ASSUME NEW H \in SUBSET Packets, IsFiniteSet(H), NEW p \in Packets, p \notin H
  PROVE  /\ IsFiniteSet(H \cup {p})
         /\ SumOf(Length, H) \in Int
         /\ SumOf(Length, H \cup {p}) = Length[p] + SumOf(Length, H)
<1>1. IsFiniteSet(H \cup {p})
  BY FS_AddElement
<1>2. \A x \in H \cup {p} : Length[x] \in Int
  OBVIOUS
<1>3. /\ SumOf(Length, H) \in Int
      /\ SumOf(Length, H \cup {p}) = Length[p] + SumOf(Length, (H \cup {p}) \ {p})
  BY <1>1, <1>2, SumFacts
<1>4. (H \cup {p}) \ {p} = H
  OBVIOUS
<1> QED
  BY <1>1, <1>3, <1>4

LEMMA TakeCredits ==
  ASSUME BufferInv, CreditInv, NEW p \in Packets, AllocateSwap(p)
  PROVE  CreditInv'
<1>1. p \notin Holders
  BY DEF BufferInv, Calling, MayCall, AllocateSwap, Holders
<1>2. Holders' = Holders \cup {p}
  BY DEF AllocateSwap, Take, BufferInv, TypeOK, Holders
<1>3. credit' = credit - Length[p] /\ credit \in Int /\ Length[p] \in Int
  BY DEF AllocateSwap, BufferInv, TypeOK
<1>4. /\ IsFiniteSet(Holders \cup {p})
      /\ SumOf(Length, Holders) \in Int
      /\ SumOf(Length, Holders \cup {p}) = Length[p] + SumOf(Length, Holders)
  <2>1. Holders \in SUBSET Packets
    BY DEF Holders
  <2> QED
    BY <1>1, <2>1, OneMore DEF CreditInv
<1>5. credit' + SumOf(Length, Holders \cup {p}) = BufferSize
  BY <1>3, <1>4 DEF CreditInv
<1> QED
  BY <1>2, <1>4, <1>5 DEF CreditInv

LEMMA GiveCredits ==
  ASSUME BufferInv, CreditInv, NEW p \in Packets, ReleaseSwap(p)
  PROVE  CreditInv'
<1> DEFINE Rest == Holders \ {p}
<1>1. Holders = Rest \cup {p}
  BY DEF BufferInv, Calling, MayCall, ReleaseSwap, Holders
<1>2. Holders' = Rest
  BY DEF ReleaseSwap, Give, BufferInv, TypeOK, Holders
<1>3. credit' = credit + Length[p] /\ credit \in Int /\ Length[p] \in Int
  BY DEF ReleaseSwap, BufferInv, TypeOK
<1>4. IsFiniteSet(Rest) /\ Rest \in SUBSET Packets /\ p \notin Rest
  BY FS_Subset DEF CreditInv, Holders
<1> HIDE DEF Rest
<1>5. /\ SumOf(Length, Rest) \in Int
      /\ SumOf(Length, Holders) = Length[p] + SumOf(Length, Rest)
  BY <1>1, <1>4, OneMore
<1>6. credit' + SumOf(Length, Rest) = BufferSize
  BY <1>3, <1>5 DEF CreditInv
<1> QED
  BY <1>2, <1>4, <1>6 DEF CreditInv

\* Every other step leaves the credits and those that hold them alone.
LEMMA NextCredits == BufferInv /\ CreditInv /\ [Next]_vars => CreditInv'
<1> SUFFICES ASSUME BufferInv, CreditInv, [Next]_vars PROVE CreditInv'
  OBVIOUS
<1>1. ASSUME UNCHANGED credit, \A p \in Packets : "credit" \in holds'[p] <=> "credit" \in holds[p]
      PROVE  CreditInv'
  <2>1. Holders' = Holders
    BY <1>1 DEF Holders
  <2> QED
    BY <1>1, <2>1 DEF CreditInv
<1>2. CASE UNCHANGED <<credit, holds>>
  BY <1>1, <1>2
<1>3. ASSUME NEW p \in Packets, NEW l \in Links, LinkSwap(p, l) \/ LinkStore(p, l)
      PROVE  CreditInv'
  <2>1. UNCHANGED credit
    BY <1>3 DEF LinkSwap, LinkStore
  <2>2. \A q \in Packets : "credit" \in holds'[q] <=> "credit" \in holds[q]
    BY <1>3 DEF LinkSwap, LinkStore, Take, Give, BufferInv, TypeOK
  <2> QED
    BY <1>1, <2>1, <2>2
<1>4. ASSUME NEW p \in Packets, Call(p) \/ Access(p) \/ SpuriousFailure(p)
      PROVE  CreditInv'
  <2>1. CASE AllocateSwap(p) \/ ReleaseSwap(p)
    BY <2>1, TakeCredits, GiveCredits
  <2>2. CASE \E l \in Links : LinkSwap(p, l) \/ LinkStore(p, l)
    BY <1>3, <2>2
  <2>3. CASE \/ Call(p) \/ AllocateLoad(p) \/ AllocateRetry(p) \/ ReleaseLoad(p)
             \/ ReleaseRetry(p) \/ SpuriousFailure(p) \/ \E l \in Links : LinkLoad(p, l)
    BY <1>2, <2>3 DEF Call, AllocateLoad, AllocateRetry, TryWith, ReleaseLoad, ReleaseRetry,
       SpuriousFailure, LinkLoad
  <2> QED
    BY <1>4, <2>1, <2>2, <2>3 DEF Access
<1> QED
  BY <1>2, <1>4 DEF Next, vars

\* No credit is lost or invented, whatever the interleaving of the loads and
\* swaps of allocate_buffer and release_buffer and however many packets take
\* part: the assertion at the end of release_buffer never fails.
THEOREM CreditsConserved == Spec => []CreditConserved
<1>1. Spec => []CreditInv
  BY InitCredits, NextCredits, BufferInvariant, PTL DEF Spec
<1>2. CreditInv => CreditConserved
  BY DEF CreditInv, CreditConserved, SumOf, Holders
<1> QED
  BY <1>1, <1>2, PTL

-----------------------------------------------------------------------------
(* The refinement.                                                         *)

LEMMA AbstractStep ==
  ASSUME BufferInv, [Next]_vars
  PROVE  [Abstract!Next]_(Abstract!specVars)
<1> USE DEF BufferInv, Abstract!specVars, Abstract!Links, Abstract!Idle, Abstract!Operations
<1>1. CASE UNCHANGED vars
  BY <1>1 DEF vars
<1>2. ASSUME NEW p \in Packets, Call(p)
      PROVE  Abstract!Call(p)
  BY <1>2 DEF Call, MayCall, Abstract!Call, Abstract!MayCall, TypeOK
<1>3. ASSUME NEW p \in Packets, AllocateSwap(p) \/ ReleaseSwap(p)
      PROVE  Abstract!Perform(p)
  <2>1. CASE AllocateSwap(p)
    <3>1. Abstract!Allocate(p, "credit")
      BY <2>1 DEF AllocateSwap, Take, Return, Calling, Abstract!Allocate, Abstract!Available,
         Abstract!Take, Abstract!Return
    <3> QED
      BY <3>1 DEF Abstract!Perform
  <2>2. CASE ReleaseSwap(p)
    <3>1. Abstract!Release(p, "credit")
      BY <2>2 DEF ReleaseSwap, Give, Return, Abstract!Release, Abstract!Give, Abstract!Return
    <3> QED
      BY <3>1 DEF Abstract!Perform
  <2> QED
    BY <1>3, <2>1, <2>2
\* The point of an unsuccessful allocation is the load, or the failed swap,
\* that read a value too small.
<1>4. ASSUME NEW p \in Packets, AllocateLoad(p) \/ AllocateRetry(p), credit < Length[p]
      PROVE  Abstract!Perform(p)
  <2>1. Abstract!Refuse(p, "credit")
    BY <1>4 DEF AllocateLoad, AllocateRetry, TryWith, Return, TypeOK, Abstract!Refuse,
       Abstract!Available, Abstract!Return
  <2> QED
    BY <2>1 DEF Abstract!Perform
<1>5. ASSUME NEW p \in Packets,
             \/ (AllocateLoad(p) \/ AllocateRetry(p)) /\ ~(credit < Length[p])
             \/ ReleaseLoad(p) \/ ReleaseRetry(p) \/ SpuriousFailure(p)
      PROVE  UNCHANGED Abstract!specVars
  BY <1>5 DEF AllocateLoad, AllocateRetry, TryWith, ReleaseLoad, ReleaseRetry, SpuriousFailure
<1>6. ASSUME NEW p \in Packets, NEW l \in Links, LinkLoad(p, l) \/ LinkSwap(p, l) \/ LinkStore(p, l)
      PROVE  Abstract!Perform(p) \/ UNCHANGED Abstract!specVars
  <2>1. CASE LinkLoad(p, l) /\ ~used[l]
    BY <2>1 DEF LinkLoad
  <2>2. CASE (LinkLoad(p, l) \/ LinkSwap(p, l)) /\ used[l]
    <3>1. Abstract!Refuse(p, l)
      BY <2>2 DEF LinkLoad, LinkSwap, Return, Abstract!Refuse, Abstract!Available, Abstract!Return
    <3> QED
      BY <3>1 DEF Abstract!Perform
  <2>3. CASE LinkSwap(p, l) /\ ~used[l]
    <3>1. Abstract!Allocate(p, l)
      BY <2>3 DEF LinkSwap, Take, Return, Abstract!Allocate, Abstract!Available, Abstract!Take,
         Abstract!Return
    <3> QED
      BY <3>1 DEF Abstract!Perform
  <2>4. CASE LinkStore(p, l)
    <3>1. Abstract!Release(p, l)
      BY <2>4 DEF LinkStore, Give, Return, Abstract!Release, Abstract!Give, Abstract!Return
    <3> QED
      BY <3>1 DEF Abstract!Perform
  <2> QED
    BY <1>6, <2>1, <2>2, <2>3, <2>4
<1>7. ASSUME NEW p \in Packets, Call(p) \/ Access(p) \/ SpuriousFailure(p)
      PROVE  Abstract!Call(p) \/ Abstract!Perform(p) \/ UNCHANGED Abstract!specVars
  BY <1>2, <1>3, <1>4, <1>5, <1>6, <1>7 DEF Access
<1> QED
  BY <1>1, <1>7 DEF Next, Abstract!Next

\* Whatever the interleaving of loads and swaps, the operations of a buffer
\* behave as if each took effect in one step (the safety part of BufferSpec).
THEOREM ImplementsOneStepOperations == Spec => Abstract!Safety
<1>1. Init => Abstract!Init
  BY DEF Init, Abstract!Init, Abstract!Links, Abstract!Idle
<1> QED
  BY <1>1, AbstractStep, BufferInvariant, PTL DEF Spec, Abstract!Safety
=============================================================================
