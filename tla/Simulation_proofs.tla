-------------------------- MODULE Simulation_proofs --------------------------
(***************************************************************************)
(* For any parameters, capacity of the network and netrace: packets are    *)
(* conserved over warm-up, measuring and drain, the injection is the       *)
(* nominal one, the verdicts on saturation and on deadlock mean what they  *)
(* say, and no packet of a netrace misses its time stamp.  On every scale  *)
(* on which the generators find packets the packets are well addressed,    *)
(* the bit patterns permute the cores and the rings close.                 *)
(***************************************************************************)
EXTENDS SimulationProps, Lemmas

USE SimulationAssumption

-----------------------------------------------------------------------------
(* Arithmetic and sets.                                                    *)

\* Whole steps of b that fit into a.
LEMMA WholeSteps ==
  ASSUME NEW a \in Nat, NEW b \in Nat \ {0}
  PROVE  a \div b \in Nat /\ (a \div b) * b <= a /\ a < (a \div b) * b + b
OBVIOUS

LEMMA MultipleAdded ==
  ASSUME NEW q \in Nat, NEW n \in Nat, NEW b \in Nat \ {0}, q % b = 0
  PROVE  (q + n * b) % b = 0
<1>1. q = b * (q \div b)
  OBVIOUS
<1> DEFINE d == q \div b + n
<1>2. d \in Nat /\ q + n * b = b * d
  BY <1>1
<1>3. \A e \in Nat : (b * e) % b = 0
  OBVIOUS
<1> QED
  BY <1>2, <1>3

-----------------------------------------------------------------------------
(* The injection loop.                                                     *)

LEMMA BurstType ==
  ASSUME ParamType(param)
  PROVE  Burst \in Nat \ {0} /\ (param.traffic \notin Rings => Burst = 1)
<1>0. param.traffic_scale \in Nat \ {0}
  BY DEF ParamType
<1>1. CASE param.traffic = "ring_all_reduce"
  <2>1. Burst = param.traffic_scale
    BY <1>1 DEF Burst
  <2> QED
    BY <1>0, <1>1, <2>1 DEF Rings
<1>2. CASE param.traffic = "ring_all_reduce_bi"
  <2>1. Burst = 2 * param.traffic_scale
    BY <1>2, Zenon DEF Burst
  <2>2. 2 * param.traffic_scale \in Nat \ {0}
    BY ONLY <1>0
  <2>3. param.traffic \in Rings
    BY <1>2 DEF Rings
  <2> QED
    BY <2>1, <2>2, <2>3, Zenon
<1>3. CASE param.traffic \notin Rings
  BY <1>3 DEF Burst, Rings
<1> QED
  BY <1>1, <1>2, <1>3 DEF Rings

\* What the loop takes off the packets that are due, and what it leaves.
LEMMA InjectionStep ==
  ASSUME ParamType(param), NEW d \in Nat
  PROVE  /\ Steps(d) \in Nat
         /\ Steps(d) * Burst \in Nat
         /\ d - (Steps(d) * Burst) * Unit \in Nat
         /\ IF param.traffic \in Rings
              THEN d - (Steps(d) * Burst) * Unit <= Burst * Unit
              ELSE d - (Steps(d) * Burst) * Unit < Unit
<1> DEFINE BU == Burst * Unit
<1>1. Burst \in Nat \ {0} /\ BU \in Nat \ {0}
  BY BurstType
<1>2. CASE param.traffic \in Rings /\ d > 0
  <2> DEFINE q == (d - 1) \div BU
  <2>1. q \in Nat /\ q * BU <= d - 1 /\ d - 1 < q * BU + BU
    <3>1. d - 1 \in Nat
      BY <1>2
    <3> HIDE DEF BU
    <3> QED
      BY <1>1, <3>1, WholeSteps
  <2>2. Steps(d) = q
    BY <1>2 DEF Steps
  <2> HIDE DEF q
  <2>3. (q * Burst) * Unit = q * BU
    BY <2>1, <1>1
  <2>4. q * BU \in Nat /\ q * Burst \in Nat
    BY <2>1, <1>1
  <2> HIDE DEF BU
  <2>5. d - q * BU \in Nat /\ d - q * BU <= BU
    BY <2>1, <2>4, <1>1
  <2> QED
    BY <1>2, <2>1, <2>2, <2>3, <2>4, <2>5 DEF BU
<1>3. CASE param.traffic \in Rings /\ ~(d > 0)
  <2>1. Steps(d) = 0 /\ d = 0
    BY <1>3 DEF Steps
  <2>2. (0 * Burst) * Unit = 0 /\ 0 * Burst = 0
    BY <1>1
  <2> QED
    BY <1>1, <1>3, <2>1, <2>2
<1>4. CASE param.traffic \notin Rings
  <2>1. Burst = 1
    BY <1>4, BurstType
  <2> DEFINE q == d \div Unit
  <2>2. Steps(d) = q
    BY <1>4 DEF Steps
  <2>3. q \in Nat /\ q * Unit <= d /\ d < q * Unit + Unit
    BY WholeSteps
  <2> HIDE DEF q
  <2>4. q * Burst = q /\ q * Unit \in Nat
    BY <2>1, <2>3
  <2> QED
    BY <1>4, <2>2, <2>3, <2>4
<1> QED
  BY <1>2, <1>3, <1>4

-----------------------------------------------------------------------------
(* Reading a netrace.                                                      *)

Sent(k) == {m \in 1 .. k : param.trace[m].kind = "packet"}
SentBetween(k, last) == {m \in k + 1 .. last : param.trace[m].kind = "packet"}

LEMMA SentCount ==
  ASSUME NEW k \in Nat, NEW last \in Nat, k <= last
  PROVE  /\ Cardinality(Sent(k)) \in Nat
         /\ Cardinality(SentBetween(k, last)) \in Nat
         /\ Cardinality(Sent(last)) = Cardinality(Sent(k)) + Cardinality(SentBetween(k, last))
<1>1. IsFiniteSet(Sent(k)) /\ IsFiniteSet(SentBetween(k, last))
  <2>1. IsFiniteSet(1 .. k) /\ IsFiniteSet(k + 1 .. last)
    BY FS_Interval
  <2>2. Sent(k) \in SUBSET (1 .. k) /\ SentBetween(k, last) \in SUBSET (k + 1 .. last)
    BY DEF Sent, SentBetween
  <2> QED
    BY ONLY <2>1, <2>2, FS_Subset
<1>2. Sent(last) = Sent(k) \cup SentBetween(k, last)
  BY DEF Sent, SentBetween
<1>3. Sent(k) \cap SentBetween(k, last) = {}
  BY DEF Sent, SentBetween
<1>4. /\ Cardinality(Sent(k)) \in Nat /\ Cardinality(SentBetween(k, last)) \in Nat
      /\ Cardinality({}) = 0
  BY ONLY <1>1, FS_EmptySet, FS_CardinalityType
<1>5. Cardinality(Sent(k) \cup SentBetween(k, last))
        = Cardinality(Sent(k)) + Cardinality(SentBetween(k, last))
            - Cardinality(Sent(k) \cap SentBetween(k, last))
  BY ONLY <1>1, FS_Union
<1> QED
  BY <1>2, <1>3, <1>4, <1>5

\* The records of a netrace are in the order of their stamps.
LEMMA InOrder ==
  ASSUME ParamType(param)
  PROVE  /\ Len(param.trace) \in Nat /\ DOMAIN param.trace = 1 .. Len(param.trace)
         /\ param.num_cycles \in Nat
         /\ \A m \in 1 .. Len(param.trace) : param.trace[m].cycle \in Nat
         /\ \A l, m \in 1 .. Len(param.trace) :
              /\ param.trace[m].cycle <= param.num_cycles
              /\ l <= m => param.trace[l].cycle <= param.trace[m].cycle
<1> DEFINE R == [cycle : Nat, kind : {"packet", "local", "invalid"}]
<1>1. param.trace \in Seq(R) /\ param.num_cycles \in Nat
  BY DEF ParamType
<1>2. Len(param.trace) \in Nat /\ DOMAIN param.trace = 1 .. Len(param.trace)
  <2> HIDE DEF R
  <2> QED
    BY <1>1
<1>3. \A m \in 1 .. Len(param.trace) : param.trace[m].cycle \in Nat
  <2>1. \A m \in 1 .. Len(param.trace) : param.trace[m] \in R
    <3> HIDE DEF R
    <3> QED
      BY <1>1
  <2> QED
    BY <2>1
<1> QED
  BY <1>1, <1>2, <1>3 DEF ParamType

\* The netrace is read up to a packet with a later stamp, or to its end.
LEMMA ReadAhead ==
  ASSUME ParamType(param), i \in Nat, NEW k \in 0 .. Len(param.trace),
         k < Len(param.trace) => Stamp(k) >= i
  PROVE  /\ ReadTo(k) \in k .. Len(param.trace)
         /\ ReadTo(k) < Len(param.trace) => Stamp(ReadTo(k)) >= i + 1
<1> DEFINE L == Len(param.trace)
           S == {m \in k .. L : Stamp(m) # i \/ m = L}
<1>1. /\ L \in Nat /\ param.num_cycles \in Nat
      /\ \A m \in 1 .. L : param.trace[m].cycle \in Nat
      /\ \A l, m \in 1 .. L :
           /\ param.trace[m].cycle <= param.num_cycles
           /\ l <= m => param.trace[l].cycle <= param.trace[m].cycle
  BY InOrder
<1> HIDE DEF L
<1>2. \A m \in 0 .. L : Stamp(m) \in Nat /\ Stamp(m) <= param.num_cycles
  BY <1>1 DEF Stamp
<1>3. \A l, m \in 0 .. L : l <= m => Stamp(l) <= Stamp(m)
  BY <1>1, <1>2 DEF Stamp
<1>4. k \in 0 .. L /\ (k < L => Stamp(k) >= i)
  BY DEF L
<1>5. CASE i > param.num_cycles
  <2>1. ReadTo(k) = k
    BY <1>5 DEF ReadTo
  <2>2. ~(k < L)
    BY <1>1, <1>2, <1>4, <1>5
  <2> QED
    BY <2>1, <2>2, <1>1, <1>4 DEF L
<1>6. CASE ~(i > param.num_cycles)
  <2>1. S \in SUBSET Nat /\ L \in S
    BY <1>1, <1>4
  <2>2. PICK m \in S : \A n \in S : m <= n
    BY <2>1, LeastElement
  <2>3. Min(S) \in S
    BY <2>2 DEF Min
  <2>4. ReadTo(k) = Min(S)
    BY <1>6 DEF ReadTo, L
  <2>5. ASSUME NEW n \in S, n < L
        PROVE  Stamp(n) >= i + 1
    <3>1. Stamp(k) <= Stamp(n) /\ Stamp(k) >= i /\ Stamp(n) # i
      BY <2>5, <1>1, <1>2, <1>3, <1>4
    <3>2. Stamp(k) \in Nat /\ Stamp(n) \in Nat /\ i \in Nat
      BY <1>1, <1>2, <1>4, <2>5
    <3> QED
      BY ONLY <3>1, <3>2
  <2>6. S \subseteq k .. L
    OBVIOUS
  <2> HIDE DEF S
  <2> QED
    BY <2>3, <2>4, <2>5, <2>6 DEF L
<1> QED
  BY <1>5, <1>6

-----------------------------------------------------------------------------
(* The invariant.                                                          *)

\* Where main is within a cycle, and what a rate leaves behind.
Stages ==
  /\ at = "body" => stage \in {"warmUp", "measure", "drain", "netrace"}
  /\ stage = "drain" => saturated
  /\ param.traffic = "netrace" => stage \in {"netrace", "done"}
  /\ stage = "netrace" => param.traffic = "netrace"

\* What the verdicts were given for.
Judgement ==
  /\ stage = "judged" /\ ~saturated => message_arrived >= (message_timeout + VectorSize) * 5
  /\ verdict # "open" => saturated /\ stage \in {"judged", "done"}
  /\ stage = "judged" /\ verdict = "none" => VectorSize = 0
  /\ stage = "judged" /\ verdict = "possible" => VectorSize > 0

\* The netrace is always read up to a packet with a stamp to come.
Ahead ==
  param.traffic = "netrace" =>
    /\ all_message_num = Cardinality(Sent(cursor))
    /\ cursor < Len(param.trace) => Stamp(cursor) >= Begun
    /\ stage = "done" => cursor = Len(param.trace)

IInv ==
  /\ TypeOK /\ PacketsConserved /\ InjectionOnSchedule
  /\ Stages /\ Judgement /\ Ahead

LEMMA InitInvariant == Init => IInv
<1> SUFFICES ASSUME Init PROVE IInv
  OBVIOUS
<1> USE DEF Init, Net!Init
<1>1. ParamType(param) /\ param.increment \in Nat /\ Len(param.trace) \in Nat
  <2>1. ParamType(param)
    OBVIOUS
  <2> QED
    BY <2>1 DEF ParamType
<1>2. Burst \in Nat \ {0} /\ Burst * Unit \in Nat
  BY <1>1, BurstType
<1>3. Cardinality(Sent(0)) = 0
  <2>1. Sent(0) = {}
    BY DEF Sent
  <2> QED
    BY <2>1, FS_EmptySet
<1>4. TypeOK
  <2>1. saturated \in BOOLEAN
    BY Zenon
  <2> QED
    BY <1>1, <2>1 DEF TypeOK
<1>5. PacketsConserved /\ InjectionOnSchedule /\ Stages /\ Judgement
  BY <1>1 DEF PacketsConserved, InjectionOnSchedule, Stages, Judgement
<1>6. Ahead
  BY <1>3 DEF Ahead, Stamp, Begun
<1> QED
  BY <1>4, <1>5, <1>6 DEF IInv

LEMMA NextType == TypeOK /\ Stages /\ Ahead /\ [Next]_vars => TypeOK'
<1> SUFFICES ASSUME TypeOK, Stages, Ahead, [Next]_vars PROVE TypeOK'
  OBVIOUS
<1>0. /\ param.increment \in Nat /\ Len(param.trace) \in Nat
      /\ ParamType(param)
  BY DEF TypeOK, ParamType
<1>1. CASE GenMes
  <2>1. CASE Inject
    <3> DEFINE due == pkt_for_injection + rate
    <3>1. due \in Nat
      BY DEF TypeOK
    <3>2. Steps(due) * Burst \in Nat /\ due - (Steps(due) * Burst) * Unit \in Nat
      BY <1>0, <3>1, InjectionStep
    <3> DEFINE n == Steps(due) * Burst
    <3>3. /\ pkt_for_injection' = due - n * Unit
          /\ all_message_num' = all_message_num + n
          /\ travelling' = travelling + n
      BY <2>1 DEF Inject, Net!Generate
    <3>4. pkt_for_injection' \in Nat /\ all_message_num' \in Nat /\ travelling' \in Nat
      <4>1. n \in Nat /\ due - n * Unit \in Nat
        BY <3>2
      <4>2. all_message_num \in Nat /\ travelling \in Nat
        BY DEF TypeOK
      <4> HIDE DEF n, due
      <4> QED
        BY <3>3, <4>1, <4>2
    <3>5. UNCHANGED <<phase, arrived, cursor>>
      BY <2>1 DEF Inject, Net!Generate
    <3> QED
      BY <1>1, <3>4, <3>5 DEF GenMes, AtHead, TypeOK
  <2>2. CASE stage = "netrace" /\ Netrace
    <3>1. i \in Nat /\ cursor \in 0 .. Len(param.trace)
      BY DEF TypeOK
    <3>2. cursor < Len(param.trace) => Stamp(cursor) >= i
      BY <1>1, <2>2 DEF Stages, Ahead, GenMes, AtHead, Begun
    <3>3. ReadTo(cursor) \in cursor .. Len(param.trace)
      BY <1>0, <3>1, <3>2, ReadAhead
    <3>4. Cardinality(SentBetween(cursor, ReadTo(cursor))) \in Nat
      BY <1>0, <3>1, <3>3, SentCount
    <3>5. /\ all_message_num' \in Nat /\ travelling' \in Nat
          /\ cursor' \in 0 .. Len(param.trace)
      BY <1>0, <2>2, <3>1, <3>3, <3>4 DEF Netrace, SentBetween, Net!Generate, TypeOK
    <3> QED
      BY <1>1, <2>2, <3>5 DEF GenMes, AtHead, Netrace, Net!Generate, TypeOK
  <2>3. CASE UNCHANGED <<pkt_for_injection, all_message_num, cursor, transport>>
    BY <1>1, <2>3 DEF GenMes, AtHead, transport, TypeOK
  <2> QED
    BY <1>1, <2>1, <2>2, <2>3 DEF GenMes
<1>2. CASE StartCycle
  BY <1>2 DEF StartCycle, Net!Release, main, counters, TypeOK
<1>3. CASE FinishCycle
  BY <1>3 DEF FinishCycle, Net!EndCycle, counters, TypeOK
<1>4. CASE WarmedUp
  BY <1>4 DEF WarmedUp, AtHead, transport, TypeOK
<1>5. CASE Judge
  BY <1>5 DEF Judge, AtHead, transport, counters, TypeOK
<1>6. CASE Drained
  BY <1>6 DEF Drained, AtHead, transport, counters, TypeOK
<1>7. CASE NextRate
  BY <1>0, <1>7 DEF NextRate, Net!Clear, counters, TypeOK
<1>8. CASE TraceEnds
  BY <1>8 DEF TraceEnds, AtHead, transport, counters, TypeOK
<1>9. CASE Receive
  BY <1>9 DEF Receive, Net!Arrive, main, TypeOK
<1>10. CASE Timeout
  BY <1>10 DEF Timeout, transport, main, TypeOK
<1>11. CASE Returned \/ UNCHANGED vars
  BY <1>11 DEF Returned, vars, transport, main, counters, TypeOK
<1> QED
  BY <1>1, <1>2, <1>3, <1>4, <1>5, <1>6, <1>7, <1>8, <1>9, <1>10, <1>11 DEF Next, MainStep

\* genMes counts every packet that it adds to the vector.
LEMMA Counted ==
  ASSUME TypeOK, Stages, Ahead, GenMes
  PROVE  /\ \E n \in Nat : travelling' = travelling + n /\ all_message_num' = all_message_num + n
         /\ UNCHANGED <<phase, arrived>>
<1>1. CASE Inject
  <2> DEFINE due == pkt_for_injection + rate
             n == Steps(due) * Burst
  <2>1. ParamType(param) /\ due \in Nat
    BY DEF TypeOK
  <2>2. n \in Nat
    BY <2>1, InjectionStep
  <2> QED
    BY <1>1, <2>2 DEF Inject, Net!Generate
<1>2. CASE stage = "netrace" /\ Netrace
  <2>1. ParamType(param) /\ i \in Nat /\ cursor \in 0 .. Len(param.trace)
    BY DEF TypeOK
  <2>2. cursor < Len(param.trace) => Stamp(cursor) >= i
    BY <1>2 DEF Stages, Ahead, GenMes, AtHead, Begun
  <2>3. ReadTo(cursor) \in cursor .. Len(param.trace) /\ Len(param.trace) \in Nat
    BY <2>1, <2>2, ReadAhead DEF ParamType
  <2>4. Cardinality(SentBetween(cursor, ReadTo(cursor))) \in Nat
    BY <2>1, <2>3, SentCount
  <2> QED
    BY <1>2, <2>4 DEF Netrace, SentBetween, Net!Generate
<1>3. CASE UNCHANGED <<pkt_for_injection, all_message_num, cursor, transport>>
  <2>1. travelling' = travelling + 0 /\ all_message_num' = all_message_num + 0
    BY <1>3 DEF TypeOK, transport
  <2> QED
    BY <1>3, <2>1 DEF transport
<1> QED
  BY <1>1, <1>2, <1>3 DEF GenMes

LEMMA NextConserved ==
  TypeOK /\ Stages /\ Ahead /\ PacketsConserved /\ [Next]_vars => PacketsConserved'
<1> SUFFICES ASSUME TypeOK, Stages, Ahead, PacketsConserved, [Next]_vars
             PROVE  PacketsConserved'
  OBVIOUS
<1>0. /\ travelling \in Nat /\ all_message_num \in Nat /\ message_arrived \in Nat
      /\ carried \in Int
  BY DEF TypeOK
<1> USE DEF PacketsConserved
<1>1. CASE GenMes
  BY <1>0, <1>1, Counted DEF GenMes
<1>2. CASE StartCycle
  BY <1>0, <1>2 DEF StartCycle, Net!Release, main, counters
<1>3. CASE FinishCycle
  BY <1>0, <1>3 DEF FinishCycle, Net!EndCycle, counters
<1>4. CASE WarmedUp
  BY <1>0, <1>4 DEF WarmedUp, AtHead, transport
<1>5. CASE Judge
  BY <1>0, <1>5 DEF Judge, AtHead, transport, counters
<1>6. CASE Drained
  BY <1>0, <1>6 DEF Drained, AtHead, transport, counters
<1>7. CASE NextRate
  BY <1>0, <1>7 DEF NextRate, Net!Clear, counters
<1>8. CASE TraceEnds
  BY <1>0, <1>8 DEF TraceEnds, AtHead, transport, counters
<1>9. CASE Receive
  BY <1>0, <1>9 DEF Receive, Net!Arrive, main
<1>10. CASE Timeout
  BY <1>0, <1>10 DEF Timeout, transport, main
<1>11. CASE Returned \/ UNCHANGED vars
  BY <1>0, <1>11 DEF Returned, vars, transport, main, counters
<1> QED
  BY <1>1, <1>2, <1>3, <1>4, <1>5, <1>6, <1>7, <1>8, <1>9, <1>10, <1>11 DEF Next, MainStep

LEMMA NextStages ==
  TypeOK /\ Stages /\ [Next]_vars => Stages'
<1> SUFFICES ASSUME TypeOK, Stages, [Next]_vars PROVE Stages'
  OBVIOUS
<1> USE DEF Stages
<1>1. CASE GenMes
  BY <1>1 DEF GenMes, LoopGoesOn, Inject, Netrace
<1>2. CASE StartCycle \/ Receive
  BY <1>2 DEF StartCycle, Receive, main
<1>3. CASE FinishCycle
  BY <1>3 DEF FinishCycle
<1>4. CASE WarmedUp
  BY <1>4 DEF WarmedUp, AtHead
<1>5. CASE Judge
  BY <1>5 DEF Judge, AtHead
<1>6. CASE Drained
  BY <1>6 DEF Drained, AtHead
<1>7. CASE NextRate
  BY <1>7 DEF NextRate
<1>8. CASE TraceEnds
  BY <1>8 DEF TraceEnds, AtHead
<1>9. CASE Timeout
  BY <1>9 DEF Timeout, main
<1>10. CASE Returned \/ UNCHANGED vars
  BY <1>10 DEF Returned, vars, main
<1> QED
  BY <1>1, <1>2, <1>3, <1>4, <1>5, <1>6, <1>7, <1>8, <1>9, <1>10 DEF Next, MainStep

LEMMA NextJudgement ==
  TypeOK /\ Stages /\ Judgement /\ [Next]_vars => Judgement'
<1> SUFFICES ASSUME TypeOK, Stages, Judgement, [Next]_vars PROVE Judgement'
  OBVIOUS
<1>0. /\ travelling \in Nat /\ arrived \in Nat /\ message_timeout \in Nat
      /\ message_arrived \in Nat
      /\ phase = "update" => at = "body"
  BY DEF TypeOK
<1> USE DEF Stages, Judgement, VectorSize
<1>1. CASE GenMes
  BY <1>1 DEF GenMes, LoopGoesOn
<1>2. CASE StartCycle
  BY <1>2 DEF StartCycle, main
<1>3. CASE FinishCycle
  BY <1>0, <1>3 DEF FinishCycle, Net!EndCycle
<1>4. CASE WarmedUp
  BY <1>4 DEF WarmedUp, AtHead
<1>5. CASE Judge
  <2>1. ~saturated' => ~(message_arrived < (message_timeout + VectorSize) * 5)
    BY <1>5, Zenon DEF Judge
  <2>2. ~saturated' => message_arrived >= (message_timeout + VectorSize) * 5
    BY <1>0, <2>1
  <2>3. verdict' = "open" /\ UNCHANGED <<transport, counters>>
    BY <1>5 DEF Judge
  <2> QED
    BY <2>2, <2>3 DEF transport, counters
<1>6. CASE Drained
  BY <1>0, <1>6 DEF Drained, AtHead, transport, counters
<1>7. CASE NextRate
  BY <1>7 DEF NextRate
<1>8. CASE TraceEnds
  BY <1>8 DEF TraceEnds, AtHead
<1>9. CASE Receive
  BY <1>0, <1>9 DEF Receive, Net!Arrive, main
<1>10. CASE Timeout
  BY <1>0, <1>10 DEF Timeout, main
<1>11. CASE Returned \/ UNCHANGED vars
  BY <1>11 DEF Returned, vars, main, transport, counters
<1> QED
  BY <1>1, <1>2, <1>3, <1>4, <1>5, <1>6, <1>7, <1>8, <1>9, <1>10, <1>11 DEF Next, MainStep

LEMMA NextSchedule ==
  TypeOK /\ TypeOK' /\ Stages /\ InjectionOnSchedule /\ [Next]_vars => InjectionOnSchedule'
<1> SUFFICES ASSUME TypeOK, TypeOK', Stages, InjectionOnSchedule, [Next]_vars,
                    stage' = "measure"
             PROVE  InjectionOnSchedule'
  BY DEF InjectionOnSchedule
<1>0. /\ all_message_num \in Nat /\ rate \in Nat /\ i \in Nat /\ pkt_for_injection \in Nat
      /\ ParamType(param) /\ Burst \in Nat \ {0}
  BY BurstType DEF TypeOK
<1> DEFINE Same == UNCHANGED <<param, rate, pkt_for_injection, all_message_num, stage>>
<1>a. ASSUME Same, Begun' = Begun
      PROVE  InjectionOnSchedule'
  <2>1. Burst' = Burst
    BY <1>a DEF Burst
  <2> QED
    BY <1>a, <2>1 DEF InjectionOnSchedule
<1>1. CASE GenMes
  <2> DEFINE d == pkt_for_injection + rate
             n == Steps(d) * Burst
  <2>1. Inject /\ stage = "measure" /\ UNCHANGED <<param, rate, i>> /\ at = "head" /\ at' = "body"
    BY <1>1 DEF GenMes, AtHead
  <2>2. d \in Nat /\ Steps(d) \in Nat /\ n \in Nat /\ d - n * Unit \in Nat
    BY <1>0, InjectionStep
  <2>3. IF param.traffic \in Rings THEN d - n * Unit <= Burst * Unit ELSE d - n * Unit < Unit
    BY <1>0, <2>2, InjectionStep
  <2>4. Burst' = Burst
    BY <2>1 DEF Burst
  <2>5. all_message_num % Burst = 0 /\ all_message_num * Unit + pkt_for_injection = rate * i
    BY <2>1 DEF InjectionOnSchedule, Begun
  <2>6. (all_message_num + n) % Burst = 0
    <3> HIDE DEF d
    <3> QED
      BY <1>0, <2>2, <2>5, MultipleAdded
  <2>7. pkt_for_injection' = d - n * Unit /\ all_message_num' = all_message_num + n
    BY <2>1 DEF Inject
  <2> HIDE DEF n
  <2>8. (all_message_num + n) * Unit + (d - n * Unit) = rate * (i + 1)
    BY <1>0, <2>2, <2>5
  <2> HIDE DEF d
  <2>9. Begun' = i + 1
    BY <2>1 DEF Begun
  <2> QED
    BY <2>1, <2>3, <2>4, <2>6, <2>7, <2>8, <2>9 DEF InjectionOnSchedule
<1>2. CASE StartCycle
  BY <1>2, <1>a DEF StartCycle, main, counters, Begun
<1>3. CASE FinishCycle
  <2>1. at = "body" /\ at' = "head" /\ i' = i + 1 /\ Same
    BY <1>3 DEF FinishCycle, Net!EndCycle, counters, TypeOK
  <2> QED
    BY <1>a, <2>1 DEF Begun
<1>4. CASE WarmedUp
  <2>1. /\ all_message_num' = 0 /\ pkt_for_injection' = 0 /\ i' = 0 /\ at' = "head"
        /\ UNCHANGED <<param, rate>>
    BY <1>4 DEF WarmedUp, AtHead
  <2>2. Burst' = Burst /\ Begun' = 0
    BY <2>1 DEF Burst, Begun
  <2>3. 0 * Unit + 0 = rate * 0 /\ 0 % Burst = 0 /\ 0 <= Burst * Unit /\ 0 < Unit
    BY <1>0
  <2> QED
    BY <2>1, <2>2, <2>3 DEF InjectionOnSchedule
<1>5. CASE Judge \/ Drained \/ NextRate \/ TraceEnds
  BY <1>5 DEF Judge, Drained, NextRate, TraceEnds
<1>6. CASE Receive
  BY <1>6, <1>a DEF Receive, main, Begun
<1>7. CASE Timeout
  BY <1>7, <1>a DEF Timeout, main, Begun
<1>8. CASE Returned \/ UNCHANGED vars
  BY <1>8, <1>a DEF Returned, vars, main, counters, Begun
<1> QED
  BY <1>1, <1>2, <1>3, <1>4, <1>5, <1>6, <1>7, <1>8 DEF Next, MainStep

LEMMA NextAhead ==
  TypeOK /\ TypeOK' /\ Stages /\ Ahead /\ [Next]_vars => Ahead'
<1> SUFFICES ASSUME TypeOK, TypeOK', Stages, Ahead, [Next]_vars,
                    param'.traffic = "netrace"
             PROVE  Ahead'
  BY DEF Ahead
<1>0. /\ ParamType(param) /\ i \in Nat /\ cursor \in 0 .. Len(param.trace)
      /\ phase = "update" => at = "body"
      /\ Len(param.trace) \in Nat
  BY InOrder DEF TypeOK
<1>1. param' = param
  BY DEF Next, MainStep, GenMes, StartCycle, FinishCycle, WarmedUp, Judge, Drained, NextRate,
         TraceEnds, Receive, Timeout, Returned, main, vars
<1>2. /\ param.traffic = "netrace" /\ stage \in {"netrace", "done"}
      /\ all_message_num = Cardinality(Sent(cursor))
      /\ cursor < Len(param.trace) => Stamp(cursor) >= Begun
      /\ stage = "done" => cursor = Len(param.trace)
  BY <1>1 DEF Stages, Ahead
<1>3. CASE GenMes
  <2> DEFINE last == ReadTo(cursor)
  <2>1. stage = "netrace" /\ Netrace /\ stage' = stage /\ i' = i /\ at = "head" /\ at' = "body"
    BY <1>2, <1>3 DEF GenMes, AtHead, LoopGoesOn
  <2>2. cursor < Len(param.trace) => Stamp(cursor) >= i
    BY <1>2, <2>1 DEF Begun
  <2>3. last \in cursor .. Len(param.trace) /\ (last < Len(param.trace) => Stamp(last) >= i + 1)
    BY <1>0, <2>2, ReadAhead
  <2>4. /\ cursor' = last
        /\ all_message_num' = all_message_num + Cardinality(SentBetween(cursor, last))
    BY <2>1 DEF Netrace, SentBetween
  <2> HIDE DEF last
  <2>5. Cardinality(Sent(last)) = Cardinality(Sent(cursor)) + Cardinality(SentBetween(cursor, last))
    BY <1>0, <2>3, SentCount
  <2>6. all_message_num' = Cardinality(Sent(cursor)')
    <3>1. Sent(cursor)' = Sent(last)
      BY <1>1, <2>4 DEF Sent
    <3> QED
      BY <1>2, <2>4, <2>5, <3>1
  <2>7. cursor' < Len(param'.trace) => Stamp(cursor)' >= Begun'
    BY <1>1, <2>1, <2>3, <2>4 DEF Stamp, Begun
  <2> QED
    BY <1>2, <2>1, <2>6, <2>7 DEF Ahead
<1>4. ASSUME UNCHANGED <<cursor, all_message_num>>, Begun' = Begun,
             stage' = stage \/ cursor = Len(param.trace)
      PROVE  Ahead'
  <2>1. Sent(cursor)' = Sent(cursor) /\ Stamp(cursor)' = Stamp(cursor)
    BY <1>1, <1>4 DEF Sent, Stamp
  <2> QED
    BY <1>1, <1>2, <1>4, <2>1 DEF Ahead
<1>5. CASE StartCycle
  BY <1>4, <1>5 DEF StartCycle, main, counters, Begun
<1>6. CASE FinishCycle
  BY <1>0, <1>4, <1>6 DEF FinishCycle, Net!EndCycle, counters, Begun
<1>7. CASE TraceEnds
  <2>1. stage = "netrace" /\ at = "head" /\ ~(i < param.num_cycles + Slack)
    BY <1>7 DEF TraceEnds, AtHead, LoopGoesOn
  <2>2. i > param.num_cycles /\ param.num_cycles \in Nat
    BY <1>0, <2>1, InOrder
  <2>3. cursor < Len(param.trace) => Stamp(cursor) \in Nat /\ Stamp(cursor) <= param.num_cycles
    BY <1>0, InOrder DEF Stamp
  <2>4. cursor < Len(param.trace) => Stamp(cursor) >= i
    BY <1>2, <2>1 DEF Begun
  <2>5. cursor = Len(param.trace)
    BY <1>0, <2>2, <2>3, <2>4
  <2> QED
    BY <1>4, <1>7, <2>5 DEF TraceEnds, counters, Begun
<1>8. CASE WarmedUp \/ Judge \/ Drained \/ NextRate
  BY <1>2, <1>8 DEF WarmedUp, Judge, Drained, NextRate
<1>9. CASE Receive \/ Timeout
  BY <1>4, <1>9 DEF Receive, Timeout, main, Begun
<1>10. CASE Returned \/ UNCHANGED vars
  BY <1>4, <1>10 DEF Returned, vars, main, counters, Begun
<1> QED
  BY <1>3, <1>5, <1>6, <1>7, <1>8, <1>9, <1>10 DEF Next, MainStep

\* The invariant that the properties follow from is inductive.
THEOREM Invariant == Spec => []IInv
<1>1. IInv /\ [Next]_vars => IInv'
  BY NextType, NextConserved, NextStages, NextJudgement, NextSchedule, NextAhead DEF IInv
<1> QED
  BY InitInvariant, <1>1, PTL DEF Spec

-----------------------------------------------------------------------------
\* The counters and the loop stay within their types, for any parameters.
THEOREM TypeCorrect == Spec => []TypeOK
<1>1. IInv => TypeOK
  BY DEF IInv
<1> QED
  BY Invariant, <1>1, PTL

\* Every packet is accounted for, over warm-up, TM->reset, measuring, drain and
\* the deletion of all packets.
THEOREM Conserved == Spec => []PacketsConserved
<1>1. IInv => PacketsConserved
  BY DEF IInv
<1> QED
  BY Invariant, <1>1, PTL

\* The measured injection is the nominal one, for any rate and ring.
THEOREM OnSchedule == Spec => []InjectionOnSchedule
<1>1. IInv => InjectionOnSchedule
  BY DEF IInv
<1> QED
  BY Invariant, <1>1, PTL

\* A rate is called unsaturated only when five of six packets were delivered.
THEOREM Unsaturated == Spec => []UnsaturatedDelivers
<1>1. IInv => UnsaturatedDelivers
  <2> SUFFICES ASSUME IInv, stage = "judged", ~saturated
               PROVE  6 * message_arrived >= 5 * (all_message_num + carried)
    BY DEF UnsaturatedDelivers
  <2>1. message_arrived >= (message_timeout + (travelling + arrived)) * 5
    BY DEF IInv, Judgement, VectorSize
  <2>2. message_arrived + travelling = all_message_num + carried
    BY DEF IInv, PacketsConserved
  <2>3. /\ message_arrived \in Nat /\ message_timeout \in Nat /\ travelling \in Nat
        /\ arrived \in Nat /\ all_message_num \in Nat /\ carried \in Int
    BY DEF IInv, TypeOK
  <2> QED
    BY <2>1, <2>2, <2>3
<1> QED
  BY Invariant, <1>1, PTL

\* "No deadlock!" is printed only when every packet has arrived.
THEOREM DrainSound == Spec => []DrainVerdictSound
<1>1. IInv => DrainVerdictSound
  <2> SUFFICES ASSUME IInv, stage = "judged" PROVE DrainVerdictSound
    BY DEF DrainVerdictSound
  <2>1. message_arrived + travelling = all_message_num + carried
    BY DEF IInv, PacketsConserved
  <2>2. /\ verdict = "none" => travelling + arrived = 0
        /\ verdict = "possible" => travelling + arrived > 0
    BY DEF IInv, Judgement, VectorSize
  <2>3. /\ message_arrived \in Nat /\ travelling \in Nat /\ arrived \in Nat
        /\ all_message_num \in Nat /\ carried \in Int
    BY DEF IInv, TypeOK
  <2> QED
    BY <2>1, <2>2, <2>3 DEF DrainVerdictSound
<1> QED
  BY Invariant, <1>1, PTL

\* No packet of a netrace misses its time stamp, whatever the look-ahead.
THEOREM InTime == Spec => []TraceInTime
<1>1. IInv => TraceInTime
  <2> SUFFICES ASSUME IInv, param.traffic = "netrace" PROVE TraceInTime
    BY DEF TraceInTime
  <2> DEFINE L == Len(param.trace)
  <2>1. /\ all_message_num = Cardinality(Sent(cursor))
        /\ cursor < L => Stamp(cursor) >= Begun
        /\ stage = "done" => cursor = L
    BY DEF IInv, Ahead
  <2>2. ParamType(param) /\ cursor \in 0 .. L /\ i \in Nat
    BY DEF IInv, TypeOK
  <2>3. /\ L \in Nat /\ DOMAIN param.trace = 1 .. L
        /\ \A m \in 1 .. L : param.trace[m].cycle \in Nat
        /\ \A l, m \in 1 .. L : l <= m => param.trace[l].cycle <= param.trace[m].cycle
    BY <2>2, InOrder
  <2> HIDE DEF L
  <2>4. ASSUME NEW m \in 1 .. L, param.trace[m].cycle < i, ~(m <= cursor)
        PROVE  FALSE
    <3>1. cursor < L /\ cursor \in Nat /\ m \in Nat
      BY <2>2, <2>3, <2>4
    <3>2. Stamp(cursor) >= Begun /\ Begun \in Nat /\ Begun >= i
      BY <2>1, <2>2, <3>1 DEF Begun
    <3>3. cursor # 0 => param.trace[cursor].cycle <= param.trace[m].cycle
      BY <2>3, <2>4, <3>1
    <3>4. Stamp(cursor) \in Nat /\ Stamp(cursor) <= param.trace[m].cycle
      BY <2>3, <3>1, <3>3 DEF Stamp
    <3> QED
      BY <2>2, <2>3, <2>4, <3>2, <3>4
  <2>5. Sent(L) = {m \in DOMAIN param.trace : param.trace[m].kind = "packet"}
    BY <2>3 DEF Sent
  <2> QED
    BY <2>1, <2>3, <2>4, <2>5 DEF TraceInTime
<1> QED
  BY Invariant, <1>1, PTL

\* The loop uses the network as its contract allows: every step leaves the packets
\* alone or is a step of Transport, so each genMes adds packets in a serial phase
\* and the deletion between two rates never meets a cycle.
THEOREM KeepsToContract == Spec => Net!Safety
<1>1. Init => Net!Init
  BY DEF Init
<1>2. IInv /\ [Next]_vars => [Net!Next]_transport
  <2> SUFFICES ASSUME IInv, [Next]_vars PROVE [Net!Next]_transport
    OBVIOUS
  <2>0. TypeOK /\ Stages /\ Ahead /\ travelling \in Nat
    BY DEF IInv, TypeOK
  <2>1. CASE GenMes
    <3>1. PICK n \in Nat : travelling' = travelling + n
      BY <2>0, <2>1, Counted
    <3>2. UNCHANGED <<phase, arrived>> /\ phase = "serial"
      BY <2>0, <2>1, Counted DEF GenMes, AtHead
    <3>3. CASE n = 0
      BY <2>0, <3>1, <3>2, <3>3 DEF transport
    <3>4. CASE n > 0
      <4>1. travelling' > travelling /\ travelling' = travelling + (travelling' - travelling)
        BY <2>0, <3>1, <3>4
      <4> QED
        BY <3>2, <4>1 DEF Net!Next, Net!Generate
    <3> QED
      BY <3>3, <3>4
  <2>2. CASE StartCycle \/ FinishCycle \/ NextRate \/ Receive
    BY <2>2 DEF StartCycle, FinishCycle, NextRate, Receive, Net!Next
  <2>3. CASE WarmedUp \/ Judge \/ Drained \/ TraceEnds \/ Timeout
    BY <2>3 DEF WarmedUp, Judge, Drained, TraceEnds, Timeout
  <2>4. CASE Returned \/ UNCHANGED vars
    BY <2>4 DEF Returned, vars
  <2> QED
    BY <2>1, <2>2, <2>3, <2>4 DEF Next, MainStep
<1> QED
  BY Invariant, <1>1, <1>2, PTL DEF Spec, Net!Safety, transport, Net!transport

-----------------------------------------------------------------------------
(* Remainders of numbers below twice the divisor.                          *)

LEMMA RemainderBelow ==
  ASSUME NEW n \in Nat \ {0}, NEW a \in 0 .. 2 * n - 1
  PROVE  /\ a % n = IF a < n THEN a ELSE a - n
         /\ Remainder(a, n) = IF a < n THEN a ELSE a - n
<1>1. CASE a < n
  <2>1. a \in 0 .. n - 1 /\ 0 * n + a = a
    BY <1>1
  <2>2. a \div n = 0 /\ a % n = a
    BY <2>1, PlaceOfMember
  <2> QED
    BY <1>1, <2>2 DEF Remainder, Quotient
<1>2. CASE ~(a < n)
  <2> DEFINE r == a - n
  <2>1. r \in 0 .. n - 1 /\ 1 * n + r = a
    BY <1>2
  <2> HIDE DEF r
  <2>2. (1 * n + r) \div n = 1 /\ (1 * n + r) % n = r
    BY <2>1, PlaceOfMember
  <2>3. a \div n = 1 /\ a % n = r
    BY <2>1, <2>2
  <2> QED
    BY <1>2, <2>1, <2>3 DEF Remainder, Quotient
<1> QED
  BY <1>1, <1>2

\* The node and the chip of a core exist on as many chips as the scale fills.
LEMMA CoreExists ==
  ASSUME NEW scale \in Nat \ {0}, NEW n \in Cores(scale), NEW c \in Nat \ {0}
  PROVE  /\ NodeOfCore(n, c).node_id \in 0 .. c - 1
         /\ NodeOfCore(n, c).chip_id \in 0 .. (scale + c - 1) \div c - 1
<1>1. n \in 0 .. scale - 1 /\ n \in Nat
  BY DEF Cores
<1> DEFINE q == n \div c
           full == (scale + c) - 1
           p == full \div c
<1>2. q \in Nat /\ n % c \in 0 .. c - 1 /\ n = q * c + (n % c)
  BY <1>1, Division, Zenon
<1>0. full \in Nat
  BY <1>1
<1>3. p \in Nat /\ full % c \in 0 .. c - 1 /\ full = p * c + (full % c)
  <2> HIDE DEF full
  <2> QED
    BY <1>0, Division, Zenon
<1>4. NodeOfCore(n, c).node_id = n - c * q /\ NodeOfCore(n, c).chip_id = q
  BY <1>1 DEF NodeOfCore, Remainder, Quotient
<1>5. c * q = q * c
  BY <1>2
<1>6. p = (scale + c - 1) \div c
  OBVIOUS
<1>7. full >= n + c
  BY <1>1
<1> HIDE DEF q, p, full
<1>8. q < p
  <2>1. SUFFICES ASSUME p <= q PROVE FALSE
    BY <1>2, <1>3
  <2>2. p * c <= q * c
    BY <1>2, <1>3, <2>1
  <2> DEFINE pc == p * c
             qc == q * c
  <2>3. pc \in Int /\ qc \in Int /\ pc <= qc
    BY <1>2, <1>3, <2>2
  <2>4. full = pc + (full % c) /\ n = qc + (n % c)
    BY <1>2, <1>3
  <2> HIDE DEF pc, qc
  <2> QED
    BY <1>0, <1>1, <1>2, <1>3, <1>7, <2>3, <2>4
<1>9. n - c * q \in 0 .. c - 1
  <2> DEFINE qc == q * c
  <2>1. qc \in Int /\ n = qc + (n % c) /\ c * q = qc
    BY <1>2, <1>5
  <2> HIDE DEF qc
  <2> QED
    BY <1>1, <1>2, <2>1
<1> QED
  BY <1>2, <1>3, <1>4, <1>6, <1>8, <1>9
-----------------------------------------------------------------------------
(* The patterns of random pairs.                                           *)

Between(d, scale) == d[1] \in Cores(scale) /\ d[2] \in Cores(scale) /\ d[1] # d[2]

\* A pattern whose packets go between different cores of the scale.
Addressed(packets, scale) == packets # {} /\ \A d \in packets : Between(d, scale)

LEMMA UniformAddressed ==
  ASSUME NEW traffic \in {"uniform", "intra_group_uniform"}, NEW topology,
         NEW scale \in Nat, scale >= 2
  PROVE  Addressed(Packets(traffic, topology, scale), scale)
<1>1. Packets(traffic, topology, scale) = {d \in Cores(scale) \X Cores(scale) : d[1] # d[2]}
  BY DEF Packets, Draws, UniformDraws, Rings, BitPatterns
<1>2. <<0, 1>> \in Packets(traffic, topology, scale)
  BY <1>1 DEF Cores
<1> QED
  BY <1>1, <1>2 DEF Addressed, Between

\* The groups begin 10 quarters apart, which is not the whole scale except for 5.
LEMMA HotspotAddressed ==
  ASSUME NEW topology, NEW scale \in Nat, scale >= 4, scale # 5
  PROVE  Addressed(Packets("hotspot", topology, scale), scale)
<1> DEFINE q == scale \div 4
           H == HotspotCores(scale)
           core(g, n) == (10 * g * q + n) % scale
<1>1. Packets("hotspot", topology, scale) = {d \in H \X H : d[1] # d[2]}
  BY DEF Packets, Draws, HotspotDraws, Rings, BitPatterns
<1>2. q \in Nat \ {0}
  OBVIOUS
<1>3. H = {core(g, n) : g \in 0 .. 3, n \in 0 .. q - 1}
  BY DEF HotspotCores
<1>0. ASSUME NEW g \in 0 .. 3, NEW n \in 0 .. q - 1 PROVE (10 * g * q + n) % scale \in H
  <2>1. core(g, n) \in H
    <3> HIDE DEF core, H
    <3> QED
      BY <1>3
  <2> QED
    BY <2>1, Zenon
<1>4. H \subseteq Cores(scale)
  <2>1. \A a \in Nat : a % scale \in 0 .. scale - 1
    OBVIOUS
  <2>2. \A g \in 0 .. 3, n \in 0 .. q - 1 : 10 * g * q + n \in Nat
    BY <1>2
  <2> QED
    BY <1>3, <2>1, <2>2 DEF Cores
<1>5. 0 \in H
  <2>1. (10 * 0 * q + 0) % scale = 0
    BY <1>2
  <2> QED
    BY <1>2, <1>3, <2>1
<1>6. \E n \in H : n # 0
  <2>1. CASE scale >= 8
    <3>1. 1 \in 0 .. q - 1 /\ (10 * 0 * q + 1) % scale = 1
      BY <1>2, <2>1
    <3>2. 0 \in 0 .. 3
      OBVIOUS
    <3>3. (10 * 0 * q + 1) % scale \in H
      BY <1>0, <3>1, <3>2, Zenon
    <3> QED
      BY <3>1, <3>3
  <2>2. CASE scale \in {4, 6, 7}
    <3>1. q = 1 /\ (10 * 1 * 1 + 0) % scale # 0
      BY <2>2
    <3>2. 1 \in 0 .. 3 /\ 0 \in 0 .. q - 1
      BY <1>2
    <3>3. (10 * 1 * q + 0) % scale \in H
      BY <1>0, <3>2, Zenon
    <3> QED
      BY <3>1, <3>3
  <2> QED
    BY <2>1, <2>2
<1>7. PICK n \in H : n # 0
  BY <1>6
<1> HIDE DEF H
<1>8. <<0, n>> \in Packets("hotspot", topology, scale)
  BY <1>1, <1>5, <1>7
<1> QED
  BY <1>1, <1>4, <1>8 DEF Addressed, Between

\* A packet goes to the next of the groups of a 41st, which is never so far that
\* it comes back to its source.
LEMMA AdversarialAddressed ==
  ASSUME NEW topology, NEW scale \in Nat, scale >= 41
  PROVE  Addressed(Packets("adversarial", topology, scale), scale)
<1> DEFINE g == scale \div 41
           dest(src, n) == ((src \div g + 1) * g + n) % scale
<1>1. Packets("adversarial", topology, scale)
        = {<<src, dest(src, n)>> : src \in Cores(scale), n \in 0 .. g - 1}
  BY DEF Packets, Draws, AdversarialDraws, Rings, BitPatterns
<1>2. g \in Nat \ {0} /\ 41 * g <= scale
  OBVIOUS
<1> HIDE DEF g
<1>3. ASSUME NEW src \in Cores(scale), NEW n \in 0 .. g - 1
      PROVE  dest(src, n) \in Cores(scale) /\ dest(src, n) # src
  <2> DEFINE q == src \div g
             r == src % g
             a == (q + 1) * g + n
  <2>1. src \in Nat /\ src < scale
    BY DEF Cores
  <2>2. q \in Nat /\ r \in 0 .. g - 1 /\ src = q * g + r
    BY <1>2, <2>1, Division, Zenon
  <2>3. dest(src, n) = a % scale
    OBVIOUS
  <2> HIDE DEF q, r
  <2>4. (q + 1) * g = q * g + g /\ q * g \in Nat
    BY <1>2, <2>2
  <2>5. a = (src - r) + g + n
    <3> DEFINE s == q * g
    <3> HIDE DEF s
    <3>1. s \in Nat /\ (q + 1) * g = s + g /\ src = s + r
      BY <2>2, <2>4 DEF s
    <3> QED
      BY <1>2, <2>1, <2>2, <3>1
  <2> HIDE DEF a, dest
  <2>6. a \in 0 .. 2 * scale - 1 /\ a > src /\ a - scale < src
    BY <1>2, <2>1, <2>2, <2>5
  <2>7. a % scale = IF a < scale THEN a ELSE a - scale
    BY <2>6, RemainderBelow
  <2> QED
    BY <2>1, <2>3, <2>6, <2>7 DEF Cores
<1>4. 0 \in Cores(scale) /\ 0 \in 0 .. g - 1
  BY <1>2 DEF Cores
<1> DEFINE P == Packets("adversarial", topology, scale)
<1> HIDE DEF dest
<1>5. \A d \in P : \E src \in Cores(scale), n \in 0 .. g - 1 : d = <<src, dest(src, n)>>
  BY <1>1
<1>6. <<0, dest(0, 0)>> \in P
  BY <1>1, <1>4
<1>7. ASSUME NEW d \in P
      PROVE  d[1] \in Cores(scale) /\ d[2] \in Cores(scale) /\ d[1] # d[2]
  <2>1. PICK src \in Cores(scale), n \in 0 .. g - 1 : d = <<src, dest(src, n)>>
    BY <1>5
  <2>2. d[1] = src /\ d[2] = dest(src, n)
    BY <2>1
  <2>3. dest(src, n) \in Cores(scale) /\ dest(src, n) # src
    BY <1>3
  <2> QED
    BY <2>2, <2>3
<1> QED
  BY <1>6, <1>7 DEF Addressed, Between
-----------------------------------------------------------------------------
(* The rings.                                                              *)

\* r[m] is where a message is after m steps.
SendsOn(w, src, n, r) ==
  /\ n \in Nat /\ r[0] = src
  /\ \A m \in 0 .. n - 1 : r[m + 1] = RingDest(w.topology, w.scale, r[m])

RoundIs(w, src, n, r) == \A m \in 0 .. n : Round(w, src, n)[m] = r[m]

LEMMA SentAround ==
  ASSUME NEW w, NEW src, NEW n, NEW r, SendsOn(w, src, n, r)
  PROVE  RoundIs(w, src, n, r)
<1>0. /\ n \in Nat /\ r[0] = src
      /\ \A m \in 0 .. n - 1 : r[m + 1] = RingDest(w.topology, w.scale, r[m])
  BY DEF SendsOn
<1> DEFINE Step(v) == [m \in 0 .. n |->
                        IF m = 0 THEN src ELSE RingDest(w.topology, w.scale, v[m - 1])]
           R == Round(w, src, n)
<1>1. \A m \in 0 .. n : r[m] = IF m = 0 THEN src
                                ELSE RingDest(w.topology, w.scale, r[m - 1])
  <2> SUFFICES ASSUME NEW m \in 0 .. n, m # 0
               PROVE  r[m] = RingDest(w.topology, w.scale, r[m - 1])
    BY <1>0
  <2>1. m - 1 \in 0 .. n - 1 /\ (m - 1) + 1 = m
    BY <1>0
  <2> QED
    BY <1>0, <2>1
<1> DEFINE g == [m \in 0 .. n |-> r[m]]
<1>2. g = Step(g)
  <2> SUFFICES ASSUME NEW m \in 0 .. n
               PROVE  r[m] = IF m = 0 THEN src ELSE RingDest(w.topology, w.scale, g[m - 1])
    OBVIOUS
  <2>1. m # 0 => g[m - 1] = r[m - 1]
    BY <1>0
  <2> HIDE DEF g
  <2> QED
    BY <1>1, <2>1
<1>3. R = CHOOSE v : v = Step(v)
  BY DEF Round
<1>4. R = Step(R)
  <2> HIDE DEF Step, R, g
  <2> QED
    BY <1>2, <1>3, Zenon
<1> DEFINE Good == {m \in Nat : m <= n => R[m] = r[m]}
<1>5. \A m \in 0 .. n : R[m] = IF m = 0 THEN src
                               ELSE RingDest(w.topology, w.scale, R[m - 1])
  <2> HIDE DEF R
  <2> QED
    BY <1>4
<1> HIDE DEF R
<1>6. 0 \in Good
  BY <1>0, <1>5
<1>7. ASSUME NEW m \in Nat, m \in Good PROVE m + 1 \in Good
  <2> SUFFICES ASSUME m + 1 <= n PROVE R[m + 1] = r[m + 1]
    OBVIOUS
  <2>1. m \in 0 .. n - 1 /\ m + 1 \in 0 .. n /\ (m + 1) - 1 = m /\ m + 1 # 0
    BY <1>0
  <2>2. R[m] = r[m]
    BY <1>0, <1>7, <2>1
  <2>3. R[m + 1] = RingDest(w.topology, w.scale, R[m])
    BY <1>5, <2>1
  <2> QED
    BY <1>0, <2>1, <2>2, <2>3
<1>8. Nat \subseteq Good
  <2> HIDE DEF Good
  <2> QED
    BY <1>6, <1>7, NatInductionOnSets
<1>9. \A m \in 0 .. n : R[m] = r[m]
  BY <1>8
<1> QED
  BY <1>9 DEF RoundIs, R

\* n steps around a ring of n places.
StepsAround(r, n, t) ==
  /\ r \in [0 .. n -> 0 .. n - 1]
  /\ r[0] = t /\ r[n] = t
  /\ \A m \in 0 .. n - 1 : r[m + 1] = IF r[m] + 1 < n THEN r[m] + 1 ELSE 0
  /\ \A m, k \in 0 .. n - 1 : r[m] = r[k] => m = k

LEMMA AroundRing ==
  ASSUME NEW n \in Nat \ {0}, NEW t \in 0 .. n - 1
  PROVE  \E r : StepsAround(r, n, t)
<1> DEFINE r == [m \in 0 .. n |-> IF t + m < n THEN t + m ELSE t + m - n]
<1>1. r \in [0 .. n -> 0 .. n - 1]
  OBVIOUS
<1>2. r[0] = t /\ r[n] = t
  OBVIOUS
<1>3. \A m \in 0 .. n - 1 : r[m + 1] = IF r[m] + 1 < n THEN r[m] + 1 ELSE 0
  OBVIOUS
<1>4. \A m, k \in 0 .. n - 1 : r[m] = r[k] => m = k
  OBVIOUS
<1>5. StepsAround(r, n, t)
  BY <1>1, <1>2, <1>3, <1>4 DEF StepsAround
<1> QED
  BY <1>5

\* DragonflySW: one ring through all cores.
LEMMA NextSwitchCore ==
  ASSUME NEW n \in Nat \ {0}, NEW a \in 0 .. n - 1
  PROVE  RingDest("DragonflySW", n, a) = IF a + 1 < n THEN a + 1 ELSE 0
<1> DEFINE b == a + 1
<1>1. b \in 0 .. 2 * n - 1 /\ (~(b < n) => b - n = 0)
  OBVIOUS
<1>2. RingDest("DragonflySW", n, a) = b % n
  BY DEF RingDest
<1> HIDE DEF b
<1>3. b % n = IF b < n THEN b ELSE b - n
  BY <1>1, RemainderBelow
<1> QED
  BY <1>1, <1>2, <1>3 DEF b

LEMMA RingOfSwitches ==
  ASSUME NEW w, NEW n \in Nat \ {0}, NEW src \in Cores(n),
         w.topology = "DragonflySW", w.scale = n
  PROVE  LET round == Round(w, src, n)
         IN /\ round[n] = src
            /\ \A m, k \in 0 .. n - 1 : round[m] = round[k] => m = k
<1>1. src \in 0 .. n - 1 /\ n \in Nat
  BY DEF Cores
<1>0. PICK r : StepsAround(r, n, src)
  BY <1>1, AroundRing
<1>2. /\ r \in [0 .. n -> 0 .. n - 1]
      /\ r[0] = src /\ r[n] = src
      /\ \A m \in 0 .. n - 1 : r[m + 1] = IF r[m] + 1 < n THEN r[m] + 1 ELSE 0
      /\ \A m, k \in 0 .. n - 1 : r[m] = r[k] => m = k
  BY <1>0, Zenon DEF StepsAround
<1>3. \A m \in 0 .. n - 1 : m \in 0 .. n
  OBVIOUS
<1>4. \A m \in 0 .. n - 1 : r[m] \in 0 .. n - 1
  BY <1>2, <1>3, Zenon
<1>5. \A m \in 0 .. n - 1 : r[m + 1] = RingDest("DragonflySW", n, r[m])
  BY <1>2, <1>4, NextSwitchCore, Zenon
<1>6. \A m \in 0 .. n : Round(w, src, n)[m] = r[m]
  <2>1. SendsOn(w, src, n, r)
    BY <1>1, <1>2, <1>5, Zenon DEF SendsOn
  <2>2. RoundIs(w, src, n, r)
    BY ONLY <2>1, SentAround
  <2> QED
    BY <2>2 DEF RoundIs
<1>7. n \in 0 .. n
  OBVIOUS
<1> QED
  BY ONLY <1>2, <1>3, <1>6, <1>7

\* DragonflyChiplet: four rings, in which a core follows another of the same lane.
\* Place t of a ring is in C-group t \div 4.
Lanes == {0, 1, 4, 5}
Corner(s) == IF s = 0 THEN 0 ELSE IF s = 1 THEN 2 ELSE IF s = 2 THEN 10 ELSE 8
Place(lane, t) == 16 * (t \div 4) + lane + Corner(t % 4)

LEMMA PlaceOfCore ==
  ASSUME NEW b \in Nat \ {0}, NEW src \in 0 .. 16 * b - 1
  PROVE  \E lane \in Lanes, t \in 0 .. 4 * b - 1 : Place(lane, t) = src
<1> DEFINE c == src \div 16
           a == src % 16
<1>1. c \in 0 .. b - 1 /\ a \in 0 .. 15 /\ src = 16 * c + a
  OBVIOUS
<1> HIDE DEF c, a
<1>2. PICK lane \in Lanes, s \in 0 .. 3 : a = lane + Corner(s)
  <2>1. CASE a \in {0, 1, 4, 5}
    <3>1. a \in Lanes /\ a = a + Corner(0)
      BY <2>1 DEF Lanes, Corner
    <3> QED
      BY <3>1
  <2>2. CASE a \in {2, 3, 6, 7}
    <3>1. a - 2 \in Lanes /\ a = (a - 2) + Corner(1)
      BY <2>2 DEF Lanes, Corner
    <3> QED
      BY <3>1
  <2>3. CASE a \in {10, 11, 14, 15}
    <3>1. a - 10 \in Lanes /\ a = (a - 10) + Corner(2)
      BY <2>3 DEF Lanes, Corner
    <3> QED
      BY <3>1
  <2>4. CASE a \in {8, 9, 12, 13}
    <3>1. a - 8 \in Lanes /\ a = (a - 8) + Corner(3)
      BY <2>4 DEF Lanes, Corner
    <3> QED
      BY <3>1
  <2> QED
    BY <1>1, <2>1, <2>2, <2>3, <2>4
<1> DEFINE t == 4 * c + s
<1>3. t \in 0 .. 4 * b - 1 /\ t \div 4 = c /\ t % 4 = s
  BY <1>1
<1>4. Place(lane, t) = src
  <2>1. Corner(s) \in Int /\ lane \in Int
    BY DEF Corner, Lanes
  <2> HIDE DEF t
  <2>2. Place(lane, t) = 16 * c + lane + Corner(s)
    BY <1>3 DEF Place
  <2> QED
    BY <1>1, <1>2, <2>1, <2>2
<1> QED
  BY <1>3, <1>4

\* Inside a C-group the ways forth and back undo each other, and stay in it.
LEMMA InsideGroup ==
  ASSUME NEW topology, topology # "DragonflySW", NEW n, NEW a \in Nat
  PROVE  /\ a % 16 \in {0, 1, 4, 5} => RingDest(topology, n, a) = Remainder(a + 2, n)
         /\ a % 16 \in {2, 3, 6, 7} => /\ RingDest(topology, n, a) = Remainder(a + 8, n)
                                       /\ RingBackDest(topology, n, a) = Remainder(a - 2, n)
         /\ a % 16 \in {10, 11, 14, 15} => /\ RingDest(topology, n, a) = Remainder(a - 2, n)
                                           /\ RingBackDest(topology, n, a) = Remainder(a - 8, n)
         /\ a % 16 \in {8, 9, 12, 13} => RingBackDest(topology, n, a) = Remainder(a + 2, n)
BY DEF RingDest, RingBackDest

LEMMA LeavesGroup ==
  ASSUME NEW topology, topology # "DragonflySW", NEW n, NEW a \in Nat
  PROVE  /\ a % 16 \in {8, 9, 12, 13} => RingDest(topology, n, a) = Remainder(a + 8, n)
         /\ a % 16 \in {0, 1, 4, 5} =>
              RingBackDest(topology, n, a) = Remainder(a - 8 + n, n)
BY DEF RingDest, RingBackDest

\* The next place, and the way back from it.
LEMMA NextChipletCore ==
  ASSUME NEW topology, topology # "DragonflySW",
         NEW b \in Nat \ {0}, NEW lane \in Lanes, NEW t \in 0 .. 4 * b - 1
  PROVE  LET next == Place(lane, IF t + 1 < 4 * b THEN t + 1 ELSE 0)
         IN /\ RingDest(topology, 16 * b, Place(lane, t)) = next
            /\ RingBackDest(topology, 16 * b, next) = Place(lane, t)
            /\ next # Place(lane, t)
<1> DEFINE n == 16 * b
           c == t \div 4
           s == t % 4
           t1 == IF t + 1 < 4 * b THEN t + 1 ELSE 0
           src == Place(lane, t)
           next == Place(lane, t1)
<1>1. c \in 0 .. b - 1 /\ s \in 0 .. 3 /\ t = 4 * c + s
  OBVIOUS
<1>2. src = 16 * c + lane + Corner(s)
  BY DEF Place
<1>3. n \in Nat \ {0}
  OBVIOUS
<1>4. \A x \in 0 .. 2 * n - 1 : Remainder(x, n) = IF x < n THEN x ELSE x - n
  <2> HIDE DEF n
  <2> QED
    BY <1>3, RemainderBelow
<1>5. ASSUME s # 3 PROVE next = 16 * c + lane + Corner(s + 1)
  <2>1. t1 = t + 1 /\ t1 \div 4 = c /\ t1 % 4 = s + 1
    BY <1>1, <1>5
  <2> HIDE DEF t1, c, s
  <2> QED
    BY <2>1 DEF Place
<1>6. ASSUME s = 3 PROVE next = (IF c + 1 < b THEN 16 * (c + 1) ELSE 0) + lane + 0
  <2>1. t1 \div 4 = (IF c + 1 < b THEN c + 1 ELSE 0) /\ t1 % 4 = 0
    BY <1>1, <1>6
  <2> HIDE DEF t1, c, s
  <2> QED
    BY <2>1 DEF Place, Corner
<1> HIDE DEF c, s, src, next, n
<1>7. CASE s = 0
  <2>1. src = 16 * c + lane /\ next = 16 * c + lane + 2
    BY <1>1, <1>2, <1>5, <1>7 DEF Corner, Lanes
  <2>2. /\ src \in 0 .. n - 1 /\ next \in 0 .. n - 1 /\ next = src + 2 /\ next - 2 = src
        /\ src % 16 \in {0, 1, 4, 5} /\ next % 16 \in {2, 3, 6, 7}
    BY <1>1, <2>1 DEF Lanes, n
  <2>3. Remainder(src + 2, n) = next /\ Remainder(next - 2, n) = src
    BY <1>3, <1>4, <2>2
  <2>4. RingDest(topology, n, src) = next /\ RingBackDest(topology, n, next) = src
    BY <2>2, <2>3, InsideGroup
  <2>5. next # src
    BY <2>2
  <2> QED
    BY <2>4, <2>5 DEF n, src, next
<1>8. CASE s = 1
  <2>1. src = 16 * c + lane + 2 /\ next = 16 * c + lane + 10
    BY <1>1, <1>2, <1>5, <1>8 DEF Corner, Lanes
  <2>2. /\ src \in 0 .. n - 1 /\ next \in 0 .. n - 1 /\ next = src + 8 /\ next - 8 = src
        /\ src % 16 \in {2, 3, 6, 7} /\ next % 16 \in {10, 11, 14, 15}
    BY <1>1, <2>1 DEF Lanes, n
  <2>3. Remainder(src + 8, n) = next /\ Remainder(next - 8, n) = src
    BY <1>3, <1>4, <2>2
  <2>4. RingDest(topology, n, src) = next /\ RingBackDest(topology, n, next) = src
    BY <2>2, <2>3, InsideGroup
  <2>5. next # src
    BY <2>2
  <2> QED
    BY <2>4, <2>5 DEF n, src, next
<1>9. CASE s = 2
  <2>1. src = 16 * c + lane + 10 /\ next = 16 * c + lane + 8
    BY <1>1, <1>2, <1>5, <1>9 DEF Corner, Lanes
  <2>2. /\ src \in 0 .. n - 1 /\ next \in 0 .. n - 1 /\ next = src - 2 /\ next + 2 = src
        /\ src % 16 \in {10, 11, 14, 15} /\ next % 16 \in {8, 9, 12, 13}
    BY <1>1, <2>1 DEF Lanes, n
  <2>3. Remainder(src - 2, n) = next /\ Remainder(next + 2, n) = src
    BY <1>3, <1>4, <2>2
  <2>4. RingDest(topology, n, src) = next /\ RingBackDest(topology, n, next) = src
    BY <2>2, <2>3, InsideGroup
  <2>5. next # src
    BY <2>2
  <2> QED
    BY <2>4, <2>5 DEF n, src, next
<1>10. CASE s = 3
  <2>1. src = 16 * c + lane + 8 /\ next = (IF c + 1 < b THEN 16 * (c + 1) ELSE 0) + lane
    BY <1>1, <1>2, <1>6, <1>10 DEF Corner, Lanes
  <2>0. src \in Nat /\ next \in Nat
    BY <1>1, <2>1 DEF Lanes
  <2>2. CASE c + 1 < b
    <3>1. next = src + 8 /\ next % 16 \in {0, 1, 4, 5} /\ src % 16 \in {8, 9, 12, 13}
      BY <1>1, <2>1, <2>2 DEF Lanes
    <3>2. src + 8 \in 0 .. n - 1 /\ next - 8 + n \in n .. 2 * n - 1
      BY <1>1, <2>1, <2>2, <3>1 DEF Lanes, n
    <3>3. Remainder(src + 8, n) = src + 8 /\ Remainder(next - 8 + n, n) = next - 8
      BY <1>3, <1>4, <2>0, <3>2
    <3>4. RingDest(topology, n, src) = next /\ RingBackDest(topology, n, next) = next - 8
      BY <2>0, <3>1, <3>3, LeavesGroup
    <3> QED
      BY <2>0, <3>1, <3>4 DEF n, src, next
  <2>3. CASE ~(c + 1 < b)
    <3>1. src = next + n - 8 /\ next % 16 \in {0, 1, 4, 5} /\ src % 16 \in {8, 9, 12, 13}
      BY <1>1, <2>1, <2>3 DEF Lanes, n
    <3>2. src + 8 \in n .. 2 * n - 1 /\ next - 8 + n \in 0 .. n - 1
      BY <1>1, <2>1, <2>3, <3>1 DEF Lanes, n
    <3>3. Remainder(src + 8, n) = src + 8 - n /\ Remainder(next - 8 + n, n) = next - 8 + n
      BY <1>3, <1>4, <2>0, <3>2
    <3>4. /\ RingDest(topology, n, src) = src + 8 - n
          /\ RingBackDest(topology, n, next) = next - 8 + n
      BY <2>0, <3>1, <3>3, LeavesGroup
    <3>5. src + 8 - n = next /\ next - 8 + n = src /\ next # src
      BY <1>3, <2>0, <3>1
    <3> QED
      BY <3>4, <3>5 DEF n, src, next
  <2> QED
    BY <2>2, <2>3
<1> QED
  BY <1>1, <1>7, <1>8, <1>9, <1>10

LEMMA PlacesApartInLane ==
  ASSUME NEW lane \in Lanes, NEW t \in Nat, NEW u \in Nat, Place(lane, t) = Place(lane, u)
  PROVE  t = u
<1> DEFINE c == t \div 4
           d == u \div 4
           s == t % 4
           r == u % 4
<1>1. c \in Nat /\ s \in 0 .. 3 /\ t = 4 * c + s /\ d \in Nat /\ r \in 0 .. 3 /\ u = 4 * d + r
  OBVIOUS
<1>2. 16 * c + lane + Corner(s) = 16 * d + lane + Corner(r)
  BY DEF Place
<1> HIDE DEF c, d, s, r
<1>3. 16 * c + Corner(s) = 16 * d + Corner(r)
  BY <1>1, <1>2 DEF Lanes, Corner
<1>4. c = d /\ s = r
  BY <1>1, <1>3 DEF Corner
<1> QED
  BY <1>1, <1>4

LEMMA RingOfChiplets ==
  ASSUME NEW w, NEW b \in Nat \ {0}, NEW src \in Cores(16 * b),
         w.topology # "DragonflySW", w.scale = 16 * b
  PROVE  LET round == Round(w, src, 4 * b)
         IN /\ round[4 * b] = src
            /\ \A m, k \in 0 .. 4 * b - 1 : round[m] = round[k] => m = k
<1> DEFINE n == 4 * b
<1>1. src \in 0 .. 16 * b - 1 /\ n \in Nat /\ n \in Nat \ {0} /\ n \in 0 .. n /\ 0 \in 0 .. n
  BY DEF Cores
<1>2. PICK lane \in Lanes, t \in 0 .. n - 1 : Place(lane, t) = src
  BY <1>1, PlaceOfCore
<1>3. \A m \in 0 .. n - 1 : LET next == Place(lane, IF m + 1 < n THEN m + 1 ELSE 0)
                              IN RingDest(w.topology, 16 * b, Place(lane, m)) = next
  BY NextChipletCore
<1> HIDE DEF n
<1>0. PICK q : StepsAround(q, n, t)
  BY <1>1, AroundRing
<1>4. /\ q \in [0 .. n -> 0 .. n - 1]
      /\ q[0] = t /\ q[n] = t
      /\ \A m \in 0 .. n - 1 : q[m + 1] = IF q[m] + 1 < n THEN q[m] + 1 ELSE 0
      /\ \A m, k \in 0 .. n - 1 : q[m] = q[k] => m = k
  BY <1>0, Zenon DEF StepsAround
<1> DEFINE r == [m \in 0 .. n |-> Place(lane, q[m])]
<1>5. \A m \in 0 .. n - 1 : m \in 0 .. n /\ m + 1 \in 0 .. n
  BY <1>1
<1>6. \A m \in 0 .. n : r[m] = Place(lane, q[m])
  OBVIOUS
<1>7. \A m \in 0 .. n : q[m] \in 0 .. n - 1 /\ q[m] \in Nat
  BY <1>4
<1> HIDE DEF r
<1>8. ASSUME NEW m \in 0 .. n - 1
      PROVE  r[m + 1] = RingDest(w.topology, 16 * b, r[m])
  <2>1. r[m] = Place(lane, q[m]) /\ r[m + 1] = Place(lane, q[m + 1])
    BY <1>5, <1>6, Zenon
  <2>2. RingDest(w.topology, 16 * b, Place(lane, q[m]))
          = Place(lane, IF q[m] + 1 < n THEN q[m] + 1 ELSE 0)
    BY <1>3, <1>5, <1>7, Zenon
  <2> QED
    BY <1>4, <2>1, <2>2, Zenon
<1>9. r[0] = src /\ r[n] = src
  BY <1>1, <1>2, <1>4, <1>6, Zenon
<1>10. \A m, k \in 0 .. n - 1 : r[m] = r[k] => m = k
  <2> SUFFICES ASSUME NEW m \in 0 .. n - 1, NEW k \in 0 .. n - 1, r[m] = r[k] PROVE m = k
    OBVIOUS
  <2>1. Place(lane, q[m]) = Place(lane, q[k])
    BY <1>5, <1>6, Zenon
  <2>2. q[m] = q[k]
    BY <1>5, <1>7, <2>1, PlacesApartInLane, Zenon
  <2> QED
    BY <1>4, <2>2, Zenon
<1>11. SendsOn(w, src, n, r)
  BY <1>1, <1>8, <1>9, Zenon DEF SendsOn
<1>12. RoundIs(w, src, n, r)
  BY ONLY <1>11, SentAround
<1>13. \A m \in 0 .. n : Round(w, src, n)[m] = r[m]
  BY <1>12, Zenon DEF RoundIs
<1>14. /\ Round(w, src, n)[n] = src
       /\ \A m, k \in 0 .. n - 1 : Round(w, src, n)[m] = Round(w, src, n)[k] => m = k
  BY ONLY <1>1, <1>5, <1>9, <1>10, <1>13
<1> QED
  BY <1>14 DEF n

LEMMA WayBackUndoes ==
  ASSUME NEW topology, topology # "DragonflySW",
         NEW b \in Nat \ {0}, NEW src \in Cores(16 * b)
  PROVE  RingBackDest(topology, 16 * b, RingDest(topology, 16 * b, src)) = src
<1> DEFINE n == 4 * b
           after(t) == IF t + 1 < n THEN t + 1 ELSE 0
<1>1. Cores(16 * b) = 0 .. 16 * b - 1
  BY DEF Cores
<1>2. PICK lane \in Lanes, t \in 0 .. n - 1 : Place(lane, t) = src
  BY <1>1, PlaceOfCore
<1>3. /\ RingDest(topology, 16 * b, Place(lane, t)) = Place(lane, after(t))
      /\ RingBackDest(topology, 16 * b, Place(lane, after(t))) = Place(lane, t)
  BY NextChipletCore
<1> QED
  BY <1>2, <1>3, Zenon

\* A step of a ring of DragonflyChiplet leads to another core, also on scales that
\* fill no C-group, as long as there are more cores than the longest step.
LEMMA ChipletSteps ==
  ASSUME NEW topology, topology # "DragonflySW",
         NEW scale \in Nat, scale > 8, NEW src \in Cores(scale)
  PROVE  /\ RingDest(topology, scale, src) \in Cores(scale) \ {src}
         /\ RingBackDest(topology, scale, src) \in Cores(scale) \ {src}
<1> DEFINE place == src % 16
<1>1. src \in 0 .. scale - 1 /\ Cores(scale) = 0 .. scale - 1 /\ scale \in Nat \ {0}
  BY DEF Cores
<1>2. place \in 0 .. 15 /\ place <= src
  BY <1>1
<1>3. /\ RingDest(topology, scale, src) =
           CASE place \in {0, 1, 4, 5} -> Remainder(src + 2, scale)
             [] place \in {2, 3, 6, 7} \cup {8, 9, 12, 13} -> Remainder(src + 8, scale)
             [] place \in {10, 11, 14, 15} -> Remainder(src - 2, scale)
      /\ RingBackDest(topology, scale, src) =
           CASE place \in {0, 1, 4, 5} -> Remainder(src - 8 + scale, scale)
             [] place \in {2, 3, 6, 7} -> Remainder(src - 2, scale)
             [] place \in {8, 9, 12, 13} -> Remainder(src + 2, scale)
             [] place \in {10, 11, 14, 15} -> Remainder(src - 8, scale)
  BY DEF RingDest, RingBackDest
<1> HIDE DEF place
<1>4. ASSUME NEW a \in 0 .. 2 * scale - 1, a # src, a # src + scale
      PROVE  Remainder(a, scale) \in Cores(scale) \ {src}
  <2>1. Remainder(a, scale) = IF a < scale THEN a ELSE a - scale
    BY <1>1, RemainderBelow
  <2> QED
    BY <1>1, <1>4, <2>1
<1>5. CASE place \in {0, 1, 4, 5}
  <2>1. /\ src + 2 \in 0 .. 2 * scale - 1 /\ src + 2 # src /\ src + 2 # src + scale
        /\ src - 8 + scale \in 0 .. 2 * scale - 1
        /\ src - 8 + scale # src /\ src - 8 + scale # src + scale
    BY <1>1
  <2>2. /\ RingDest(topology, scale, src) = Remainder(src + 2, scale)
        /\ RingBackDest(topology, scale, src) = Remainder(src - 8 + scale, scale)
    BY <1>3, <1>5
  <2> QED
    BY <1>4, <2>1, <2>2
<1>6. CASE place \in {2, 3, 6, 7}
  <2>1. /\ src + 8 \in 0 .. 2 * scale - 1 /\ src + 8 # src /\ src + 8 # src + scale
        /\ src - 2 \in 0 .. 2 * scale - 1 /\ src - 2 # src /\ src - 2 # src + scale
    BY <1>1, <1>2, <1>6
  <2>2. /\ RingDest(topology, scale, src) = Remainder(src + 8, scale)
        /\ RingBackDest(topology, scale, src) = Remainder(src - 2, scale)
    BY <1>3, <1>6
  <2> QED
    BY <1>4, <2>1, <2>2
<1>7. CASE place \in {8, 9, 12, 13}
  <2>1. /\ src + 8 \in 0 .. 2 * scale - 1 /\ src + 8 # src /\ src + 8 # src + scale
        /\ src + 2 \in 0 .. 2 * scale - 1 /\ src + 2 # src /\ src + 2 # src + scale
    BY <1>1
  <2>2. /\ RingDest(topology, scale, src) = Remainder(src + 8, scale)
        /\ RingBackDest(topology, scale, src) = Remainder(src + 2, scale)
    BY <1>3, <1>7
  <2> QED
    BY <1>4, <2>1, <2>2
<1>8. CASE place \in {10, 11, 14, 15}
  <2>1. /\ src - 2 \in 0 .. 2 * scale - 1 /\ src - 2 # src /\ src - 2 # src + scale
        /\ src - 8 \in 0 .. 2 * scale - 1 /\ src - 8 # src /\ src - 8 # src + scale
    BY <1>1, <1>2, <1>8
  <2>2. /\ RingDest(topology, scale, src) = Remainder(src - 2, scale)
        /\ RingBackDest(topology, scale, src) = Remainder(src - 8, scale)
    BY <1>3, <1>8
  <2> QED
    BY <1>4, <2>1, <2>2
<1> QED
  BY <1>2, <1>5, <1>6, <1>7, <1>8

\* On DragonflySW only the way back of core 0 misses.
LEMMA SwitchSteps ==
  ASSUME NEW scale \in Nat, scale >= 2, NEW src \in Cores(scale)
  PROVE  /\ RingDest("DragonflySW", scale, src) \in Cores(scale) \ {src}
         /\ src = 0 => RingBackDest("DragonflySW", scale, src) = -1
         /\ src # 0 => RingBackDest("DragonflySW", scale, src) \in Cores(scale) \ {src}
<1>1. src \in 0 .. scale - 1 /\ Cores(scale) = 0 .. scale - 1 /\ scale \in Nat \ {0}
  BY DEF Cores
<1>2. RingDest("DragonflySW", scale, src) = IF src + 1 < scale THEN src + 1 ELSE 0
  BY <1>1, NextSwitchCore
<1>3. RingBackDest("DragonflySW", scale, src) = Remainder(src - 1, scale)
  BY DEF RingBackDest
<1>4. CASE src = 0
  <2>1. 1 \in 0 .. scale - 1 /\ 0 * scale + 1 = 1
    BY <1>1
  <2>2. 1 \div scale = 0
    BY <1>1, <2>1, PlaceOfMember
  <2>3. Remainder(-1, scale) = -1
    BY <1>1, <2>2 DEF Remainder, Quotient
  <2> QED
    BY <1>1, <1>2, <1>3, <1>4, <2>3
<1>5. CASE src # 0
  <2>1. src - 1 \in 0 .. 2 * scale - 1 /\ src - 1 < scale
    BY <1>1, <1>5
  <2>2. Remainder(src - 1, scale) = src - 1
    BY <1>1, <2>1, RemainderBelow
  <2> QED
    BY <1>1, <1>2, <1>3, <1>5, <2>2
<1> QED
  BY <1>4, <1>5

\* The packet that goes nowhere.
Missing(traffic, topology, d) ==
  traffic = "ring_all_reduce_bi" /\ topology = "DragonflySW" /\ d = <<0, -1>>

LEMMA RingsAddressed ==
  ASSUME NEW traffic \in Rings, NEW topology, NEW scale \in Nat \ {0},
         \/ topology = "DragonflyChiplet" /\ scale > 8
         \/ topology = "DragonflySW" /\ scale >= 2
  PROVE  LET packets == Packets(traffic, topology, scale) IN
         /\ packets # {}
         /\ \A d \in packets : Between(d, scale) \/ Missing(traffic, topology, d)
<1> DEFINE P == Packets(traffic, topology, scale)
           forth(src) == RingDest(topology, scale, src)
           back(src) == RingBackDest(topology, scale, src)
<1>1. /\ \A d \in P : \E src \in Cores(scale) :
           \/ d = <<src, forth(src)>>
           \/ traffic = "ring_all_reduce_bi" /\ d = <<src, back(src)>>
      /\ \A src \in Cores(scale) : <<src, forth(src)>> \in P
  <2>1. P = Draws(traffic, topology, scale)
    BY DEF Packets
  <2>2. CASE traffic = "ring_all_reduce"
    <3>1. P = {<<src, forth(src)>> : src \in Cores(scale)}
      BY <2>1, <2>2 DEF Draws, BitPatterns
    <3> HIDE DEF P, forth
    <3> QED
      BY <3>1
  <2>3. CASE traffic = "ring_all_reduce_bi"
    <3>1. P = {<<src, forth(src)>> : src \in Cores(scale)}
                \cup {<<src, back(src)>> : src \in Cores(scale)}
      BY <2>1, <2>3 DEF Draws, BitPatterns
    <3> HIDE DEF P, forth, back
    <3> QED
      BY <2>3, <3>1
  <2> QED
    BY <2>2, <2>3 DEF Rings
<1>2. ASSUME NEW src \in Cores(scale)
      PROVE  /\ forth(src) \in Cores(scale) \ {src}
             /\ \/ back(src) \in Cores(scale) \ {src}
                \/ topology = "DragonflySW" /\ src = 0 /\ back(src) = -1
  <2>1. CASE topology = "DragonflyChiplet" /\ scale > 8
    BY <2>1, ChipletSteps
  <2>2. CASE topology = "DragonflySW" /\ scale >= 2
    BY <2>2, SwitchSteps
  <2> QED
    BY <2>1, <2>2
<1>3. 0 \in Cores(scale)
  BY DEF Cores
<1> HIDE DEF P, forth, back
<1>4. P # {}
  BY <1>1, <1>3
<1>5. ASSUME NEW d \in P
      PROVE  Between(d, scale) \/ Missing(traffic, topology, d)
  <2>1. PICK src \in Cores(scale) :
          \/ d = <<src, forth(src)>>
          \/ traffic = "ring_all_reduce_bi" /\ d = <<src, back(src)>>
    BY <1>1
  <2> QED
    BY <1>2, <2>1 DEF Between, Missing
<1> QED
  BY <1>4, <1>5 DEF P

-----------------------------------------------------------------------------
(* The bits of a number.                                                   *)

LEMMA PowerFacts ==
  /\ Power \in [Nat -> Nat \ {0}]
  /\ Power[0] = 1
  /\ \A j \in Nat : Power[j + 1] = 2 * Power[j]
<1> DEFINE T == Nat \ {0}
           step == [n \in T |-> 2 * n]
           Body(f) == [j \in Nat |-> IF j = 0 THEN 1 ELSE 2 * f[j - 1]]
<1>1. 1 \in T /\ step \in [T -> T]
  OBVIOUS
<1>2. PICK f \in [Nat -> T] : Iterates(f, 1, step)
  <2> HIDE DEF step, T
  <2> QED
    BY <1>1, IterationExists
<1>3. f = Body(f)
  <2>1. \A j \in Nat : j # 0 => step[f[j - 1]] = 2 * f[j - 1]
    OBVIOUS
  <2> HIDE DEF step
  <2> QED
    BY <1>2, <2>1 DEF Iterates
<1>4. Power = Body(Power)
  <2>1. Power = CHOOSE g : g = Body(g)
    BY DEF Power
  <2> HIDE DEF Body
  <2> QED
    BY <1>3, <2>1
<1>5. Power[0] = 1 /\ \A j \in Nat : Power[j + 1] = 2 * Power[j]
  <2>1. \A j \in Nat : j + 1 \in Nat /\ j + 1 # 0 /\ (j + 1) - 1 = j
    OBVIOUS
  <2>2. \A j \in Nat : Power[j] = IF j = 0 THEN 1 ELSE 2 * Power[j - 1]
    BY <1>4
  <2> QED
    BY <2>1, <2>2
<1> DEFINE Good == {j \in Nat : Power[j] \in T}
<1>6. Nat \subseteq Good
  <2>1. 0 \in Good /\ \A j \in Nat : j \in Good => j + 1 \in Good
    BY <1>5
  <2> HIDE DEF Good
  <2> QED
    BY <2>1, NatInductionOnSets
<1>7. DOMAIN Power = Nat /\ Power = [j \in Nat |-> Power[j]]
  BY <1>4
<1>8. Power \in [Nat -> T]
  BY <1>6, <1>7
<1> QED
  BY <1>5, <1>8

LEMMA PowerGrows ==
  ASSUME NEW j \in Nat, NEW b \in Nat, j <= b
  PROVE  Power[j] <= Power[b] /\ b < Power[b]
<1> DEFINE Good == {n \in Nat : n < Power[n] /\ (j <= n => Power[j] <= Power[n])}
<1>1. 0 \in Good
  BY PowerFacts
<1>2. ASSUME NEW n \in Nat, n \in Good PROVE n + 1 \in Good
  <2>1. Power[n + 1] = 2 * Power[n] /\ Power[n] \in Nat \ {0} /\ Power[n + 1] \in Nat \ {0}
    BY PowerFacts
  <2>2. n < Power[n] /\ (j <= n => Power[j] <= Power[n]) /\ Power[j] \in Nat
    BY <1>2, PowerFacts
  <2>3. n + 1 < Power[n + 1]
    BY <2>1, <2>2
  <2>4. j <= n + 1 => Power[j] <= Power[n + 1]
    <3>1. CASE j = n + 1
      BY <2>1, <3>1
    <3>2. CASE j # n + 1
      BY <2>1, <2>2, <3>2
    <3> QED
      BY <3>1, <3>2
  <2> QED
    BY <2>3, <2>4
<1>3. Nat \subseteq Good
  <2> HIDE DEF Good
  <2> QED
    BY <1>1, <1>2, NatInductionOnSets
<1> QED
  BY <1>3

\* The greatest power of two that a number reaches.
LEMMA BitsFit ==
  ASSUME NEW scale \in Nat \ {0}
  PROVE  /\ Bits(scale) \in Nat
         /\ Power[Bits(scale)] <= scale /\ scale < Power[Bits(scale) + 1]
<1> DEFINE Above == {j \in Nat : scale < Power[j]}
           Fits(b) == Power[b] <= scale /\ scale < Power[b + 1]
<1>1. scale \in Above
  BY PowerGrows
<1>2. PICK t \in Above : \A j \in Above : t <= j
  BY <1>1, LeastElement
<1>3. t \in Nat \ {0} /\ t <= scale /\ t - 1 \in Nat /\ t - 1 \notin Above /\ (t - 1) + 1 = t
  BY <1>1, <1>2, PowerFacts
<1>4. Power[t - 1] \in Nat
  BY <1>3, PowerFacts
<1>5. Fits(t - 1) /\ t - 1 \in 0 .. scale
  BY <1>2, <1>3, <1>4
<1>6. Bits(scale) = CHOOSE b \in 0 .. scale : Fits(b)
  BY DEF Bits
<1> HIDE DEF Fits
<1>7. Bits(scale) \in 0 .. scale /\ Fits(Bits(scale))
  BY <1>5, <1>6
<1> QED
  BY <1>7 DEF Fits

LEMMA BitType ==
  ASSUME NEW n \in Nat, NEW j \in Nat
  PROVE  Bit(n, j) \in {0, 1}
<1>1. Power[j] \in Nat \ {0}
  BY PowerFacts
<1>2. n \div Power[j] \in Nat
  BY <1>1
<1> QED
  BY <1>2 DEF Bit

\* A bit does not depend on the bits above it.
LEMMA HighBitIgnored ==
  ASSUME NEW b \in Nat, NEW j \in 0 .. b - 1, NEW c \in Nat, NEW m \in Nat
  PROVE  Bit(c * Power[b] + m, j) = Bit(m, j)
<1> DEFINE P == Power[j]
           Good == {u \in Nat : j < u => \E k \in Nat : Power[u] = (2 * k) * P}
<1>1. P \in Nat \ {0} /\ j \in Nat
  BY PowerFacts
<1>2. 0 \in Good
  BY <1>1
<1>3. ASSUME NEW u \in Nat, u \in Good PROVE u + 1 \in Good
  <2>1. Power[u + 1] = 2 * Power[u] /\ Power[u] \in Nat
    BY PowerFacts
  <2>2. CASE j = u
    <3>1. Power[u + 1] = (2 * 1) * P
      BY <2>1, <2>2
    <3>2. \E k \in Nat : Power[u + 1] = (2 * k) * P
      <4> HIDE DEF P
      <4> WITNESS 1 \in Nat
      <4> QED
        BY <3>1
    <3> QED
      BY <3>2
  <2>3. CASE j < u
    <3>1. PICK k \in Nat : Power[u] = (2 * k) * P
      BY <1>3, <2>3
    <3>2. Power[u + 1] = (2 * (2 * k)) * P /\ 2 * k \in Nat
      BY <1>1, <2>1, <3>1
    <3>3. \E d \in Nat : Power[u + 1] = (2 * d) * P
      <4> HIDE DEF P
      <4> WITNESS 2 * k \in Nat
      <4> QED
        BY <3>2
    <3> QED
      BY <3>3
  <2>4. CASE u < j
    BY <2>4
  <2> QED
    BY <1>1, <2>2, <2>3, <2>4
<1>4. b \in Good
  <2> HIDE DEF Good
  <2> QED
    BY <1>2, <1>3, NatInductionOnSets
<1>5. PICK k \in Nat : Power[b] = (2 * k) * P
  BY <1>4
<1> DEFINE q == m \div P
           r == m % P
<1>6. q \in Nat /\ r \in 0 .. P - 1 /\ m = q * P + r
  BY <1>1, Division
<1> HIDE DEF P, q, r
<1> DEFINE s == c * k
<1>7. c * Power[b] + m = (2 * s + q) * P + r
  BY <1>1, <1>5, <1>6
<1>8. s \in Nat
  OBVIOUS
<1> HIDE DEF s
<1>9. (c * Power[b] + m) \div P = 2 * s + q
  <2> DEFINE g == 2 * s + q
  <2>1. g \in Nat
    BY <1>6, <1>8
  <2> HIDE DEF g
  <2>2. (g * P + r) \div P = g
    BY <1>1, <1>6, <2>1, PlaceOfMember
  <2> QED
    BY <1>7, <2>2 DEF g
<1>10. (2 * s + q) % 2 = q % 2
  BY <1>6, <1>8
<1> QED
  BY <1>9, <1>10 DEF Bit, P, q

\* Two numbers with the same bits are the same.
LEMMA SameBits ==
  ASSUME NEW b \in Nat
  PROVE  \A n, m \in 0 .. Power[b] - 1 :
           (\A j \in 0 .. b - 1 : Bit(n, j) = Bit(m, j)) => n = m
<1> DEFINE Same(u) == \A n, m \in 0 .. Power[u] - 1 :
                        (\A j \in 0 .. u - 1 : Bit(n, j) = Bit(m, j)) => n = m
           Good == {u \in Nat : Same(u)}
<1>1. 0 \in Good
  BY PowerFacts
<1>2. ASSUME NEW u \in Nat, u \in Good PROVE u + 1 \in Good
  <2> SUFFICES ASSUME NEW n \in 0 .. Power[u + 1] - 1, NEW m \in 0 .. Power[u + 1] - 1,
                      \A j \in 0 .. (u + 1) - 1 : Bit(n, j) = Bit(m, j)
               PROVE  n = m
    OBVIOUS
  <2> DEFINE P == Power[u]
  <2>1. P \in Nat \ {0} /\ Power[u + 1] = 2 * P
    BY PowerFacts
  <2> HIDE DEF P
  <2>2. n \in Nat /\ m \in Nat
    BY <2>1
  <2>3. /\ n \div P \in Nat /\ n % P \in 0 .. P - 1 /\ n = (n \div P) * P + (n % P)
        /\ m \div P \in Nat /\ m % P \in 0 .. P - 1 /\ m = (m \div P) * P + (m % P)
    BY <2>1, <2>2, Division
  <2>4. n \div P < 2 /\ m \div P < 2
    <3>1. ASSUME NEW q \in Nat, NEW r \in 0 .. P - 1, q * P + r < 2 * P PROVE q < 2
      <4>1. SUFFICES ASSUME 2 <= q PROVE FALSE
        OBVIOUS
      <4>2. 2 * P <= q * P
        BY <2>1, <4>1
      <4> QED
        BY <2>1, <3>1, <4>2
    <3> QED
      BY <2>1, <2>3, <3>1
  <2>5. n \div P = m \div P
    <3>1. Bit(n, u) = Bit(m, u)
      OBVIOUS
    <3>2. (n \div P) % 2 = (m \div P) % 2
      BY <3>1 DEF Bit, P
    <3> QED
      BY <2>3, <2>4, <3>2
  <2>6. n % P = m % P
    <3>1. ASSUME NEW j \in 0 .. u - 1 PROVE Bit(n % P, j) = Bit(m % P, j)
      <4>1. Bit((n \div P) * P + (n % P), j) = Bit(n % P, j)
        BY <2>3, HighBitIgnored DEF P
      <4>2. Bit((m \div P) * P + (m % P), j) = Bit(m % P, j)
        BY <2>3, HighBitIgnored DEF P
      <4>3. Bit(n, j) = Bit(m, j)
        OBVIOUS
      <4> QED
        BY <2>3, <4>1, <4>2, <4>3
    <3>2. Same(u)
      BY <1>2
    <3> HIDE DEF Same
    <3>3. n % P \in 0 .. Power[u] - 1 /\ m % P \in 0 .. Power[u] - 1
      BY <2>3 DEF P
    <3> QED
      BY <3>1, <3>2, <3>3 DEF Same
  <2> QED
    BY <2>3, <2>5, <2>6
<1>3. b \in Good
  <2> HIDE DEF Good
  <2> QED
    BY <1>1, <1>2, NatInductionOnSets
<1> QED
  BY <1>3

\* The number with the bits f.
Weights(f, b) == [j \in 0 .. b - 1 |-> f[j] * Power[j]]
Number(f, b) == SumOf(Weights(f, b), 0 .. b - 1)

LEMMA NumberOfBits ==
  ASSUME NEW b \in Nat, NEW f \in [0 .. b - 1 -> {0, 1}]
  PROVE  /\ Number(f, b) \in 0 .. Power[b] - 1
         /\ \A j \in 0 .. b - 1 : Bit(Number(f, b), j) = f[j]
<1> DEFINE places == 0 .. b - 1
           w == Weights(f, b)
           Low(u) == SumOf(w, 0 .. u - 1)
           Fine(u) == /\ Low(u) \in 0 .. Power[u] - 1
                      /\ \A j \in 0 .. u - 1 : Bit(Low(u), j) = f[j]
           Good == {u \in Nat : u <= b => Fine(u)}
<1>1. IsFiniteSet(places)
  BY FS_Interval
<1>2. ASSUME NEW j \in places PROVE w[j] = f[j] * Power[j] /\ w[j] \in Int
  <2>1. w[j] = f[j] * Power[j]
    BY DEF Weights
  <2>4. j \in Nat /\ j \in 0 .. b - 1
    OBVIOUS
  <2>5. f[j] \in {0, 1}
    BY <2>4
  <2>2. f[j] \in {0, 1} /\ Power[j] \in Nat
    BY ONLY <2>4, <2>5, PowerFacts
  <2> HIDE DEF w
  <2>3. f[j] * Power[j] \in Int
    BY ONLY <2>2
  <2> QED
    BY <2>1, <2>3
<1> HIDE DEF w, places
<1>3. /\ SumOf(w, {}) = 0
      /\ \A s \in SUBSET places : \A y \in s : SumOf(w, s) = w[y] + SumOf(w, s \ {y})
  <2>1. \A x \in places : w[x] \in Int
    BY ONLY <1>2, Zenon
  <2> QED
    BY ONLY <1>1, <2>1, SumFacts
<1>4. 0 \in Good
  <2>1. 0 .. 0 - 1 = {}
    OBVIOUS
  <2>2. Low(0) = 0
    BY <1>3, <2>1
  <2>3. Fine(0)
    BY <2>1, <2>2, PowerFacts
  <2> QED
    BY <2>3
<1>5. ASSUME NEW u \in Nat, u \in Good PROVE u + 1 \in Good
  <2> SUFFICES ASSUME u + 1 <= b PROVE Fine(u + 1)
    OBVIOUS
  <2>1. Fine(u)
    BY <1>5
  <2> DEFINE low == Low(u)
             P == Power[u]
  <2>2. low \in 0 .. P - 1 /\ \A j \in 0 .. u - 1 : Bit(low, j) = f[j]
    BY <2>1
  <2>3. P \in Nat \ {0} /\ Power[u + 1] = 2 * P
    BY PowerFacts
  <2>0. f[u] \in {0, 1}
    OBVIOUS
  <2>4. Low(u + 1) = f[u] * P + low
    <3>1. 0 .. (u + 1) - 1 \in SUBSET places /\ u \in 0 .. (u + 1) - 1 /\ u \in places
      BY DEF places
    <3>2. (0 .. (u + 1) - 1) \ {u} = 0 .. u - 1
      OBVIOUS
    <3> DEFINE upto == 0 .. (u + 1) - 1
               below == 0 .. u - 1
    <3>3. upto \in SUBSET places /\ u \in upto /\ upto \ {u} = below
      BY <3>1, <3>2
    <3> HIDE DEF upto, below
    <3>5. SumOf(w, upto) = w[u] + SumOf(w, below)
      BY <1>3, <3>3, Zenon
    <3>4. w[u] = f[u] * P
      BY <1>2, <3>1
    <3> QED
      BY <3>4, <3>5 DEF upto, below
  <2> DEFINE d == f[u]
  <2>5. low \in Nat /\ d \in Nat /\ d <= 1 /\ d % 2 = d
    BY <2>0, <2>2, <2>3
  <2> HIDE DEF low, d, P, Low
  <2>6. d * P + low \in 0 .. 2 * P - 1
    BY <2>0, <2>2, <2>3 DEF d
  <2>7. (d * P + low) \div P = d
    BY <2>2, <2>3, <2>5, PlaceOfMember
  <2>8. Bit(d * P + low, u) = d
    BY <2>5, <2>7 DEF Bit, P
  <2>9. ASSUME NEW j \in 0 .. u - 1 PROVE Bit(d * P + low, j) = f[j]
    <3>1. Bit(d * P + low, j) = Bit(low, j)
      BY <2>5, HighBitIgnored DEF P
    <3> QED
      BY <2>2, <3>1
  <2>10. Low(u + 1) = d * P + low
    BY <2>4 DEF d
  <2>11. \A j \in 0 .. (u + 1) - 1 : j = u \/ j \in 0 .. u - 1
    OBVIOUS
  <2>12. Low(u + 1) \in 0 .. Power[u + 1] - 1
    BY <2>3, <2>6, <2>10
  <2>13. \A j \in 0 .. (u + 1) - 1 : Bit(Low(u + 1), j) = f[j]
    BY <2>8, <2>9, <2>10, <2>11 DEF d
  <2> QED
    BY <2>12, <2>13
<1>6. b \in Good
  <2> HIDE DEF Good
  <2> QED
    BY <1>4, <1>5, NatInductionOnSets
<1> QED
  BY <1>6 DEF Number, w

-----------------------------------------------------------------------------
(* The patterns on the bits of the source.                                 *)

\* Where a bit of the source goes.
Goes(pattern, bits, k) ==
  CASE pattern = "bitcomplement" -> k
    [] pattern = "bitreverse" -> bits - 1 - k
    [] pattern = "bitshuffle" -> IF k = bits - 1 THEN 0 ELSE k + 1
    [] pattern = "bittranspose" -> IF k < bits \div 2 THEN k + (bits - bits \div 2)
                                   ELSE k - bits \div 2

LEMMA HalfOfBits ==
  ASSUME NEW bits \in Nat \ {0}
  PROVE  LET h == bits \div 2 IN h \in Nat /\ h < bits /\ (bits >= 2 => h # 0)
OBVIOUS

LEMMA Turned ==
  ASSUME NEW bits \in Nat \ {0}, NEW j \in 0 .. bits - 1, NEW h \in 0 .. bits - 1
  PROVE  (j + h) % bits = IF j + h < bits THEN j + h ELSE (j + h) - bits
<1>1. CASE j + h < bits
  <2>1. (0 * bits + (j + h)) % bits = j + h
    BY <1>1, PlaceOfMember
  <2> QED
    BY <1>1, <2>1
<1>2. CASE ~(j + h < bits)
  <2>1. (j + h) - bits \in 0 .. bits - 1
    BY <1>2
  <2> DEFINE r == (j + h) - bits
  <2>2. (1 * bits + r) % bits = r
    <3> HIDE DEF r
    <3> QED
      BY <2>1, PlaceOfMember DEF r
  <2> QED
    BY <1>2, <2>2
<1> QED
  BY <1>1, <1>2

\* The bits of the source go to different places, and every place gets one.
LEMMA SourceBitInverse ==
  ASSUME NEW pattern \in BitPatterns, NEW bits \in Nat \ {0}
  PROVE  /\ \A j \in 0 .. bits - 1 :
              /\ SourceBit(pattern, bits, j) \in 0 .. bits - 1
              /\ Goes(pattern, bits, SourceBit(pattern, bits, j)) = j
         /\ \A k \in 0 .. bits - 1 : Goes(pattern, bits, k) \in 0 .. bits - 1
         /\ pattern # "bitcomplement" /\ bits >= 2 => SourceBit(pattern, bits, 0) # 0
<1>1. CASE pattern = "bitcomplement"
  BY <1>1 DEF SourceBit, Goes
<1>2. CASE pattern = "bitreverse"
  BY <1>2 DEF SourceBit, Goes
<1>3. CASE pattern = "bitshuffle"
  BY <1>3 DEF SourceBit, Goes
<1>4. CASE pattern = "bittranspose"
  <2> DEFINE h == bits \div 2
  <2>1. h \in 0 .. bits - 1 /\ (bits >= 2 => h # 0)
    BY HalfOfBits
  <2>2. /\ \A j : SourceBit(pattern, bits, j) = (j + h) % bits
        /\ \A k : Goes(pattern, bits, k) = IF k < h THEN k + (bits - h) ELSE k - h
    BY <1>4 DEF SourceBit, Goes
  <2> HIDE DEF h
  <2>3. \A j \in 0 .. bits - 1 : (j + h) % bits = IF j + h < bits THEN j + h ELSE (j + h) - bits
    BY <2>1, Turned
  <2>4. \A j \in 0 .. bits - 1 :
          SourceBit(pattern, bits, j) = IF j + h < bits THEN j + h ELSE (j + h) - bits
    BY <2>2, <2>3
  <2>5. ASSUME NEW j \in 0 .. bits - 1
        PROVE  /\ SourceBit(pattern, bits, j) \in 0 .. bits - 1
               /\ Goes(pattern, bits, SourceBit(pattern, bits, j)) = j
    <3> DEFINE s == SourceBit(pattern, bits, j)
    <3>1. s = IF j + h < bits THEN j + h ELSE (j + h) - bits
      BY <2>4
    <3>2. Goes(pattern, bits, s) = IF s < h THEN s + (bits - h) ELSE s - h
      BY <2>2
    <3> HIDE DEF s
    <3> QED
      BY <2>1, <3>1, <3>2 DEF s
  <2>6. ASSUME NEW k \in 0 .. bits - 1 PROVE Goes(pattern, bits, k) \in 0 .. bits - 1
    <3>1. Goes(pattern, bits, k) = IF k < h THEN k + (bits - h) ELSE k - h
      BY <2>2
    <3> QED
      BY <2>1, <3>1
  <2>7. bits >= 2 => SourceBit(pattern, bits, 0) # 0
    <3>1. SourceBit(pattern, bits, 0) = IF 0 + h < bits THEN 0 + h ELSE (0 + h) - bits
      BY <2>4
    <3> QED
      BY <2>1, <3>1
  <2> QED
    BY <2>5, <2>6, <2>7
<1> QED
  BY <1>1, <1>2, <1>3, <1>4 DEF BitPatterns

\* The bit that a pattern makes of a bit of the source.
Made(pattern, bit) == IF pattern = "bitcomplement" THEN 1 - bit ELSE bit

LEMMA BitsOfDest ==
  ASSUME NEW pattern \in BitPatterns, NEW scale \in Nat \ {0}, scale >= 2, NEW src \in Nat
  PROVE  /\ Bits(scale) \in Nat \ {0} /\ Power[Bits(scale)] <= scale
         /\ BitDest(pattern, scale, src) \in 0 .. Power[Bits(scale)] - 1
         /\ \A j \in 0 .. Bits(scale) - 1 :
              Bit(BitDest(pattern, scale, src), j)
                = Made(pattern, Bit(src, SourceBit(pattern, Bits(scale), j)))
<1> DEFINE bits == Bits(scale)
           f == [j \in 0 .. bits - 1 |-> Made(pattern, Bit(src, SourceBit(pattern, bits, j)))]
<1>1. bits \in Nat \ {0} /\ Power[bits] <= scale /\ Power[bits] \in Nat
  <2>1. bits \in Nat /\ Power[bits] <= scale /\ scale < Power[bits + 1] /\ Power[bits] \in Nat
    BY BitsFit, PowerFacts
  <2>2. bits # 0
    <3>1. Power[0 + 1] = 2
      BY PowerFacts
    <3> HIDE DEF bits
    <3> QED
      BY <2>1, <3>1
  <2> QED
    BY <2>1, <2>2
<1>2. BitDest(pattern, scale, src) = Number(f, bits) % scale
  <2>1. [j \in 0 .. bits - 1 |-> Made(pattern, Bit(src, SourceBit(pattern, bits, j))) * Power[j]]
          = Weights(f, bits)
    BY DEF Weights
  <2>2. BitDest(pattern, scale, src)
          = SumOf([j \in 0 .. bits - 1 |->
                     Made(pattern, Bit(src, SourceBit(pattern, bits, j))) * Power[j]],
                  0 .. bits - 1) % scale
    BY DEF BitDest, SumOf, Made
  <2> QED
    BY <2>1, <2>2 DEF Number
<1> HIDE DEF bits
<1>3. f \in [0 .. bits - 1 -> {0, 1}]
  <2> SUFFICES ASSUME NEW j \in 0 .. bits - 1
               PROVE  Made(pattern, Bit(src, SourceBit(pattern, bits, j))) \in {0, 1}
    OBVIOUS
  <2>1. SourceBit(pattern, bits, j) \in Nat
    BY <1>1, SourceBitInverse
  <2>2. Bit(src, SourceBit(pattern, bits, j)) \in {0, 1}
    BY <2>1, BitType
  <2> QED
    BY <2>2 DEF Made
<1>4. \A j \in 0 .. bits - 1 : f[j] = Made(pattern, Bit(src, SourceBit(pattern, bits, j)))
  OBVIOUS
<1> HIDE DEF f
<1>5. /\ Number(f, bits) \in 0 .. Power[bits] - 1
      /\ \A j \in 0 .. bits - 1 : Bit(Number(f, bits), j) = f[j]
  BY <1>1, <1>3, NumberOfBits
<1>6. BitDest(pattern, scale, src) = Number(f, bits)
  <2> DEFINE n == Number(f, bits)
  <2>1. n \in 0 .. scale - 1
    BY <1>1, <1>5
  <2> HIDE DEF n
  <2>2. n % scale = n
    BY <2>1
  <2> QED
    BY <1>2, <2>2 DEF n
<1> QED
  BY <1>1, <1>4, <1>5, <1>6 DEF bits

LEMMA FirstBits ==
  /\ Bit(0, 0) = 0 /\ Bit(1, 0) = 1
  /\ \A k \in Nat \ {0} : Bit(1, k) = 0
<1>1. Power[0] = 1
  BY PowerFacts
<1>2. Bit(0, 0) = 0 /\ Bit(1, 0) = 1
  BY <1>1 DEF Bit
<1>3. ASSUME NEW k \in Nat \ {0} PROVE Bit(1, k) = 0
  <2> DEFINE P == Power[k]
  <2>1. P \in Nat \ {0} /\ 1 < P
    <3>1. k < P
      BY ONLY k \in Nat, PowerGrows
    <3>2. P \in Nat \ {0}
      BY ONLY k \in Nat, PowerFacts
    <3> QED
      BY ONLY <3>1, <3>2, k \in Nat \ {0}
  <2> HIDE DEF P
  <2>2. 1 \div P = 0
    <3>1. (0 * P + 1) \div P = 0
      BY <2>1, PlaceOfMember
    <3>2. 0 * P + 1 = 1
      BY <2>1
    <3> QED
      BY ONLY <3>1, <3>2
  <2> QED
    BY <2>2 DEF Bit, P
<1> QED
  BY <1>2, <1>3

\* There is a core from which the pattern leads to another one, so that the loop
\* of the generator ends.
LEMMA BitsAddressed ==
  ASSUME NEW traffic \in BitPatterns, NEW topology, NEW scale \in Nat,
         scale >= 2, traffic # "bitcomplement" => scale >= 3
  PROVE  Addressed(Packets(traffic, topology, scale), scale)
<1> DEFINE bits == Bits(scale)
           dest(src) == BitDest(traffic, scale, src)
<1>1. ASSUME NEW src \in Nat
      PROVE  /\ bits \in Nat \ {0} /\ Power[bits] <= scale /\ dest(src) \in 0 .. Power[bits] - 1
             /\ \A j \in 0 .. bits - 1 :
                  Bit(dest(src), j) = Made(traffic, Bit(src, SourceBit(traffic, bits, j)))
  BY BitsOfDest
<1>2. bits \in Nat \ {0} /\ Power[bits] \in Nat \ {0} /\ 0 \in 0 .. bits - 1
  <2>1. bits \in Nat \ {0}
    <3>1. 0 \in Nat
      OBVIOUS
    <3> QED
      BY <1>1, <3>1, Zenon
  <2> HIDE DEF bits
  <2> QED
    BY <2>1, PowerFacts
<1>3. Packets(traffic, topology, scale)
        = {d \in {<<src, dest(src)>> : src \in Cores(scale)} : d[1] # d[2]}
  BY DEF Packets, Draws, Rings, BitPatterns
<1> HIDE DEF bits, dest
<1>4. ASSUME NEW src \in Cores(scale) PROVE src \in Nat /\ dest(src) \in Cores(scale)
  <2>1. src \in Nat
    BY DEF Cores
  <2>2. dest(src) \in 0 .. Power[bits] - 1 /\ Power[bits] <= scale
    BY <1>1, <2>1
  <2> QED
    BY <1>2, <2>1, <2>2 DEF Cores
<1>5. \E src \in Cores(scale) : dest(src) # src
  <2>1. CASE traffic = "bitcomplement"
    <3>1. Bit(dest(0), 0) = Made(traffic, Bit(0, SourceBit(traffic, bits, 0)))
      BY <1>1, <1>2
    <3>2. Bit(dest(0), 0) = 1
      BY <2>1, <3>1, FirstBits DEF Made, SourceBit
    <3>3. 0 \in Cores(scale) /\ dest(0) # 0
      BY <3>2, FirstBits DEF Cores
    <3> QED
      BY <3>3
  <2>2. CASE traffic # "bitcomplement" /\ bits >= 2
    <3>1. SourceBit(traffic, bits, 0) \in Nat \ {0}
      BY <1>2, <2>2, SourceBitInverse
    <3>2. Bit(dest(1), 0) = 0
      BY <1>1, <1>2, <2>2, <3>1, FirstBits DEF Made
    <3>3. 1 \in Cores(scale) /\ dest(1) # 1
      BY <3>2, FirstBits DEF Cores
    <3> QED
      BY <3>3
  <2>3. CASE traffic # "bitcomplement" /\ bits = 1
    <3>1. Power[1] = 2
      <4>1. Power[0 + 1] = 2 /\ 0 + 1 = 1
        BY PowerFacts
      <4> QED
        BY <4>1
    <3>2. dest(2) \in 0 .. 2 - 1
      BY <1>1, <2>3, <3>1
    <3>3. 2 \in Cores(scale) /\ dest(2) # 2
      BY <2>3, <3>2 DEF Cores
    <3> QED
      BY <3>3
  <2> QED
    BY <1>2, <2>1, <2>2, <2>3
<1> DEFINE packets == Packets(traffic, topology, scale)
<1>6. packets # {}
  <2>1. PICK src \in Cores(scale) : dest(src) # src
    BY <1>5
  <2>2. <<src, dest(src)>> \in packets
    BY <1>3, <2>1
  <2> QED
    BY <2>2
<1>7. ASSUME NEW d \in packets
      PROVE  d[1] \in Cores(scale) /\ d[2] \in Cores(scale) /\ d[1] # d[2]
  <2>1. PICK src \in Cores(scale) : d = <<src, dest(src)>> /\ d[1] # d[2]
    BY <1>3
  <2>2. d[1] = src /\ d[2] = dest(src)
    BY <2>1
  <2> QED
    BY <1>4, <2>1, <2>2
<1> QED
  BY <1>6, <1>7 DEF Addressed, Between

\* On a power of two of cores every core is the destination of one.
LEMMA BitsPermute ==
  ASSUME NEW pattern \in BitPatterns, NEW scale \in Nat, scale >= 2, scale = Power[Bits(scale)]
  PROVE  {BitDest(pattern, scale, src) : src \in Cores(scale)} = Cores(scale)
<1> DEFINE bits == Bits(scale)
           dest(src) == BitDest(pattern, scale, src)
<1>1. ASSUME NEW src \in Nat
      PROVE  /\ bits \in Nat \ {0} /\ dest(src) \in 0 .. Power[bits] - 1
             /\ \A j \in 0 .. bits - 1 :
                  Bit(dest(src), j) = Made(pattern, Bit(src, SourceBit(pattern, bits, j)))
  BY BitsOfDest
<1>2. bits \in Nat \ {0} /\ Cores(scale) = 0 .. Power[bits] - 1 /\ Power[bits] \in Nat
  BY <1>1, PowerFacts DEF Cores
<1> HIDE DEF bits, dest
<1>3. ASSUME NEW src \in Cores(scale) PROVE dest(src) \in Cores(scale)
  <2>1. src \in Nat
    BY ONLY <1>2, src \in Cores(scale)
  <2>2. dest(src) \in 0 .. Power[bits] - 1
    BY <1>1, <2>1, Zenon
  <2> QED
    BY ONLY <1>2, <2>2, Zenon
<1>4. ASSUME NEW t \in Cores(scale) PROVE \E src \in Cores(scale) : dest(src) = t
  <2> DEFINE g == [k \in 0 .. bits - 1 |-> Made(pattern, Bit(t, Goes(pattern, bits, k)))]
             src == Number(g, bits)
  <2>1. t \in Nat /\ t \in 0 .. Power[bits] - 1
    BY <1>2
  <2>2. g \in [0 .. bits - 1 -> {0, 1}]
    <3> SUFFICES ASSUME NEW k \in 0 .. bits - 1
                 PROVE  Made(pattern, Bit(t, Goes(pattern, bits, k))) \in {0, 1}
      OBVIOUS
    <3>1. Goes(pattern, bits, k) \in Nat
      <4>1. Goes(pattern, bits, k) \in 0 .. bits - 1
        BY <1>2, SourceBitInverse
      <4> QED
        BY <1>2, <4>1
    <3>2. Bit(t, Goes(pattern, bits, k)) \in {0, 1}
      BY <2>1, <3>1, BitType
    <3> QED
      BY <3>2 DEF Made
  <2>3. \A k \in 0 .. bits - 1 : g[k] = Made(pattern, Bit(t, Goes(pattern, bits, k)))
    OBVIOUS
  <2> HIDE DEF g
  <2>4. /\ src \in 0 .. Power[bits] - 1
        /\ \A k \in 0 .. bits - 1 : Bit(src, k) = g[k]
    BY <1>2, <2>2, NumberOfBits
  <2> HIDE DEF src
  <2>5. src \in Nat /\ src \in Cores(scale)
    BY <1>2, <2>4
  <2>6. ASSUME NEW j \in 0 .. bits - 1 PROVE Bit(dest(src), j) = Bit(t, j)
    <3> DEFINE k == SourceBit(pattern, bits, j)
    <3>1. k \in 0 .. bits - 1 /\ Goes(pattern, bits, k) = j
      BY <1>2, SourceBitInverse
    <3>2. Bit(dest(src), j) = Made(pattern, Bit(src, k))
      BY <1>1, <2>5
    <3> HIDE DEF k
    <3>3. Bit(src, k) = Made(pattern, Bit(t, j))
      BY <2>3, <2>4, <3>1
    <3>4. Bit(t, j) \in {0, 1}
      BY <2>1, BitType
    <3> QED
      BY <3>2, <3>3, <3>4 DEF Made
  <2>7. dest(src) \in 0 .. Power[bits] - 1
    BY <1>1, <2>5
  <2>8. dest(src) = t
    BY <1>2, <2>1, <2>6, <2>7, SameBits
  <2> QED
    BY <2>5, <2>8
<1> QED
  BY <1>3, <1>4 DEF dest

-----------------------------------------------------------------------------
(* The workloads of the parameters.                                        *)

\* The hypothesis of two theorems: the bidirectional ring, if there is one, is that
\* of DragonflyChiplet.  The way back on DragonflySW leads from core 0 to core -1
\* (traffic_manager.cpp:331, run ring_back).
NoWayBackOnSwitches ==
  \A p \in Params : ~(p.traffic = "ring_all_reduce_bi" /\ p.topology = "DragonflySW")

LEMMA OneRing ==
  ASSUME NoWayBackOnSwitches,
         NEW p \in Params, NEW w, HasRing(w),
         w.traffic = p.traffic, w.topology = p.topology, w.scale = p.traffic_scale,
         NEW src \in Cores(w.scale)
  PROVE  LET length == IF w.topology = "DragonflySW" THEN w.scale ELSE w.scale \div 4
             round == Round(w, src, length)
         IN /\ round[length] = src
            /\ \A m, n \in 0 .. length - 1 : round[m] = round[n] => m = n
            /\ w.traffic = "ring_all_reduce_bi" =>
                 RingBackDest(w.topology, w.scale, RingDest(w.topology, w.scale, src)) = src
<1>0. ParamType(p) /\ PatternFits(p) /\ w.traffic \in Rings
  BY PatternAssumption DEF HasRing
<1>1. /\ w.scale \in Nat \ {0}
      /\ \/ w.topology = "DragonflyChiplet" /\ w.scale % 16 = 0
         \/ w.topology = "DragonflySW" /\ w.traffic # "ring_all_reduce_bi"
  <2>1. w.scale \in Nat \ {0}
    BY <1>0 DEF ParamType
  <2>2. w.topology = "DragonflyChiplet" \/ w.topology = "DragonflySW"
    BY <1>0 DEF PatternFits, Rings, BitPatterns
  <2> QED
    BY <2>1, <2>2 DEF HasRing, NoWayBackOnSwitches
<1>2. CASE w.topology = "DragonflyChiplet" /\ w.scale % 16 = 0
  <2>1. PICK b \in Nat \ {0} : w.scale = 16 * b /\ w.scale \div 4 = 4 * b
    <3> DEFINE n == w.scale
    <3>1. n \in Nat \ {0} /\ n % 16 = 0
      BY <1>1, <1>2
    <3> HIDE DEF n
    <3>2. n \div 16 \in Nat \ {0} /\ n = 16 * (n \div 16) /\ n \div 4 = 4 * (n \div 16)
      BY <3>1
    <3> QED
      BY <3>2 DEF n
  <2>2. w.topology # "DragonflySW" /\ src \in Cores(16 * b)
    BY <1>2, <2>1
  <2>3. /\ Round(w, src, 4 * b)[4 * b] = src
        /\ \A m, k \in 0 .. 4 * b - 1 :
             Round(w, src, 4 * b)[m] = Round(w, src, 4 * b)[k] => m = k
    BY <2>1, <2>2, RingOfChiplets
  <2>4. RingBackDest(w.topology, w.scale, RingDest(w.topology, w.scale, src)) = src
    BY <2>1, <2>2, WayBackUndoes
  <2> QED
    BY <2>1, <2>2, <2>3, <2>4, Zenon
<1>3. CASE w.topology = "DragonflySW" /\ w.traffic # "ring_all_reduce_bi"
  <2> DEFINE n == w.scale
  <2>1. n \in Nat \ {0} /\ src \in Cores(n) /\ w.scale = n
    BY <1>1
  <2> HIDE DEF n
  <2>2. /\ Round(w, src, n)[n] = src
        /\ \A m, k \in 0 .. n - 1 : Round(w, src, n)[m] = Round(w, src, n)[k] => m = k
    BY <1>3, <2>1, RingOfSwitches
  <2> QED
    BY <1>3, <2>2, Zenon DEF n
<1> QED
  BY <1>1, <1>2, <1>3

LEMMA PatternScale ==
  ASSUME NEW p \in Params, p.traffic \in BitPatterns
  PROVE  /\ p.traffic_scale \in Nat /\ p.traffic_scale >= 2
         /\ p.traffic # "bitcomplement" => p.traffic_scale >= 3
<1>1. ParamType(p) /\ PatternFits(p)
  BY PatternAssumption
<1>2. p.traffic_scale \in Nat
  BY <1>1 DEF ParamType
<1>3. CASE p.traffic = "bitcomplement"
  BY <1>1, <1>2, <1>3 DEF PatternFits, Rings, BitPatterns
<1>4. CASE p.traffic # "bitcomplement"
  BY <1>1, <1>2, <1>4 DEF PatternFits, Rings, BitPatterns
<1> QED
  BY <1>3, <1>4

LEMMA PatternAddressed ==
  ASSUME NEW p \in Params, p.traffic # "netrace"
  PROVE  LET packets == Packets(p.traffic, p.topology, p.traffic_scale) IN
         /\ packets # {}
         /\ \A d \in packets : Between(d, p.traffic_scale) \/ Missing(p.traffic, p.topology, d)
<1>1. ParamType(p) /\ PatternFits(p)
  BY PatternAssumption
<1>2. p.traffic_scale \in Nat \ {0} /\ p.traffic_scale \in Nat
  BY <1>1 DEF ParamType
<1>3. CASE p.traffic \in {"uniform", "intra_group_uniform"}
  <2>1. p.traffic_scale >= 2
    BY <1>1, <1>3 DEF PatternFits, Rings, BitPatterns
  <2> QED
    BY <1>2, <1>3, <2>1, UniformAddressed DEF Addressed
<1>4. CASE p.traffic = "hotspot"
  <2>1. p.traffic_scale >= 4 /\ p.traffic_scale # 5
    BY <1>1, <1>4 DEF PatternFits, Rings, BitPatterns
  <2> QED
    BY <1>2, <1>4, <2>1, HotspotAddressed DEF Addressed
<1>5. CASE p.traffic = "adversarial"
  <2>1. p.traffic_scale >= 41
    BY <1>1, <1>5 DEF PatternFits, Rings, BitPatterns
  <2> QED
    BY <1>2, <1>5, <2>1, AdversarialAddressed DEF Addressed
<1>6. CASE p.traffic \in Rings
  <2>1. \/ p.topology = "DragonflyChiplet" /\ p.traffic_scale > 8
        \/ p.topology = "DragonflySW" /\ p.traffic_scale >= 2
    BY <1>1, <1>6 DEF PatternFits, Rings, BitPatterns
  <2> QED
    BY <1>2, <1>6, <2>1, RingsAddressed
<1>7. CASE p.traffic \in BitPatterns
  <2>1. p.traffic_scale >= 2 /\ (p.traffic # "bitcomplement" => p.traffic_scale >= 3)
    BY <1>1, <1>7, PatternScale
  <2> QED
    BY <1>2, <1>7, <2>1, BitsAddressed DEF Addressed
<1>8. p.traffic \in {"uniform", "intra_group_uniform", "hotspot", "adversarial"}
                       \cup Rings \cup BitPatterns
  BY <1>1 DEF ParamType
<1> QED
  BY <1>3, <1>4, <1>5, <1>6, <1>7, <1>8

LEMMA WorkloadFacts ==
  ASSUME param \in Params, param.traffic # "netrace"
  PROVE  /\ Workload \in Workloads
         /\ Workload.traffic = param.traffic
         /\ Workload.topology = param.topology
         /\ Workload.scale = param.traffic_scale
BY DEF Workload, Workloads

\* The parameters never change.
THEOREM ParamKept == Spec => [](param \in Params)
<1>1. Init => param \in Params
  BY DEF Init
<1>2. param \in Params /\ [Next]_vars => (param \in Params)'
  BY DEF Next, MainStep, GenMes, StartCycle, FinishCycle, WarmedUp, Judge, Drained, NextRate,
         TraceEnds, Receive, Timeout, Returned, main, vars
<1> QED
  BY <1>1, <1>2, PTL DEF Spec

\* The rings close: one ring through all cores of DragonflySW, whatever their number,
\* and on any number of C-groups of 16 cores four rings through a quarter of the
\* cores each, with a way back that undoes the way forth.
THEOREM EveryRingCloses ==
  ASSUME NoWayBackOnSwitches
  PROVE  Spec => []RingsClose
<1>1. param \in Params => RingsClose
  <2> SUFFICES ASSUME param \in Params, HasRing(Workload) PROVE Closes[Workload]
    BY DEF RingsClose
  <2>1. param.traffic # "netrace"
    BY DEF HasRing, Rings, Workload
  <2>2. /\ Workload \in Workloads /\ Workload.traffic = param.traffic
        /\ Workload.topology = param.topology /\ Workload.scale = param.traffic_scale
    BY <2>1, WorkloadFacts
  <2> DEFINE w == Workload
  <2>3. w \in {v \in Workloads : HasRing(v)} /\ HasRing(w)
    BY <2>2
  <2> HIDE DEF w
  <2>4. \A src \in Cores(w.scale) :
          LET length == IF w.topology = "DragonflySW" THEN w.scale ELSE w.scale \div 4
              round == Round(w, src, length)
          IN /\ round[length] = src
             /\ \A m, n \in 0 .. length - 1 : round[m] = round[n] => m = n
             /\ w.traffic = "ring_all_reduce_bi" =>
                  RingBackDest(w.topology, w.scale, RingDest(w.topology, w.scale, src)) = src
    BY <2>2, <2>3, OneRing DEF w
  <2>5. Closes[w]
    BY <2>3, <2>4 DEF Closes
  <2> QED
    BY <2>5 DEF w
<1> QED
  BY <1>1, ParamKept, PTL

\* Apart from the bidirectional ring on DragonflySW, every traffic sends from one
\* existing core to another, on every scale on which its generator finds packets.
THEOREM AllWellAddressed ==
  ASSUME NoWayBackOnSwitches
  PROVE  Spec => []PacketsWellAddressed
<1>1. param \in Params => PacketsWellAddressed
  <2> SUFFICES ASSUME param \in Params, param.traffic # "netrace"
               PROVE  WellAddressed[Workload]
    BY DEF PacketsWellAddressed
  <2>2. /\ Workload \in Workloads /\ Workload.traffic = param.traffic
        /\ Workload.topology = param.topology /\ Workload.scale = param.traffic_scale
    BY WorkloadFacts
  <2> DEFINE w == Workload
             packets == Packets(w.traffic, w.topology, w.scale)
  <2>3. packets # {} /\ w.scale \in Nat \ {0} /\ \A d \in packets : Between(d, w.scale)
    <3>1. param.traffic_scale \in Nat \ {0}
      BY PatternAssumption, SimulationAssumption DEF ParamType
    <3>2. \A d \in packets : ~Missing(param.traffic, param.topology, d)
      BY DEF NoWayBackOnSwitches, Missing
    <3> QED
      BY <2>2, <3>1, <3>2, PatternAddressed
  <2>4. w \in Workloads
    BY <2>2
  <2> HIDE DEF w
  <2>5. ASSUME NEW d \in packets, NEW c \in CoresPerChip, NEW n \in {d[1], d[2]}
        PROVE  /\ NodeOfCore(n, c).node_id \in 0 .. c - 1
               /\ NodeOfCore(n, c).chip_id \in 0 .. (w.scale + c - 1) \div c - 1
    <3>1. n \in Cores(w.scale)
      BY <2>3 DEF Between
    <3>2. c \in Nat \ {0}
      BY PatternAssumption
    <3> QED
      BY <2>3, <3>1, <3>2, CoreExists
  <2>6. WellAddressed[w]
    BY <2>3, <2>4, <2>5 DEF WellAddressed, Between
  <2> QED
    BY <2>6 DEF w
<1> QED
  BY <1>1, ParamKept, PTL

\* Without that hypothesis: of all packets of all traffics the one from core 0
\* back around the ring of DragonflySW is the only one that goes nowhere.
OneMisses ==
  param.traffic # "netrace" =>
    LET packets == Packets(param.traffic, param.topology, param.traffic_scale) IN
    /\ packets # {}
    /\ \A d \in packets :
         \/ Between(d, param.traffic_scale)
         \/ Missing(param.traffic, param.topology, d)

THEOREM OnlyOneMisses == Spec => []OneMisses
<1>1. param \in Params => OneMisses
  BY PatternAddressed DEF OneMisses
<1> QED
  BY <1>1, ParamKept, PTL

\* On every power of two of cores each core is the destination of exactly one:
\* the bit patterns spread the load evenly.
THEOREM BitPatternsSpread == Spec => []BitPatternsPermute
<1>1. param \in Params => BitPatternsPermute
  <2> SUFFICES ASSUME param \in Params, Workload \in DOMAIN Permutes PROVE Permutes[Workload]
    BY DEF BitPatternsPermute
  <2> DEFINE w == Workload
             domain == {v \in Workloads : v.traffic \in BitPatterns /\ v.scale = Power[Bits(v.scale)]}
  <2>1. w \in domain
    BY DEF Permutes
  <2>2. PICK p \in Params : w.traffic = p.traffic /\ w.scale = p.traffic_scale
    BY <2>1 DEF Workloads
  <2> HIDE DEF w
  <2>3. w.traffic \in BitPatterns /\ w.scale = Power[Bits(w.scale)]
    BY <2>1
  <2>4. w.scale \in Nat /\ w.scale >= 2
    BY <2>2, <2>3, PatternScale
  <2>5. {BitDest(w.traffic, w.scale, src) : src \in Cores(w.scale)} = Cores(w.scale)
    BY <2>3, <2>4, BitsPermute
  <2>6. Permutes[w]
    BY <2>1, <2>5 DEF Permutes
  <2> QED
    BY <2>6 DEF w
<1> QED
  BY <1>1, ParamKept, PTL

=============================================================================
