------------------------- MODULE WorkerPool_proofs -------------------------
(***************************************************************************)
(* The safety properties of the worker pool hold for every number of       *)
(* threads, issue width, length of the packet vector and number of         *)
(* spurious wake-ups.  The inductive invariant has four parts: who holds   *)
(* which mutex (Locking), what a flag tells about its worker (Flags), what *)
(* a claimed batch is (Batches), and which packets have been updated       *)
(* (Progress).                                                             *)
(***************************************************************************)
EXTENDS WorkerPoolProps, TLAPS

-----------------------------------------------------------------------------
(* The inductive invariant.                                                *)

\* A worker owns its mutex exactly at these locations.
Holding ==
  {"setReady", "wait0", "loop", "clear", "check", "wait1"} \cup Updating

\* Main owns the mutex of worker w exactly in these states.
MainHolds(w) ==
  \/ pc[Main] \in {"gen", "release", "reset"} \cup Updating
  \/ pc[Main] \in {"awaitReady", "lock0", "spin", "lock"} /\ w < j
  \/ pc[Main] \in {"launch", "unlock", "unlockEnd"} /\ j <= w

Locking ==
  /\ \A w \in Workers :
       /\ mtx[w] = "worker" <=> pc[w] \in Holding
       /\ mtx[w] = "main" <=> MainHolds(w)
       /\ At(Main, "spawn") /\ j <= w => At(w, "off")
       /\ At(Main, "join") /\ w < j => At(w, "exit")
       /\ At(Main, "done") => At(w, "exit")
  /\ pc[Main] \in {"gen", "release", "reset", "notify", "notifyEnd"} \cup Updating => j = 1

\* Worker w has been sent into the present cycle.
Released(w) ==
  \/ pc[Main] \in {"launch", "unlock"} /\ w < j
  \/ At(Main, "notify")
  \/ pc[Main] \in {"spin", "lock"} /\ j <= w

Flags ==
  /\ finished <=> \/ pc[Main] \in {"unlockEnd", "notifyEnd", "join"}
                  \/ At(Main, "done") /\ NThreads > 1
  /\ pc[Main] \in {"spawn", "awaitReady", "lock0"} => size = 0
  /\ pc[Main] \notin {"gen", "release", "reset", "done"} \cup Updating => NThreads > 1
  /\ \A w \in Workers :
       /\ finished => pc[w] \notin Updating \cup {"clear"}
       /\ At(w, "clear") => size <= pktI
       /\ At(Main, "unlock") /\ w = j => launch[w]
       /\ At(Main, "lock") /\ w = j => ~launch[w]
       /\ Released(w) =>
            /\ pc[w] \notin {"check", "wait1", "parked1", "woken1"} => launch[w]
            /\ ~launch[w] => size <= pktI

\* Packet p is in the batch that thread t is working on.
InBatch(p, t) == At(t, "update") /\ cur[t] <= p /\ p < lim[t]

\* A batch lies between the claim index and the end of the vector, and two
\* batches lie apart.
Batches ==
  /\ \A t \in Threads :
       /\ At(t, "claim") => cur[t] < size
       /\ At(t, "update") => cur[t] < lim[t] /\ lim[t] <= size /\ lim[t] <= pktI
  /\ \A t, u \in Threads :
       t # u /\ At(t, "update") /\ At(u, "update") =>
         lim[t] <= cur[u] \/ lim[u] <= cur[t]

\* Main is between the reset of the index and the end of the cycle.
InUpdate == pc[Main] \in {"launch", "unlock", "notify", "spin", "lock"} \cup Updating

\* The updated packets are those below the claim index that no thread has in
\* its batch.
Progress ==
  /\ At(Main, "reset") => \A p \in Slots : updated[p] = 0
  /\ InUpdate => \A p \in 0 .. size - 1 :
       updated[p] = 1 <=> p < pktI /\ \A t \in Threads : ~InBatch(p, t)
  /\ ExactlyOnce

PoolInv == TypeOK /\ Locking /\ Flags /\ Batches /\ Progress

USE DEF Main, Workers, Threads, Slots, At, Goto, ForEachWorker, sync, work, Updating

\* A jump to a location of the right kind keeps pc well typed.
LEMMA GotoTyped ==
  ASSUME TypeOK, NEW t \in Threads, NEW l, Goto(t, l),
         l \in IF t = Main THEN MainLocations ELSE WorkerLocations
  PROVE  /\ pc' \in [Threads -> MainLocations \cup WorkerLocations]
         /\ pc'[Main] \in MainLocations
         /\ \A w \in Workers : pc'[w] \in WorkerLocations
<1> USE DEF TypeOK
<1> DEFINE all == MainLocations \cup WorkerLocations
<1>1. pc' = [pc EXCEPT ![t] = l] /\ l \in all
  BY DEF Goto
<1>2. pc' \in [Threads -> all]
  BY <1>1
<1> QED
  BY <1>1, <1>2

\* A thread that is updating a packet does so inside a cycle.
LEMMA UpdatingInCycle ==
  ASSUME PoolInv, NEW t \in Threads, At(t, "update")
  PROVE  InUpdate
BY PoolAssumption DEF PoolInv, TypeOK, MainLocations, WorkerLocations, Locking,
   Holding, MainHolds, Flags, Batches, InUpdate

\* While main owns every mutex no worker has a batch.
LEMMA NoBatchWhenHeld ==
  ASSUME PoolInv, pc[Main] \in Updating, NEW w \in Workers
  PROVE  pc[w] \notin Updating
BY DEF PoolInv, Locking, Holding, MainHolds

LEMMA StartStep ==
  ASSUME PoolInv, NEW w \in Workers, Start(w)
  PROVE  PoolInv'
<1> USE PoolAssumption DEF PoolInv
<1>1. TypeOK'
  BY DEF Start, TypeOK, MainLocations, WorkerLocations
<1>2. Locking'
  BY SMTT(30) DEF Start, TypeOK, Locking, Holding, MainHolds
<1>3. Flags'
  BY SMTT(30) DEF Start, TypeOK, Locking, Holding, MainHolds, Flags, Released
<1>4. Batches'
  BY DEF Start, TypeOK, Batches
<1>5. Progress'
  BY DEF Start, TypeOK, Progress, ExactlyOnce, InUpdate, InBatch
<1> QED BY <1>1, <1>2, <1>3, <1>4, <1>5

LEMMA SetReadyStep ==
  ASSUME PoolInv, NEW w \in Workers, SetReady(w)
  PROVE  PoolInv'
<1> USE PoolAssumption DEF PoolInv
<1>1. TypeOK'
  BY DEF SetReady, TypeOK, MainLocations, WorkerLocations
<1>2. Locking'
  BY DEF SetReady, TypeOK, Locking, Holding, MainHolds
<1>3. Flags'
  BY DEF SetReady, TypeOK, Locking, Holding, MainHolds, Flags, Released
<1>4. Batches'
  BY DEF SetReady, TypeOK, Batches
<1>5. Progress'
  BY DEF SetReady, TypeOK, Progress, ExactlyOnce, InUpdate, InBatch
<1> QED BY <1>1, <1>2, <1>3, <1>4, <1>5

LEMMA ParkStep ==
  ASSUME PoolInv, NEW w \in Workers, Park(w)
  PROVE  PoolInv'
<1> USE PoolAssumption DEF PoolInv
<1>1. TypeOK'
  BY DEF Park, TypeOK, MainLocations, WorkerLocations
<1>2. Locking'
  BY SMTT(30) DEF Park, TypeOK, Locking, Holding, MainHolds
<1>3. Flags'
  BY DEF Park, TypeOK, Locking, Holding, MainHolds, Flags, Released
<1>4. Batches'
  BY DEF Park, TypeOK, Batches
<1>5. Progress'
  BY DEF Park, TypeOK, Progress, ExactlyOnce, InUpdate, InBatch
<1> QED BY <1>1, <1>2, <1>3, <1>4, <1>5

LEMMA SpuriousWakeupStep ==
  ASSUME PoolInv, NEW w \in Workers, SpuriousWakeup(w)
  PROVE  PoolInv'
<1> USE PoolAssumption DEF PoolInv
<1>1. TypeOK'
  BY DEF SpuriousWakeup, TypeOK, MainLocations, WorkerLocations
<1>2. Locking'
  BY ZenonT(30) DEF SpuriousWakeup, TypeOK, Locking, Holding, MainHolds
<1>3. Flags'
  BY SMTT(30) DEF SpuriousWakeup, TypeOK, Locking, Holding, MainHolds, Flags, Released
<1>4. Batches'
  BY DEF SpuriousWakeup, TypeOK, Batches
<1>5. Progress'
  BY DEF SpuriousWakeup, TypeOK, Progress, ExactlyOnce, InUpdate, InBatch
<1> QED BY <1>1, <1>2, <1>3, <1>4, <1>5

LEMMA ReacquireStep ==
  ASSUME PoolInv, NEW w \in Workers, Reacquire(w)
  PROVE  PoolInv'
<1> USE PoolAssumption DEF PoolInv
<1>1. TypeOK'
  BY DEF Reacquire, TypeOK, MainLocations, WorkerLocations
<1>2. Locking'
  BY SMTT(30) DEF Reacquire, TypeOK, Locking, Holding, MainHolds
<1>3. Flags'
  BY DEF Reacquire, TypeOK, Locking, Holding, MainHolds, Flags, Released
<1>4. Batches'
  BY DEF Reacquire, TypeOK, Batches
<1>5. Progress'
  BY DEF Reacquire, TypeOK, Progress, ExactlyOnce, InUpdate, InBatch
<1> QED BY <1>1, <1>2, <1>3, <1>4, <1>5

LEMMA LoopStep ==
  ASSUME PoolInv, NEW w \in Workers, Loop(w)
  PROVE  PoolInv'
<1> USE PoolAssumption DEF PoolInv
<1>1. TypeOK'
  BY DEF Loop, TypeOK, MainLocations, WorkerLocations
<1>2. Locking'
  BY SMTT(30) DEF Loop, TypeOK, Locking, Holding, MainHolds
<1>3. Flags'
  BY DEF Loop, TypeOK, Locking, Holding, MainHolds, Flags, Released
<1>4. Batches'
  BY DEF Loop, TypeOK, Batches
<1>5. Progress'
  BY SMTT(30) DEF Loop, TypeOK, Progress, ExactlyOnce, InUpdate, InBatch
<1> QED BY <1>1, <1>2, <1>3, <1>4, <1>5

LEMMA ClearLaunchStep ==
  ASSUME PoolInv, NEW w \in Workers, ClearLaunch(w)
  PROVE  PoolInv'
<1> USE PoolAssumption DEF PoolInv
<1>1. TypeOK'
  BY DEF ClearLaunch, TypeOK, MainLocations, WorkerLocations
<1>2. Locking'
  BY DEF ClearLaunch, TypeOK, Locking, Holding, MainHolds
<1>3. Flags'
  BY SMTT(30) DEF ClearLaunch, TypeOK, Locking, Holding, MainHolds, Flags, Released
<1>4. Batches'
  BY DEF ClearLaunch, TypeOK, Batches
<1>5. Progress'
  BY DEF ClearLaunch, TypeOK, Progress, ExactlyOnce, InUpdate, InBatch
<1> QED BY <1>1, <1>2, <1>3, <1>4, <1>5

LEMMA CheckStep ==
  ASSUME PoolInv, NEW w \in Workers, Check(w)
  PROVE  PoolInv'
<1> USE PoolAssumption DEF PoolInv
<1>1. TypeOK'
  BY DEF Check, TypeOK, MainLocations, WorkerLocations
<1>2. Locking'
  BY DEF Check, TypeOK, Locking, Holding, MainHolds
<1>3. Flags'
  BY DEF Check, TypeOK, Locking, Holding, MainHolds, Flags, Released
<1>4. Batches'
  BY DEF Check, TypeOK, Batches
<1>5. Progress'
  BY DEF Check, TypeOK, Progress, ExactlyOnce, InUpdate, InBatch
<1> QED BY <1>1, <1>2, <1>3, <1>4, <1>5

\* A step of update_packets, or its return at the end of the vector, touches
\* no mutex and no flag.
LEMMA UpdateKeepsSync ==
  ASSUME PoolInv, NEW t \in Threads, pc[t] \in Updating,
         pc'[t] \in Updating \/ (pc'[t] = Return(t) /\ size <= pktI'),
         \A u \in Threads : u # t => pc'[u] = pc[u],
         j' = j, mtx' = mtx, launch' = launch, finished' = finished, size' = size,
         pktI' \in Nat, pktI <= pktI'
  PROVE  Locking' /\ Flags'
<1> USE DEF PoolInv
<1>1. pktI \in Int /\ size \in Int /\ j \in Int /\ Main \in Threads /\ Workers \subseteq Threads
  BY DEF TypeOK
<1>2. \A w \in Workers : w # Main
  OBVIOUS
<1>3. CASE t = Main
  <2>1. pc'[t] \in Updating \cup {"gen"}
    BY <1>3 DEF Return
  <2>2. \A w \in Workers : pc'[w] = pc[w] /\ (MainHolds(w)' <=> MainHolds(w)) /\ ~Released(w)'
    BY <1>1, <1>2, <1>3, <2>1 DEF MainHolds, Released
  <2>3. Locking'
    BY <1>1, <1>3, <2>1, <2>2 DEF Locking
  <2>4. Flags'
    <3>1. finished' = finished /\ ~finished
      BY <1>3 DEF Flags
    <3> QED
      BY <1>1, <1>3, <2>1, <2>2, <3>1 DEF Flags
  <2> QED
    BY <2>3, <2>4
<1>4. CASE t # Main
  <2>1. pc'[t] \in Updating \cup {"clear"} /\ pc'[Main] = pc[Main] /\ t \in Workers
    BY <1>1, <1>4 DEF Return
  <2>2. \A w \in Workers : MainHolds(w)' <=> MainHolds(w)
    BY <1>1, <2>1 DEF MainHolds
  <2>3. \A w \in Workers : Released(w)' <=> Released(w)
    BY <1>1, <2>1 DEF Released
  <2>4. \A w \in Workers :
          /\ pc'[w] \in Holding <=> pc[w] \in Holding
          /\ pc[w] \in {"off", "exit"} => pc'[w] = pc[w]
    BY <1>1, <2>1 DEF Holding
  <2>5. Locking'
    <3>1. ASSUME NEW w \in Workers
          PROVE  /\ mtx'[w] = "worker" <=> pc'[w] \in Holding
                 /\ mtx'[w] = "main" <=> MainHolds(w)'
      <4>1. /\ mtx[w] = "worker" <=> pc[w] \in Holding
            /\ mtx[w] = "main" <=> MainHolds(w)
        BY DEF Locking
      <4>2. (MainHolds(w)' <=> MainHolds(w)) /\ mtx'[w] = mtx[w]
        BY <2>2
      <4>3. pc'[w] \in Holding <=> pc[w] \in Holding
        BY <2>4
      <4> QED
        BY <4>1, <4>2, <4>3
    <3>2. ASSUME NEW w \in Workers
          PROVE  /\ At(Main, "spawn")' /\ j' <= w => At(w, "off")'
                 /\ At(Main, "join")' /\ w < j' => At(w, "exit")'
                 /\ At(Main, "done")' => At(w, "exit")'
      BY <1>1, <2>1, <2>4 DEF Locking
    <3> QED
      BY <2>1, <3>1, <3>2 DEF Locking
  <2>6. ASSUME NEW w \in Workers
        PROVE  /\ ~finished
               /\ At(w, "clear")' => size' <= pktI'
               /\ Released(w)' =>
                    /\ pc'[w] \notin {"check", "wait1", "parked1", "woken1"} => launch'[w]
                    /\ ~launch'[w] => size' <= pktI'
    <3>1. CASE w = t
      BY <1>1, <2>1, <2>3, <3>1 DEF Flags
    <3>2. CASE w # t
      <4>1. pc'[w] = pc[w]
        BY <1>1, <3>2
      <4> QED
        BY <1>1, <2>1, <2>3, <4>1 DEF Flags
    <3> QED
      BY <3>1, <3>2
  <2>7. ~finished
    BY <2>1, <2>6
  <2>8. Flags'
    BY <1>1, <2>1, <2>6, <2>7 DEF Flags
  <2> QED
    BY <2>5, <2>8
<1> QED
  BY <1>3, <1>4

LEMMA LoadStep ==
  ASSUME PoolInv, NEW t \in Threads, Load(t)
  PROVE  PoolInv'
<1> USE PoolAssumption DEF PoolInv
<1>1. TypeOK'
  <2>1. LoopHead(t, pktI) \in IF t = Main THEN MainLocations ELSE WorkerLocations
    BY DEF LoopHead, Return, MainLocations, WorkerLocations
  <2> QED
    BY <2>1, GotoTyped DEF Load, TypeOK
<1>2. Locking' /\ Flags'
  <2>1. pktI \in Nat /\ size \in Nat
    BY DEF TypeOK
  <2>2. LoopHead(t, pktI) \in Updating \/ (LoopHead(t, pktI) = Return(t) /\ size <= pktI)
    BY <2>1 DEF LoopHead
  <2> QED
    <3>1. pc'[t] = LoopHead(t, pktI) /\ \A u \in Threads : u # t => pc'[u] = pc[u]
      BY DEF Load, TypeOK
    <3> QED
      BY <2>1, <2>2, <3>1, UpdateKeepsSync DEF Load
<1>4. Batches'
  BY DEF Load, LoopHead, Return, TypeOK, Batches
<1>5. \A p \in Nat, u \in Threads : InBatch(p, u)' <=> InBatch(p, u)
  BY DEF Load, LoopHead, Return, TypeOK, InBatch
<1>6. InUpdate' => InUpdate
  BY DEF Load, LoopHead, Return, TypeOK, InUpdate
<1>7. CASE At(Main, "gen")' /\ t = Main
  <2>1. size <= pktI
    BY <1>7 DEF Load, LoopHead, Return, TypeOK
  <2>2. \A p \in Nat, u \in Threads : ~InBatch(p, u)
    BY <1>7, NoBatchWhenHeld DEF Load, InBatch
  <2>3. Progress'
    BY SMTT(30), <1>7, <2>1, <2>2 DEF Load, TypeOK, Progress, ExactlyOnce, InUpdate
  <2> QED
    BY <1>1, <1>2, <1>4, <2>3
<1>8. CASE ~(At(Main, "gen")' /\ t = Main)
  <2>1. Progress'
    BY SMTT(30), <1>5, <1>6, <1>8 DEF Load, LoopHead, Return, TypeOK, Progress, ExactlyOnce
  <2> QED
    BY <1>1, <1>2, <1>4, <2>1
<1> QED
  BY <1>7, <1>8

LEMMA ClaimBatchStep ==
  ASSUME PoolInv, NEW t \in Threads, ClaimBatch(t)
  PROVE  PoolInv'
<1> USE PoolAssumption DEF PoolInv
<1>1. /\ cur[t] = pktI /\ pktI < size
      /\ lim'[t] \in Nat /\ pktI < lim'[t] /\ lim'[t] <= size /\ lim'[t] <= pktI'
      /\ \A p \in 0 .. size - 1 : p < pktI' => p < lim'[t]
  <2>1. cur[t] = pktI /\ pktI < size /\ pktI \in Nat /\ size \in Nat
    BY DEF ClaimBatch, TypeOK, Batches
  <2>2. pktI' = pktI + IssueWidth /\ IssueWidth \in Nat /\ IssueWidth > 0
    BY <2>1 DEF ClaimBatch
  <2>3. lim'[t] = IF pktI + IssueWidth < size THEN pktI + IssueWidth ELSE size
    BY <2>1 DEF ClaimBatch, TypeOK
  <2> QED
    BY <2>1, <2>2, <2>3
<1>2. TypeOK'
  <2>1. "update" \in IF t = Main THEN MainLocations ELSE WorkerLocations
    BY DEF MainLocations, WorkerLocations
  <2>2. lim' \in [Threads -> Nat]
    <3>1. lim' = [lim EXCEPT ![t] = lim'[t]]
      BY DEF ClaimBatch, TypeOK
    <3> QED
      BY <1>1, <3>1 DEF TypeOK
  <2>3. pktI' \in Nat
    BY SMTT(30) DEF ClaimBatch, TypeOK
  <2> QED
    BY <2>1, <2>2, <2>3, GotoTyped DEF ClaimBatch, TypeOK
<1>3. Locking' /\ Flags'
  <2>1. pktI \in Nat /\ pktI' \in Nat /\ pktI <= pktI'
    BY <1>1, <1>2 DEF ClaimBatch, TypeOK
  <2> QED
    <3>1. pc'[t] = "update" /\ \A u \in Threads : u # t => pc'[u] = pc[u]
      BY DEF ClaimBatch, TypeOK
    <3> QED
      BY <2>1, <3>1, UpdateKeepsSync DEF ClaimBatch
<1>5. Batches'
  <2>1. /\ \A u \in Threads \ {t} : pc'[u] = pc[u] /\ lim'[u] = lim[u]
        /\ pc'[t] = "update" /\ cur' = cur /\ size' = size /\ pktI' = pktI + IssueWidth
    BY <1>1 DEF ClaimBatch, TypeOK
  <2>2. \A u \in Threads : cur[u] \in Nat /\ lim[u] \in Nat
    BY DEF TypeOK
  <2>3. pktI \in Nat /\ size \in Nat
    BY DEF TypeOK
  <2>4. \A u \in Threads :
          /\ At(u, "claim")' => cur'[u] < size'
          /\ At(u, "update")' => cur'[u] < lim'[u] /\ lim'[u] <= size' /\ lim'[u] <= pktI'
    BY <1>1, <2>1, <2>2, <2>3 DEF Batches
  <2>5. ASSUME NEW u \in Threads \ {t}, At(u, "update")'
        PROVE  lim'[u] <= cur'[t]
    BY <1>1, <2>1, <2>5 DEF Batches
  <2>6. ASSUME NEW u \in Threads \ {t}, NEW v \in Threads \ {t}, u # v, At(u, "update")', At(v, "update")'
        PROVE  lim'[u] <= cur'[v] \/ lim'[v] <= cur'[u]
    BY <2>1, <2>6 DEF Batches
  <2> QED
    BY <2>4, <2>5, <2>6 DEF Batches
<1>6. \A p \in Nat : /\ ~InBatch(p, t)
                     /\ InBatch(p, t)' <=> pktI <= p /\ p < lim'[t]
                     /\ \A u \in Threads \ {t} : InBatch(p, u)' <=> InBatch(p, u)
  BY <1>1 DEF ClaimBatch, TypeOK, InBatch
<1>7. InUpdate' => InUpdate
  BY DEF ClaimBatch, TypeOK, InUpdate
<1>8. ASSUME InUpdate', NEW p \in 0 .. size - 1
      PROVE  updated[p] = 1 <=> p < pktI' /\ \A u \in Threads : ~InBatch(p, u)'
  <2>1. updated[p] = 1 <=> p < pktI /\ \A u \in Threads : ~InBatch(p, u)
    BY <1>7, <1>8 DEF Progress
  <2>2. p \in Nat /\ pktI' = pktI + IssueWidth /\ pktI \in Nat
    BY <1>1 DEF ClaimBatch, TypeOK
  <2>3. CASE p < pktI
    BY <1>6, <2>1, <2>2, <2>3
  <2>4. CASE pktI <= p
    BY <1>1, <1>6, <2>1, <2>2, <2>4
  <2> QED
    BY <2>2, <2>3, <2>4
<1>9. Progress'
  <2>1. ~At(Main, "reset")' /\ (At(Main, "gen")' => At(Main, "gen"))
    BY <1>1 DEF ClaimBatch, TypeOK, Locking, Holding, MainHolds
  <2> QED
    BY <1>8, <2>1 DEF ClaimBatch, Progress, ExactlyOnce
<1> QED
  BY <1>2, <1>3, <1>5, <1>9

LEMMA ClaimFailsStep ==
  ASSUME PoolInv, NEW t \in Threads, ClaimFails(t)
  PROVE  PoolInv'
<1> USE PoolAssumption DEF PoolInv
<1>1. TypeOK'
  <2>1. LoopHead(t, pktI) \in IF t = Main THEN MainLocations ELSE WorkerLocations
    BY DEF LoopHead, Return, MainLocations, WorkerLocations
  <2> QED
    BY <2>1, GotoTyped DEF ClaimFails, TypeOK
<1>2. Locking' /\ Flags'
  <2>1. pktI \in Nat /\ size \in Nat
    BY DEF TypeOK
  <2>2. LoopHead(t, pktI) \in Updating \/ (LoopHead(t, pktI) = Return(t) /\ size <= pktI)
    BY <2>1 DEF LoopHead
  <2> QED
    <3>1. pc'[t] = LoopHead(t, pktI) /\ \A u \in Threads : u # t => pc'[u] = pc[u]
      BY DEF ClaimFails, TypeOK
    <3> QED
      BY <2>1, <2>2, <3>1, UpdateKeepsSync DEF ClaimFails
<1>4. Batches'
  BY DEF ClaimFails, LoopHead, Return, TypeOK, Batches
<1>5. \A p \in Nat, u \in Threads : InBatch(p, u)' <=> InBatch(p, u)
  BY DEF ClaimFails, LoopHead, Return, TypeOK, InBatch
<1>6. InUpdate' => InUpdate
  BY DEF ClaimFails, LoopHead, Return, TypeOK, InUpdate
<1>7. CASE At(Main, "gen")' /\ t = Main
  <2>1. size <= pktI
    BY <1>7 DEF ClaimFails, LoopHead, Return, TypeOK
  <2>2. \A p \in Nat, u \in Threads : ~InBatch(p, u)
    BY <1>7, NoBatchWhenHeld DEF ClaimFails, InBatch
  <2>3. Progress'
    BY <1>7, <2>1, <2>2 DEF ClaimFails, TypeOK, Progress, ExactlyOnce, InUpdate
  <2> QED
    BY <1>1, <1>2, <1>4, <2>3
<1>8. CASE ~(At(Main, "gen")' /\ t = Main)
  <2>1. Progress'
    BY SMTT(30), <1>5, <1>6, <1>8 DEF ClaimFails, LoopHead, Return, TypeOK, Progress, ExactlyOnce
  <2> QED
    BY <1>1, <1>2, <1>4, <2>1
<1> QED
  BY <1>7, <1>8

LEMMA UpdatePacketStep ==
  ASSUME PoolInv, NEW t \in Threads, UpdatePacket(t)
  PROVE  PoolInv'
<1> USE PoolAssumption DEF PoolInv
<1> DEFINE q == cur[t]
<1>1. /\ q \in Nat /\ q < lim[t] /\ lim[t] <= size /\ lim[t] <= pktI
      /\ lim[t] \in Nat /\ size \in 0 .. MaxPackets /\ q \in Slots
  BY DEF UpdatePacket, TypeOK, Batches
<1>2. InUpdate
  BY UpdatingInCycle DEF UpdatePacket
<1>3. /\ \A u \in Threads \ {t} : pc'[u] = pc[u] /\ cur'[u] = cur[u]
      /\ cur'[t] = q + 1 /\ lim' = lim /\ size' = size /\ pktI' = pktI
      /\ pc'[t] = IF q + 1 < lim[t] THEN "update" ELSE "load"
      /\ pc[t] = "update"
  BY DEF UpdatePacket, TypeOK
<1>4. \A u \in Threads : cur[u] \in Nat /\ lim[u] \in Nat
  BY DEF TypeOK
<1>5. TypeOK'
  <2>1. updated[q] = 0
    BY <1>1, <1>2 DEF UpdatePacket, TypeOK, Progress, InBatch
  <2>2. updated' \in [Slots -> {0, 1}]
    BY <1>1, <2>1 DEF UpdatePacket, TypeOK
  <2> QED
    <3>1. (IF q + 1 < lim[t] THEN "update" ELSE "load")
            \in IF t = Main THEN MainLocations ELSE WorkerLocations
      BY DEF MainLocations, WorkerLocations
    <3>2. cur' \in [Threads -> Nat]
      BY <1>1 DEF UpdatePacket, TypeOK
    <3> QED
      BY <2>2, <3>1, <3>2, GotoTyped DEF UpdatePacket, TypeOK
<1>6. Locking' /\ Flags'
  <2>1. pktI \in Nat /\ pc[t] \in Updating /\ pc'[t] \in Updating
    BY <1>3 DEF TypeOK
  <2> QED
    BY <1>3, <2>1, UpdateKeepsSync DEF UpdatePacket
<1>8. Batches'
  <2>1. \A u \in Threads :
          /\ At(u, "claim")' => cur'[u] < size'
          /\ At(u, "update")' => cur'[u] < lim'[u] /\ lim'[u] <= size' /\ lim'[u] <= pktI'
    BY <1>1, <1>3, <1>4 DEF Batches
  <2>2. ASSUME NEW u \in Threads, NEW v \in Threads, u # v, At(u, "update")', At(v, "update")'
        PROVE  lim'[u] <= cur'[v] \/ lim'[v] <= cur'[u]
    <3>1. At(u, "update") /\ At(v, "update")
      BY <1>3, <2>2
    <3>2. lim[u] <= cur[v] \/ lim[v] <= cur[u]
      BY <2>2, <3>1 DEF Batches
    <3> QED
      BY <1>1, <1>3, <1>4, <2>2, <3>2
  <2> QED
    BY <2>1, <2>2 DEF Batches
<1>9. \A p \in Nat : /\ InBatch(p, t)' <=> InBatch(p, t) /\ p # q
                     /\ \A u \in Threads \ {t} : InBatch(p, u)' <=> InBatch(p, u)
  BY <1>1, <1>3, <1>4 DEF InBatch
<1>10. InBatch(q, t)
  BY <1>1, <1>3 DEF InBatch
<1>11. ASSUME NEW u \in Threads \ {t}
       PROVE  ~InBatch(q, u)
  <2>1. At(u, "update") => lim[t] <= cur[u] \/ lim[u] <= cur[t]
    BY <1>3 DEF Batches
  <2> QED
    BY <1>1, <1>4, <2>1 DEF InBatch
<1>12. ASSUME NEW p \in 0 .. size - 1
       PROVE  updated'[p] = 1 <=> p < pktI /\ \A u \in Threads : ~InBatch(p, u)'
  <2>1. updated[p] = 1 <=> p < pktI /\ \A u \in Threads : ~InBatch(p, u)
    BY <1>2 DEF Progress
  <2>2. p \in Slots /\ p \in Nat /\ pktI \in Nat
    BY <1>1 DEF TypeOK
  <2>3. CASE p = q
    <3>1. updated[p] = 0
      BY <1>10, <2>1, <2>2, <2>3 DEF TypeOK
    <3>2. updated'[p] = 1
      BY <2>2, <2>3, <3>1 DEF UpdatePacket, TypeOK
    <3>3. p < pktI
      BY <1>1, <2>2, <2>3
    <3> QED
      BY <1>9, <1>11, <2>2, <2>3, <3>2, <3>3
  <2>4. CASE p # q
    <3>1. updated'[p] = updated[p]
      BY <2>2, <2>4 DEF UpdatePacket, TypeOK
    <3> QED
      BY <1>9, <2>1, <2>2, <2>4, <3>1
  <2> QED
    BY <2>3, <2>4
<1>13. Progress'
  <2>1. ~At(Main, "reset")' /\ ~At(Main, "gen")'
    BY <1>2, <1>3 DEF InUpdate
  <2> QED
    BY <1>3, <1>12, <2>1 DEF Progress, ExactlyOnce
<1> QED
  BY <1>5, <1>6, <1>8, <1>13

LEMMA SpawnStep ==
  ASSUME PoolInv, Spawn
  PROVE  PoolInv'
<1> USE PoolAssumption DEF PoolInv
<1>1. j \in Workers /\ j # Main /\ NThreads > 1 /\ j \in 1 .. NThreads
  BY DEF Spawn, TypeOK, Flags
<1> DEFINE l == IF j < NThreads THEN "spawn" ELSE "awaitReady"
<1>2. /\ pc'[j] = "start" /\ pc[j] = "off" /\ pc'[Main] = l
      /\ \A t \in Threads \ {Main, j} : pc'[t] = pc[t]
      /\ pc' \in [Threads -> MainLocations \cup WorkerLocations]
  <2>1. pc' = [pc EXCEPT ![Main] = l, ![j] = "start"]
    BY DEF Spawn
  <2>2. l \in MainLocations /\ "start" \in WorkerLocations
    BY DEF MainLocations, WorkerLocations
  <2>3. pc \in [Threads -> MainLocations \cup WorkerLocations] /\ pc[j] = "off"
    BY <1>1 DEF Spawn, TypeOK, Locking
  <2> HIDE DEF l
  <2> QED
    BY <1>1, <2>1, <2>2, <2>3
<1>3. j' = IF j < NThreads THEN j + 1 ELSE 1
  BY DEF Spawn
<1>4. TypeOK'
  <2>1. pc'[Main] \in MainLocations /\ \A w \in Workers : pc'[w] \in WorkerLocations
    BY SMTT(30), <1>2 DEF TypeOK, MainLocations, WorkerLocations
  <2>2. j' \in 1 .. NThreads
    BY <1>1, <1>3
  <2>3. ready' \in [Workers -> BOOLEAN]
    BY DEF Spawn, TypeOK
  <2> QED
    BY <1>2, <2>1, <2>2, <2>3 DEF Spawn, TypeOK
<1>5. Locking'
  <2>1. ASSUME NEW w \in Workers
        PROVE  /\ mtx[w] = "worker" <=> pc'[w] \in Holding
               /\ mtx[w] = "main" <=> MainHolds(w)'
               /\ At(Main, "spawn")' /\ j' <= w => At(w, "off")'
    <3>1. mtx[w] # "main" /\ (mtx[w] = "worker" <=> pc[w] \in Holding)
      BY DEF Spawn, Locking, MainHolds
    <3>2. ~MainHolds(w)'
      BY <1>1, <1>2, <1>3 DEF MainHolds
    <3>3. At(Main, "spawn")' /\ j' <= w => At(w, "off")'
      BY <1>1, <1>2, <1>3 DEF Spawn, Locking
    <3> QED
      BY <1>2, <3>1, <3>2, <3>3 DEF Holding
  <2> QED
    BY <1>2, <2>1 DEF Spawn, Locking
<1>6. Flags'
  BY <1>1, <1>2 DEF Spawn, TypeOK, Flags, Released
<1>7. Batches'
  BY <1>1, <1>2 DEF Spawn, TypeOK, Batches
<1>8. Progress'
  BY <1>2 DEF Spawn, Progress, ExactlyOnce, InUpdate
<1> QED
  BY <1>4, <1>5, <1>6, <1>7, <1>8

LEMMA AwaitReadyStep ==
  ASSUME PoolInv, AwaitReady
  PROVE  PoolInv'
<1> USE PoolAssumption DEF PoolInv
<1>1. TypeOK'
  BY DEF AwaitReady, TypeOK, MainLocations, WorkerLocations
<1>2. Locking'
  BY DEF AwaitReady, TypeOK, Locking, Holding, MainHolds
<1>3. Flags'
  BY DEF AwaitReady, TypeOK, Locking, Holding, MainHolds, Flags, Released
<1>4. Batches'
  BY DEF AwaitReady, TypeOK, Batches
<1>5. Progress'
  BY DEF AwaitReady, TypeOK, Progress, ExactlyOnce, InUpdate, InBatch
<1> QED BY <1>1, <1>2, <1>3, <1>4, <1>5

LEMMA FirstLockStep ==
  ASSUME PoolInv, FirstLock
  PROVE  PoolInv'
<1> USE PoolAssumption DEF PoolInv
<1>1. TypeOK'
  <2>1. j' \in 1 .. NThreads
    BY DEF FirstLock, TypeOK
  <2>2. (IF j < NThreads THEN "awaitReady" ELSE "gen") \in MainLocations
    BY DEF MainLocations
  <2>3. mtx' \in [Workers -> {"free", "main", "worker"}]
    BY DEF FirstLock, TypeOK
  <2> QED
    BY <2>1, <2>2, <2>3, GotoTyped DEF FirstLock, TypeOK
<1>2. Locking'
  BY SMTT(30) DEF FirstLock, TypeOK, Locking, Holding, MainHolds
<1>3. Flags'
  BY DEF FirstLock, TypeOK, Locking, Holding, MainHolds, Flags, Released
<1>4. Batches'
  BY DEF FirstLock, TypeOK, Batches
<1>5. Progress'
  BY DEF FirstLock, TypeOK, Flags, Progress, ExactlyOnce, InUpdate, InBatch
<1> QED BY <1>1, <1>2, <1>3, <1>4, <1>5

LEMMA GenMesStep ==
  ASSUME PoolInv, GenMes
  PROVE  PoolInv'
<1> USE PoolAssumption DEF PoolInv
<1>1. TypeOK'
  BY DEF GenMes, TypeOK, MainLocations, WorkerLocations
<1>2. Locking'
  BY DEF GenMes, TypeOK, Locking, Holding, MainHolds
<1>3. Flags'
  BY DEF GenMes, TypeOK, Locking, Holding, MainHolds, Flags, Released
<1>4. Batches'
  <2>1. \A t \in Threads : pc'[t] # "release" => pc'[t] = pc[t]
    BY DEF GenMes, TypeOK
  <2>2. size <= size' /\ size \in Int /\ size' \in Int
    BY DEF GenMes, TypeOK
  <2>3. UNCHANGED <<pktI, cur, lim>>
    BY DEF GenMes
  <2>4. \A t \in Threads : pc'[t] \in {"claim", "update"} => pc[t] = pc'[t]
    BY <2>1
  <2>5. pktI \in Int /\ \A t \in Threads : cur[t] \in Int /\ lim[t] \in Int
    BY DEF TypeOK
  <2> QED
    BY <2>2, <2>3, <2>4, <2>5 DEF Batches
<1>5. Progress'
  BY DEF GenMes, TypeOK, Progress, ExactlyOnce, InUpdate, InBatch
<1> QED BY <1>1, <1>2, <1>3, <1>4, <1>5

LEMMA ClearPacketsStep ==
  ASSUME PoolInv, ClearPackets
  PROVE  PoolInv'
<1> USE PoolAssumption DEF PoolInv
<1>1. TypeOK'
  BY DEF ClearPackets, TypeOK, MainLocations, WorkerLocations
<1>2. Locking'
  BY DEF ClearPackets, TypeOK, Locking, Holding, MainHolds
<1>3. Flags'
  BY DEF ClearPackets, TypeOK, Locking, Holding, MainHolds, Flags, Released
<1>4. Batches'
  BY DEF ClearPackets, TypeOK, Locking, Holding, MainHolds, Batches
<1>5. Progress'
  BY DEF ClearPackets, TypeOK, Progress, ExactlyOnce, InUpdate, InBatch
<1> QED BY <1>1, <1>2, <1>3, <1>4, <1>5

LEMMA RebuildVectorStep ==
  ASSUME PoolInv, RebuildVector
  PROVE  PoolInv'
<1> USE PoolAssumption DEF PoolInv
<1>1. TypeOK'
  BY DEF RebuildVector, TypeOK, MainLocations, WorkerLocations
<1>2. Locking'
  BY DEF RebuildVector, TypeOK, Locking, Holding, MainHolds
<1>3. Flags'
  BY DEF RebuildVector, TypeOK, Locking, Holding, MainHolds, Flags, Released
<1>4. Batches'
  BY DEF RebuildVector, TypeOK, Locking, Holding, MainHolds, Batches
<1>5. Progress'
  BY DEF RebuildVector, TypeOK, Progress, ExactlyOnce, InUpdate, InBatch
<1> QED BY <1>1, <1>2, <1>3, <1>4, <1>5

LEMMA ResetIndexStep ==
  ASSUME PoolInv, ResetIndex
  PROVE  PoolInv'
<1> USE PoolAssumption DEF PoolInv
<1>1. TypeOK'
  BY DEF ResetIndex, TypeOK, MainLocations, WorkerLocations
<1>2. Locking'
  BY DEF ResetIndex, TypeOK, Locking, Holding, MainHolds
<1>3. Flags'
  BY DEF ResetIndex, TypeOK, Locking, Holding, MainHolds, Flags, Released
<1>4. Batches'
  BY DEF ResetIndex, TypeOK, Locking, Holding, MainHolds, Batches
<1>5. Progress'
  BY DEF ResetIndex, TypeOK, Progress, ExactlyOnce, InUpdate, InBatch
<1> QED BY <1>1, <1>2, <1>3, <1>4, <1>5

LEMMA LaunchWorkerStep ==
  ASSUME PoolInv, LaunchWorker
  PROVE  PoolInv'
<1> USE PoolAssumption DEF PoolInv
<1>1. TypeOK'
  BY DEF LaunchWorker, TypeOK, MainLocations, WorkerLocations
<1>2. Locking'
  BY DEF LaunchWorker, TypeOK, Locking, Holding, MainHolds
<1>3. Flags'
  BY DEF LaunchWorker, TypeOK, Locking, Holding, MainHolds, Flags, Released
<1>4. Batches'
  BY DEF LaunchWorker, TypeOK, Batches
<1>5. Progress'
  BY DEF LaunchWorker, TypeOK, Progress, ExactlyOnce, InUpdate, InBatch
<1> QED BY <1>1, <1>2, <1>3, <1>4, <1>5

LEMMA UnlockWorkerStep ==
  ASSUME PoolInv, UnlockWorker
  PROVE  PoolInv'
<1> USE PoolAssumption DEF PoolInv
<1>1. TypeOK'
  <2>1. j' \in 1 .. NThreads
    BY DEF UnlockWorker, TypeOK
  <2>2. (IF j < NThreads THEN "launch" ELSE "notify") \in MainLocations
    BY DEF MainLocations
  <2>3. mtx' \in [Workers -> {"free", "main", "worker"}]
    BY DEF UnlockWorker, TypeOK
  <2> QED
    BY <2>1, <2>2, <2>3, GotoTyped DEF UnlockWorker, TypeOK
<1>2. Locking'
  BY SMTT(30) DEF UnlockWorker, TypeOK, Locking, Holding, MainHolds
<1>3. Flags'
  BY DEF UnlockWorker, TypeOK, Locking, Holding, MainHolds, Flags, Released
<1>4. Batches'
  BY DEF UnlockWorker, TypeOK, Batches
<1>5. Progress'
  BY DEF UnlockWorker, TypeOK, Progress, ExactlyOnce, InUpdate, InBatch
<1> QED BY <1>1, <1>2, <1>3, <1>4, <1>5

LEMMA NotifyStep ==
  ASSUME PoolInv, Notify
  PROVE  PoolInv'
<1> USE PoolAssumption DEF PoolInv
<1>1. TypeOK'
  BY DEF Notify, NotifyAll, TypeOK, MainLocations, WorkerLocations
<1>2. Locking'
  BY DEF Notify, NotifyAll, TypeOK, Locking, Holding, MainHolds
<1>3. Flags'
  BY DEF Notify, NotifyAll, TypeOK, Locking, Holding, MainHolds, Flags, Released
<1>4. Batches'
  BY DEF Notify, NotifyAll, TypeOK, Batches
<1>5. Progress'
  BY DEF Notify, NotifyAll, TypeOK, Progress, ExactlyOnce, InUpdate, InBatch
<1> QED BY <1>1, <1>2, <1>3, <1>4, <1>5

LEMMA SpinStep ==
  ASSUME PoolInv, Spin
  PROVE  PoolInv'
<1> USE PoolAssumption DEF PoolInv
<1>1. TypeOK'
  BY DEF Spin, TypeOK, MainLocations, WorkerLocations
<1>2. Locking'
  BY DEF Spin, TypeOK, Locking, Holding, MainHolds
<1>3. Flags'
  BY DEF Spin, TypeOK, Locking, Holding, MainHolds, Flags, Released
<1>4. Batches'
  BY DEF Spin, TypeOK, Batches
<1>5. Progress'
  BY DEF Spin, TypeOK, Progress, ExactlyOnce, InUpdate, InBatch
<1> QED BY <1>1, <1>2, <1>3, <1>4, <1>5

LEMMA LockWorkerStep ==
  ASSUME PoolInv, LockWorker
  PROVE  PoolInv'
<1> USE PoolAssumption DEF PoolInv
<1>1. j \in Workers /\ NThreads > 1 /\ j \in 1 .. NThreads
  BY DEF LockWorker, TypeOK, Flags
<1>2. TypeOK'
  BY <1>1 DEF LockWorker, TypeOK, MainLocations
<1>3. Locking'
  BY SMTT(30), <1>1 DEF LockWorker, TypeOK, Locking, Holding, MainHolds
<1>4. Flags'
  BY <1>1 DEF LockWorker, TypeOK, Flags, Released
<1>5. Batches'
  BY DEF LockWorker, TypeOK, Batches
<1>6. \A p \in Nat, t \in Threads : InBatch(p, t)' <=> InBatch(p, t)
  BY DEF LockWorker, TypeOK, InBatch
<1>7. InUpdate /\ ~At(Main, "reset")'
  BY DEF LockWorker, TypeOK, InUpdate
<1>8. CASE j < NThreads
  <2>1. Progress'
    BY SMTT(30), <1>6, <1>7, <1>8 DEF LockWorker, TypeOK, Progress, ExactlyOnce
  <2> QED
    BY <1>2, <1>3, <1>4, <1>5, <2>1
<1>9. CASE j = NThreads
  <2>1. size <= pktI
    BY <1>1 DEF LockWorker, Flags, Released
  <2>2. ASSUME NEW t \in Threads
        PROVE  ~At(t, "update")
    <3>1. CASE t = j
      BY <1>1, <3>1 DEF LockWorker, Flags, Released
    <3>2. CASE t \in Workers /\ t < j
      BY <3>2 DEF LockWorker, Locking, Holding, MainHolds
    <3> QED
      BY <1>9, <3>1, <3>2 DEF LockWorker
  <2>3. \A p \in 0 .. size - 1 : updated[p] = 1
    BY <1>7, <2>1, <2>2 DEF TypeOK, Progress, InBatch
  <2>4. pc'[Main] = "gen"
    BY <1>9 DEF LockWorker, TypeOK
  <2>5. Progress'
    BY <2>3, <2>4 DEF LockWorker, Progress, ExactlyOnce, InUpdate
  <2> QED
    BY <1>2, <1>3, <1>4, <1>5, <2>5
<1> QED
  BY <1>1, <1>8, <1>9

LEMMA FinishStep ==
  ASSUME PoolInv, Finish
  PROVE  PoolInv'
<1> USE PoolAssumption DEF PoolInv
<1>1. j = 1 /\ ~finished
  BY DEF Finish, Locking, Flags
<1>2. CASE NThreads = 1
  <2>1. Workers = {}
    BY <1>2
  <2>2. pc' = [pc EXCEPT ![Main] = "done"] /\ UNCHANGED <<j, sync, work>>
    BY <2>1 DEF Finish
  <2>3. TypeOK'
    BY <2>2 DEF TypeOK, MainLocations
  <2>4. Locking' /\ Flags'
    BY <1>1, <1>2, <2>1, <2>2 DEF TypeOK, Locking, Flags
  <2>5. Batches' /\ Progress'
    BY <2>2 DEF TypeOK, Batches, Progress, ExactlyOnce, InUpdate, InBatch
  <2> QED
    BY <2>3, <2>4, <2>5
<1>3. CASE NThreads > 1
  <2>1. Workers # {}
    <3>1. 1 \in Workers
      BY <1>3
    <3> QED
      BY <3>1
  <2>2. /\ pc' = [pc EXCEPT ![Main] = "unlockEnd"]
        /\ finished' = TRUE
        /\ UNCHANGED <<j, mtx, ready, launch, spurious, work>>
    BY <2>1 DEF Finish
  <2>3. TypeOK'
    BY SMTT(30), <2>2 DEF TypeOK, MainLocations
  <2>4. Locking'
    BY <1>1, <2>2 DEF Finish, TypeOK, Locking, Holding, MainHolds
  <2>5. Flags'
    BY <1>3, <2>2 DEF Finish, TypeOK, Locking, Holding, MainHolds, Flags, Released
  <2>6. Batches' /\ Progress'
    BY <2>2 DEF TypeOK, Batches, Progress, ExactlyOnce, InUpdate
  <2> QED
    BY <2>3, <2>4, <2>5, <2>6
<1> QED
  BY <1>2, <1>3

LEMMA UnlockEndStep ==
  ASSUME PoolInv, UnlockEnd
  PROVE  PoolInv'
<1> USE PoolAssumption DEF PoolInv
<1>1. TypeOK'
  <2>1. j' \in 1 .. NThreads
    BY DEF UnlockEnd, TypeOK
  <2>2. (IF j < NThreads THEN "unlockEnd" ELSE "notifyEnd") \in MainLocations
    BY DEF MainLocations
  <2>3. mtx' \in [Workers -> {"free", "main", "worker"}]
    BY DEF UnlockEnd, TypeOK
  <2> QED
    BY <2>1, <2>2, <2>3, GotoTyped DEF UnlockEnd, TypeOK
<1>2. Locking'
  BY SMTT(30) DEF UnlockEnd, TypeOK, Locking, Holding, MainHolds
<1>3. Flags'
  BY DEF UnlockEnd, TypeOK, Locking, Holding, MainHolds, Flags, Released
<1>4. Batches'
  BY DEF UnlockEnd, TypeOK, Batches
<1>5. Progress'
  BY DEF UnlockEnd, TypeOK, Progress, ExactlyOnce, InUpdate, InBatch
<1> QED BY <1>1, <1>2, <1>3, <1>4, <1>5

LEMMA NotifyEndStep ==
  ASSUME PoolInv, NotifyEnd
  PROVE  PoolInv'
<1> USE PoolAssumption DEF PoolInv
<1>1. TypeOK'
  BY DEF NotifyEnd, NotifyAll, TypeOK, MainLocations, WorkerLocations
<1>2. Locking'
  BY DEF NotifyEnd, NotifyAll, TypeOK, Locking, Holding, MainHolds
<1>3. Flags'
  BY DEF NotifyEnd, NotifyAll, TypeOK, Locking, Holding, MainHolds, Flags, Released
<1>4. Batches'
  BY DEF NotifyEnd, NotifyAll, TypeOK, Batches
<1>5. Progress'
  BY DEF NotifyEnd, NotifyAll, TypeOK, Progress, ExactlyOnce, InUpdate, InBatch
<1> QED BY <1>1, <1>2, <1>3, <1>4, <1>5

LEMMA JoinStep ==
  ASSUME PoolInv, Join
  PROVE  PoolInv'
<1> USE PoolAssumption DEF PoolInv
<1>1. TypeOK'
  BY SMTT(30) DEF Join, TypeOK, MainLocations, WorkerLocations
<1>2. Locking'
  BY DEF Join, TypeOK, Locking, Holding, MainHolds
<1>3. Flags'
  BY DEF Join, TypeOK, Locking, Holding, MainHolds, Flags, Released
<1>4. Batches'
  BY DEF Join, TypeOK, Batches
<1>5. Progress'
  BY DEF Join, TypeOK, Progress, ExactlyOnce, InUpdate, InBatch
<1> QED BY <1>1, <1>2, <1>3, <1>4, <1>5

-----------------------------------------------------------------------------
(* The theorems.                                                           *)

LEMMA InitStep == Init => PoolInv
<1> SUFFICES ASSUME Init PROVE PoolInv
  OBVIOUS
<1> USE PoolAssumption DEF Init
<1>1. pc[Main] \in {"gen", "spawn"} /\ (pc[Main] = "spawn" <=> Workers # {})
  OBVIOUS
<1>2. Workers # {} <=> NThreads > 1
  <2>1. CASE NThreads > 1
    <3>1. 1 \in Workers
      BY <2>1
    <3> QED
      BY <2>1, <3>1
  <2>2. CASE ~(NThreads > 1)
    BY <2>2
  <2> QED
    BY <2>1, <2>2
<1>3. \A w \in Workers : pc[w] = "off"
  OBVIOUS
<1>4. TypeOK
  <2>1. /\ pc \in [Threads -> MainLocations \cup WorkerLocations]
        /\ pc[Main] \in MainLocations
        /\ \A w \in Workers : pc[w] \in WorkerLocations
    BY <1>1, <1>3 DEF MainLocations, WorkerLocations
  <2>2. /\ mtx \in [Workers -> {"free", "main", "worker"}]
        /\ ready \in [Workers -> BOOLEAN] /\ launch \in [Workers -> BOOLEAN]
    OBVIOUS
  <2>3. cur \in [Threads -> Nat] /\ lim \in [Threads -> Nat] /\ updated \in [Slots -> {0, 1}]
    OBVIOUS
  <2>4. /\ j \in 1 .. NThreads /\ pktI \in Nat
        /\ size \in 0 .. MaxPackets /\ spurious \in 0 .. MaxSpurious
    OBVIOUS
  <2>5. finished \in BOOLEAN
    OBVIOUS
  <2> HIDE DEF Init
  <2> QED
    BY <2>1, <2>2, <2>3, <2>4, <2>5 DEF TypeOK
<1>5. Locking
  BY <1>1, <1>2, <1>3 DEF Locking, Holding, MainHolds
<1>6. Flags
  BY <1>1, <1>2, <1>3 DEF Flags, Released
<1>7. Batches
  BY <1>1, <1>3 DEF Batches
<1>8. Progress
  BY <1>1 DEF Progress, ExactlyOnce, InUpdate
<1> QED
  BY <1>4, <1>5, <1>6, <1>7, <1>8 DEF PoolInv

LEMMA StutterStep == PoolInv /\ UNCHANGED vars => PoolInv'
BY DEF PoolInv, vars, TypeOK, Locking, MainHolds, Flags, Released, Batches, Progress,
   ExactlyOnce, InUpdate, InBatch

\* Every step of the pool preserves the invariant.
LEMMA NextStep == PoolInv /\ [Next]_vars => PoolInv'
<1> SUFFICES ASSUME PoolInv, [Next]_vars PROVE PoolInv'
  OBVIOUS
<1>1. CASE UNCHANGED vars
  BY <1>1, StutterStep
<1>2. ASSUME NEW t \in Threads, UpdatePackets(t)
      PROVE  PoolInv'
  BY <1>2, LoadStep, ClaimBatchStep, ClaimFailsStep, UpdatePacketStep DEF UpdatePackets
<1>3. CASE MainStep
  BY <1>2, <1>3, SpawnStep, AwaitReadyStep, FirstLockStep, RebuildVectorStep, ResetIndexStep,
     LaunchWorkerStep, UnlockWorkerStep, NotifyStep, SpinStep, LockWorkerStep, UnlockEndStep,
     NotifyEndStep, JoinStep DEF MainStep
<1>4. CASE GenMes \/ ClearPackets \/ Finish \/ Terminated
  BY <1>1, <1>4, GenMesStep, ClearPacketsStep, FinishStep DEF Terminated
<1>5. ASSUME NEW w \in Workers, Worker(w) \/ SpuriousWakeup(w)
      PROVE  PoolInv'
  BY <1>2, <1>5, StartStep, SetReadyStep, ParkStep, SpuriousWakeupStep, ReacquireStep,
     LoopStep, ClearLaunchStep, CheckStep DEF Worker
<1> QED
  BY <1>1, <1>3, <1>4, <1>5 DEF Next

\* The inductive invariant holds of every reachable state.
THEOREM PoolInvariant == Spec => []PoolInv
BY InitStep, NextStep, PTL DEF Spec

\* Every variable keeps its type; the history counter of a packet stays below
\* two: no packet is updated twice in a cycle.
THEOREM TypeCorrect == Spec => []TypeOK
<1>1. PoolInv => TypeOK
  BY DEF PoolInv
<1> QED
  BY <1>1, PoolInvariant, PTL

\* While main runs the serial part of run_one_cycle, genMes or the statistics,
\* no worker is inside update_packets.
THEOREM SerialPart == Spec => []SerialPhaseExclusive
<1>1. PoolInv => SerialPhaseExclusive
  BY DEF PoolInv, SerialPhaseExclusive, Serial, Locking, Holding, MainHolds
<1> QED
  BY <1>1, PoolInvariant, PTL

\* Two threads never work on the same packet of the vector.
THEOREM Disjointness == Spec => []ClaimsDisjoint
<1>1. ASSUME PoolInv, NEW t \in Threads, NEW u \in Threads, t # u
      PROVE  Claimed(t) \cap Claimed(u) = {}
  <2>1. /\ cur[t] \in Nat /\ lim[t] \in Nat /\ cur[u] \in Nat /\ lim[u] \in Nat
        /\ At(t, "update") /\ At(u, "update") => lim[t] <= cur[u] \/ lim[u] <= cur[t]
    BY <1>1 DEF PoolInv, TypeOK, Batches
  <2> QED
    BY <2>1 DEF Claimed
<1>2. PoolInv => ClaimsDisjoint
  BY <1>1 DEF ClaimsDisjoint
<1> QED
  BY <1>2, PoolInvariant, PTL

\* When run_one_cycle has returned every packet has been updated exactly once.
THEOREM EveryPacketOnce == Spec => []ExactlyOnce
<1>1. PoolInv => ExactlyOnce
  BY DEF PoolInv, Progress
<1> QED
  BY <1>1, PoolInvariant, PTL

-----------------------------------------------------------------------------
(* The pool implements the safety part of Cycle.                           *)

LEMMA UpdateOfAFreshPacket ==
  ASSUME PoolInv, NEW t \in Threads, UpdatePacket(t)
  PROVE  InUpdate /\ cur[t] \in 0 .. size - 1 /\ updated[cur[t]] = 0
<1> USE DEF PoolInv
<1>1. InUpdate
  BY UpdatingInCycle DEF UpdatePacket
<1>2. cur[t] \in 0 .. size - 1 /\ cur[t] \in Slots
  BY SMTT(30), PoolAssumption DEF UpdatePacket, TypeOK, Batches
<1>3. InBatch(cur[t], t)
  BY <1>2 DEF UpdatePacket, TypeOK, Batches, InBatch
<1> QED
  BY <1>1, <1>2, <1>3 DEF Progress, TypeOK

LEMMA PhaseOf ==
  ASSUME pc[Main] \in MainLocations
  PROVE  /\ CyclePhase \in {"serial", "update", "done"}
         /\ CyclePhase = "update" <=> InUpdate
         /\ CyclePhase = "done" <=> pc[Main] \in {"unlockEnd", "notifyEnd", "join", "done"}
BY DEF CyclePhase, InUpdate, MainLocations

\* A step that stays in its part of the cycle and changes neither the length
\* of the vector in the update phase nor the history is a stuttering step.
LEMMA CycleStutter ==
  ASSUME pc[Main] \in MainLocations, CyclePhase' = CyclePhase,
         CyclePhase = "update" => UNCHANGED <<size, updated>>
  PROVE  UNCHANGED <<CyclePhase, CycleTodo>>
BY DEF CycleTodo

\* Every step of the pool is a step of the abstract cycle or leaves it alone.
LEMMA CycleStep ==
  ASSUME PoolInv, PoolInv', [Next]_vars
  PROVE  [AbstractCycle!Next]_(AbstractCycle!cycleVars)
<1> USE DEF AbstractCycle!cycleVars
<1>1. /\ pc[Main] \in MainLocations /\ pc'[Main] \in MainLocations
      /\ size \in 0 .. MaxPackets /\ size' \in 0 .. MaxPackets
  BY DEF PoolInv, TypeOK
<1>2. CASE UNCHANGED vars
  BY <1>2 DEF vars, CyclePhase, CycleTodo
<1>3. ASSUME NEW t \in Threads, UpdatePacket(t)
      PROVE  AbstractCycle!UpdateOne
  <2>1. InUpdate /\ cur[t] \in 0 .. size - 1 /\ updated[cur[t]] = 0
    BY <1>3, UpdateOfAFreshPacket
  <2>2. InUpdate'
    BY <1>3, <2>1 DEF UpdatePacket, InUpdate, PoolInv, TypeOK
  <2>3. CyclePhase = "update" /\ CyclePhase' = "update"
    BY <1>1, <2>1, <2>2, PhaseOf DEF CyclePhase, InUpdate
  <2>4. size' = size /\ updated' = [updated EXCEPT ![cur[t]] = 1] /\ updated \in [Slots -> {0, 1}]
    BY <1>3, <2>1 DEF UpdatePacket, PoolInv, TypeOK
  <2>5. CycleTodo' = CycleTodo \ {cur[t]} /\ cur[t] \in CycleTodo
    BY <1>1, <2>1, <2>3, <2>4, PoolAssumption DEF CycleTodo
  <2> QED
    BY <2>3, <2>5 DEF AbstractCycle!UpdateOne
\* The end of a cycle: main is back and nothing is left to do.
<1>4. ASSUME CyclePhase = "update", At(Main, "gen")', UNCHANGED <<size, updated>>
      PROVE  AbstractCycle!EndUpdate
  <2>1. CyclePhase' = "serial" /\ CycleTodo' = {}
    BY <1>4 DEF CyclePhase, CycleTodo
  <2>2. CycleTodo = {}
    BY <1>4 DEF CycleTodo, PoolInv, Progress, ExactlyOnce
  <2> QED
    BY <1>4, <2>1, <2>2 DEF AbstractCycle!EndUpdate
<1>5. ASSUME NEW t \in Threads, UpdatePackets(t)
      PROVE  [AbstractCycle!Next]_(AbstractCycle!cycleVars)
  <2>1. CASE UpdatePacket(t)
    BY <1>3, <2>1 DEF AbstractCycle!Next
  <2>2. CASE ~UpdatePacket(t) /\ At(Main, "gen")' /\ t = Main
    <3>1. InUpdate /\ UNCHANGED <<size, updated>>
      BY <1>5, <2>2 DEF UpdatePackets, Load, ClaimBatch, ClaimFails, InUpdate
    <3>2. CyclePhase = "update"
      BY <1>1, <3>1 DEF CyclePhase, InUpdate
    <3> QED
      BY <1>4, <2>2, <3>1, <3>2 DEF AbstractCycle!Next
  <2>3. CASE ~UpdatePacket(t) /\ ~(At(Main, "gen")' /\ t = Main)
    <3>1. UNCHANGED <<size, updated>> /\ (t # Main => pc'[Main] = pc[Main])
          /\ (t = Main => pc[Main] \in Updating /\ pc'[Main] \in Updating)
      BY <1>5, <2>3 DEF UpdatePackets, Load, ClaimBatch, ClaimFails, LoopHead, Return, PoolInv, TypeOK
    <3>2. CyclePhase' = CyclePhase
      BY <3>1 DEF CyclePhase
    <3> QED
      BY <1>1, <3>1, <3>2, CycleStutter
  <2> QED
    BY <2>1, <2>2, <2>3
<1>6. ASSUME NEW w \in Workers, Worker(w) \/ SpuriousWakeup(w), ~UpdatePackets(w)
      PROVE  UNCHANGED <<CyclePhase, CycleTodo>>
  <2>1. pc'[Main] = pc[Main] /\ UNCHANGED <<size, updated>>
    BY <1>6 DEF Worker, SpuriousWakeup, Start, SetReady, Park, Reacquire, Loop, ClearLaunch, Check,
       PoolInv, TypeOK
  <2> QED
    BY <1>1, <2>1, CycleStutter DEF CyclePhase
\* The serial steps before the index is reset.
<1>7. CASE Spawn \/ AwaitReady \/ FirstLock \/ GenMes \/ ClearPackets \/ RebuildVector
  <2>1. CyclePhase = "serial" /\ CyclePhase' = "serial"
    <3>1. CASE Spawn
      BY <3>1, SpawnStep DEF Spawn, CyclePhase, PoolInv, TypeOK
    <3>2. CASE ~Spawn
      BY <1>7, <3>2 DEF AwaitReady, FirstLock, GenMes, ClearPackets, RebuildVector, CyclePhase, PoolInv, TypeOK
    <3> QED
      BY <3>1, <3>2
  <2> QED
    BY <2>1 DEF CycleTodo
<1>8. CASE ResetIndex
  <2>1. CyclePhase = "serial" /\ CyclePhase' = "update" /\ size' = size /\ updated' = updated
    BY <1>8 DEF ResetIndex, CyclePhase, PoolInv, TypeOK
  <2>2. CycleTodo = {} /\ CycleTodo' = 0 .. size - 1
    BY <1>1, <1>8, <2>1, PoolAssumption DEF CycleTodo, ResetIndex, PoolInv, Progress
  <2> QED
    BY <1>1, <2>1, <2>2 DEF AbstractCycle!BeginUpdate, AbstractCycle!Next
<1>9. CASE LaunchWorker \/ UnlockWorker \/ Notify \/ Spin
  <2>1. InUpdate /\ InUpdate' /\ UNCHANGED <<size, updated>>
    BY <1>9 DEF LaunchWorker, UnlockWorker, Notify, NotifyAll, Spin, InUpdate, PoolInv, TypeOK
  <2>2. CyclePhase = "update" /\ CyclePhase' = "update"
    BY <1>1, <2>1 DEF CyclePhase, InUpdate
  <2> QED
    BY <1>1, <2>1, <2>2, CycleStutter
<1>10. CASE LockWorker
  <2>1. CyclePhase = "update" /\ UNCHANGED <<size, updated>> /\ pc'[Main] \in {"spin", "gen"}
    BY <1>10 DEF LockWorker, CyclePhase, PoolInv, TypeOK
  <2>2. CASE pc'[Main] = "gen"
    BY <1>4, <2>1, <2>2 DEF AbstractCycle!Next
  <2>3. CASE pc'[Main] = "spin"
    BY <1>1, <2>1, <2>3, CycleStutter DEF CyclePhase
  <2> QED
    BY <2>1, <2>2, <2>3
<1>11. CASE Finish
  <2>1. CyclePhase = "serial" /\ CyclePhase' = "done"
    BY <1>11 DEF Finish, CyclePhase, PoolInv, TypeOK
  <2> QED
    BY <2>1 DEF CycleTodo, AbstractCycle!Stop, AbstractCycle!Next
<1>12. CASE UnlockEnd \/ NotifyEnd \/ Join
  <2>1. CyclePhase = "done" /\ CyclePhase' = "done"
    BY <1>12 DEF UnlockEnd, NotifyEnd, NotifyAll, Join, CyclePhase, PoolInv, TypeOK
  <2> QED
    BY <2>1 DEF CycleTodo
<1> QED
  BY <1>2, <1>5, <1>6, <1>7, <1>8, <1>9, <1>10, <1>11, <1>12
     DEF Next, MainStep, Terminated, Worker

\* The worker pool implements the safety part of the abstract cycle: a serial
\* phase, then every packet exactly once, then the next serial phase.
THEOREM PoolImplementsCycle == Spec => AbstractCycle!Safety
<1>1. Init => AbstractCycle!Init
  BY DEF Init, AbstractCycle!Init, CyclePhase, CycleTodo
<1> QED
  BY <1>1, CycleStep, PoolInvariant, PTL DEF Spec, AbstractCycle!Safety
=============================================================================
