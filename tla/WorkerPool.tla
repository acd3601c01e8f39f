----------------------------- MODULE WorkerPool -----------------------------
(***************************************************************************)
(* The cycle driver of main.cpp: the main thread, the worker threads, one  *)
(* mutex per worker, one condition variable, the volatile flags            *)
(* thread_ready, worker_launch and finished, and the shared index pkt_i    *)
(* from which every thread claims batches of issue_width packets.          *)
(*                                                                         *)
(* Thread t is always at one program location, pc[t].  Waiting on the      *)
(* condition variable is three locations: "waitK" (about to call cv.wait), *)
(* "parkedK" (blocked, mutex released), "wokenK" (woken, mutex not yet     *)
(* taken again); K is 0 for the first wait, which has no predicate, and 1  *)
(* for the wait at the end of the worker's loop.  Flags are read and       *)
(* written in program order (volatile accesses, and the mutexes order      *)
(* everything else).  The work on one packet is one step here; module      *)
(* Network opens it.                                                       *)
(***************************************************************************)
EXTENDS Integers

CONSTANTS
  NThreads,      \* param->threads
  IssueWidth,    \* param->issue_width
  MaxPackets,    \* bound on the length of the packet vector
  MaxSpurious    \* bound on the number of spurious wake-ups

ASSUME PoolAssumption ==
  /\ NThreads \in Nat \ {0}
  /\ IssueWidth \in Nat \ {0}
  /\ MaxPackets \in Nat
  /\ MaxSpurious \in Nat

Main == 0
Workers == IF NThreads > 1 THEN 1 .. NThreads ELSE {}
Threads == {Main} \cup Workers
Slots == 0 .. MaxPackets - 1

VARIABLES
  pc,         \* program location of every thread
  j,          \* loop index of the main thread over the workers
  mtx,        \* who holds mtxs[w]: "free", "main" or "worker"
  ready,      \* thread_ready
  launch,     \* worker_launch
  finished,   \* finished
  pktI,       \* pkt_i
  size,       \* length of the packet vector
  cur,        \* local i of update_packets
  lim,        \* local max_i of update_packets
  updated,    \* history: how often each packet was updated in this cycle
  spurious    \* spurious wake-ups so far

sync == <<mtx, ready, launch, finished, spurious>>
work == <<pktI, size, cur, lim, updated>>
vars == <<pc, j, sync, work>>

Updating == {"load", "claim", "update"}
MainLocations ==
  {"spawn", "awaitReady", "lock0", "gen", "release", "reset", "launch",
   "unlock", "notify", "spin", "lock", "unlockEnd", "notifyEnd", "join",
   "done"} \cup Updating
WorkerLocations ==
  {"off", "start", "setReady", "wait0", "parked0", "woken0", "loop", "clear",
   "check", "wait1", "parked1", "woken1", "exit"} \cup Updating

Goto(t, l) == pc' = [pc EXCEPT ![t] = l]
At(t, l) == pc[t] = l

\* One round of a loop "for i in 0 .. threads-1" of the main thread: to
\* location again while workers remain, else to location next.
ForEachWorker(again, next) ==
  /\ Goto(Main, IF j < NThreads THEN again ELSE next)
  /\ j' = IF j < NThreads THEN j + 1 ELSE 1

Init ==
  /\ pc = [t \in Threads |->
             IF t # Main THEN "off" ELSE IF Workers = {} THEN "gen" ELSE "spawn"]
  /\ j = 1
  /\ mtx = [w \in Workers |-> "free"]
  /\ ready = [w \in Workers |-> FALSE]
  /\ launch \in [Workers -> BOOLEAN]        \* new bool[n] leaves it undefined
  /\ finished = FALSE
  /\ pktI = 0
  /\ size = 0
  /\ cur = [t \in Threads |-> 0]
  /\ lim = [t \in Threads |-> 0]
  /\ updated = [p \in Slots |-> 0]
  /\ spurious = 0

-----------------------------------------------------------------------------
(* update_packets, run by a worker or by the main thread itself.  The      *)
(* vector does not change length while a thread is in it.                  *)

\* The location after update_packets returns.
Return(t) == IF t = Main THEN "gen" ELSE "clear"

\* Where the loop condition i < vec_size leads.
LoopHead(t, i) == IF i < size THEN "claim" ELSE Return(t)

Load(t) ==
  /\ At(t, "load")
  /\ cur' = [cur EXCEPT ![t] = pktI]
  /\ Goto(t, LoopHead(t, pktI))
  /\ UNCHANGED <<j, sync, pktI, size, lim, updated>>

\* Mutant: the claim is a load followed by a store, nothing is compared.
ClaimBatchUncompared(t) ==
  /\ At(t, "claim")
  /\ pktI' = cur[t] + IssueWidth
  /\ lim' = [lim EXCEPT ![t] = IF cur[t] + IssueWidth < size
                               THEN cur[t] + IssueWidth ELSE size]
  /\ Goto(t, "update")
  /\ UNCHANGED <<j, sync, size, cur, updated>>

\* Mutant: the index advances by one, the batch is still issue_width long.
ClaimBatchByOne(t) ==
  /\ At(t, "claim")
  /\ pktI = cur[t]
  /\ pktI' = cur[t] + 1
  /\ lim' = [lim EXCEPT ![t] = IF cur[t] + IssueWidth < size
                               THEN cur[t] + IssueWidth ELSE size]
  /\ Goto(t, "update")
  /\ UNCHANGED <<j, sync, size, cur, updated>>

\* pkt_i.compare_exchange_strong(i, i + issue_width) succeeds ...
ClaimBatch(t) ==
  /\ At(t, "claim")
  /\ pktI = cur[t]
  /\ pktI' = cur[t] + IssueWidth
  /\ lim' = [lim EXCEPT ![t] = IF cur[t] + IssueWidth < size
                               THEN cur[t] + IssueWidth ELSE size]
  /\ Goto(t, "update")
  /\ UNCHANGED <<j, sync, size, cur, updated>>

\* ... or fails and leaves the present value in i.
ClaimFails(t) ==
  /\ At(t, "claim")
  /\ pktI # cur[t]
  /\ cur' = [cur EXCEPT ![t] = pktI]
  /\ Goto(t, LoopHead(t, pktI))
  /\ UNCHANGED <<j, sync, pktI, size, lim, updated>>

UpdatePacket(t) ==
  /\ At(t, "update")
  /\ updated' = [updated EXCEPT ![cur[t]] = @ + 1]
  /\ cur' = [cur EXCEPT ![t] = @ + 1]
  /\ Goto(t, IF cur[t] + 1 < lim[t] THEN "update" ELSE "load")
  /\ UNCHANGED <<j, sync, pktI, size, lim>>

-----------------------------------------------------------------------------
(* worker                                                                  *)

Start(w) ==
  /\ At(w, "start")
  /\ mtx[w] = "free"
  /\ mtx' = [mtx EXCEPT ![w] = "worker"]
  /\ Goto(w, "setReady")
  /\ UNCHANGED <<j, ready, launch, finished, spurious, work>>

SetReady(w) ==
  /\ At(w, "setReady")
  /\ ready' = [ready EXCEPT ![w] = TRUE]
  /\ Goto(w, "wait0")
  /\ UNCHANGED <<j, mtx, launch, finished, spurious, work>>

\* cv.wait releases the mutex and blocks in one step.
Park(w) ==
  /\ pc[w] \in {"wait0", "wait1"}
  /\ mtx' = [mtx EXCEPT ![w] = "free"]
  /\ Goto(w, IF At(w, "wait0") THEN "parked0" ELSE "parked1")
  /\ UNCHANGED <<j, ready, launch, finished, spurious, work>>

\* A thread woken from cv.wait without a notification.
SpuriousWakeup(w) ==
  /\ pc[w] \in {"parked0", "parked1"}
  /\ spurious < MaxSpurious
  /\ spurious' = spurious + 1
  /\ Goto(w, IF At(w, "parked0") THEN "woken0" ELSE "woken1")
  /\ UNCHANGED <<j, mtx, ready, launch, finished, work>>

\* cv.wait takes the mutex again before it returns.
Reacquire(w) ==
  /\ pc[w] \in {"woken0", "woken1"}
  /\ mtx[w] = "free"
  /\ mtx' = [mtx EXCEPT ![w] = "worker"]
  /\ Goto(w, IF At(w, "woken0") THEN "loop" ELSE "check")
  /\ UNCHANGED <<j, ready, launch, finished, spurious, work>>

\* while (!finished); leaving it destroys the lock.
Loop(w) ==
  /\ At(w, "loop")
  /\ Goto(w, IF finished THEN "exit" ELSE "load")
  /\ mtx' = IF finished THEN [mtx EXCEPT ![w] = "free"] ELSE mtx
  /\ UNCHANGED <<j, ready, launch, finished, spurious, work>>

ClearLaunch(w) ==
  /\ At(w, "clear")
  /\ launch' = [launch EXCEPT ![w] = FALSE]
  /\ Goto(w, "check")
  /\ UNCHANGED <<j, mtx, ready, finished, spurious, work>>

\* Mutant: the loop around the second wait forgets finished.
CheckLaunchOnly(w) ==
  /\ At(w, "check")
  /\ Goto(w, IF ~launch[w] THEN "wait1" ELSE "loop")
  /\ UNCHANGED <<j, sync, work>>

\* while (!worker_launch[id] && !finished) cv.wait(lk)
Check(w) ==
  /\ At(w, "check")
  /\ Goto(w, IF ~launch[w] /\ ~finished THEN "wait1" ELSE "loop")
  /\ UNCHANGED <<j, sync, work>>

-----------------------------------------------------------------------------
(* main: start of the threads                                              *)

Spawn ==
  /\ At(Main, "spawn")
  /\ ready' = [ready EXCEPT ![j] = FALSE]
  /\ pc' = [pc EXCEPT ![Main] = IF j < NThreads THEN "spawn" ELSE "awaitReady",
                      ![j] = "start"]
  /\ j' = IF j < NThreads THEN j + 1 ELSE 1
  /\ UNCHANGED <<mtx, launch, finished, spurious, work>>

AwaitReady ==
  /\ At(Main, "awaitReady")
  /\ ready[j]
  /\ Goto(Main, "lock0")
  /\ UNCHANGED <<j, sync, work>>

\* Mutant: main does not take the mutexes after the threads are ready.
FirstLockSkipped ==
  /\ At(Main, "lock0")
  /\ ForEachWorker("awaitReady", "gen")
  /\ UNCHANGED <<sync, work>>

FirstLock ==
  /\ At(Main, "lock0")
  /\ mtx[j] = "free"
  /\ mtx' = [mtx EXCEPT ![j] = "main"]
  /\ ForEachWorker("awaitReady", "gen")
  /\ UNCHANGED <<ready, launch, finished, spurious, work>>

-----------------------------------------------------------------------------
(* main: one cycle                                                         *)

\* TM->genMes appends packets.
GenMes ==
  /\ At(Main, "gen")
  /\ size' \in size .. MaxPackets
  /\ Goto(Main, "release")
  /\ UNCHANGED <<j, sync, pktI, cur, lim, updated>>

\* all_packets.clear() between two injection rates.
ClearPackets ==
  /\ At(Main, "gen")
  /\ size' = 0
  /\ UNCHANGED <<pc, j, sync, pktI, cur, lim, updated>>

\* First loop of run_one_cycle: links released, arrived packets deleted.
RebuildVector ==
  /\ At(Main, "release")
  /\ size' \in 0 .. size
  /\ updated' = [p \in Slots |-> 0]
  /\ Goto(Main, "reset")
  /\ UNCHANGED <<j, sync, pktI, cur, lim>>

\* pkt_i.store(0), then the choice between one thread and the pool.
ResetIndex ==
  /\ At(Main, "reset")
  /\ pktI' = 0
  /\ Goto(Main, IF size < NThreads \/ NThreads < 2 THEN "load" ELSE "launch")
  /\ UNCHANGED <<j, sync, size, cur, lim, updated>>

LaunchWorker ==
  /\ At(Main, "launch")
  /\ launch' = [launch EXCEPT ![j] = TRUE]
  /\ Goto(Main, "unlock")
  /\ UNCHANGED <<j, mtx, ready, finished, spurious, work>>

UnlockWorker ==
  /\ At(Main, "unlock")
  /\ mtx' = [mtx EXCEPT ![j] = "free"]
  /\ ForEachWorker("launch", "notify")
  /\ UNCHANGED <<ready, launch, finished, spurious, work>>

\* Mutant: cv.notify_one().
NotifyOne(l) ==
  /\ \E w \in Workers :
       pc' = [pc EXCEPT ![Main] = l,
                        ![w] = CASE @ = "parked0" -> "woken0"
                                 [] @ = "parked1" -> "woken1"
                                 [] OTHER         -> @]
  /\ UNCHANGED <<j, sync, work>>

\* cv.notify_all(), then main moves on to location l.
NotifyAll(l) ==
  /\ pc' = [t \in Threads |-> CASE t = Main           -> l
                                [] pc[t] = "parked0" -> "woken0"
                                [] pc[t] = "parked1" -> "woken1"
                                [] OTHER             -> pc[t]]
  /\ UNCHANGED <<j, sync, work>>

Notify == At(Main, "notify") /\ NotifyAll("spin")

\* Mutant: main goes straight to the lock.
SpinSkipped ==
  /\ At(Main, "spin")
  /\ Goto(Main, "lock")
  /\ UNCHANGED <<j, sync, work>>

\* while (worker_launch[i]) ;
Spin ==
  /\ At(Main, "spin")
  /\ ~launch[j]
  /\ Goto(Main, "lock")
  /\ UNCHANGED <<j, sync, work>>

LockWorker ==
  /\ At(Main, "lock")
  /\ mtx[j] = "free"
  /\ mtx' = [mtx EXCEPT ![j] = "main"]
  /\ ForEachWorker("spin", "gen")
  /\ UNCHANGED <<ready, launch, finished, spurious, work>>

-----------------------------------------------------------------------------
(* main: end of the simulation                                             *)

Finish ==
  /\ At(Main, "gen")
  /\ IF Workers = {}
       THEN Goto(Main, "done") /\ UNCHANGED finished
       ELSE Goto(Main, "unlockEnd") /\ finished' = TRUE
  /\ UNCHANGED <<j, mtx, ready, launch, spurious, work>>

UnlockEnd ==
  /\ At(Main, "unlockEnd")
  /\ mtx' = [mtx EXCEPT ![j] = "free"]
  /\ ForEachWorker("unlockEnd", "notifyEnd")
  /\ UNCHANGED <<ready, launch, finished, spurious, work>>

NotifyEnd == At(Main, "notifyEnd") /\ NotifyAll("join")

Join ==
  /\ At(Main, "join")
  /\ At(j, "exit")
  /\ ForEachWorker("join", "done")
  /\ UNCHANGED <<sync, work>>

-----------------------------------------------------------------------------
Terminated == At(Main, "done") /\ UNCHANGED vars

UpdatePackets(t) == Load(t) \/ ClaimBatch(t) \/ ClaimFails(t) \/ UpdatePacket(t)

Worker(w) ==
  \/ Start(w) \/ SetReady(w) \/ Park(w) \/ Reacquire(w)
  \/ Loop(w) \/ UpdatePackets(w) \/ ClearLaunch(w) \/ Check(w)

\* Every step of main but the two choices the workload makes at "gen".
MainStep ==
  \/ Spawn \/ AwaitReady \/ FirstLock \/ RebuildVector \/ ResetIndex
  \/ UpdatePackets(Main) \/ LaunchWorker \/ UnlockWorker \/ Notify \/ Spin
  \/ LockWorker \/ UnlockEnd \/ NotifyEnd \/ Join

Next ==
  \/ MainStep \/ GenMes \/ ClearPackets \/ Finish \/ Terminated
  \/ \E w \in Workers : Worker(w) \/ SpuriousWakeup(w)

\* The operating system runs every runnable thread.  How long the simulation
\* lasts is the workload's choice, so GenMes and Finish get no fairness.
Fairness ==
  /\ WF_vars(MainStep)
  /\ \A w \in Workers : WF_vars(Worker(w))

Spec == Init /\ [][Next]_vars /\ Fairness
=============================================================================
