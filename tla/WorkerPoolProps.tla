--------------------------- MODULE WorkerPoolProps ---------------------------
(***************************************************************************)
(* What the barrier and the claim index of main.cpp have to guarantee.     *)
(***************************************************************************)
EXTENDS WorkerPool

\* Type invariant.  A packet is updated at most once in a cycle, so the
\* history counter never leaves {0, 1}.
TypeOK ==
  /\ pc \in [Threads -> MainLocations \cup WorkerLocations]
  /\ pc[Main] \in MainLocations
  /\ \A w \in Workers : pc[w] \in WorkerLocations
  /\ j \in 1 .. NThreads
  /\ mtx \in [Workers -> {"free", "main", "worker"}]
  /\ ready \in [Workers -> BOOLEAN]
  /\ launch \in [Workers -> BOOLEAN]
  /\ finished \in BOOLEAN
  /\ pktI \in Nat
  /\ size \in 0 .. MaxPackets
  /\ cur \in [Threads -> Nat]
  /\ lim \in [Threads -> Nat]
  /\ updated \in [Slots -> {0, 1}]
  /\ spurious \in 0 .. MaxSpurious

\* Locations where main reads or rewrites the vector, the links of the
\* network or the statistics, or updates packets itself.
Serial == {"gen", "release", "reset", "done"} \cup Updating

\* While main is in its serial part no worker is inside update_packets: the
\* packet vector, Buffer::release_in_link and delete are free of data races.
SerialPhaseExclusive ==
  pc[Main] \in Serial => \A w \in Workers : pc[w] \notin Updating

\* Indices a thread has claimed and not yet processed.
Claimed(t) == IF pc[t] = "update" THEN cur[t] .. lim[t] - 1 ELSE {}

\* The batches that two threads are working on never overlap.
ClaimsDisjoint ==
  \A t, u \in Threads : t # u => Claimed(t) \cap Claimed(u) = {}

\* When run_one_cycle has returned, every packet of the vector has been
\* updated, and none twice.
ExactlyOnce == At(Main, "gen") => \A p \in 0 .. size - 1 : updated[p] = 1

\* The pool implements the abstract cycle; with Fairness this includes that
\* every cycle that begins also ends.
CyclePhase ==
  CASE pc[Main] \in {"spawn", "awaitReady", "lock0", "gen", "release", "reset"} -> "serial"
    [] pc[Main] \in {"unlockEnd", "notifyEnd", "join", "done"} -> "done"
    [] OTHER -> "update"
CycleTodo ==
  IF CyclePhase = "update" THEN {p \in 0 .. size - 1 : updated[p] = 0} ELSE {}
AbstractCycle == INSTANCE Cycle WITH phase <- CyclePhase, todo <- CycleTodo
ImplementsCycle == AbstractCycle!Spec

\* Once main has set finished, every worker leaves its loop and the joins
\* return, wherever the workers were.
ShutdownCompletes == finished ~> At(Main, "done")
=============================================================================
