------------------------------ MODULE Network ------------------------------
(***************************************************************************)
(* The packets and buffers of a running system: System::update and the     *)
(* serial loop of run_one_cycle, packet by packet, on any wiring and any   *)
(* routing function.                                                       *)
(*                                                                         *)
(* Between two serial phases every packet is updated once, in any order    *)
(* and up to Threads packets at a time (module Cycle).  Each access to a   *)
(* shared buffer is a step of its own; the operations of a buffer are one  *)
(* step each (module BufferSpec).  What a packet does with its own fields  *)
(* alone belongs to the step before or after.  Statistics (hop counters,   *)
(* trans_timer_, wait_timer_) feed nothing back into the network and are   *)
(* left out.                                                               *)
(***************************************************************************)
EXTENDS Fabric

CONSTANTS
  Length,           \* length_ of a packet
  Width, Latency,   \* the channel of a buffer
  BufferSize,       \* buffer_size_, in flits
  Params,           \* the parameters the program may be started with, see ParamType
  Threads           \* threads

\* router_stages_, processing_time, and the packets that the traffic generates
ParamType == [router_stages : {"OneStage", "TwoStage", "ThreeStage"},
              processing_time : Nat, packets : SUBSET Packets]

ASSUME NetworkAssumption ==
  /\ Params \subseteq ParamType
  /\ IsFiniteSet(Packets) /\ IsFiniteSet(Buffers) /\ NoBuffer \notin Buffers
  /\ BufferSize \in Nat
  /\ \A p \in Packets : Length[p] \in Nat \ {0} /\ Src[p] # Dst[p]
  /\ \A b \in Buffers : Width[b] \in Nat \ {0} /\ Latency[b] \in Nat

ASSUME RouteAssumption == RoutesLeadOn

VARIABLES
  param,      \* param
  phase,      \* "serial" (main alone) or "update"
  todo,       \* packets that this cycle has still to update
  status,     \* "new" (not generated yet), "live" or "gone" (deleted)
  trace,      \* flit_trace_: where each flit is; 1 is the head flit
  cand,       \* candidate_channels_
  next,       \* next_vc_, or Source if none is allocated
  switched,   \* switch_allocated_
  procTimer,  \* process_timer_
  linkTimer,  \* link_timer_
  finished,   \* finished_
  release,    \* releaselink_
  leaving,    \* leaving_vc_
  pc, k,      \* point reached in update(p), index of a loop over the candidates
  credit,     \* vc_buffer_ of each channel
  queue,      \* vc_head_packet followed by vc_queue_ of each channel
  inLink,     \* in_link_used_ of each buffer
  swLink      \* sw_link_used_ of each buffer

cycle == <<param, phase, todo, status>>
packet == <<trace, cand, next, switched, procTimer, linkTimer, finished, release, leaving>>
buffer == <<credit, queue, inLink, swLink>>
vars == <<cycle, packet, pc, k, buffer>>

HeadAt(p) == trace[p][1]
TailAt(p) == trace[p][Length[p]]
Live == {p \in Packets : status[p] = "live"}
Busy == {p \in Packets : pc[p] # "idle"}

Goto(p, l) == pc' = [pc EXCEPT ![p] = l]

Init ==
  /\ param \in Params
  /\ phase = "serial" /\ todo = {}
  /\ status = [p \in Packets |-> "new"]
  /\ trace = [p \in Packets |-> [i \in 1 .. Length[p] |-> Source]]
  /\ cand = [p \in Packets |-> <<>>]
  /\ next = [p \in Packets |-> Source]
  /\ switched = [p \in Packets |-> FALSE]
  /\ procTimer = [p \in Packets |-> param.processing_time]
  /\ linkTimer = [p \in Packets |-> 0]
  /\ finished = [p \in Packets |-> FALSE]
  /\ release = [p \in Packets |-> FALSE]
  /\ leaving = [p \in Packets |-> Source]
  /\ pc = [p \in Packets |-> "idle"]
  /\ k = [p \in Packets |-> 1]
  /\ credit = [c \in Channels |-> BufferSize]
  /\ queue = [c \in Channels |-> <<>>]
  /\ inLink = [b \in Buffers |-> FALSE]
  /\ swLink = [b \in Buffers |-> FALSE]

-----------------------------------------------------------------------------
(* The serial phase.                                                       *)

\* genMes appends a packet to the vector.
Generate(p) ==
  /\ phase = "serial"
  /\ p \in param.packets /\ status[p] = "new"
  /\ status' = [status EXCEPT ![p] = "live"]
  /\ UNCHANGED <<param, phase, todo, packet, pc, k, buffer>>

\* Mutant: the switch link behind the tail is not released.
ReleaseLinksKeepsSwitch ==
  LET R == {p \in Live : release[p]} IN
  /\ phase = "serial"
  /\ inLink' = [b \in Buffers |-> inLink[b] /\ \A p \in R : BufferOf(TailAt(p)) # b]
  /\ queue' = [c \in Channels |-> IF \E p \in R : leaving[p] = c
                                  THEN Tail(queue[c]) ELSE queue[c]]
  /\ release' = [p \in Packets |-> FALSE]
  /\ status' = [p \in Packets |-> IF p \in Live /\ finished[p] THEN "gone" ELSE status[p]]
  /\ todo' = {p \in Live : ~finished[p]}
  /\ phase' = "update"
  /\ UNCHANGED <<param, trace, cand, next, switched, procTimer, linkTimer, finished, leaving,
                 pc, k, credit, swLink>>

\* Mutant: releaselink_ is not cleared.
ReleaseLinksAgain ==
  LET R == {p \in Live : release[p]} IN
  /\ phase = "serial"
  /\ inLink' = [b \in Buffers |-> inLink[b] /\ \A p \in R : BufferOf(TailAt(p)) # b]
  /\ queue' = [c \in Channels |-> IF \E p \in R : leaving[p] = c
                                  THEN Tail(queue[c]) ELSE queue[c]]
  /\ swLink' = [b \in Buffers |-> swLink[b] /\ \A p \in R : BufferOf(leaving[p]) # b]
  /\ status' = [p \in Packets |-> IF p \in Live /\ finished[p] THEN "gone" ELSE status[p]]
  /\ todo' = {p \in Live : ~finished[p]}
  /\ phase' = "update"
  /\ UNCHANGED <<param, trace, cand, next, switched, procTimer, linkTimer, finished, release,
                 leaving, pc, k, credit>>

\* The first loop of run_one_cycle.  A packet whose tail moved gives back the
\* link it came over and, unless it left its source, its place at the head of
\* the queue and the switch link behind; arrived packets are deleted.
ReleaseLinks ==
  LET R == {p \in Live : release[p]} IN
  /\ phase = "serial"
  /\ inLink' = [b \in Buffers |-> inLink[b] /\ \A p \in R : BufferOf(TailAt(p)) # b]
  /\ queue' = [c \in Channels |-> IF \E p \in R : leaving[p] = c
                                  THEN Tail(queue[c]) ELSE queue[c]]
  /\ swLink' = [b \in Buffers |-> swLink[b] /\ \A p \in R : BufferOf(leaving[p]) # b]
  /\ release' = [p \in Packets |-> FALSE]
  /\ status' = [p \in Packets |-> IF p \in Live /\ finished[p] THEN "gone" ELSE status[p]]
  /\ todo' = {p \in Live : ~finished[p]}
  /\ phase' = "update"
  /\ UNCHANGED <<param, trace, cand, next, switched, procTimer, linkTimer, finished, leaving,
                 pc, k, credit>>

\* The end of an injection rate: all packets are deleted, all buffers reset.
Reset ==
  /\ phase = "serial"
  /\ status' = [p \in Packets |-> IF p \in Live THEN "gone" ELSE status[p]]
  /\ credit' = [c \in Channels |-> BufferSize]
  /\ queue' = [c \in Channels |-> <<>>]
  /\ inLink' = [b \in Buffers |-> FALSE]
  /\ swLink' = [b \in Buffers |-> FALSE]
  /\ UNCHANGED <<param, phase, todo, packet, pc, k>>

-----------------------------------------------------------------------------
(* System::update of packet p, from its entry to the pipeline stage.       *)

AtSource(p) == HeadAt(p) = Source

\* The packet is at the front of the queue of the channel its head is in.
FrontOfQueue(p) == queue[HeadAt(p)] # <<>> /\ Head(queue[HeadAt(p)]) = p
MayAllocate(p) == AtSource(p) \/ FrontOfQueue(p)

\* The stage that onestage, twostage or Threestage runs in this cycle.
Stage(p) ==
  IF next[p] # Source THEN "switch"
  ELSE IF MayAllocate(p) /\ ~(param.router_stages = "ThreeStage" /\ cand[p] = <<>>) THEN "empty"
  ELSE "move"

Begin(p) ==
  /\ p \in todo
  /\ Cardinality(Busy) < Threads
  /\ todo' = todo \ {p}
  /\ IF NodeAt(p, HeadAt(p)) = Src[p] /\ procTimer[p] > 0
       THEN \* still being processed at the source
            /\ procTimer' = [procTimer EXCEPT ![p] = @ - 1]
            /\ UNCHANGED <<cand, linkTimer, pc>>
       ELSE IF linkTimer[p] = 0 /\ NodeAt(p, HeadAt(p)) # Dst[p]
       THEN /\ cand' = IF cand[p] = <<>>
                       THEN [cand EXCEPT ![p] = Route(p, HeadAt(p))]
                       ELSE cand
            /\ Goto(p, Stage(p))
            /\ UNCHANGED <<procTimer, linkTimer>>
       ELSE \* on the link, or draining into the destination
            /\ linkTimer' = [linkTimer EXCEPT ![p] = IF @ > 0 THEN @ - 1 ELSE 0]
            /\ Goto(p, "move")
            /\ UNCHANGED <<procTimer, cand>>
  /\ k' = [k EXCEPT ![p] = 1]
  /\ UNCHANGED <<param, phase, status, trace, next, switched, finished, release, leaving, buffer>>

-----------------------------------------------------------------------------
(* vc_allocate: the candidates that are empty first, then all of them.     *)

Candidate(p) == cand[p][k[p]]

\* The loop goes on with the next candidate, or to location l after the last.
NextCandidate(p, again, l) ==
  /\ Goto(p, IF k[p] < Len(cand[p]) THEN again ELSE l)
  /\ k' = [k EXCEPT ![p] = IF k[p] < Len(cand[p]) THEN k[p] + 1 ELSE 1]

\* Mutant: the credits are taken without a test.
TakeCandidateUntested(p) ==
  /\ credit' = [credit EXCEPT ![Candidate(p)] = @ - Length[p]]
  /\ next' = [next EXCEPT ![p] = Candidate(p)]
  /\ Goto(p, IF param.router_stages = "OneStage" THEN "switch" ELSE "move")
  /\ k' = [k EXCEPT ![p] = 1]

\* allocate_buffer succeeds; OneStage goes on to the switch in this cycle.
TakeCandidate(p) ==
  /\ credit[Candidate(p)] >= Length[p]
  /\ credit' = [credit EXCEPT ![Candidate(p)] = @ - Length[p]]
  /\ next' = [next EXCEPT ![p] = Candidate(p)]
  /\ Goto(p, IF param.router_stages = "OneStage" THEN "switch" ELSE "move")
  /\ k' = [k EXCEPT ![p] = 1]

\* is_empty, and then, in a step of its own, allocate_buffer.
IsEmpty(p) ==
  /\ pc[p] = "empty"
  /\ IF queue[Candidate(p)] = <<>>
       THEN Goto(p, "take") /\ UNCHANGED k
       ELSE NextCandidate(p, "empty", "any")
  /\ UNCHANGED <<cycle, packet, buffer>>

TakeEmpty(p) ==
  /\ pc[p] = "take"
  /\ \/ TakeCandidate(p)
     \/ /\ credit[Candidate(p)] < Length[p]
        /\ NextCandidate(p, "empty", "any")
        /\ UNCHANGED <<credit, next>>
  /\ UNCHANGED <<cycle, trace, cand, switched, procTimer, linkTimer, finished, release,
                 leaving, queue, inLink, swLink>>

TakeAny(p) ==
  /\ pc[p] = "any"
  /\ \/ TakeCandidate(p)
     \/ /\ credit[Candidate(p)] < Length[p]
        /\ NextCandidate(p, "any", "move")
        /\ UNCHANGED <<credit, next>>
  /\ UNCHANGED <<cycle, trace, cand, switched, procTimer, linkTimer, finished, release,
                 leaving, queue, inLink, swLink>>

-----------------------------------------------------------------------------
(* switch_allocate                                                         *)

AllocateSwLink(p) ==
  /\ pc[p] = "switch"
  /\ ~AtSource(p)
  /\ LET b == BufferOf(HeadAt(p)) IN
     IF FrontOfQueue(p) /\ ~swLink[b]
       THEN swLink' = [swLink EXCEPT ![b] = TRUE] /\ Goto(p, "inLink")
       ELSE Goto(p, "move") /\ UNCHANGED swLink
  /\ UNCHANGED <<cycle, packet, k, credit, queue, inLink>>

\* Mutant: the packet is also pushed to a queue of its destination.
AllocateInLinkPushes(p) ==
  LET b == BufferOf(next[p]) IN
  /\ pc[p] = "inLink" \/ (pc[p] = "switch" /\ AtSource(p))
  /\ IF inLink[b]
       THEN /\ Goto(p, IF AtSource(p) THEN "move" ELSE "giveBack")
            /\ UNCHANGED <<inLink, switched>>
       ELSE /\ inLink' = [inLink EXCEPT ![b] = TRUE]
            /\ switched' = [switched EXCEPT ![p] = TRUE]
            /\ Goto(p, "push")
  /\ UNCHANGED <<cycle, trace, cand, next, procTimer, linkTimer, finished, release, leaving,
                 k, credit, queue, swLink>>

\* A packet that is to stay in the next buffer is then pushed to its queue.
AllocateInLink(p) ==
  LET b == BufferOf(next[p]) IN
  /\ pc[p] = "inLink" \/ (pc[p] = "switch" /\ AtSource(p))
  /\ IF inLink[b]
       THEN /\ Goto(p, IF AtSource(p) THEN "move" ELSE "giveBack")
            /\ UNCHANGED <<inLink, switched>>
       ELSE /\ inLink' = [inLink EXCEPT ![b] = TRUE]
            /\ switched' = [switched EXCEPT ![p] = TRUE]
            /\ Goto(p, IF DownNode[b] # Dst[p] THEN "push" ELSE "move")
  /\ UNCHANGED <<cycle, trace, cand, next, procTimer, linkTimer, finished, release, leaving,
                 k, credit, queue, swLink>>

Push(p) ==
  /\ pc[p] = "push"
  /\ queue' = [queue EXCEPT ![next[p]] = Append(@, p)]
  /\ Goto(p, "move")
  /\ UNCHANGED <<cycle, packet, k, credit, inLink, swLink>>

\* Mutant: the switch link is kept for the next attempt.
GiveBackNothing(p) ==
  /\ pc[p] = "giveBack"
  /\ Goto(p, "move")
  /\ UNCHANGED <<cycle, packet, k, buffer>>

\* The input link behind was taken: the switch link is given back.
GiveBackSwLink(p) ==
  /\ pc[p] = "giveBack"
  /\ swLink' = [swLink EXCEPT ![BufferOf(HeadAt(p))] = FALSE]
  /\ Goto(p, "move")
  /\ UNCHANGED <<cycle, packet, k, credit, queue, inLink>>

-----------------------------------------------------------------------------
(* Transmission.  With f the old trace: the flits of each group that sits  *)
(* in one node advance into the channel the group before them was in, as   *)
(* many as the link is wide; the head advances only with a switch.         *)

\* First flit that is not where the head is; the ones from here on follow.
FirstBehind(p) ==
  LET behind == {i \in 1 .. Length[p] : NodeAt(p, trace[p][i]) # NodeAt(p, HeadAt(p))} IN
  IF behind = {} THEN Length[p] + 1 ELSE CHOOSE i \in behind : \A h \in behind : i <= h

\* First flit, not before flit first, of the group in one node that i is in.
GroupOf(p, i, first) ==
  CHOOSE g \in first .. i :
    /\ \A h \in g .. i : NodeAt(p, trace[p][h]) = NodeAt(p, trace[p][i])
    /\ g = first \/ NodeAt(p, trace[p][g - 1]) # NodeAt(p, trace[p][i])

\* Mutant: every group advances to where the head is.
MoveFlitsToHead(p) ==
  LET first == IF switched[p] THEN 1 ELSE FirstBehind(p)
      lead == IF switched[p] THEN next[p] ELSE HeadAt(p)
  IN [i \in 1 .. Length[p] |->
        IF i >= first /\ i - GroupOf(p, i, first) < Width[BufferOf(lead)]
        THEN lead ELSE trace[p][i]]

\* Mutant: one flit more than the link is wide.
MoveFlitsWide(p) ==
  LET first == IF switched[p] THEN 1 ELSE FirstBehind(p)
      lead == IF switched[p] THEN next[p] ELSE HeadAt(p)
      ahead(i) == LET g == GroupOf(p, i, first) IN IF g = first THEN lead ELSE trace[p][g - 1]
  IN [i \in 1 .. Length[p] |->
        IF i >= first /\ i - GroupOf(p, i, first) <= Width[BufferOf(ahead(i))]
        THEN ahead(i) ELSE trace[p][i]]

MoveFlits(p) ==
  LET first == IF switched[p] THEN 1 ELSE FirstBehind(p)
      lead == IF switched[p] THEN next[p] ELSE HeadAt(p)
      ahead(i) == LET g == GroupOf(p, i, first) IN IF g = first THEN lead ELSE trace[p][g - 1]
  IN [i \in 1 .. Length[p] |->
        IF i >= first /\ i - GroupOf(p, i, first) < Width[BufferOf(ahead(i))]
        THEN ahead(i) ELSE trace[p][i]]

Move(p) ==
  LET f == MoveFlits(p)
      old == TailAt(p)
      new == f[Length[p]]
      timer == IF switched[p] THEN Latency[BufferOf(next[p])] ELSE linkTimer[p]
      tailMoves == NodeAt(p, new) # NodeAt(p, old)
  IN
  /\ pc[p] = "move"
  /\ trace' = [trace EXCEPT ![p] = f]
  /\ linkTimer' = [linkTimer EXCEPT ![p] = timer]
  /\ cand' = IF switched[p] THEN [cand EXCEPT ![p] = <<>>] ELSE cand
  /\ next' = IF switched[p] THEN [next EXCEPT ![p] = Source] ELSE next
  /\ switched' = [switched EXCEPT ![p] = FALSE]
  /\ release' = IF tailMoves THEN [release EXCEPT ![p] = TRUE] ELSE release
  /\ leaving' = IF tailMoves THEN [leaving EXCEPT ![p] = old] ELSE leaving
  /\ credit' = IF tailMoves /\ old # Source
               THEN [credit EXCEPT ![old] = @ + Length[p]] ELSE credit
  /\ Goto(p, IF timer = 0 /\ NodeAt(p, new) = Dst[p] THEN "arrive" ELSE "idle")
  /\ UNCHANGED <<cycle, procTimer, finished, k, queue, inLink, swLink>>

\* Mutant: the room in the destination is not given back.
ArriveKeepsRoom(p) ==
  /\ pc[p] = "arrive"
  /\ finished' = [finished EXCEPT ![p] = TRUE]
  /\ Goto(p, "idle")
  /\ UNCHANGED <<cycle, trace, cand, next, switched, procTimer, linkTimer, release, leaving,
                 k, buffer>>

\* The tail is in the destination: its room there is free again.
Arrive(p) ==
  /\ pc[p] = "arrive"
  /\ credit' = [credit EXCEPT ![TailAt(p)] = @ + Length[p]]
  /\ finished' = [finished EXCEPT ![p] = TRUE]
  /\ Goto(p, "idle")
  /\ UNCHANGED <<cycle, trace, cand, next, switched, procTimer, linkTimer, release, leaving,
                 k, queue, inLink, swLink>>

EndCycle ==
  /\ phase = "update"
  /\ todo = {} /\ Busy = {}
  /\ phase' = "serial"
  /\ UNCHANGED <<param, todo, status, packet, pc, k, buffer>>

-----------------------------------------------------------------------------
Update(p) ==
  \/ Begin(p) \/ IsEmpty(p) \/ TakeEmpty(p) \/ TakeAny(p)
  \/ AllocateSwLink(p) \/ AllocateInLink(p) \/ Push(p) \/ GiveBackSwLink(p)
  \/ Move(p) \/ Arrive(p)

Next ==
  \/ ReleaseLinks \/ Reset \/ EndCycle
  \/ \E p \in Packets : Generate(p) \/ Update(p)

\* Main keeps running cycles and every thread goes on with its packets; what
\* is generated and when a rate ends is the workload's choice.
Fairness ==
  /\ WF_vars(ReleaseLinks)
  /\ WF_vars(EndCycle)
  /\ \A p \in Packets : WF_vars(Update(p))

Spec == Init /\ [][Next]_vars /\ Fairness
=============================================================================
