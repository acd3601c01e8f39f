------------------------------ MODULE WalkProps ------------------------------
(***************************************************************************)
(* What a routing algorithm has to guarantee on a topology.                *)
(***************************************************************************)
EXTENDS Walk

CONSTANTS
  Linked(_, _),      \* for (config, node): input buffers that its links lead to
  Distance(_, _, _), \* for (config, node, node): links on the shortest way
  MostHops(_),       \* for config: links on the longest way
  VirtualChannels,   \* numbers of the virtual channels of a buffer
  MaxRounds          \* bound of the deadlock analysis

\* A candidate is a virtual channel that exists, in a buffer at the end of a
\* link of the node where the packet is: otherwise the packet would leap through
\* the system, or vc_allocate would ask for a credit that does not exist.
CandidatesExist ==
  at # destination =>
    \A vc \in Range(Candidates) : vc[1] \in Linked(config, at) /\ vc[2] \in VirtualChannels

\* routing() asserts that there are candidates (system.cpp:79) until a packet
\* has arrived; and they exist.
CandidatesUsable == CandidatesExist /\ (at # destination => Candidates # <<>>)

\* Whatever channels are free, every hop brings the packet closer to its
\* destination, by one link: the routing algorithm is minimal.
Closer ==
  [][Distance(config, at', destination) = Distance(config, at, destination) - 1]_vars

\* Whatever channels are free, the packet gets there in so many hops: as it
\* always has a candidate before (the runs check for that), it arrives.
FewHops == hops <= MostHops(config)

-----------------------------------------------------------------------------
(* Deadlock.  A packet at the front of channel c keeps c until it gets one *)
(* of its candidates.  A set of channels can be blocked for ever if each   *)
(* of them may have a packet in front all of whose candidates are in the   *)
(* set.  Blocked is the largest such set: with every round it loses the    *)
(* channels out of which every packet has a way.                           *)

\* Channels that a packet from s to d may go on to from vc, to wait in front of them.
Out(a, s, d, vc) == {c \in Range(Route(a, s, d, vc)) : NodeOf(c) # d}

\* Channels in front of which packets from s to d may wait.
Visited(a, s, d) ==
  LET W[i \in Nat] ==
        IF i = 0 THEN Out(a, s, d, AtSource(s))
        ELSE LET V == W[i - 1] IN V \cup UNION {Out(a, s, d, vc) : vc \in V}
  IN W[MaxRounds]

\* Pairs of a channel and the candidates of a packet in front of it.
Waits(a) ==
  LET flows == {f \in Cores(a) \X Cores(a) : f[1] # f[2]}
  IN UNION {{<<vc, Range(Route(a, f[1], f[2], vc))>> : vc \in Visited(a, f[1], f[2])} : f \in flows}

Blocked ==
  [a \in Configs |->
    LET waits == Waits(a)
        B[i \in Nat] ==
          IF i = 0 THEN {w[1] : w \in waits}
          ELSE LET S == B[i - 1] IN {w[1] : w \in {v \in waits : v[1] \in S /\ v[2] \subseteq S}}
    IN B[4 * MaxRounds]]

\* No set of packets can wait for each other in a circle.
DeadlockFree == Blocked[config] = {}
=============================================================================
