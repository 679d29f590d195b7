-------------------------- MODULE MCPriorityQueue --------------------------
(* Instances of PriorityQueue for TLC.                                     *)
EXTENDS PriorityQueue, TLC

CONSTANTS j1, j2, w1, w2

MCJobs2 == {j1, j2}
MCWorkers == {w1, w2}
MCOneWorker == {w1}
MCOneJob == {j1}

\* One slot per channel: two jobs of one priority already overflow it.
MCOneSlot == [p \in 0..1 |-> 1]
\* JobQueueSize < 8: the highest priority gets an unbuffered channel.
MCUnbufferedTop == [p \in 0..2 |-> IF p = 2 THEN 0 ELSE 1]

MCSymmetry == Permutations({j1, j2}) \cup Permutations({w1, w2})
=============================================================================
