--------------------------- MODULE MCSyncManager ---------------------------
(* Instances of SyncManager for TLC.                                       *)
EXTENDS SyncManager, TLC

CONSTANTS e1, e2, s1, s2

TwoEvents == {e1, e2}
TwoSummaries == {s1, s2}

Symmetric == Permutations(Events) \cup Permutations(Bases)
=============================================================================
