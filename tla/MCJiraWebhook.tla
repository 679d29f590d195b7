--------------------------- MODULE MCJiraWebhook ---------------------------
(* Instances of JiraWebhook for TLC.                                       *)
EXTENDS JiraWebhook, TLC

CONSTANTS d1, d2, d3, k1, k2, b1, b2, b3, i1

Three == {d1, d2, d3}
TwoKeys == {k1, k2}
ThreeBodies == {b1, b2, b3}

\* An issue is created, then updated twice within a millisecond: the updates
\* have one key, the creation its own.
SomeShared == (d1 :> k1) @@ (d2 :> k2) @@ (d3 :> k2)
OwnBodies == (d1 :> b1) @@ (d2 :> b2) @@ (d3 :> b3)
Lifecycle == (b1 :> "create") @@ (b2 :> "update") @@ (b3 :> "update")

OneIssue == [b \in ThreeBodies |-> i1]
=============================================================================
