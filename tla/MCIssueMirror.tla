--------------------------- MODULE MCIssueMirror ---------------------------
(* Instances of IssueMirror for TLC.                                       *)
EXTENDS IssueMirror

\* Three statuses in a ring; the names of two of the transitions say what
\* they are for.
MirrorWorkflow ==
  {[from |-> "Open",   word |-> "other", to |-> "Review"],
   [from |-> "Review", word |-> "close", to |-> "Done"],
   [from |-> "Done",   word |-> "open",  to |-> "Open"]}

KnownClosed == <<"Closed", "Done">>
KnownOpen == <<"Open", "To Do">>
=============================================================================
