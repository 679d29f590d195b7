------------------------- MODULE MCServerLifecycle -------------------------
(* Instances of ServerLifecycle for TLC: two requests of one client to one *)
(* endpoint, and one of another.                                           *)
EXTENDS ServerLifecycle, TLC

CONSTANTS h1, h2, h3

ThreeHooks == {h1, h2, h3}
TwoLimiters == {"first", "second"}
HookLimiter == (h1 :> "first") @@ (h2 :> "first") @@ (h3 :> "second")
=============================================================================
