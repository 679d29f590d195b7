---------------------------- MODULE JobLifecycle ----------------------------
(***************************************************************************)
(* What the asynchronous queue promises about one webhook job, whatever    *)
(* its channels, workers and retry goroutines do: a job is accepted once,  *)
(* runs in one place at a time, runs at most MaxRetries + 1 times, and     *)
(* never runs again once it is over.                                       *)
(***************************************************************************)
EXTENDS Integers

CONSTANTS Jobs, MaxRetries

VARIABLES phase, runs

lifeVars == <<phase, runs>>

Phases == {"new", "waiting", "running", "over"}

Become(j, p) == phase' = [phase EXCEPT ![j] = p]

Init ==
  /\ phase = [j \in Jobs |-> "new"]
  /\ runs = [j \in Jobs |-> 0]

Accept(j) == phase[j] = "new" /\ Become(j, "waiting") /\ UNCHANGED runs

Start(j) ==
  /\ phase[j] = "waiting"
  /\ runs[j] <= MaxRetries
  /\ Become(j, "running")
  /\ runs' = [runs EXCEPT ![j] = @ + 1]

\* A failed run is followed by another one only within the retry budget.
Requeue(j) ==
  /\ phase[j] = "running"
  /\ runs[j] <= MaxRetries
  /\ Become(j, "waiting")
  /\ UNCHANGED runs

Finish(j) == phase[j] = "running" /\ Become(j, "over") /\ UNCHANGED runs

\* A retry that finds no room, or finds the queue shut down, is lost.
Lose(j) == phase[j] = "waiting" /\ runs[j] > 0 /\ Become(j, "over") /\ UNCHANGED runs

Next == \E j \in Jobs : Accept(j) \/ Start(j) \/ Requeue(j) \/ Finish(j) \/ Lose(j)

Spec == Init /\ [][Next]_lifeVars
=============================================================================
