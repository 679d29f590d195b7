----------------------------- MODULE WorkerPool -----------------------------
(***************************************************************************)
(* The goroutines of internal/async/priority_worker_pool.go around         *)
(* statsMutex: the one that calls Start and Stop, the scaling monitor, and *)
(* the workers.  The queue is reduced to the number of jobs in it; what    *)
(* happens to a job in it is PriorityQueue's business.                     *)
(*                                                                         *)
(* statsMutex is a Go mutex: not re-entrant, and free only when no         *)
(* goroutine holds it.  Critical sections that take nothing else are one   *)
(* step; ScaleUp, which calls createWorker inside its own, is not.         *)
(* ScaleDown is left out: it needs more than MinWorkers workers, and none  *)
(* is ever added to the MinWorkers that Start creates.                     *)
(***************************************************************************)
EXTENDS Integers, FiniteSets

CONSTANTS
  Workers,     \* the worker goroutines there may be
  MinWorkers,  \* config.MinWorkers
  MaxWorkers,  \* config.MaxWorkers
  ScaleUpAt,   \* JobQueueSize / workerScaleUpDivisor
  MaxBacklog   \* bound: jobs in the queue at a time

ASSUME PoolAssumption ==
  /\ IsFiniteSet(Workers)
  /\ MinWorkers \in Nat \ {0}
  /\ MaxWorkers \in Nat
  /\ MinWorkers <= Cardinality(Workers) /\ MaxWorkers <= Cardinality(Workers)
  /\ ScaleUpAt \in Nat /\ MaxBacklog \in Nat

Main == "main"
Monitor == "monitor"
Nobody == "nobody"

ASSUME GoroutineAssumption == {Main, Monitor, Nobody} \cap Workers = {}

Goroutines == Workers \cup {Main, Monitor}

VARIABLES
  backlog,  \* PendingJobs of the queue
  pc,       \* where each goroutine is
  workers,  \* pwp.workers
  wg,       \* the counter of pwp.wg
  owner,    \* who holds statsMutex
  frozen    \* history: jobs taken since the monitor holds statsMutex

vars == <<backlog, pc, workers, wg, owner, frozen>>

Free == owner = Nobody
Cancelled == pc[Main] \in {"joining", "reporting", "stopped"}

Init ==
  /\ backlog = 0
  /\ pc = [g \in Goroutines |-> IF g = Main THEN "creating" ELSE "none"]
  /\ workers = {}
  /\ wg = 0
  /\ owner = Nobody
  /\ frozen = 0

-----------------------------------------------------------------------------
(* createWorker, called by Start and by ScaleUp                            *)

\* The caller appends the worker to the slice and starts its goroutine.
\* Start goes on until there are MinWorkers and then starts the monitor;
\* ScaleUp returns, and its deferred Unlock runs.
CreateWorkerUncounted(g) ==
  /\ pc[g] = "creating"
  /\ Free
  /\ \E w \in Workers :
       /\ pc[w] = "none"
       /\ workers' = workers \cup {w}
       /\ pc' = [pc EXCEPT ![w] = "idle",
                   ![Main] = IF g = Main /\ Cardinality(workers') >= MinWorkers THEN "running" ELSE @,
                   ![Monitor] = IF Cardinality(workers') >= MinWorkers THEN "ticking" ELSE @]
  /\ wg' = IF wg = 0 THEN 1 ELSE wg
  /\ UNCHANGED <<backlog, owner, frozen>>

CreateWorker(g) ==
  /\ pc[g] = "creating"
  /\ Free
  /\ \E w \in Workers :
       /\ pc[w] = "none"
       /\ workers' = workers \cup {w}
       /\ pc' = [pc EXCEPT ![w] = "idle",
                   ![Main] = IF g = Main /\ Cardinality(workers') >= MinWorkers THEN "running" ELSE @,
                   ![Monitor] = IF Cardinality(workers') >= MinWorkers THEN "ticking" ELSE @]
  /\ wg' = wg + 1
  /\ UNCHANGED <<backlog, owner, frozen>>

-----------------------------------------------------------------------------
(* The scaling monitor                                                     *)

\* checkScaling takes its numbers from GetStats, which reads under the
\* mutex.  The ticker may win over the cancelled context in select.
CheckScaling ==
  /\ pc[Monitor] = "ticking"
  /\ Free
  /\ backlog > ScaleUpAt
  /\ Cardinality(workers) < MaxWorkers
  /\ pc' = [pc EXCEPT ![Monitor] = "scaling"]
  /\ UNCHANGED <<backlog, workers, wg, owner, frozen>>

\* ScaleUp locks statsMutex and calls createWorker.
ScaleUp ==
  /\ pc[Monitor] = "scaling"
  /\ Free
  /\ owner' = Monitor
  /\ pc' = [pc EXCEPT ![Monitor] = "creating"]
  /\ UNCHANGED <<backlog, workers, wg, frozen>>

MonitorExit ==
  /\ pc[Monitor] = "ticking"
  /\ Cancelled
  /\ pc' = [pc EXCEPT ![Monitor] = "exited"]
  /\ UNCHANGED <<backlog, workers, wg, owner, frozen>>

-----------------------------------------------------------------------------
(* The workers                                                             *)

\* The top of the loop saw the context alive; GetJob is called.
LookUnchecked(w) ==
  /\ pc[w] = "idle"
  /\ pc' = [pc EXCEPT ![w] = "looking"]
  /\ UNCHANGED <<backlog, workers, wg, owner, frozen>>

Look(w) ==
  /\ pc[w] = "idle"
  /\ ~Cancelled
  /\ pc' = [pc EXCEPT ![w] = "looking"]
  /\ UNCHANGED <<backlog, workers, wg, owner, frozen>>

\* "no jobs available": the worker sleeps and goes back to the top.
FindNone(w) ==
  /\ pc[w] = "looking"
  /\ backlog = 0
  /\ pc' = [pc EXCEPT ![w] = "idle"]
  /\ UNCHANGED <<backlog, workers, wg, owner, frozen>>

TakeJob(w) ==
  /\ pc[w] = "looking"
  /\ backlog > 0
  /\ backlog' = backlog - 1
  /\ pc' = [pc EXCEPT ![w] = "busy"]
  /\ frozen' = IF Free THEN frozen ELSE frozen + 1
  /\ UNCHANGED <<workers, wg, owner>>

\* The handler and CompleteJob are done.
FinishJob(w) ==
  /\ pc[w] = "busy"
  /\ pc' = [pc EXCEPT ![w] = "counting"]
  /\ UNCHANGED <<backlog, workers, wg, owner, frozen>>

UpdateStatsUnlocked(w) ==
  /\ pc[w] = "counting"
  /\ pc' = [pc EXCEPT ![w] = "idle"]
  /\ UNCHANGED <<backlog, workers, wg, owner, frozen>>

UpdateStatsKeepsLock(w) ==
  /\ pc[w] = "counting"
  /\ Free
  /\ pc' = [pc EXCEPT ![w] = "idle"]
  /\ owner' = w
  /\ UNCHANGED <<backlog, workers, wg, frozen>>

\* updateStats locks statsMutex and unlocks it when it returns.
UpdateStats(w) ==
  /\ pc[w] = "counting"
  /\ Free
  /\ pc' = [pc EXCEPT ![w] = "idle"]
  /\ UNCHANGED <<backlog, workers, wg, owner, frozen>>

WorkerExitSilent(w) ==
  /\ pc[w] = "idle"
  /\ Cancelled
  /\ pc' = [pc EXCEPT ![w] = "exited"]
  /\ UNCHANGED <<backlog, workers, wg, owner, frozen>>

\* The worker sees its context done and leaves through defer wg.Done().
WorkerExit(w) ==
  /\ pc[w] = "idle"
  /\ Cancelled
  /\ pc' = [pc EXCEPT ![w] = "exited"]
  /\ wg' = wg - 1
  /\ UNCHANGED <<backlog, workers, owner, frozen>>

-----------------------------------------------------------------------------
(* Stop, and the callers of SubmitJob                                      *)

Cancel ==
  /\ pc[Main] = "running"
  /\ pc' = [pc EXCEPT ![Main] = "joining"]
  /\ UNCHANGED <<backlog, workers, wg, owner, frozen>>

\* wg.Wait() returns; the queues are shut down.
Join ==
  /\ pc[Main] = "joining"
  /\ wg = 0
  /\ pc' = [pc EXCEPT ![Main] = "reporting"]
  /\ UNCHANGED <<backlog, workers, wg, owner, frozen>>

\* The final GetStats.
Report ==
  /\ pc[Main] = "reporting"
  /\ Free
  /\ pc' = [pc EXCEPT ![Main] = "stopped"]
  /\ UNCHANGED <<backlog, workers, wg, owner, frozen>>

\* A caller or a retry puts a job into the queue.
SubmitJob ==
  /\ backlog < MaxBacklog
  /\ backlog' = backlog + 1
  /\ UNCHANGED <<pc, workers, wg, owner, frozen>>

-----------------------------------------------------------------------------
WorkerStep(w) ==
  \/ Look(w) \/ FindNone(w) \/ TakeJob(w)
  \/ FinishJob(w) \/ UpdateStats(w) \/ WorkerExit(w)
MonitorStep == CreateWorker(Monitor) \/ CheckScaling \/ ScaleUp \/ MonitorExit
MainStep == CreateWorker(Main) \/ Join \/ Report

Next ==
  \/ \E w \in Workers : WorkerStep(w)
  \/ \E g \in {Main, Monitor} : CreateWorker(g)
  \/ CheckScaling \/ ScaleUp \/ MonitorExit
  \/ Join \/ Report \/ Cancel \/ SubmitJob

Spec == Init /\ [][Next]_vars

\* The Go scheduler runs every goroutine that can run and the ticker fires;
\* handlers return.  Nobody has to submit jobs or to stop the pool.
Fairness ==
  /\ \A w \in Workers : WF_vars(WorkerStep(w))
  /\ WF_vars(MonitorStep)
  /\ WF_vars(MainStep)

FairSpec == Spec /\ Fairness

-----------------------------------------------------------------------------
(* Properties                                                              *)

TypeOK ==
  /\ backlog \in 0..MaxBacklog
  /\ pc \in [Goroutines -> {"none", "idle", "looking", "busy", "counting", "exited", "creating",
                            "running", "ticking", "scaling", "joining", "reporting",
                            "stopped"}]
  /\ workers \in SUBSET Workers
  /\ wg \in Nat
  /\ owner \in Goroutines \cup {Nobody}
  /\ frozen \in Nat

\* When wg.Wait() has returned no worker runs: the queues are shut down
\* under nobody's feet.
StoppedQuiet ==
  pc[Main] \in {"reporting", "stopped"} =>
    \A w \in Workers : pc[w] \in {"none", "exited"}

\* Once ScaleUp waits in createWorker for the mutex it holds, every worker
\* takes at most one more job: after it, updateStats blocks.
OneMoreJob ==
  frozen <= Cardinality({w \in Workers : pc[w] \in {"busy", "counting"}})

\* docs/architecture/async-processing.md:73 "Memory control, timeouts,
\* deadlock protection": a worker that is done with a job gets back to its
\* loop.
WorkersComeBack == \A w \in Workers : pc[w] = "counting" ~> pc[w] = "idle"

\* Stop returns.
StopReturns == pc[Main] = "joining" ~> pc[Main] = "stopped"

\* It is only the monitor that can hang them: while it stays out of ScaleUp,
\* every worker comes back from every job and Stop returns.
Unscaled == [](owner # Monitor)

UnscaledComeBack == Unscaled => WorkersComeBack
UnscaledStops == Unscaled => StopReturns

\* While ScaleUp is not called, workers and Stop both get on.
UnscaledLives == UnscaledComeBack /\ UnscaledStops
=============================================================================
