--------------------------- MODULE PriorityQueue ---------------------------
(***************************************************************************)
(* The priority job queue of internal/async/queue.go together with the     *)
(* goroutines that use it: the callers of SubmitJob (one per job), the     *)
(* worker goroutines of internal/async/priority_worker_pool.go, and the    *)
(* goroutines scheduleRetry spawns.                                        *)
(*                                                                         *)
(* Every job has at most one caller and one retry goroutine per retry      *)
(* number, so the program counters of those goroutines are functions of    *)
(* the job.  A send or receive on a channel and the updateStats call that  *)
(* follows it are separate steps: the queue's statsMutex covers only the   *)
(* latter.  The pool has a statsMutex of its own.  Each of its critical    *)
(* sections is one step but ScaleUp's, which never ends: createWorker      *)
(* locks the mutex again.  WorkerPool shows that step by step.             *)
(***************************************************************************)
EXTENDS Integers, Sequences, FiniteSets

CONSTANTS
  Jobs,         \* the jobs that may be submitted
  Workers,      \* the worker goroutines
  MaxPriority,  \* priorities are 0..MaxPriority (PriorityCritical = 3 in the code)
  Capacity,     \* capacity of the channel of each priority
  MaxRetries,   \* config.MaxRetries
  MaxWorkers,   \* config.MaxWorkers; MinWorkers is the number of workers
  ScaleUpAt     \* JobQueueSize / workerScaleUpDivisor

Priorities == 0..MaxPriority

ASSUME QueueAssumption ==
  /\ MaxPriority \in Nat
  /\ Capacity \in [Priorities -> Nat]
  /\ MaxRetries \in Nat
  /\ MaxWorkers \in Nat /\ ScaleUpAt \in Nat

ASSUME FiniteAssumption == IsFiniteSet(Jobs) /\ IsFiniteSet(Workers)

NoJob == "no job"

ASSUME NoJobAssumption == NoJob \notin Jobs

VARIABLES
  chan,      \* chan[p]: the buffered channel of priority p, a FIFO of jobs
  priority,  \* job.Priority
  retries,   \* job.RetryCount
  ctx,       \* job.ctx.Err(): "live", "deadline" or "canceled"
  caller,    \* where the goroutine that submits the job is in SubmitJob
  retrier,   \* retrier[j][n]: where the goroutine of the n-th retry of j is
  worker,    \* where the worker is in its loop
  held,      \* the job the worker works on, or NoJob
  cursor,    \* the priority the worker's GetJob scan looks at next; FirstScanned
             \* outside a scan
  failed,    \* whether the handler returned an error to the worker
  stats,     \* the gauges and counters of QueueStats
  stop,      \* progress of PriorityWorkerPool.Stop: "up", "stopping", "down"
             \* (the queue is shut down), "returned"
  scaler,    \* the scaling monitor: "watching", "scaling", or "stuck" in
             \* ScaleUp, with the pool's statsMutex locked
  runs,      \* history: how often the handler of the job was started
  overdue    \* history: jobs queued since the worker's scan began

vars == <<chan, priority, retries, ctx, caller, retrier, worker, held, cursor,
          failed, stats, stop, scaler, runs, overdue>>

jobVars    == <<priority, retries, ctx>>
workerVars == <<worker, held, cursor, failed>>

CallerStates  == {"idle", "sending", "sent", "accepted", "refused"}
RetrierStates == {"none", "waiting", "awake", "sent", "counted", "abandoned",
                  "dropped"}
WorkerStates  == {"idle", "scan", "taken", "run", "returned", "failed",
                  "closing", "counting", "exited"}
RetryNumbers  == 1..MaxRetries

-----------------------------------------------------------------------------
(* Where a job is                                                          *)

Waiting(p) == {chan[p][i] : i \in DOMAIN chan[p]}
Queued == UNION {Waiting(p) : p \in Priorities}

HasRoomOffByOne(p) == Len(chan[p]) <= Capacity[p]
HasRoom(p) == Len(chan[p]) < Capacity[p]

\* A worker holds its job until it has decided whether to retry it; from
\* "closing" on it only records the attempt and releases the context.
Holding == {w \in Workers : worker[w] \in {"taken", "run", "returned", "failed"}}

Retrying(j) == \E n \in RetryNumbers : retrier[j][n] \in {"waiting", "awake"}

Sent(j) == caller[j] \in {"sent", "accepted"}

Settled(j) ==
  /\ Sent(j)
  /\ j \notin Queued
  /\ \A w \in Holding : held[w] # j
  /\ ~Retrying(j)

-----------------------------------------------------------------------------
(* updateStats, one operator per action string                             *)

Add(s, field, d) == [s EXCEPT ![field] = @ + d]

OnSubmitted(s)      == Add(Add(s, "total", 1), "pending", 1)
OnProcessing(s)     == Add(Add(s, "pending", -1), "processing", 1)
OnCompleted(s)      == Add(Add(s, "processing", -1), "completed", 1)
OnFailedLeaks(s)    == Add(s, "failed", 1)
OnFailed(s)         == Add(Add(s, "processing", -1), "failed", 1)
OnRetryScheduled(s) == Add(s, "retrying", 1)
OnRetryFailedSilent(s) == Add(s, "retrying", -1)
OnRetryFailed(s)    == Add(Add(s, "retrying", -1), "failed", 1)

-----------------------------------------------------------------------------
(* The scan of GetJob: Critical -> High -> Normal -> Low                   *)

FirstScannedLow == 0
FirstScanned == MaxPriority

MoreToScanOffByOne(p) == p > 1
MoreToScan(p) == p > 0

\* The worker loop leaves when the pool context is done.
PoolAliveUnchecked == TRUE
PoolAlive == stop = "up"

QueueDown == stop \in {"down", "returned"}

\* Who locks the pool's statsMutex gets it.
PoolFree == scaler # "stuck"

\* job.cancel() does nothing to a context that is over already.
CancelForgotten(c) == c
Cancel(c) == IF c = "live" THEN "canceled" ELSE c

-----------------------------------------------------------------------------
Init ==
  /\ chan = [p \in Priorities |-> <<>>]
  /\ priority = [j \in Jobs |-> 0]
  /\ retries = [j \in Jobs |-> 0]
  /\ ctx = [j \in Jobs |-> "live"]
  /\ caller = [j \in Jobs |-> "idle"]
  /\ retrier = [j \in Jobs |-> [n \in RetryNumbers |-> "none"]]
  /\ worker = [w \in Workers |-> "idle"]
  /\ held = [w \in Workers |-> NoJob]
  /\ cursor = [w \in Workers |-> FirstScanned]
  /\ failed = [w \in Workers |-> FALSE]
  /\ stats = [total |-> 0, pending |-> 0, processing |-> 0,
              completed |-> 0, failed |-> 0, retrying |-> 0]
  /\ stop = "up"
  /\ scaler = "watching"
  /\ runs = [j \in Jobs |-> 0]
  /\ overdue = [w \in Workers |-> {}]

-----------------------------------------------------------------------------
(* SubmitJob                                                               *)

\* The decider (or the override) fixes the priority and the job is created
\* with a context derived from the queue's.
SubmitBegin(j, p) ==
  /\ caller[j] = "idle"
  /\ priority' = [priority EXCEPT ![j] = p]
  /\ ctx' = [ctx EXCEPT ![j] = IF QueueDown THEN "canceled" ELSE "live"]
  /\ caller' = [caller EXCEPT ![j] = "sending"]
  /\ UNCHANGED <<chan, retries, retrier, workerVars, stats, stop, scaler, runs, overdue>>

\* case queue.jobs <- job.  After Shutdown this case and the Done case are
\* both ready and select picks either.
SubmitSend(j) ==
  /\ caller[j] = "sending"
  /\ HasRoom(priority[j])
  /\ chan' = [chan EXCEPT ![priority[j]] = Append(@, j)]
  /\ caller' = [caller EXCEPT ![j] = "sent"]
  /\ UNCHANGED <<jobVars, retrier, workerVars, stats, stop, scaler, runs, overdue>>

SubmitCount(j) ==
  /\ caller[j] = "sent"
  /\ stats' = OnSubmitted(stats)
  /\ caller' = [caller EXCEPT ![j] = "accepted"]
  /\ UNCHANGED <<chan, jobVars, retrier, workerVars, stop, scaler, runs, overdue>>

\* The QueueTimeoutMs timer fires on a sender parked on a full channel, or
\* the queue context is done.
SubmitRefused(j) ==
  /\ caller[j] = "sending"
  /\ ~HasRoom(priority[j]) \/ QueueDown
  /\ caller' = [caller EXCEPT ![j] = "refused"]
  /\ UNCHANGED <<chan, jobVars, retrier, workerVars, stats, stop, scaler, runs, overdue>>

-----------------------------------------------------------------------------
(* GetJob, called by the worker loop                                       *)

\* The loop saw the pool context alive and enters GetJob, which saw the
\* queue context alive: the scan starts at the highest priority.
StartScan(w) ==
  /\ worker[w] = "idle"
  /\ PoolAlive
  /\ worker' = [worker EXCEPT ![w] = "scan"]
  /\ overdue' = [overdue EXCEPT ![w] = Queued]
  /\ UNCHANGED <<chan, jobVars, caller, retrier, held, cursor, failed, stats, stop, scaler, runs>>

\* What taking job j does: the worker holds it and nobody waits for it.
Takes(w, j) ==
  /\ worker' = [worker EXCEPT ![w] = "taken"]
  /\ held' = [held EXCEPT ![w] = j]
  /\ cursor' = [cursor EXCEPT ![w] = FirstScanned]
  /\ overdue' = [v \in Workers |-> IF v = w THEN {} ELSE overdue[v] \ {j}]
  /\ UNCHANGED <<jobVars, retrier, failed, stats, stop, scaler, runs>>

TakePeeks(w) ==
  /\ worker[w] = "scan"
  /\ chan[cursor[w]] # <<>>
  /\ Takes(w, Head(chan[cursor[w]]))
  /\ UNCHANGED <<chan, caller>>

\* case job := <-queue.jobs on a buffered channel.
Take(w) ==
  /\ worker[w] = "scan"
  /\ chan[cursor[w]] # <<>>
  /\ Takes(w, Head(chan[cursor[w]]))
  /\ chan' = [chan EXCEPT ![cursor[w]] = Tail(@)]
  /\ UNCHANGED caller

\* The same receive on an unbuffered channel (JobQueueSize / divisor = 0)
\* takes the job straight from a parked sender.
TakeParked(w, j) ==
  /\ worker[w] = "scan"
  /\ Capacity[cursor[w]] = 0
  /\ caller[j] = "sending"
  /\ priority[j] = cursor[w]
  /\ Takes(w, j)
  /\ caller' = [caller EXCEPT ![j] = "sent"]
  /\ UNCHANGED chan

\* default: this queue is empty, try the next priority; after the lowest one
\* GetJob returns "no jobs available" and the worker sleeps.
SkipEmpty(w) ==
  /\ worker[w] = "scan"
  /\ chan[cursor[w]] = <<>>
  /\ IF MoreToScan(cursor[w])
       THEN /\ cursor' = [cursor EXCEPT ![w] = @ - 1]
            /\ UNCHANGED <<worker, overdue>>
       ELSE /\ worker' = [worker EXCEPT ![w] = "idle"]
            /\ overdue' = [overdue EXCEPT ![w] = {}]
            /\ cursor' = [cursor EXCEPT ![w] = FirstScanned]
  /\ UNCHANGED <<chan, jobVars, caller, retrier, held, failed, stats, stop, scaler, runs>>

\* updateStats "processing"; GetJob returns and the handler is started.
CountProcessing(w) ==
  /\ worker[w] = "taken"
  /\ stats' = OnProcessing(stats)
  /\ worker' = [worker EXCEPT ![w] = "run"]
  /\ runs' = [runs EXCEPT ![held[w]] = @ + 1]
  /\ UNCHANGED <<chan, jobVars, caller, retrier, held, cursor, failed, stop, scaler, overdue>>

\* The middleware chain returns; any outcome is possible whatever the
\* state of the context.
HandlerReturns(w) ==
  /\ worker[w] = "run"
  /\ \E err \in BOOLEAN : failed' = [failed EXCEPT ![w] = err]
  /\ worker' = [worker EXCEPT ![w] = "returned"]
  /\ UNCHANGED <<chan, jobVars, caller, retrier, held, cursor, stats, stop, scaler, runs, overdue>>

-----------------------------------------------------------------------------
(* CompleteJob                                                             *)

CountCompleted(w) ==
  /\ worker[w] = "returned"
  /\ ~failed[w]
  /\ stats' = OnCompleted(stats)
  /\ worker' = [worker EXCEPT ![w] = "closing"]
  /\ UNCHANGED <<chan, jobVars, caller, retrier, held, cursor, failed, stop, scaler, runs, overdue>>

CountFailed(w) ==
  /\ worker[w] = "returned"
  /\ failed[w]
  /\ stats' = OnFailed(stats)
  /\ worker' = [worker EXCEPT ![w] = "failed"]
  /\ UNCHANGED <<chan, jobVars, caller, retrier, held, cursor, failed, stop, scaler, runs, overdue>>

\* job.RetryCount < job.MaxRetries && job.ctx.Err() != context.Canceled
MayRetryOffByOne(j) == retries[j] <= MaxRetries /\ ctx[j] # "canceled"
MayRetry(j) == retries[j] < MaxRetries /\ ctx[j] # "canceled"

RetryUncounted(w) ==
  LET j == held[w] IN
  /\ worker[w] = "failed"
  /\ MayRetry(j)
  /\ retrier' = [retrier EXCEPT ![j][retries[j] + 1] = "waiting"]
  /\ worker' = [worker EXCEPT ![w] = "closing"]
  /\ UNCHANGED <<chan, jobVars, caller, held, cursor, failed, stats, stop, scaler, runs, overdue>>

\* RetryCount is incremented and the retry goroutine spawned.
Retry(w) ==
  LET j == held[w] IN
  /\ worker[w] = "failed"
  /\ MayRetry(j)
  /\ retries' = [retries EXCEPT ![j] = @ + 1]
  /\ retrier' = [retrier EXCEPT ![j][retries[j] + 1] = "waiting"]
  /\ worker' = [worker EXCEPT ![w] = "closing"]
  /\ UNCHANGED <<chan, priority, ctx, caller, held, cursor, failed, stats, stop, scaler, runs, overdue>>

GiveUp(w) ==
  /\ worker[w] = "failed"
  /\ ~MayRetry(held[w])
  /\ worker' = [worker EXCEPT ![w] = "closing"]
  /\ UNCHANGED <<chan, jobVars, caller, retrier, held, cursor, failed, stats, stop, scaler, runs, overdue>>

\* CompleteJob ends with job.cancel(), after the retry goroutine was
\* started.
Close(w) ==
  /\ worker[w] = "closing"
  /\ ctx' = [ctx EXCEPT ![held[w]] = Cancel(@)]
  /\ worker' = [worker EXCEPT ![w] = "counting"]
  /\ held' = [held EXCEPT ![w] = NoJob]
  /\ failed' = [failed EXCEPT ![w] = FALSE]
  /\ UNCHANGED <<chan, priority, retries, caller, retrier, cursor, stats, stop, scaler,
                 runs, overdue>>

\* The worker's updateStats, under the pool's statsMutex, is the last thing
\* processJob does before the worker is back in its loop.
UpdateStats(w) ==
  /\ worker[w] = "counting"
  /\ PoolFree
  /\ worker' = [worker EXCEPT ![w] = "idle"]
  /\ UNCHANGED <<chan, jobVars, caller, retrier, held, cursor, failed, stats, stop, scaler,
                 runs, overdue>>

-----------------------------------------------------------------------------
(* The scaling monitor                                                     *)

\* checkScaling reads the queue's gauges.  The ticker may win over the
\* context; a monitor that has left its loop is one that ticks no more.
CheckScaling ==
  /\ scaler = "watching"
  /\ stats.pending > ScaleUpAt
  /\ Cardinality(Workers) < MaxWorkers
  /\ scaler' = "scaling"
  /\ UNCHANGED <<chan, jobVars, caller, retrier, workerVars, stats, stop, runs, overdue>>

\* ScaleUp locks statsMutex and calls createWorker, which waits for it.
ScaleUp ==
  /\ scaler = "scaling"
  /\ scaler' = "stuck"
  /\ UNCHANGED <<chan, jobVars, caller, retrier, workerVars, stats, stop, runs, overdue>>

-----------------------------------------------------------------------------
(* scheduleRetry, after the backoff delay                                  *)

\* The goroutine wakes up and sees the queue running; the queue may be shut
\* down before the send below.
RetryWakes(j, n) ==
  /\ retrier[j][n] = "waiting"
  /\ ~QueueDown
  /\ retrier' = [retrier EXCEPT ![j][n] = "awake"]
  /\ UNCHANGED <<chan, jobVars, caller, workerVars, stats, stop, scaler, runs, overdue>>

Resend(j, n) ==
  /\ retrier[j][n] = "awake"
  /\ HasRoom(priority[j])
  /\ chan' = [chan EXCEPT ![priority[j]] = Append(@, j)]
  /\ retrier' = [retrier EXCEPT ![j][n] = "sent"]
  /\ UNCHANGED <<jobVars, caller, workerVars, stats, stop, scaler, runs, overdue>>

CountRetry(j, n) ==
  /\ retrier[j][n] = "sent"
  /\ stats' = OnRetryScheduled(stats)
  /\ retrier' = [retrier EXCEPT ![j][n] = "counted"]
  /\ UNCHANGED <<chan, jobVars, caller, workerVars, stop, scaler, runs, overdue>>

\* default: the channel is full.  The send does not wait, so on an
\* unbuffered channel it never succeeds: GetJob does not wait either.
RetryDropped(j, n) ==
  /\ retrier[j][n] = "awake"
  /\ ~HasRoom(priority[j])
  /\ stats' = OnRetryFailed(stats)
  /\ retrier' = [retrier EXCEPT ![j][n] = "dropped"]
  /\ UNCHANGED <<chan, jobVars, caller, workerVars, stop, scaler, runs, overdue>>

RetryAbandoned(j, n) ==
  /\ retrier[j][n] = "waiting"
  /\ QueueDown
  /\ retrier' = [retrier EXCEPT ![j][n] = "abandoned"]
  /\ UNCHANGED <<chan, jobVars, caller, workerVars, stats, stop, scaler, runs, overdue>>

-----------------------------------------------------------------------------
(* Contexts and shutdown                                                   *)

\* JobTimeoutSeconds counts from submission, whatever the job is doing; for
\* a refused job nobody looks at the context any more.
DeadlineExpires(j) ==
  /\ caller[j] \notin {"idle", "refused"}
  /\ ctx[j] = "live"
  /\ ctx' = [ctx EXCEPT ![j] = "deadline"]
  /\ UNCHANGED <<chan, priority, retries, caller, retrier, workerVars, stats, stop,
                 scaler, runs, overdue>>

\* PriorityWorkerPool.Stop cancels the pool context ...
StopBegin ==
  /\ stop = "up"
  /\ stop' = "stopping"
  /\ UNCHANGED <<chan, jobVars, caller, retrier, workerVars, stats, scaler, runs, overdue>>

WorkerExit(w) ==
  /\ worker[w] = "idle"
  /\ ~PoolAlive
  /\ worker' = [worker EXCEPT ![w] = "exited"]
  /\ UNCHANGED <<chan, jobVars, caller, retrier, held, cursor, failed, stats, stop,
                 scaler, runs, overdue>>

\* ... joins the workers and then shuts the queue down, which cancels the
\* context of every job.
Shutdown ==
  /\ stop = "stopping"
  /\ \A w \in Workers : worker[w] = "exited"
  /\ stop' = "down"
  /\ ctx' = [j \in Jobs |-> Cancel(ctx[j])]
  /\ UNCHANGED <<chan, priority, retries, caller, retrier, workerVars, stats, scaler, runs,
                 overdue>>

\* ... and reads the final statistics, under the pool's statsMutex.
Report ==
  /\ stop = "down"
  /\ PoolFree
  /\ stop' = "returned"
  /\ UNCHANGED <<chan, jobVars, caller, retrier, workerVars, stats, scaler, runs, overdue>>

-----------------------------------------------------------------------------
CallerStep(j) == SubmitSend(j) \/ SubmitCount(j) \/ SubmitRefused(j)

WorkerStep(w) ==
  \/ StartScan(w) \/ Take(w) \/ SkipEmpty(w) \/ (\E j \in Jobs : TakeParked(w, j))
  \/ CountProcessing(w) \/ HandlerReturns(w) \/ CountCompleted(w) \/ CountFailed(w)
  \/ Retry(w) \/ GiveUp(w) \/ Close(w) \/ UpdateStats(w) \/ WorkerExit(w)

RetrierStep(j, n) ==
  \/ RetryWakes(j, n) \/ Resend(j, n) \/ CountRetry(j, n)
  \/ RetryDropped(j, n) \/ RetryAbandoned(j, n)

Next ==
  \/ \E j \in Jobs, p \in Priorities : SubmitBegin(j, p)
  \/ \E j \in Jobs : CallerStep(j) \/ DeadlineExpires(j)
  \/ \E w \in Workers : WorkerStep(w)
  \/ \E j \in Jobs, n \in RetryNumbers : RetrierStep(j, n)
  \/ CheckScaling \/ ScaleUp
  \/ StopBegin \/ Shutdown \/ Report

Spec == Init /\ [][Next]_vars

\* The Go scheduler runs every runnable goroutine, timers fire, and handlers
\* return.  Submissions, deadlines, the ticker of the scaling monitor and the
\* stop are the environment's.
Fairness ==
  /\ \A j \in Jobs : WF_vars(CallerStep(j))
  /\ \A w \in Workers : WF_vars(WorkerStep(w))
  /\ \A j \in Jobs, n \in RetryNumbers : WF_vars(RetrierStep(j, n))
  /\ WF_vars(Shutdown \/ Report)

FairSpec == Spec /\ Fairness

-----------------------------------------------------------------------------
(* Properties                                                              *)

TypeOK ==
  /\ chan \in [Priorities -> Seq(Jobs)]
  /\ priority \in [Jobs -> Priorities]
  /\ retries \in [Jobs -> 0..MaxRetries]
  /\ ctx \in [Jobs -> {"live", "deadline", "canceled"}]
  /\ caller \in [Jobs -> CallerStates]
  /\ retrier \in [Jobs -> [RetryNumbers -> RetrierStates]]
  /\ worker \in [Workers -> WorkerStates]
  /\ held \in [Workers -> Jobs \cup {NoJob}]
  /\ cursor \in [Workers -> Priorities]
  /\ failed \in [Workers -> BOOLEAN]
  /\ stats \in [{"total", "pending", "processing", "completed", "failed", "retrying"}
                 -> Int]
  /\ stop \in {"up", "stopping", "down", "returned"}
  /\ scaler \in {"watching", "scaling", "stuck"}
  /\ runs \in [Jobs -> Nat]
  /\ overdue \in [Workers -> SUBSET Jobs]

\* No job is lost to a second owner: it sits in one slot of one channel, or
\* one worker holds it, or one retry goroutine is about to resend it.
ChannelsApart ==
  \A p, q \in Priorities : \A i \in DOMAIN chan[p], k \in DOMAIN chan[q] :
    chan[p][i] = chan[q][k] => p = q /\ i = k

HoldersApart == \A v, w \in Holding : held[v] = held[w] => v = w

SingleOwner ==
  /\ ChannelsApart
  /\ HoldersApart
  /\ \A w \in Holding : held[w] \notin Queued /\ ~Retrying(held[w])
  /\ \A j \in Queued : ~Retrying(j)

\* The handler of a job is started once plus once per retry, and the retry
\* count stops at MaxRetries: the budget is kept although RetryCount is
\* read by one worker and the next run belongs to another.
RunBudget == \A j \in Jobs : runs[j] <= retries[j] + 1 /\ retries[j] <= MaxRetries

\* The inductive invariant behind SingleOwner and RunBudget.  A job is in the
\* channel of its own priority; whoever has it got it through SubmitJob; the
\* retry goroutine that still waits is the one of the current RetryCount; and
\* a job that is to be run has been run once per retry.
ChannelsPlaced ==
  \A p \in Priorities : \A i \in DOMAIN chan[p] :
    priority[chan[p][i]] = p /\ Sent(chan[p][i])

Placed ==
  /\ ChannelsPlaced
  /\ \A w \in Workers : worker[w] \in {"idle", "scan", "counting", "exited"} <=> held[w] = NoJob
  /\ \A w \in Holding : Sent(held[w])
  /\ \A j \in Jobs, n \in RetryNumbers :
       retrier[j][n] \in {"waiting", "awake"} => Sent(j) /\ n = retries[j]

RunsCounted ==
  /\ \A j \in Jobs : j \in Queued \/ Retrying(j) \/ ~Sent(j) => runs[j] = retries[j]
  /\ \A w \in Workers :
       /\ worker[w] = "taken" => runs[held[w]] = retries[held[w]]
       /\ worker[w] \in {"run", "returned", "failed"}
            => runs[held[w]] = retries[held[w]] + 1
  /\ RunBudget

QueueInv == TypeOK /\ Placed /\ SingleOwner /\ RunsCounted

\* The ProcessingJobs gauge is the number of workers between the updateStats
\* of GetJob and that of CompleteJob, in every interleaving.
ProcessingGauge ==
  stats.processing = Cardinality({w \in Workers : worker[w] \in {"run", "returned"}})

Started == {a \in Jobs \X (0..MaxRetries) : a[2] < runs[a[1]]}
Counted == {a \in Jobs \X RetryNumbers : retrier[a[1]][a[2]] = "counted"}
Dropped == {a \in Jobs \X RetryNumbers : retrier[a[1]][a[2]] = "dropped"}

\* PendingJobs is what was submitted less the runs that were started: for
\* each run of a retry it is one too low, for good, since "retry_scheduled"
\* does not put the job back.  RetryingJobs falls with the retries that were
\* dropped, which it had not counted, and never with one that runs.
PendingDrifts ==
  /\ stats.pending = stats.total - Cardinality(Started)
  /\ stats.retrying = Cardinality(Counted) - Cardinality(Dropped)

\* The four outcome counters of QueueStats add up to TotalJobs plus the
\* retries dropped on a full channel: every updateStats call moves a job
\* from one gauge to the next, except "retry_failed", which counts a failure
\* for a job whose run was counted as failed already.
GaugeBalance ==
  stats.pending + stats.processing + stats.completed + stats.failed
    = stats.total + Cardinality(Dropped)

\* A retry runs under a context that is already over, unless the worker of
\* the previous run has not yet reached the job.cancel() that ends
\* CompleteJob.
RetryContextOver ==
  \A w \in Workers :
    worker[w] = "run" /\ runs[held[w]] > 1 /\ ctx[held[w]] = "live"
      => \E v \in Workers : worker[v] = "closing" /\ held[v] = held[w]

\* With an unbuffered channel (JobQueueSize below the divisor) the scan is the
\* only receiver and never waits, so the non-blocking resend finds no one:
\* a job of that priority gets a single run whatever MaxRetries says.
UnbufferedRunsOnce == \A j \in Jobs : Capacity[priority[j]] = 0 => runs[j] <= 1

\* The counters and the contexts agree with what the workers do.
AccountsKept == /\ ProcessingGauge /\ PendingDrifts /\ GaugeBalance
                /\ RetryContextOver /\ UnbufferedRunsOnce

\* GetJob's scan is not atomic, but a worker never takes a job while a job of
\* higher priority has been queued since before its scan began.
HighestFirst ==
  [][\A w \in Workers : worker[w] = "scan" /\ worker'[w] = "taken"
       => \A j \in overdue[w] : priority[j] <= priority[held'[w]]]_vars

\* Unless the pool is stopped or its monitor locks itself out in ScaleUp, a
\* job the queue accepted is not left behind by the workers, whatever its
\* priority and however often it fails (start, CompleteJob, scheduleRetry).
AcceptedSettles ==
  \A j \in Jobs : caller[j] = "accepted" ~> Settled(j) \/ stop # "up" \/ ~PoolFree

\* Stop returns, unless the monitor locks itself out before it does: every
\* worker finishes its job, leaves its loop and is joined (Stop, updateStats).
StopReturns == stop = "stopping" ~> stop = "returned" \/ ~PoolFree

\* docs/reference/config.md:83 "Failed jobs are retried with exponential
\* backoff up to MaxRetries."
RetriedUpToMaxRetries ==
  [][\A w \in Workers : stop = "up" /\ GiveUp(w) => retries[held[w]] = MaxRetries]_vars

-----------------------------------------------------------------------------
(* The queue implements JobLifecycle                                       *)

Running(j) ==
  \E w \in Workers : worker[w] \in {"run", "returned", "failed"} /\ held[w] = j

Phase(j) ==
  CASE caller[j] \in {"idle", "sending", "refused"} -> "new"
    [] Running(j)  -> "running"
    [] Settled(j)  -> "over"
    [] OTHER       -> "waiting"

Lifecycle == INSTANCE JobLifecycle WITH phase <- [j \in Jobs |-> Phase(j)]

ImplementsLifecycle == Lifecycle!Spec
=============================================================================
