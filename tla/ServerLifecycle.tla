-------------------------- MODULE ServerLifecycle --------------------------
(***************************************************************************)
(* The process of cmd/server/main.go and internal/server: the goroutine of *)
(* main that builds the server, waits for a signal and shuts down, the one *)
(* it starts to run Start, the goroutines net/http gives to requests, and  *)
(* the rate limiter in front of the three hooks.                           *)
(*                                                                         *)
(* The pool is reduced to where each hook's job is and to its statsMutex,  *)
(* which every worker locks after a job, Stop before it returns, and the   *)
(* scaling monitor for ever once it scales up; PriorityQueue and           *)
(* WorkerPool say how the jobs are handed to the workers.  Registering a   *)
(* pattern twice on an http.ServeMux panics.                               *)
(***************************************************************************)
EXTENDS Integers, FiniteSets, Sequences

CONSTANTS
  Hooks,        \* requests to a webhook endpoint
  LimiterKeys,  \* endpoint and client address, getLimiterKey
  LimiterKey,   \* [Hooks -> LimiterKeys]
  Burst,        \* serverDefaultBurst
  MaxRefills,   \* bound: tokens the limiters gain
  PoolMin,      \* config.MinWorkers, the workers of the pool
  PoolMax,      \* config.MaxWorkers
  PoolScaleAt,  \* JobQueueSize / workerScaleUpDivisor
  Constructor,  \* "New", which main calls, or "NewWithRegistry", the tests
  WithOAuth     \* JiraAuthMethod = "oauth2"

ASSUME ServerAssumption ==
  /\ IsFiniteSet(Hooks) /\ IsFiniteSet(LimiterKeys)
  /\ LimiterKey \in [Hooks -> LimiterKeys]
  /\ Burst \in Nat \ {0} /\ MaxRefills \in Nat
  /\ PoolMin \in Nat \ {0} /\ PoolMax \in Nat /\ PoolScaleAt \in Nat
  /\ Constructor \in {"New", "NewWithRegistry"}
  /\ WithOAuth \in BOOLEAN

VARIABLES
  routes,    \* the patterns on the mux
  left,      \* the patterns still to be registered
  main,      \* where main is
  starter,   \* where Start is
  poolCtx,   \* "alive" or "cancelled"
  poolRuns,  \* Start has created the workers and the scaling monitor
  scaler,    \* the scaling monitor: "watching", "scaling", or "stuck" in
             \* ScaleUp with the pool's statsMutex locked
  queueCtx,  \* "alive" or "cancelled"
  hook,      \* where each request is
  job,       \* where its job is
  bucket,    \* the limiters: tokens of the keys met so far
  refills    \* history: tokens each key gained since its first request

serverVars == <<routes, left, main, starter, poolCtx, poolRuns, scaler, queueCtx, hook, job, bucket, refills>>

-----------------------------------------------------------------------------
(* The constructors                                                        *)

WebhookRoutes == <<"/gitlab-hook", "/gitlab-project-hook", "/jira-webhook", "/health">>

MonitoringRoutes ==
  <<"/monitoring/status", "/monitoring/metrics", "/monitoring/health", "/monitoring/detailed",
    "/monitoring/reconnect", "/performance", "/performance/history", "/performance/targets",
    "/performance/reset">>

OAuthRoutes == <<"/auth/jira/authorize", "/auth/jira/callback", "/auth/jira/status">>

WhenOAuth == IF WithOAuth THEN OAuthRoutes ELSE <<>>

\* registerWebhookRoutes has put "/health" on the mux when createMux does.
createMux == WebhookRoutes \o MonitoringRoutes \o <<"/health", "/health/ready">> \o WhenOAuth

NewWithRegistry == WebhookRoutes \o MonitoringRoutes \o WhenOAuth

ServerInit ==
  /\ routes = {}
  /\ left = IF Constructor = "New" THEN createMux ELSE NewWithRegistry
  /\ main = "building"
  /\ starter = "none"
  /\ poolCtx = "alive" /\ poolRuns = FALSE /\ queueCtx = "alive"
  /\ scaler = "watching"
  /\ hook = [h \in Hooks |-> "unsent"]
  /\ job = [h \in Hooks |-> "none"]
  /\ bucket = [k \in {} |-> 0]
  /\ refills = [k \in LimiterKeys |-> 0]

\* mux.Handle, mux.HandleFunc: a pattern the mux has already is a panic.
Register ==
  /\ main = "building" /\ left # <<>>
  /\ IF Head(left) \in routes
       THEN /\ main' = "panicked"
            /\ UNCHANGED <<routes, left>>
       ELSE /\ routes' = routes \cup {Head(left)}
            /\ left' = Tail(left)
            /\ UNCHANGED main
  /\ UNCHANGED <<starter, poolCtx, poolRuns, scaler, queueCtx, hook, job, bucket, refills>>

\* New has returned: main starts the goroutine of Start and waits for a signal.
Built ==
  /\ main = "building" /\ left = <<>>
  /\ main' = "waiting" /\ starter' = "starting"
  /\ UNCHANGED <<routes, left, poolCtx, poolRuns, scaler, queueCtx, hook, job, bucket, refills>>

-----------------------------------------------------------------------------
(* Start                                                                   *)

Up == main \notin {"panicked", "exited"}

\* pool.Start, without a look at the context: a Stop before it is not seen.
StartPool ==
  /\ Up /\ starter = "starting"
  /\ poolRuns' = TRUE
  /\ starter' = "binding"
  /\ UNCHANGED <<routes, left, main, poolCtx, scaler, queueCtx, hook, job, bucket, refills>>

\* ListenAndServe: http.ErrServerClosed once Shutdown was called.
Listen ==
  /\ Up /\ starter = "binding"
  /\ starter' = IF main = "draining" THEN "closed" ELSE "listening"
  /\ UNCHANGED <<routes, left, main, poolCtx, poolRuns, scaler, queueCtx, hook, job, bucket, refills>>

\* The port is taken: main's goroutine calls os.Exit(1).
ListenFails ==
  /\ Up /\ starter = "binding"
  /\ starter' = "closed" /\ main' = "exited"
  /\ UNCHANGED <<routes, left, poolCtx, poolRuns, scaler, queueCtx, hook, job, bucket, refills>>

-----------------------------------------------------------------------------
(* A request and its job                                                   *)

SendHook(h) ==
  /\ Up /\ starter = "listening"
  /\ hook[h] = "unsent"
  /\ hook' = [hook EXCEPT ![h] = "arrived"]
  /\ UNCHANGED <<routes, left, main, starter, poolCtx, poolRuns, scaler, queueCtx, job, bucket, refills>>

Limiter(k) == IF k \in DOMAIN bucket THEN bucket[k] ELSE Burst

WithLimiter(k, tokens) == [x \in DOMAIN bucket \cup {k} |-> IF x = k THEN tokens ELSE bucket[x]]

\* Allow on the limiter of the key, which is created on the first request.
AllowUnstored(h) ==
  LET k == LimiterKey[h] IN
  /\ Up /\ hook[h] = "arrived"
  /\ hook' = [hook EXCEPT ![h] = IF Limiter(k) > 0 THEN "reading" ELSE "limited"]
  /\ UNCHANGED <<routes, left, main, starter, poolCtx, poolRuns, scaler, queueCtx, job, bucket, refills>>

Allow(h) ==
  LET k == LimiterKey[h] IN
  /\ Up /\ hook[h] = "arrived"
  /\ IF Limiter(k) > 0
       THEN /\ hook' = [hook EXCEPT ![h] = "reading"]
            /\ bucket' = WithLimiter(k, Limiter(k) - 1)
       ELSE /\ hook' = [hook EXCEPT ![h] = "limited"]
            /\ bucket' = WithLimiter(k, 0)
  /\ UNCHANGED <<routes, left, main, starter, poolCtx, poolRuns, scaler, queueCtx, job, refills>>

Refill(k) ==
  /\ Up /\ k \in DOMAIN bucket
  /\ bucket[k] < Burst /\ refills[k] < MaxRefills
  /\ bucket' = [bucket EXCEPT ![k] = @ + 1]
  /\ refills' = [refills EXCEPT ![k] = @ + 1]
  /\ UNCHANGED <<routes, left, main, starter, poolCtx, poolRuns, scaler, queueCtx, hook, job>>

\* The body has arrived and is an event; ReadHeaderTimeout does not cover it,
\* so a client may take for ever.
ReadBody(h) ==
  /\ Up /\ hook[h] = "reading"
  /\ hook' = [hook EXCEPT ![h] = "submitting"]
  /\ UNCHANGED <<routes, left, main, starter, poolCtx, poolRuns, scaler, queueCtx, job, bucket, refills>>

\* SubmitJob sends while the channel has room, even once the queue's context
\* is done (select picks either), and the request is answered 202.
Submit(h) ==
  /\ Up /\ hook[h] = "submitting"
  /\ hook' = [hook EXCEPT ![h] = "accepted"]
  /\ job' = [job EXCEPT ![h] = "queued"]
  /\ UNCHANGED <<routes, left, main, starter, poolCtx, poolRuns, scaler, queueCtx, bucket, refills>>

\* The channel stayed full, or the context is done: 500.
SubmitFails(h) ==
  /\ Up /\ hook[h] = "submitting"
  /\ hook' = [hook EXCEPT ![h] = "failed"]
  /\ UNCHANGED <<routes, left, main, starter, poolCtx, poolRuns, scaler, queueCtx, job, bucket, refills>>

\* A worker that saw the context alive before Stop takes one more job; the
\* workers a late Start creates see it cancelled and exit.
Busy == {h \in Hooks : job[h] \in {"running", "counting"}}

WorkUnchecked(h) ==
  /\ Up /\ job[h] = "queued"
  /\ poolRuns /\ Cardinality(Busy) < PoolMin
  /\ job' = [job EXCEPT ![h] = "running"]
  /\ UNCHANGED <<routes, left, main, starter, poolCtx, poolRuns, scaler, queueCtx, hook, bucket, refills>>

Work(h) ==
  /\ Up /\ job[h] = "queued"
  /\ poolRuns /\ Cardinality(Busy) < PoolMin
  /\ poolCtx = "alive" \/ main = "joining"
  /\ job' = [job EXCEPT ![h] = "running"]
  /\ UNCHANGED <<routes, left, main, starter, poolCtx, poolRuns, scaler, queueCtx, hook, bucket, refills>>

\* The handler and CompleteJob are done.
Finish(h) ==
  /\ Up /\ job[h] = "running"
  /\ job' = [job EXCEPT ![h] = "counting"]
  /\ UNCHANGED <<routes, left, main, starter, poolCtx, poolRuns, scaler, queueCtx, hook, bucket, refills>>

MutexFree == scaler # "stuck"

\* updateStats; then the worker is back in its loop.
CountJob(h) ==
  /\ Up /\ job[h] = "counting"
  /\ MutexFree
  /\ job' = [job EXCEPT ![h] = "done"]
  /\ UNCHANGED <<routes, left, main, starter, poolCtx, poolRuns, scaler, queueCtx, hook, bucket, refills>>

\* checkScaling finds a backlog.  It takes PendingJobs for the jobs in the
\* channels; the ticker may win over the cancelled context.
FindBacklog ==
  /\ Up /\ poolRuns /\ scaler = "watching"
  /\ Cardinality({h \in Hooks : job[h] = "queued"}) > PoolScaleAt
  /\ PoolMin < PoolMax
  /\ scaler' = "scaling"
  /\ UNCHANGED <<routes, left, main, starter, poolCtx, poolRuns, queueCtx, hook, job, bucket, refills>>

\* ScaleUp locks statsMutex and calls createWorker, which waits for it.
ScalePool ==
  /\ Up /\ scaler = "scaling"
  /\ scaler' = "stuck"
  /\ UNCHANGED <<routes, left, main, starter, poolCtx, poolRuns, queueCtx, hook, job, bucket, refills>>

-----------------------------------------------------------------------------
(* Shutdown                                                                *)

\* SIGINT or SIGTERM: Shutdown cancels the webhook monitor, the performance
\* monitor and the pool, and waits for the workers.
Signal ==
  /\ main = "waiting"
  /\ main' = "joining" /\ poolCtx' = "cancelled"
  /\ UNCHANGED <<routes, left, starter, poolRuns, scaler, queueCtx, hook, job, bucket, refills>>

StopPoolAtOnce ==
  /\ main = "joining"
  /\ main' = "reporting" /\ queueCtx' = "cancelled"
  /\ UNCHANGED <<routes, left, starter, poolCtx, poolRuns, scaler, hook, job, bucket, refills>>

\* wg.Wait, which has no timeout, returns; both queues are shut down.
StopPool ==
  /\ main = "joining"
  /\ Busy = {}
  /\ main' = "reporting" /\ queueCtx' = "cancelled"
  /\ UNCHANGED <<routes, left, starter, poolCtx, poolRuns, scaler, hook, job, bucket, refills>>

\* Stop's GetStats locks statsMutex; Stop returns and the cache is closed.
FinalStats ==
  /\ main = "reporting"
  /\ MutexFree
  /\ main' = "stopped"
  /\ UNCHANGED <<routes, left, starter, poolCtx, poolRuns, scaler, queueCtx, hook, job, bucket, refills>>

\* Only now does the listener close.
ShutdownHTTP ==
  /\ main = "stopped"
  /\ main' = "draining"
  /\ starter' = IF starter = "listening" THEN "closed" ELSE starter
  /\ UNCHANGED <<routes, left, poolCtx, poolRuns, scaler, queueCtx, hook, job, bucket, refills>>

InHandler == {h \in Hooks : hook[h] \in {"arrived", "reading", "submitting"}}

\* http.Server.Shutdown waits for the handlers, and for shutdownTimeout at
\* most; then main returns.
ExitWhenIdle ==
  /\ main = "draining" /\ InHandler = {}
  /\ main' = "exited"
  /\ UNCHANGED <<routes, left, starter, poolCtx, poolRuns, scaler, queueCtx, hook, job, bucket, refills>>

Exit ==
  /\ main = "draining"
  /\ main' = "exited"
  /\ UNCHANGED <<routes, left, starter, poolCtx, poolRuns, scaler, queueCtx, hook, job, bucket, refills>>

-----------------------------------------------------------------------------
MainGoroutine == Register \/ Built \/ StopPool \/ FinalStats \/ ShutdownHTTP \/ Exit

Environment ==
  \/ Signal \/ ListenFails
  \/ \E h \in Hooks : SendHook(h) \/ ReadBody(h) \/ SubmitFails(h)
  \/ \E k \in LimiterKeys : Refill(k)

WorkerGoroutine(h) == Finish(h) \/ CountJob(h)

ServerNext ==
  \/ MainGoroutine \/ StartPool \/ Listen \/ FindBacklog \/ ScalePool \/ Environment
  \/ \E h \in Hooks : Allow(h) \/ Submit(h) \/ Work(h) \/ WorkerGoroutine(h)

ServerSpec == ServerInit /\ [][ServerNext]_serverVars

\* The Go scheduler runs main and the workers, a job ends within
\* JobTimeoutSeconds, and the timer of the context fires.  Clients, signals
\* and the operating system owe nothing.
ServerFairness ==
  /\ WF_serverVars(MainGoroutine)
  /\ \A h \in Hooks : WF_serverVars(WorkerGoroutine(h))

-----------------------------------------------------------------------------
(* Properties                                                              *)

Waypoints == {"building", "panicked", "waiting", "joining", "reporting", "stopped", "draining", "exited"}

\* Type invariant of the process.
ServerTypeOK ==
  /\ routes \subseteq {createMux[i] : i \in 1..Len(createMux)}
  /\ main \in Waypoints
  /\ starter \in {"none", "starting", "binding", "listening", "closed"}
  /\ poolCtx \in {"alive", "cancelled"} /\ queueCtx \in {"alive", "cancelled"}
  /\ poolRuns \in BOOLEAN
  /\ scaler \in {"watching", "scaling", "stuck"}
  /\ hook \in [Hooks -> {"unsent", "arrived", "limited", "reading", "submitting", "accepted", "failed"}]
  /\ job \in [Hooks -> {"none", "queued", "running", "counting", "done"}]
  /\ DOMAIN bucket \subseteq LimiterKeys
  /\ \A k \in DOMAIN bucket : bucket[k] \in 0..Burst
  /\ refills \in [LimiterKeys -> 0..MaxRefills]

\* The server main builds comes up: no pattern is registered twice
\* (server.New and createMux).
StartsUp == main # "panicked"

\* Once Stop has joined the workers no job runs any more, also when the
\* signal came before Start had created them: nothing is cut short by the
\* exit (Shutdown, PriorityWorkerPool.Stop, Start).
StoppedMeansIdle == main \in {"reporting", "stopped", "draining", "exited"} => Busy = {}

\* A client gets no more requests of an endpoint through than the burst and
\* what its limiter gained since (getOrCreateLimiter, Allow).
BurstHeld ==
  \A k \in LimiterKeys :
    Cardinality({h \in Hooks : LimiterKey[h] = k /\ hook[h] \notin {"unsent", "arrived", "limited"}})
      <= Burst + refills[k]

\* What the order of the stops and the limiters promise together: no worker
\* is left behind, and no key gets more than its share.
ServerSafe == StoppedMeansIdle /\ BurstHeld

\* A signal is followed by the end of the process, whatever its clients do,
\* unless the scaling monitor locks the pool up for good (main and Shutdown).
ShutdownEnds == main = "joining" ~> main = "exited" \/ ~MutexFree
=============================================================================
