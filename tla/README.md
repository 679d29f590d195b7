# TLA+ specification of gitlab-jira-hook

gitlab-jira-hook is a Go service that keeps GitLab and Jira issues in step. It
accepts webhooks from both trackers, answers them at once, and processes each
event later in a worker goroutine that calls the API of the other tracker. What
can go wrong is therefore mostly a matter of interleavings: between callers,
workers and retry goroutines inside the process, and between the process, users
and a network that repeats requests and loses answers outside it.

This directory holds

* one module per modelled component, and the abstract specification of the queue
  that three of them share (`JobLifecycle`);
* `MC*.tla` and `*.cfg`, the instances TLC checks. Four of them put several
  components on stage, one at a time (section 3.22);
* eight `*Proofs.tla`, theorems about the modules that hold for every value of
  their constants, checked by TLAPS;
* `PROJECT.json`, the map from definitions to source lines, the runs, the
  mutants that show each property can fail, the hazards and the findings.

All source paths below are relative to `src/`.

## 1. Inventory

### 1.1 The path of an event

```
 Jira ──POST──> jira.WebhookHandler ─┐                       ┌─> GitLab API client
       rate      (eventCache)        ├─> PriorityWorkerPool ─┤
 GitLab ─POST─> gitlab.Handler ──────┘    PriorityJobQueue   ├─> Jira API client
       limiter                            DelayedQueue       │   (token bucket, OAuth)
                                          circuit breaker    └─> sync.Manager
                                                                 (audit trail,
 config watcher, caches, monitors: beside it                      manual queue)
```

An HTTP goroutine passes the rate limiter, validates the request and calls
`SubmitJob`. The queue has one buffered channel per priority. Each worker scans
the channels from the highest priority down, runs the handler through a
middleware chain, and reports to `CompleteJob`, which may start a goroutine that
sends the job again after a delay. A scaling monitor watches the backlog. For
Jira events the handler fetches the parsed event from a map shared by all
goroutines, calls GitLab, and, when configured, hands the event to the
bidirectional sync. `cmd/server/main.go` builds all this, waits for a signal and
takes it down again. Beside the path of an event run the watcher that reloads the
configuration and the loops that monitor performance, webhooks and alerts.

### 1.2 Components

| Component (source) | State | Hard behaviour | What makes it correct | Module |
|---|---|---|---|---|
| Priority job queue (`internal/async/queue.go`) | four channels, `RetryCount`, a context per job, `QueueStats` under `statsMutex` | callers, workers and retry goroutines interleave between channel operation and counting; deadlines; shutdown under running retries; capacity 0 for small queue sizes | one owner per job; run budget; gauges add up; priority order; every accepted job settles | `PriorityQueue`, `JobLifecycle` |
| Priority worker pool (`internal/async/priority_worker_pool.go`, `adapter.go`) | slice of workers, `statsMutex`, wait group, pool context | a mutex that is not re-entrant; join against exit | Stop returns and leaves nothing running; workers come back from each job | `WorkerPool`, `PriorityQueue` |
| Delayed queue (`internal/async/delayed_queue.go`) | a slice of jobs under a mutex | jobs are in nobody's list between removal and hand-over; two drains at once | an accepted job is in one place, and arrives unless the queue is shut down | `DelayedQueue` |
| Circuit breaker, retryer and API client around them (`internal/async/middleware.go`, `internal/errors/integration.go`, `types.go`, `api_errors.go`) | breaker under a mutex released between check and result; attempts | a decision from a stale snapshot; half-open lets everyone through | an open breaker admits nothing but what was decided before; it closes again once the service is well | `ResilientClient` |
| Server and process life cycle, rate limiter (`internal/server`, `cmd/server/main.go`) | routes, parts started and stopped, a limiter per key | a signal before `Start` has run; the pool stops before the HTTP server does; two first requests of one key | nothing runs after Stop; no key gets more than its share; the process ends | `ServerLifecycle` |
| Configuration and hot reload (`internal/config`) | the environment, the watcher's file time, a channel of one, handlers | a blocked send while the file changes again; slow handlers | configurations arrive in order, the last one everywhere | `Configuration` |
| Performance monitor (`internal/monitoring/performance_monitor.go`) | atomics, history under `pm.mu` | a reader's lock inside the writer's; a reset under requests in flight; check, then increment | the gauge is explained; hooks never wait for the monitor | `PerformanceMonitor` |
| Jira webhook handler (`internal/jira/webhook_handler.go`) | `eventCache`, a plain map keyed by type and timestamp | redelivery; retry after a lost answer; keys that collide; unlocked map | an event is applied at most once; its run finds it; entries do not leak | `JiraWebhook` |
| The mirrored issue (same file, and `HandleGitLabWebhook`) | the two issues | stale changes, events that overtake each other, echoes | closed only for a reason; one comment per remark | `IssueMirror` |
| Jira API client, OAuth 2.0 (`internal/jira/client.go`, `oauth2_client.go`, `oauth2_handlers.go`) | token bucket under a mutex released while it sleeps; token pair in the shared configuration | sleepers that wake together; a refresh token that is good once | the rate is overrun by the sleepers at most; the client does not lock itself out | `JiraClient` |
| GitLab webhook handlers (`internal/gitlab/handler.go`, `project_hooks.go`, `event_processor.go`) | none of their own: the comments in Jira | several writes per event, retried as a whole; events that lack objects | success means every comment was made; repeated only for a cause | `GitLabWebhook` |
| GitLab API client (`internal/gitlab/api_client.go`) | none of its own | answers that are lost or do not decode | what it reports as done is done | `GitLabClient` |
| Bidirectional sync, conflicts, manual queue (`internal/sync`) | the manual queue under its mutex, shared pointers to conflicts | search, comparison and write are separate calls; users edit meanwhile; any call fails | no duplicate without a cause; success recorded only for what was done; an edit is lost only to a race | `SyncManager` |
| Audit trail (`internal/sync/audit_trail.go`) | bounded list, index by ID | eviction beside an index; IDs from the clock; stamps out of order | list and index agree; pages partition the matches | `AuditTrail` |
| Memory and multi-level cache (`internal/cache/cache.go`) | two maps, each with its mutex | a lock given up between reading an entry and finding it expired; promotion against deletion | limits hold; a deleted key comes back only by a race | `LayeredCache` |
| Advanced cache and hash ring (`internal/cache/advanced_cache.go`) | entries, counters; virtual nodes | counters lowered on several paths; colliding places | counters explained by the entries; every key has a living node | `AdvancedCache`, `HashRing` |
| Alert manager (`internal/monitoring/advanced_monitoring.go`) | metrics, rules, active alerts, history, channel | rules are replaced and metrics updated during a check; a full channel | an alert of a rule exactly when its metric raises one, once a check was not overtaken | `AlertManager` |
| Webhook monitor (`internal/monitoring/webhook_monitor.go`) | status per endpoint | probes end in any order | the newest answer is shown unless overtaken | `WebhookMonitor` |
| Error recovery (`internal/monitoring/error_recovery.go`) | actions, history, statistics | handlers run without the lock; clears meanwhile | statistics agree with history | `ErrorRecovery` |

Not modelled, with reasons in section 6: the legacy worker pool, error types, the
HTTP error handler, the sync adapters, URL building and parsing, the Atlassian
Document Format, the Agile, JSM and custom-field clients, webhook
authentication, the enhanced health monitoring, Prometheus and tracing, and the
utilities.

### 1.3 Observations

What was met while reading and is in no finding, by part. Some of it is in the
models as behaviour (marked *), where the properties are stated around it.

* **Pool and queues.** Webhooks are answered with success while the pool is
  stopped*. Jobs still queued at exit are not drained, against
  `docs/reference/config.md:81`*. A `Start` that comes after `Stop` starts
  workers that exit at once*. `WaitForReadyJobs` returns before the jobs it has
  taken are handed over (`delayed_queue.go:192`)*. `MiddlewareChain.Build`
  orders the chain against its comment; a handler outlives its
  `TimeoutMiddleware`. `RecoverPanic` is called but not deferred. Once `ScaleUp` has
  locked the pool's mutex for good (`priority_worker_pool.go:316`), workers wait
  for it after their job, the join of `Stop` (149) has no timeout, and the process
  does not end on a signal, against `docs/architecture/async-processing.md:54`
  "All queues and workers properly terminate on shutdown."*. `PendingJobs` falls by
  one with each run of a retry and is not put right, and `RetryingJobs` falls only
  for retries that are dropped*.
* **Breaker and retries.** A cancelled request counts as a failure, so callers that
  give up can open the breaker, or open it again, while the service is well, and
  404s open it too*; half-open admits everyone*; 409 and 422 are retried*; with
  `MaxAttempts` 0 nothing is sent and nil, nil returned*; `NewCircuitBreaker`
  passes `MonitoringWindow` as the timeout; the body of a returned response is
  already closed.
* **Configuration.** `Load` never reads `BIDIRECTIONAL_*`, `STATUS_MAPPING_*`,
  `COMMENT_SYNC_*`, `JIRA_AUTH_METHOD`, `JIRA_OAUTH2_*` or `SYNC_*`, which
  `README.md:727` documents*. `JOB_QUEUE_SIZE`, `SCALE_INTERVAL` and
  `HEALTH_CHECK_INTERVAL` are not validated. A reload changes nothing that was
  set before*, what a refused file added stays in the environment and comes into
  effect with a later one, a failed one is not retried*, `Stop` twice panics, and the check
  for changes of the environment compares it with itself.
  `JIRA_RETRY_MAX_ATTEMPTS=0` is valid, and `AddComment` then returns nil without
  a request*.
* **Server.** The limiter's key falls back to the remote address with its port,
  and the table of limiters never shrinks; the limiter `New` keeps is not the one
  on the routes. `/performance/reset` zeroes `activeRequests` under requests in
  flight*. `README.md:207` names the route `/project-hook`, which is
  `/gitlab-project-hook`.
* **Jira side.** A failed run deletes the event its retry needs
  (`webhook_handler.go:1485`, `docs/architecture/overview.md:39` promises
  retries)*. Two events of one type in one millisecond share a cache key*; a
  redelivered creation makes a second GitLab issue*. An issue without fields or
  project ends the process, in a worker that follows the nil pointer
  (`webhook_handler.go:1577`). The bucket of the Jira rate
  limiter lets every sleeper through*. The OAuth callback and the refresh write
  the configuration without a lock*. `ExecuteTransitionWithValidation` is not
  idempotent*, and `TransitionToStatus` follows a nil status. No route leads to
  `HandleGitLabWebhook`; with one, GitLab's "update" events and the mirror would
  answer each other*.
* **GitLab side.** The search puts `?search=` into `URL.Path`, which escapes it
  (`api_client.go:570`). Project IDs are numbers for `parseProjectID` and paths
  for `findGitLabProject`; `GetProjectInfo` refuses IDs above 1,000,000*;
  `CreateIssue` does not check for IDs below 1*; `GetMergeRequest` does not check
  the token*; `UpdateMilestone` sends empty fields. The conversion to
  `webhook.Event` drops texts (`handler.go:1085`)*.
* **Sync.** After `handleIssueCreated` the update goes on with a nil issue and
  panics (`bidirectional.go:311`, 426; the comment at 294 says "finds
  corresponding GitLab issue or creates new one")*. The resolver marks the conflict
  it has just queued for a person as resolved by "system"
  (`conflict_resolver.go:95`; `README.md:306` "Requires manual intervention for
  conflicts")*. The adapters the server wires in answer "not yet
  implemented" to all but two calls.
* **Caches and audit trail.** `MemoryCache.Get` may delete a fresh value*, counts
  without a lock, and promotes with a fixed five minutes; a deleted entry may be
  promoted back*. `StrategyTTL` may exceed `MaxSize`*. Deletion and eviction lower
  `MemoryUsage`, but not the expiry that `Get` finds, nor a value stored over
  another*. The memory limit is compared in whole megabytes, each side rounded
  down*. Where virtual nodes collide, the place is the later one's and goes when it
  goes, so a member may be left without any*.
  Audit IDs may collide*; a page beyond the end is the first page*.
* **Monitoring.** The webhook monitor probes hooks that take only POST with GET, so
  they are never healthy, and its probes count against the rate limiter;
  `HandleReconnect` does not wait for its own probe*. `AlertManager` finds only
  metrics without labels; a rule that is removed or disabled, or replaced by one on
  another metric, leaves its alert active*; a check shows what its rule said when the
  check began*; a notification is dropped when the channel is full*. A recovery
  cancelled in its backoff records nothing*.
  `EnhancedHealthMonitor.RunComprehensiveHealthChecks` locks itself out
  (`enhanced_monitoring.go:2006`, then 2111 and 2171), its breaker never opens.

## 2. Plan

What there is: the asynchronous path (`PriorityQueue`, `WorkerPool`,
`DelayedQueue`, `ResilientClient`), both webhook sides with their clients, the
sync with its bookkeeping, and the services of the process. Runs and bounds are
in section 4, theorems in section 5.

What would come next, in this order:

1. More of the findings as theorems, as `NoSnapshotEver` is for `perf_metrics`: a
   frozen pool stays frozen, the server `New` builds never listens, the state of a
   GitLab issue never follows Jira's.
2. The pool as a whole: `WorkerPool` has the backlog as a number, `PriorityQueue`
   the pool's mutex as free or taken for good. That the second is what the first
   implements can be shown as a refinement.
3. The middlewares of the chain around one job (timeout against handler).
4. The two sides together: `IssueMirror` with the events that
   `GitLabWebhook` receives, once the code routes them to `HandleGitLabWebhook`.

Modules that proofs are about use no RECURSIVE operator; parameters are constants
with named assumptions; invariants are conjunctions of named parts.

## 3. The modules

### 3.1 JobLifecycle: what the queue promises

The abstract specification: a job is `new`, `waiting`, `running` or `over`, is
accepted once, runs in one place at a time, starts at most `MaxRetries + 1`
times, and never runs again once over. A retry may get lost. `PriorityQueue` is
shown to implement it (`ImplementsLifecycle`), and `JiraWebhook` and
`GitLabWebhook` use its actions as the queue between their handlers and their runs.

### 3.2 PriorityQueue

| Variable | Code |
|---|---|
| `chan` | the four buffered channels of `PriorityJobQueue` |
| `priority`, `retries`, `ctx` | `Job.Priority`, `Job.RetryCount`, `Job.ctx.Err()` |
| `caller[j]` | program counter of the goroutine in `SubmitJob` |
| `retrier[j][n]` | program counter of the goroutine of the n-th `scheduleRetry` |
| `worker`, `held`, `cursor`, `failed` | program counter and locals of a worker in its loop, in `GetJob` and `CompleteJob` |
| `stats` | `QueueStats` |
| `stop` | progress of `PriorityWorkerPool.Stop` |
| `scaler` | the scaling monitor, and with it the pool's `statsMutex`: free unless `"stuck"` |
| `runs`, `overdue` | history: runs started; jobs queued since a scan began |

A send or receive on a channel and the `updateStats` that follows are separate
steps, and so is each step of the scan over the channels: the interleavings in
between are the point. `TakeParked` is the receive on an unbuffered channel
(`JobQueueSize / 8 = 0`), which takes the job from the parked sender itself.
`Close` is the `job.cancel()` at the end of `CompleteJob`, which comes after the
retry goroutine has been started. `UpdateStats` is what the worker does then, under
the mutex of the pool (`priority_worker_pool.go:467`), and `Report` the `GetStats` at
the end of `Stop`. Each critical section of that mutex is short but `ScaleUp`'s, which
never ends (`CheckScaling`, `ScaleUp`): whoever needs the mutex then waits for ever, so
the liveness properties say "unless the monitor locks itself out" (`PoolFree`).
`WorkerPool` has the same mutex in full. `CheckScaling` reads the gauge of pending jobs,
drift included (`PendingDrifts`). The handler returns any result at any time.
Over-approximation: another sender may take the room that a receive has freed
before the sender that is already parked does.

`Job.Status` and the log of attempts are left out: no guard reads them.

### 3.3 WorkerPool

The goroutines around `statsMutex`. The queue is a number, `backlog`; `pc`
holds the place of each goroutine (`Main` runs `Start` and `Stop`), `owner` who
holds the mutex, `wg` the wait group. A critical section that takes no other lock
is one step. `ScaleUp` is not: it holds the mutex when it calls `createWorker`,
which waits for it. `frozen` counts the jobs taken since. `ScaleDown` needs more
than `MinWorkers` workers, which no state has, and is left out.

### 3.4 JiraWebhook

| Variable | Code |
|---|---|
| `request[d]` | where the HTTP goroutine of delivery `d` is in `HandleWebhook` |
| `cache` | `eventCache`, a Go map without a lock |
| `phase`, `runs` | the job, as `JobLifecycle` has it |
| `run`, `event`, `failed` | program counter and locals of `ProcessEventAsync` |
| `applied[b]` | external: how often GitLab carried out the write of event `b` |
| `process` | up, or ended by the runtime's check for concurrent map writes |
| `reached` | history: deliveries some run of which got past the context check |

GitLab is external: a call succeeds, is refused, or is carried out although its
answer is lost. An event body is a model value with a kind and an issue; titles,
labels and comments are left out. Every event has an issue with fields and a project:
the panic of one that has not is left out. Every Jira project is mapped, and the
bidirectional sync is off, the default (`config.go:394`); `SyncManager` is its
model. Two goroutines in the map with one of them writing may end the process
(`MapRace`), and nothing more is claimed of undefined contents.

### 3.5 GitLabWebhook

| Variable | Code |
|---|---|
| `config` | `JQLFilter` with the issues it selects, and `JiraRetryMaxAttempts` |
| `request[d]`, `event[d]` | where the HTTP goroutine of delivery `d` is, and the event it parsed |
| `phase`, `runs` | the job of a system hook, as `JobLifecycle` has it |
| `run`, `searched`, `result` | program counter and locals of `ProcessEventAsync`, or of `processProjectEvent` in the HTTP goroutine |
| `mentions`, `next`, `attempt` | the issues to comment on, the one in hand, the loop of `AddComment` |
| `posted[d][i]` | external: the comments Jira has for mention `i` |
| `process` | up, or ended by a panic in a worker |
| `lost`, `errors`, `blind` | history: lost answers, logged errors, failed searches |

The two routes do the same work in different ways. A system hook is queued; its
event passes through `convertToInterfaceEvent` and back, which keep only the
fields `webhook.Event` has (`Converted`), then through the JQL filter; a comment
that fails ends the run and the queue may start another. A project hook is
served in the request, from the whole event, and goes on after an error. An event
is its type, the objects and names the code tests for (`Parts`), and per field
the sequence of issue keys in it (`Fields`): wording and links of the comments are
left out. Project hooks other than pushes comment once per key, in an order no
property depends on (`ProjectMentions`).

Converted events have no text left in the fields of notes, builds, releases,
wiki pages and feature flags. `processNoteEvent` then finds no key and succeeds
without a comment, although `README.md:263` promises comments on notes; the
others fail with an error that no retry can cure. `SuccessMeansCommented` is
about the converted event. The second family of `process…Event` methods in
`handler.go` (446-1029) is called by nothing and is left out, `isAllowedEvent`
excepted.

### 3.6 SyncManager

One Jira issue and its mirrors, and one goroutine per event of that issue.

| Variable | Code |
|---|---|
| `jira`, `mirrors`, `clock` | external: the issue, the GitLab issues in order of ID, the time |
| `at[e]`, `event[e]`, `found[e]`, `err[e]` | program counter and locals of `SyncJiraToGitLab` for event `e`: the issue as Jira sent it, as the search found it, the error of the step |
| `conflict[e]`, `manual` | the `Conflict` the goroutine and the queue both point at; the map of `ManualResolutionQueue` |
| `outcome[e]` | the last record of the event in the audit trail |
| `strategy` | `BidirectionalConflictStrategy` |
| `process` | up, or ended by a nil pointer |
| `births`, `known`, `blind`, `moved`, `lapsed` | history: see the module |

Texts are what the properties tell apart. A title is the summary a user typed
with a number of `"[KEY] "` in front; a description is the number of times it
went through `formatGitLabIssueDescription`. GitLab's search by title finds the
issues whose title *contains* the text. `detectFieldConflicts` compares Jira's
plain texts with GitLab's formatted ones, so every update within the window of
the mirror's last change is a conflict; the model has that. When GitLab wins,
Jira's summary becomes `"[KEY] summary"`, and events Jira then sends carry it.

Users of Jira and GitLab edit at any time; the webhook handler that ran before
the sync and retitled the mirror counts as one of them. `performIssueUpdates`
makes up to two calls (label, assignee); they touch no text, so they are one
step whose answer `lost` also stands for one of two done. An error of the sync is
only logged by its caller (`webhook_handler.go:1554-1565`), so there is no retry.
`docker-compose.yml:13` restarts the container: `Restart` loses what was in
memory. The model follows the interface `GitLabAPI`/`JiraAPI`; the adapters of
the present build refuse most writes, one of the answers the model has.

### 3.7 DelayedQueue

| Variable | Code |
|---|---|
| `delayed`, `due` | `dq.jobs`, and those of them whose `ScheduledAt` has passed |
| `drain[g]` | program counter of `processReadyJobs` in the scheduler and in each caller of `WaitForReadyJobs`, and its `readyJobs` |
| `moved`, `submitted` | history: how often the main queue took an event, the events accepted |
| `delayedStop` | the context `Shutdown` cancels |

A drain takes what is due out of the slice under the mutex (`TakeReady`) and hands
it over piece by piece after it (`HandOver`, or `PutBack` when the main queue
refuses). The main queue takes or refuses; the order of times is left open.

### 3.8 ResilientClient

`breaker` is the `CircuitBreaker`, `call[c]` a goroutine in `ExecuteRequest`:
what it read of the breaker under the lock, the attempts it has made, the answers
it got and how the taxonomy classifies them. `LetIn`, `Admit` and `Reject` act on the snapshot
after the lock is gone. Of the clock there is whether `timeout` has passed since a
failure (`Cool`); the count saturates at the threshold. `healthy` says that the
service answers well from now on. A caller's context may end at any time
(`CancelCall`), which is a failure to the breaker however well the service is;
`BreakerRecovers` therefore asks what follows when, from some point on, the service is
well and no caller gives up (`Patient`).

### 3.9 ServerLifecycle

`left` are the patterns the constructor still has to register (`routes` those it
has: a second registration panics), `main` and `starter` the goroutine of `main`
and the one that runs `Start`, `poolCtx`, `poolRuns`, `queueCtx` what `Start` and
`Stop` do to the pool, `hook` and `job` each request and its job, `bucket` and
`refills` the limiters. A worker counts its job (`CountJob`) and `Stop` its statistics
(`FinalStats`) under the pool's mutex, which `scaler` holds for ever once the pool has
been scaled up (`FindBacklog`, `ScalePool`). The constructor is a constant: `server.New`, which
`main` calls, panics (`server_start`), so that what follows the start is checked
with `NewWithRegistry`.

### 3.10 Configuration

A value is a number, a file a function from settings to values: one setting of
each kind and those the validators relate. `environ` is what `godotenv.Load`
changes, and it changes only what is unset; `watcher`, `reloads` and `reloader`
are `checkForChanges`, the channel of one, and `handleReloads` with the handler it
is at. `current` has the number of the configuration, for the order.

### 3.11 PerformanceMonitor

`writer` and `readers` are `pm.mu`, a `sync.RWMutex`; `locker[g]` a goroutine that
wants it: the askers (handlers of `/performance*`) and the loop. `RLock` waits for
a writer that holds the lock or waits for it, also when the reader is that writer. `request`,
`active` and `counts` are the middleware, one atomic operation per step;
`forgotten` is what a reset took from the gauge.

### 3.12 IssueMirror

One Jira issue and its GitLab issue, both external, and the goroutines that
process its events (`mirror[m]`). A delivery carries a snapshot and a changelog and is tried
`MirrorTries` times. `UpdateIssue` is what `processIssueUpdated` writes,
`updateIssueState` the transition of the state, with `item.ToString` for both of
its ends as in the code, `findGitLabMilestone` and `CreateMilestone` the milestone. `HandleGitLabWebhook` looks
for a transition by a keyword in its name; `Workflow` gives the names. `clean`
marks behaviours without failures, overtaking or edits in GitLab.

### 3.13 JiraClient

`bucket` is the `RateLimiter` (the mutex is released while a caller sleeps),
`jcall[c]` an operation as the requests it has left; each request waits for a
token, gets its header and is sent. `tokens` is the pair in the configuration,
whose fields are written one after the other; `granted` is the token server,
which takes a refresh token once; `cookie` the state of the authorization flow in
the browser. `astray` remembers a lost answer or two exchanges at once.

### 3.14 GitLabClient

Each operation checks its arguments and sends one request, or returns an error
(`SendRequest`); GitLab does it or not and answers (`GitLabDoes`, `GitLabRefuses`). A request names its project by the kind of its ID, the
issue by a number, and says whether its body is nil, empty or full. `ledger` counts
per kind of change what the client reported as done, what GitLab did, and what
nobody knows.

### 3.15 AuditTrail

`trail` is the list, as a set of events with the numbers of their recordings, and
`index` the map beside it; `syncing` are the goroutines between the stamp and the
record of an event. `QueryEvents` and `AffectedEvents` are the code's filter, sort
and page as operators over the list. `NewestFirst` is the sequence the sort
leaves; `sort.Slice` is not stable, but it orders the same list in the same way
each time, and the model takes the order of the list for events of one stamp.
`PagesPartition` puts the pages together (`Paged`), `RollbackShown` compares a
rollback with a query.

### 3.16 LayeredCache, AdvancedCache, HashRing

`level[l]` is one `MemoryCache`; `cacheOp` a goroutine in an operation of the
`MultiLevelCache`, which takes one mutex after the other. Presence is modelled,
values and times are not: an entry looked at is found expired or not.
`AdvancedCache` has the sizes of the entries beside `stats.Size` and
`stats.MemoryUsage`; `phantoms` counts how often the size was lowered for an entry
that was gone; `Taken` counts what some entries take unit by unit. `OverMemory` is the
memory limit as the code compares it, in whole megabytes. `HashRing` has a constant hash function under which virtual nodes
collide.

### 3.17 AlertManager

| Variable | Code |
|---|---|
| `metric` | the value of each metric without labels, or none |
| `rules` | `alertRules`: records of ID, metric, the values that raise the alert, enabled |
| `alert` | `activeAlerts`, by rule ID and metric as `alertID` joins them, with the value shown |
| `resolved`, `notices` | lengths of `alertHistory` and `alertChan` |
| `check`, `read` | the loop with what is left of its snapshot of rules, and the rule and metric in hand |
| `tally`, `seen` | history: alerts created, dropped, trimmed; rules checked and not overtaken since |

`AddAlertRule` replaces the rule of its ID by any other, with another metric,
threshold or condition, or switched off; the alert of the old one is left where it
is. A metric is an object: `UpdateInPlace` (counters, and `recordMetric` on one of its
own type) changes it also for the loop that has it in hand, which reads its value
once to decide and once, under the manager's lock, for the alert to show.
`RecordMetric` and `CleanupOldMetrics` put another object in its place or none, and
leave the loop with the old one; `read.is` says which. `AlertsFollow` is about rules
whose last check was not overtaken by any of these, and about the alert of the rule
and metric they name. The identity of an alert is a pair: IDs and names that become
equal when joined by "-" are left out. Nothing in the code changes a rule in place
after it was added.

### 3.18 WebhookMonitor

`probes` under way, numbered when they begin; `statuses` and `metrics` as the
monitor has them; `lastSaid` remembers the newest probe that has ended and the
last one to end.

### 3.19 ErrorRecovery

`Recover` reads the action, calls its handler, backs off and calls again, and
records, each in a step; `RegisterAction` and the clears come in between.
`answers` and `cleared` count per type what Recover returned and what the clears
dropped.

### 3.20 Proof modules

`PriorityQueueProofs`, `JiraWebhookProofs`, `GitLabWebhookProofs` and
`SyncManagerProofs` are about one module each; `ProcessProofs`, `JiraSideProofs`,
`GitLabSideProofs` and `SyncSideProofs` about the modules of one run with scenes,
and about the invariants that run puts together from them: section 5.

### 3.21 MC modules of one component

`MCPriorityQueue`, `MCWorkerPool`, `MCJiraWebhook`, `MCGitLabWebhook`,
`MCSyncManager`, `MCServerLifecycle` and `MCIssueMirror` give the constants their
values.

### 3.22 Scenes

`MCProcess`, `MCJiraSide`, `MCGitLabSide` and `MCSyncSide` check components that
share no state in one run. A variable `scene` names the component a behaviour is
about; its actions are enabled, those of the others are not, and what is off
stage begins in one fixed initial state. The states of a run are thus the sum of
the components', not their product, each action fires in its own scene, and each
property has the same strength as in a run of its own. In `MCProcess` the scene's
own fairness is assumed (`SceneFairness`).

Composed in earnest, on the state they share, are: callers, queue and workers
(`PriorityQueue`); handler, event cache and the queue's lifecycle (`JiraWebhook`,
`GitLabWebhook`); sync, conflicts, manual queue and both trackers
(`SyncManager`); breaker and retries (`ResilientClient`); main, pool, HTTP server
and limiter (`ServerLifecycle`); webhook handlers of both directions
(`IssueMirror`); client, bucket and tokens (`JiraClient`).

## 4. What is checked

Every property has a mutant in `PROJECT.json`: a plausible bug in one definition
that makes TLC find the property violated under the same instance.

| Run | Shows | Distinct states |
|---|---|---|
| `queue_safety` | ownership, run budget, gauges and contexts (`AccountsKept`), priority order and the refinement of `JobLifecycle` survive every interleaving of callers, workers, retries, deadlines, the scaling monitor and stop | 1,032,259 |
| `queue_live` | every accepted job settles unless the pool is stopped, and `Stop` returns: both unless the scaling monitor locks the pool up | 402,945 |
| `pool_safety` | six scenes. Pool: after the join no worker runs, a pool whose monitor has locked itself out takes at most one more job per worker, and one that never scales gets through. Delayed queue: nothing lost or moved twice, everything arrives. Client: `ClientSound`, and the breaker closes once the service is well and no caller gives up. Server: idle after the join, no key over its burst, a signal ends the process unless the scaling monitor locks the pool up. Configuration: reloads in order, the last at every handler. Monitor: the gauge is explained, hooks never wait | 88,388 |
| `jira_safety` | three scenes. Webhooks: an event with a key of its own is written at most once; entries left in the cache are explained; a first run misses its event only to a delivery with the same key. Client: the rate overrun by the sleepers at most, no lock-out without a cause. Mirror: closed for a reason, one comment per remark | 1,961,076 |
| `gitlab_safety` | five scenes. Webhooks: a job that succeeds has made each of its comments; repeated at most once per run and lost answer; the filter skips, and lets through, what Jira says; a project hook is answered when each comment was made or its error logged. Client: what is reported was made. Alerts, probes, recoveries: `MonitoringAgrees` | 2,478,168 |
| `sync_safety` | five scenes. Manager: no nil pointer before the end of an update; duplicates have one of three causes; a recorded success left nothing undone; descriptions are overwritten only by last-write-wins; a newer edit is lost only to a race. Audit trail, caches, ring and manual queue: `BookkeepingAgrees`, of which `QueriesAgree` says that pages and rollbacks agree with the trail | 1,144,377 |

Runs that end in a counterexample, each of a sentence of the repository:

| Run | Sentence | What the code does |
|---|---|---|
| `queue_retries` | `docs/reference/config.md:83` "Failed jobs are retried with exponential backoff up to MaxRetries." | `CompleteJob` cancels the context of the job it has just scheduled for a retry, so the second failure is the last |
| `pool_frozen` | `docs/architecture/async-processing.md:73` "deadlock protection" | `ScaleUp` waits in `createWorker` for the mutex it holds, and every worker then waits too |
| `server_start` | `README.md:504` "Health Endpoint: `/health`" | `server.New`, which `main` calls, registers `/health` twice, and the mux panics |
| `perf_metrics` | `README.md:975` "Real-time performance monitoring" | `updateMetrics` holds `pm.mu` and calls `GetMetrics`, which asks for it again: the loop and everyone who asks for the metrics hang |
| `mirror_status` | `README.md:10` "real-time status and comment synchronization" | old and new status are both read from `ToString`, so no transition is ever seen and the GitLab issue stays as it is |
| `gitlab_crash` | `README.md:19` "Listens to all System Hook events (push, merge_request, project_create, user_create, etc.)" | `ProcessEvent` logs the ID of the project of an event that may have none, and the worker that panics takes the process with it |

### 4.1 Bounds, and why they are enough

* `queue_safety`: two jobs, two workers, three priorities, one slot per channel
  and none for the top one, one retry. Two jobs of one priority overflow a
  channel and are dropped on retry; two workers scan at once; three priorities
  have one in the middle; the unbuffered channel is the boundary of small queue
  sizes. The pool may grow (`MaxWorkers` three) when two jobs are pending
  (`ScaleUpAt` one). The properties are proved for any number (section 5).
* `queue_live`: two jobs, one worker, two priorities, one retry: a retried job of
  the higher priority competes with one of the lower. One pending job is a backlog
  (`ScaleUpAt` zero), so that the monitor may lock the pool up at any point of a run;
  the monitor owes nothing, so that most behaviours go on without it.
* `queue_retries`: one job, two retries allowed, a pool that may not grow.
* `pool_safety`. Pool: two workers that may become three, a threshold of one and a
  backlog of four (`MaxBacklog`), so that the frozen pool still has a job for each
  worker; `pool_frozen` needs three. Delayed queue: two events, the scheduler and
  a waiter, the smallest number of drains that can meet. Client: two callers, a
  threshold and a number of attempts of two, statuses 200, 404 and no answer: a
  stale snapshot needs two, and so does a count that is not yet the threshold.
  Server: three requests, two of them of one key, a burst and a refill
  (`MaxRefills`) of one, one worker that may become two (`PoolMin`, `PoolMax`) when a
  job is queued (`PoolScaleAt` zero). Configuration: six files, two of them invalid, two
  handlers, three edits (`MaxEdits`): one in the handlers, one in the channel, one
  in the blocked watcher. A handler is thus never more than three behind in this run
  whatever the code does; `ReloadsOnlyAdd` proves it for any number of edits. Monitor: two requests over a limit of one, an asker,
  two calls (`MaxAsks`).
* `perf_metrics`: a second asker, who waits behind the first one.
* `jira_safety`. Webhooks: a creation under its own key and two updates under
  another; one retry. Client: two callers, a bucket of one, so that both sleep;
  two grants (`MaxGrants`), one to lose and one to use. Mirror: two goroutines, so
  that one event overtakes another; three statuses in a ring; two edits
  (`MaxEdits`) and two echoes (`MaxEchoes`), two attempts.
* `mirror_status`: the same mirror with GitLab's events not routed, as in the code.
* `gitlab_safety`, `gitlab_crash`. Webhooks: one request per route, since requests
  share nothing but the process; two issue keys, zero to two attempts and one
  retry, so that a lost answer meets a second attempt, a second mention and a
  second run. The events are one of each kind the code treats differently: a push
  with two commits, on a watched branch or not; a merge request that repeats a key
  and has one only its branch names; an issue without `object_kind`, which only
  its description identifies; a note and a release, whose text the conversion
  drops; a `user_create` without a project; one that is not allowed. `Longest`, the
  highest number of comments for one event, is two. Client: one caller (calls share
  nothing), one request that is well formed and one for each check, two changes
  (`MaxAsked`). Alerts: two metrics and two rules. One rule has four forms:
  two thresholds, another metric, switched off. A channel and a history of one, so
  that the second alert overflows both (`MaxAlerts` two). Probes: three (`MaxProbes`), one of them overtaken.
  Recoveries: two goroutines, two runs for a type (`MaxRecoveries`), two tries.
* `sync_safety`. Manager: two events (of any kind), two summaries, a window of one
  and a clock that ends at two (`MaxTime`), so that versions fall inside and
  outside the window. Users edit at most once per unit of time. Every race here is
  between two parties: two events, or an event and a user. Audit trail: a list of
  two, four recordings, two readings of the clock, so that IDs collide and events
  are evicted. Caches: two goroutines; levels of one and two; three keys for two
  places. A megabyte is two units and the limit one megabyte, so that rounding
  matters. `UsageBound` and `PhantomBound` end the two counters that can grow without
  end: the usage, raised by each replaced value, and the history `phantoms`.
  Ring: three nodes of weight one or two, five places, two collisions.

`MCSymmetry` and `Symmetric` permute jobs and workers, events and summaries; they
are used with invariants and action properties, never with liveness.
`CHECK_DEADLOCK FALSE` everywhere, because the systems stop: after `Stop`, after
the last delivery, after a crash or the exit, or in the deadlocks the findings
describe.

### 4.2 Fairness

Weak fairness is stated per goroutine, never per branch of a `select`: the Go
scheduler is preemptive, timers fire, and handlers return because the HTTP clients
of both trackers have time limits (`jira/client.go:85`, `gitlab/api_client.go:32`)
and the context of a job has a deadline (`queue.go:243`). Submitting, editing,
signals, deadlines that expire and failures belong to the environment and are not
fair. A goroutine that waits for a mutex which is never given back is not enabled,
and weak fairness gives it nothing: in `PriorityQueue` the workers after a job and
`Stop` before it returns, in `ServerLifecycle` the same. The scaling monitor has no
fairness; a property that needs it to stay quiet says so. Beyond that:

* `DelayedFairness`: strong fairness of `HandOver`, that is, the main queue does
  not refuse a job for ever (its workers take jobs, which is what
  `queue_live` shows); and of `SchedulerExit`, one ready branch of a `select`
  that Go takes at random.
* `ClientFairness`: each caller's steps, and the clock that lets a failure cool.
  The service becomes healthy or not, and callers give up or not; the property asks
  what follows if it does and they do not.
* `ServerFairness`: main, and the workers that have a job; not the clients, so a
  shutdown may meet a request that never ends and leave by its timeout.
* `ConfigFairness`: the watcher's tick, its send, and the reloader.
* `PerfFairness`: strong fairness for `Lock` and `RLock`, since a `sync.RWMutex`
  lets nobody wait for ever while the others give it back. `MetricsAnswered` fails
  all the same. `RequestFairness` is the part of it the hooks need.

`JiraWebhook`, `JiraClient`, `IssueMirror`, `GitLabWebhook`, `GitLabClient`,
`SyncManager` and the modules on stage with them have safety properties only, and
no fairness.

## 5. What is proved

TLAPS checks the theorems for every value of the constants that satisfies the
named assumptions (finite sets of jobs, workers, keys and events, natural bounds
and capacities, fresh model values). Every invariant and every action property a
passing run checks is the conclusion of a theorem, type invariants included; what
is left to TLC is at the end of this section. Where a run checks a conjunction over
its scenes (`MonitoringAgrees`, `AnswersExplained`, `BookkeepingAgrees`, `Typed`),
each component's part is proved of its own specification first, and the theorem
about the run puts the invariants together: a step of a scene is a step of one
component and stutters in the others.

**PriorityQueueProofs.** `TypeCorrect`, `OneOwner` (`SingleOwner`),
`WithinBudget` (`RunBudget`), `QueueInvariant` (`QueueInv`). Neither property is
inductive: a step that takes a job from a channel preserves "one owner" only if
the job in the channel is the one its priority says, was sent by a caller who is
past sending, and has no retry goroutine of an older number. `QueueInv` adds
this as `Placed` (where a job may be, and who may hold it) and `RunsCounted`
(a job that waits has run once per retry, a job that runs once more). The
argument has lemmas for what a send and a receive do to the set of queued jobs
(`SendEffect`, `ReceiveEffect`), one for the steps that only move a program
counter (`QuietStep`), and one step per remaining action.

On `QueueInv` rest three more. `AccountsHold` (`AccountsKept`): `NextDrifts` has
`PendingJobs` as what was submitted less the runs started, which is where the drift of
each retry shows, and `RetryingJobs` as the retries counted less those dropped. The other gauges are
sums over program counters, so `GaugesInv` is kept as equations between
cardinalities of sets of callers, workers and retry goroutines, one element
changing sides per step; `FirstRunsInv` says that no retry goroutine gets a job
into a channel without a buffer, and `ContextsFollow` that a context is alive
again after a first run only while its worker is still between the return and
`job.cancel()`. `ScanTakesHighest` (`HighestFirst`), an action property, from
`ScanOwed`: jobs overdue for a scan have not been passed by its cursor, for a job
is removed from `overdue` by whoever takes it. `QueueImplementsLifecycle`
(`ImplementsLifecycle`): under the refinement mapping `Phase`, a step moves at
most one job (`Moves`) and keeps the phases of the others (`Stays`), and each move is
a step of `JobLifecycle` within its budget because of `RunsCounted`.

**JiraWebhookProofs.** `TypeCorrect`, with which no run past the look into the
cache holds a nil event, and `WrittenOnce` (`AppliedOnce`). The inductive
invariant `OnceInv` adds that an entry in the cache, and an event a run
holds, belongs to a delivery of that key (`CacheSound`, `EventSound`); and that a
write, once made, has left no entry for another run to find (`WriteSpent`).
`OnlyExplainedLeaks` (`LeaksExplained`) and `FirstRunMisses` (`FirstRunFinds`)
share `CacheInv`: a delivery whose run reached the cache and whose entry is still
there has that run in progress (`TakenAlong`), and the entry of a stored event
is missing only after some run of its key has come back, or is not the first
(`Emptied`).

**GitLabWebhookProofs.** `TypeCorrect`, `SuccessIsComplete`
(`SuccessMeansCommented`), `AnswerIsComplete` (`AnsweredMeansTried`),
`CommentsAreBounded` (`CommentsBounded`) and `FilterIsSound` (`FilterSound`), from
one inductive invariant, `WebhookInv`. It is stated per delivery (`Sound`), because
each step touches one delivery and `UntouchedSound` settles the others.
`Commented` carries "every mention before `next` is dealt with" through the
loop; `Concluded` says that a result once reached survives until a new run
resets it; `Bounded` sharpens `CommentsBounded` by one for mentions the current
run has still to come to (`Ahead`); `Searched` follows what the searches found to
the decision and beyond. One lemma per action, or per group of actions that only
move a program counter (`QuietStep`). The events are assumed to be events
(`EventAssumption`), and `Longest` to bound their mentions (`LongestAssumption`).

**SyncManagerProofs.** `TypeCorrect`, whose part `PointersOK` says that no
handler follows a nil issue between the search and the end of an update; it is
inductive as it stands, since mirrors are never deleted. `SuccessMeansAllDone`
(`SuccessMeansDone`): the strengthening `LapseInv` follows an error from the call
that returned it, through `err`, to the record in the audit trail.
`IdsDistinct` (`DistinctConflicts`): the strengthening `QueuedSettled` says that a
conflict enters the queue after the last step that could change its ID.
`DuplicatesOnlyExplained` (`DuplicatesExplained`): what a search has not found
stays true until the creation only for the mirrors of that time, so `Searched`
says it of those up to `known[e]`, unless the search failed or the mirror was
renamed since; `NamesKept` ties titles to births, `MadeOnce` keeps `known` of a
maker from changing. `BirthFrame` settles the steps that make no mirror.
`DescriptionsAreKept` (`DescriptionsKept`): `TitlesMerged` says that a merge under
way has no description in conflict, so none of its two writes carries one.
`NewerIsKept` (`NewerLosesOnlyByRace`) needs no more than the types: each of the
two writes is weighed by `JiraNewer` on the copies the event holds, so what it
overwrites can be newer than the other side's copy only by a later edit.

**ProcessProofs.** `PoolTypeCorrect`, `StopLeavesNone` (`StoppedQuiet`) and
`FreezesSoon` (`OneMoreJob`). The inductive `PoolInv` adds two facts about the
pool's synchronisation. `Counted`: the wait group equals the number of workers
that have started and not returned, so a join that passes has seen the last one
leave. `Locked`: from one step to the next only the monitor holds the mutex, so
a monitor that waits for it in `createWorker` waits for itself, and each worker
can finish at most the job it has in hand before it needs the mutex too.

`DelayedTypeCorrect` and `NothingLost` (`InOnePlace`), which counts: `PlacesApart`
says that a waiting event is in no drain's hands and no two drains hold one,
`EmptyHanded` that a drain outside its loop holds none, so that each step moves an
event from one place to the next. `BreakerHolds` (`ClientSound`): `CopyHolds` says
that what a caller read of the breaker after its last failure is still so when the
caller acts on it, and `AttemptsTold` what the attempts made so far say of the
next one and of the result.

`StopsCleanly` (`ServerSafe`). `IdleInv`: once the join has passed no worker can
begin a job, because the contexts stay cancelled, also when `Start` comes late.
`TokensBalance`: the requests let through and the tokens left add up to the burst
and the refills of the key. `ReloadsOnlyAdd` (`ReloadsAddInOrder`): `ReloadsChained`
numbers the configurations in the watcher's hands, in the channel and at the
handlers without a gap, and `InEffect` says that what a configuration has beyond
the defaults is in the environment, which `godotenv.Load` only adds to.
`ActiveExplained` (`InFlightExplained`) counts program counters that a reset moves
to `forgotten`; `NoSnapshotEver` is the deadlock of `perf_metrics` as a theorem: in
every reachable state in which the loop asks for its reader's lock it is the writer
itself, so `updateMetrics` never comes to the end and the history stays empty.

`ProcessTyped` (`Typed`) needs more than the shapes of the variables. A bucket
stays within its burst, and what is left of the routes is a tail of `createMux`
(`TokensTyped`, `RoutesTyped`); the number of a configuration is bounded by the
edits because it is raised only when the file is newer than the watcher's last
look (`EditsBound`).

**JiraSideProofs.** `ClientKeepsWithin` (`JiraClientSafe`): `RateInv` bounds what has
gone out in a tick, what the bucket holds or is owed and the sleepers that have a
token of their own, together; `LockoutInv` says that, as long as nothing has gone
astray, one actor at most stores an answer of the token server, and it is the
newest. `MirrorFollows` (`IssueMirrored`): `ClosedExplained` follows a closed status
through the issue, the events on their way and those in a goroutine's hands, each
of which had a reason; a milestone in hand is one of the project (`HoldsRight`);
and `OneUnheard` says that while nothing has gone wrong at most one remark is on
its way, told or in one hand, and GitLab has all the others. `JiraSideTyped`
(`Typed`) puts them together with `JiraWebhookProofs`.

**GitLabSideProofs.** `AlertsAreTrue` (`AlertsFollow`), for any rules and any
replacement of them: `AlertsCounted` is its equation; `InHand` says that what the
check has in hand is what the metric and the rule say unless it was marked as
overtaken; `OneEach` that no two rules share an ID, in the manager or in a snapshot,
so that what is left of an old snapshot cannot undo the alert of a rule that was seen;
`Followed` is the second conjunct. `MetricsKeep` and `RulesKeep` are the lemmas about
what changes under the check. `StatusFollowsProbes` (`StatusExplained`): probes are numbered, one
under way is never the newest that has ended (`ProbesInOrder`), and each failure is
a probe that has ended, of which there are no more than began (`FailuresWereProbes`).
`RecoveriesAreCounted` (`RecoveriesCounted`) is an equation per type between the
calls of `Recover` and a cardinality, `cleared` taking what a registration or a
clear drops; `TriesLeft` is what the type of an attempt rests on. `ReportsHold`
(`ReportedIsMade`): no status of a refusal is among those that count as success.
`NumbersLeft` bounds what GitLab has made by what it was asked for, so that there
is always a number for the next. `MonitorsAgree` (`MonitoringAgrees`),
`AnswersAreExplained` (`AnswersExplained`) and `GitLabSideTyped` (`Typed`) are the
run's.

**SyncSideProofs.** `TrailIsIndexed` (`AuditIndexed`). The property is not inductive:
`AuditInv` adds that every event in the list was recorded before the next number,
that no two have one number (`Apart`), and that two with one ID share an ID
that `shared` knows. A cut drops the ID of the event that leaves, whosever entry it
was, which is harmless only for an ID that was given once. `QueriesHold`
(`QueriesAgree`) is about what is read. `OrderExists`: events with numbers of
their own can be put in order, by the number of events, each time the one that is
first; so the CHOOSE of `NewestFirst` has something to choose, and what it chooses
has each event once (`NewestFirstOrders`). `OnePage` says what a page holds,
`FirstPages` what the first k hold together, and `PagedUnfolds` that the recursive
function that joins them exists.

`LevelsKeepLimits` (`LayeredBounded`): `LevelsSound` has the entries counted under
each level's mutex, where an eviction comes before the insertion it makes room
for. `OnlyPromotionRevives` (`DeletedStaysGone`): `StaysGone` adds the look-ups and
deletions under way. `CountIsExplained` (`CountExplained`) and `UsageAlwaysCovers`
(`UsageCovers`) share `Counted`, which holds of a state of entries and counters
through each of the loops that evict: one lemma for adding an entry, one for
taking out any set of them. Sums of sizes are cardinalities of sets of units
(`Units`), which needs no induction. `KeysAreLookedAfter` (`KeysLookedAfter`): the
sorted keys are the places of the ring that have a node, and the node is a member
(`RingInv`); the next place for a hash exists because a set of numbers has a least
element. `SyncSideTyped` (`Typed`) and `BookkeepingIsTrue` (`BookkeepingAgrees`) are
the run's.

**Model-checked only.** Liveness under fairness, which is out of the prover's
reach, as is ENABLED: `AcceptedSettles`, `StopReturns`, `UnscaledLives`,
`DelayedArrives`, `BreakerRecovers`, `ShutdownEnds`, `HandlersCatchUp` and
`RequestsUnhindered`. The six runs with a counterexample are instances, and one
instance is what a counterexample needs. The induction theorems of the library
take an operator, which the provers cannot instantiate; where a proof needs
induction over numbers or finite sets (`LeastNatural`, `OrderExists`,
`PagedUnfolds`, `FirstPages`), it looks at the least counterexample, which
`WFMin` of `WellFoundedInduction` provides.

## 6. What is not modelled

* Legacy worker pool (`async/worker_pool.go`): no longer built, and its workers
  never receive from its queue.
* Error types and constructors, the HTTP error handler, utilities, version and
  logger, URL building and parsing, Prometheus and tracing: no state, or
  formatting and forwarding.
* The adapters of the sync (`gitlab_adapter.go`, `jira_adapter.go`): "not yet
  implemented", or one call passed on. `SyncManager` follows the interfaces, and
  a refused write is one of its answers.
* The Atlassian Document Format, the Agile, JSM and custom-field clients: large,
  but data. Each builds a document or a request from its arguments.
* Webhook authentication: pure checks of one request.
* Enhanced health monitoring (`enhanced_monitoring.go`, `health.go`,
  `monitoring.go`): not built by `server.New`, mostly simulated checks; what was
  found in it is in section 1.3.

Left out of modelled components: `IsHealthy`, listings and statistics that only
read; `ScaleDown`, which needs more than `MinWorkers` workers, which no state
has; the middlewares of the chain that log, measure or limit the time of one job;
compression, encryption and value hashes of the advanced cache, and what
`DistributedCache` derives from counters; parsers of mappings and validators of
single settings; `AllowWithContext`; gauges computed from counters; dashboards and
exports of `AdvancedMonitor`, and metrics with labels, which no rule finds; the panic
of a Jira event whose issue has no fields or no project; the look-up of the assignee, and the text of titles, labels and comments;
the contents of requests and answers of both clients; the error of a Jira project
that is mapped nowhere; labels and assignees beyond the success of the calls that
set them; the second family of `process…Event` methods in `handler.go`
(446-1029), which nothing calls. The drain of the queue at `Stop` is not a
property: `docs/reference/config.md:81` mentions it, but the workers leave their
loop whatever the channels hold. `checkScaling` reads the length of the slice of
workers without the mutex; since no worker is ever added while the monitor runs,
the read has one outcome. Two goroutines in `eventCache` at once are an outcome
of `JiraWebhook` (`MapRace`), and no property asks for its absence.
