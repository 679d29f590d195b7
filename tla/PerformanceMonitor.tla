------------------------- MODULE PerformanceMonitor -------------------------
(***************************************************************************)
(* internal/monitoring/performance_monitor.go: the middleware around the   *)
(* hooks, which counts with atomics, and the goroutines that take pm.mu:   *)
(* the handlers of /performance* and the loop that updates the metrics.    *)
(*                                                                         *)
(* pm.mu is a sync.RWMutex: RLock waits for a writer that holds it and for *)
(* one that waits for it, also when that writer is the caller itself.      *)
(***************************************************************************)
EXTENDS Integers, FiniteSets

CONSTANTS
  Measured,        \* requests to a hook
  Askers,          \* goroutines of the monitoring endpoints
  MaxConcurrent,   \* maxConcurrentRequests
  MaxAsks,         \* bound: calls the askers make
  HistoryMaxSize   \* historyMaxSize

ASSUME MonitorAssumption ==
  /\ IsFiniteSet(Measured) /\ IsFiniteSet(Askers)
  /\ MaxConcurrent \in Nat \ {0} /\ MaxAsks \in Nat /\ HistoryMaxSize \in Nat \ {0}

Loop == "metricsUpdateLoop"

ASSUME LoopAssumption == Loop \notin Askers

Lockers == Askers \cup {Loop}

Reading == {"GetMetrics", "GetPerformanceHistory"}
Writing == {"SetTargets", "SetAlertThresholds", "Reset"}

VARIABLES
  writer,     \* who holds pm.mu for writing, {} or one goroutine
  readers,    \* who holds it for reading
  locker,     \* [Lockers -> [at, doing]]
  nested,     \* calls of GetMetrics updateMetrics has still to make
  asks,       \* calls begun by the askers
  request,    \* where each request is
  active,     \* activeRequests
  counts,     \* totalRequests and totalErrors
  history,    \* len(performanceHistory)
  forgotten   \* history: requests in flight that Reset took from activeRequests

perfVars == <<writer, readers, locker, nested, asks, request, active, counts, history, forgotten>>

NoCounts == [requests |-> 0, errors |-> 0]

PerfInit ==
  /\ writer = {} /\ readers = {}
  /\ locker = [g \in Lockers |-> [at |-> "idle", doing |-> "nothing"]]
  /\ nested = 0 /\ asks = 0
  /\ request = [r \in Measured |-> "unsent"]
  /\ active = 0 /\ counts = NoCounts /\ history = 0 /\ forgotten = 0

-----------------------------------------------------------------------------
(* PerformanceMiddleware and RecordRequest                                 *)

\* A request is counted and then refused, which nothing takes back.
EnterCounted(r) ==
  /\ request[r] = "checked"
  /\ active' = active + 1
  /\ request' = [request EXCEPT ![r] = IF active < MaxConcurrent THEN "inside" ELSE "refused"]
  /\ UNCHANGED <<writer, readers, locker, nested, asks, counts, history, forgotten>>

\* The limit is checked in one atomic step and the counter raised in another.
Check(r) ==
  /\ request[r] = "unsent"
  /\ request' = [request EXCEPT ![r] = IF active < MaxConcurrent THEN "checked" ELSE "refused"]
  /\ UNCHANGED <<writer, readers, locker, nested, asks, active, counts, history, forgotten>>

Enter(r) ==
  /\ request[r] = "checked"
  /\ active' = active + 1
  /\ request' = [request EXCEPT ![r] = "inside"]
  /\ UNCHANGED <<writer, readers, locker, nested, asks, counts, history, forgotten>>

RecordLocked(r) ==
  /\ request[r] = "inside"
  /\ writer = {}
  /\ counts' = [counts EXCEPT !.requests = @ + 1]
  /\ \E status \in {"recorded", "erred"} : request' = [request EXCEPT ![r] = status]
  /\ UNCHANGED <<writer, readers, locker, nested, asks, active, history, forgotten>>

\* The handler has answered and RecordRequest counts: no lock is taken.
Record(r) ==
  /\ request[r] = "inside"
  /\ counts' = [counts EXCEPT !.requests = @ + 1]
  /\ \E status \in {"recorded", "erred"} : request' = [request EXCEPT ![r] = status]
  /\ UNCHANGED <<writer, readers, locker, nested, asks, active, history, forgotten>>

\* A status of 400 and more.
RecordError(r) ==
  /\ request[r] = "erred"
  /\ counts' = [counts EXCEPT !.errors = @ + 1]
  /\ request' = [request EXCEPT ![r] = "recorded"]
  /\ UNCHANGED <<writer, readers, locker, nested, asks, active, history, forgotten>>

Leave(r) ==
  /\ request[r] = "recorded"
  /\ active' = active - 1
  /\ request' = [request EXCEPT ![r] = "left"]
  /\ UNCHANGED <<writer, readers, locker, nested, asks, counts, history, forgotten>>

\* The handler panics: net/http answers, RecordRequest is passed over, and
\* the deferred decrement runs.
Panic(r) ==
  /\ request[r] = "inside"
  /\ active' = active - 1
  /\ request' = [request EXCEPT ![r] = "left"]
  /\ UNCHANGED <<writer, readers, locker, nested, asks, counts, history, forgotten>>

-----------------------------------------------------------------------------
(* pm.mu                                                                   *)

At(g, place) == [locker EXCEPT ![g].at = place]

Waiting(place) == {g \in Lockers : locker[g].at = place}

Ask(a) ==
  /\ locker[a].at = "idle"
  /\ asks < MaxAsks
  /\ asks' = asks + 1
  /\ \E call \in Reading \cup Writing :
       locker' = [locker EXCEPT ![a] = [at |-> IF call \in Reading THEN "RLock" ELSE "Lock", doing |-> call]]
  /\ UNCHANGED <<writer, readers, nested, request, active, counts, history, forgotten>>

\* metricsUpdateInterval has passed: updateMetrics.
UpdateTick ==
  /\ locker[Loop].at = "idle"
  /\ locker' = [locker EXCEPT ![Loop] = [at |-> "Lock", doing |-> "updateMetrics"]]
  /\ UNCHANGED <<writer, readers, nested, asks, request, active, counts, history, forgotten>>

\* Close, from Server.Shutdown: the loop meets ctx.Done between two ticks.
CloseMonitor ==
  /\ locker[Loop].at = "idle"
  /\ locker' = At(Loop, "ended")
  /\ UNCHANGED <<writer, readers, nested, asks, request, active, counts, history, forgotten>>

Lock(g) ==
  /\ locker[g].at = "Lock"
  /\ writer = {} /\ readers = {}
  /\ writer' = {g}
  /\ locker' = At(g, "locked")
  /\ UNCHANGED <<readers, nested, asks, request, active, counts, history, forgotten>>

RLock(g) ==
  /\ locker[g].at = "RLock"
  /\ writer = {} /\ Waiting("Lock") = {}
  /\ readers' = readers \cup {g}
  /\ locker' = At(g, "rlocked")
  /\ UNCHANGED <<writer, nested, asks, request, active, counts, history, forgotten>>

Unlocked(g) == writer' = writer \ {g} /\ locker' = At(g, "idle")

SetTargets(g) ==
  /\ locker[g].at = "locked" /\ locker[g].doing \in {"SetTargets", "SetAlertThresholds"}
  /\ Unlocked(g)
  /\ UNCHANGED <<readers, nested, asks, request, active, counts, history, forgotten>>

\* The requests in flight are counted down to a negative number later.
Reset(g) ==
  /\ locker[g].at = "locked" /\ locker[g].doing = "Reset"
  /\ counts' = NoCounts /\ history' = 0
  /\ active' = 0 /\ forgotten' = forgotten + active
  /\ Unlocked(g)
  /\ UNCHANGED <<readers, nested, asks, request>>

\* Under Lock, storePerformanceSnapshot and then checkAlerts call GetMetrics,
\* which calls RLock.
UpdateMetrics ==
  /\ locker[Loop].at = "locked"
  /\ nested' = 2
  /\ locker' = At(Loop, "RLock")
  /\ UNCHANGED <<writer, readers, asks, request, active, counts, history, forgotten>>

\* The copy is made and the deferred RUnlock runs; in the loop the first
\* GetMetrics ends in a longer history, the second in updateMetrics' Unlock.
RUnlock(g) ==
  /\ locker[g].at = "rlocked"
  /\ readers' = readers \ {g}
  /\ nested' = IF g = Loop THEN nested - 1 ELSE nested
  /\ history' = IF g = Loop /\ nested = 2 /\ history < HistoryMaxSize THEN history + 1 ELSE history
  /\ locker' = At(g, IF g = Loop /\ nested = 2 THEN "RLock" ELSE "idle")
  /\ writer' = IF g = Loop /\ nested = 1 THEN {} ELSE writer
  /\ UNCHANGED <<asks, request, active, counts, forgotten>>

-----------------------------------------------------------------------------
RequestStep(r) == Enter(r) \/ Record(r) \/ RecordError(r) \/ Leave(r)

Held(g) == Lock(g) \/ RLock(g) \/ SetTargets(g) \/ Reset(g) \/ RUnlock(g)

PerfNext ==
  \/ \E r \in Measured : Check(r) \/ RequestStep(r) \/ Panic(r)
  \/ \E a \in Askers : Ask(a)
  \/ \E g \in Lockers : Held(g)
  \/ UpdateTick \/ UpdateMetrics \/ CloseMonitor

PerfSpec == PerfInit /\ [][PerfNext]_perfVars

\* The goroutine of a request runs.
RequestFairness == \A r \in Measured : WF_perfVars(RequestStep(r))

\* Every goroutine runs; RWMutex lets nobody wait for ever while the others
\* give it back.
PerfFairness ==
  /\ RequestFairness
  /\ \A g \in Lockers : /\ WF_perfVars(SetTargets(g) \/ Reset(g) \/ RUnlock(g))
                        /\ SF_perfVars(Lock(g) \/ RLock(g))
  /\ WF_perfVars(UpdateTick) /\ WF_perfVars(UpdateMetrics)

PerfFairSpec == PerfSpec /\ PerfFairness

-----------------------------------------------------------------------------
(* Properties                                                              *)

\* Type invariant of the monitor.
PerfTypeOK ==
  /\ writer \subseteq Lockers /\ readers \subseteq Lockers
  /\ locker \in [Lockers -> [at : {"idle", "Lock", "locked", "RLock", "rlocked", "ended"},
                             doing : Reading \cup Writing \cup {"nothing", "updateMetrics"}]]
  /\ nested \in 0..2 /\ asks \in 0..MaxAsks
  /\ request \in [Measured -> {"unsent", "checked", "refused", "inside", "erred", "recorded", "left"}]
  /\ active \in Int /\ forgotten \in Int /\ history \in 0..HistoryMaxSize
  /\ counts \in [requests : Nat, errors : Nat]

InFlight == {r \in Measured : request[r] \in {"inside", "erred", "recorded"}}

\* activeRequests is the number of requests inside, less those that were
\* inside when somebody reset the counters: a refused request is not counted
\* and one that leaves is taken off once (PerformanceMiddleware, Reset).
InFlightExplained == active + forgotten = Cardinality(InFlight)

\* A request that came in gets out, whatever the goroutines of the monitor
\* wait for: the hooks never need pm.mu (PerformanceMiddleware, RecordRequest).
RequestsUnhindered == \A r \in Measured : request[r] = "inside" ~> request[r] = "left"

\* Who asks for the metrics, or sets targets, is answered (GetMetrics,
\* GetPerformanceHistory, SetTargets, Reset).
MetricsAnswered == \A a \in Askers : locker[a].at # "idle" ~> locker[a].at = "idle"
=============================================================================
