------------------------------ MODULE MCProcess -----------------------------
(* The goroutines of one process, for TLC: the worker pool, the delayed    *)
(* queue, the resilient client, start-up and shutdown, the configuration   *)
(* and the performance monitor.  They share no state, so one behaviour has *)
(* the steps of one of them, its scene.                                    *)
EXTENDS MCWorkerPool, DelayedQueue, ResilientClient, MCServerLifecycle, Configuration,
        PerformanceMonitor

CONSTANT Scenes   \* of "pool", "delayed", "client", "server", "config", "monitor"

VARIABLE scene

\* Statuses of every kind: good, not worth a retry, worth one.
SomeStatuses == {200, 404, NoAnswer}

\* Files that differ in a setting both have, in a pair that is valid only
\* together, in settings Load does not read, and two that are not valid: one
\* for good, one until the file after it adds what is missing.
Nothing == [s \in Settings |-> Unset]
Plain == [Nothing EXCEPT !["JIRA_TOKEN"] = 1]
FewWorkers == [Plain EXCEPT !["MIN_WORKERS"] = 3]
OneOrTwo ==
  [Plain EXCEPT !["MIN_WORKERS"] = 1, !["MAX_WORKERS"] = 2, !["BIDIRECTIONAL_ENABLED"] = 1]
JWTWithoutAudience == [Plain EXCEPT !["JWT_ENABLED"] = 1]
JWT == [JWTWithoutAudience EXCEPT !["JWT_EXPECTED_AUDIENCE"] = 1]
SomeFiles == {Nothing, Plain, FewWorkers, OneOrTwo, JWTWithoutAudience, JWT}

\* What is not on the scene begins in one of its initial states.
ProcessInit ==
  /\ scene \in Scenes
  /\ Init /\ DelayedInit /\ ClientInit /\ ServerInit /\ ConfigInit /\ PerfInit
  /\ scene # "config" => file.content = Nothing

In(s) == scene = s /\ UNCHANGED scene

PoolScene ==
  In("pool") /\ Next /\ UNCHANGED <<delayedVars, clientVars, serverVars, configVars, perfVars>>
DelayedScene ==
  In("delayed") /\ DelayedNext /\ UNCHANGED <<vars, clientVars, serverVars, configVars, perfVars>>
ClientScene ==
  In("client") /\ ClientNext /\ UNCHANGED <<vars, delayedVars, serverVars, configVars, perfVars>>
ServerScene ==
  In("server") /\ ServerNext /\ UNCHANGED <<vars, delayedVars, clientVars, configVars, perfVars>>
ConfigScene ==
  In("config") /\ ConfigNext /\ UNCHANGED <<vars, delayedVars, clientVars, serverVars, perfVars>>
MonitorScene ==
  In("monitor") /\ PerfNext /\ UNCHANGED <<vars, delayedVars, clientVars, serverVars, configVars>>

ProcessNext ==
  PoolScene \/ DelayedScene \/ ClientScene \/ ServerScene \/ ConfigScene \/ MonitorScene

processVars == <<scene, vars, delayedVars, clientVars, serverVars, configVars, perfVars>>

\* The scene's goroutines run, under the fairness of its own module.
SceneFairness ==
  \/ scene = "pool" /\ Fairness
  \/ scene = "delayed" /\ DelayedFairness
  \/ scene = "client" /\ ClientFairness
  \/ scene = "server" /\ ServerFairness
  \/ scene = "config" /\ ConfigFairness
  \/ scene = "monitor" /\ RequestFairness

ProcessSpec == ProcessInit /\ [][ProcessNext]_processVars /\ SceneFairness

\* Every variable of every component has its type.
Typed ==
  /\ scene \in Scenes
  /\ TypeOK /\ DelayedTypeOK /\ ClientTypeOK /\ ServerTypeOK /\ ConfigTypeOK /\ PerfTypeOK
=============================================================================
