--------------------------- MODULE WebhookMonitor ---------------------------
(***************************************************************************)
(* internal/monitoring/webhook_monitor.go: the probes of the endpoints and *)
(* the requests the handlers report.                                       *)
(*                                                                         *)
(* Every tick, and every call of HandleReconnect (handlers.go), starts one *)
(* goroutine per endpoint; nothing keeps two probes of one endpoint from   *)
(* running at once and ending in either order.  A probe is numbered when   *)
(* it begins; what an endpoint answers is left open.                       *)
(***************************************************************************)
EXTENDS Integers, FiniteSets

CONSTANTS
  Endpoints,   \* the endpoints initializeEndpoints knows
  Elsewhere,   \* endpoints others name: "/jira-webhook", or no endpoint
  MaxProbes,   \* bound: probes begun
  MaxReports   \* bound: requests reported by handlers

ASSUME WebhookMonitorAssumption ==
  /\ Endpoints \cap Elsewhere = {} /\ IsFiniteSet(Endpoints)
  /\ MaxProbes \in Nat /\ MaxReports \in Nat

VARIABLES
  loop,       \* monitorLoop: "unborn", "running" or "stopped"
  statuses,   \* m.statuses: status and FailureCount, of what is known
  metrics,    \* m.metrics: requests, of them good and bad
  probes,     \* the probes under way: number, endpoint
  begun,      \* probes begun
  reports,    \* requests reported
  lastSaid    \* history, per endpoint: number and answer of the newest probe
              \* that has ended, the number of the one that was last to end

webhookVars == <<loop, statuses, metrics, probes, begun, reports, lastSaid>>

NoRequests == [total |-> 0, good |-> 0, bad |-> 0]

WebhookInit ==
  /\ loop = "unborn"
  /\ statuses = [e \in {} |-> 0] /\ metrics = [e \in {} |-> 0]
  /\ probes = {} /\ begun = 0 /\ reports = 0
  /\ lastSaid = [e \in Endpoints |-> [newest |-> 0, answer |-> "unknown", last |-> 0]]

\* Start, with initializeEndpoints.
StartMonitor ==
  /\ loop = "unborn"
  /\ loop' = "running"
  /\ statuses' = [e \in Endpoints |-> [status |-> "unknown", failures |-> 0]]
  /\ metrics' = [e \in Endpoints \cup DOMAIN metrics |->
                   IF e \in Endpoints THEN NoRequests ELSE metrics[e]]
  /\ UNCHANGED <<probes, begun, reports, lastSaid>>

\* The cancelled context ends the loop; a probe under way fails, unless it
\* has its answer.
StopMonitor ==
  /\ loop = "running"
  /\ loop' = "stopped"
  /\ UNCHANGED <<statuses, metrics, probes, begun, reports, lastSaid>>

\* checkAllEndpoints.
CheckAllEndpoints ==
  /\ loop = "running"
  /\ begun + Cardinality(Endpoints) <= MaxProbes
  /\ probes' = probes \cup {[number |-> begun + 1, endpoint |-> e] : e \in Endpoints}
  /\ begun' = begun + Cardinality(Endpoints)
  /\ UNCHANGED <<loop, statuses, metrics, reports, lastSaid>>

\* HandleReconnect probes what it is asked to, known or not.
HandleReconnect(e) ==
  /\ begun < MaxProbes
  /\ probes' = probes \cup {[number |-> begun + 1, endpoint |-> e]}
  /\ begun' = begun + 1
  /\ UNCHANGED <<loop, statuses, metrics, reports, lastSaid>>

Counted(e, good) ==
  LET m == IF e \in DOMAIN metrics THEN metrics[e] ELSE NoRequests
      counted == [total |-> m.total + 1, good |-> m.good + (IF good THEN 1 ELSE 0),
                  bad |-> m.bad + (IF good THEN 0 ELSE 1)]
  IN metrics' = [x \in DOMAIN metrics \cup {e} |-> IF x = e THEN counted ELSE metrics[x]]

Newest(p, answer) ==
  [newest |-> IF p.number > lastSaid[p.endpoint].newest THEN p.number ELSE lastSaid[p.endpoint].newest,
   answer |-> IF p.number > lastSaid[p.endpoint].newest THEN answer ELSE lastSaid[p.endpoint].answer,
   last   |-> p.number]

\* A success leaves the status an earlier failure has set.
UpdateStatusSticks(p, good) ==
  LET e == p.endpoint
      answer == IF good THEN "healthy" ELSE "unhealthy"
  IN
  /\ p \in probes
  /\ probes' = probes \ {p}
  /\ IF e \notin DOMAIN statuses
       THEN UNCHANGED <<statuses, metrics, lastSaid>>
       ELSE /\ statuses' = [statuses EXCEPT ![e] =
                 IF good THEN @ ELSE [status |-> "unhealthy", failures |-> @.failures + 1]]
            /\ Counted(e, good)
            /\ lastSaid' = [lastSaid EXCEPT ![e] = Newest(p, answer)]
  /\ UNCHANGED <<loop, begun, reports>>

\* checkEndpoint has its answer, and updateStatus stores it; an endpoint that
\* is not known is passed over, in the metrics too.
UpdateStatus(p, good) ==
  LET e == p.endpoint
      answer == IF good THEN "healthy" ELSE "unhealthy"
  IN
  /\ p \in probes
  /\ probes' = probes \ {p}
  /\ IF e \notin DOMAIN statuses
       THEN UNCHANGED <<statuses, metrics, lastSaid>>
       ELSE /\ statuses' = [statuses EXCEPT ![e] =
                 [status |-> answer, failures |-> IF good THEN @.failures ELSE @.failures + 1]]
            /\ Counted(e, good)
            /\ lastSaid' = [lastSaid EXCEPT ![e] = Newest(p, answer)]
  /\ UNCHANGED <<loop, begun, reports>>

\* A handler's defer; an endpoint that is not known gets metrics here.
RecordRequest(e, good) ==
  /\ reports < MaxReports
  /\ reports' = reports + 1
  /\ Counted(e, good)
  /\ UNCHANGED <<loop, statuses, probes, begun, lastSaid>>

WebhookNext ==
  \/ StartMonitor \/ StopMonitor \/ CheckAllEndpoints
  \/ \E e \in Endpoints \cup Elsewhere : HandleReconnect(e)
  \/ \E p \in probes, good \in BOOLEAN : UpdateStatus(p, good)
  \/ \E e \in Endpoints \cup Elsewhere, good \in BOOLEAN : RecordRequest(e, good)

WebhookSpec == WebhookInit /\ [][WebhookNext]_webhookVars

IsHealthy == \A e \in DOMAIN statuses : statuses[e].status = "healthy"

-----------------------------------------------------------------------------
(* Properties                                                              *)

\* Type invariant of the webhook monitor.
WebhookTypeOK ==
  /\ loop \in {"unborn", "running", "stopped"}
  /\ DOMAIN statuses \subseteq Endpoints /\ DOMAIN metrics \subseteq Endpoints \cup Elsewhere
  /\ \A e \in DOMAIN statuses :
       statuses[e] \in [status : {"unknown", "healthy", "unhealthy"}, failures : 0..MaxProbes]
  /\ \A e \in DOMAIN metrics : metrics[e] \in [total : Nat, good : Nat, bad : Nat]
  /\ probes \subseteq [number : 1..MaxProbes, endpoint : Endpoints \cup Elsewhere]
  /\ begun \in 0..MaxProbes /\ reports \in 0..MaxReports

\* An endpoint shows what its newest probe found, unless an older one ended
\* after it; IsHealthy is said only of endpoints that were all probed; and
\* every request counted is good or bad, the failures of the status among
\* the bad (updateStatus, RecordRequest).
StatusExplained ==
  /\ \A e \in DOMAIN statuses :
       /\ lastSaid[e].last = lastSaid[e].newest => statuses[e].status = lastSaid[e].answer
       /\ statuses[e].failures <= metrics[e].bad
  /\ loop # "unborn" /\ IsHealthy => \A e \in Endpoints : lastSaid[e].newest > 0
  /\ \A e \in DOMAIN metrics : metrics[e].total = metrics[e].good + metrics[e].bad
=============================================================================
