---------------------------- MODULE MCGitLabSide ----------------------------
(* What talks to GitLab and what watches the server, for TLC: the webhook  *)
(* handlers, the GitLab client, the alerts, the webhook monitor and the    *)
(* recovery manager.  A behaviour has the steps of one of them, its scene. *)
EXTENDS MCGitLabWebhook, GitLabClient, AlertManager, WebhookMonitor, ErrorRecovery

CONSTANT Scenes   \* of "webhook", "client", "alerts", "monitor", "recovery"

VARIABLE scene

\* A well-formed request, and one for each check that may refuse it.
Asked(p, i, b) == [project |-> p, iid |-> i, body |-> b]
SomeRequests ==
  {Asked("small", 1, "full"), Asked("small", 2, "full"), Asked("huge", 1, "full"),
   Asked("zero", 1, "full"), Asked("path", 1, "full"), Asked("small", 0, "full"),
   Asked("small", 1, "nil"), Asked("small", 1, "empty")}

\* A rule that may be replaced by one with another threshold, another metric,
\* or switched off, and a second rule on one of the metrics.
Watches(id, m, raises, on) == [id |-> id, metric |-> m, raises |-> raises, enabled |-> on]
SomeRules ==
  {Watches("load", "cpu", {2}, TRUE), Watches("load", "cpu", {1, 2}, TRUE),
   Watches("load", "heap", {2}, TRUE), Watches("load", "cpu", {2}, FALSE),
   Watches("leak", "heap", {1, 2}, TRUE)}

\* What is not on the scene begins in one of its initial states.
GitLabSideInit ==
  /\ scene \in Scenes
  /\ Init /\ GitLabClientInit /\ AlertInit /\ WebhookInit /\ RecoveryInit
  /\ scene # "webhook" => config = [filter |-> FALSE, matching |-> {}, attempts |-> 0]

In(s) == scene = s /\ UNCHANGED scene

WebhookScene ==
  In("webhook") /\ Next /\ UNCHANGED <<gitlabClientVars, alertVars, webhookVars, recoveryVars>>
ClientScene ==
  In("client") /\ GitLabClientNext /\ UNCHANGED <<vars, alertVars, webhookVars, recoveryVars>>
AlertScene ==
  In("alerts") /\ AlertNext /\ UNCHANGED <<vars, gitlabClientVars, webhookVars, recoveryVars>>
MonitorScene ==
  In("monitor") /\ WebhookNext /\ UNCHANGED <<vars, gitlabClientVars, alertVars, recoveryVars>>
RecoveryScene ==
  In("recovery") /\ RecoveryNext /\ UNCHANGED <<vars, gitlabClientVars, alertVars, webhookVars>>

GitLabSideNext == WebhookScene \/ ClientScene \/ AlertScene \/ MonitorScene \/ RecoveryScene

GitLabSideSpec ==
  /\ GitLabSideInit
  /\ [][GitLabSideNext]_<<scene, vars, gitlabClientVars, alertVars, webhookVars, recoveryVars>>

\* Every variable of every component has its type.
Typed ==
  /\ scene \in Scenes
  /\ TypeOK /\ GitLabClientTypeOK /\ AlertTypeOK /\ WebhookTypeOK /\ RecoveryTypeOK

\* What the webhooks answer and what the client reports has happened.
AnswersExplained == AnsweredMeansTried /\ ReportedIsMade

\* What the monitors show is what they have seen.
MonitoringAgrees == AlertsFollow /\ StatusExplained /\ RecoveriesCounted
=============================================================================
