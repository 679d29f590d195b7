----------------------------- MODULE MCJiraSide -----------------------------
(* What talks to Jira, for TLC: the webhook handler with its retries, the  *)
(* Jira client, and the mirror of an issue.  A behaviour has the steps of  *)
(* one of them, its scene.                                                 *)
EXTENDS MCJiraWebhook, JiraClient, MCIssueMirror

CONSTANT Scenes   \* of "webhook", "client", "mirror"

VARIABLE scene

\* What is not on the scene begins in one of its initial states.
JiraSideInit ==
  /\ scene \in Scenes
  /\ Init /\ JiraClientInit /\ MirrorInit
  /\ scene # "client" => remote = "todo"
  /\ scene # "mirror" => jiraIssue.status = "Open"

In(s) == scene = s /\ UNCHANGED scene

WebhookScene == In("webhook") /\ Next /\ UNCHANGED <<jiraClientVars, mirrorVars>>
ClientScene == In("client") /\ JiraClientNext /\ UNCHANGED <<vars, mirrorVars>>
MirrorScene == In("mirror") /\ MirrorNext /\ UNCHANGED <<vars, jiraClientVars>>

JiraSideNext == WebhookScene \/ ClientScene \/ MirrorScene

JiraSideSpec ==
  JiraSideInit /\ [][JiraSideNext]_<<scene, vars, jiraClientVars, mirrorVars>>

\* Every variable of every component has its type.
Typed == scene \in Scenes /\ TypeOK /\ JiraClientTypeOK /\ MirrorTypeOK
=============================================================================
