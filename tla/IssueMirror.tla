---------------------------- MODULE IssueMirror ----------------------------
(***************************************************************************)
(* What the Jira webhook handler (internal/jira/webhook_handler.go) writes *)
(* to the GitLab issue of a Jira issue, and, in HandleGitLabWebhook, what  *)
(* it writes back.  One Jira issue and its GitLab issue, whose title names *)
(* it; the module JiraWebhook has the queueing, the event cache and the    *)
(* creation.  Jira and GitLab are external, and so is the workflow of the  *)
(* Jira issue: each transition has a name, of which its word is kept.      *)
(***************************************************************************)
EXTENDS Integers, FiniteSets, Sequences

CONSTANTS
  Mirrors,         \* goroutines: workers and HTTP handlers
  ClosedStatuses,  \* Jira statuses isClosedStatus takes for closed
  Workflow,        \* transitions [from, word, to], word the keyword in its name
  FixVersions,     \* Jira versions that may be an issue's first
  Released,        \* those of them that are released
  FallbackClosed,  \* getClosedJiraStatus's known statuses
  FallbackOpen,    \* getOpenJiraStatus's
  TwoWay,          \* GitLab's issue events reach HandleGitLabWebhook
  MaxEdits,        \* bound: what people do, on both sides
  MaxEchoes,       \* bound: GitLab events the mirror's own writes cause
  MirrorTries      \* attempts of a job before it is given up

Statuses == {t.from : t \in Workflow} \cup {t.to : t \in Workflow}

ASSUME MirrorAssumption ==
  /\ Workflow # {} /\ \A t \in Workflow : t.word \in {"close", "open", "other"} /\ t.from # t.to
  /\ Released \subseteq FixVersions /\ {"none", "cleared"} \cap FixVersions = {}
  /\ TwoWay \in BOOLEAN /\ MirrorTries \in Nat \ {0} /\ MaxEdits \in Nat /\ MaxEchoes \in Nat

VARIABLES
  jiraIssue,     \* status and first fix version
  gitlabIssue,   \* state, milestone, and whether its title still names the key
  jiraEvents,    \* deliveries not taken up: kind, snapshot, changelog, attempts
  gitlabEvents,  \* issue events on their way to HandleGitLabWebhook
  mirror,        \* per goroutine: where it is, and with what
  milestones,    \* the project's milestones
  people,        \* edits made so far
  echoes,        \* events caused by the mirror so far
  reason,        \* somebody closed the GitLab issue, or Jira was in a closed status
  remarks,       \* comments, worklogs and deletions people made in Jira
  clean          \* so far nothing failed, no event overtook another, GitLab was let alone

mirrorVars == <<jiraIssue, gitlabIssue, jiraEvents, gitlabEvents, mirror, milestones, people,
                echoes, reason, remarks, clean>>

NoEvent == [kind |-> "none"]
AtEase == [pc |-> "idle", event |-> NoEvent, chosen |-> "none"]

MirrorInit ==
  /\ \E s \in Statuses \ ClosedStatuses : jiraIssue = [status |-> s, version |-> "none"]
  /\ gitlabIssue = [state |-> "opened", milestone |-> "none", titled |-> TRUE, notes |-> 0]
  /\ jiraEvents = {} /\ gitlabEvents = {}
  /\ mirror = [m \in Mirrors |-> AtEase]
  /\ milestones = {}
  /\ people = 0 /\ echoes = 0
  /\ reason = FALSE /\ remarks = 0 /\ clean = TRUE

-----------------------------------------------------------------------------
(* The mapping of statuses                                                 *)

\* A status that is mapped to any label counts.
isClosedStatusAnyLabel(status) == status \in Statuses

isClosedStatus(status) == status \in ClosedStatuses   \* "" is not

\* Both of its branches decide alike, StatusMappingEnabled or not.
getStatusTransition(old, new) ==
  CASE ~isClosedStatus(old) /\ isClosedStatus(new) -> "close"
    [] isClosedStatus(old) /\ ~isClosedStatus(new) -> "reopen"
    [] OTHER -> ""

\* The status before the event is taken from the changelog item's ToString;
\* without such an item it is "".
updateIssueState(event) ==
  getStatusTransition(IF event.moved THEN event.status ELSE "", event.status)

Apply(state, change) ==
  CASE change = "close" -> "closed" [] change = "reopen" -> "opened" [] change = "" -> state

Offered(status) == {t \in Workflow : t.from = status}

\* findStatusViaTransitions, Jira listing the transitions in any order.
Matching(state, status) ==
  {t.to : t \in {u \in Offered(status) : u.word = IF state = "closed" THEN "close" ELSE "open"}}

\* The first known status that is not the issue's own.
Fallback(state, status) ==
  LET known == IF state = "closed" THEN FallbackClosed ELSE FallbackOpen
  IN known[CHOOSE n \in DOMAIN known : known[n] # status /\ \A j \in 1..(n-1) : known[j] = status]

-----------------------------------------------------------------------------
(* People, and Jira's and GitLab's deliveries                              *)

Snapshot(kind, issue, moved) ==
  [kind |-> kind, status |-> issue.status, version |-> issue.version, moved |-> moved, attempt |-> 1]

DeliverEvent(event) == jiraEvents' = jiraEvents \cup {event}

AllQuiet == jiraEvents = {} /\ gitlabEvents = {} /\ \A m \in Mirrors : mirror[m].pc = "idle"

EditJira ==
  /\ people < MaxEdits /\ people' = people + 1
  /\ clean' = (clean /\ AllQuiet)
  /\ \/ \E t \in Offered(jiraIssue.status) :
          /\ jiraIssue' = [jiraIssue EXCEPT !.status = t.to]
          /\ DeliverEvent(Snapshot("issue", jiraIssue', TRUE))
          /\ reason' = (reason \/ t.to \in ClosedStatuses)
          /\ UNCHANGED remarks
     \/ \E v \in FixVersions \cup {"none"} :
          /\ jiraIssue' = [jiraIssue EXCEPT !.version = v]
          /\ DeliverEvent(Snapshot("issue", jiraIssue', FALSE))
          /\ UNCHANGED <<reason, remarks>>
     \/ \E kind \in {"comment", "worklog", "deleted"} :
          /\ DeliverEvent(Snapshot(kind, jiraIssue, FALSE))
          /\ remarks' = remarks + 1
          /\ UNCHANGED <<jiraIssue, reason>>
  /\ UNCHANGED <<gitlabIssue, gitlabEvents, mirror, milestones, echoes>>

\* The events HandleGitLabWebhook does not ignore: update, close, reopen.
Tell(state, titled) ==
  gitlabEvents' = IF TwoWay THEN gitlabEvents \cup {[kind |-> "gitlab", state |-> state, titled |-> titled]}
                            ELSE gitlabEvents

EditGitLab ==
  /\ people < MaxEdits /\ people' = people + 1
  /\ clean' = FALSE
  /\ \/ /\ gitlabIssue' = [gitlabIssue EXCEPT !.state = IF @ = "opened" THEN "closed" ELSE "opened"]
        /\ reason' = TRUE
        /\ Tell(gitlabIssue'.state, gitlabIssue.titled)
     \/ /\ gitlabIssue.titled
        /\ gitlabIssue' = [gitlabIssue EXCEPT !.titled = FALSE]
        /\ Tell(gitlabIssue.state, FALSE)
        /\ UNCHANGED reason
  /\ UNCHANGED <<jiraIssue, jiraEvents, mirror, milestones, echoes, remarks>>

-----------------------------------------------------------------------------
(* processIssueUpdated                                                     *)

Take(m) ==
  /\ mirror[m].pc = "idle"
  /\ \E event \in jiraEvents :
       /\ jiraEvents' = jiraEvents \ {event}
       /\ mirror' = [mirror EXCEPT ![m] = [AtEase EXCEPT !.pc = "searching", !.event = event]]
  /\ UNCHANGED <<jiraIssue, gitlabIssue, gitlabEvents, milestones, people, echoes, reason, remarks, clean>>

Over(m) == mirror' = [mirror EXCEPT ![m] = AtEase]
On(m, pc, chosen) == mirror' = [mirror EXCEPT ![m].pc = pc, ![m].chosen = chosen]

\* An error goes back to the queue, which tries again or gives up.
GoesBack(m) ==
  LET event == mirror[m].event IN
  /\ Over(m)
  /\ clean' = FALSE
  /\ jiraEvents' = IF event.attempt < MirrorTries
                     THEN jiraEvents \cup {[event EXCEPT !.attempt = @ + 1]} ELSE jiraEvents

\* findExistingGitLabIssue, by the key in the title.
findExistingGitLabIssue(m) ==
  LET event == mirror[m].event IN
  /\ mirror[m].pc = "searching"
  /\ \/ /\ CASE ~gitlabIssue.titled -> Over(m)
             [] gitlabIssue.titled /\ event.kind # "issue" -> On(m, "noting", "none")
             [] gitlabIssue.titled /\ event.kind = "issue"
                  -> IF event.version = "none" THEN On(m, "updating", "cleared")
                                               ELSE On(m, "milestones", "none")
        /\ UNCHANGED <<jiraEvents, clean>>
     \/ GoesBack(m)
  /\ UNCHANGED <<jiraIssue, gitlabIssue, gitlabEvents, milestones, people, echoes, reason, remarks>>

\* findGitLabMilestone; its errors count as finding none.
findGitLabMilestone(m) ==
  LET version == mirror[m].event.version IN
  /\ mirror[m].pc = "milestones"
  /\ \/ version \in milestones /\ On(m, "updating", version)
     \/ On(m, IF version \in Released THEN "creating" ELSE "updating", "none")
  /\ UNCHANGED <<jiraIssue, gitlabIssue, jiraEvents, gitlabEvents, milestones, people, echoes, reason, remarks, clean>>

\* CreateMilestone: GitLab refuses a second one of a name.
CreateMilestone(m) ==
  LET version == mirror[m].event.version IN
  /\ mirror[m].pc = "creating"
  /\ \/ /\ version \notin milestones
        /\ milestones' = milestones \cup {version}
        /\ On(m, "updating", version) \/ On(m, "updating", "none")
     \/ On(m, "updating", "none") /\ UNCHANGED milestones
  /\ UNCHANGED <<jiraIssue, gitlabIssue, jiraEvents, gitlabEvents, people, echoes, reason, remarks, clean>>

\* What GitLab tells of a change the mirror has made.
EchoOf(state) ==
  IF TwoWay /\ echoes < MaxEchoes
    THEN echoes' = echoes + 1 /\ Tell(state, TRUE)
    ELSE UNCHANGED <<echoes, gitlabEvents>>

\* buildIssueUpdateRequest and UpdateIssue, whose answer may be lost.
UpdateIssue(m) ==
  LET k == mirror[m] IN
  /\ k.pc = "updating"
  /\ \/ /\ gitlabIssue' = [state |-> Apply(gitlabIssue.state, updateIssueState(k.event)),
                           milestone |-> CASE k.chosen = "cleared" -> "none"
                                           [] k.chosen = "none" -> gitlabIssue.milestone
                                           [] k.chosen \in FixVersions -> k.chosen,
                           titled |-> TRUE, notes |-> gitlabIssue.notes]
        /\ EchoOf(gitlabIssue'.state)
        /\ (Over(m) /\ UNCHANGED <<jiraEvents, clean>>) \/ GoesBack(m)
     \/ GoesBack(m) /\ UNCHANGED <<gitlabIssue, gitlabEvents, echoes>>
  /\ UNCHANGED <<jiraIssue, milestones, people, reason, remarks>>

-----------------------------------------------------------------------------
(* processComment..., processWorklog... and processIssueDeleted            *)

\* A new comment each time, for an edited comment too.  That of a deletion is
\* tried once: its error is logged.
syncToGitLab(m) ==
  LET fails == IF mirror[m].event.kind = "deleted"
                 THEN Over(m) /\ clean' = FALSE /\ UNCHANGED jiraEvents ELSE GoesBack(m) IN
  /\ mirror[m].pc = "noting"
  /\ \/ /\ gitlabIssue' = [gitlabIssue EXCEPT !.notes = @ + 1]
        /\ (Over(m) /\ UNCHANGED <<jiraEvents, clean>>) \/ fails
     \/ fails /\ UNCHANGED gitlabIssue
  /\ UNCHANGED <<jiraIssue, gitlabEvents, milestones, people, echoes, reason, remarks>>

-----------------------------------------------------------------------------
(* HandleGitLabWebhook and processGitLabIssueEvent                         *)

HandleGitLabWebhook(m) ==
  /\ mirror[m].pc = "idle"
  /\ \E event \in gitlabEvents :
       /\ gitlabEvents' = gitlabEvents \ {event}
       /\ IF event.titled THEN mirror' = [mirror EXCEPT ![m] = [AtEase EXCEPT !.pc = "reading", !.event = event]]
                          ELSE UNCHANGED mirror
  /\ UNCHANGED <<jiraIssue, gitlabIssue, jiraEvents, milestones, people, echoes, reason, remarks, clean>>

\* GetIssue, which may fail, and every other request may too: 500.
ReadStatus(m) ==
  /\ mirror[m].pc = "reading"
  /\ On(m, "choosing", jiraIssue.status) \/ Over(m)
  /\ UNCHANGED <<jiraIssue, gitlabIssue, jiraEvents, gitlabEvents, milestones, people, echoes, reason, remarks, clean>>

\* getJiraStatusFromGitLabState lists the transitions of the issue as it is
\* now; with none to take, or no answer, it falls back from the status read.
ChooseTarget(m) ==
  LET k == mirror[m] IN
  /\ k.pc = "choosing"
  /\ \E target \in Matching(k.event.state, jiraIssue.status) \cup {Fallback(k.event.state, k.chosen)} :
       IF target = k.chosen THEN Over(m) ELSE On(m, "rereading", target)
  /\ UNCHANGED <<jiraIssue, gitlabIssue, jiraEvents, gitlabEvents, milestones, people, echoes, reason, remarks, clean>>

\* TransitionToStatus: GetIssue again, then FindTransition.
Reread(m) ==
  /\ mirror[m].pc = "rereading"
  /\ IF jiraIssue.status = mirror[m].chosen THEN Over(m) ELSE On(m, "finding", mirror[m].chosen)
  /\ UNCHANGED <<jiraIssue, gitlabIssue, jiraEvents, gitlabEvents, milestones, people, echoes, reason, remarks, clean>>

Leads(target) == \E t \in Offered(jiraIssue.status) : t.to = target

SeekTransition(m) ==
  /\ mirror[m].pc = "finding"
  /\ IF Leads(mirror[m].chosen) THEN On(m, "executing", mirror[m].chosen) ELSE Over(m)
  /\ UNCHANGED <<jiraIssue, gitlabIssue, jiraEvents, gitlabEvents, milestones, people, echoes, reason, remarks, clean>>

\* ExecuteTransition; Jira tells the webhook of it.
MakeTransition(m) ==
  /\ mirror[m].pc = "executing"
  /\ Over(m)
  /\ IF Leads(mirror[m].chosen) /\ echoes < MaxEchoes
       THEN /\ jiraIssue' = [jiraIssue EXCEPT !.status = mirror[m].chosen]
            /\ DeliverEvent(Snapshot("issue", jiraIssue', TRUE))
            /\ reason' = (reason \/ mirror[m].chosen \in ClosedStatuses)
            /\ echoes' = echoes + 1
       ELSE UNCHANGED <<jiraIssue, jiraEvents, reason, echoes>>
  /\ UNCHANGED <<gitlabIssue, gitlabEvents, milestones, people, remarks, clean>>

MirrorStep(m) ==
  \/ Take(m) \/ findExistingGitLabIssue(m) \/ findGitLabMilestone(m) \/ CreateMilestone(m) \/ UpdateIssue(m)
  \/ syncToGitLab(m)
  \/ HandleGitLabWebhook(m) \/ ReadStatus(m) \/ ChooseTarget(m) \/ Reread(m) \/ SeekTransition(m)
  \/ MakeTransition(m)

MirrorNext == EditJira \/ EditGitLab \/ \E m \in Mirrors : MirrorStep(m)

MirrorSpec == MirrorInit /\ [][MirrorNext]_mirrorVars

-----------------------------------------------------------------------------
(* Properties                                                              *)

MirrorTypeOK ==
  /\ jiraIssue \in [status : Statuses, version : FixVersions \cup {"none"}]
  /\ gitlabIssue \in [state : {"opened", "closed"}, milestone : FixVersions \cup {"none"}, titled : BOOLEAN,
                      notes : Nat]
  /\ milestones \subseteq FixVersions
  /\ people \in 0..MaxEdits /\ remarks \in 0..MaxEdits /\ echoes \in 0..MaxEchoes
  /\ \A m \in Mirrors : mirror[m].pc \in {"idle", "searching", "milestones", "creating", "updating", "noting",
                                          "reading", "choosing", "rereading", "finding", "executing"}

\* The GitLab issue is never closed behind everybody's back: somebody closed
\* it, or the Jira issue has been in a closed status.  And it never points to
\* a milestone the project does not have.
ClosedForAReason ==
  /\ gitlabIssue.state = "closed" => reason
  /\ gitlabIssue.milestone \in milestones \cup {"none"}

\* Every comment, worklog and deletion leaves one comment in GitLab; only
\* failures, which are retried, and people in GitLab change that.
NotesFollow == clean /\ AllQuiet => gitlabIssue.notes = remarks

\* What the mirror keeps in step with Jira when all goes well.
IssueMirrored == ClosedForAReason /\ NotesFollow

\* Events that are processed one by one, with no failure and nobody touching
\* GitLab, leave the GitLab issue closed exactly when the Jira issue is:
\* "real-time status and comment synchronization" (README.md:10).
StatusFollows ==
  clean /\ AllQuiet => (gitlabIssue.state = "closed" <=> jiraIssue.status \in ClosedStatuses)
=============================================================================
