---------------------------- MODULE SyncManager ----------------------------
(***************************************************************************)
(* The bidirectional sync of internal/sync: SyncJiraToGitLab and what it   *)
(* calls (bidirectional.go), the detection of conflicts (conflicts.go),    *)
(* their resolution (conflict_resolver.go) and the queue of conflicts      *)
(* that wait for a person (manual_queue.go), for one Jira issue.  Each     *)
(* webhook event runs in a worker goroutine of its own.                    *)
(*                                                                         *)
(* Jira and GitLab are external: users of both edit the issue at any time  *)
(* (the webhook handler that ran before the sync is one of them), and a    *)
(* write may be refused, or carried out although its answer is lost.       *)
(*                                                                         *)
(* A title is the summary a user typed with a number of "[KEY] " in front, *)
(* a description the text a user typed, wrapped a number of times in what  *)
(* formatGitLabIssueDescription adds.                                      *)
(***************************************************************************)
EXTENDS Integers, Sequences, FiniteSets

CONSTANTS
  Events,    \* the webhook events Jira may send for the issue
  Bases,     \* what users type as its summary
  Window,    \* conflictWindowMinutes
  MaxTime    \* bound: the clock stops here

ASSUME SyncAssumption ==
  /\ IsFiniteSet(Events)
  /\ Bases # {}
  /\ Window \in Nat
  /\ MaxTime \in Nat

Strategies == {"last_write_wins", "merge", "manual"}
Kinds == {"created", "updated", "comment"}
Places == {"none", "queued", "looking", "relooking", "creating", "detecting",
           "resolving", "merging", "settling", "updating", "finishing", "done", "lost"}

NoIssue == [id |-> 0]
Earlier == "earlier"
NoEvent == [kind |-> "none"]
NoConflict == [status |-> "none", by |-> "nobody", id |-> <<0, 0>>]

VARIABLES
  strategy,  \* config.BidirectionalConflictStrategy, fixed at the start
  clock,
  jira,      \* the Jira issue: title (its summary), desc, updated
  mirrors,   \* the GitLab issues, in the order of their IDs
  at,        \* where the goroutine of the event is
  event,     \* the event: its kind, and the issue as Jira sent it
  found,     \* the GitLab issue the search returned, as it was then
  err,       \* whether the calls of the present step of the event failed
  conflict,  \* the conflict of the event; the queue holds a pointer to it
  manual,    \* the events whose conflicts are in the ManualResolutionQueue
  outcome,   \* the last record of the event in the audit trail
  process,   \* "up", or "crashed" by a nil pointer
  births,    \* history: under which title, by which event each mirror was made
  known,     \* history: how many mirrors there were when the event searched
  blind,     \* history: the events that create after a failed search
  moved,     \* history: the mirrors whose title was changed
  lapsed     \* history: the events one of whose writes returned an error

vars == <<strategy, clock, jira, mirrors, at, event, found, err, conflict, manual,
          outcome, process, births, known, blind, moved, lapsed>>

trackers == <<jira, mirrors, births, moved>>
searches == <<known, blind>>
queueVars == <<conflict, manual>>

-----------------------------------------------------------------------------
(* Texts                                                                   *)

\* formatGitLabIssueTitle and formatGitLabIssueDescription
Tagged(title) == [title EXCEPT !.tags = @ + 1]
Wrapped(desc) == desc + 1

\* GitLab's search by title finds the issues whose title contains the text.
Contains(title, text) == title.base = text.base /\ title.tags >= text.tags

Matches(e) == {m \in DOMAIN mirrors : Contains(mirrors[m].title, Tagged(event[e].title))}

\* An update sends only the fields it changes.
Written(issue, fields, source) ==
  [issue EXCEPT !.title = IF "title" \in fields THEN source.title ELSE @,
                !.desc = IF "desc" \in fields THEN source.desc ELSE @,
                !.updated = clock]

\* The fields detectFieldConflicts compares; it does not format Jira's first.
Conflicting(e) == {f \in {"title", "desc"} : event[e][f] # found[e][f]}

Concurrent(e) ==
  /\ event[e].updated - found[e].updated <= Window
  /\ found[e].updated - event[e].updated <= Window

\* conflict.JiraLastModified.After(conflict.GitLabLastModified)
JiraNewerSwapped(e) == event[e].updated < found[e].updated
JiraNewer(e) == event[e].updated > found[e].updated

-----------------------------------------------------------------------------
\* The mirror handleIssueCreated makes of an issue.
Mirror(issue) ==
  [title |-> Tagged(issue.title), desc |-> Wrapped(issue.desc), updated |-> clock]

\* The issue may have been mirrored before.
Init ==
  /\ strategy \in Strategies
  /\ clock = 0
  /\ \E b \in Bases : jira = [title |-> [tags |-> 0, base |-> b], desc |-> 0, updated |-> 0]
  /\ \E made \in BOOLEAN :
       /\ mirrors = IF made THEN <<Mirror(jira)>> ELSE <<>>
       /\ births = IF made THEN <<[title |-> mirrors[1].title, by |-> Earlier]>> ELSE <<>>
  /\ at = [e \in Events |-> "none"]
  /\ event = [e \in Events |-> NoEvent]
  /\ found = [e \in Events |-> NoIssue]
  /\ err = [e \in Events |-> FALSE]
  /\ conflict = [e \in Events |-> NoConflict]
  /\ manual = {}
  /\ outcome = [e \in Events |-> "none"]
  /\ process = "up"
  /\ known = [e \in Events |-> 0]
  /\ blind = {}
  /\ moved = {}
  /\ lapsed = {}

-----------------------------------------------------------------------------
(* Jira, GitLab and their users                                            *)

\* Bound: users edit once per unit of time, and at most MaxTime times.
Tick == clock < MaxTime /\ clock' = clock + 1

TimePasses ==
  /\ Tick
  /\ UNCHANGED <<strategy, trackers, at, event, found, err, queueVars, outcome, process,
                 searches, lapsed>>

JiraEdit(b) ==
  /\ Tick
  /\ jira' = [jira EXCEPT !.title = [tags |-> 0, base |-> b], !.updated = clock']
  /\ UNCHANGED <<strategy, mirrors, at, event, found, err, queueVars, outcome,
                 process, births, searches, moved, lapsed>>

\* A user renames the mirror, or gives it the plain text of the Jira issue.
GitLabEdit(m, b) ==
  /\ Tick
  /\ \/ mirrors' = [mirrors EXCEPT ![m].title = [tags |-> 1, base |-> b],
                                   ![m].updated = clock']
     \/ mirrors' = [mirrors EXCEPT ![m].desc = 0, ![m].updated = clock']
  /\ moved' = IF mirrors'[m].title # mirrors[m].title THEN moved \cup {m} ELSE moved
  /\ UNCHANGED <<strategy, jira, at, event, found, err, queueVars, outcome, process,
                 births, searches, lapsed>>

\* Jira sends the event; "created" for an issue nobody has edited yet, as
\* often as it thinks the delivery failed.
JiraSends(e, kind) ==
  /\ at[e] = "none"
  /\ kind = "created" => jira.updated = 0
  /\ event' = [event EXCEPT ![e] = [kind |-> kind, title |-> jira.title,
                                    desc |-> jira.desc, updated |-> jira.updated]]
  /\ at' = [at EXCEPT ![e] = "queued"]
  /\ UNCHANGED <<strategy, clock, trackers, found, err, queueVars, outcome, process,
                 searches, lapsed>>

-----------------------------------------------------------------------------
(* Steps of an event's goroutine                                           *)

Runs(e, from) == process = "up" /\ at[e] = from
Goto(e, to) == at' = [at EXCEPT ![e] = to]

\* A call is carried out, refused, or carried out but its answer lost.
Answers == {"ok", "refused", "lost"}
Done(answer) == answer # "refused"
Failed(answer) == answer # "ok"

Lapse(e, failed) ==
  /\ err' = [err EXCEPT ![e] = failed]
  /\ lapsed' = IF failed THEN lapsed \cup {e} ELSE lapsed

\* SyncJiraToGitLab: the type is not configured, the issue too old.
Skip(e) ==
  /\ Runs(e, "queued")
  /\ Goto(e, "done")
  /\ UNCHANGED <<strategy, clock, trackers, event, found, err, queueVars, outcome,
                 process, searches, lapsed>>

Process(e) ==
  /\ Runs(e, "queued")
  /\ Goto(e, "looking")
  /\ UNCHANGED <<strategy, clock, trackers, event, found, err, queueVars, outcome,
                 process, searches, lapsed>>

\* handleIssueCreated, also called by an update that found no mirror.
CreatePlace(e) == IF event[e].kind = "updated" THEN "relooking" ELSE "looking"

\* Where handleIssueCreated returns without an error: the update goes on.
Created(e) == IF event[e].kind = "updated" THEN "finishing" ELSE "done"

\* "GitLab issue already exists, skipping creation"
LookExists(e) ==
  /\ event[e].kind # "comment"
  /\ Runs(e, CreatePlace(e))
  /\ Matches(e) # {}
  /\ Goto(e, Created(e))
  /\ UNCHANGED <<strategy, clock, trackers, event, found, err, queueVars, outcome,
                 process, searches, lapsed>>

LookNewUnchecked(e) ==
  /\ event[e].kind # "comment"
  /\ Runs(e, CreatePlace(e))
  /\ Goto(e, "creating")
  /\ known' = [known EXCEPT ![e] = Len(mirrors)]
  /\ UNCHANGED <<strategy, clock, trackers, event, found, err, queueVars, outcome,
                 process, blind, lapsed>>

LookNew(e) ==
  /\ event[e].kind # "comment"
  /\ Runs(e, CreatePlace(e))
  /\ Matches(e) = {}
  /\ Goto(e, "creating")
  /\ known' = [known EXCEPT ![e] = Len(mirrors)]
  /\ UNCHANGED <<strategy, clock, trackers, event, found, err, queueVars, outcome,
                 process, blind, lapsed>>

\* The error of the search is logged, and the issue created all the same.
LookBlind(e) ==
  /\ event[e].kind # "comment"
  /\ Runs(e, CreatePlace(e))
  /\ Goto(e, "creating")
  /\ blind' = blind \cup {e}
  /\ UNCHANGED <<strategy, clock, trackers, event, found, err, queueVars, outcome,
                 process, known, lapsed>>

CreateIssue(e) ==
  /\ Runs(e, "creating")
  /\ \E answer \in Answers :
       /\ IF Done(answer)
            THEN /\ mirrors' = Append(mirrors, Mirror(event[e]))
                 /\ births' = Append(births, [title |-> Tagged(event[e].title), by |-> e])
            ELSE UNCHANGED <<mirrors, births>>
       /\ Lapse(e, Failed(answer))
       /\ Goto(e, IF Failed(answer) THEN "done" ELSE Created(e))
  /\ UNCHANGED <<strategy, clock, jira, event, found, queueVars, outcome, process,
                 searches, moved>>

-----------------------------------------------------------------------------
(* handleIssueUpdated and handleCommentCreated: the search                 *)

FindFails(e) ==
  /\ event[e].kind # "created"
  /\ Runs(e, "looking")
  /\ Goto(e, "done")
  /\ outcome' = IF event[e].kind = "updated" THEN [outcome EXCEPT ![e] = "failed"] ELSE outcome
  /\ UNCHANGED <<strategy, clock, trackers, event, found, err, queueVars, process,
                 searches, lapsed>>

Find(e) ==
  /\ event[e].kind # "created"
  /\ Runs(e, "looking")
  /\ \E m \in Matches(e) :
       found' = [found EXCEPT ![e] = [id |-> m, title |-> mirrors[m].title,
                               desc |-> mirrors[m].desc, updated |-> mirrors[m].updated]]
  /\ Goto(e, IF event[e].kind = "updated" THEN "detecting" ELSE "updating")
  /\ UNCHANGED <<strategy, clock, trackers, event, err, queueVars, outcome, process,
                 searches, lapsed>>

FindNoneDetects(e) ==
  /\ event[e].kind = "updated"
  /\ Runs(e, "looking")
  /\ Matches(e) = {}
  /\ Goto(e, "detecting")
  /\ UNCHANGED <<strategy, clock, trackers, event, found, err, queueVars, outcome,
                 process, searches, lapsed>>

\* The operation becomes "create"; Success is left at its zero value, false.
FindNone(e) ==
  /\ event[e].kind = "updated"
  /\ Runs(e, "looking")
  /\ Matches(e) = {}
  /\ Goto(e, "relooking")
  /\ outcome' = [outcome EXCEPT ![e] = "create"]
  /\ UNCHANGED <<strategy, clock, trackers, event, found, err, queueVars, process,
                 searches, lapsed>>

CommentNowhere(e) ==
  /\ event[e].kind = "comment"
  /\ Runs(e, "looking")
  /\ Matches(e) = {}
  /\ Goto(e, "done")
  /\ UNCHANGED <<strategy, clock, trackers, event, found, err, queueVars, outcome,
                 process, searches, lapsed>>

-----------------------------------------------------------------------------
(* DetectConflicts                                                         *)

Agree(e) ==
  /\ Runs(e, "detecting")
  /\ ~Concurrent(e) \/ Conflicting(e) = {}
  /\ Goto(e, "updating")
  /\ UNCHANGED <<strategy, clock, trackers, event, found, err, queueVars, outcome,
                 process, searches, lapsed>>

\* The ID is made of the key, the GitLab ID and the time in seconds.
Detect(e) ==
  /\ Runs(e, "detecting")
  /\ Concurrent(e)
  /\ Conflicting(e) # {}
  /\ conflict' = [conflict EXCEPT ![e] = [status |-> "pending", by |-> "nobody",
                                          id |-> <<found[e].id, clock>>]]
  /\ Goto(e, "resolving")
  /\ UNCHANGED <<strategy, clock, trackers, event, found, err, manual, outcome, process,
                 searches, lapsed>>

-----------------------------------------------------------------------------
(* ResolveConflict                                                         *)

UpdateMirror(e, fields, source) ==
  LET m == found[e].id IN
  /\ mirrors' = [mirrors EXCEPT ![m] = Written(@, fields, source)]
  /\ moved' = IF mirrors'[m].title # mirrors[m].title THEN moved \cup {m} ELSE moved

\* applyJiraChangesToGitLab
JiraWins(e) ==
  /\ Runs(e, "resolving")
  /\ strategy = "last_write_wins"
  /\ JiraNewer(e)
  /\ \E answer \in Answers :
       /\ IF Done(answer) THEN UpdateMirror(e, Conflicting(e), event[e])
                       ELSE UNCHANGED <<mirrors, moved>>
       /\ Lapse(e, Failed(answer))
  /\ Goto(e, "settling")
  /\ UNCHANGED <<strategy, clock, jira, event, found, queueVars, outcome, process, births,
                 searches>>

\* applyGitLabChangesToJira
GitLabWins(e) ==
  /\ Runs(e, "resolving")
  /\ strategy = "last_write_wins"
  /\ ~JiraNewer(e)
  /\ \E answer \in Answers :
       /\ jira' = IF Done(answer) THEN Written(jira, Conflicting(e), found[e]) ELSE jira
       /\ Lapse(e, Failed(answer))
  /\ Goto(e, "settling")
  /\ UNCHANGED <<strategy, clock, mirrors, event, found, queueVars, outcome, process,
                 births, searches, moved>>

\* Descriptions cannot be merged.
NeedsPersonNever(e) == strategy = "manual"
NeedsPerson(e) ==
  strategy = "manual" \/ (strategy = "merge" /\ "desc" \in Conflicting(e))

Newer(e) == IF JiraNewer(e) THEN event[e] ELSE found[e]

\* applyMergedChanges: first GitLab, then Jira
MergeToGitLab(e) ==
  /\ Runs(e, "resolving")
  /\ strategy = "merge"
  /\ ~NeedsPerson(e)
  /\ \E answer \in Answers :
       /\ IF Done(answer) THEN UpdateMirror(e, Conflicting(e), Newer(e))
                       ELSE UNCHANGED <<mirrors, moved>>
       /\ Lapse(e, Failed(answer))
       /\ Goto(e, IF Failed(answer) THEN "settling" ELSE "merging")
  /\ UNCHANGED <<strategy, clock, jira, event, found, queueVars, outcome, process, births,
                 searches>>

MergeToJira(e) ==
  /\ Runs(e, "merging")
  /\ \E answer \in Answers :
       /\ jira' = IF Done(answer) THEN Written(jira, Conflicting(e), Newer(e)) ELSE jira
       /\ Lapse(e, Failed(answer))
  /\ Goto(e, "settling")
  /\ UNCHANGED <<strategy, clock, mirrors, event, found, queueVars, outcome, process,
                 births, searches, moved>>

ListedByEvent(e) == e \in manual
Listed(e) == \E f \in manual : conflict[f].id = conflict[e].id

AddConflict(e) ==
  /\ Runs(e, "resolving")
  /\ NeedsPerson(e)
  /\ ~Listed(e)
  /\ manual' = manual \cup {e}
  /\ Goto(e, "settling")
  /\ UNCHANGED <<strategy, clock, trackers, event, found, err, conflict, outcome, process,
                 searches, lapsed>>

\* "already exists in queue": a second conflict within the same second
AddConflictTwice(e) ==
  /\ Runs(e, "resolving")
  /\ NeedsPerson(e)
  /\ Listed(e)
  /\ Lapse(e, TRUE)
  /\ Goto(e, "settling")
  /\ UNCHANGED <<strategy, clock, trackers, event, found, queueVars, outcome, process,
                 searches>>

Resolved(e, who) ==
  conflict' = [conflict EXCEPT ![e].status = "resolved", ![e].by = who]

\* The end of ResolveConflict: without an error the conflict counts as
\* resolved, the one just queued for a person too.
Settle(e) ==
  /\ Runs(e, "settling")
  /\ ~err[e]
  /\ Resolved(e, "system")
  /\ Goto(e, "updating")
  /\ UNCHANGED <<strategy, clock, trackers, event, found, err, manual, outcome, process,
                 searches, lapsed>>

SettleFailed(e) ==
  /\ Runs(e, "settling")
  /\ err[e]
  /\ conflict' = [conflict EXCEPT ![e].status = "failed"]
  /\ outcome' = [outcome EXCEPT ![e] = "failed"]
  /\ Goto(e, "done")
  /\ UNCHANGED <<strategy, clock, trackers, event, found, err, manual, process, searches,
                 lapsed>>

-----------------------------------------------------------------------------
(* The updates themselves                                                  *)

\* performIssueUpdates sets a label and the assignee, as far as they are
\* configured; handleCommentCreated posts the comment.  None of them touches
\* the text, all of them touch the time of the last update.
Update(e) ==
  /\ Runs(e, "updating")
  /\ \E answer \in Answers :
       /\ mirrors' = IF Done(answer) THEN [mirrors EXCEPT ![found[e].id].updated = clock]
                                  ELSE mirrors
       /\ Lapse(e, Failed(answer))
  /\ Goto(e, IF event[e].kind = "comment" THEN "done" ELSE "finishing")
  /\ UNCHANGED <<strategy, clock, jira, event, found, queueVars, outcome, process, births,
                 searches, moved>>

\* Neither a status label nor an assignee is configured.
UpdateNothing(e) ==
  /\ Runs(e, "updating")
  /\ event[e].kind = "updated"
  /\ Goto(e, "finishing")
  /\ UNCHANGED <<strategy, clock, trackers, event, found, err, queueVars, outcome, process,
                 searches, lapsed>>

FinishOptimistic(e) ==
  /\ Runs(e, "finishing")
  /\ found[e] # NoIssue
  /\ outcome' = [outcome EXCEPT ![e] = "success"]
  /\ Goto(e, "done")
  /\ UNCHANGED <<strategy, clock, trackers, event, found, err, queueVars, process, searches,
                 lapsed>>

\* finalizeIssueUpdateAudit; the update returns nil whatever failed.
Finish(e) ==
  /\ Runs(e, "finishing")
  /\ found[e] # NoIssue
  /\ outcome' = [outcome EXCEPT ![e] = IF err[e] THEN "failed" ELSE "success"]
  /\ Goto(e, "done")
  /\ UNCHANGED <<strategy, clock, trackers, event, found, err, queueVars, process, searches,
                 lapsed>>

\* gitlabIssue.ID of a nil gitlabIssue: no worker recovers from the panic.
FinishNil(e) ==
  /\ Runs(e, "finishing")
  /\ found[e] = NoIssue
  /\ process' = "crashed"
  /\ UNCHANGED <<strategy, clock, trackers, at, event, found, err, queueVars, outcome,
                 searches, lapsed>>

\* The container is restarted: what was in memory is gone.
Restart ==
  /\ process = "crashed"
  /\ process' = "up"
  /\ at' = [e \in Events |-> IF at[e] \in {"none", "done"} THEN at[e] ELSE "lost"]
  /\ found' = [e \in Events |-> NoIssue]
  /\ err' = [e \in Events |-> FALSE]
  /\ conflict' = [e \in Events |-> NoConflict]
  /\ manual' = {}
  /\ outcome' = [e \in Events |-> "none"]
  /\ UNCHANGED <<strategy, clock, trackers, event, searches, lapsed>>

-----------------------------------------------------------------------------
(* ManualResolutionQueue                                                   *)

\* A person decides; the decision is recorded, nothing carries it out.
PersonResolves(e) ==
  /\ process = "up"
  /\ e \in manual
  /\ conflict[e].status = "pending"
  /\ Resolved(e, "person")
  /\ UNCHANGED <<strategy, clock, trackers, at, event, found, err, manual, outcome, process,
                 searches, lapsed>>

\* RemoveConflict; PurgeResolvedConflicts removes several resolved ones.
RemoveConflict(e) ==
  /\ process = "up"
  /\ e \in manual
  /\ manual' = manual \ {e}
  /\ UNCHANGED <<strategy, clock, trackers, at, event, found, err, conflict, outcome,
                 process, searches, lapsed>>

-----------------------------------------------------------------------------
Look(e) ==
  \/ LookExists(e) \/ LookNew(e) \/ LookBlind(e) \/ CreateIssue(e)
  \/ FindFails(e) \/ Find(e) \/ FindNone(e) \/ CommentNowhere(e)

Resolve(e) ==
  \/ JiraWins(e) \/ GitLabWins(e) \/ MergeToGitLab(e) \/ MergeToJira(e)
  \/ AddConflict(e) \/ AddConflictTwice(e) \/ Settle(e) \/ SettleFailed(e)

Step(e) ==
  \/ Skip(e) \/ Process(e) \/ Look(e) \/ Agree(e) \/ Detect(e) \/ Resolve(e)
  \/ Update(e) \/ UpdateNothing(e) \/ Finish(e) \/ FinishNil(e)

Next ==
  \/ TimePasses
  \/ \E b \in Bases : JiraEdit(b)
  \/ \E m \in DOMAIN mirrors, b \in Bases : GitLabEdit(m, b)
  \/ \E e \in Events, kind \in Kinds : JiraSends(e, kind)
  \/ \E e \in Events : Step(e) \/ PersonResolves(e) \/ RemoveConflict(e)
  \/ Restart

Spec == Init /\ [][Next]_vars

-----------------------------------------------------------------------------
(* Properties                                                              *)

Titles == [tags : Nat, base : Bases]
Issues == [title : Titles, desc : Nat, updated : 0..MaxTime]
Births == [title : Titles, by : Events \cup {Earlier}]

TrackersOK ==
  /\ clock \in 0..MaxTime
  /\ jira \in Issues
  /\ mirrors \in Seq(Issues)
  /\ births \in Seq(Births)
  /\ Len(births) = Len(mirrors)

GoroutinesOK ==
  /\ at \in [Events -> Places]
  /\ event \in [Events -> {NoEvent} \cup
                           [kind : Kinds, title : Titles, desc : Nat, updated : 0..MaxTime]]
  /\ found \in [Events -> {NoIssue} \cup
                           [id : Nat \ {0}, title : Titles, desc : Nat, updated : 0..MaxTime]]
  /\ err \in [Events -> BOOLEAN]
  /\ known \in [Events -> Nat]
  /\ blind \in SUBSET Events
  /\ lapsed \in SUBSET Events

ConflictsOK ==
  /\ conflict \in [Events -> [status : {"none", "pending", "resolved", "failed"},
                              by : {"nobody", "system", "person"}, id : Nat \X Nat]]
  /\ manual \in SUBSET Events

\* The code follows no nil pointer between the search and the end of an update,
\* and the issue it points at still exists: GitLab issues are never deleted.
PointersOK ==
  /\ \A e \in Events : at[e] # "none" => event[e] # NoEvent
  /\ \A e \in Events : found[e] # NoIssue => found[e].id \in DOMAIN mirrors
  /\ \A e \in Events :
       at[e] \in {"detecting", "resolving", "merging", "settling", "updating"} =>
         found[e] # NoIssue

\* The type invariant, pointers included.
TypeOK ==
  /\ strategy \in Strategies
  /\ outcome \in [Events -> {"none", "create", "failed", "success"}]
  /\ process \in {"up", "crashed"}
  /\ TrackersOK
  /\ GoroutinesOK
  /\ ConflictsOK
  /\ PointersOK

\* handleIssueCreated looks for the title before it creates an issue with it.
\* Two GitLab issues made under one title therefore have one of three causes:
\* the later one's event had searched before the earlier one existed, its
\* search had failed and was ignored, or the earlier one had been renamed.
DuplicatesExplained ==
  \A m, n \in DOMAIN births :
    m < n /\ births[m].title = births[n].title =>
      known[births[n].by] < m \/ births[n].by \in blind \/ m \in moved

\* An update recorded as a success in the audit trail had none of its writes
\* to GitLab or Jira answered with an error, in the resolution of a conflict
\* or after it.
SuccessMeansDone == \A e \in Events : outcome[e] = "success" => e \notin lapsed

\* Two conflicts in the manual queue never have one ID, although the ID has the
\* resolution of a second only: the second conflict is refused.
DistinctConflicts ==
  \A e, f \in manual : conflict[e].id = conflict[f].id => e = f

\* Unless the last write wins, no step of the sync touches a description: a
\* conflict over descriptions is left to a person.
DescriptionsKept ==
  [][strategy # "last_write_wins" =>
       \A e \in Events : at'[e] # at[e] =>
         /\ jira'.desc = jira.desc
         /\ \A m \in DOMAIN mirrors : mirrors'[m].desc = mirrors[m].desc]_vars

\* The last write wins between the two versions the event carried and the
\* search found.  A resolution that overwrites something newer than what it
\* writes does so only because that side changed while the event was processed.
NewerLosesOnlyByRace ==
  [][\A e \in Events :
       at[e] = "resolving" /\ at'[e] = "settling" /\ strategy = "last_write_wins" =>
         LET m == found[e].id IN
         /\ mirrors' # mirrors /\ mirrors[m].updated > event[e].updated
              => mirrors[m].updated > found[e].updated
         /\ jira' # jira /\ jira.updated > found[e].updated
              => jira.updated > event[e].updated]_vars
=============================================================================
