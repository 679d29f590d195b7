--------------------------- MODULE GitLabWebhook ---------------------------
(***************************************************************************)
(* The GitLab side of the service, internal/gitlab: what an event becomes  *)
(* on its way to comments on Jira issues.                                  *)
(*                                                                         *)
(* A system hook (handler.go) is answered at once; its event is reduced to *)
(* the fields webhook.Event has, queued as a job, filtered by JQL and      *)
(* turned into comments by event_processor.go, where the first comment     *)
(* that cannot be added fails the run.  A project hook (project_hooks.go)  *)
(* is served by its own goroutine, from the whole event, and a comment     *)
(* that cannot be added is only logged.  Both add comments one by one with *)
(* jira.Client.AddComment, which tries again after lost answers.           *)
(*                                                                         *)
(* The queue is the one JobLifecycle promises.  Jira is external.  Texts   *)
(* are the sequences of issue keys ExtractIssueIDs finds in them.          *)
(***************************************************************************)
EXTENDS Integers, Sequences, SequencesExt

CONSTANTS
  Deliveries,   \* the HTTP requests GitLab may make
  HookOf,       \* "system" or "project": the route of each request
  EventsOf,     \* the events each request may carry
  Keys,         \* Jira issue keys
  MaxRetries,   \* config.MaxRetries, of jobs
  MaxAttempts,  \* the highest value of config.JiraRetryMaxAttempts
  Longest       \* the highest number of comments one event asks for

\* What an event may have besides text: the objects the code asks for, a
\* branch that passes PushBranchFilter ("watched"), a description that is
\* not empty, and names on the allow-list, in its project object, in its
\* group object or among its own fields.
Parts == {"project", "attributes", "commits", "described", "watched",
          "allowedProject", "allowedGroup", "allowedName"}

\* Where issue keys are looked for: commit messages, the fields of
\* ObjectAttributes (source and target branch are one), and the objects
\* Build, Release, WikiPage and FeatureFlag ("details").
Fields == {"message", "title", "description", "ref", "branches", "note",
           "environment", "name", "stage", "content", "details"}

\* An event: kind is object_kind, "" when there is none; name is event_name;
\* has and text are its parts and the keys in its fields.
Event(kind, name, has, text) == [kind |-> kind, name |-> name, has |-> has, text |-> text]

NoText == [f \in Fields |-> <<>>]
NoEvent == Event("", "", {}, NoText)

Events == UNION {EventsOf[d] : d \in Deliveries}

ASSUME BoundsAssumption ==
  /\ HookOf \in [Deliveries -> {"system", "project"}]
  /\ MaxRetries \in Nat /\ MaxAttempts \in Nat /\ Longest \in Nat

ASSUME EventAssumption ==
  \A e \in Events :
    /\ e.kind \in STRING /\ e.name \in STRING
    /\ e.has \subseteq Parts
    /\ e = Event(e.kind, e.name, e.has, [f \in Fields |-> e.text[f]])
    /\ \A f \in Fields : e.text[f] \in Seq(Keys)

-----------------------------------------------------------------------------
(* Conversions of an event                                                 *)

Kept == {"message", "title", "description", "ref", "name"}

\* convertToInterfaceEvent, then convertFromInterfaceEvent
Converted(e) ==
  Event(e.kind, e.name, e.has, [f \in Fields |-> IF f \in Kept THEN e.text[f] ELSE <<>>])

\* The type ProcessEvent acts on.  A converted event without object_kind has
\* no type either: its parts decide, of those that are left.
SystemType(e) ==
  IF e.kind # "" THEN e.kind
  ELSE IF "commits" \in e.has THEN "push"
  ELSE IF {"attributes", "described"} \subseteq e.has THEN "issue"
  ELSE ""

\* Events whose comments are made from ObjectAttributes.
Attributed == {"merge_request", "issue", "note", "pipeline", "deployment"}

\* Why ProcessEvent returns an error without a comment: an object it needs is
\* missing (the conversion drops Build, Release, WikiPage and FeatureFlag), or
\* the type is none it knows.
Unreadable(e) ==
  LET type == SystemType(e) IN
  \/ type \in Attributed /\ "attributes" \notin e.has
  \/ type \notin Attributed \cup {"push", "repository_update"}

\* The issues an event asks to comment on, in this order: per commit; from the
\* title, then the description, of a merge request or an issue; and so on.  A
\* key that is repeated is commented on repeatedly.
PushMentions(e) == e.text["message"]
TitledMentions(e) == e.text["title"] \o e.text["description"]
NoteMentions(e) == e.text["note"]
PipelineMentions(e) == e.text["ref"]
DeploymentMentions(e) == e.text["environment"]

SystemMentions(e) ==
  LET type == SystemType(e) IN
  CASE type = "push" -> PushMentions(e)
    [] type \in {"merge_request", "issue"} -> TitledMentions(e)
    [] type = "note" -> NoteMentions(e)
    [] type = "pipeline" -> PipelineMentions(e)
    [] type = "deployment" -> DeploymentMentions(e)
    [] OTHER -> <<>>

\* extractIssueIDsFromEvent, of what the conversion leaves
FilterKeys(e) == UNION {ToSet(e.text[f]) : f \in {"message", "title", "description", "note", "ref"}}

ProjectType(e) == IF e.kind # "" THEN e.kind ELSE e.name

ProjectFields(e) ==
  LET type == ProjectType(e) IN
  CASE type = "merge_request" -> {"title", "description", "branches"}
    [] type = "issue" -> {"title", "description"}
    [] type = "note" -> {"note"}
    [] type = "wiki_page" -> {"title", "content"}
    [] type = "pipeline" -> {"ref", "title"}
    [] type = "build" -> {"name", "stage"}
    [] type = "tag_push" -> {"ref"}
    [] type \in {"release", "feature_flag"} -> {"name", "description"}
    [] type = "deployment" -> {"ref", "environment"}
    [] OTHER -> {}

\* The orders in which a project hook may comment: a push commit by commit, if
\* its branch is watched, any other event once per key.  For merge requests
\* that is the order of a Go map; no property tells it from the others.
ProjectMentions(e) ==
  IF ProjectType(e) = "push" THEN {IF "watched" \in e.has THEN e.text["message"] ELSE <<>>}
  ELSE IF "attributes" \notin e.has THEN {<<>>}
  ELSE SetToSeqs(UNION {ToSet(e.text[f]) : f \in ProjectFields(e)})

\* isAllowedEvent of either handler; only a system hook's own name fields count.
\* An empty allow-list allows everything: then every event has "allowedProject"
\* or, without a project, "allowedName".
Allowed(hook, e) ==
  \/ {"allowedProject", "allowedGroup"} \cap e.has # {}
  \/ hook = "system" /\ "allowedName" \in e.has

ASSUME LongestAssumption ==
  \A e \in Events :
    /\ Len(SystemMentions(Converted(e))) <= Longest
    /\ \A s \in ProjectMentions(e) : s \in Seq(Keys) /\ Len(s) <= Longest

-----------------------------------------------------------------------------
VARIABLES
  config,    \* filter: JQLFilter is set, and matching: the issues it selects;
             \* attempts: JiraRetryMaxAttempts
  request,   \* where the HTTP handler of the delivery is
  event,     \* the event it carries
  phase,     \* JobLifecycle: the job of a system hook
  runs,      \* JobLifecycle: how often its handler was started
  run,       \* where the processing of the event is
  searched,  \* the keys whose JQL search found nothing
  mentions,  \* the issues the event asks to comment on
  next,      \* the mention whose comment is being added
  attempt,   \* the attempt of AddComment
  result,    \* how the last run ended
  posted,    \* Jira: the comments made for each mention
  lost,      \* history: the comments Jira made whose answer was lost
  errors,    \* history: the mentions AddComment returned an error for
  blind,     \* history: the deliveries a JQL search of which failed
  process    \* "up", or "crashed" by a panic in a worker

vars == <<config, request, event, phase, runs, run, searched, mentions, next, attempt,
          result, posted, lost, errors, blind, process>>

queueVars == <<phase, runs>>
postVars == <<mentions, next, attempt>>
jiraVars == <<posted, lost, errors>>

Queue == INSTANCE JobLifecycle WITH Jobs <- Deliveries

Positions == 1..Longest

Init ==
  /\ config \in [filter : BOOLEAN, matching : SUBSET Keys, attempts : 0..MaxAttempts]
  /\ config.filter \/ config.matching = {}
  /\ request = [d \in Deliveries |-> "none"]
  /\ event = [d \in Deliveries |-> NoEvent]
  /\ Queue!Init
  /\ run = [d \in Deliveries |-> "none"]
  /\ searched = [d \in Deliveries |-> {}]
  /\ mentions = [d \in Deliveries |-> <<>>]
  /\ next = [d \in Deliveries |-> 1]
  /\ attempt = [d \in Deliveries |-> 1]
  /\ result = [d \in Deliveries |-> "none"]
  /\ posted = [d \in Deliveries |-> [i \in Positions |-> 0]]
  /\ lost = [d \in Deliveries |-> 0]
  /\ errors = [d \in Deliveries |-> {}]
  /\ blind = {}
  /\ process = "up"

\* Every goroutine ends with the process; the configuration does not change.
Alive == process = "up" /\ UNCHANGED <<config, process>>

-----------------------------------------------------------------------------
(* The HTTP handlers, HandleWebhook and HandleProjectHook                   *)

\* Method, token and body are in order.
Deliver(d) ==
  /\ Alive
  /\ request[d] = "none"
  /\ \E e \in EventsOf[d] :
       /\ event' = [event EXCEPT ![d] = e]
       /\ request' = [request EXCEPT ![d] =
            IF ~Allowed(HookOf[d], e) THEN "forbidden"
            ELSE IF HookOf[d] = "system" THEN "submitting" ELSE "working"]
  /\ UNCHANGED <<queueVars, run, searched, postVars, result, jiraVars, blind>>

\* SubmitJob returned nil: the answer is 202.
Accept(d) ==
  /\ Alive
  /\ request[d] = "submitting"
  /\ Queue!Accept(d)
  /\ request' = [request EXCEPT ![d] = "accepted"]
  /\ UNCHANGED <<event, run, searched, postVars, result, jiraVars, blind>>

\* The queue timed out or is shut down: the answer is 500.
Refuse(d) ==
  /\ Alive
  /\ request[d] = "submitting"
  /\ request' = [request EXCEPT ![d] = "refused"]
  /\ UNCHANGED <<event, queueVars, run, searched, postVars, result, jiraVars, blind>>

\* processProjectEvent; an event it does not know has nothing to comment on.
StartProject(d) ==
  /\ Alive
  /\ request[d] = "working"
  /\ run[d] = "none"
  /\ run' = [run EXCEPT ![d] = "posting"]
  /\ \E s \in ProjectMentions(event[d]) : mentions' = [mentions EXCEPT ![d] = s]
  /\ next' = [next EXCEPT ![d] = 1]
  /\ attempt' = [attempt EXCEPT ![d] = 1]
  /\ UNCHANGED <<request, event, queueVars, searched, result, jiraVars, blind>>

\* The answer is 200 whatever became of the comments.
Answer(d) ==
  /\ Alive
  /\ request[d] = "working"
  /\ run[d] = "returning"
  /\ run' = [run EXCEPT ![d] = "none"]
  /\ request' = [request EXCEPT ![d] = "answered"]
  /\ UNCHANGED <<event, queueVars, searched, postVars, result, jiraVars, blind>>

-----------------------------------------------------------------------------
(* A run of ProcessEventAsync                                               *)

Finish(d, r) ==
  /\ run' = [run EXCEPT ![d] = "returning"]
  /\ result' = [result EXCEPT ![d] = r]

StartRun(d) ==
  /\ Alive
  /\ Queue!Start(d)
  /\ run' = [run EXCEPT ![d] = "checking"]
  /\ result' = [result EXCEPT ![d] = "none"]
  /\ searched' = [searched EXCEPT ![d] = {}]
  /\ UNCHANGED <<request, event, postVars, jiraVars, blind>>

\* case <-ctx.Done(), here or in processEventWithContext
ContextOver(d) ==
  /\ Alive
  /\ run[d] = "checking"
  /\ Finish(d, "failed")
  /\ UNCHANGED <<request, event, queueVars, searched, postVars, jiraVars, blind>>

Move(d, place) ==
  /\ run' = [run EXCEPT ![d] = place]
  /\ UNCHANGED <<request, event, queueVars, postVars, result, jiraVars>>

\* No filter, or no key to ask about.
Unfiltered(d) ==
  /\ Alive
  /\ run[d] = "checking"
  /\ ~config.filter \/ FilterKeys(Converted(event[d])) = {}
  /\ Move(d, "logging")
  /\ UNCHANGED <<searched, blind>>

Filter(d) ==
  /\ Alive
  /\ run[d] = "checking"
  /\ config.filter /\ FilterKeys(Converted(event[d])) # {}
  /\ Move(d, "filtering")
  /\ UNCHANGED <<searched, blind>>

\* The search of one key, answered or not.
SearchFails(d) ==
  /\ Alive
  /\ run[d] = "filtering"
  /\ FilterKeys(Converted(event[d])) \ searched[d] # {}
  /\ Move(d, "logging")
  /\ blind' = blind \cup {d}
  /\ UNCHANGED searched

SearchMatches(d) ==
  /\ Alive
  /\ run[d] = "filtering"
  /\ (FilterKeys(Converted(event[d])) \ searched[d]) \cap config.matching # {}
  /\ Move(d, "logging")
  /\ UNCHANGED <<searched, blind>>

SearchMisses(d) ==
  /\ Alive
  /\ run[d] = "filtering"
  /\ \E k \in FilterKeys(Converted(event[d])) \ (searched[d] \cup config.matching) :
       searched' = [searched EXCEPT ![d] = @ \cup {k}]
  /\ Move(d, "filtering")
  /\ UNCHANGED blind

SkipAtFirstMiss(d) ==
  /\ Alive
  /\ run[d] = "filtering"
  /\ searched[d] # {}
  /\ "project" \in event[d].has
  /\ Finish(d, "skipped")
  /\ UNCHANGED <<request, event, queueVars, searched, postVars, jiraVars, blind>>

Skip(d) ==
  /\ Alive
  /\ run[d] = "filtering"
  /\ FilterKeys(Converted(event[d])) \subseteq searched[d]
  /\ "project" \in event[d].has
  /\ Finish(d, "skipped")
  /\ UNCHANGED <<request, event, queueVars, searched, postVars, jiraVars, blind>>

\* Both log lines of ProcessEvent read event.Project.ID, and nothing recovers
\* the worker that follows a nil Project.
Crash(d) ==
  /\ process = "up"
  /\ \/ run[d] = "logging"
     \/ run[d] = "filtering" /\ FilterKeys(Converted(event[d])) \subseteq searched[d]
  /\ "project" \notin event[d].has
  /\ process' = "crashed"
  /\ UNCHANGED <<config, request, event, queueVars, run, searched, postVars, result, jiraVars, blind>>

\* The switch of ProcessEvent and the head of the method it calls.
Dispatch(d) ==
  /\ Alive
  /\ run[d] = "logging"
  /\ "project" \in event[d].has
  /\ ~Unreadable(Converted(event[d]))
  /\ run' = [run EXCEPT ![d] = "posting"]
  /\ mentions' = [mentions EXCEPT ![d] = SystemMentions(Converted(event[d]))]
  /\ next' = [next EXCEPT ![d] = 1]
  /\ attempt' = [attempt EXCEPT ![d] = 1]
  /\ UNCHANGED <<request, event, queueVars, searched, result, jiraVars, blind>>

Reject(d) ==
  /\ Alive
  /\ run[d] = "logging"
  /\ "project" \in event[d].has
  /\ Unreadable(Converted(event[d]))
  /\ Finish(d, "failed")
  /\ UNCHANGED <<request, event, queueVars, searched, postVars, jiraVars, blind>>

\* The queue completes the job: an error leads to a retry or to the end.
Return(d) ==
  /\ Alive
  /\ run[d] = "returning"
  /\ Queue!Finish(d) \/ (result[d] = "failed" /\ Queue!Requeue(d))
  /\ run' = [run EXCEPT ![d] = "none"]
  /\ UNCHANGED <<request, event, searched, postVars, result, jiraVars, blind>>

RetryLost(d) ==
  /\ Alive
  /\ Queue!Lose(d)
  /\ UNCHANGED <<request, event, run, searched, postVars, result, jiraVars, blind>>

-----------------------------------------------------------------------------
(* AddComment for one mention after the other                               *)

Due(d) == run[d] = "posting" /\ next[d] <= Len(mentions[d])

\* What the caller does with an error of AddComment.
GiveUpAndGoOn(d) ==
  /\ errors' = [errors EXCEPT ![d] = @ \cup {next[d]}]
  /\ next' = [next EXCEPT ![d] = @ + 1]
  /\ attempt' = [attempt EXCEPT ![d] = 1]
  /\ UNCHANGED <<run, result>>

GiveUpAtOnce(d) ==
  /\ errors' = [errors EXCEPT ![d] = @ \cup {next[d]}]
  /\ Finish(d, "failed")
  /\ UNCHANGED <<next, attempt>>

GiveUp(d) == IF HookOf[d] = "system" THEN GiveUpAtOnce(d) ELSE GiveUpAndGoOn(d)

CommentWithoutReturn(d) ==
  /\ Alive
  /\ Due(d)
  /\ config.attempts > 0
  /\ posted' = [posted EXCEPT ![d][next[d]] = @ + 1]
  /\ IF attempt[d] < config.attempts
       THEN attempt' = [attempt EXCEPT ![d] = @ + 1] /\ UNCHANGED next
       ELSE next' = [next EXCEPT ![d] = @ + 1] /\ attempt' = [attempt EXCEPT ![d] = 1]
  /\ UNCHANGED <<request, event, queueVars, run, searched, mentions, result, lost, errors, blind>>

\* A 2xx answer.
Comment(d) ==
  /\ Alive
  /\ Due(d)
  /\ config.attempts > 0
  /\ posted' = [posted EXCEPT ![d][next[d]] = @ + 1]
  /\ next' = [next EXCEPT ![d] = @ + 1]
  /\ attempt' = [attempt EXCEPT ![d] = 1]
  /\ UNCHANGED <<request, event, queueVars, run, searched, mentions, result, lost, errors, blind>>

\* What a failed attempt leaves in Jira: made is whether the comment was made
\* although its answer was lost, or was a 5xx.
Attempted(d, made) ==
  /\ posted' = [posted EXCEPT ![d][next[d]] = IF made THEN @ + 1 ELSE @]
  /\ lost' = [lost EXCEPT ![d] = IF made THEN @ + 1 ELSE @]

MayTryAgainOffByOne(d) == attempt[d] <= config.attempts
MayTryAgain(d) == attempt[d] < config.attempts

\* executeCommentRequest calls transport errors and 5xx retryable.
TryAgain(d) ==
  /\ Alive
  /\ Due(d)
  /\ config.attempts > 0
  /\ MayTryAgain(d)
  /\ \E made \in BOOLEAN : Attempted(d, made)
  /\ attempt' = [attempt EXCEPT ![d] = @ + 1]
  /\ UNCHANGED <<request, event, queueVars, run, searched, mentions, next, result, errors, blind>>

\* The last attempt; a 4xx answer, or no authorization header to send, ends
\* the attempts early, without a comment.
CannotComment(d) ==
  /\ Alive
  /\ Due(d)
  /\ config.attempts > 0
  /\ \E made \in BOOLEAN : (made => ~MayTryAgain(d)) /\ Attempted(d, made)
  /\ GiveUp(d)
  /\ UNCHANGED <<request, event, queueVars, searched, mentions, blind>>

\* JIRA_RETRY_MAX_ATTEMPTS=0, which validateRateLimiting allows: AddComment
\* sends nothing and returns nil.
NoAttempt(d) ==
  /\ Alive
  /\ Due(d)
  /\ config.attempts = 0
  /\ next' = [next EXCEPT ![d] = @ + 1]
  /\ UNCHANGED <<request, event, queueVars, run, searched, mentions, attempt, result, jiraVars, blind>>

AllPosted(d) ==
  /\ Alive
  /\ run[d] = "posting"
  /\ next[d] > Len(mentions[d])
  /\ Finish(d, "commented")
  /\ UNCHANGED <<request, event, queueVars, searched, postVars, jiraVars, blind>>

-----------------------------------------------------------------------------
HandlerStep(d) == Deliver(d) \/ Accept(d) \/ Refuse(d) \/ StartProject(d) \/ Answer(d)

RunStep(d) ==
  \/ StartRun(d) \/ ContextOver(d) \/ Unfiltered(d) \/ Filter(d)
  \/ SearchFails(d) \/ SearchMatches(d) \/ SearchMisses(d) \/ Skip(d)
  \/ Crash(d) \/ Dispatch(d) \/ Reject(d) \/ Return(d) \/ RetryLost(d)

CommentStep(d) ==
  Comment(d) \/ TryAgain(d) \/ CannotComment(d) \/ NoAttempt(d) \/ AllPosted(d)

Next == \E d \in Deliveries : HandlerStep(d) \/ RunStep(d) \/ CommentStep(d)

Spec == Init /\ [][Next]_vars

-----------------------------------------------------------------------------
(* Properties                                                               *)

\* Types; the job phases of project hooks, which have no job, and the bounds
\* of the loops over mentions and attempts.
TypeOK ==
  /\ config \in [filter : BOOLEAN, matching : SUBSET Keys, attempts : 0..MaxAttempts]
  /\ request \in [Deliveries -> {"none", "forbidden", "submitting", "accepted",
                                 "refused", "working", "answered"}]
  /\ event \in [Deliveries -> Events \cup {NoEvent}]
  /\ phase \in [Deliveries -> Queue!Phases]
  /\ runs \in [Deliveries -> Nat]
  /\ run \in [Deliveries -> {"none", "checking", "filtering", "logging", "posting", "returning"}]
  /\ searched \in [Deliveries -> SUBSET Keys]
  /\ mentions \in [Deliveries -> Seq(Keys)]
  /\ next \in [Deliveries -> 1..Longest + 1]
  /\ attempt \in [Deliveries -> 1..MaxAttempts + 1]
  /\ result \in [Deliveries -> {"none", "commented", "skipped", "failed"}]
  /\ posted \in [Deliveries -> [Positions -> Nat]]
  /\ lost \in [Deliveries -> Nat]
  /\ errors \in [Deliveries -> SUBSET Positions]
  /\ blind \subseteq Deliveries
  /\ process \in {"up", "crashed"}
  /\ \A d \in Deliveries :
       /\ Len(mentions[d]) <= Longest
       /\ attempt[d] = 1 \/ attempt[d] <= config.attempts
       /\ HookOf[d] = "project" => phase[d] = "new"

\* A job that ends without an error has left a comment on every issue its
\* converted event asks to comment on, whatever earlier runs did, unless the
\* client is configured to make no attempt.
SuccessMeansCommented ==
  \A d \in Deliveries :
    HookOf[d] = "system" /\ result[d] = "commented" /\ config.attempts > 0
      => \A i \in DOMAIN mentions[d] : posted[d][i] > 0

\* A project hook is answered with 200 only after each of its comments was
\* made or its error logged: a refused comment does not cost the others.
AnsweredMeansTried ==
  \A d \in Deliveries :
    request[d] = "answered" /\ config.attempts > 0
      => \A i \in DOMAIN mentions[d] : posted[d][i] > 0 \/ i \in errors[d]

\* An issue gets more comments for a mention than its event had runs only when
\* answers of Jira were lost: attempts and retries repeat nothing else.
CommentsBounded ==
  \A d \in Deliveries : \A i \in Positions :
    posted[d][i] <= lost[d] + (IF HookOf[d] = "system" THEN runs[d] ELSE 1)

\* docs/reference/environment-variables.md:42, as far as the code goes: an
\* event is skipped only if it has keys and Jira selects none of them, and a
\* comment on an event with keys means that Jira selects one or that a search
\* failed.
FilterSound ==
  \A d \in Deliveries :
    LET keys == FilterKeys(Converted(event[d])) IN
    /\ result[d] = "skipped" => keys # {} /\ keys \cap config.matching = {}
    /\ HookOf[d] = "system" /\ config.filter /\ keys # {} /\ (\E i \in Positions : posted[d][i] > 0)
         => keys \cap config.matching # {} \/ d \in blind

\* README.md:19 "Listens to all System Hook events (push, merge_request,
\* project_create, user_create, etc.)": no event ends the process.
EventsSurvived == process = "up"
=============================================================================
