---------------------------- MODULE JiraWebhook ----------------------------
(***************************************************************************)
(* The Jira side of the service, internal/jira/webhook_handler.go: HTTP    *)
(* handlers that store the parsed event in eventCache under a key made of  *)
(* its type and timestamp and submit a job that carries only the key, and  *)
(* the runs of that job, which fetch the event, call GitLab and delete the *)
(* entry.  The queue in between is the one JobLifecycle promises.          *)
(*                                                                         *)
(* eventCache is a plain Go map without a lock.  GitLab is external: the   *)
(* issues it holds, and calls that succeed, are refused, or are carried    *)
(* out although their answer is lost.  Every Jira project is mapped to a   *)
(* GitLab project, every event has the objects its processing follows (an  *)
(* issue with fields and a project), and the bidirectional sync that may   *)
(* follow is off, its default (config.go:394).                             *)
(***************************************************************************)
EXTENDS Integers

CONSTANTS
  Deliveries,  \* the HTTP requests Jira may make, redeliveries included
  Keys,        \* the values of fmt.Sprintf("%s-%d", WebhookEvent, Timestamp)
  Bodies,      \* the events
  KeyOf,       \* the key of each delivery
  BodyOf,      \* the event each delivery carries
  KindOf,      \* "create", "update", "comment" (worklogs too) or "delete"
  IssueOf,     \* the Jira issue of the event
  MaxRetries   \* config.MaxRetries

ASSUME WebhookAssumption ==
  /\ KeyOf \in [Deliveries -> Keys]
  /\ BodyOf \in [Deliveries -> Bodies]
  /\ KindOf \in [Bodies -> {"create", "update", "comment", "delete"}]
  /\ MaxRetries \in Nat
  \* type and timestamp are fields of the event
  /\ \A d, e \in Deliveries : BodyOf[d] = BodyOf[e] => KeyOf[d] = KeyOf[e]

Nothing == "nothing"

ASSUME NothingAssumption == Nothing \notin Deliveries

VARIABLES
  request,  \* where the HTTP handler of the delivery is
  cache,    \* eventCache: the delivery whose event is stored under each key
  phase,    \* JobLifecycle: the job of the delivery
  runs,     \* JobLifecycle: how often its handler was started
  run,      \* where the run of ProcessEventAsync is
  event,    \* the delivery whose event the run fetched
  failed,   \* whether the run is going to return an error
  applied,  \* GitLab: how often the write an event asks for was carried out
  process,  \* "up", or "crashed" by the Go runtime
  reached   \* history: the deliveries a run of which saw its context alive

vars == <<request, cache, phase, runs, run, event, failed, applied, process, reached>>

runVars == <<run, event, failed>>
queueVars == <<phase, runs>>

Queue == INSTANCE JobLifecycle WITH Jobs <- Deliveries

RequestStates == {"none", "storing", "submitting", "accepted", "refused"}
RunStates == {"none", "check", "fetching", "calling", "deleting", "returning"}

\* The GitLab issues whose title carries the key of Jira issue i.
Created(i) == {b \in Bodies : KindOf[b] = "create" /\ IssueOf[b] = i /\ applied[b] > 0}
Mirrored(i) == Created(i) # {}

-----------------------------------------------------------------------------
Init ==
  /\ request = [d \in Deliveries |-> "none"]
  /\ cache = [k \in Keys |-> Nothing]
  /\ Queue!Init
  /\ run = [d \in Deliveries |-> "none"]
  /\ event = [d \in Deliveries |-> Nothing]
  /\ failed = [d \in Deliveries |-> FALSE]
  /\ applied = [b \in Bodies |-> 0]
  /\ process = "up"
  /\ reached = {}

\* Every goroutine ends with the process.
StaysUp == process = "up" /\ process' = "up"

-----------------------------------------------------------------------------
(* HandleWebhook                                                           *)

\* Method, body, authentication and required fields are in order.
Deliver(d) ==
  /\ request[d] = "none"
  /\ request' = [request EXCEPT ![d] = "storing"]
  /\ StaysUp
  /\ UNCHANGED <<cache, queueVars, runVars, applied, reached>>

\* convertToInterfaceEvent
Store(d) ==
  /\ request[d] = "storing"
  /\ cache' = [cache EXCEPT ![KeyOf[d]] = d]
  /\ request' = [request EXCEPT ![d] = "submitting"]
  /\ StaysUp
  /\ UNCHANGED <<queueVars, runVars, applied, reached>>

AcceptBeforeStore(d) ==
  /\ request[d] \in {"storing", "submitting"}
  /\ Queue!Accept(d)
  /\ request' = [request EXCEPT ![d] = IF @ = "submitting" THEN "accepted" ELSE @]
  /\ StaysUp
  /\ UNCHANGED <<cache, runVars, applied, reached>>

\* workerPool.SubmitJob returned nil: the answer is 200.
Accept(d) ==
  /\ request[d] = "submitting"
  /\ Queue!Accept(d)
  /\ request' = [request EXCEPT ![d] = "accepted"]
  /\ StaysUp
  /\ UNCHANGED <<cache, runVars, applied, reached>>

\* The queue timed out or is shut down: the answer is 500, the entry stays.
Refuse(d) ==
  /\ request[d] = "submitting"
  /\ request' = [request EXCEPT ![d] = "refused"]
  /\ StaysUp
  /\ UNCHANGED <<cache, queueVars, runVars, applied, reached>>

-----------------------------------------------------------------------------
(* ProcessEventAsync, called by a worker with the job's context            *)

StartRun(d) ==
  /\ run[d] = "none"
  /\ Queue!Start(d)
  /\ run' = [run EXCEPT ![d] = "check"]
  /\ failed' = [failed EXCEPT ![d] = FALSE]
  /\ StaysUp
  /\ UNCHANGED <<request, cache, event, applied, reached>>

\* case <-ctx.Done(): the job timed out, or is a retry of a job whose
\* context CompleteJob cancelled.
ContextOver(d) ==
  /\ run[d] = "check"
  /\ run' = [run EXCEPT ![d] = "returning"]
  /\ failed' = [failed EXCEPT ![d] = TRUE]
  /\ StaysUp
  /\ UNCHANGED <<request, cache, queueVars, event, applied, reached>>

ContextAlive(d) ==
  /\ run[d] = "check"
  /\ run' = [run EXCEPT ![d] = "fetching"]
  /\ reached' = reached \cup {d}
  /\ StaysUp
  /\ UNCHANGED <<request, cache, queueVars, event, failed, applied>>

FetchUnchecked(d) ==
  /\ run[d] = "fetching"
  /\ event' = [event EXCEPT ![d] = cache[KeyOf[d]]]
  /\ run' = [run EXCEPT ![d] = "calling"]
  /\ StaysUp
  /\ UNCHANGED <<request, cache, queueVars, failed, applied, reached>>

\* retrieveFromCache
Fetch(d) ==
  /\ run[d] = "fetching"
  /\ cache[KeyOf[d]] # Nothing
  /\ event' = [event EXCEPT ![d] = cache[KeyOf[d]]]
  /\ run' = [run EXCEPT ![d] = "calling"]
  /\ StaysUp
  /\ UNCHANGED <<request, cache, queueVars, failed, applied, reached>>

\* "jira event not found in cache"
Miss(d) ==
  /\ run[d] = "fetching"
  /\ cache[KeyOf[d]] = Nothing
  /\ run' = [run EXCEPT ![d] = "returning"]
  /\ failed' = [failed EXCEPT ![d] = TRUE]
  /\ StaysUp
  /\ UNCHANGED <<request, cache, queueVars, event, applied, reached>>

\* What is left of processEventByType once its calls have ended: done says
\* whether GitLab carried the write out, err whether an error is returned.
Called(d, done, err) ==
  /\ applied' = [applied EXCEPT ![BodyOf[event[d]]] = IF done THEN @ + 1 ELSE @]
  /\ failed' = [failed EXCEPT ![d] = err]
  /\ run' = [run EXCEPT ![d] = "deleting"]
  /\ StaysUp
  /\ UNCHANGED <<request, cache, queueVars, event, reached>>

\* processIssueCreated: CreateIssue, without looking for an existing issue.
\* The write may be carried out and its answer lost.
CallCreate(d) ==
  /\ run[d] = "calling"
  /\ KindOf[BodyOf[event[d]]] = "create"
  /\ \E done, err \in BOOLEAN : (done \/ err) /\ Called(d, done, err)

\* The other kinds search for the mirror by "[KEY]" first and do nothing when
\* there is none; the search itself may fail.  Issues are never deleted, so
\* the search and the write that follows it are one step.
CallSearchFails(d) ==
  /\ run[d] = "calling"
  /\ KindOf[BodyOf[event[d]]] # "create"
  /\ Called(d, FALSE, TRUE)

CallNoMirror(d) ==
  /\ run[d] = "calling"
  /\ KindOf[BodyOf[event[d]]] # "create"
  /\ ~Mirrored(IssueOf[BodyOf[event[d]]])
  /\ Called(d, FALSE, FALSE)

\* UpdateIssue or CreateComment; processIssueDeleted only logs the error of
\* its comment.
CallWrite(d) ==
  /\ run[d] = "calling"
  /\ KindOf[BodyOf[event[d]]] # "create"
  /\ Mirrored(IssueOf[BodyOf[event[d]]])
  /\ \E done, err \in BOOLEAN :
       /\ done \/ err
       /\ Called(d, done, err /\ KindOf[BodyOf[event[d]]] # "delete")

RemovedOnSuccess(d) == IF failed[d] THEN cache ELSE [cache EXCEPT ![KeyOf[d]] = Nothing]
RemovedNever(d) == cache
Removed(d) == [cache EXCEPT ![KeyOf[d]] = Nothing]

\* defer delete(h.eventCache, eventKey), whatever the run returns
Delete(d) ==
  /\ run[d] = "deleting"
  /\ cache' = Removed(d)
  /\ event' = [event EXCEPT ![d] = Nothing]
  /\ run' = [run EXCEPT ![d] = "returning"]
  /\ StaysUp
  /\ UNCHANGED <<request, queueVars, failed, applied, reached>>

\* The queue completes the job: an error leads to a retry or to the end.
Return(d) ==
  /\ run[d] = "returning"
  /\ Queue!Finish(d) \/ (failed[d] /\ Queue!Requeue(d))
  /\ run' = [run EXCEPT ![d] = "none"]
  /\ StaysUp
  /\ UNCHANGED <<request, cache, event, failed, applied, reached>>

RetryLost(d) ==
  /\ Queue!Lose(d)
  /\ StaysUp
  /\ UNCHANGED <<request, cache, runVars, applied, reached>>

-----------------------------------------------------------------------------
(* The map                                                                 *)

Writing(d) == request[d] = "storing" \/ run[d] = "deleting"
Accessing(d) == Writing(d) \/ run[d] = "fetching"

\* Two goroutines in the map at once, one of them writing: the runtime may
\* throw "concurrent map writes", which no recover catches.
MapRace ==
  /\ process = "up"
  /\ \E d, e \in Deliveries : d # e /\ Writing(d) /\ Accessing(e)
  /\ process' = "crashed"
  /\ UNCHANGED <<request, cache, queueVars, runVars, applied, reached>>

-----------------------------------------------------------------------------
HandlerStep(d) == Deliver(d) \/ Store(d) \/ Accept(d) \/ Refuse(d)

RunStep(d) ==
  \/ StartRun(d) \/ ContextOver(d) \/ ContextAlive(d) \/ Fetch(d) \/ Miss(d)
  \/ CallCreate(d) \/ CallSearchFails(d) \/ CallNoMirror(d) \/ CallWrite(d)
  \/ Delete(d) \/ Return(d)

Next ==
  \/ \E d \in Deliveries : HandlerStep(d) \/ RunStep(d) \/ RetryLost(d)
  \/ MapRace

Spec == Init /\ [][Next]_vars

-----------------------------------------------------------------------------
(* Properties                                                              *)

\* Types, and no nil event under a run past its look into the cache.
TypeOK ==
  /\ request \in [Deliveries -> RequestStates]
  /\ cache \in [Keys -> Deliveries \cup {Nothing}]
  /\ phase \in [Deliveries -> Queue!Phases]
  /\ runs \in [Deliveries -> Nat]
  /\ run \in [Deliveries -> RunStates]
  /\ event \in [Deliveries -> Deliveries \cup {Nothing}]
  /\ failed \in [Deliveries -> BOOLEAN]
  /\ applied \in [Bodies -> Nat]
  /\ process \in {"up", "crashed"}
  /\ reached \in SUBSET Deliveries
  /\ \A d \in Deliveries : run[d] \in {"calling", "deleting"} <=> event[d] # Nothing

Alone(d) == \A e \in Deliveries : KeyOf[e] = KeyOf[d] => e = d

\* An event whose key no other delivery has is written to GitLab at most
\* once, although its job is retried after errors that may hide a write that
\* was carried out: the first run takes the event out of the cache.
AppliedOnce == \A d \in Deliveries : Alone(d) => applied[BodyOf[d]] <= 1

\* The cache does not leak through runs: an entry whose request and job are
\* over was left by a refused submission, or by a job all runs of which found
\* their context over before they looked at the cache.
Quiet(d) == request[d] = "refused" \/ phase[d] = "over"

LeaksExplained ==
  \A k \in Keys : LET d == cache[k] IN
    d # Nothing /\ Quiet(d) => request[d] = "refused" \/ d \notin reached

\* The first run of a job misses its event only when a job of the same key
\* has deleted it: a request stores the event before it submits the job.
FirstRunFinds ==
  \A d \in Deliveries :
    run[d] = "fetching" /\ runs[d] = 1 /\ cache[KeyOf[d]] = Nothing
      => \E e \in reached : e # d /\ KeyOf[e] = KeyOf[d]
=============================================================================
