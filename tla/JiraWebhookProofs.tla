------------------------- MODULE JiraWebhookProofs -------------------------
(***************************************************************************)
(* Proofs about JiraWebhook for any deliveries, keys, events and any       *)
(* MaxRetries: the types, that an event whose key is its own is written to *)
(* GitLab at most once, and what the event cache is left with.             *)
(***************************************************************************)
EXTENDS JiraWebhook, TLAPS

-----------------------------------------------------------------------------
(* Types                                                                   *)

LEMMA InitTypeOK == Init => TypeOK
BY NothingAssumption DEF Init, TypeOK, RequestStates, RunStates, Queue!Init, Queue!Phases

\* Every step of the queue's interface keeps the types of phase and runs.
QueueType ==
  /\ phase \in [Deliveries -> Queue!Phases]
  /\ runs \in [Deliveries -> Nat]

LEMMA QueueStepType ==
  ASSUME QueueType, NEW d \in Deliveries,
         \/ Queue!Accept(d) \/ Queue!Start(d) \/ Queue!Requeue(d)
         \/ Queue!Finish(d) \/ Queue!Lose(d)
  PROVE  QueueType'
BY DEF QueueType, Queue!Accept, Queue!Start, Queue!Requeue, Queue!Finish, Queue!Lose,
       Queue!Become, Queue!Phases

LEMMA CalledType ==
  ASSUME TypeOK, NEW d \in Deliveries, NEW done \in BOOLEAN, NEW err \in BOOLEAN,
         run[d] = "calling", Called(d, done, err)
  PROVE  TypeOK'
<1>1. BodyOf[event[d]] \in Bodies
  BY WebhookAssumption DEF TypeOK
<1>2. applied' \in [Bodies -> Nat]
  BY <1>1 DEF TypeOK, Called
<1> QED BY <1>2 DEF TypeOK, Called, RunStates, StaysUp, queueVars

\* A step changes every variable within its type.
LEMMA NextTypeOK == TypeOK /\ [Next]_vars => TypeOK'
<1> SUFFICES ASSUME TypeOK, [Next]_vars PROVE TypeOK'
  OBVIOUS
<1> USE WebhookAssumption, NothingAssumption DEF RequestStates, RunStates, StaysUp
<1>q. QueueType
  BY DEF TypeOK, QueueType
<1>1. ASSUME NEW d \in Deliveries, HandlerStep(d) PROVE TypeOK'
  <2>1. CASE Deliver(d)
    BY <2>1 DEF Deliver, TypeOK, queueVars, runVars
  <2>2. CASE Store(d)
    BY <2>2 DEF Store, TypeOK, queueVars, runVars
  <2>3. CASE Accept(d)
    BY <2>3, <1>q, QueueStepType DEF Accept, TypeOK, QueueType, runVars
  <2>4. CASE Refuse(d)
    BY <2>4 DEF Refuse, TypeOK, queueVars, runVars
  <2> QED BY <1>1, <2>1, <2>2, <2>3, <2>4 DEF HandlerStep
<1>2. ASSUME NEW d \in Deliveries, RunStep(d) PROVE TypeOK'
  <2>1. CASE StartRun(d)
    BY <2>1, <1>q, QueueStepType DEF StartRun, TypeOK, QueueType
  <2>2. CASE ContextOver(d)
    BY <2>2 DEF ContextOver, TypeOK, queueVars
  <2>3. CASE ContextAlive(d)
    BY <2>3 DEF ContextAlive, TypeOK, queueVars
  <2>4. CASE Fetch(d)
    BY <2>4 DEF Fetch, TypeOK, queueVars
  <2>5. CASE Miss(d)
    BY <2>5 DEF Miss, TypeOK, queueVars
  <2>6. CASE CallCreate(d)
    BY <2>6, CalledType DEF CallCreate
  <2>7. CASE CallSearchFails(d)
    BY <2>7, CalledType DEF CallSearchFails
  <2>8. CASE CallNoMirror(d)
    BY <2>8, CalledType DEF CallNoMirror
  <2>9. CASE CallWrite(d)
    BY <2>9, CalledType DEF CallWrite
  <2>10. CASE Delete(d)
    BY <2>10 DEF Delete, Removed, TypeOK, queueVars
  <2>11. CASE Return(d)
    BY <2>11, <1>q, QueueStepType DEF Return, TypeOK, QueueType
  <2> QED BY <1>2, <2>1, <2>2, <2>3, <2>4, <2>5, <2>6, <2>7, <2>8, <2>9, <2>10, <2>11
          DEF RunStep
<1>3. ASSUME NEW d \in Deliveries, RetryLost(d) PROVE TypeOK'
  BY <1>3, <1>q, QueueStepType DEF RetryLost, TypeOK, QueueType, runVars
<1>4. CASE MapRace
  BY <1>4 DEF MapRace, TypeOK, queueVars, runVars
<1>5. CASE UNCHANGED vars
  BY <1>5 DEF vars, TypeOK
<1> QED BY <1>1, <1>2, <1>3, <1>4, <1>5 DEF Next

\* The handler's map, its goroutines and GitLab's write counts keep their
\* types, and no run past retrieveFromCache holds a nil event.
THEOREM TypeCorrect == Spec => []TypeOK
<1>1. Init => TypeOK
  BY InitTypeOK
<1>2. TypeOK /\ [Next]_vars => TypeOK'
  BY NextTypeOK
<1> QED BY <1>1, <1>2, PTL DEF Spec

-----------------------------------------------------------------------------
(* At most one write per event                                             *)

Stored(d) == request[d] \notin {"none", "storing"}

\* An entry is under its own key and was put there by its request.
CacheSound ==
  \A k \in Keys : cache[k] # Nothing => KeyOf[cache[k]] = k /\ Stored(cache[k])

\* A run holds an event of its own key that some request has stored.
EventSound ==
  \A d \in Deliveries : event[d] # Nothing => KeyOf[event[d]] = KeyOf[d] /\ Stored(event[d])

\* Once an event with a key of its own was written, its request has passed
\* the store, its entry is gone or about to be deleted, and no run is between
\* its look into the cache and its call.
WriteSpent ==
  \A d \in Deliveries : Alone(d) /\ applied[BodyOf[d]] > 0 =>
    /\ applied[BodyOf[d]] = 1
    /\ Stored(d)
    /\ run[d] # "calling"
    /\ cache[KeyOf[d]] = Nothing \/ run[d] = "deleting"

OnceInv == TypeOK /\ CacheSound /\ EventSound /\ WriteSpent

LEMMA InitOnce == Init => OnceInv
<1> SUFFICES ASSUME Init PROVE OnceInv
  OBVIOUS
<1>1. TypeOK
  BY InitTypeOK
<1>2. CacheSound /\ EventSound
  BY DEF Init, CacheSound, EventSound
<1>3. WriteSpent
  BY WebhookAssumption DEF Init, WriteSpent
<1> QED BY <1>1, <1>2, <1>3 DEF OnceInv

\* The call of the run of d raises the count of d's own event only.
LEMMA CalledOnce ==
  ASSUME OnceInv, NEW d \in Deliveries, NEW done \in BOOLEAN, NEW err \in BOOLEAN,
         run[d] = "calling", Called(d, done, err)
  PROVE  CacheSound' /\ EventSound' /\ WriteSpent'
<1> USE WebhookAssumption DEF OnceInv
<1>1. CacheSound' /\ EventSound'
  BY DEF Called, CacheSound, EventSound, Stored, TypeOK
<1>2. event[d] \in Deliveries /\ KeyOf[event[d]] = KeyOf[d]
  BY DEF TypeOK, EventSound
<1>3. ASSUME NEW e \in Deliveries, Alone(e), applied'[BodyOf[e]] > 0
      PROVE  /\ applied'[BodyOf[e]] = 1
             /\ Stored(e)'
             /\ run'[e] # "calling"
             /\ cache'[KeyOf[e]] = Nothing \/ run'[e] = "deleting"
  <2>1. CASE e = d
    <3>1. event[d] = d
      BY <1>2, <1>3, <2>1 DEF Alone
    <3>2. Stored(d)
      BY <3>1, NothingAssumption DEF EventSound
    <3>3. applied[BodyOf[d]] = 0
      BY <1>3, <2>1 DEF WriteSpent, TypeOK
    <3>4. applied'[BodyOf[d]] = 1
      BY <1>3, <2>1, <3>1, <3>3 DEF Called, TypeOK
    <3>5. run'[d] = "deleting"
      BY DEF Called, TypeOK
    <3> QED BY <2>1, <3>2, <3>4, <3>5 DEF Called, Stored
  <2>2. CASE e # d
    <3>1. BodyOf[event[d]] # BodyOf[e]
      BY <1>2, <1>3, <2>2 DEF Alone
    <3>2. applied'[BodyOf[e]] = applied[BodyOf[e]] /\ run'[e] = run[e]
      BY <2>2, <3>1 DEF Called, TypeOK
    <3> QED BY <1>3, <3>2 DEF WriteSpent, Called, Stored
  <2> QED BY <2>1, <2>2
<1>4. WriteSpent'
  BY <1>3 DEF WriteSpent, Alone
<1> QED BY <1>1, <1>4

\* A step that leaves the cache, the events and GitLab alone, moves no request
\* back and no run to its call or away from its deletion.
LEMMA Frame ==
  ASSUME OnceInv, UNCHANGED <<cache, event, applied>>,
         \A e \in Deliveries : Stored(e) => Stored(e)',
         \A e \in Deliveries : run[e] # "calling" => run'[e] # "calling",
         \A e \in Deliveries : run[e] = "deleting" => run'[e] = "deleting"
  PROVE  CacheSound' /\ EventSound' /\ WriteSpent'
<1>1. CacheSound'
  BY DEF OnceInv, CacheSound, TypeOK
<1>2. EventSound'
  BY DEF OnceInv, EventSound, TypeOK
<1>3. WriteSpent'
  BY DEF OnceInv, WriteSpent, Alone
<1> QED BY <1>1, <1>2, <1>3

LEMMA HandlerOnce ==
  ASSUME OnceInv, NEW d \in Deliveries, HandlerStep(d)
  PROVE  CacheSound' /\ EventSound' /\ WriteSpent'
<1> USE WebhookAssumption, NothingAssumption
<1>1. CASE Deliver(d)
  BY <1>1, Frame DEF Deliver, OnceInv, TypeOK, Stored, runVars
<1>2. CASE Store(d)
  <2>1. \A e \in Deliveries : Stored(e)' <=> e = d \/ Stored(e)
    BY <1>2 DEF Store, OnceInv, TypeOK, Stored
  <2>2. CacheSound'
    BY <1>2, <2>1 DEF Store, OnceInv, TypeOK, CacheSound
  <2>3. EventSound'
    BY <1>2, <2>1 DEF Store, OnceInv, TypeOK, EventSound, runVars
  <2>4. ~Stored(d)
    BY <1>2 DEF Store, Stored
  <2>5. ASSUME NEW e \in Deliveries, Alone(e), applied[BodyOf[e]] > 0
        PROVE  KeyOf[e] # KeyOf[d]
    BY <2>4, <2>5 DEF OnceInv, WriteSpent, Alone
  <2>6. WriteSpent'
    BY <1>2, <2>1, <2>5 DEF Store, OnceInv, TypeOK, WriteSpent, Alone, runVars
  <2> QED BY <2>2, <2>3, <2>6
<1>3. CASE Accept(d)
  BY <1>3, Frame DEF Accept, OnceInv, TypeOK, Stored, runVars
<1>4. CASE Refuse(d)
  BY <1>4, Frame DEF Refuse, OnceInv, TypeOK, Stored, runVars
<1> QED BY <1>1, <1>2, <1>3, <1>4 DEF HandlerStep

LEMMA RunOnce ==
  ASSUME OnceInv, NEW d \in Deliveries, RunStep(d)
  PROVE  CacheSound' /\ EventSound' /\ WriteSpent'
<1> USE WebhookAssumption, NothingAssumption
<1>1. CASE StartRun(d)
  BY <1>1, Frame DEF StartRun, OnceInv, TypeOK, Stored
<1>2. CASE ContextOver(d)
  BY <1>2, Frame DEF ContextOver, OnceInv, TypeOK, Stored
<1>3. CASE ContextAlive(d)
  BY <1>3, Frame DEF ContextAlive, OnceInv, TypeOK, Stored
<1>4. CASE Fetch(d)
  <2>1. CacheSound'
    BY <1>4 DEF Fetch, OnceInv, CacheSound, Stored
  <2>2. EventSound'
    BY <1>4 DEF Fetch, OnceInv, TypeOK, CacheSound, EventSound, Stored
  <2>3. WriteSpent'
    BY <1>4 DEF Fetch, OnceInv, TypeOK, WriteSpent, Alone, Stored
  <2> QED BY <2>1, <2>2, <2>3
<1>5. CASE Miss(d)
  BY <1>5, Frame DEF Miss, OnceInv, TypeOK, Stored
<1>6. CASE CallCreate(d)
  BY <1>6, CalledOnce DEF CallCreate
<1>7. CASE CallSearchFails(d)
  BY <1>7, CalledOnce DEF CallSearchFails
<1>8. CASE CallNoMirror(d)
  BY <1>8, CalledOnce DEF CallNoMirror
<1>9. CASE CallWrite(d)
  BY <1>9, CalledOnce DEF CallWrite
<1>10. CASE Delete(d)
  <2>1. CacheSound'
    BY <1>10 DEF Delete, Removed, OnceInv, TypeOK, CacheSound, Stored
  <2>2. EventSound'
    BY <1>10 DEF Delete, OnceInv, TypeOK, EventSound, Stored
  <2>3. ASSUME NEW e \in Deliveries, Alone(e), applied'[BodyOf[e]] > 0
        PROVE  /\ applied'[BodyOf[e]] = 1
               /\ Stored(e)'
               /\ run'[e] # "calling"
               /\ cache'[KeyOf[e]] = Nothing \/ run'[e] = "deleting"
    BY <1>10, <2>3 DEF Delete, Removed, OnceInv, TypeOK, WriteSpent, Stored
  <2>4. WriteSpent'
    BY <2>3 DEF WriteSpent, Alone
  <2> QED BY <2>1, <2>2, <2>4
<1>11. CASE Return(d)
  BY <1>11, Frame DEF Return, OnceInv, TypeOK, Stored
<1> QED BY <1>1, <1>2, <1>3, <1>4, <1>5, <1>6, <1>7, <1>8, <1>9, <1>10, <1>11 DEF RunStep

LEMMA NextOnce == OnceInv /\ [Next]_vars => OnceInv'
<1> SUFFICES ASSUME OnceInv, [Next]_vars PROVE OnceInv'
  OBVIOUS
<1>1. TypeOK'
  BY NextTypeOK DEF OnceInv
<1>2. SUFFICES CacheSound' /\ EventSound' /\ WriteSpent'
  BY <1>1 DEF OnceInv
<1>3. CASE UNCHANGED <<request, cache, event, run, applied>>
  BY <1>3, Frame DEF Stored
<1>4. ASSUME NEW d \in Deliveries, HandlerStep(d) \/ RunStep(d) PROVE CacheSound' /\ EventSound' /\ WriteSpent'
  BY <1>4, HandlerOnce, RunOnce
<1>5. (MapRace \/ \E d \in Deliveries : RetryLost(d)) => UNCHANGED <<request, cache, event, run, applied>>
  BY DEF MapRace, RetryLost, runVars
<1>6. UNCHANGED vars => UNCHANGED <<request, cache, event, run, applied>>
  BY DEF vars
<1> QED BY <1>3, <1>4, <1>5, <1>6 DEF Next

\* processEventByType writes an event whose "type-timestamp" key no other
\* delivery shares to GitLab at most once, however often its job is retried.
THEOREM WrittenOnce == Spec => []AppliedOnce
<1>1. Init => OnceInv
  BY InitOnce
<1>2. OnceInv /\ [Next]_vars => OnceInv'
  BY NextOnce
<1>3. OnceInv => AppliedOnce
  BY WebhookAssumption DEF OnceInv, TypeOK, WriteSpent, AppliedOnce
<1> QED BY <1>1, <1>2, <1>3, PTL DEF Spec

-----------------------------------------------------------------------------
(* What the cache still holds, and what it has lost                        *)

\* A request is accepted with its job; a run belongs to a started job.
JobOfRequest ==
  \A d \in Deliveries :
    /\ phase[d] # "new" <=> request[d] = "accepted"
    /\ run[d] # "none" => phase[d] = "running"
    /\ phase[d] = "running" => runs[d] > 0

\* A run past its context check is one the history knows.
ReachedInOrder ==
  \A d \in Deliveries :
    /\ run[d] \in {"fetching", "calling", "deleting"} => d \in reached
    /\ d \in reached => runs[d] > 0 /\ phase[d] # "new"

\* A run that reached the cache takes the entry of its delivery with it, at
\* the latest when it ends.
TakenAlong ==
  \A d \in Deliveries :
    d \in reached /\ cache[KeyOf[d]] = d => run[d] \in {"fetching", "calling", "deleting"}

\* A run of e that has come back, or that another run of e preceded.
Returned(e) == run[e] \in {"none", "returning"} \/ runs[e] > 1

\* The entry of a stored event is missing only after a run that reached it.
Emptied ==
  \A d \in Deliveries :
    Stored(d) /\ cache[KeyOf[d]] = Nothing =>
      \E e \in reached : KeyOf[e] = KeyOf[d] /\ Returned(e)

CacheParts == JobOfRequest /\ ReachedInOrder /\ TakenAlong /\ Emptied

CacheInv == OnceInv /\ CacheParts

LEMMA InitCache == Init => CacheInv
<1> SUFFICES ASSUME Init PROVE CacheInv
  OBVIOUS
<1>1. OnceInv
  BY InitOnce
<1>2. CacheParts
  BY DEF Init, Queue!Init, CacheParts, JobOfRequest, ReachedInOrder, TakenAlong, Emptied, Stored
<1> QED BY <1>1, <1>2 DEF CacheInv

LEMMA HandlerCache ==
  ASSUME CacheInv, TypeOK', NEW d \in Deliveries, HandlerStep(d)
  PROVE  CacheParts'
<1> USE WebhookAssumption, NothingAssumption DEF CacheInv, OnceInv, CacheParts
<1> USE DEF TypeOK, JobOfRequest, ReachedInOrder, TakenAlong, Emptied
<1>1. CASE Deliver(d)
  BY <1>1 DEF Deliver, Stored, Returned, queueVars, runVars
<1>2. CASE Store(d)
  <2>1. d \notin reached
    BY <1>2 DEF Store
  <2>2. JobOfRequest' /\ ReachedInOrder'
    BY <1>2 DEF Store, queueVars, runVars
  <2>3. TakenAlong'
    BY <1>2, <2>1 DEF Store, queueVars, runVars
  <2>4. \A e \in Deliveries : cache'[KeyOf[e]] = Nothing => Stored(e)' = Stored(e) /\ cache[KeyOf[e]] = Nothing
    BY <1>2 DEF Store, Stored
  <2>5. Emptied'
    BY <1>2, <2>4 DEF Store, Returned, queueVars, runVars
  <2> QED BY <2>2, <2>3, <2>5
<1>3. CASE Accept(d)
  BY <1>3 DEF Accept, Queue!Accept, Queue!Become, Stored, Returned, runVars
<1>4. CASE Refuse(d)
  BY <1>4 DEF Refuse, Stored, Returned, queueVars, runVars
<1> QED BY <1>1, <1>2, <1>3, <1>4 DEF HandlerStep

LEMMA RunCache ==
  ASSUME CacheInv, TypeOK', NEW d \in Deliveries, RunStep(d)
  PROVE  CacheParts'
<1> USE WebhookAssumption, NothingAssumption DEF CacheInv, OnceInv, CacheParts
<1> USE DEF TypeOK, JobOfRequest, ReachedInOrder, TakenAlong, Emptied
<1>1. CASE StartRun(d)
  BY <1>1 DEF StartRun, Queue!Start, Queue!Become, Stored, Returned
<1>2. CASE ContextOver(d)
  BY <1>2 DEF ContextOver, Stored, Returned, queueVars
<1>3. CASE ContextAlive(d)
  BY <1>3 DEF ContextAlive, Stored, Returned, queueVars
<1>4. CASE Fetch(d)
  BY <1>4 DEF Fetch, Stored, Returned, queueVars
<1>5. CASE Miss(d)
  BY <1>5 DEF Miss, Stored, Returned, queueVars
<1>6. ASSUME NEW done \in BOOLEAN, NEW e \in BOOLEAN, run[d] = "calling", Called(d, done, e)
      PROVE  CacheParts'
  BY <1>6 DEF Called, Stored, Returned, queueVars
<1>7. CASE CallCreate(d) \/ CallSearchFails(d) \/ CallNoMirror(d) \/ CallWrite(d)
  BY <1>7, <1>6, ZenonT(60) DEF CallCreate, CallSearchFails, CallNoMirror, CallWrite
<1>8. CASE Delete(d)
  <2>1. JobOfRequest' /\ ReachedInOrder'
    BY <1>8 DEF Delete, queueVars
  <2>2. TakenAlong'
    BY <1>8 DEF Delete, Removed, queueVars
  <2>3. d \in reached' /\ Returned(d)'
    BY <1>8 DEF Delete, Returned
  <2>4. ASSUME NEW e \in Deliveries, KeyOf[e] # KeyOf[d] PROVE cache'[KeyOf[e]] = cache[KeyOf[e]]
    BY <1>8, <2>4 DEF Delete, Removed
  <2>5. ASSUME NEW e \in Deliveries, Returned(e) PROVE Returned(e)'
    BY <1>8, <2>5 DEF Delete, Returned, queueVars
  <2>6. reached' = reached /\ \A e \in Deliveries : Stored(e)' = Stored(e)
    BY <1>8 DEF Delete, Stored
  <2>7. Emptied'
    BY <2>3, <2>4, <2>5, <2>6
  <2> QED BY <2>1, <2>2, <2>7
<1>9. CASE Return(d)
  BY <1>9 DEF Return, Queue!Finish, Queue!Requeue, Queue!Become, Stored, Returned
<1> QED BY <1>1, <1>2, <1>3, <1>4, <1>5, <1>7, <1>8, <1>9 DEF RunStep

LEMMA NextCache == CacheInv /\ [Next]_vars => CacheInv'
<1> SUFFICES ASSUME CacheInv, [Next]_vars PROVE CacheInv'
  OBVIOUS
<1>1. OnceInv' /\ TypeOK'
  BY NextOnce DEF CacheInv, OnceInv
<1>2. ASSUME NEW d \in Deliveries, HandlerStep(d) \/ RunStep(d) PROVE CacheParts'
  BY <1>1, <1>2, HandlerCache, RunCache
<1>3. ASSUME NEW d \in Deliveries, RetryLost(d) PROVE CacheParts'
  BY <1>1, <1>3 DEF RetryLost, Queue!Lose, Queue!Become, CacheInv, OnceInv, TypeOK, CacheParts,
     JobOfRequest, ReachedInOrder, TakenAlong, Emptied, Stored, Returned, runVars
<1>4. ASSUME UNCHANGED <<request, cache, phase, runs, run, reached>> PROVE CacheParts'
  <2>1. JobOfRequest' /\ ReachedInOrder' /\ TakenAlong'
    BY <1>4 DEF CacheInv, CacheParts, JobOfRequest, ReachedInOrder, TakenAlong
  <2>2. Emptied'
    BY <1>4 DEF CacheInv, CacheParts, Emptied, Stored, Returned
  <2> QED BY <2>1, <2>2 DEF CacheParts
<1>5. MapRace \/ UNCHANGED vars => UNCHANGED <<request, cache, phase, runs, run, reached>>
  BY DEF MapRace, vars, queueVars, runVars
<1>6. CacheParts'
  <2>1. CASE MapRace \/ UNCHANGED vars
    BY <2>1, <1>4, <1>5
  <2>2. CASE \E d \in Deliveries : HandlerStep(d) \/ RunStep(d) \/ RetryLost(d)
    BY <2>2, <1>2, <1>3
  <2> QED BY <2>1, <2>2 DEF Next
<1> QED BY <1>1, <1>6 DEF CacheInv

\* An entry left in eventCache after its request and its job are over was left
\* by a refused submission, or by a job no run of which saw its context alive:
\* the deferred delete misses no other.
THEOREM OnlyExplainedLeaks == Spec => []LeaksExplained
<1>1. Init => CacheInv
  BY InitCache
<1>2. CacheInv /\ [Next]_vars => CacheInv'
  BY NextCache
<1>3. CacheInv => LeaksExplained
  BY WebhookAssumption DEF CacheInv, OnceInv, TypeOK, CacheSound, CacheParts, JobOfRequest, TakenAlong,
     LeaksExplained, Quiet
<1> QED BY <1>1, <1>2, <1>3, PTL DEF Spec

\* HandleWebhook stores the event before it submits the job: the job's first
\* run misses it only when a job of the same key has deleted it.
THEOREM FirstRunMisses == Spec => []FirstRunFinds
<1>1. Init => CacheInv
  BY InitCache
<1>2. CacheInv /\ [Next]_vars => CacheInv'
  BY NextCache
<1>3. ASSUME CacheInv, NEW d \in Deliveries, run[d] = "fetching", runs[d] = 1, cache[KeyOf[d]] = Nothing
      PROVE  \E e \in reached : e # d /\ KeyOf[e] = KeyOf[d]
  <2>1. Stored(d)
    BY <1>3 DEF CacheInv, CacheParts, JobOfRequest, Stored
  <2>2. PICK e \in reached : KeyOf[e] = KeyOf[d] /\ Returned(e)
    BY <1>3, <2>1 DEF CacheInv, CacheParts, Emptied
  <2>3. e # d
    BY <1>3, <2>2 DEF Returned
  <2> QED BY <2>2, <2>3
<1>4. CacheInv => FirstRunFinds
  BY <1>3 DEF FirstRunFinds
<1> QED BY <1>1, <1>2, <1>4, PTL DEF Spec
=============================================================================
