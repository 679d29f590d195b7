----------------------------- MODULE AuditTrail -----------------------------
(***************************************************************************)
(* internal/sync/audit_trail.go: the bounded list of audit events, the     *)
(* index by ID beside it, and what is read from them.                      *)
(*                                                                         *)
(* An event is stamped when its synchronisation begins and recorded when   *)
(* it ends, so that the list is not in the order of the stamps.  Its ID is *)
(* made of the clock at the recording (audit_<second>_<nanosecond>): two   *)
(* recordings at one reading of the clock have one ID.  The list is kept   *)
(* as the set of its events, each with the number of its recording.        *)
(***************************************************************************)
EXTENDS Integers, Sequences, FiniteSets

CONSTANTS
  Syncs,          \* goroutines that synchronise and record
  AuditedIssues,  \* Jira issue keys
  MaxEvents,      \* AuditTrail.maxEvents
  LastTime,       \* bound of the model: the clock stops here
  Recordings      \* bound of the model: events recorded in all

ASSUME AuditAssumption == MaxEvents \in Nat \ {0} /\ LastTime \in Nat /\ Recordings \in Nat

VARIABLES
  trail,      \* at.events: the serial numbers say where an event stands
  index,      \* at.eventIndex: the serial number of the event under an ID
  syncing,    \* per goroutine: when its synchronisation began, or Resting
  auditClock, \* the time
  recorded,   \* how many events have been recorded: the next serial number
  shared      \* IDs that two recordings have been given

auditVars == <<trail, index, syncing, auditClock, recorded, shared>>

NotSyncing == -1
AnyIssue == "any"
EventTypes == {"sync", "conflict_detection"}

AuditInit ==
  /\ trail = {} /\ index = [i \in {} |-> 0]
  /\ syncing = [s \in Syncs |-> NotSyncing]
  /\ auditClock = 0 /\ recorded = 0 /\ shared = {}

Ticks ==
  /\ auditClock < LastTime
  /\ auditClock' = auditClock + 1
  /\ UNCHANGED <<trail, index, syncing, recorded, shared>>

BeginSync(s) ==
  /\ syncing[s] = NotSyncing
  /\ syncing' = [syncing EXCEPT ![s] = auditClock]
  /\ UNCHANGED <<trail, index, auditClock, recorded, shared>>

Forget(ix, ids) == [i \in (DOMAIN ix) \ ids |-> ix[i]]

Oldest(events) == CHOOSE e \in events : \A f \in events : e.serial <= f.serial

\* The oldest event is dropped, its entry in the index is not.
CutKeepsIndex(longer, ix) ==
  IF Cardinality(longer) > MaxEvents THEN <<longer \ {Oldest(longer)}, ix>> ELSE <<longer, ix>>

\* The oldest event is dropped, and with it the entry of its ID, whosever.
Cut(longer, ix) ==
  IF Cardinality(longer) > MaxEvents
    THEN <<longer \ {Oldest(longer)}, Forget(ix, {Oldest(longer).id})>>
    ELSE <<longer, ix>>

RecordEvent(s, type, issue, ok) ==
  LET event == [id |-> auditClock, serial |-> recorded, stamp |-> syncing[s],
                type |-> type, issue |-> issue, ok |-> ok]
      indexed == [i \in DOMAIN index \cup {auditClock} |-> IF i = auditClock THEN recorded ELSE index[i]]
      cut == Cut(trail \cup {event}, indexed)
  IN
  /\ syncing[s] # NotSyncing
  /\ recorded < Recordings
  /\ trail' = cut[1] /\ index' = cut[2]
  /\ shared' = IF \E e \in trail : e.id = auditClock THEN shared \cup {auditClock} ELSE shared
  /\ recorded' = recorded + 1
  /\ syncing' = [syncing EXCEPT ![s] = NotSyncing]
  /\ UNCHANGED auditClock

\* Everything stamped up to a cut-off goes.
PurgeOldEvents(cutoff) ==
  /\ trail' = {e \in trail : e.stamp > cutoff}
  /\ index' = Forget(index, {e.id : e \in trail \ trail'})
  /\ UNCHANGED <<syncing, auditClock, recorded, shared>>

AuditNext ==
  \/ Ticks
  \/ \E s \in Syncs : BeginSync(s)
  \/ \E s \in Syncs, type \in EventTypes, issue \in AuditedIssues, ok \in BOOLEAN :
       RecordEvent(s, type, issue, ok)
  \/ \E cutoff \in 0..LastTime : PurgeOldEvents(cutoff)

AuditSpec == AuditInit /\ [][AuditNext]_auditVars

-----------------------------------------------------------------------------
(* What is read                                                            *)

\* sort.Slice by the stamps.  Of one stamp its order is fixed by the list
\* alone; the model takes the order in which they stand in it.
Before(a, b) == a.stamp > b.stamp \/ (a.stamp = b.stamp /\ a.serial < b.serial)

NewestFirst(events) ==
  CHOOSE order \in [1..Cardinality(events) -> events] :
    \A i, j \in 1..Cardinality(events) : i < j => Before(order[i], order[j])

\* eventMatchesQuery, for the fields that select by issue and by success.
Matching(q) ==
  {e \in trail : (q.issue = AnyIssue \/ e.issue = q.issue) /\ (q.ok = {} \/ e.ok \in q.ok)}

\* The offset is applied to what the limit has left.
QueryEventsLimitFirst(q, offset, limit) ==
  LET matches == NewestFirst(Matching(q))
      rest == IF 0 < limit /\ limit < Len(matches) THEN SubSeq(matches, 1, limit) ELSE matches
  IN IF 0 < offset /\ offset < Len(rest) THEN SubSeq(rest, offset + 1, Len(rest)) ELSE rest

\* An offset beyond the matches is not applied.
QueryEvents(q, offset, limit) ==
  LET matches == NewestFirst(Matching(q))
      rest == IF 0 < offset /\ offset < Len(matches)
                THEN SubSeq(matches, offset + 1, Len(matches)) ELSE matches
  IN IF 0 < limit /\ limit < Len(rest) THEN SubSeq(rest, 1, limit) ELSE rest

\* PrepareRollback: the successful synchronisations of an issue that began
\* after a time, to be undone from the last to the first.
AffectedEvents(issue, to) ==
  NewestFirst({e \in trail : /\ e.stamp > to
                             /\ issue = AnyIssue \/ e.issue = issue
                             /\ e.ok /\ e.type = "sync"})

-----------------------------------------------------------------------------
(* Properties                                                              *)

\* Type invariant of the audit trail.
AuditTypeOK ==
  /\ trail \subseteq [id : 0..LastTime, serial : 0..Recordings, stamp : 0..LastTime,
                      type : EventTypes, issue : AuditedIssues, ok : BOOLEAN]
  /\ DOMAIN index \subseteq 0..LastTime
  /\ syncing \in [Syncs -> {NotSyncing} \cup 0..LastTime]
  /\ auditClock \in 0..LastTime /\ recorded \in 0..Recordings /\ shared \subseteq 0..LastTime

\* The list stays within its limit, GetEvent finds only events of the list,
\* and it finds each of them whose ID was not given twice.
AuditIndexed ==
  /\ Cardinality(trail) <= MaxEvents
  /\ \A id \in DOMAIN index : \E e \in trail : e.id = id /\ e.serial = index[id]
  /\ \A e \in trail : e.id \notin shared => e.id \in DOMAIN index /\ index[e.id] = e.serial

\* The first pages a reader asks for, one after the other.
Paged(q, limit) ==
  LET joined[k \in 0..MaxEvents] ==
        IF k = 0 THEN <<>> ELSE joined[k - 1] \o QueryEvents(q, (k - 1) * limit, limit)
  IN joined

\* A reader that pages through the matches sees each once and none that began
\* earlier before one that began later, until its offset passes their number:
\* then it is given the first page again.
PagesPartition ==
  \A issue \in AuditedIssues \cup {AnyIssue}, ok \in {{}, {TRUE}}, limit \in 1..2 :
    LET q == [issue |-> issue, ok |-> ok]
        all == QueryEvents(q, 0, 0)
        pages == IF Len(all) = 0 THEN 0 ELSE (Len(all) - 1) \div limit + 1
    IN /\ Paged(q, limit)[pages] = all
       /\ \A i, j \in DOMAIN all : i < j => all[i].stamp >= all[j].stamp /\ all[i].serial # all[j].serial
       /\ \A k \in pages..MaxEvents : k > 0 /\ pages > 0 =>
            QueryEvents(q, k * limit, limit) = QueryEvents(q, 0, limit)

\* A rollback undoes what a query for the successful synchronisations of the
\* issue would have shown as begun later, and undoes it once.
RollbackShown ==
  \A issue \in AuditedIssues \cup {AnyIssue}, to \in 0..LastTime :
    LET plan == AffectedEvents(issue, to)
        shown == QueryEvents([issue |-> issue, ok |-> {TRUE}], 0, 0)
    IN /\ {plan[i].serial : i \in DOMAIN plan} =
            {shown[i].serial : i \in {j \in DOMAIN shown : shown[j].stamp > to /\ shown[j].type = "sync"}}
       /\ \A i, j \in DOMAIN plan : i < j => plan[i].stamp >= plan[j].stamp /\ plan[i].serial # plan[j].serial
=============================================================================
