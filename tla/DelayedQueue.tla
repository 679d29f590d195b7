---------------------------- MODULE DelayedQueue ----------------------------
(***************************************************************************)
(* internal/async/delayed_queue.go: jobs that wait for their time.         *)
(*                                                                         *)
(* processReadyJobs is run by the scheduler goroutine and by every caller  *)
(* of WaitForReadyJobs.  It takes the due jobs out of the slice under the  *)
(* mutex and hands them to the main queue after it, one by one; what the   *)
(* main queue refuses is submitted again, to wait another second.  A job   *)
(* is named by its event.  The main queue is what it promises here: it     *)
(* takes a job or refuses it.                                              *)
(***************************************************************************)
EXTENDS Integers, FiniteSets

CONSTANTS
  DelayedEvents,   \* the events submitted with a delay
  Waiters          \* goroutines that call WaitForReadyJobs

ASSUME DelayedAssumption == "scheduler" \notin Waiters

VARIABLES
  delayed,        \* dq.jobs
  due,            \* those of them whose ScheduledAt has passed
  drain,          \* per goroutine in processReadyJobs: pc and its readyJobs
  moved,          \* how often the main queue has taken each event
  submitted,      \* the events SubmitDelayedJob has accepted
  delayedStop     \* Shutdown has cancelled dq.ctx

delayedVars == <<delayed, due, drain, moved, submitted, delayedStop>>

scheduler == "scheduler"
Drains == Waiters \cup {scheduler}

DelayedInit ==
  /\ delayed = {} /\ due = {} /\ submitted = {}
  /\ drain = [d \in Drains |->
                [pc |-> IF d = scheduler THEN "starting" ELSE "idle", held |-> {}]]
  /\ moved = [e \in DelayedEvents |-> 0]
  /\ delayedStop = FALSE

\* Nothing is refused, not even after Shutdown.
SubmitDelayedJob(e) ==
  /\ e \notin submitted
  /\ submitted' = submitted \cup {e}
  /\ delayed' = delayed \cup {e}
  /\ UNCHANGED <<due, drain, moved, delayedStop>>

FallDue(e) ==
  /\ e \in delayed \ due
  /\ due' = due \cup {e}
  /\ UNCHANGED <<delayed, drain, moved, submitted, delayedStop>>

-----------------------------------------------------------------------------
(* processReadyJobs                                                        *)

\* The slice is not replaced under the lock.
TakeReadyCopies(d) ==
  /\ drain[d].pc \in {"starting", "waiting"}
  /\ drain' = [drain EXCEPT ![d] = [pc |-> "moving", held |-> due]]
  /\ UNCHANGED <<delayed, due, moved, submitted, delayedStop>>

TakeReady(d) ==
  /\ drain[d].pc \in {"starting", "waiting"}
  /\ drain' = [drain EXCEPT ![d] = [pc |-> "moving", held |-> due]]
  /\ delayed' = delayed \ due
  /\ due' = {}
  /\ UNCHANGED <<moved, submitted, delayedStop>>

\* mainQueue.SubmitJob accepts.
HandOver(d, e) ==
  /\ e \in drain[d].held
  /\ moved' = [moved EXCEPT ![e] = @ + 1]
  /\ drain' = [drain EXCEPT ![d].held = @ \ {e}]
  /\ UNCHANGED <<delayed, due, submitted, delayedStop>>

\* The refused job is only logged.
PutBackDrops(d, e) ==
  /\ e \in drain[d].held
  /\ drain' = [drain EXCEPT ![d].held = @ \ {e}]
  /\ UNCHANGED <<delayed, due, moved, submitted, delayedStop>>

\* mainQueue.SubmitJob times out or is shut down.
PutBack(d, e) ==
  /\ e \in drain[d].held
  /\ delayed' = delayed \cup {e}
  /\ drain' = [drain EXCEPT ![d].held = @ \ {e}]
  /\ UNCHANGED <<due, moved, submitted, delayedStop>>

\* A waiter looks whether anything is left; the scheduler does not.
EndDrain(d) ==
  /\ drain[d].pc = "moving" /\ drain[d].held = {}
  /\ drain' = [drain EXCEPT ![d].pc =
                 IF d \in Waiters /\ delayed = {} THEN "idle" ELSE "waiting"]
  /\ UNCHANGED <<delayed, due, moved, submitted, delayedStop>>

-----------------------------------------------------------------------------
(* WaitForReadyJobs and Shutdown                                           *)

\* With an empty slice it returns at once.
BeginWait(w) ==
  /\ drain[w].pc = "idle" /\ delayed # {}
  /\ drain' = [drain EXCEPT ![w].pc = "waiting"]
  /\ UNCHANGED <<delayed, due, moved, submitted, delayedStop>>

\* Its timeout, or the Shutdown its context descends from.
GiveUpWait(w) ==
  /\ drain[w].pc = "waiting"
  /\ drain' = [drain EXCEPT ![w].pc = "idle"]
  /\ UNCHANGED <<delayed, due, moved, submitted, delayedStop>>

ShutdownDelayed ==
  /\ ~delayedStop
  /\ delayedStop' = TRUE
  /\ UNCHANGED <<delayed, due, drain, moved, submitted>>

\* The scheduler meets ctx.Done in its select.
SchedulerExit ==
  /\ delayedStop /\ drain[scheduler].pc = "waiting"
  /\ drain' = [drain EXCEPT ![scheduler].pc = "stopped"]
  /\ UNCHANGED <<delayed, due, moved, submitted, delayedStop>>

DelayedNext ==
  \/ \E e \in DelayedEvents : SubmitDelayedJob(e) \/ FallDue(e)
  \/ \E d \in Drains : TakeReady(d) \/ EndDrain(d)
  \/ \E d \in Drains, e \in DelayedEvents : HandOver(d, e) \/ PutBack(d, e)
  \/ \E w \in Waiters : BeginWait(w) \/ GiveUpWait(w)
  \/ ShutdownDelayed
  \/ SchedulerExit

DelayedSpec == DelayedInit /\ [][DelayedNext]_delayedVars

\* The clock and the goroutines go on, and a main queue that is served by
\* workers takes a job that is offered again and again.  A select that finds
\* both its cases ready picks either: SchedulerExit is not put off for ever.
DelayedFairness ==
  /\ \A e \in DelayedEvents : WF_delayedVars(FallDue(e))
  /\ \A d \in Drains :
       /\ WF_delayedVars(TakeReady(d) \/ EndDrain(d))
       /\ \A e \in DelayedEvents : /\ WF_delayedVars(HandOver(d, e) \/ PutBack(d, e))
                                   /\ SF_delayedVars(HandOver(d, e))
  /\ SF_delayedVars(SchedulerExit)

-----------------------------------------------------------------------------
(* Properties                                                              *)

DelayedTypeOK ==
  /\ delayed \subseteq DelayedEvents /\ due \subseteq delayed
  /\ submitted \subseteq DelayedEvents
  /\ drain \in [Drains -> [pc : {"starting", "idle", "waiting", "moving", "stopped"},
                           held : SUBSET DelayedEvents]]
  /\ moved \in [DelayedEvents -> Nat]
  /\ delayedStop \in BOOLEAN

\* Every event SubmitDelayedJob accepted is in one place: it waits, or one
\* goroutine has it in hand, or the main queue has taken it, once.  Nobody
\* drops it and no two drains take it.
InOnePlace ==
  \A e \in DelayedEvents :
    LET holders == {d \in Drains : e \in drain[d].held}
        waits == IF e \in delayed THEN 1 ELSE 0
    IN waits + Cardinality(holders) + moved[e] = (IF e \in submitted THEN 1 ELSE 0)

\* A delayed job comes to the main queue, unless the queue is shut down; and
\* then the scheduler ends, for Shutdown waits for it (processReadyJobs).
DelayedArrives ==
  /\ \A e \in DelayedEvents : e \in submitted ~> (moved[e] = 1 \/ delayedStop)
  /\ delayedStop ~> drain[scheduler].pc = "stopped"
=============================================================================
