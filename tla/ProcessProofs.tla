---------------------------- MODULE ProcessProofs ----------------------------
(***************************************************************************)
(* Proofs about the goroutines of one process, for any numbers of them,    *)
(* limits, files and requests: the worker pool, which Stop leaves without  *)
(* a worker and ScaleUp freezes; the delayed queue, which loses nothing    *)
(* and hands nothing over twice; the circuit breaker, whose state every    *)
(* caller keeps a copy of; start-up, shutdown and the limiters; reloads of *)
(* the configuration; the performance monitor, whose loop waits for the    *)
(* lock it holds; and that all the variables of MCProcess have their types.*)
(***************************************************************************)
EXTENDS MCProcess, FiniteSetTheorems, TLAPS

-----------------------------------------------------------------------------
(* The worker pool                                                         *)

\* The workers whose deferred wg.Done() is still to come, and those that will
\* call updateStats.
Active == {w \in Workers : pc[w] \notin {"none", "exited"}}
AtWork == {w \in Workers : pc[w] \in {"busy", "counting"}}

\* statsMutex is only ever held across a step by the monitor, in ScaleUp.
Locked ==
  /\ owner \in {Nobody, Monitor}
  /\ owner = Monitor <=> pc[Monitor] = "creating"
  /\ pc[Main] = "creating" => pc[Monitor] = "none"
  /\ owner = Nobody => frozen = 0

Counted == wg = Cardinality(Active)

PoolInv == TypeOK /\ Locked /\ Counted /\ StoppedQuiet /\ OneMoreJob

LEMMA Distinct ==
  /\ Main # Monitor /\ Main # Nobody /\ Monitor # Nobody
  /\ Main \notin Workers /\ Monitor \notin Workers /\ Nobody \notin Workers
  /\ Main \in Goroutines /\ Monitor \in Goroutines /\ Workers \subseteq Goroutines
BY GoroutineAssumption DEF Main, Monitor, Nobody, Goroutines

\* Sets of workers are finite, and one worker more or less changes the number
\* by one.
LEMMA CountWorkers ==
  ASSUME NEW S \in SUBSET Workers, NEW w \in Workers
  PROVE  /\ IsFiniteSet(S) /\ Cardinality(S) \in Nat
         /\ w \notin S => Cardinality(S \cup {w}) = Cardinality(S) + 1
         /\ w \in S => Cardinality(S \ {w}) = Cardinality(S) - 1
         /\ w \in S => Cardinality(S) > 0
<1>1. IsFiniteSet(S)
  BY PoolAssumption, FS_Subset
<1>2. Cardinality(S) \in Nat
  BY <1>1, FS_CardinalityType
<1>3. w \notin S => Cardinality(S \cup {w}) = Cardinality(S) + 1
  BY <1>1, FS_AddElement
<1>4. w \in S => Cardinality(S \ {w}) = Cardinality(S) - 1
  BY <1>1, FS_RemoveElement
<1>5. w \in S => Cardinality(S) > 0
  BY <1>1, <1>2, FS_EmptySet
<1> QED BY <1>1, <1>2, <1>3, <1>4, <1>5

LEMMA InitPool == Init => PoolInv
<1> SUFFICES ASSUME Init PROVE PoolInv
  OBVIOUS
<1>1. Active = {} /\ AtWork = {}
  BY Distinct DEF Init, Active, AtWork, Goroutines
<1>2. Cardinality({}) = 0
  BY FS_EmptySet
<1>3. TypeOK
  BY PoolAssumption DEF Init, TypeOK, Goroutines
<1>4. Locked
  BY Distinct DEF Init, Locked
<1>5. StoppedQuiet
  BY Distinct DEF Init, StoppedQuiet
<1>6. OneMoreJob /\ Counted
  BY <1>1, <1>2 DEF Init, OneMoreJob, AtWork, Counted
<1> QED BY <1>3, <1>4, <1>5, <1>6 DEF PoolInv

\* A step of one worker between two places of its loop, when the number of
\* workers at work does not fall while the mutex is held.
LEMMA LoopStep ==
  ASSUME PoolInv, NEW w \in Workers, NEW here, NEW there,
         pc[w] = here, pc' = [pc EXCEPT ![w] = there],
         here \in {"idle", "looking", "busy", "counting"},
         there \in {"idle", "looking", "busy", "counting"},
         \/ here = "counting" /\ there = "idle" /\ Free /\ frozen' = frozen
         \/ here \in {"idle", "looking"} /\ there \in {"idle", "looking"} /\ frozen' = frozen
         \/ here = "busy" /\ there = "counting" /\ frozen' = frozen
         \/ here = "looking" /\ there = "busy"
            /\ frozen' = (IF Free THEN frozen ELSE frozen + 1),
         backlog' \in 0..MaxBacklog, UNCHANGED <<workers, wg, owner>>
  PROVE  PoolInv'
<1> USE Distinct DEF PoolInv
<1>1. pc \in [Goroutines -> {"none", "idle", "looking", "busy", "counting", "exited", "creating",
                            "running", "ticking", "scaling", "joining", "reporting",
                            "stopped"}]
  BY DEF TypeOK
<1>2. /\ pc'[w] = there /\ \A v \in Workers : v # w => pc'[v] = pc[v]
      /\ pc'[Main] = pc[Main] /\ pc'[Monitor] = pc[Monitor]
  BY <1>1
<1>3. Active' = Active
  BY <1>2 DEF Active
<1>4. TypeOK'
  BY <1>1 DEF TypeOK
<1>5. Locked'
  BY <1>2 DEF Locked, Free
<1>6. Counted'
  BY <1>3 DEF Counted
<1>7. StoppedQuiet'
  BY <1>2 DEF StoppedQuiet
<1>8. OneMoreJob'
  <2>1. /\ AtWork \in SUBSET Workers /\ frozen <= Cardinality(AtWork)
        /\ OneMoreJob' <=> frozen' <= Cardinality(AtWork')
    BY DEF AtWork, OneMoreJob
  <2>2. Cardinality(AtWork) \in Nat /\ frozen \in Nat
    BY <2>1, CountWorkers DEF TypeOK
  <2>3. CASE here = "counting" /\ there = "idle"
    <3>1. frozen' = 0
      BY <2>3 DEF Locked, Free
    <3>2. Cardinality(AtWork') \in Nat
      BY CountWorkers DEF AtWork
    <3> QED BY <2>1, <3>1, <3>2
  <2>4. CASE here = "looking" /\ there = "busy"
    <3>1. AtWork' = AtWork \cup {w} /\ w \notin AtWork
      BY <1>2, <2>4 DEF AtWork
    <3>2. Cardinality(AtWork') = Cardinality(AtWork) + 1
      BY <2>1, <3>1, CountWorkers
    <3>3. frozen' \in {frozen, frozen + 1}
      BY <2>4
    <3>4. frozen' <= Cardinality(AtWork) + 1
      BY <2>1, <2>2, <3>3
    <3> QED BY <2>1, <3>2, <3>4
  <2>5. CASE \/ here \in {"idle", "looking"} /\ there \in {"idle", "looking"}
             \/ here = "busy" /\ there = "counting"
    <3>1. AtWork' = AtWork /\ frozen' = frozen
      BY <1>2, <2>5 DEF AtWork
    <3> QED BY <2>1, <3>1
  <2> QED BY <2>3, <2>4, <2>5
<1> QED BY <1>4, <1>5, <1>6, <1>7, <1>8

\* What neither touches a worker nor the counters.
LEMMA AsideStep ==
  ASSUME PoolInv, TypeOK', Locked',
         \A w \in Workers : pc'[w] = pc[w],
         pc'[Main] \in {"reporting", "stopped"} =>
           \/ pc[Main] \in {"reporting", "stopped"} \/ wg = 0,
         UNCHANGED <<wg, frozen>>
  PROVE  PoolInv'
<1> USE DEF PoolInv
<1>1. Active' = Active /\ AtWork' = AtWork
  BY DEF Active, AtWork
<1>2. Counted'
  BY <1>1 DEF Counted
<1>3. OneMoreJob'
  BY DEF OneMoreJob
<1>4. ASSUME wg = 0 PROVE \A w \in Workers : pc[w] \in {"none", "exited"}
  <2>1. \A w \in Active : Cardinality(Active) > 0
    BY CountWorkers DEF Active
  <2>2. Cardinality(Active) = 0
    BY <1>4 DEF Counted
  <2>3. Active = {}
    BY <2>1, <2>2
  <2> QED BY <2>3 DEF Active
<1>5. StoppedQuiet'
  BY <1>4 DEF StoppedQuiet
<1> QED BY <1>2, <1>3, <1>5

LEMMA NextPool == PoolInv /\ [Next]_vars => PoolInv'
<1> SUFFICES ASSUME PoolInv, [Next]_vars PROVE PoolInv'
  OBVIOUS
<1> USE Distinct
<1>1. /\ pc \in [Goroutines -> {"none", "idle", "looking", "busy", "counting", "exited",
                            "creating", "running", "ticking", "scaling", "joining",
                            "reporting", "stopped"}]
      /\ backlog \in 0..MaxBacklog /\ MaxBacklog \in Nat /\ TypeOK /\ Locked
  BY PoolAssumption DEF PoolInv, TypeOK
<1>2. ASSUME NEW w \in Workers, Look(w) PROVE PoolInv'
  BY <1>1, <1>2, LoopStep DEF Look
<1>3. ASSUME NEW w \in Workers, FindNone(w) PROVE PoolInv'
  BY <1>1, <1>3, LoopStep DEF FindNone
<1>4. ASSUME NEW w \in Workers, TakeJob(w) PROVE PoolInv'
  <2>1. /\ pc[w] = "looking" /\ pc' = [pc EXCEPT ![w] = "busy"]
        /\ frozen' = (IF Free THEN frozen ELSE frozen + 1)
        /\ UNCHANGED <<workers, wg, owner>>
    BY <1>4 DEF TakeJob
  <2>2. backlog' \in 0..MaxBacklog
    BY <1>1, <1>4 DEF TakeJob
  <2> QED BY <2>1, <2>2, LoopStep
<1>5. ASSUME NEW w \in Workers, FinishJob(w) PROVE PoolInv'
  BY <1>1, <1>5, LoopStep DEF FinishJob
<1>6. ASSUME NEW w \in Workers, UpdateStats(w) PROVE PoolInv'
  BY <1>1, <1>6, LoopStep DEF UpdateStats
<1>7. ASSUME NEW w \in Workers, WorkerExit(w) PROVE PoolInv'
  <2>1. /\ pc'[w] = "exited" /\ \A v \in Workers : v # w => pc'[v] = pc[v]
        /\ pc'[Main] = pc[Main] /\ pc'[Monitor] = pc[Monitor]
    BY <1>1, <1>7 DEF WorkerExit
  <2>2. Active' = Active \ {w} /\ w \in Active /\ AtWork' = AtWork /\ Active \in SUBSET Workers
    BY <1>7, <2>1 DEF WorkerExit, Active, AtWork
  <2>3. Counted' /\ wg' \in Nat
    <3>1. Cardinality(Active') = Cardinality(Active) - 1 /\ Cardinality(Active) \in Nat
          /\ Cardinality(Active) > 0
      BY <2>2, CountWorkers
    <3> QED BY <1>7, <3>1 DEF WorkerExit, PoolInv, Counted
  <2>4. TypeOK'
    BY <1>1, <1>7, <2>3 DEF WorkerExit, TypeOK
  <2>5. Locked'
    BY <1>1, <1>7, <2>1 DEF WorkerExit, Locked
  <2>6. StoppedQuiet'
    BY <2>1 DEF PoolInv, StoppedQuiet
  <2>7. OneMoreJob'
    BY <1>7, <2>2 DEF WorkerExit, PoolInv, OneMoreJob, AtWork
  <2> QED BY <2>3, <2>4, <2>5, <2>6, <2>7 DEF PoolInv
<1>8. ASSUME NEW g \in {Main, Monitor}, CreateWorker(g) PROVE PoolInv'
  <2>1. g = Main /\ pc[Main] = "creating" /\ pc[Monitor] = "none" /\ Free
    BY <1>1, <1>8 DEF CreateWorker, Locked, Free
  <2>2. PICK w \in Workers :
          /\ pc[w] = "none"
          /\ workers' = workers \cup {w}
          /\ pc' = [pc EXCEPT ![w] = "idle",
                   ![Main] = IF g = Main /\ Cardinality(workers') >= MinWorkers THEN "running" ELSE @,
                   ![Monitor] = IF Cardinality(workers') >= MinWorkers THEN "ticking" ELSE @]
    BY <1>8 DEF CreateWorker
  <2>3. /\ pc'[w] = "idle" /\ \A v \in Workers : v # w => pc'[v] = pc[v]
        /\ \/ pc'[Main] = "creating" /\ pc'[Monitor] = "none"
           \/ pc'[Main] = "running" /\ pc'[Monitor] = "ticking"
    BY <1>1, <2>1, <2>2
  <2>4. Active' = Active \cup {w} /\ w \notin Active /\ AtWork' = AtWork
        /\ Active \in SUBSET Workers
    BY <2>2, <2>3 DEF Active, AtWork
  <2>5. Counted' /\ wg' \in Nat
    <3>1. Cardinality(Active') = Cardinality(Active) + 1 /\ Cardinality(Active) \in Nat
      BY <2>4, CountWorkers
    <3> QED BY <1>8, <3>1 DEF CreateWorker, PoolInv, Counted
  <2>6. TypeOK'
    BY <1>1, <1>8, <2>1, <2>2, <2>5 DEF CreateWorker, TypeOK
  <2>7. Locked'
    BY <1>1, <1>8, <2>1, <2>3 DEF CreateWorker, Locked, Free
  <2>8. StoppedQuiet'
    BY <2>3 DEF StoppedQuiet
  <2>9. OneMoreJob'
    BY <1>8, <2>4 DEF CreateWorker, PoolInv, OneMoreJob, AtWork
  <2> QED BY <2>5, <2>6, <2>7, <2>8, <2>9 DEF PoolInv
<1>9. CASE CheckScaling \/ ScaleUp \/ MonitorExit
  <2>1. /\ \A w \in Workers : pc'[w] = pc[w]
        /\ pc'[Main] = pc[Main]
        /\ UNCHANGED <<backlog, workers, wg, frozen>>
    BY <1>1, <1>9 DEF CheckScaling, ScaleUp, MonitorExit
  <2>2. TypeOK'
    BY <1>1, <1>9 DEF CheckScaling, ScaleUp, MonitorExit, TypeOK
  <2>3. Locked'
    BY <1>1, <1>9, <2>1 DEF CheckScaling, ScaleUp, MonitorExit, Locked, Free
  <2> QED BY <2>1, <2>2, <2>3, AsideStep
<1>10. CASE Join \/ Report \/ Cancel
  <2>1. /\ \A w \in Workers : pc'[w] = pc[w]
        /\ pc'[Monitor] = pc[Monitor] /\ pc[Main] # "creating" /\ pc'[Main] # "creating"
        /\ UNCHANGED <<backlog, workers, wg, owner, frozen>>
    BY <1>1, <1>10 DEF Join, Report, Cancel
  <2>2. TypeOK'
    BY <1>1, <1>10 DEF Join, Report, Cancel, TypeOK
  <2>3. Locked'
    BY <1>1, <2>1 DEF Locked
  <2>4. pc'[Main] \in {"reporting", "stopped"} =>
          pc[Main] \in {"reporting", "stopped"} \/ wg = 0
    BY <1>1, <1>10 DEF Join, Report, Cancel
  <2> QED BY <2>1, <2>2, <2>3, <2>4, AsideStep
<1>11. CASE SubmitJob
  <2>1. TypeOK' /\ Locked'
    BY <1>1, <1>11 DEF SubmitJob, TypeOK, Locked
  <2> QED BY <1>11, <2>1, AsideStep DEF SubmitJob
<1>12. CASE UNCHANGED vars
  <2>1. TypeOK' /\ Locked'
    BY <1>1, <1>12 DEF vars, TypeOK, Locked
  <2> QED BY <1>12, <2>1, AsideStep DEF vars
<1> QED
  BY <1>2, <1>3, <1>4, <1>5, <1>6, <1>7, <1>8, <1>9, <1>10, <1>11, <1>12 DEF Next, WorkerStep

\* Stop's wg.Wait() returns only when every worker that was ever started has
\* left its loop, and none is started afterwards: Start is over, and ScaleUp
\* never gets past the mutex it holds.
THEOREM StopLeavesNone == Spec => []StoppedQuiet
<1>1. PoolInv => StoppedQuiet
  BY DEF PoolInv
<1> QED BY InitPool, NextPool, <1>1, PTL DEF Spec

\* Once the monitor waits for itself in ScaleUp, each worker takes at most one
\* job more before updateStats stops it: the pool freezes with the rest of its
\* backlog untouched.
THEOREM FreezesSoon == Spec => []OneMoreJob
<1>1. PoolInv => OneMoreJob
  BY DEF PoolInv
<1> QED BY InitPool, NextPool, <1>1, PTL DEF Spec

\* The wait group never goes below zero, which would panic, and the mutex
\* belongs to nobody or to a goroutine of the pool.
THEOREM PoolTypeCorrect == Spec => []TypeOK
<1>1. PoolInv => TypeOK
  BY DEF PoolInv
<1> QED BY InitPool, NextPool, <1>1, PTL DEF Spec

-----------------------------------------------------------------------------
(* The delayed queue: what the count of InOnePlace says, without counting  *)

Holds(d, e) == e \in drain[d].held

\* A goroutine begins a drain with empty hands: nothing is overwritten.
EmptyHanded == \A d \in Drains : drain[d].pc # "moving" => drain[d].held = {}

\* The three places exclude each other, and so do two goroutines; what was
\* submitted is in one of them.
PlacesApart ==
  \A e \in DelayedEvents :
    /\ moved[e] \in {0, 1}
    /\ e \in delayed => moved[e] = 0
    /\ \A d \in Drains : Holds(d, e) => e \notin delayed /\ moved[e] = 0
    /\ \A c, d \in Drains : Holds(c, e) /\ Holds(d, e) => c = d
    /\ e \in submitted <=> e \in delayed \/ moved[e] = 1 \/ \E d \in Drains : Holds(d, e)

DelayedInv == DelayedTypeOK /\ EmptyHanded /\ PlacesApart

LEMMA DelayedInvInit == DelayedInit => DelayedInv
<1> SUFFICES ASSUME DelayedInit PROVE DelayedInv
  OBVIOUS
<1>1. DelayedTypeOK
  BY DEF DelayedInit, DelayedTypeOK
<1>2. \A d \in Drains : drain[d].held = {}
  BY DEF DelayedInit
<1>3. EmptyHanded
  BY <1>2 DEF EmptyHanded
<1>4. delayed = {} /\ submitted = {} /\ \A e \in DelayedEvents : moved[e] = 0
  BY DEF DelayedInit
<1>5. PlacesApart
  BY <1>2, <1>4 DEF PlacesApart, Holds
<1> QED BY <1>1, <1>3, <1>5 DEF DelayedInv

\* An event that is submitted, or falls due, is in no hand.
LEMMA SubmitStep ==
  ASSUME DelayedInv, NEW e \in DelayedEvents, SubmitDelayedJob(e) \/ FallDue(e)
  PROVE  DelayedInv'
BY DEF DelayedInv, DelayedTypeOK, EmptyHanded, PlacesApart, Holds, SubmitDelayedJob, FallDue

LEMMA TakeReadyStep ==
  ASSUME DelayedInv, NEW d \in Drains, TakeReady(d)
  PROVE  DelayedInv'
<1>1. drain[d].held = {}
  BY DEF TakeReady, DelayedInv, EmptyHanded
<1>2. drain'[d].held = due /\ \A c \in Drains \ {d} : drain'[c] = drain[c]
  BY DEF TakeReady, DelayedInv, DelayedTypeOK
<1>3. DelayedTypeOK'
  BY DEF TakeReady, DelayedInv, DelayedTypeOK
<1>4. EmptyHanded'
  BY <1>2 DEF TakeReady, DelayedInv, DelayedTypeOK, EmptyHanded
<1>5. PlacesApart'
  <2> SUFFICES ASSUME NEW e \in DelayedEvents
               PROVE  /\ moved'[e] \in {0, 1}
                      /\ e \in delayed' => moved'[e] = 0
                      /\ \A c \in Drains : Holds(c, e)' => e \notin delayed' /\ moved'[e] = 0
                      /\ \A b, c \in Drains : Holds(b, e)' /\ Holds(c, e)' => b = c
                      /\ e \in submitted' <=> \/ e \in delayed' \/ moved'[e] = 1
                                              \/ \E c \in Drains : Holds(c, e)'
    BY DEF PlacesApart
  <2>1. delayed' = delayed \ due /\ due \subseteq delayed /\ UNCHANGED <<moved, submitted>>
    BY DEF TakeReady, DelayedInv, DelayedTypeOK
  <2>2. CASE e \in due
    BY <1>1, <1>2, <2>1, <2>2 DEF DelayedInv, PlacesApart, Holds
  <2>3. CASE e \notin due
    BY <1>1, <1>2, <2>1, <2>3 DEF DelayedInv, PlacesApart, Holds
  <2> QED BY <2>2, <2>3
<1> QED BY <1>3, <1>4, <1>5 DEF DelayedInv

\* HandOver and PutBack: e leaves d's hands for one other place.
LEMMA GivenStep ==
  ASSUME DelayedInv, NEW d \in Drains, NEW e \in DelayedEvents, HandOver(d, e) \/ PutBack(d, e)
  PROVE  DelayedInv'
<1>1. /\ Holds(d, e) /\ UNCHANGED <<due, submitted, delayedStop>>
      /\ drain'[d].held = drain[d].held \ {e} /\ drain'[d].pc = drain[d].pc
      /\ \A c \in Drains \ {d} : drain'[c] = drain[c]
  BY DEF HandOver, PutBack, Holds, DelayedInv, DelayedTypeOK
<1>2. e \notin delayed /\ moved[e] = 0 /\ \A c \in Drains : Holds(c, e) => c = d
  BY <1>1 DEF DelayedInv, PlacesApart
<1>3. ~Holds(d, e)' /\ \A c \in Drains : ~Holds(c, e)'
  BY <1>1, <1>2 DEF Holds
<1>4. \A x \in DelayedEvents \ {e} : \A c \in Drains : Holds(c, x)' <=> Holds(c, x)
  BY <1>1 DEF Holds
<1>5. DelayedTypeOK'
  BY DEF HandOver, PutBack, DelayedInv, DelayedTypeOK
<1>6. EmptyHanded'
  BY <1>1 DEF DelayedInv, EmptyHanded
<1>7. \/ moved' = [moved EXCEPT ![e] = @ + 1] /\ delayed' = delayed
      \/ delayed' = delayed \cup {e} /\ moved' = moved
  BY DEF HandOver, PutBack
<1>8. ASSUME NEW x \in DelayedEvents \ {e}
      PROVE  moved'[x] = moved[x] /\ (x \in delayed' <=> x \in delayed)
  BY <1>7 DEF DelayedInv, DelayedTypeOK
<1>9. \/ moved'[e] = 1 /\ e \notin delayed'
      \/ moved'[e] = 0 /\ e \in delayed'
  BY <1>2, <1>7 DEF DelayedInv, DelayedTypeOK
<1>10. e \in submitted
  BY <1>1 DEF DelayedInv, PlacesApart
<1>11. PlacesApart'
  BY <1>1, <1>3, <1>4, <1>8, <1>9, <1>10 DEF DelayedInv, PlacesApart
<1> QED BY <1>5, <1>6, <1>11 DEF DelayedInv

\* Steps that move a goroutine and no event.
LEMMA DelayedIdleStep ==
  ASSUME DelayedInv, NEW d \in Drains,
         \/ EndDrain(d)
         \/ d \in Waiters /\ (BeginWait(d) \/ GiveUpWait(d))
         \/ d = scheduler /\ SchedulerExit
  PROVE  DelayedInv'
<1>1. /\ UNCHANGED <<delayed, due, moved, submitted, delayedStop>>
      /\ drain'[d].held = drain[d].held /\ drain[d].held = {}
      /\ \A c \in Drains \ {d} : drain'[c] = drain[c]
  BY DEF EndDrain, BeginWait, GiveUpWait, SchedulerExit, DelayedInv, DelayedTypeOK, EmptyHanded
<1>2. \A c \in Drains, e \in DelayedEvents : Holds(c, e)' <=> Holds(c, e)
  BY <1>1 DEF Holds
<1>3. DelayedTypeOK'
  BY DEF EndDrain, BeginWait, GiveUpWait, SchedulerExit, DelayedInv, DelayedTypeOK
<1>4. EmptyHanded' /\ PlacesApart'
  BY <1>1, <1>2 DEF DelayedInv, EmptyHanded, PlacesApart
<1> QED BY <1>3, <1>4 DEF DelayedInv

LEMMA DelayedInvStep == DelayedInv /\ [DelayedNext]_delayedVars => DelayedInv'
<1> SUFFICES ASSUME DelayedInv, [DelayedNext]_delayedVars PROVE DelayedInv'
  OBVIOUS
<1>1. CASE \E e \in DelayedEvents : SubmitDelayedJob(e) \/ FallDue(e)
  BY <1>1, SubmitStep
<1>2. CASE \E d \in Drains : TakeReady(d)
  BY <1>2, TakeReadyStep
<1>3. CASE \E d \in Drains : EndDrain(d)
  BY <1>3, DelayedIdleStep
<1>4. CASE \E d \in Drains, e \in DelayedEvents : HandOver(d, e) \/ PutBack(d, e)
  BY <1>4, GivenStep
<1>5. CASE \E w \in Waiters : BeginWait(w) \/ GiveUpWait(w)
  BY <1>5, DelayedIdleStep DEF Drains
<1>6. CASE ShutdownDelayed
  BY <1>6 DEF ShutdownDelayed, DelayedInv, DelayedTypeOK, EmptyHanded, PlacesApart, Holds
<1>7. CASE SchedulerExit
  BY <1>7, DelayedIdleStep DEF Drains
<1>8. CASE UNCHANGED delayedVars
  BY <1>8 DEF delayedVars, DelayedInv, DelayedTypeOK, EmptyHanded, PlacesApart, Holds
<1> QED BY <1>1, <1>2, <1>3, <1>4, <1>5, <1>6, <1>7, <1>8 DEF DelayedNext

\* What PlacesApart says is what InOnePlace counts.
LEMMA ApartCounted == DelayedInv => InOnePlace
<1> SUFFICES ASSUME DelayedInv, NEW e \in DelayedEvents
             PROVE  (IF e \in delayed THEN 1 ELSE 0)
                      + Cardinality({d \in Drains : e \in drain[d].held})
                      + moved[e] = (IF e \in submitted THEN 1 ELSE 0)
  BY DEF InOnePlace
<1> DEFINE holders == {d \in Drains : e \in drain[d].held}
<1>1. CASE \E d \in Drains : Holds(d, e)
  <2>1. PICK d \in Drains : Holds(d, e)
    BY <1>1
  <2>2. holders = {d}
    BY <2>1 DEF DelayedInv, PlacesApart, Holds
  <2>3. Cardinality(holders) = 1
    BY <2>2, FS_Singleton
  <2>4. e \notin delayed /\ moved[e] = 0 /\ e \in submitted
    BY <2>1 DEF DelayedInv, PlacesApart
  <2> QED BY <2>3, <2>4
<1>2. CASE ~\E d \in Drains : Holds(d, e)
  <2>1. holders = {}
    BY <1>2 DEF Holds
  <2>2. Cardinality(holders) = 0
    BY <2>1, FS_EmptySet
  <2>3. /\ moved[e] \in {0, 1} /\ (e \in delayed => moved[e] = 0)
        /\ e \in submitted <=> e \in delayed \/ moved[e] = 1
    BY <1>2 DEF DelayedInv, PlacesApart
  <2> QED BY <2>2, <2>3
<1> QED BY <1>1, <1>2

-----------------------------------------------------------------------------
\* Type correctness of the delayed queue and its drains (processReadyJobs).
THEOREM DelayedTypeCorrect == DelayedSpec => []DelayedTypeOK
<1>1. DelayedInv => DelayedTypeOK
  BY DEF DelayedInv
<1> QED BY DelayedInvInit, DelayedInvStep, <1>1, PTL DEF DelayedSpec

\* No accepted event is lost, and none comes to the main queue twice, however
\* the scheduler and the callers of WaitForReadyJobs interleave and whatever
\* the main queue refuses (SubmitDelayedJob, processReadyJobs).
THEOREM NothingLost == DelayedSpec => []InOnePlace
BY DelayedInvInit, DelayedInvStep, ApartCounted, PTL DEF DelayedSpec

-----------------------------------------------------------------------------
(* The client and its circuit breaker                                      *)

\* What a caller read of the breaker before its last failure is still so: a
\* breaker that was not open has not opened, and one that was open and whose
\* timeout had passed has had no failure since.
CopyHolds(b, k) ==
  /\ k.pc \in {"deciding", "trying"} /\ k.fresh /\ k.snapshot # "open" => b.state # "open"
  /\ k.pc = "deciding" /\ k.fresh /\ k.snapshot = "open" /\ k.cool => b.cool
  /\ k.pc = "trying" /\ k.fresh => /\ b.state # "open"
                                   /\ k.snapshot = "open" => b.cool

\* What a caller knows of its own attempts.
AttemptsTold(k) ==
  /\ k.pc = "deciding" => k.sent = 0
  /\ k.pc = "trying" =>
       /\ k.sent < MaxAttempts
       /\ k.sent > 0 => Failed(k.last) /\ IsRetryable(k.host, k.last)
  /\ k.pc = "reporting" =>
       /\ k.result = "response" => k.sent > 0 /\ ~Failed(k.last)
       /\ k.result = "error" => /\ Failed(k.last)
                                /\ k.sent = MaxAttempts \/ ~IsRetryable(k.host, k.last)
       /\ k.result = "nothing" => MaxAttempts = 0

ClientInv == ClientTypeOK /\ \A c \in Callers : CopyHolds(breaker, call[c]) /\ AttemptsTold(call[c])

CallType ==
  [pc : {"idle", "deciding", "trying", "reporting"},
   snapshot : {"closed", "open", "half-open"}, cool : BOOLEAN,
   fresh : BOOLEAN, host : Hosts, sent : 0..MaxAttempts,
   last : Statuses \cup {200}, cancelled : BOOLEAN,
   result : {"none", "response", "nothing", "error", "cancelled"}]

BreakerType ==
  [state : {"closed", "open", "half-open"}, failures : 0..FailureThreshold, cool : BOOLEAN]

LEMMA TypeSplit ==
  ClientTypeOK <=> breaker \in BreakerType /\ call \in [Callers -> CallType] /\ healthy \in BOOLEAN
BY DEF ClientTypeOK, BreakerType, CallType

LEMMA RestingIsCall == Resting \in CallType /\ Resting.pc = "idle"
<1>1. (CHOOSE h \in Hosts : TRUE) \in Hosts
  BY ClientAssumption
<1> QED BY <1>1, ClientAssumption DEF Resting, CallType

LEMMA ClientInvInit == ClientInit => ClientInv
<1> SUFFICES ASSUME ClientInit PROVE ClientInv
  OBVIOUS
<1>1. ClientTypeOK
  <2>1. breaker \in BreakerType
    BY ClientAssumption DEF ClientInit, BreakerType
  <2>2. call \in [Callers -> CallType]
    BY RestingIsCall DEF ClientInit
  <2> QED BY <2>1, <2>2, TypeSplit DEF ClientInit
<1>2. \A c \in Callers : call[c].pc = "idle"
  BY RestingIsCall DEF ClientInit
<1> QED BY <1>1, <1>2 DEF ClientInv, CopyHolds, AttemptsTold

\* One caller moves to k, and the breaker neither opens nor has a failure.
LEMMA OneCallerMoves ==
  ASSUME ClientInv, NEW c \in Callers, NEW k \in CallType,
         call' = [call EXCEPT ![c] = k], breaker' \in BreakerType, healthy' \in BOOLEAN,
         breaker'.state = "open" => breaker.state = "open", breaker'.cool = breaker.cool,
         CopyHolds(breaker', k), AttemptsTold(k)
  PROVE  ClientInv'
<1>1. ClientTypeOK'
  BY TypeSplit DEF ClientInv, ClientTypeOK, BreakerType, CallType
<1>2. ASSUME NEW d \in Callers PROVE CopyHolds(breaker, call[d])' /\ AttemptsTold(call[d])'
  <2>0. call \in [Callers -> CallType]
    BY TypeSplit DEF ClientInv
  <2>1. CASE d = c
    <3>1. call'[d] = k
      BY <2>0, <2>1
    <3> QED BY <3>1 DEF CopyHolds, AttemptsTold
  <2>2. CASE d # c
    <3>1. call'[d] = call[d]
      BY <2>0, <2>2
    <3> QED BY <3>1 DEF ClientInv, CopyHolds, AttemptsTold
  <2> QED BY <2>1, <2>2
<1> QED BY <1>1, <1>2 DEF ClientInv

LEMMA SnapshotKeeps == ASSUME ClientInv, NEW c \in Callers, Snapshot(c) PROVE ClientInv'
<1>0. breaker \in BreakerType /\ call \in [Callers -> CallType] /\ healthy \in BOOLEAN
  BY TypeSplit DEF ClientInv
<1>1. PICK h \in Hosts :
        call' = [call EXCEPT ![c] = [Resting EXCEPT !.pc = "deciding", !.host = h, !.fresh = TRUE,
                                        !.snapshot = breaker.state,
                                        !.cool = breaker.state = "open" /\ breaker.cool]]
  BY DEF Snapshot
<1> DEFINE k == [Resting EXCEPT !.pc = "deciding", !.host = h, !.fresh = TRUE,
                    !.snapshot = breaker.state, !.cool = breaker.state = "open" /\ breaker.cool]
<1>2. k \in CallType
  BY <1>0, RestingIsCall, ZenonT(60) DEF BreakerType, CallType
<1>3. /\ k.pc = "deciding" /\ k.sent = 0 /\ k.snapshot = breaker.state
      /\ k.cool => breaker.cool
  BY <1>0, RestingIsCall DEF Resting
<1>4. breaker' = breaker /\ healthy' = healthy
  BY DEF Snapshot
<1> HIDE DEF k
<1>5. AttemptsTold(k)
  BY <1>3 DEF AttemptsTold
<1>6. CopyHolds(breaker', k)
  BY <1>3, <1>4 DEF CopyHolds
<1>7. call' = [call EXCEPT ![c] = k] /\ k \in CallType
  BY <1>1, <1>2 DEF k
<1> QED BY <1>0, <1>4, <1>5, <1>6, <1>7, OneCallerMoves

LEMMA AdmitKeeps == ASSUME ClientInv, NEW c \in Callers, Admit(c) PROVE ClientInv'
<1>0. breaker \in BreakerType /\ call \in [Callers -> CallType] /\ healthy \in BOOLEAN
  BY TypeSplit DEF ClientInv
<1> DEFINE p == IF MaxAttempts = 0 THEN "reporting" ELSE "trying"
           r == IF MaxAttempts = 0 THEN "nothing" ELSE "none"
           k == [call[c] EXCEPT !.pc = p, !.cool = FALSE, !.result = r]
<1>1. /\ call[c].pc = "deciding" /\ call[c].sent = 0
      /\ call[c].snapshot = "open" => call[c].cool
      /\ CopyHolds(breaker, call[c])
  BY DEF Admit, ClientInv, AttemptsTold
<1>2. call' = [call EXCEPT ![c] = k]
  BY <1>0 DEF Admit, LetIn
<1>3. k \in CallType
  <2>1. p \in {"trying", "reporting"} /\ r \in {"none", "nothing"} /\ call[c] \in CallType
    BY <1>0
  <2> HIDE DEF p, r
  <2> QED BY <2>1 DEF CallType
<1>4. /\ k.pc = p /\ k.result = r /\ k.sent = 0
      /\ k.snapshot = call[c].snapshot /\ k.fresh = call[c].fresh
  BY <1>0, <1>1 DEF CallType
<1>5. /\ breaker' \in BreakerType /\ breaker'.cool = breaker.cool /\ healthy' \in BOOLEAN
      /\ breaker'.state = "open" => breaker.state = "open" /\ call[c].snapshot # "open"
  BY <1>0 DEF Admit, LetIn, BreakerType
<1> HIDE DEF k
<1>6. AttemptsTold(k)
  BY <1>4, ClientAssumption DEF AttemptsTold
<1>7. CopyHolds(breaker', k)
  BY <1>1, <1>4, <1>5 DEF CopyHolds
<1> QED BY <1>2, <1>3, <1>5, <1>6, <1>7, OneCallerMoves

LEMMA AttemptKeeps == ASSUME ClientInv, NEW c \in Callers, Attempt(c) PROVE ClientInv'
<1>0. breaker \in BreakerType /\ call \in [Callers -> CallType] /\ healthy \in BOOLEAN
  BY TypeSplit DEF ClientInv
<1>1. /\ call[c].pc = "trying" /\ call[c].sent < MaxAttempts /\ call[c] \in CallType
      /\ CopyHolds(breaker, call[c]) /\ breaker' = breaker /\ healthy' = healthy
  BY <1>0 DEF Attempt, ClientInv, AttemptsTold
<1>2. PICK status \in Statuses :
        call' = [call EXCEPT ![c].sent = @ + 1, ![c].last = status,
                             ![c].result = Verdict(call[c], call[c].sent + 1, status),
                             ![c].pc = IF Verdict(call[c], call[c].sent + 1, status) = "none"
                                         THEN "trying" ELSE "reporting"]
  BY DEF Attempt
<1> DEFINE s == call[c].sent + 1
           r == Verdict(call[c], s, status)
           p == IF r = "none" THEN "trying" ELSE "reporting"
           k == [call[c] EXCEPT !.sent = s, !.last = status, !.result = r, !.pc = p]
<1>3. s \in 0..MaxAttempts /\ s > 0
  BY <1>1, ClientAssumption DEF CallType
<1>4. /\ r \in {"none", "response", "error", "cancelled"}
      /\ r = "response" <=> ~Failed(status)
      /\ r = "error" => s = MaxAttempts \/ ~IsRetryable(call[c].host, status)
      /\ r = "none" => IsRetryable(call[c].host, status) /\ s # MaxAttempts
  <2>1. CASE ~Failed(status)
    BY <2>1 DEF Verdict
  <2>2. CASE Failed(status) /\ ~IsRetryable(call[c].host, status)
    BY <2>2 DEF Verdict
  <2>3. CASE Failed(status) /\ IsRetryable(call[c].host, status)
    BY <2>3 DEF Verdict
  <2> QED BY <2>1, <2>2, <2>3
<1> HIDE DEF r
<1>5. p \in {"trying", "reporting"} /\ (p = "trying" <=> r = "none")
  OBVIOUS
<1> HIDE DEF p
<1>6. call' = [call EXCEPT ![c] = k]
  BY <1>0, <1>2 DEF p, r
<1>7. k \in CallType
  BY <1>1, <1>3, <1>4, <1>5 DEF CallType
<1>8. /\ k.pc = p /\ k.result = r /\ k.sent = s /\ k.last = status /\ k.host = call[c].host
      /\ k.snapshot = call[c].snapshot /\ k.fresh = call[c].fresh
  BY <1>1 DEF CallType
<1> HIDE DEF k
<1>9. AttemptsTold(k)
  <2>1. p = "trying" => s < MaxAttempts
    BY <1>3, <1>4, <1>5, ClientAssumption
  <2> HIDE DEF s
  <2> QED BY <1>3, <1>4, <1>5, <1>8, <2>1 DEF AttemptsTold
<1>10. CopyHolds(breaker', k)
  BY <1>1, <1>5, <1>8 DEF CopyHolds
<1> QED BY <1>0, <1>1, <1>6, <1>7, <1>9, <1>10, OneCallerMoves

LEMMA QuietKeeps ==
  ASSUME ClientInv, NEW c \in Callers, Interrupted(c) \/ CancelCall(c) \/ Reject(c)
  PROVE  ClientInv'
<1>0. /\ breaker \in BreakerType /\ call \in [Callers -> CallType] /\ healthy \in BOOLEAN
      /\ breaker' = breaker /\ healthy' = healthy
      /\ call[c] \in CallType /\ CopyHolds(breaker, call[c]) /\ AttemptsTold(call[c])
  BY TypeSplit DEF ClientInv, Interrupted, CancelCall, Reject
<1>1. CASE Interrupted(c)
  <2> DEFINE k == [call[c] EXCEPT !.pc = "reporting", !.result = "cancelled"]
  <2>1. call' = [call EXCEPT ![c] = k]
    BY <1>0, <1>1 DEF Interrupted
  <2>2. k \in CallType /\ k.pc = "reporting" /\ k.result = "cancelled"
    BY <1>0 DEF CallType
  <2> HIDE DEF k
  <2>3. AttemptsTold(k) /\ CopyHolds(breaker', k)
    BY <2>2 DEF AttemptsTold, CopyHolds
  <2> QED BY <1>0, <2>1, <2>2, <2>3, OneCallerMoves
<1>2. CASE CancelCall(c)
  <2> DEFINE k == [call[c] EXCEPT !.cancelled = TRUE]
  <2>1. call' = [call EXCEPT ![c] = k]
    BY <1>0, <1>2 DEF CancelCall
  <2>2. /\ k \in CallType /\ k.pc = call[c].pc /\ k.result = call[c].result
        /\ k.sent = call[c].sent /\ k.last = call[c].last /\ k.host = call[c].host
        /\ k.snapshot = call[c].snapshot /\ k.fresh = call[c].fresh /\ k.cool = call[c].cool
    BY <1>0 DEF CallType
  <2> HIDE DEF k
  <2>3. AttemptsTold(k) /\ CopyHolds(breaker', k)
    BY <1>0, <2>2 DEF AttemptsTold, CopyHolds
  <2> QED BY <1>0, <2>1, <2>2, <2>3, OneCallerMoves
<1>3. CASE Reject(c)
  <2>1. AttemptsTold(Resting) /\ CopyHolds(breaker', Resting)
    BY RestingIsCall DEF AttemptsTold, CopyHolds
  <2> QED BY <1>0, <1>3, <2>1, RestingIsCall, OneCallerMoves DEF Reject
<1> QED BY <1>1, <1>2, <1>3

\* A failure makes every copy out of date; a success closes the breaker.
LEMMA ReportKeeps == ASSUME ClientInv, NEW c \in Callers, ReportOutcome(c) PROVE ClientInv'
<1>0. /\ breaker \in BreakerType /\ call \in [Callers -> CallType] /\ healthy \in BOOLEAN
      /\ healthy' = healthy
  BY TypeSplit DEF ClientInv, ReportOutcome
<1>1. CASE call[c].result \in {"response", "nothing"}
  <2>1. /\ breaker' \in BreakerType /\ breaker'.cool = breaker.cool /\ breaker'.state = "closed"
        /\ call' = [call EXCEPT ![c] = Resting]
    <3>1. OnSuccess /\ call' = [call EXCEPT ![c] = Resting] /\ 0 \in 0..FailureThreshold
      BY <1>1, ClientAssumption DEF ReportOutcome
    <3> QED BY <1>0, <3>1 DEF OnSuccess, BreakerType
  <2>2. AttemptsTold(Resting) /\ CopyHolds(breaker', Resting)
    BY RestingIsCall DEF AttemptsTold, CopyHolds
  <2> QED BY <1>0, <2>1, <2>2, RestingIsCall, OneCallerMoves
<1>2. CASE call[c].result \notin {"response", "nothing"}
  <2>1. /\ OnFailure
        /\ call' = [k \in Callers |-> IF k = c THEN Resting ELSE [call[k] EXCEPT !.fresh = FALSE]]
    BY <1>2 DEF ReportOutcome
  <2>2. breaker' \in BreakerType
    BY <1>0, <2>1, ClientAssumption DEF OnFailure, BreakerType
  <2>3. ASSUME NEW d \in Callers
        PROVE  call'[d] \in CallType /\ AttemptsTold(call'[d]) /\ CopyHolds(breaker', call'[d])
    <3>1. CASE d = c
      BY <2>1, <3>1, RestingIsCall DEF AttemptsTold, CopyHolds
    <3>2. CASE d # c
      <4> DEFINE k == [call[d] EXCEPT !.fresh = FALSE]
      <4>1. call[d] \in CallType /\ call'[d] = k
        BY <1>0, <2>1, <3>2
      <4>2. /\ k \in CallType /\ k.pc = call[d].pc /\ k.result = call[d].result
            /\ k.sent = call[d].sent /\ k.last = call[d].last /\ k.host = call[d].host
            /\ k.fresh = FALSE
        BY <4>1 DEF CallType
      <4> HIDE DEF k
      <4> QED BY <4>1, <4>2 DEF ClientInv, AttemptsTold, CopyHolds
    <3> QED BY <3>1, <3>2
  <2>4. call' \in [Callers -> CallType]
    BY <2>1, <2>3
  <2>5. ClientTypeOK'
    BY <1>0, <2>2, <2>4, TypeSplit DEF ClientTypeOK, BreakerType, CallType
  <2> QED BY <2>3, <2>5 DEF ClientInv, AttemptsTold, CopyHolds
<1> QED BY <1>1, <1>2

\* The age of a failure that a caller has read, and the breaker has still.
LEMMA CoolKeeps == ASSUME ClientInv, NEW all \in BOOLEAN, Cool(all) PROVE ClientInv'
<1>0. /\ breaker \in BreakerType /\ call \in [Callers -> CallType] /\ healthy \in BOOLEAN
      /\ healthy' = healthy
  BY TypeSplit DEF ClientInv, Cool
<1>1. /\ breaker' \in BreakerType /\ breaker'.state = breaker.state
      /\ breaker.cool \/ all => breaker'.cool
  BY <1>0 DEF Cool, BreakerType
<1>2. ASSUME NEW d \in Callers
      PROVE  call'[d] \in CallType /\ AttemptsTold(call'[d]) /\ CopyHolds(breaker', call'[d])
  <2> DEFINE b == call[d].cool \/ (call[d].pc = "deciding" /\ call[d].snapshot = "open"
                                     /\ (all \/ ~call[d].fresh))
             k == [call[d] EXCEPT !.cool = b]
  <2>1. call[d] \in CallType /\ call'[d] = k /\ b \in BOOLEAN
    BY <1>0 DEF Cool
  <2>2. b /\ call[d].fresh => call[d].cool \/ all
    OBVIOUS
  <2> HIDE DEF b
  <2>3. /\ k \in CallType /\ k.pc = call[d].pc /\ k.result = call[d].result
        /\ k.sent = call[d].sent /\ k.last = call[d].last /\ k.host = call[d].host
        /\ k.fresh = call[d].fresh /\ k.snapshot = call[d].snapshot /\ k.cool = b
    BY <2>1 DEF CallType
  <2> HIDE DEF k
  <2> QED BY <1>1, <2>1, <2>2, <2>3 DEF ClientInv, AttemptsTold, CopyHolds
<1>3. call' \in [Callers -> CallType]
  BY <1>2 DEF Cool
<1>4. ClientTypeOK'
  BY <1>0, <1>1, <1>3, TypeSplit DEF ClientTypeOK, BreakerType, CallType
<1> QED BY <1>2, <1>4 DEF ClientInv, AttemptsTold, CopyHolds

LEMMA ClientInvStep == ClientInv /\ [ClientNext]_clientVars => ClientInv'
<1> SUFFICES ASSUME ClientInv, [ClientNext]_clientVars PROVE ClientInv'
  OBVIOUS
<1>1. CASE \E c \in Callers : CallerStep(c) \/ CancelCall(c)
  BY <1>1, SnapshotKeeps, AdmitKeeps, AttemptKeeps, QuietKeeps, ReportKeeps DEF CallerStep
<1>2. CASE \E all \in BOOLEAN : Cool(all)
  BY <1>2, CoolKeeps
<1>3. CASE Recover \/ UNCHANGED clientVars
  <2>1. breaker' = breaker /\ call' = call /\ (healthy' = healthy \/ healthy' = TRUE)
    BY <1>3 DEF Recover, clientVars
  <2>2. ClientTypeOK'
    BY <2>1, TypeSplit DEF ClientInv, ClientTypeOK, BreakerType, CallType
  <2> QED BY <2>1, <2>2 DEF ClientInv, CopyHolds, AttemptsTold
<1> QED BY <1>1, <1>2, <1>3 DEF ClientNext

\* However many callers share the client, an open breaker lets no request
\* through while its timeout runs but for callers that had read it before
\* its last failure, and ExecuteRequest retries and returns as the answers
\* say, for every threshold and number of attempts.
THEOREM BreakerHolds == ClientSpec => []ClientSound
<1>1. ClientInv => ClientSound
  BY DEF ClientInv, ClientTypeOK, CopyHolds, AttemptsTold, ClientSound, ShutMeansShut, ToldTheTruth
<1> QED BY <1>1, ClientInvInit, ClientInvStep, PTL DEF ClientSpec

-----------------------------------------------------------------------------
(* Shutdown and the limiters                                               *)

Through(k) == {h \in Hooks : LimiterKey[h] = k /\ hook[h] \notin {"unsent", "arrived", "limited"}}

\* The variables the two promises speak of.
Shapes ==
  /\ hook \in [Hooks -> {"unsent", "arrived", "limited", "reading", "submitting", "accepted", "failed"}]
  /\ job \in [Hooks -> {"none", "queued", "running", "counting", "done"}]
  /\ DOMAIN bucket \subseteq LimiterKeys
  /\ \A k \in DOMAIN bucket : bucket[k] \in Nat
  /\ refills \in [LimiterKeys -> Nat]

\* The pool is cancelled before main waits for it, and nobody brings it back.
CancelledFirst == main \in {"joining", "reporting", "stopped", "draining"} => poolCtx = "cancelled"

\* There is no job before the listener: a Start that fails leaves none.
StartAfterNew == main = "building" => starter = "none"
ListenerFirst == starter \in {"none", "starting", "binding"} => \A h \in Hooks : hook[h] = "unsent"
JobsAccepted == \A h \in Hooks : job[h] # "none" => hook[h] = "accepted"

IdleInv == CancelledFirst /\ StartAfterNew /\ ListenerFirst /\ JobsAccepted /\ StoppedMeansIdle

\* Every token a limiter had is still there or went with a request.
TokensBalance == \A k \in LimiterKeys : Cardinality(Through(k)) + Limiter(k) = Burst + refills[k]

ServerInv == Shapes /\ IdleInv /\ TokensBalance

LEMMA ShapesInit == ServerInit => Shapes
BY DEF ServerInit, Shapes

LEMMA ShapesStep == Shapes /\ [ServerNext]_serverVars => Shapes'
<1> SUFFICES ASSUME Shapes, [ServerNext]_serverVars PROVE Shapes'
  OBVIOUS
<1> USE DEF Shapes
<1>1. CASE UNCHANGED <<hook, job, bucket, refills>>
  BY <1>1
<1>2. ASSUME NEW h \in Hooks, SendHook(h) \/ ReadBody(h) \/ SubmitFails(h) \/ Submit(h)
      PROVE  Shapes'
  BY <1>2 DEF SendHook, ReadBody, SubmitFails, Submit
<1>3. ASSUME NEW h \in Hooks, Work(h) \/ WorkerGoroutine(h) PROVE Shapes'
  BY <1>3 DEF Work, WorkerGoroutine, Finish, CountJob
<1>4. ASSUME NEW h \in Hooks, Allow(h) PROVE Shapes'
  <2>1. /\ LimiterKey[h] \in LimiterKeys
        /\ Limiter(LimiterKey[h]) \in Nat
    BY ServerAssumption DEF Limiter
  <2>2. \A n \in Nat : /\ DOMAIN WithLimiter(LimiterKey[h], n) \subseteq LimiterKeys
                       /\ \A k \in DOMAIN WithLimiter(LimiterKey[h], n) :
                            WithLimiter(LimiterKey[h], n)[k] \in Nat
    BY <2>1 DEF WithLimiter
  <2>3. \E n \in Nat : bucket' = WithLimiter(LimiterKey[h], n)
    BY <1>4, <2>1 DEF Allow
  <2>4. /\ hook' \in [Hooks -> {"unsent", "arrived", "limited", "reading", "submitting",
                                "accepted", "failed"}]
        /\ UNCHANGED <<job, refills>>
    BY <1>4 DEF Allow
  <2> QED BY <2>2, <2>3, <2>4
<1>5. ASSUME NEW k \in LimiterKeys, Refill(k) PROVE Shapes'
  BY <1>5 DEF Refill
<1>6. CASE \/ MainGoroutine \/ StartPool \/ Listen \/ FindBacklog \/ ScalePool \/ Signal
           \/ ListenFails \/ UNCHANGED serverVars
  BY <1>1, <1>6 DEF MainGoroutine, Register, Built, StopPool, FinalStats, ShutdownHTTP, Exit,
       StartPool, Listen, FindBacklog, ScalePool, Signal, ListenFails, serverVars
<1> QED BY <1>2, <1>3, <1>4, <1>5, <1>6 DEF ServerNext, Environment

-----------------------------------------------------------------------------
(* Nothing runs after Stop                                                 *)

LEMMA IdleInit == ServerInit => IdleInv
BY DEF ServerInit, IdleInv, CancelledFirst, StartAfterNew, ListenerFirst, JobsAccepted,
   StoppedMeansIdle, Busy

LEMMA IdleStep == Shapes /\ IdleInv /\ [ServerNext]_serverVars => IdleInv'
<1> SUFFICES ASSUME Shapes, IdleInv, [ServerNext]_serverVars PROVE IdleInv'
  OBVIOUS
<1> USE DEF Shapes, IdleInv, CancelledFirst, StartAfterNew, ListenerFirst, JobsAccepted,
        StoppedMeansIdle, Busy
<1>1. CASE Register \/ Built
  BY <1>1 DEF Register, Built
<1>2. CASE StopPool \/ FinalStats \/ ShutdownHTTP \/ Exit
  BY <1>2 DEF StopPool, FinalStats, ShutdownHTTP, Exit
<1>3. CASE StartPool \/ Listen
  BY <1>3 DEF StartPool, Listen, Up
<1>4. CASE Signal
  BY <1>4 DEF Signal
<1>5. CASE ListenFails
  BY <1>5 DEF ListenFails, Up
<1>6. ASSUME NEW h \in Hooks, SendHook(h) \/ ReadBody(h) \/ SubmitFails(h) \/ Allow(h)
      PROVE  IdleInv'
  <2>1. /\ job[h] = "none" /\ UNCHANGED <<job, main, starter, poolCtx>>
        /\ \A x \in Hooks \ {h} : hook'[x] = hook[x]
        /\ starter = "listening" \/ hook[h] # "unsent"
    BY <1>6 DEF SendHook, ReadBody, SubmitFails, Allow
  <2> QED BY <2>1
<1>7. ASSUME NEW h \in Hooks, Submit(h) PROVE IdleInv'
  BY <1>7 DEF Submit, Up
<1>8. ASSUME NEW h \in Hooks, Work(h) PROVE IdleInv'
  BY <1>8 DEF Work, Up
<1>9. ASSUME NEW h \in Hooks, WorkerGoroutine(h) PROVE IdleInv'
  BY <1>9 DEF WorkerGoroutine, Finish, CountJob
<1>10. ASSUME NEW k \in LimiterKeys, Refill(k) PROVE IdleInv'
  BY <1>10 DEF Refill
<1>11. CASE FindBacklog \/ ScalePool \/ UNCHANGED serverVars
  BY <1>11 DEF FindBacklog, ScalePool, serverVars
<1> QED BY <1>1, <1>2, <1>3, <1>4, <1>5, <1>6, <1>7, <1>8, <1>9, <1>10, <1>11
     DEF ServerNext, MainGoroutine, Environment

-----------------------------------------------------------------------------
(* Tokens                                                                  *)

LEMMA ThroughFinite == \A k \in LimiterKeys : IsFiniteSet(Through(k)) /\ Cardinality(Through(k)) \in Nat
<1> SUFFICES ASSUME NEW k \in LimiterKeys
             PROVE  IsFiniteSet(Through(k)) /\ Cardinality(Through(k)) \in Nat
  OBVIOUS
<1>1. Through(k) \subseteq Hooks
  BY DEF Through
<1> QED BY <1>1, ServerAssumption, FS_Subset, FS_CardinalityType

LEMMA TokensInit == ServerInit => TokensBalance
<1> SUFFICES ASSUME ServerInit, NEW k \in LimiterKeys
             PROVE  Cardinality(Through(k)) + Limiter(k) = Burst + refills[k]
  BY DEF TokensBalance
<1>1. Through(k) = {}
  BY DEF ServerInit, Through
<1>2. Limiter(k) = Burst /\ refills[k] = 0
  BY DEF ServerInit, Limiter
<1> QED BY <1>1, <1>2, FS_EmptySet, ServerAssumption

\* A step that lets nobody through and touches no limiter.
LEMMA TokensFrame ==
  ASSUME TokensBalance, UNCHANGED <<bucket, refills>>, \A k \in LimiterKeys : Through(k)' = Through(k)
  PROVE  TokensBalance'
BY DEF TokensBalance, Limiter

LEMMA AllowStep ==
  ASSUME Shapes, TokensBalance, NEW h \in Hooks, Allow(h)
  PROVE  TokensBalance'
<1> DEFINE key == LimiterKey[h]
<1>1. key \in LimiterKeys /\ Limiter(key) \in Nat /\ hook[h] = "arrived" /\ refills' = refills
  BY ServerAssumption DEF Allow, Limiter, Shapes
<1>2. \A k \in LimiterKeys \ {key} : Through(k)' = Through(k) /\ Limiter(k)' = Limiter(k)
  BY DEF Allow, Through, Limiter, WithLimiter, Shapes
<1>3. Cardinality(Through(key))' + Limiter(key)' = Burst + refills[key]
  <2>1. h \notin Through(key) /\ IsFiniteSet(Through(key)) /\ Cardinality(Through(key)) \in Nat
    BY <1>1, ThroughFinite DEF Through
  <2>2. Cardinality(Through(key)) + Limiter(key) = Burst + refills[key]
    BY <1>1 DEF TokensBalance
  <2>3. CASE Limiter(key) > 0
    <3>1. Through(key)' = Through(key) \cup {h}
      BY <1>1, <2>3 DEF Allow, Through, Shapes
    <3>2. Limiter(key)' = Limiter(key) - 1
      BY <2>3 DEF Allow, Limiter, WithLimiter
    <3>3. Cardinality(Through(key) \cup {h}) = Cardinality(Through(key)) + 1
      BY <2>1, FS_AddElement
    <3> QED BY <1>1, <2>1, <2>2, <3>1, <3>2, <3>3
  <2>4. CASE ~(Limiter(key) > 0)
    <3>1. Through(key)' = Through(key)
      BY <1>1, <2>4 DEF Allow, Through, Shapes
    <3>2. Limiter(key)' = 0 /\ Limiter(key) = 0
      BY <1>1, <2>4 DEF Allow, Limiter, WithLimiter
    <3> QED BY <2>2, <3>1, <3>2
  <2> QED BY <2>3, <2>4
<1>4. \A k \in LimiterKeys \ {key} : Cardinality(Through(k))' + Limiter(k)' = Burst + refills[k]
  BY <1>2 DEF TokensBalance
<1> QED BY <1>1, <1>3, <1>4 DEF TokensBalance

LEMMA TokensStep == Shapes /\ TokensBalance /\ [ServerNext]_serverVars => TokensBalance'
<1> SUFFICES ASSUME Shapes, TokensBalance, [ServerNext]_serverVars PROVE TokensBalance'
  OBVIOUS
<1>1. ASSUME NEW h \in Hooks, SendHook(h) \/ ReadBody(h) \/ SubmitFails(h) \/ Submit(h)
      PROVE  TokensBalance'
  <2>1. \A k \in LimiterKeys : Through(k)' = Through(k)
    BY <1>1 DEF SendHook, ReadBody, SubmitFails, Submit, Through, Shapes
  <2>2. UNCHANGED <<bucket, refills>>
    BY <1>1 DEF SendHook, ReadBody, SubmitFails, Submit
  <2> QED BY <2>1, <2>2, TokensFrame
<1>2. ASSUME NEW k \in LimiterKeys, Refill(k) PROVE TokensBalance'
  <2>1. /\ Limiter(k)' = Limiter(k) + 1 /\ refills'[k] = refills[k] + 1
        /\ \A x \in LimiterKeys \ {k} : Limiter(x)' = Limiter(x) /\ refills'[x] = refills[x]
        /\ Limiter(k) \in Nat
    BY <1>2 DEF Refill, Limiter, Shapes
  <2>2. \A x \in LimiterKeys : Through(x)' = Through(x)
    BY <1>2 DEF Refill, Through
  <2>3. \A x \in LimiterKeys : Cardinality(Through(x)) \in Nat /\ refills[x] \in Nat
    BY ThroughFinite DEF Shapes
  <2> QED BY <2>1, <2>2, <2>3, ServerAssumption DEF TokensBalance
<1>3. ASSUME UNCHANGED <<hook, bucket, refills>> PROVE TokensBalance'
  <2>1. \A k \in LimiterKeys : Through(k)' = Through(k)
    BY <1>3 DEF Through
  <2> QED BY <1>3, <2>1, TokensFrame
<1>4. ASSUME NEW h \in Hooks, Work(h) \/ WorkerGoroutine(h) PROVE TokensBalance'
  BY <1>3, <1>4 DEF Work, WorkerGoroutine, Finish, CountJob
<1>5. CASE \/ MainGoroutine \/ StartPool \/ Listen \/ FindBacklog \/ ScalePool \/ Signal
           \/ ListenFails \/ UNCHANGED serverVars
  BY <1>3, <1>5 DEF MainGoroutine, Register, Built, StopPool, FinalStats, ShutdownHTTP, Exit,
       StartPool, Listen, FindBacklog, ScalePool, Signal, ListenFails, serverVars
<1> QED BY <1>1, <1>2, <1>4, <1>5, AllowStep DEF ServerNext, Environment

LEMMA BalanceHeld == Shapes /\ TokensBalance => BurstHeld
<1> SUFFICES ASSUME Shapes, TokensBalance, NEW k \in LimiterKeys
             PROVE  Cardinality(Through(k)) <= Burst + refills[k]
  BY DEF BurstHeld, Through
<1>1. Limiter(k) \in Nat /\ Cardinality(Through(k)) \in Nat
  BY ThroughFinite, ServerAssumption DEF Limiter, Shapes
<1> QED BY <1>1 DEF TokensBalance

-----------------------------------------------------------------------------
\* Once Stop has joined the workers no job runs, and no client gets more of an endpoint
\* than its limiter's tokens, for any requests and any burst (Shutdown, Start,
\* PriorityWorkerPool.Stop, getOrCreateLimiter).
THEOREM StopsCleanly == ServerSpec => []ServerSafe
<1>1. ServerInit => ServerInv
  BY ShapesInit, IdleInit, TokensInit DEF ServerInv
<1>2. ServerInv /\ [ServerNext]_serverVars => ServerInv'
  BY ShapesStep, IdleStep, TokensStep DEF ServerInv
<1>3. ServerInv => ServerSafe
  BY BalanceHeld DEF ServerInv, IdleInv, ServerSafe
<1> QED BY <1>1, <1>2, <1>3, PTL DEF ServerSpec

-----------------------------------------------------------------------------
(* Reloads                                                                 *)

\* The variables the order of reloads speaks of.
ConfigShapes ==
  /\ file \in [content : Files, version : Nat]
  /\ environ \in [Settings -> Int]
  /\ current \in [config : [Settings -> Int], number : Nat]
  /\ watcher \in [seen : Nat, pc : {"watching", "sending", "stopped"}]
  /\ reloads = <<>> \/ \E n \in Nat : reloads = <<n>>
  /\ reloader \in [number : Nat, next : -1..Handlers]
  /\ handled \in [1..Handlers -> Nat]

\* The number of the configuration sent last.
Sent == IF reloads = <<>> THEN reloader.number ELSE Head(reloads)

\* Configurations are numbered as they are loaded: each goes on with the next
\* number, and none is left out on its way to the channel, from there to the
\* reloader, and from handler to handler.
ReloadsChained ==
  /\ process = "starting" => current.number = 0 /\ watcher.pc # "sending"
  /\ watcher.pc = "watching" => current.number = Sent
  /\ watcher.pc = "sending" => current.number = Sent + 1
  /\ current.number \in {Sent, Sent + 1}
  /\ reloads # <<>> => Head(reloads) = reloader.number + 1
  /\ \A h \in 1..Handlers :
       handled[h] = IF reloader.next > 0 /\ h >= reloader.next THEN reloader.number - 1
                                                               ELSE reloader.number

\* What is in effect was valid when it was loaded, and what is not a default
\* in it came from the environment, where it stays.
InEffect ==
  /\ process = "running" => Valid(current.config)
  /\ \A s \in Settings : current.config[s] # Default[s] =>
       s \notin NotRead /\ environ[s] # Unset /\ current.config[s] = environ[s]

ConfigInv == ConfigShapes /\ ReloadsChained /\ InEffect

LEMMA LoadShapes ==
  ASSUME NEW f \in [Settings -> Int], NEW env \in [Settings -> Int]
  PROVE  /\ DotEnv(f, env) \in [Settings -> Int] /\ Load(env) \in [Settings -> Int]
         /\ \A s \in Settings : env[s] # Unset => DotEnv(f, env)[s] = env[s]
         /\ \A s \in Settings : Load(env)[s] = IF s \in NotRead \/ env[s] = Unset
                                                 THEN Default[s] ELSE env[s]
<1>1. Default \in [Settings -> Int]
  BY DEF Default
<1> QED BY <1>1 DEF DotEnv, Load

LEMMA ConfigInvInit == ConfigInit => ConfigInv
<1> SUFFICES ASSUME ConfigInit PROVE ConfigInv
  OBVIOUS
<1>1. Default \in [Settings -> Int] /\ Empty \in [Settings -> Int]
  BY DEF Default, Empty, Unset
<1>2. ConfigShapes
  BY <1>1, ConfigurationAssumption DEF ConfigInit, ConfigShapes
<1>3. ReloadsChained
  BY ConfigurationAssumption DEF ConfigInit, ReloadsChained, Sent
<1>4. InEffect
  BY DEF ConfigInit, InEffect
<1> QED BY <1>2, <1>3, <1>4 DEF ConfigInv

\* A load, at the start or by the watcher, keeps what is in effect.
LEMMA LoadKeeps ==
  ASSUME ConfigInv, environ' = DotEnv(file.content, environ)
  PROVE  /\ environ' \in [Settings -> Int] /\ Load(environ') \in [Settings -> Int]
         /\ \A s \in Settings : environ[s] # Unset => environ'[s] = environ[s]
         /\ \A s \in Settings : Load(environ')[s] # Default[s] =>
              s \notin NotRead /\ environ'[s] # Unset /\ Load(environ')[s] = environ'[s]
         /\ \A s \in Settings : current.config[s] # Default[s] =>
              /\ environ'[s] = environ[s] /\ Load(environ')[s] = current.config[s]
<1>1. file.content \in [Settings -> Int] /\ environ \in [Settings -> Int]
  BY ConfigurationAssumption DEF ConfigInv, ConfigShapes
<1>2. /\ environ' \in [Settings -> Int]
      /\ \A s \in Settings : environ[s] # Unset => environ'[s] = environ[s]
  BY <1>1, LoadShapes
<1>3. /\ Load(environ') \in [Settings -> Int]
      /\ \A s \in Settings : Load(environ')[s] = IF s \in NotRead \/ environ'[s] = Unset
                                                  THEN Default[s] ELSE environ'[s]
  BY <1>1, <1>2, LoadShapes
<1>4. \A s \in Settings : current.config[s] # Default[s] =>
        s \notin NotRead /\ environ[s] # Unset /\ current.config[s] = environ[s]
  BY DEF ConfigInv, InEffect
<1> QED BY <1>2, <1>3, <1>4

LEMMA StartUpKeeps == ASSUME ConfigInv, StartUp PROVE ConfigInv'
<1>1. /\ process = "starting" /\ environ' = DotEnv(file.content, environ)
      /\ process' \in {"running", "exited"}
      /\ \/ /\ Valid(Load(environ')) /\ process' = "running"
            /\ current' = [config |-> Load(environ'), number |-> 0]
            /\ watcher' = [watcher EXCEPT !.seen = file.version]
         \/ process' = "exited" /\ current' = current /\ watcher' = watcher
      /\ file' = file /\ reloads' = reloads /\ reloader' = reloader /\ handled' = handled
  BY DEF StartUp
<1>2. ConfigShapes'
  BY <1>1, LoadKeeps, SMTT(60) DEF ConfigInv, ConfigShapes
<1>3. current'.number = current.number /\ watcher'.pc = watcher.pc
  BY <1>1 DEF ConfigInv, ConfigShapes, ReloadsChained
<1>4. ReloadsChained'
  BY <1>1, <1>3 DEF ConfigInv, ReloadsChained, Sent
<1>5. InEffect'
  BY <1>1, LoadKeeps DEF ConfigInv, InEffect
<1> QED BY <1>2, <1>4, <1>5 DEF ConfigInv

LEMMA CheckKeeps == ASSUME ConfigInv, CheckForChanges PROVE ConfigInv'
<1>1. /\ process = "running" /\ environ' = DotEnv(file.content, environ)
      /\ watcher.pc = "watching" /\ process' = process
      /\ \/ /\ Valid(Load(environ'))
            /\ current' = [config |-> Load(environ'), number |-> current.number + 1]
            /\ watcher' = [seen |-> file.version, pc |-> "sending"]
         \/ current' = current /\ watcher' = [watcher EXCEPT !.seen = file.version]
      /\ file' = file /\ reloads' = reloads /\ reloader' = reloader /\ handled' = handled
  BY DEF CheckForChanges
<1>2. ConfigShapes'
  BY <1>1, LoadKeeps DEF ConfigInv, ConfigShapes
<1>3. \/ current'.number = current.number + 1 /\ watcher'.pc = "sending"
      \/ current'.number = current.number /\ watcher'.pc = "watching"
  BY <1>1 DEF ConfigInv, ConfigShapes
<1>4. ReloadsChained'
  BY <1>1, <1>3 DEF ConfigInv, ReloadsChained, Sent
<1>5. InEffect'
  BY <1>1, LoadKeeps DEF ConfigInv, InEffect
<1> QED BY <1>2, <1>4, <1>5 DEF ConfigInv

LEMMA HandOnKeeps == ASSUME ConfigInv, Send \/ TakeReload \/ CallHandler PROVE ConfigInv'
<1>0. /\ environ' = environ /\ current' = current /\ process' = process /\ file' = file
      /\ InEffect' /\ current.number \in Nat /\ reloader.number \in Nat
      /\ ConfigShapes /\ ReloadsChained
  BY DEF Send, TakeReload, CallHandler, ConfigInv, ConfigShapes, InEffect
<1>1. CASE Send
  <2>1. /\ watcher.pc = "sending" /\ reloads = <<>> /\ reloads' = <<current.number>>
        /\ watcher' = [watcher EXCEPT !.pc = "watching"] /\ reloader' = reloader /\ handled' = handled
        /\ current.number = reloader.number + 1
    BY <1>0, <1>1 DEF Send, ReloadsChained, Sent
  <2>2. ConfigShapes' /\ watcher'.pc = "watching"
    BY <1>0, <2>1 DEF ConfigShapes
  <2>3. Head(reloads') = current.number /\ reloads' # <<>>
    BY <2>1
  <2>4. ReloadsChained'
    BY <1>0, <2>1, <2>2, <2>3 DEF ReloadsChained, Sent
  <2> QED BY <1>0, <2>2, <2>4 DEF ConfigInv
<1>2. CASE TakeReload
  <2>1. PICK n \in Nat : reloads = <<n>>
    BY <1>0, <1>2 DEF TakeReload, ConfigShapes
  <2>2. /\ reloader.next = 0 /\ n = reloader.number + 1
        /\ reloader' = [number |-> n, next |-> 1] /\ reloads' = <<>>
        /\ watcher' = watcher /\ handled' = handled
    BY <1>0, <1>2, <2>1 DEF TakeReload, ReloadsChained
  <2>3. ConfigShapes'
    BY <1>0, <2>2, ConfigurationAssumption DEF ConfigShapes
  <2>4. Sent = n /\ Sent' = n
    BY <2>1, <2>2 DEF Sent
  <2>5. \A h \in 1..Handlers : handled[h] = reloader.number
    BY <1>0, <2>2 DEF ReloadsChained
  <2>6. ReloadsChained'
    BY <1>0, <2>2, <2>4, <2>5 DEF ReloadsChained
  <2> QED BY <1>0, <2>3, <2>6 DEF ConfigInv
<1>3. CASE CallHandler
  <2> DEFINE next == IF reloader.next = Handlers THEN 0 ELSE reloader.next + 1
  <2>1. /\ reloader.next \in 1..Handlers /\ next \in -1..Handlers
        /\ next > 0 => next = reloader.next + 1
        /\ next <= 0 => reloader.next = Handlers
        /\ watcher' = watcher /\ reloads' = reloads
    BY <1>0, <1>3, ConfigurationAssumption DEF CallHandler, ConfigShapes
  <2>2. /\ handled' = [handled EXCEPT ![reloader.next] = reloader.number]
        /\ reloader' = [reloader EXCEPT !.next = next]
    BY <1>3 DEF CallHandler
  <2> HIDE DEF next
  <2>3. ConfigShapes' /\ reloader'.number = reloader.number /\ reloader'.next = next
    BY <1>0, <2>1, <2>2 DEF ConfigShapes
  <2>4. \A h \in 1..Handlers :
          handled'[h] = IF next > 0 /\ h >= next THEN reloader.number - 1 ELSE reloader.number
    <3>1. \A h \in 1..Handlers : handled[h] = IF h >= reloader.next THEN reloader.number - 1
                                                                   ELSE reloader.number
      BY <1>0, <2>1 DEF ReloadsChained
    <3>2. \A h \in 1..Handlers : handled'[h] = IF h = reloader.next THEN reloader.number ELSE handled[h]
      BY <1>0, <2>2 DEF ConfigShapes
    <3> QED BY <2>1, <3>1, <3>2, ConfigurationAssumption
  <2>5. ReloadsChained'
    BY <1>0, <2>1, <2>3, <2>4 DEF ReloadsChained, Sent
  <2> QED BY <1>0, <2>3, <2>5 DEF ConfigInv
<1> QED BY <1>1, <1>2, <1>3

LEMMA StopKeeps ==
  ASSUME ConfigInv, EditFile \/ StopWatching \/ WatchLoopExit \/ ReloaderExit
  PROVE  ConfigInv'
<1>0. /\ environ' = environ /\ current' = current /\ process' = process
      /\ reloads' = reloads /\ handled' = handled /\ InEffect'
  BY DEF EditFile, StopWatching, WatchLoopExit, ReloaderExit, ConfigInv, InEffect
<1>1. /\ file' \in [content : Files, version : Nat]
      /\ watcher' \in [seen : Nat, pc : {"watching", "sending", "stopped"}]
      /\ reloader' \in [number : Nat, next : -1..Handlers]
      /\ watcher'.pc = watcher.pc \/ watcher'.pc = "stopped"
      /\ reloader'.number = reloader.number
      /\ reloader'.next = reloader.next \/ (reloader.next = 0 /\ reloader'.next = -1)
  BY ConfigurationAssumption
     DEF EditFile, StopWatching, WatchLoopExit, ReloaderExit, ConfigInv, ConfigShapes
<1>2. ConfigShapes'
  BY <1>0, <1>1 DEF ConfigInv, ConfigShapes
<1>3. ReloadsChained'
  BY <1>0, <1>1 DEF ConfigInv, ReloadsChained, Sent
<1> QED BY <1>0, <1>2, <1>3 DEF ConfigInv

LEMMA ConfigInvStep == ConfigInv /\ [ConfigNext]_configVars => ConfigInv'
<1> SUFFICES ASSUME ConfigInv, [ConfigNext]_configVars PROVE ConfigInv'
  OBVIOUS
<1>1. CASE ConfigNext
  BY <1>1, StartUpKeeps, CheckKeeps, HandOnKeeps, StopKeeps DEF ConfigNext
<1>2. CASE UNCHANGED configVars
  BY <1>2 DEF configVars, ConfigInv, ConfigShapes, ReloadsChained, Sent, InEffect
<1> QED BY <1>1, <1>2

LEMMA ChainedInOrder == ConfigInv => ReloadsInOrder
<1> SUFFICES ASSUME ConfigInv PROVE ReloadsInOrder
  OBVIOUS
<1>1. /\ current.number \in Nat /\ reloader.number \in Nat /\ reloader.next \in Int
      /\ Sent \in {reloader.number, reloader.number + 1}
      /\ current.number \in {Sent, Sent + 1}
  BY DEF ConfigInv, ConfigShapes, ReloadsChained, Sent
<1>2. \A h \in 1..Handlers :
        handled[h] = IF reloader.next > 0 /\ h >= reloader.next THEN reloader.number - 1
                                                                ELSE reloader.number
  BY DEF ConfigInv, ReloadsChained
<1> QED BY <1>1, <1>2, ConfigurationAssumption DEF ReloadsInOrder, ConfigInv, InEffect

\* Whatever files are written and however slow the handlers are, each of them
\* is given every configuration the watcher loads, in order and at most three
\* behind, and no reload changes a setting that is in effect and not a default
\* (checkForChanges, handleReloads).
THEOREM ReloadsOnlyAdd == ConfigSpec => ReloadsAddInOrder
<1>1. ConfigInv /\ [ConfigNext]_configVars =>
        [process = "running" =>
           \A s \in Settings : current.config[s] # Default[s] =>
             current'.config[s] = current.config[s]]_configVars
  <2> SUFFICES ASSUME ConfigInv, ConfigNext, process = "running",
                      NEW s \in Settings, current.config[s] # Default[s]
               PROVE  current'.config[s] = current.config[s]
    OBVIOUS
  <2>1. CASE CheckForChanges
    <3>1. /\ environ' = DotEnv(file.content, environ)
          /\ current' = current \/ current'.config = Load(environ')
      BY <2>1 DEF CheckForChanges
    <3> QED BY <3>1, LoadKeeps
  <2>2. CASE ~CheckForChanges
    <3>1. current' = current
      BY <2>2 DEF ConfigNext, StartUp, EditFile, Send, StopWatching, WatchLoopExit, TakeReload,
         CallHandler, ReloaderExit
    <3> QED BY <3>1
  <2> QED BY <2>1, <2>2
<1> QED BY <1>1, ConfigInvInit, ConfigInvStep, ChainedInOrder, PTL
        DEF ConfigSpec, ReloadsAddInOrder, SetOnceStays

-----------------------------------------------------------------------------
(* The requests under the performance monitor                              *)

RequestType ==
  /\ request \in [Measured -> {"unsent", "checked", "refused", "inside", "erred", "recorded", "left"}]
  /\ active \in Int /\ forgotten \in Int

FlightInv == RequestType /\ InFlightExplained

\* The goroutines of pm.mu do not touch a request.
LockersStep ==
  \/ \E a \in Askers : Ask(a)
  \/ \E g \in Lockers : Lock(g) \/ RLock(g) \/ SetTargets(g) \/ RUnlock(g)
  \/ UpdateTick \/ UpdateMetrics \/ CloseMonitor

LEMMA FlightFinite == IsFiniteSet(InFlight) /\ Cardinality(InFlight) \in Nat
<1>1. InFlight \subseteq Measured
  BY DEF InFlight
<1> QED BY <1>1, MonitorAssumption, FS_Subset, FS_CardinalityType

LEMMA FlightInit == PerfInit => FlightInv
<1> SUFFICES ASSUME PerfInit PROVE FlightInv
  OBVIOUS
<1>1. InFlight = {}
  BY DEF PerfInit, InFlight
<1>2. RequestType /\ active = 0 /\ forgotten = 0
  BY DEF PerfInit, RequestType
<1> QED BY <1>1, <1>2, FS_EmptySet DEF FlightInv, InFlightExplained

LEMMA EntersStep ==
  ASSUME FlightInv, NEW r \in Measured, Enter(r)
  PROVE  InFlightExplained'
<1>1. r \notin InFlight /\ InFlight' = InFlight \cup {r}
  BY DEF Enter, InFlight, FlightInv, RequestType
<1>2. Cardinality(InFlight') = Cardinality(InFlight) + 1
  BY <1>1, FlightFinite, FS_AddElement
<1>3. active' = active + 1 /\ forgotten' = forgotten
  BY DEF Enter
<1> QED BY <1>2, <1>3, FlightFinite DEF FlightInv, RequestType, InFlightExplained

LEMMA LeavesStep ==
  ASSUME FlightInv, NEW r \in Measured, Leave(r) \/ Panic(r)
  PROVE  InFlightExplained'
<1>1. r \in InFlight /\ InFlight' = InFlight \ {r}
  BY DEF Leave, Panic, InFlight, FlightInv, RequestType
<1>2. Cardinality(InFlight') = Cardinality(InFlight) - 1
  BY <1>1, FlightFinite, FS_RemoveElement
<1>3. active' = active - 1 /\ forgotten' = forgotten
  BY DEF Leave, Panic
<1> QED BY <1>2, <1>3, FlightFinite DEF FlightInv, RequestType, InFlightExplained

\* A step that leaves who is in flight and what was taken off together.
LEMMA FlightFrame ==
  ASSUME FlightInv, InFlight' = InFlight, active' + forgotten' = active + forgotten
  PROVE  InFlightExplained'
BY DEF FlightInv, InFlightExplained

LEMMA FlightStep == FlightInv /\ [PerfNext]_perfVars => FlightInv'
<1> SUFFICES ASSUME FlightInv, [PerfNext]_perfVars PROVE FlightInv'
  OBVIOUS
<1>1. ASSUME NEW r \in Measured, Check(r) \/ Record(r) \/ RecordError(r) PROVE FlightInv'
  <2>1. RequestType' /\ UNCHANGED <<active, forgotten>>
    BY <1>1 DEF Check, Record, RecordError, FlightInv, RequestType
  <2>2. InFlight' = InFlight
    BY <1>1 DEF Check, Record, RecordError, InFlight, FlightInv, RequestType
  <2> QED BY <2>1, <2>2, FlightFrame DEF FlightInv
<1>2. ASSUME NEW r \in Measured, Enter(r) \/ Leave(r) \/ Panic(r) PROVE FlightInv'
  <2>1. RequestType'
    BY <1>2 DEF Enter, Leave, Panic, FlightInv, RequestType
  <2> QED BY <1>2, <2>1, EntersStep, LeavesStep DEF FlightInv
<1>3. ASSUME NEW g \in Lockers, Reset(g) PROVE FlightInv'
  <2>1. RequestType' /\ active' + forgotten' = active + forgotten
    BY <1>3 DEF Reset, FlightInv, RequestType
  <2>2. InFlight' = InFlight
    BY <1>3 DEF Reset, InFlight
  <2> QED BY <2>1, <2>2, FlightFrame DEF FlightInv
<1>4. ASSUME UNCHANGED <<request, active, forgotten>> PROVE FlightInv'
  BY <1>4 DEF FlightInv, RequestType, InFlightExplained, InFlight
<1>5. CASE LockersStep \/ UNCHANGED perfVars
  BY <1>4, <1>5 DEF LockersStep, Ask, Lock, RLock, SetTargets, RUnlock, UpdateTick,
       UpdateMetrics, CloseMonitor, perfVars
<1> QED BY <1>1, <1>2, <1>3, <1>5 DEF PerfNext, RequestStep, Held, LockersStep

-----------------------------------------------------------------------------
(* The loop and its own lock                                               *)

\* Who has pm.mu for writing, and that the loop, which asks for it again for
\* reading, never gets there.
LoopWaitsForItself ==
  /\ locker[Loop].at \in {"idle", "Lock", "locked", "RLock", "ended"}
  /\ locker[Loop].doing \in {"nothing", "updateMetrics"}
  /\ locker[Loop].at = "RLock" => writer = {Loop}
  /\ history = 0

LockInv ==
  /\ locker \in [Lockers -> [at : {"idle", "Lock", "locked", "RLock", "rlocked", "ended"},
                             doing : Reading \cup Writing \cup {"nothing", "updateMetrics"}]]
  /\ \A g \in Lockers : locker[g].at = "locked" => writer = {g}
  /\ LoopWaitsForItself

LEMMA LockInit == PerfInit => LockInv
BY DEF PerfInit, LockInv, LoopWaitsForItself, Lockers

LEMMA LockStep == LockInv /\ [PerfNext]_perfVars => LockInv'
<1> SUFFICES ASSUME LockInv, [PerfNext]_perfVars PROVE LockInv'
  OBVIOUS
<1> USE LoopAssumption DEF LockInv, LoopWaitsForItself, Lockers, At
<1>1. ASSUME NEW r \in Measured, Check(r) \/ RequestStep(r) \/ Panic(r) PROVE LockInv'
  BY <1>1 DEF Check, RequestStep, Enter, Record, RecordError, Leave, Panic
<1>2. ASSUME NEW a \in Askers, Ask(a) PROVE LockInv'
  BY <1>2 DEF Ask, Reading, Writing
<1>3. ASSUME NEW g \in Lockers, Lock(g) PROVE LockInv'
  BY <1>3 DEF Lock
<1>4. ASSUME NEW g \in Lockers, RLock(g) PROVE LockInv'
  BY <1>4 DEF RLock
<1>5. ASSUME NEW g \in Lockers, SetTargets(g) \/ Reset(g) PROVE LockInv'
  <2>1. g # Loop /\ writer = {g} /\ locker[Loop].at \notin {"locked", "RLock"}
    BY <1>5 DEF SetTargets, Reset
  <2>2. locker' = [locker EXCEPT ![g].at = "idle"] /\ history' = 0
    BY <1>5 DEF SetTargets, Reset, Unlocked
  <2>3. \A x \in Lockers : locker[x].at = "locked" => x = g
    BY <2>1
  <2> QED BY <2>1, <2>2, <2>3
<1>6. ASSUME NEW g \in Lockers, RUnlock(g) PROVE LockInv'
  BY <1>6 DEF RUnlock
<1>7. CASE UpdateTick
  BY <1>7 DEF UpdateTick
<1>8. CASE UpdateMetrics
  BY <1>8 DEF UpdateMetrics
<1>9. CASE CloseMonitor
  BY <1>9 DEF CloseMonitor
<1>10. CASE UNCHANGED perfVars
  BY <1>10 DEF perfVars
<1> QED BY <1>1, <1>2, <1>3, <1>4, <1>5, <1>6, <1>7, <1>8, <1>9, <1>10 DEF PerfNext, Held

-----------------------------------------------------------------------------
\* activeRequests plus what resets took from it is the number of requests in
\* flight, for any number of requests (PerformanceMiddleware, Reset).
THEOREM ActiveExplained == PerfSpec => []InFlightExplained
<1>1. FlightInv => InFlightExplained
  BY DEF FlightInv
<1> QED BY FlightInit, FlightStep, <1>1, PTL DEF PerfSpec

\* updateMetrics, once it has asked for pm.mu a second time, waits for the
\* lock it holds itself, and no snapshot ever reaches the history that
\* /performance/history returns (updateMetrics, storePerformanceSnapshot).
THEOREM NoSnapshotEver == PerfSpec => []LoopWaitsForItself
<1>1. LockInv => LoopWaitsForItself
  BY DEF LockInv
<1> QED BY LockInit, LockStep, <1>1, PTL DEF PerfSpec

-----------------------------------------------------------------------------
(* The type of the process                                                 *)

Elements(s) == {s[i] : i \in 1..Len(s)}

LEMMA ElementsJoined ==
  ASSUME NEW S, NEW s \in Seq(S), NEW t \in Seq(S)
  PROVE  s \o t \in Seq(S) /\ Elements(s \o t) = Elements(s) \cup Elements(t)
<1>1. /\ s \o t \in Seq(S) /\ Len(s \o t) = Len(s) + Len(t) /\ Len(s) \in Nat /\ Len(t) \in Nat
      /\ \A i \in 1..Len(s) : (s \o t)[i] = s[i]
      /\ \A i \in 1..Len(t) : (s \o t)[Len(s) + i] = t[i]
  OBVIOUS
<1>2. ASSUME NEW x \in Elements(s \o t) PROVE x \in Elements(s) \cup Elements(t)
  <2>1. PICK i \in 1..Len(s \o t) : x = (s \o t)[i]
    BY DEF Elements
  <2>2. CASE i <= Len(s)
    <3>1. i \in 1..Len(s)
      BY <1>1, <2>2
    <3> QED BY <1>1, <2>1, <3>1 DEF Elements
  <2>3. CASE i > Len(s)
    <3>1. i - Len(s) \in 1..Len(t) /\ Len(s) + (i - Len(s)) = i
      BY <1>1, <2>3
    <3>2. x = t[i - Len(s)]
      BY <1>1, <2>1, <3>1
    <3> QED BY <3>1, <3>2 DEF Elements
  <2> QED BY <1>1, <2>2, <2>3
<1>3. ASSUME NEW x \in Elements(s) PROVE x \in Elements(s \o t)
  <2>1. PICK i \in 1..Len(s) : x = s[i]
    BY <1>3 DEF Elements
  <2>2. i \in 1..Len(s \o t) /\ x = (s \o t)[i]
    BY <1>1, <2>1
  <2> QED BY <2>2 DEF Elements
<1>4. ASSUME NEW x \in Elements(t) PROVE x \in Elements(s \o t)
  <2>1. PICK i \in 1..Len(t) : x = t[i]
    BY <1>4 DEF Elements
  <2>2. Len(s) + i \in 1..Len(s \o t) /\ x = (s \o t)[Len(s) + i]
    BY <1>1, <2>1
  <2> QED BY <2>2 DEF Elements
<1> QED BY <1>1, <1>2, <1>3, <1>4

\* A tuple is a sequence of its elements.
LEMMA TwoInSeq ==
  ASSUME NEW S, NEW a, NEW b, Elements(<<a, b>>) \subseteq S
  PROVE  <<a, b>> \in Seq(S)
<1>1. \A k \in 1..2 : <<a, b>>[k] \in S
  BY DEF Elements
<1> QED BY <1>1

LEMMA ThreeInSeq ==
  ASSUME NEW S, NEW a, NEW b, NEW c, Elements(<<a, b, c>>) \subseteq S
  PROVE  <<a, b, c>> \in Seq(S)
<1>1. \A k \in 1..3 : <<a, b, c>>[k] \in S
  BY DEF Elements
<1> QED BY <1>1

LEMMA FourInSeq ==
  ASSUME NEW S, NEW a, NEW b, NEW c, NEW d, Elements(<<a, b, c, d>>) \subseteq S
  PROVE  <<a, b, c, d>> \in Seq(S)
<1>1. \A k \in 1..4 : <<a, b, c, d>>[k] \in S
  BY DEF Elements
<1> QED BY <1>1

LEMMA NineInSeq ==
  ASSUME NEW S, NEW a, NEW b, NEW c, NEW d, NEW e, NEW f, NEW g, NEW h, NEW i,
         Elements(<<a, b, c, d, e, f, g, h, i>>) \subseteq S
  PROVE  <<a, b, c, d, e, f, g, h, i>> \in Seq(S)
<1>1. \A k \in 1..9 : <<a, b, c, d, e, f, g, h, i>>[k] \in S
  BY DEF Elements
<1> QED BY <1>1

HealthRoutes == <<"/health", "/health/ready">>

Patterns ==
  Elements(WebhookRoutes) \cup Elements(MonitoringRoutes) \cup Elements(HealthRoutes) \cup Elements(OAuthRoutes)

\* The patterns still to be registered are patterns of createMux.
LEMMA LeftInMux ==
  /\ createMux \in Seq(Patterns) /\ NewWithRegistry \in Seq(Patterns)
  /\ Elements(NewWithRegistry) \subseteq Elements(createMux)
<1>0. /\ Elements(WebhookRoutes) \subseteq Patterns /\ Elements(MonitoringRoutes) \subseteq Patterns
      /\ Elements(HealthRoutes) \subseteq Patterns /\ Elements(OAuthRoutes) \subseteq Patterns
  BY DEF Patterns
<1>1. WebhookRoutes \in Seq(Patterns)
  BY <1>0, FourInSeq, Zenon DEF WebhookRoutes
<1>2. MonitoringRoutes \in Seq(Patterns)
  BY <1>0, NineInSeq, Zenon DEF MonitoringRoutes
<1>3. HealthRoutes \in Seq(Patterns)
  BY <1>0, TwoInSeq, Zenon DEF HealthRoutes
<1>4. WhenOAuth \in Seq(Patterns)
  <2>1. OAuthRoutes \in Seq(Patterns)
    BY <1>0, ThreeInSeq, Zenon DEF OAuthRoutes
  <2>2. <<>> \in Seq(Patterns)
    OBVIOUS
  <2> QED BY <2>1, <2>2, Zenon DEF WhenOAuth
<1> DEFINE both == WebhookRoutes \o MonitoringRoutes
<1>5. both \in Seq(Patterns)
  BY <1>1, <1>2, ElementsJoined
<1>6. createMux = (both \o HealthRoutes) \o WhenOAuth /\ NewWithRegistry = both \o WhenOAuth
  BY Zenon DEF createMux, NewWithRegistry, HealthRoutes
<1> HIDE DEF both
<1>7. both \o HealthRoutes \in Seq(Patterns) /\ Elements(both \o HealthRoutes) = Elements(both) \cup Elements(HealthRoutes)
  BY <1>3, <1>5, ElementsJoined
<1>8. /\ (both \o HealthRoutes) \o WhenOAuth \in Seq(Patterns)
      /\ Elements((both \o HealthRoutes) \o WhenOAuth) = Elements(both \o HealthRoutes) \cup Elements(WhenOAuth)
  <2> DEFINE front == both \o HealthRoutes
  <2>1. front \in Seq(Patterns)
    BY <1>7
  <2> HIDE DEF front
  <2>2. /\ front \o WhenOAuth \in Seq(Patterns)
        /\ Elements(front \o WhenOAuth) = Elements(front) \cup Elements(WhenOAuth)
    BY <1>4, <2>1, ElementsJoined
  <2> QED BY <2>2, Zenon DEF front
<1>9. /\ both \o WhenOAuth \in Seq(Patterns)
      /\ Elements(both \o WhenOAuth) = Elements(both) \cup Elements(WhenOAuth)
  BY <1>4, <1>5, ElementsJoined
<1> QED BY <1>6, <1>7, <1>8, <1>9

\* What is left of the patterns are patterns, and no bucket overflows.
PlacesTyped ==
  /\ main \in Waypoints
  /\ starter \in {"none", "starting", "binding", "listening", "closed"}
  /\ poolCtx \in {"alive", "cancelled"} /\ queueCtx \in {"alive", "cancelled"}
  /\ poolRuns \in BOOLEAN /\ scaler \in {"watching", "scaling", "stuck"}
RoutesTyped ==
  left \in Seq(Patterns) /\ Elements(left) \subseteq Elements(createMux) /\ routes \subseteq Elements(createMux)
TokensTyped ==
  /\ \A k \in DOMAIN bucket : bucket[k] \in 0..Burst
  /\ refills \in [LimiterKeys -> 0..MaxRefills]

ServerTyped == Shapes /\ PlacesTyped /\ RoutesTyped /\ TokensTyped

LEMMA ServerTypedInit == ServerInit => ServerTyped
<1> SUFFICES ASSUME ServerInit PROVE ServerTyped
  OBVIOUS
<1>1. PlacesTyped
  BY DEF ServerInit, PlacesTyped, Waypoints
<1>3. TokensTyped
  BY ServerAssumption DEF ServerInit, TokensTyped
<1>2. RoutesTyped
  BY LeftInMux DEF ServerInit, RoutesTyped
<1> QED BY <1>1, <1>2, <1>3, ShapesInit DEF ServerTyped

LEMMA HeadIsElement ==
  ASSUME NEW S, NEW s \in Seq(S), s # <<>>
  PROVE  Head(s) \in Elements(s) /\ Tail(s) \in Seq(S) /\ Elements(Tail(s)) \subseteq Elements(s)
<1>1. /\ Len(s) \in Nat /\ Len(s) > 0 /\ Head(s) = s[1]
      /\ Tail(s) \in Seq(S) /\ Len(Tail(s)) = Len(s) - 1
      /\ \A i \in 1..Len(Tail(s)) : Tail(s)[i] = s[i + 1]
  OBVIOUS
<1>2. ASSUME NEW x \in Elements(Tail(s)) PROVE x \in Elements(s)
  <2>1. PICK i \in 1..Len(Tail(s)) : x = Tail(s)[i]
    BY <1>2 DEF Elements
  <2>2. i + 1 \in 1..Len(s) /\ x = s[i + 1]
    BY <1>1, <2>1
  <2> QED BY <2>2 DEF Elements
<1>3. 1 \in 1..Len(s)
  BY <1>1
<1> QED BY <1>1, <1>2, <1>3 DEF Elements

LEMMA RoutesStep == RoutesTyped /\ [ServerNext]_serverVars => RoutesTyped'
<1> SUFFICES ASSUME RoutesTyped, [ServerNext]_serverVars PROVE RoutesTyped'
  OBVIOUS
<1>1. CASE Register
  <2>1. CASE routes' = routes \cup {Head(left)} /\ left' = Tail(left) /\ left # <<>>
    <3>1. left \in Seq(Patterns)
      BY DEF RoutesTyped
    <3>2. Head(left) \in Elements(left) /\ Tail(left) \in Seq(Patterns) /\ Elements(Tail(left)) \subseteq Elements(left)
      BY <2>1, <3>1, HeadIsElement
    <3> QED BY <2>1, <3>2 DEF RoutesTyped
  <2>2. CASE routes' = routes /\ left' = left
    BY <2>2 DEF RoutesTyped
  <2> QED BY <1>1, <2>1, <2>2 DEF Register
<1>2. CASE ~Register
  <2>1. routes' = routes /\ left' = left
    BY <1>2 DEF ServerNext, MainGoroutine, Environment, WorkerGoroutine, Built, StopPool, FinalStats,
       ShutdownHTTP, Exit, StartPool, Listen, FindBacklog, ScalePool, Signal, ListenFails, SendHook,
       ReadBody, SubmitFails, Refill, Allow, Submit, Work, Finish, CountJob, serverVars
  <2> QED BY <2>1 DEF RoutesTyped
<1> QED BY <1>1, <1>2

LEMMA PlacesStep == PlacesTyped /\ [ServerNext]_serverVars => PlacesTyped'
BY DEF PlacesTyped, Waypoints, ServerNext, MainGoroutine, Environment, WorkerGoroutine, Register, Built,
   StopPool, FinalStats, ShutdownHTTP, Exit, StartPool, Listen, FindBacklog, ScalePool, Signal,
   ListenFails, SendHook, ReadBody, SubmitFails, Refill, Allow, Submit, Work, Finish, CountJob, serverVars

LEMMA TokensTypedStep == Shapes /\ TokensTyped /\ [ServerNext]_serverVars => TokensTyped'
<1> SUFFICES ASSUME Shapes, TokensTyped, [ServerNext]_serverVars PROVE TokensTyped'
  OBVIOUS
<1>1. ASSUME NEW h \in Hooks, Allow(h) PROVE TokensTyped'
  <2> DEFINE k == LimiterKey[h]
  <2>1. k \in LimiterKeys /\ Limiter(k) \in 0..Burst
    BY ServerAssumption DEF Limiter, TokensTyped
  <2>2. refills' = refills
    BY <1>1 DEF Allow
  <2>3. PICK n \in 0..Burst : bucket' = WithLimiter(k, n)
    BY <1>1, <2>1, ServerAssumption DEF Allow
  <2> HIDE DEF k
  <2> QED BY <2>1, <2>2, <2>3 DEF WithLimiter, TokensTyped
<1>2. ASSUME NEW k \in LimiterKeys, Refill(k) PROVE TokensTyped'
  BY <1>2, ServerAssumption DEF Refill, TokensTyped
<1>3. CASE ~(\E h \in Hooks : Allow(h)) /\ ~(\E k \in LimiterKeys : Refill(k))
  <2>1. bucket' = bucket /\ refills' = refills
    BY <1>3 DEF ServerNext, MainGoroutine, Environment, WorkerGoroutine, Register, Built, StopPool,
       FinalStats, ShutdownHTTP, Exit, StartPool, Listen, FindBacklog, ScalePool, Signal, ListenFails,
       SendHook, ReadBody, SubmitFails, Submit, Work, Finish, CountJob, serverVars
  <2> QED BY <2>1 DEF TokensTyped
<1> QED BY <1>1, <1>2, <1>3

LEMMA ServerTypedStep == ServerTyped /\ [ServerNext]_serverVars => ServerTyped'
BY ShapesStep, PlacesStep, RoutesStep, TokensTypedStep DEF ServerTyped

LEMMA ServerTypedTells == ServerTyped => ServerTypeOK
BY DEF ServerTyped, Shapes, PlacesTyped, RoutesTyped, TokensTyped, ServerTypeOK, Elements

-----------------------------------------------------------------------------
(* The type of the configuration                                           *)

\* A configuration is loaded only when the file is newer than the last look.
EditsBound ==
  /\ process \in {"starting", "running", "exited"} /\ watchStop \in BOOLEAN
  /\ current.number <= watcher.seen /\ watcher.seen <= file.version /\ file.version <= MaxEdits

ConfigTyped == ConfigInv /\ EditsBound

LEMMA ConfigTypedInit == ConfigInit => ConfigTyped
<1> SUFFICES ASSUME ConfigInit PROVE EditsBound
  BY ConfigInvInit DEF ConfigTyped
<1>1. /\ current.number = 0 /\ watcher.seen = 0 /\ file.version = 0
      /\ process = "starting" /\ watchStop = FALSE
  BY DEF ConfigInit
<1>2. MaxEdits \in Nat
  BY ConfigurationAssumption
<1>3. process \in {"starting", "running", "exited"} /\ watchStop \in BOOLEAN
  BY <1>1
<1>4. current.number <= watcher.seen /\ watcher.seen <= file.version /\ file.version <= MaxEdits
  BY <1>1, <1>2
<1> QED BY <1>3, <1>4 DEF EditsBound

LEMMA EditsStep == ConfigTyped /\ [ConfigNext]_configVars => EditsBound'
<1> SUFFICES ASSUME ConfigTyped, [ConfigNext]_configVars PROVE EditsBound'
  OBVIOUS
<1>0. /\ current.number \in Nat /\ watcher.seen \in Nat /\ file.version \in Nat /\ MaxEdits \in Nat
      /\ watcher \in [seen : Nat, pc : {"watching", "sending", "stopped"}]
      /\ EditsBound
  BY ConfigurationAssumption DEF ConfigTyped, ConfigInv, ConfigShapes
<1>1. CASE StartUp
  <2>1. file' = file /\ watchStop' = watchStop /\ process' \in {"running", "exited"}
    BY <1>1 DEF StartUp
  <2>2. \/ current'.number = 0 /\ watcher'.seen = file.version
        \/ current' = current /\ watcher' = watcher
    BY <1>0, <1>1 DEF StartUp
  <2> QED BY <1>0, <2>1, <2>2 DEF EditsBound
<1>2. CASE EditFile
  BY <1>0, <1>2 DEF EditFile, EditsBound
<1>3. CASE CheckForChanges
  <2>1. file' = file /\ watchStop' = watchStop /\ process' = process /\ file.version > watcher.seen
    BY <1>3 DEF CheckForChanges
  <2>2. /\ watcher'.seen = file.version
        /\ current'.number = current.number + 1 \/ current' = current
    BY <1>0, <1>3 DEF CheckForChanges
  <2> QED BY <1>0, <2>1, <2>2 DEF EditsBound
<1>4. CASE Send \/ StopWatching \/ WatchLoopExit \/ TakeReload \/ CallHandler \/ ReloaderExit \/ UNCHANGED configVars
  <2>1. /\ file' = file /\ current' = current /\ process' = process /\ watchStop' \in BOOLEAN
        /\ watcher'.seen = watcher.seen
    BY <1>0, <1>4 DEF Send, StopWatching, WatchLoopExit, TakeReload, CallHandler, ReloaderExit, configVars, EditsBound
  <2> QED BY <1>0, <2>1 DEF EditsBound
<1> QED BY <1>1, <1>2, <1>3, <1>4 DEF ConfigNext

LEMMA ConfigTypedStep == ConfigTyped /\ [ConfigNext]_configVars => ConfigTyped'
BY ConfigInvStep, EditsStep DEF ConfigTyped

LEMMA ConfigTypedTells == ConfigTyped => ConfigTypeOK
<1> SUFFICES ASSUME ConfigTyped PROVE ConfigTypeOK
  OBVIOUS
<1>0. ConfigShapes /\ ReloadsChained /\ EditsBound /\ MaxEdits \in Nat /\ Handlers \in Nat \ {0}
  BY ConfigurationAssumption DEF ConfigTyped, ConfigInv
<1>1. /\ current.number \in 0..MaxEdits /\ watcher.seen \in 0..MaxEdits /\ file.version \in 0..MaxEdits
  BY <1>0 DEF ConfigShapes, EditsBound
<1>2. Sent \in Int /\ Sent <= MaxEdits
  <2>1. current.number \in {Sent, Sent + 1}
    BY <1>0 DEF ReloadsChained
  <2>2. Sent \in Nat
    BY <1>0 DEF ConfigShapes, Sent
  <2> HIDE DEF Sent
  <2> QED BY <1>0, <1>1, <2>1, <2>2
<1>3. reloader.number \in 0..MaxEdits /\ reloads \in {<<>>} \cup {<<n>> : n \in 1..MaxEdits}
  <2>0. reloader.number \in Nat
    BY <1>0 DEF ConfigShapes
  <2>1. CASE reloads = <<>>
    <3>1. reloader.number <= MaxEdits
      BY <1>2, <2>1 DEF Sent
    <3> QED BY <1>0, <2>0, <2>1, <3>1
  <2>2. CASE reloads # <<>>
    <3>1. PICK n \in Nat : reloads = <<n>>
      BY <1>0, <2>2 DEF ConfigShapes
    <3>2. Head(reloads) = n
      BY <3>1
    <3>3. n = reloader.number + 1 /\ Sent = n
      BY <1>0, <2>2, <3>2 DEF ReloadsChained, Sent
    <3>4. n \in 1..MaxEdits /\ reloader.number \in 0..MaxEdits
      <4>1. n <= MaxEdits
        BY <1>2, <3>3
      <4> QED BY <1>0, <2>0, <3>3, <4>1
    <3> QED BY <3>1, <3>4
  <2> QED BY <2>1, <2>2
<1>4. handled \in [1..Handlers -> 0..MaxEdits]
  <2>1. \A h \in 1..Handlers : handled[h] \in Nat /\ handled[h] \in {reloader.number - 1, reloader.number}
    BY <1>0 DEF ConfigShapes, ReloadsChained
  <2>2. \A h \in 1..Handlers : handled[h] \in 0..MaxEdits
    BY <1>0, <1>3, <2>1
  <2> QED BY <1>0, <2>2 DEF ConfigShapes
<1> QED BY <1>0, <1>1, <1>3, <1>4 DEF ConfigTypeOK, ConfigShapes, EditsBound

-----------------------------------------------------------------------------
(* The type of the monitor                                                 *)

\* With the shapes of the requests and of the lockers, everything else.
MonitorTyped ==
  /\ FlightInv /\ LockInv
  /\ writer \subseteq Lockers /\ readers \subseteq Lockers
  /\ nested \in 0..2 /\ asks \in 0..MaxAsks
  /\ counts \in [requests : Nat, errors : Nat]

LEMMA MonitorTypedInit == PerfInit => MonitorTyped
BY FlightInit, LockInit, MonitorAssumption DEF PerfInit, MonitorTyped, NoCounts

LEMMA MonitorTypedStep == MonitorTyped /\ [PerfNext]_perfVars => MonitorTyped'
<1> SUFFICES ASSUME MonitorTyped, [PerfNext]_perfVars PROVE MonitorTyped'
  OBVIOUS
<1>0. FlightInv' /\ LockInv' /\ MaxAsks \in Nat
  BY FlightStep, LockStep, MonitorAssumption DEF MonitorTyped
<1>1. counts' \in [requests : Nat, errors : Nat]
  BY DEF MonitorTyped, PerfNext, RequestStep, Held, Check, Enter, Record, RecordError, Leave, Panic, Ask, Lock,
     RLock, SetTargets, Reset, RUnlock, UpdateTick, UpdateMetrics, CloseMonitor, perfVars, NoCounts
<1>2. writer' \subseteq Lockers /\ readers' \subseteq Lockers
  BY DEF MonitorTyped, PerfNext, RequestStep, Held, Check, Enter, Record, RecordError, Leave, Panic, Ask, Lock,
     RLock, SetTargets, Reset, RUnlock, UpdateTick, UpdateMetrics, CloseMonitor, perfVars, Unlocked
<1>3. nested' \in 0..2
  <2>1. locker[Loop].at # "rlocked"
    BY DEF MonitorTyped, LockInv, LoopWaitsForItself
  <2> QED BY <2>1 DEF MonitorTyped, PerfNext, RequestStep, Held, Check, Enter, Record, RecordError, Leave,
     Panic, Ask, Lock, RLock, SetTargets, Reset, RUnlock, UpdateTick, UpdateMetrics, CloseMonitor, perfVars
<1>4. asks' \in 0..MaxAsks
  BY <1>0 DEF MonitorTyped, PerfNext, RequestStep, Held, Check, Enter, Record, RecordError, Leave, Panic, Ask,
     Lock, RLock, SetTargets, Reset, RUnlock, UpdateTick, UpdateMetrics, CloseMonitor, perfVars
<1> QED BY <1>0, <1>1, <1>2, <1>3, <1>4 DEF MonitorTyped

LEMMA MonitorTypedTells == MonitorTyped => PerfTypeOK
BY MonitorAssumption DEF MonitorTyped, FlightInv, RequestType, LockInv, LoopWaitsForItself, PerfTypeOK

-----------------------------------------------------------------------------
(* Together                                                                *)

ProcessInv ==
  /\ scene \in Scenes
  /\ PoolInv /\ DelayedInv /\ ClientInv /\ ServerTyped /\ ConfigTyped /\ MonitorTyped

LEMMA ProcessInvInit == ProcessInit => ProcessInv
BY InitPool, DelayedInvInit, ClientInvInit, ServerTypedInit, ConfigTypedInit, MonitorTypedInit
   DEF ProcessInit, ProcessInv

\* A step of one component is a step, or none, of each.
LEMMA ProcessInvStep == ProcessInv /\ [ProcessNext]_processVars => ProcessInv'
<1> SUFFICES ASSUME ProcessInv, [ProcessNext]_processVars PROVE ProcessInv'
  OBVIOUS
<1>1. /\ scene' = scene /\ [Next]_vars /\ [DelayedNext]_delayedVars /\ [ClientNext]_clientVars
      /\ [ServerNext]_serverVars /\ [ConfigNext]_configVars /\ [PerfNext]_perfVars
  BY DEF ProcessNext, processVars, PoolScene, DelayedScene, ClientScene, ServerScene, ConfigScene,
         MonitorScene, In
<1>2. PoolInv' /\ DelayedInv' /\ ClientInv'
  BY <1>1, NextPool, DelayedInvStep, ClientInvStep DEF ProcessInv
<1>3. ServerTyped' /\ ConfigTyped' /\ MonitorTyped'
  BY <1>1, ServerTypedStep, ConfigTypedStep, MonitorTypedStep DEF ProcessInv
<1> QED BY <1>1, <1>2, <1>3 DEF ProcessInv

\* Every variable of every component has its type, for any constants: the wait
\* group is not negative, no bucket overflows, a reload is not ahead of the
\* file's edits.
THEOREM ProcessTyped == ProcessSpec => []Typed
<1>1. PoolInv => TypeOK
  BY DEF PoolInv
<1>2. DelayedInv => DelayedTypeOK
  BY DEF DelayedInv
<1>3. ClientInv => ClientTypeOK
  BY DEF ClientInv
<1>4. ProcessInv => Typed
  BY <1>1, <1>2, <1>3, ServerTypedTells, ConfigTypedTells, MonitorTypedTells DEF ProcessInv, Typed
<1> QED BY <1>4, ProcessInvInit, ProcessInvStep, PTL DEF ProcessSpec
=============================================================================
