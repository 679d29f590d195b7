------------------------ MODULE PriorityQueueProofs ------------------------
(***************************************************************************)
(* Proofs about PriorityQueue for any sets of jobs and workers, any number *)
(* of priorities, any channel capacities and any MaxRetries.               *)
(***************************************************************************)
EXTENDS PriorityQueue, SequenceTheorems, FiniteSetTheorems, TLAPS

\* The steps of the pool's own goroutines.
PoolStep == CheckScaling \/ ScaleUp \/ StopBegin \/ Shutdown \/ Report

LEMMA InitTypeOK == Init => TypeOK
BY QueueAssumption DEF Init, TypeOK, Priorities, RetryNumbers, CallerStates,
     RetrierStates, WorkerStates, FirstScanned

LEMMA CursorType ==
  /\ FirstScanned \in Priorities
  /\ \A p \in Priorities : MoreToScan(p) => p - 1 \in Priorities
BY QueueAssumption DEF FirstScanned, MoreToScan, Priorities

LEMMA RetryNumberType ==
  \A n \in 0..MaxRetries : n < MaxRetries => n + 1 \in RetryNumbers /\ n + 1 \in 0..MaxRetries
BY QueueAssumption DEF RetryNumbers

\* A step changes every variable within its type.
LEMMA NextTypeOK == TypeOK /\ [Next]_vars => TypeOK'
<1> SUFFICES ASSUME TypeOK, [Next]_vars PROVE TypeOK'
  OBVIOUS
<1> USE QueueAssumption DEF TypeOK, jobVars, workerVars, CallerStates, RetrierStates,
     WorkerStates
<1>1. ASSUME NEW j \in Jobs, NEW p \in Priorities, SubmitBegin(j, p) PROVE TypeOK'
  BY <1>1 DEF SubmitBegin
<1>2. ASSUME NEW j \in Jobs, SubmitSend(j) PROVE TypeOK'
  BY <1>2 DEF SubmitSend
<1>3. ASSUME NEW j \in Jobs, SubmitCount(j) PROVE TypeOK'
  BY <1>3 DEF SubmitCount, OnSubmitted, Add
<1>4. ASSUME NEW j \in Jobs, SubmitRefused(j) PROVE TypeOK'
  BY <1>4 DEF SubmitRefused
<1>5. ASSUME NEW j \in Jobs, DeadlineExpires(j) PROVE TypeOK'
  BY <1>5 DEF DeadlineExpires
<1>6. ASSUME NEW w \in Workers, StartScan(w) PROVE TypeOK'
  BY <1>6 DEF StartScan, Queued, Waiting
<1>7. ASSUME NEW w \in Workers, NEW j \in Jobs, Takes(w, j), chan' \in [Priorities -> Seq(Jobs)],
             caller' \in [Jobs -> CallerStates]
      PROVE  TypeOK'
  <2>1. cursor' \in [Workers -> Priorities]
    BY <1>7, CursorType DEF Takes
  <2>2. worker' \in [Workers -> WorkerStates] /\ held' \in [Workers -> Jobs \cup {NoJob}]
    BY <1>7 DEF Takes
  <2>3. overdue' \in [Workers -> SUBSET Jobs]
    BY <1>7 DEF Takes
  <2> QED BY <1>7, <2>1, <2>2, <2>3 DEF Takes
<1>8. ASSUME NEW w \in Workers, Take(w) PROVE TypeOK'
  <2>1. Head(chan[cursor[w]]) \in Jobs /\ Tail(chan[cursor[w]]) \in Seq(Jobs)
    BY <1>8 DEF Take
  <2> QED BY <1>7, <1>8, <2>1 DEF Take
<1>9. ASSUME NEW w \in Workers, NEW j \in Jobs, TakeParked(w, j) PROVE TypeOK'
  BY <1>7, <1>9 DEF TakeParked
<1>10. ASSUME NEW w \in Workers, SkipEmpty(w) PROVE TypeOK'
  <2>1. cursor' \in [Workers -> Priorities]
    <3>1. CASE MoreToScan(cursor[w])
      <4>1. cursor[w] - 1 \in Priorities
        BY <3>1, CursorType
      <4> QED BY <1>10, <3>1, <4>1 DEF SkipEmpty
    <3>2. CASE ~MoreToScan(cursor[w])
      BY <1>10, <3>2, CursorType DEF SkipEmpty
    <3> QED BY <3>1, <3>2
  <2> QED BY <1>10, <2>1 DEF SkipEmpty
<1>11. ASSUME NEW w \in Workers, CountProcessing(w) PROVE TypeOK'
  <2>1. runs' \in [Jobs -> Nat]
    <3>1. CASE held[w] \in Jobs
      BY <1>11, <3>1 DEF CountProcessing
    <3>2. CASE held[w] \notin Jobs
      BY <1>11, <3>2 DEF CountProcessing
    <3> QED BY <3>1, <3>2
  <2>2. OnProcessing(stats) \in [{"total", "pending", "processing", "completed", "failed",
                                   "retrying"} -> Int]
    BY DEF OnProcessing, Add
  <2> QED BY <1>11, <2>1, <2>2 DEF CountProcessing
<1>12. ASSUME NEW w \in Workers, HandlerReturns(w) PROVE TypeOK'
  BY <1>12 DEF HandlerReturns
<1>13. ASSUME NEW w \in Workers, CountCompleted(w) PROVE TypeOK'
  BY <1>13 DEF CountCompleted, OnCompleted, Add
<1>14. ASSUME NEW w \in Workers, CountFailed(w) PROVE TypeOK'
  BY <1>14 DEF CountFailed, OnFailed, Add
<1>15. ASSUME NEW w \in Workers, Retry(w) PROVE TypeOK'
  <2>1. retries' \in [Jobs -> 0..MaxRetries]
    <3>1. CASE held[w] \in Jobs
      BY <1>15, <3>1, RetryNumberType DEF Retry, MayRetry
    <3>2. CASE held[w] \notin Jobs
      BY <1>15, <3>2 DEF Retry
    <3> QED BY <3>1, <3>2
  <2>2. retrier' \in [Jobs -> [RetryNumbers -> RetrierStates]]
    BY <1>15 DEF Retry
  <2> QED BY <1>15, <2>1, <2>2 DEF Retry
<1>16. ASSUME NEW w \in Workers, GiveUp(w) PROVE TypeOK'
  BY <1>16 DEF GiveUp
<1>17. ASSUME NEW w \in Workers, Close(w) PROVE TypeOK'
  BY <1>17 DEF Close, Cancel
<1>18. ASSUME NEW w \in Workers, UpdateStats(w) \/ WorkerExit(w) PROVE TypeOK'
  BY <1>18 DEF UpdateStats, WorkerExit
<1>19. ASSUME NEW j \in Jobs, NEW n \in RetryNumbers, RetrierStep(j, n) PROVE TypeOK'
  <2>1. CASE RetryWakes(j, n)
    BY <2>1 DEF RetryWakes
  <2>2. CASE Resend(j, n)
    BY <2>2 DEF Resend
  <2>3. CASE CountRetry(j, n)
    BY <2>3 DEF CountRetry, OnRetryScheduled, Add
  <2>4. CASE RetryDropped(j, n)
    BY <2>4, SMTT(60) DEF RetryDropped, OnRetryFailed, Add
  <2>5. CASE RetryAbandoned(j, n)
    BY <2>5 DEF RetryAbandoned
  <2> QED BY <1>19, <2>1, <2>2, <2>3, <2>4, <2>5 DEF RetrierStep
<1>20. CASE CheckScaling \/ ScaleUp \/ StopBegin \/ Report
  BY <1>20 DEF CheckScaling, ScaleUp, StopBegin, Report
<1>21. CASE Shutdown
  BY <1>21 DEF Shutdown, Cancel
<1>22. CASE UNCHANGED vars
  BY <1>22 DEF vars
<1> QED
  BY <1>1, <1>2, <1>3, <1>4, <1>5, <1>6, <1>8, <1>9, <1>10, <1>11, <1>12, <1>13, <1>14,
     <1>15, <1>16, <1>17, <1>18, <1>19, <1>20, <1>21, <1>22
     DEF Next, CallerStep, WorkerStep

\* The variables of the queue, its workers and its retry goroutines stay
\* within their types, whatever the constants.
THEOREM TypeCorrect == Spec => []TypeOK
BY InitTypeOK, NextTypeOK, PTL DEF Spec

-----------------------------------------------------------------------------
(* Ownership and the run budget                                            *)

\* A send puts one more job at the tail of one channel.
LEMMA SendEffect ==
  ASSUME TypeOK, ChannelsApart, NEW j \in Jobs, NEW q \in Priorities, j \notin Queued,
         chan' = [chan EXCEPT ![q] = Append(@, j)]
  PROVE  /\ Queued' = Queued \cup {j}
         /\ ChannelsApart'
         /\ \A p \in Priorities : \A i \in DOMAIN chan'[p] :
              \/ p = q /\ chan'[p][i] = j
              \/ i \in DOMAIN chan[p] /\ chan'[p][i] = chan[p][i]
<1>1. \A p \in Priorities : chan[p] \in Seq(Jobs) /\ chan'[p] \in Seq(Jobs)
  BY DEF TypeOK
<1>2. chan'[q] = Append(chan[q], j) /\ \A p \in Priorities \ {q} : chan'[p] = chan[p]
  BY DEF TypeOK
<1>3. /\ Len(chan'[q]) = Len(chan[q]) + 1
      /\ \A i \in DOMAIN chan'[q] :
           IF i = Len(chan[q]) + 1 THEN chan'[q][i] = j
           ELSE i \in DOMAIN chan[q] /\ chan'[q][i] = chan[q][i]
  BY <1>1, <1>2
<1>4. \A p \in Priorities : \A i \in DOMAIN chan[p] :
        i \in DOMAIN chan'[p] /\ chan'[p][i] = chan[p][i] /\ chan[p][i] # j
  BY <1>1, <1>2, <1>3 DEF Queued, Waiting
<1>5. Len(chan[q]) + 1 \in DOMAIN chan'[q]
  BY <1>1, <1>3
<1>6. Queued' = Queued \cup {j}
  BY <1>2, <1>3, <1>4, <1>5 DEF Queued, Waiting
<1>7. ChannelsApart'
  BY <1>2, <1>3, <1>4 DEF ChannelsApart
<1> QED BY <1>2, <1>3, <1>6, <1>7

\* A receive removes the job at the head of a channel, which was there once.
LEMMA ReceiveEffect ==
  ASSUME TypeOK, ChannelsApart, NEW q \in Priorities, chan[q] # <<>>,
         chan' = [chan EXCEPT ![q] = Tail(@)]
  PROVE  /\ Head(chan[q]) \in Queued
         /\ Head(chan[q]) \in Jobs
         /\ Queued' = Queued \ {Head(chan[q])}
         /\ ChannelsApart'
         /\ \A p \in Priorities : \A i \in DOMAIN chan'[p] :
              \E k \in DOMAIN chan[p] : chan'[p][i] = chan[p][k]
<1>1. \A p \in Priorities : chan[p] \in Seq(Jobs)
  BY DEF TypeOK
<1>2. chan'[q] = Tail(chan[q]) /\ \A p \in Priorities \ {q} : chan'[p] = chan[p]
  BY DEF TypeOK
<1>3. 1 \in DOMAIN chan[q] /\ Head(chan[q]) = chan[q][1]
  BY <1>1
<1>4a. /\ DOMAIN chan[q] = 1 .. Len(chan[q]) /\ Len(chan[q]) \in Nat
       /\ DOMAIN chan'[q] = 1 .. (Len(chan[q]) - 1)
       /\ \A i \in DOMAIN chan'[q] : chan'[q][i] = chan[q][i + 1]
  <2>1. chan[q] \in Seq(Jobs) /\ chan[q] # <<>>
    BY <1>1
  <2>2. /\ Tail(chan[q]) \in Seq(Jobs)
        /\ Len(Tail(chan[q])) = Len(chan[q]) - 1
        /\ \A i \in 1 .. Len(Tail(chan[q])) : Tail(chan[q])[i] = chan[q][i + 1]
    BY <2>1, HeadTailProperties
  <2>3. DOMAIN Tail(chan[q]) = 1 .. Len(Tail(chan[q]))
    BY <2>2
  <2>4. DOMAIN chan[q] = 1 .. Len(chan[q]) /\ Len(chan[q]) \in Nat
    BY <2>1
  <2>5. DOMAIN chan'[q] = 1 .. (Len(chan[q]) - 1)
    BY <1>2, <2>2, <2>3
  <2>6. \A i \in DOMAIN chan'[q] : chan'[q][i] = chan[q][i + 1]
    BY <1>2, <2>2, <2>3
  <2> QED BY <2>4, <2>5, <2>6
<1>4. \A i \in DOMAIN chan'[q] :
        i + 1 \in DOMAIN chan[q] /\ i + 1 # 1 /\ chan'[q][i] = chan[q][i + 1]
  BY <1>4a
<1>5. \A i \in DOMAIN chan[q] : i # 1 =>
        i - 1 \in DOMAIN chan'[q] /\ chan'[q][i - 1] = chan[q][i]
  BY <1>4a
<1>6. Head(chan[q]) \in Queued /\ Head(chan[q]) \in Jobs
  BY <1>1, <1>3 DEF Queued, Waiting
<1>7. ASSUME NEW x \in Queued', x \notin Queued \ {Head(chan[q])} PROVE FALSE
  <2>1. PICK p \in Priorities : \E i \in DOMAIN chan'[p] : chan'[p][i] = x
    BY <1>7 DEF Queued, Waiting
  <2>2. CASE p = q
    BY <1>3, <1>4, <1>7, <2>1, <2>2 DEF Queued, Waiting, ChannelsApart
  <2>3. CASE p # q
    BY <1>2, <1>3, <1>7, <2>1, <2>3 DEF Queued, Waiting, ChannelsApart
  <2> QED BY <2>2, <2>3
<1>8. ASSUME NEW x \in Queued, x # Head(chan[q]) PROVE x \in Queued'
  <2>1. PICK p \in Priorities : \E i \in DOMAIN chan[p] : chan[p][i] = x
    BY DEF Queued, Waiting
  <2>2. CASE p = q
    <3>1. PICK i \in DOMAIN chan[q] : chan[q][i] = x
      BY <2>1, <2>2
    <3>2. i - 1 \in DOMAIN chan'[q] /\ chan'[q][i - 1] = x
      BY <1>3, <1>5, <1>8, <3>1
    <3> QED BY <3>2 DEF Queued, Waiting
  <2>3. CASE p # q
    BY <1>2, <2>1, <2>3 DEF Queued, Waiting
  <2> QED BY <2>2, <2>3
<1>9. ChannelsApart'
  <2>1. \A i, k \in DOMAIN chan'[q] : chan'[q][i] = chan'[q][k] => i = k
    BY <1>1, <1>2, <1>4 DEF ChannelsApart
  <2>2. \A p \in Priorities \ {q} : \A i \in DOMAIN chan'[q], k \in DOMAIN chan'[p] :
          chan'[q][i] # chan'[p][k]
    BY <1>2, <1>4 DEF ChannelsApart
  <2> QED BY <1>2, <2>1, <2>2 DEF ChannelsApart
<1> QED BY <1>2, <1>4, <1>6, <1>7, <1>8, <1>9

LEMMA OwnerTypes ==
  ASSUME QueueInv
  PROVE  Queued \subseteq Jobs /\ Holding \subseteq Workers /\ \A w \in Holding : held[w] \in Jobs
<1>1. Queued \subseteq Jobs
  <2>1. \A p \in Priorities : chan[p] \in Seq(Jobs)
    BY DEF QueueInv, TypeOK
  <2> QED BY <2>1 DEF Queued, Waiting
<1>2. \A w \in Holding : held[w] \in Jobs
  <2> SUFFICES ASSUME NEW w \in Holding PROVE held[w] \in Jobs
    OBVIOUS
  <2>1. w \in Workers /\ worker[w] \notin {"idle", "scan", "counting", "exited"}
    BY DEF Holding
  <2>2. held[w] # NoJob
    BY <2>1 DEF QueueInv, Placed
  <2> QED BY <2>1, <2>2 DEF QueueInv, TypeOK
<1> QED BY <1>1, <1>2 DEF Holding

\* A step that leaves the channels alone and gives nobody a new job keeps
\* the owners apart.
LEMMA OwnersFrame ==
  ASSUME QueueInv, UNCHANGED chan,
         Holding' \subseteq Holding, \A w \in Holding' : held'[w] = held[w],
         \A j \in Jobs : Retrying(j)' => Retrying(j)
  PROVE  SingleOwner'
<1>1. Queued' = Queued /\ ChannelsApart'
  BY DEF Queued, Waiting, ChannelsApart, QueueInv, SingleOwner
<1>2. HoldersApart'
  BY DEF HoldersApart, QueueInv, SingleOwner
<1> QED BY <1>1, <1>2, OwnerTypes DEF QueueInv, SingleOwner

\* A step that leaves retries and runs alone and makes no job pending keeps
\* the counts.
LEMMA CountsFrame ==
  ASSUME QueueInv, UNCHANGED <<retries, runs>>,
         \A j \in Jobs : j \in Queued' \/ Retrying(j)' \/ ~Sent(j)'
                          => j \in Queued \/ Retrying(j) \/ ~Sent(j),
         \A w \in Workers :
           /\ worker'[w] = "taken" => worker[w] = "taken" /\ held'[w] = held[w]
           /\ worker'[w] \in {"run", "returned", "failed"} =>
                worker[w] \in {"run", "returned", "failed"} /\ held'[w] = held[w]
  PROVE  RunsCounted'
BY DEF QueueInv, RunsCounted, RunBudget

\* A step that moves no job: it may end a retry, a run or the hold on a job.
LEMMA QuietStep ==
  ASSUME QueueInv, UNCHANGED <<chan, priority, retries, runs>>,
         \A j \in Jobs : Sent(j)' <=> Sent(j),
         \A j \in Jobs, n \in RetryNumbers :
           retrier'[j][n] \in {"waiting", "awake"} => retrier[j][n] \in {"waiting", "awake"},
         \A w \in Workers :
           /\ worker'[w] \in {"idle", "scan", "counting", "exited"} <=> held'[w] = NoJob
           /\ worker'[w] = "taken" => worker[w] = "taken" /\ held'[w] = held[w]
           /\ worker'[w] \in {"run", "returned", "failed"} =>
                worker[w] \in {"run", "returned", "failed"} /\ held'[w] = held[w]
  PROVE  Placed' /\ SingleOwner' /\ RunsCounted'
<1>1. Queued' = Queued /\ \A j \in Jobs : Retrying(j)' => Retrying(j)
  BY DEF Queued, Waiting, Retrying
<1>2. Holding' \subseteq Holding /\ \A w \in Holding' : held'[w] = held[w]
  BY DEF Holding
<1>3. Placed'
  <2>1. ChannelsPlaced'
    <3>1. ASSUME NEW p \in Priorities, NEW i \in DOMAIN chan[p]
          PROVE  priority[chan[p][i]] = p /\ caller'[chan[p][i]] \in {"sent", "accepted"}
      <4>1. chan[p][i] \in Jobs /\ priority[chan[p][i]] = p /\ Sent(chan[p][i])
        BY DEF QueueInv, TypeOK, Placed, ChannelsPlaced
      <4> QED BY <4>1 DEF Sent
    <3> QED BY <3>1 DEF ChannelsPlaced, Sent
  <2>2. \A w \in Holding' : caller'[held'[w]] \in {"sent", "accepted"}
    BY <1>2, OwnerTypes DEF QueueInv, Placed, Sent
  <2>3. \A j \in Jobs, n \in RetryNumbers :
          retrier'[j][n] \in {"waiting", "awake"} => Sent(j)' /\ n = retries'[j]
    BY DEF QueueInv, Placed
  <2> QED BY <2>1, <2>2, <2>3 DEF Placed, Sent
<1>4. SingleOwner'
  BY <1>1, <1>2, OwnersFrame
<1>5. RunsCounted'
  BY <1>1, CountsFrame
<1> QED BY <1>3, <1>4, <1>5

LEMMA SendPlaced ==
  ASSUME QueueInv, NEW j \in Jobs, j \notin Queued, Sent(j)', UNCHANGED priority,
         chan' = [chan EXCEPT ![priority[j]] = Append(@, j)],
         \A i \in Jobs : Sent(i) => Sent(i)'
  PROVE  Queued' = Queued \cup {j} /\ ChannelsApart' /\ ChannelsPlaced'
<1>1. /\ Queued' = Queued \cup {j} /\ ChannelsApart'
      /\ \A p \in Priorities : \A i \in DOMAIN chan'[p] :
           \/ p = priority[j] /\ chan'[p][i] = j
           \/ i \in DOMAIN chan[p] /\ chan'[p][i] = chan[p][i]
  <2>1. TypeOK /\ ChannelsApart
    BY DEF QueueInv, SingleOwner
  <2>2. priority[j] \in Priorities
    BY <2>1 DEF TypeOK
  <2> QED BY <2>1, <2>2, SendEffect
<1>2. ASSUME NEW p \in Priorities, NEW i \in DOMAIN chan'[p]
      PROVE  priority[chan'[p][i]] = p /\ caller'[chan'[p][i]] \in {"sent", "accepted"}
  <2>1. CASE p = priority[j] /\ chan'[p][i] = j
    BY <2>1 DEF Sent
  <2>2. CASE i \in DOMAIN chan[p] /\ chan'[p][i] = chan[p][i]
    <3>1. chan[p][i] \in Jobs /\ priority[chan[p][i]] = p /\ Sent(chan[p][i])
      BY <2>2 DEF QueueInv, TypeOK, Placed, ChannelsPlaced
    <3>2. caller'[chan[p][i]] \in {"sent", "accepted"}
      BY <3>1 DEF Sent
    <3> QED BY <2>2, <3>1, <3>2
  <2> QED BY <1>1, <2>1, <2>2
<1>3. ChannelsPlaced'
  BY <1>2 DEF ChannelsPlaced, Sent
<1> QED BY <1>1, <1>3

\* A worker that scans becomes the one owner of a job nobody else has.
LEMMA TakenEffect ==
  ASSUME QueueInv, NEW w \in Workers, NEW j \in Jobs, worker[w] = "scan",
         worker' = [worker EXCEPT ![w] = "taken"], held' = [held EXCEPT ![w] = j],
         UNCHANGED <<priority, retries, retrier, runs>>,
         Sent(j)', \A i \in Jobs : Sent(i) => Sent(i)',
         ~Retrying(j), \A v \in Holding : held[v] # j, runs[j] = retries[j],
         ChannelsPlaced', ChannelsApart', Queued' \subseteq Queued, j \notin Queued'
  PROVE  Placed' /\ SingleOwner' /\ RunsCounted'
<1>1. /\ Holding' = Holding \cup {w} /\ w \notin Holding
      /\ held'[w] = j /\ \A v \in Holding : held'[v] = held[v]
  BY DEF Holding, QueueInv, TypeOK
<1>2. \A i \in Jobs : Retrying(i)' <=> Retrying(i)
  BY DEF Retrying
<1>3. Placed'
  <2>1. \A v \in Holding' : caller'[held'[v]] \in {"sent", "accepted"}
    BY <1>1, OwnerTypes DEF QueueInv, Placed, Sent
  <2>2. \A i \in Jobs, n \in RetryNumbers :
          retrier'[i][n] \in {"waiting", "awake"} => Sent(i)' /\ n = retries'[i]
    BY DEF QueueInv, Placed
  <2>3. \A v \in Workers : worker'[v] \in {"idle", "scan", "counting", "exited"} <=> held'[v] = NoJob
    <3>1. ASSUME NEW v \in Workers, v # w
          PROVE  worker'[v] \in {"idle", "scan", "counting", "exited"} <=> held'[v] = NoJob
      <4>1. worker'[v] = worker[v] /\ held'[v] = held[v]
        BY <3>1 DEF QueueInv, TypeOK
      <4> QED BY <4>1 DEF QueueInv, Placed
    <3>2. worker'[w] = "taken" /\ held'[w] = j /\ j # NoJob
      BY NoJobAssumption DEF QueueInv, TypeOK
    <3> QED BY <3>1, <3>2
  <2> QED BY <2>1, <2>2, <2>3 DEF Placed, Sent
<1>4. SingleOwner'
  <2>1. HoldersApart'
    BY <1>1 DEF HoldersApart, QueueInv, SingleOwner
  <2>2. \A v \in Holding' : held'[v] \notin Queued' /\ ~Retrying(held'[v])
    BY <1>1 DEF QueueInv, SingleOwner
  <2>3. \A v \in Holding' : held'[v] \in Jobs
    BY <1>1, OwnerTypes
  <2>4. \A v \in Holding' : held'[v] \notin Queued' /\ ~\E n \in RetryNumbers :
          retrier'[held'[v]][n] \in {"waiting", "awake"}
    BY <2>2, <2>3 DEF Retrying
  <2>5. \A i \in Queued' : ~Retrying(i)'
    BY <1>2, OwnerTypes DEF QueueInv, SingleOwner
  <2> QED BY <2>1, <2>4, <2>5 DEF SingleOwner, Retrying
<1>5. RunsCounted'
  <2>1. \A i \in Jobs : i \in Queued' \/ Retrying(i)' \/ ~Sent(i)' => runs[i] = retries[i]
    BY <1>2 DEF QueueInv, RunsCounted
  <2>2. ASSUME NEW v \in Workers
        PROVE  /\ worker'[v] = "taken" => runs[held'[v]] = retries[held'[v]]
               /\ worker'[v] \in {"run", "returned", "failed"}
                    => runs[held'[v]] = retries[held'[v]] + 1
    <3>1. CASE v = w
      BY <3>1, <1>1 DEF QueueInv, TypeOK
    <3>2. CASE v # w
      <4>1. worker'[v] = worker[v] /\ held'[v] = held[v]
        BY <3>2 DEF QueueInv, TypeOK
      <4> QED BY <4>1 DEF QueueInv, RunsCounted
    <3> QED BY <3>1, <3>2
  <2> QED BY <2>1, <2>2 DEF QueueInv, RunsCounted, RunBudget
<1> QED BY <1>3, <1>4, <1>5

LEMMA InitQueueInv == Init => QueueInv
<1> SUFFICES ASSUME Init PROVE Placed /\ SingleOwner /\ RunsCounted
  BY InitTypeOK DEF QueueInv
<1> USE QueueAssumption DEF Init
<1>1. Queued = {} /\ Holding = {} /\ \A j \in Jobs : ~Retrying(j)
  BY DEF Queued, Waiting, Holding, Retrying
<1>2. Placed
  BY DEF Placed, ChannelsPlaced, Holding
<1>3. SingleOwner
  BY <1>1 DEF SingleOwner, ChannelsApart, HoldersApart
<1>4. RunsCounted
  BY DEF RunsCounted, RunBudget
<1> QED BY <1>2, <1>3, <1>4

LEMMA NextQueueInv == QueueInv /\ [Next]_vars => QueueInv'
<1> SUFFICES ASSUME QueueInv, [Next]_vars PROVE Placed' /\ SingleOwner' /\ RunsCounted'
  BY NextTypeOK DEF QueueInv
<1> DEFINE Goal == Placed' /\ SingleOwner' /\ RunsCounted'
<1>a. TypeOK /\ Placed /\ SingleOwner /\ RunsCounted
  BY DEF QueueInv
<1>1. ASSUME NEW j \in Jobs, NEW p \in Priorities, SubmitBegin(j, p) PROVE Goal
  <2> USE <1>a, <1>1 DEF SubmitBegin, jobVars, workerVars, TypeOK
  <2>1. UNCHANGED <<chan, retries, runs>> /\ Queued' = Queued
    BY DEF Queued, Waiting
  <2>2. Holding' \subseteq Holding /\ \A v \in Holding' : held'[v] = held[v]
    BY DEF Holding
  <2>3. \A i \in Jobs : Retrying(i)' => Retrying(i)
    BY DEF Retrying
  <2>4. \A i \in Jobs : Sent(i) <=> Sent(i)'
    BY DEF Sent
  <2>5. Placed'
    BY DEF Placed, ChannelsPlaced, Sent, Holding
  <2>6. SingleOwner'
    BY <2>1, <2>2, <2>3, OwnersFrame
  <2>7. RunsCounted'
    BY <2>1, <2>3, <2>4, CountsFrame
  <2> QED BY <2>5, <2>6, <2>7
<1>2. ASSUME NEW j \in Jobs,
             \/ SubmitCount(j) \/ SubmitRefused(j) \/ DeadlineExpires(j)
             \/ \E n \in RetryNumbers : RetryWakes(j, n) \/ CountRetry(j, n)
                                        \/ RetryDropped(j, n) \/ RetryAbandoned(j, n)
      PROVE  Goal
  <2>1. UNCHANGED <<chan, priority, retries, runs, worker, held>>
    BY <1>2 DEF SubmitCount, SubmitRefused, DeadlineExpires, RetryWakes, CountRetry, RetryDropped,
         RetryAbandoned, jobVars, workerVars
  <2>2. \A i \in Jobs : Sent(i)' <=> Sent(i)
    BY <1>a, <1>2 DEF SubmitCount, SubmitRefused, DeadlineExpires, RetryWakes, CountRetry,
         RetryDropped, RetryAbandoned, Sent, TypeOK
  <2>3. \A i \in Jobs, m \in RetryNumbers :
          retrier'[i][m] \in {"waiting", "awake"} => retrier[i][m] \in {"waiting", "awake"}
    <3>1. CASE SubmitCount(j) \/ SubmitRefused(j) \/ DeadlineExpires(j)
      BY <3>1 DEF SubmitCount, SubmitRefused, DeadlineExpires
    <3>2. ASSUME NEW n \in RetryNumbers, RetryWakes(j, n) \/ CountRetry(j, n)
                                         \/ RetryDropped(j, n) \/ RetryAbandoned(j, n)
          PROVE  /\ retrier[j][n] \in {"waiting", "awake"} \/ retrier'[j][n] = "counted"
                 /\ \A i \in Jobs, m \in RetryNumbers :
                      i # j \/ m # n => retrier'[i][m] = retrier[i][m]
      BY <1>a, <3>2 DEF RetryWakes, CountRetry, RetryDropped, RetryAbandoned, TypeOK
    <3> QED BY <1>2, <3>1, <3>2
  <2> QED BY <1>a, <2>1, <2>2, <2>3, QuietStep DEF Placed
<1>3. ASSUME NEW w \in Workers,
             \/ StartScan(w) \/ SkipEmpty(w) \/ HandlerReturns(w) \/ CountCompleted(w)
             \/ CountFailed(w) \/ GiveUp(w) \/ Close(w)
             \/ UpdateStats(w) \/ WorkerExit(w)
      PROVE  Goal
  <2>1. UNCHANGED <<chan, priority, retries, runs, caller, retrier>>
    BY <1>3 DEF StartScan, SkipEmpty, HandlerReturns, CountCompleted, CountFailed, GiveUp, Close,
         UpdateStats, WorkerExit, jobVars
  <2>2. \A v \in Workers \ {w} : worker'[v] = worker[v] /\ held'[v] = held[v]
    BY <1>a, <1>3 DEF StartScan, SkipEmpty, HandlerReturns, CountCompleted, CountFailed, GiveUp,
         Close, UpdateStats, WorkerExit, TypeOK
  <2>3. \/ /\ worker[w] \in {"idle", "scan", "counting"}
           /\ worker'[w] \in {"idle", "scan", "exited"}
           /\ held'[w] = held[w]
        \/ /\ worker[w] \in {"run", "returned", "failed"} /\ held'[w] = held[w]
           /\ worker'[w] \in {"returned", "failed", "closing"}
        \/ worker[w] = "closing" /\ worker'[w] = "counting" /\ held'[w] = NoJob
    BY <1>a, <1>3 DEF StartScan, SkipEmpty, HandlerReturns, CountCompleted, CountFailed, GiveUp,
         Close, UpdateStats, WorkerExit, TypeOK
  <2>4. \A v \in Workers :
          /\ worker'[v] \in {"idle", "scan", "counting", "exited"} <=> held'[v] = NoJob
          /\ worker'[v] = "taken" => worker[v] = "taken" /\ held'[v] = held[v]
          /\ worker'[v] \in {"run", "returned", "failed"} =>
               worker[v] \in {"run", "returned", "failed"} /\ held'[v] = held[v]
    BY <1>a, <2>2, <2>3 DEF Placed
  <2> QED BY <2>1, <2>4, QuietStep DEF Sent
<1>4. CASE PoolStep \/ UNCHANGED vars
  <2>1. UNCHANGED <<chan, priority, retries, runs, worker, held, caller, retrier>>
    BY <1>4 DEF PoolStep, CheckScaling, ScaleUp, StopBegin, Shutdown, Report, vars, jobVars,
         workerVars
  <2> QED BY <1>a, <2>1, QuietStep DEF Sent, Placed
<1>5. ASSUME NEW j \in Jobs, SubmitSend(j) PROVE Goal
  <2> USE <1>a, <1>5 DEF SubmitSend, jobVars, workerVars, TypeOK
  <2>1. ~Sent(j) /\ j \notin Queued /\ ~Retrying(j) /\ \A w \in Holding : held[w] # j
    <3>1. ~Sent(j)
      BY DEF Sent
    <3>2. j \notin Queued
      BY <3>1 DEF Placed, ChannelsPlaced, Queued, Waiting
    <3>3. ~Retrying(j) /\ \A w \in Holding : held[w] # j
      BY <3>1 DEF Placed, ChannelsPlaced, Retrying
    <3> QED BY <3>1, <3>2, <3>3
  <2>2. Holding' = Holding /\ \A i \in Jobs : Retrying(i)' <=> Retrying(i)
    BY DEF Holding, Retrying
  <2>3. \A i \in Jobs : Sent(i)' <=> Sent(i) \/ i = j
    BY DEF Sent
  <2>4. Queued' = Queued \cup {j} /\ ChannelsApart' /\ ChannelsPlaced'
    BY <2>1, <2>3, SendPlaced
  <2>5. Placed'
    <3>1. \A w \in Holding : Sent(held[w])'
      BY <2>3, OwnerTypes DEF Placed
    <3>2. \A k \in Jobs, n \in RetryNumbers :
            retrier[k][n] \in {"waiting", "awake"} => Sent(k)' /\ n = retries[k]
      BY <2>3 DEF Placed
    <3> QED BY <2>2, <2>4, <3>1, <3>2 DEF Placed
  <2>6. SingleOwner'
    BY <2>1, <2>2, <2>4, OwnerTypes DEF SingleOwner, HoldersApart
  <2>7. RunsCounted'
    <3>1. \A i \in Jobs : i \in Queued' \/ Retrying(i)' \/ ~Sent(i)'
                            => i \in Queued \/ Retrying(i) \/ ~Sent(i)
      BY <2>1, <2>2, <2>3, <2>4
    <3> QED BY <3>1, CountsFrame
  <2> QED BY <2>5, <2>6, <2>7
<1>6. ASSUME NEW j \in Jobs, NEW n \in RetryNumbers, Resend(j, n) PROVE Goal
  <2> USE <1>a, <1>6 DEF Resend, jobVars, workerVars, TypeOK
  <2>1. Retrying(j) /\ Sent(j) /\ n = retries[j]
    BY DEF Placed, ChannelsPlaced, Retrying
  <2>2. j \notin Queued /\ \A w \in Holding : held[w] # j
    BY <2>1 DEF SingleOwner
  <2>3. ~Retrying(j)' /\ \A i \in Jobs : Retrying(i)' => Retrying(i)
    <3>1. ASSUME NEW k \in RetryNumbers, retrier'[j][k] \in {"waiting", "awake"} PROVE FALSE
      <4>1. CASE k = n
        BY <3>1, <4>1
      <4>2. CASE k # n
        <5>1. retrier[j][k] \in {"waiting", "awake"}
          BY <3>1, <4>2
        <5> QED BY <2>1, <4>2, <5>1 DEF Placed
      <4> QED BY <4>1, <4>2
    <3> QED BY <3>1, <2>1 DEF Retrying
  <2>4. Holding' = Holding /\ \A i \in Jobs : Sent(i)' <=> Sent(i)
    BY DEF Holding, Sent
  <2>5. Queued' = Queued \cup {j} /\ ChannelsApart' /\ ChannelsPlaced'
    BY <2>1, <2>2, <2>4, SendPlaced
  <2>6. Placed'
    <3>1. \A w \in Holding : Sent(held[w])'
      BY <2>4, OwnerTypes DEF Placed
    <3>2. \A k \in Jobs, m \in RetryNumbers :
            retrier'[k][m] \in {"waiting", "awake"} => Sent(k)' /\ m = retries[k]
      BY <2>4 DEF Placed
    <3> QED BY <2>4, <2>5, <3>1, <3>2 DEF Placed
  <2>7. SingleOwner'
    BY <2>2, <2>3, <2>4, <2>5, OwnerTypes DEF SingleOwner, HoldersApart
  <2>8. RunsCounted'
    <3>1. \A i \in Jobs : i \in Queued' \/ Retrying(i)' \/ ~Sent(i)'
                            => i \in Queued \/ Retrying(i) \/ ~Sent(i)
      BY <2>1, <2>3, <2>4, <2>5
    <3> QED BY <3>1, CountsFrame
  <2> QED BY <2>6, <2>7, <2>8
<1>7. ASSUME NEW w \in Workers, Take(w) PROVE Goal
  <2> DEFINE j == Head(chan[cursor[w]])
  <2> USE <1>a, <1>7 DEF Take, Takes, jobVars, workerVars, TypeOK
  <2>1. /\ j \in Queued /\ j \in Jobs
        /\ Queued' = Queued \ {j}
        /\ ChannelsApart'
        /\ \A p \in Priorities : \A i \in DOMAIN chan'[p] :
             \E k \in DOMAIN chan[p] : chan'[p][i] = chan[p][k]
    BY ReceiveEffect DEF SingleOwner
  <2>2. Sent(j)
    BY <2>1 DEF Placed, ChannelsPlaced, Queued, Waiting
  <2>3. ChannelsPlaced'
    <3>1. ASSUME NEW p \in Priorities, NEW i \in DOMAIN chan'[p]
          PROVE  priority[chan'[p][i]] = p /\ caller[chan'[p][i]] \in {"sent", "accepted"}
      <4>1. PICK k \in DOMAIN chan[p] : chan'[p][i] = chan[p][k]
        BY <2>1
      <4>2. priority[chan[p][k]] = p /\ Sent(chan[p][k])
        BY DEF Placed, ChannelsPlaced
      <4> QED BY <4>1, <4>2 DEF Sent
    <3> QED BY <3>1 DEF ChannelsPlaced, Sent
  <2>4. /\ worker' = [worker EXCEPT ![w] = "taken"] /\ held' = [held EXCEPT ![w] = j]
        /\ worker[w] = "scan" /\ UNCHANGED <<priority, retries, caller, retrier, runs>>
    OBVIOUS
  <2> HIDE DEF j
  <2>5. ~Retrying(j) /\ (\A v \in Holding : held[v] # j) /\ runs[j] = retries[j]
    BY <2>1 DEF SingleOwner, RunsCounted
  <2>6. \A i \in Jobs : Sent(i)' <=> Sent(i)
    BY <2>4 DEF Sent
  <2> QED BY <2>1, <2>2, <2>3, <2>4, <2>5, <2>6, TakenEffect
<1>8. ASSUME NEW w \in Workers, NEW j \in Jobs, TakeParked(w, j) PROVE Goal
  <2> USE <1>a, <1>8 DEF TakeParked, Takes, jobVars, workerVars, TypeOK
  <2>1. ~Sent(j) /\ Sent(j)' /\ \A i \in Jobs : Sent(i)' <=> Sent(i) \/ i = j
    BY DEF Sent
  <2>2. j \notin Queued
    BY <2>1 DEF Placed, ChannelsPlaced, Queued, Waiting
  <2>3. ~Retrying(j) /\ (\A v \in Holding : held[v] # j) /\ runs[j] = retries[j]
    BY <2>1 DEF Placed, Retrying, RunsCounted
  <2>4. Queued' = Queued /\ ChannelsApart'
    BY DEF Queued, Waiting, ChannelsApart, SingleOwner
  <2>5. ChannelsPlaced'
    <3>1. ASSUME NEW p \in Priorities, NEW i \in DOMAIN chan[p]
          PROVE  priority[chan[p][i]] = p /\ caller'[chan[p][i]] \in {"sent", "accepted"}
      <4>1. chan[p][i] \in Jobs /\ priority[chan[p][i]] = p /\ Sent(chan[p][i])
        BY DEF Placed, ChannelsPlaced
      <4> QED BY <4>1 DEF Sent
    <3> QED BY <3>1 DEF ChannelsPlaced, Sent
  <2> QED BY <2>1, <2>2, <2>3, <2>4, <2>5, TakenEffect
<1>9. ASSUME NEW w \in Workers, CountProcessing(w) PROVE Goal
  <2> USE <1>a, <1>9 DEF CountProcessing, jobVars, workerVars, TypeOK
  <2>1. w \in Holding /\ held[w] \in Jobs /\ runs[held[w]] = retries[held[w]]
    BY OwnerTypes DEF Holding, RunsCounted
  <2>2. UNCHANGED chan /\ Holding' = Holding /\ Queued' = Queued
    BY DEF Holding, Queued, Waiting
  <2>3. \A i \in Jobs : (Retrying(i)' <=> Retrying(i)) /\ (Sent(i)' <=> Sent(i))
    BY DEF Retrying, Sent
  <2>4. Placed'
    BY DEF Placed, ChannelsPlaced, Sent, Holding
  <2>5. SingleOwner'
    BY <2>2, <2>3, OwnersFrame
  <2>6. RunsCounted'
    <3>1. held[w] \notin Queued /\ ~Retrying(held[w]) /\ Sent(held[w])
      BY <2>1 DEF SingleOwner, Placed
    <3>2. \A i \in Jobs : i # held[w] => runs'[i] = runs[i]
      OBVIOUS
    <3>3. runs'[held[w]] = retries[held[w]] + 1
      BY <2>1
    <3>4. \A i \in Jobs : i \in Queued' \/ Retrying(i)' \/ ~Sent(i)' => runs'[i] = retries[i]
      BY <2>2, <2>3, <3>1, <3>2 DEF RunsCounted
    <3>5. ASSUME NEW v \in Workers
          PROVE  /\ worker'[v] = "taken" => runs'[held[v]] = retries[held[v]]
                 /\ worker'[v] \in {"run", "returned", "failed"}
                      => runs'[held[v]] = retries[held[v]] + 1
      <4>1. CASE v = w
        BY <3>3, <4>1
      <4>2. CASE v # w /\ v \in Holding
        <5>1. held[v] # held[w] /\ held[v] \in Jobs
          BY <2>1, <4>2, OwnerTypes DEF SingleOwner, HoldersApart
        <5> QED BY <3>2, <4>2, <5>1 DEF RunsCounted
      <4>3. CASE v # w /\ v \notin Holding
        BY <4>3 DEF Holding
      <4> QED BY <4>1, <4>2, <4>3
    <3>6. RunBudget'
      BY <3>2, <3>3 DEF RunsCounted, RunBudget
    <3> QED BY <3>4, <3>5, <3>6 DEF RunsCounted
  <2> QED BY <2>4, <2>5, <2>6
<1>10. ASSUME NEW w \in Workers, Retry(w) PROVE Goal
  <2> DEFINE j == held[w]
  <2> USE <1>a, <1>10 DEF Retry, MayRetry, jobVars, workerVars, TypeOK
  <2>1. w \in Holding /\ j \in Jobs /\ runs[j] = retries[j] + 1
    BY OwnerTypes DEF Holding, RunsCounted
  <2>2. Sent(j) /\ j \notin Queued /\ ~Retrying(j) /\ \A v \in Holding : v # w => held[v] # j
    BY <2>1 DEF SingleOwner, HoldersApart, Placed
  <2>3. UNCHANGED chan /\ Queued' = Queued /\ Holding' = Holding \ {w}
    BY DEF Queued, Waiting, Holding
  <2>4. /\ retries' = [retries EXCEPT ![j] = @ + 1]
        /\ retrier' = [retrier EXCEPT ![j][retries[j] + 1] = "waiting"]
        /\ worker' = [worker EXCEPT ![w] = "closing"] /\ worker[w] = "failed"
        /\ retries[j] < MaxRetries
        /\ UNCHANGED <<chan, priority, caller, held, runs>>
    OBVIOUS
  <2> HIDE DEF j
  <2>5. \A i \in Jobs : (Sent(i)' <=> Sent(i)) /\ (i # j => (Retrying(i)' <=> Retrying(i)))
    BY <2>4 DEF Sent, Retrying
  <2>6. Placed'
    <3>1. ChannelsPlaced'
      BY <2>4 DEF Placed, ChannelsPlaced, Sent
    <3>2. \A v \in Workers : worker'[v] \in {"idle", "scan", "counting", "exited"} <=> held[v] = NoJob
      BY <2>4 DEF Placed
    <3>3. \A v \in Holding' : Sent(held[v])'
      BY <2>3, <2>4 DEF Placed, Sent
    <3>4. ASSUME NEW i \in Jobs, NEW n \in RetryNumbers, retrier'[i][n] \in {"waiting", "awake"}
          PROVE  Sent(i) /\ n = retries'[i]
      <4>1. CASE i = j
        <5>1. retrier[j][n] \notin {"waiting", "awake"}
          BY <2>2 DEF Retrying
        <5> QED BY <2>1, <2>2, <2>4, <3>4, <4>1, <5>1
      <4>2. CASE i # j
        BY <2>4, <3>4, <4>2 DEF Placed
      <4> QED BY <4>1, <4>2
    <3> QED BY <2>4, <2>5, <3>1, <3>2, <3>3, <3>4 DEF Placed
  <2>7. SingleOwner'
    <3>1. ChannelsApart' /\ HoldersApart'
      BY <2>3, <2>4 DEF SingleOwner, ChannelsApart, HoldersApart
    <3>2. \A v \in Holding' : held[v] \notin Queued /\ ~Retrying(held[v])'
      BY <2>2, <2>3, <2>4, <2>5, OwnerTypes DEF SingleOwner
    <3>3. \A i \in Queued : ~Retrying(i)'
      BY <2>2, <2>5, OwnerTypes DEF SingleOwner
    <3> QED BY <2>3, <2>4, <3>1, <3>2, <3>3 DEF SingleOwner
  <2>8. RunsCounted'
    <3>1. retries'[j] = runs[j] /\ \A i \in Jobs : i # j => retries'[i] = retries[i]
      BY <2>1, <2>4
    <3>2. \A i \in Jobs : i \in Queued' \/ Retrying(i)' \/ ~Sent(i)' => runs[i] = retries'[i]
      BY <2>3, <2>5, <3>1 DEF RunsCounted
    <3>3. ASSUME NEW v \in Workers
          PROVE  /\ worker'[v] = "taken" => runs[held[v]] = retries'[held[v]]
                 /\ worker'[v] \in {"run", "returned", "failed"}
                      => runs[held[v]] = retries'[held[v]] + 1
      <4>1. CASE v \in Holding /\ v # w
        BY <2>2, <2>4, <3>1, <4>1, OwnerTypes DEF RunsCounted
      <4>2. CASE v \notin Holding \/ v = w
        BY <2>4, <4>2 DEF Holding
      <4> QED BY <4>1, <4>2
    <3>4. RunBudget'
      <4>1. retries'[j] = retries[j] + 1 /\ runs[j] \in Nat /\ retries[j] \in Nat
        BY <2>1, <2>4
      <4> QED BY <2>1, <2>4, <3>1, <4>1, QueueAssumption, SMTT(60) DEF RunsCounted, RunBudget
    <3> QED BY <2>4, <3>2, <3>3, <3>4 DEF RunsCounted
  <2> QED BY <2>6, <2>7, <2>8
<1> QED
  BY <1>1, <1>2, <1>3, <1>4, <1>5, <1>6, <1>7, <1>8, <1>9, <1>10
     DEF Next, CallerStep, WorkerStep, RetrierStep, PoolStep

\* In every interleaving of callers, workers, retry goroutines, deadlines and
\* the stop, a job of the queue has at most one owner.
THEOREM OneOwner == Spec => []SingleOwner
<1>1. QueueInv => SingleOwner
  BY DEF QueueInv
<1> QED BY <1>1, InitQueueInv, NextQueueInv, PTL DEF Spec

\* The handler of a job is started at most RetryCount + 1 times and RetryCount
\* never exceeds MaxRetries.
THEOREM WithinBudget == Spec => []RunBudget
<1>1. QueueInv => RunBudget
  BY DEF QueueInv, RunsCounted
<1> QED BY <1>1, InitQueueInv, NextQueueInv, PTL DEF Spec

\* The invariant the two theorems above rest on is inductive.
THEOREM QueueInvariant == Spec => []QueueInv
BY InitQueueInv, NextQueueInv, PTL DEF Spec
-----------------------------------------------------------------------------
(* The scan takes the highest priority first                               *)

\* Whoever was queued when the scan began is still queued, at a priority the
\* scan has not passed; between scans nobody is owed anything.
ScanOwed ==
  \A w \in Workers :
    /\ overdue[w] \subseteq Queued
    /\ \A j \in overdue[w] : worker[w] = "scan" /\ priority[j] <= cursor[w]
    /\ worker[w] # "scan" => cursor[w] = FirstScanned

LEMMA InitScanOwed == Init => ScanOwed
BY DEF Init, ScanOwed

\* A step that takes no job from a channel and moves no scan.
LEMMA ScanFrame ==
  ASSUME QueueInv, ScanOwed, Queued \subseteq Queued', UNCHANGED <<priority, cursor, overdue>>,
         \A w \in Workers : worker'[w] = "scan" <=> worker[w] = "scan"
  PROVE  ScanOwed'
BY DEF ScanOwed

LEMMA TakesScan ==
  ASSUME QueueInv, ScanOwed, NEW w \in Workers, NEW j \in Jobs, worker[w] = "scan", Takes(w, j),
         Queued \ {j} \subseteq Queued'
  PROVE  ScanOwed'
<1> SUFFICES ASSUME NEW v \in Workers
             PROVE  /\ overdue'[v] \subseteq Queued'
                    /\ \A i \in overdue'[v] : worker'[v] = "scan" /\ priority'[i] <= cursor'[v]
                    /\ worker'[v] # "scan" => cursor'[v] = FirstScanned
  BY DEF ScanOwed
<1>1. CASE v = w
  BY <1>1 DEF Takes, QueueInv, TypeOK
<1>2. CASE v # w
  <2>1. /\ overdue'[v] = overdue[v] \ {j} /\ worker'[v] = worker[v] /\ cursor'[v] = cursor[v]
        /\ priority' = priority
    BY <1>2 DEF Takes, jobVars, QueueInv, TypeOK
  <2> QED BY <2>1 DEF ScanOwed
<1> QED BY <1>1, <1>2

LEMMA NextScanOwed == QueueInv /\ ScanOwed /\ [Next]_vars => ScanOwed'
<1> SUFFICES ASSUME QueueInv, ScanOwed, [Next]_vars PROVE ScanOwed'
  OBVIOUS
<1> USE DEF jobVars, workerVars
<1>0. TypeOK /\ Placed
  BY DEF QueueInv
<1>1. ASSUME NEW j \in Jobs, NEW p \in Priorities, SubmitBegin(j, p) PROVE ScanOwed'
  <2>1. j \notin Queued
    BY <1>0, <1>1 DEF SubmitBegin, Placed, ChannelsPlaced, Queued, Waiting, Sent
  <2>2. Queued' = Queued
    BY <1>1 DEF SubmitBegin, Queued, Waiting
  <2>3. UNCHANGED <<worker, cursor, overdue>> /\ \A i \in Jobs \ {j} : priority'[i] = priority[i]
    BY <1>0, <1>1 DEF SubmitBegin, TypeOK
  <2>4. \A v \in Workers : \A i \in overdue[v] : i \in Jobs \ {j}
    BY <2>1, OwnerTypes DEF ScanOwed
  <2> QED BY <2>2, <2>3, <2>4 DEF ScanOwed
<1>2. ASSUME NEW j \in Jobs, SubmitSend(j) PROVE ScanOwed'
  <2>1. j \notin Queued /\ Sent(j)' /\ \A i \in Jobs : Sent(i) => Sent(i)'
    <3>1. ~Sent(j)
      BY <1>2 DEF SubmitSend, Sent
    <3>2. j \notin Queued
      BY <1>0, <3>1 DEF Placed, ChannelsPlaced, Queued, Waiting
    <3>3. Sent(j)' /\ \A i \in Jobs : Sent(i) => Sent(i)'
      BY <1>0, <1>2 DEF SubmitSend, Sent, TypeOK
    <3> QED BY <3>2, <3>3
  <2>2. UNCHANGED <<priority, cursor, overdue, worker>>
        /\ chan' = [chan EXCEPT ![priority[j]] = Append(@, j)]
    BY <1>2 DEF SubmitSend
  <2>3. Queued' = Queued \cup {j}
    BY <2>1, <2>2, SendPlaced
  <2> QED BY <2>2, <2>3, ScanFrame
<1>3. ASSUME NEW j \in Jobs, NEW n \in RetryNumbers, Resend(j, n) PROVE ScanOwed'
  <2>1. Retrying(j) /\ Sent(j)
    BY <1>0, <1>3 DEF Resend, Placed, Retrying
  <2>2. j \notin Queued /\ Sent(j)' /\ \A i \in Jobs : Sent(i) => Sent(i)'
    BY <1>3, <2>1 DEF Resend, QueueInv, SingleOwner, Sent
  <2>3. UNCHANGED <<priority, cursor, overdue, worker>>
        /\ chan' = [chan EXCEPT ![priority[j]] = Append(@, j)]
    BY <1>3 DEF Resend
  <2>4. Queued' = Queued \cup {j}
    BY <2>2, <2>3, SendPlaced
  <2> QED BY <2>3, <2>4, ScanFrame
<1>4. ASSUME NEW w \in Workers, Take(w) PROVE ScanOwed'
  <2>1. /\ cursor[w] \in Priorities /\ chan[cursor[w]] # <<>> /\ ChannelsApart
        /\ chan' = [chan EXCEPT ![cursor[w]] = Tail(@)]
    BY <1>0, <1>4 DEF Take, TypeOK, QueueInv, SingleOwner
  <2>2. Head(chan[cursor[w]]) \in Jobs /\ Queued' = Queued \ {Head(chan[cursor[w]])}
    BY <1>0, <2>1, ReceiveEffect
  <2> QED BY <1>4, <2>2, TakesScan DEF Take
<1>5. ASSUME NEW w \in Workers, NEW j \in Jobs, TakeParked(w, j) PROVE ScanOwed'
  <2>1. Queued' = Queued
    BY <1>5 DEF TakeParked, Queued, Waiting
  <2> QED BY <1>5, <2>1, TakesScan DEF TakeParked
<1>6. ASSUME NEW w \in Workers, StartScan(w) PROVE ScanOwed'
  <2>1. Queued' = Queued /\ UNCHANGED <<priority, cursor>> /\ cursor[w] = MaxPriority
    BY <1>6 DEF StartScan, Queued, Waiting, ScanOwed, FirstScanned
  <2>2. /\ worker'[w] = "scan" /\ overdue'[w] = Queued
        /\ \A v \in Workers \ {w} : worker'[v] = worker[v] /\ overdue'[v] = overdue[v]
    BY <1>0, <1>6 DEF StartScan, TypeOK
  <2>3. \A j \in Queued : priority[j] <= MaxPriority
    BY <1>0, OwnerTypes, QueueAssumption DEF TypeOK, Priorities
  <2> QED BY <2>1, <2>2, <2>3 DEF ScanOwed
<1>7. ASSUME NEW w \in Workers, SkipEmpty(w) PROVE ScanOwed'
  <2>1. Queued' = Queued /\ UNCHANGED priority
    BY <1>7 DEF SkipEmpty, Queued, Waiting
  <2>2. \A v \in Workers \ {w} : /\ worker'[v] = worker[v] /\ overdue'[v] = overdue[v]
                                 /\ cursor'[v] = cursor[v]
    BY <1>0, <1>7 DEF SkipEmpty, TypeOK
  <2>3. \A j \in Queued : priority[j] # cursor[w]
    BY <1>0, <1>7 DEF SkipEmpty, Placed, ChannelsPlaced, Queued, Waiting
  <2>4. \A j \in overdue[w] : priority[j] \in Nat /\ priority[j] < cursor[w]
    BY <1>0, <2>3, OwnerTypes, QueueAssumption DEF ScanOwed, TypeOK, Priorities
  <2>5. CASE MoreToScan(cursor[w])
    <3>1. worker'[w] = "scan" /\ overdue'[w] = overdue[w] /\ cursor'[w] = cursor[w] - 1
      BY <1>0, <1>7, <2>5 DEF SkipEmpty, TypeOK
    <3>2. cursor[w] \in Nat
      BY <1>0, QueueAssumption DEF TypeOK, Priorities
    <3>3. \A j \in overdue[w] : priority[j] <= cursor[w] - 1
      BY <2>4, <3>2
    <3> QED BY <2>1, <2>2, <3>1, <3>3 DEF ScanOwed
  <2>6. CASE ~MoreToScan(cursor[w])
    <3>1. overdue'[w] = {} /\ cursor'[w] = FirstScanned
      BY <1>0, <1>7, <2>6 DEF SkipEmpty, TypeOK
    <3> QED BY <2>1, <2>2, <3>1 DEF ScanOwed
  <2> QED BY <2>5, <2>6
<1>8. ASSUME NEW j \in Jobs,
             \/ SubmitCount(j) \/ SubmitRefused(j) \/ DeadlineExpires(j)
             \/ \E n \in RetryNumbers : RetryWakes(j, n) \/ CountRetry(j, n)
                                        \/ RetryDropped(j, n) \/ RetryAbandoned(j, n)
      PROVE ScanOwed'
  <2>1. UNCHANGED <<chan, priority, cursor, overdue, worker>>
    BY <1>8 DEF SubmitCount, SubmitRefused, DeadlineExpires, RetryWakes, CountRetry,
         RetryDropped, RetryAbandoned
  <2>2. Queued' = Queued
    BY <2>1 DEF Queued, Waiting
  <2> QED BY <2>1, <2>2, ScanFrame
<1>9. ASSUME NEW w \in Workers,
             \/ CountProcessing(w) \/ HandlerReturns(w) \/ CountCompleted(w) \/ CountFailed(w)
             \/ Retry(w) \/ GiveUp(w) \/ Close(w)
             \/ UpdateStats(w) \/ WorkerExit(w)
      PROVE ScanOwed'
  <2>1. UNCHANGED <<chan, priority, cursor, overdue>>
    BY <1>9 DEF CountProcessing, HandlerReturns, CountCompleted, CountFailed, Retry, GiveUp,
         Close, UpdateStats, WorkerExit
  <2>2. Queued' = Queued
    BY <2>1 DEF Queued, Waiting
  <2>3. \A v \in Workers : worker'[v] = "scan" <=> worker[v] = "scan"
    BY <1>0, <1>9 DEF CountProcessing, HandlerReturns, CountCompleted, CountFailed, Retry,
         GiveUp, Close, UpdateStats, WorkerExit, TypeOK
  <2> QED BY <2>1, <2>2, <2>3, ScanFrame
<1>10. CASE PoolStep \/ UNCHANGED vars
  <2>1. UNCHANGED <<chan, priority, cursor, overdue, worker>>
    BY <1>10 DEF PoolStep, CheckScaling, ScaleUp, StopBegin, Shutdown, Report, vars
  <2>2. Queued' = Queued
    BY <2>1 DEF Queued, Waiting
  <2> QED BY <2>1, <2>2, ScanFrame
<1> QED BY <1>1, <1>2, <1>3, <1>4, <1>5, <1>6, <1>7, <1>8, <1>9, <1>10
    DEF Next, CallerStep, WorkerStep, RetrierStep, PoolStep

\* A worker takes no job while one of higher priority has been queued since
\* before its scan began, for any number of workers and priorities, although
\* GetJob looks at one channel after the other (GetJob).
THEOREM ScanTakesHighest == Spec => HighestFirst
<1>1. QueueInv /\ ScanOwed /\ [Next]_vars
        => [\A w \in Workers : worker[w] = "scan" /\ worker'[w] = "taken"
              => \A j \in overdue[w] : priority[j] <= priority[held'[w]]]_vars
  <2> SUFFICES ASSUME QueueInv, ScanOwed, [Next]_vars, NEW w \in Workers,
                      worker[w] = "scan", worker'[w] = "taken", NEW j \in overdue[w]
               PROVE  priority[j] <= priority[held'[w]]
    OBVIOUS
  <2> USE DEF QueueInv, TypeOK
  <2>1. CASE Take(w)
    <3>1. held'[w] = Head(chan[cursor[w]]) /\ cursor[w] \in Priorities /\ chan[cursor[w]] # <<>>
      BY <2>1 DEF Take, Takes
    <3>2. 1 \in DOMAIN chan[cursor[w]] /\ Head(chan[cursor[w]]) = chan[cursor[w]][1]
      BY <3>1
    <3>3. priority[held'[w]] = cursor[w]
      BY <3>1, <3>2 DEF Placed, ChannelsPlaced
    <3> QED BY <3>3 DEF ScanOwed
  <2>2. CASE \E i \in Jobs : TakeParked(w, i)
    BY <2>2 DEF TakeParked, Takes, ScanOwed
  <2>3. CASE ~Take(w) /\ ~\E i \in Jobs : TakeParked(w, i)
    <3>1. \A v \in Workers : Take(v) \/ (\E i \in Jobs : TakeParked(v, i)) => v = w
      BY <2>3 DEF Take, TakeParked, Takes
    <3>2. ~\E v \in Workers : Take(v) \/ \E i \in Jobs : TakeParked(v, i)
      BY <2>3, <3>1
    <3>3. worker'[w] # "taken"
      BY <3>2 DEF Next, CallerStep, WorkerStep, RetrierStep, SubmitBegin, SubmitSend, SubmitCount,
           SubmitRefused, DeadlineExpires, StartScan, SkipEmpty, CountProcessing, HandlerReturns,
           CountCompleted, CountFailed, Retry, GiveUp, Close, UpdateStats, WorkerExit, RetryWakes,
           Resend, CountRetry, RetryDropped, RetryAbandoned, CheckScaling, ScaleUp, StopBegin, Shutdown,
           Report, vars, workerVars
    <3> QED BY <3>3
  <2> QED BY <2>1, <2>2, <2>3
<1> QED BY <1>1, InitQueueInv, NextQueueInv, InitScanOwed, NextScanOwed, PTL DEF Spec, HighestFirst
-----------------------------------------------------------------------------
(* Counters, contexts and unbuffered channels                              *)

\* The goroutines of a job's retries are started in order.
RetriersInOrder == \A j \in Jobs, n \in RetryNumbers : n > retries[j] => retrier[j][n] = "none"

\* A channel never holds more than its capacity, and a job that waits for its
\* first run has not been retried.
WithinCapacity == \A p \in Priorities : Len(chan[p]) <= Capacity[p]
FirstRunFresh ==
  /\ \A j \in Jobs : ~Sent(j) => retries[j] = 0
  /\ \A w \in Workers :
       worker[w] = "taken" /\ Capacity[priority[held[w]]] = 0 => retries[held[w]] = 0

\* A job that has been run, apart from a run it is in, has a context that is
\* over, or a worker is about to cancel it.
Closing(j) == \E w \in Workers : worker[w] = "closing" /\ held[w] = j
InRun(j) == \E w \in Workers : worker[w] \in {"run", "returned", "failed"} /\ held[w] = j
ContextsFollow ==
  \A j \in Jobs : ctx[j] = "live" /\ runs[j] > (IF InRun(j) THEN 1 ELSE 0) => Closing(j)

AtWork == {w \in Workers : worker[w] \in {"run", "returned"}}

GaugesInv == ProcessingGauge /\ GaugeBalance /\ RetriersInOrder
FirstRunsInv == WithinCapacity /\ FirstRunFresh /\ UnbufferedRunsOnce
AccountsInv == GaugesInv /\ PendingDrifts /\ FirstRunsInv /\ ContextsFollow

LEMMA CountsFinite ==
  /\ IsFiniteSet(AtWork) /\ Cardinality(AtWork) \in Nat
  /\ IsFiniteSet(Dropped) /\ Cardinality(Dropped) \in Nat
  /\ IsFiniteSet(Counted) /\ Cardinality(Counted) \in Nat
  /\ IsFiniteSet(Started) /\ Cardinality(Started) \in Nat
<1>1. AtWork \subseteq Workers
  BY DEF AtWork
<1>2. IsFiniteSet(RetryNumbers)
  BY FS_Interval, QueueAssumption DEF RetryNumbers
<1>3. IsFiniteSet(Jobs \X RetryNumbers)
  BY <1>2, FiniteAssumption, FS_Product
<1>4. Dropped \subseteq Jobs \X RetryNumbers /\ Counted \subseteq Jobs \X RetryNumbers
  BY DEF Dropped, Counted
<1>5. IsFiniteSet(Jobs \X (0..MaxRetries))
  <2>1. IsFiniteSet(0..MaxRetries)
    BY FS_Interval, QueueAssumption
  <2> QED BY <2>1, FiniteAssumption, FS_Product
<1>6. Started \subseteq Jobs \X (0..MaxRetries)
  BY DEF Started
<1> QED BY <1>1, <1>3, <1>4, <1>5, <1>6, FiniteAssumption, FS_Subset, FS_CardinalityType

LEMMA InitAccounts == Init => AccountsInv
<1> SUFFICES ASSUME Init PROVE AccountsInv
  OBVIOUS
<1>1. AtWork = {} /\ Dropped = {} /\ Counted = {} /\ Started = {}
  BY DEF Init, AtWork, Dropped, Counted, Started
<1>2. GaugesInv
  <2>1. Cardinality(AtWork) = 0 /\ Cardinality(Dropped) = 0
    BY <1>1, FS_EmptySet
  <2>2. /\ stats.processing = 0 /\ stats.pending = 0 /\ stats.completed = 0
        /\ stats.failed = 0 /\ stats.total = 0
    BY DEF Init
  <2>3. RetriersInOrder
    BY DEF Init, RetriersInOrder
  <2> QED BY <2>1, <2>2, <2>3 DEF GaugesInv, ProcessingGauge, GaugeBalance, AtWork
<1>3. FirstRunsInv
  BY QueueAssumption DEF Init, FirstRunsInv, WithinCapacity, FirstRunFresh, UnbufferedRunsOnce,
     Priorities
<1>4. ContextsFollow
  BY DEF Init, ContextsFollow
<1>5. PendingDrifts
  <2>1. Cardinality(Started) = 0 /\ Cardinality(Counted) = 0 /\ Cardinality(Dropped) = 0
    BY <1>1, FS_EmptySet
  <2>2. stats.pending = 0 /\ stats.total = 0 /\ stats.retrying = 0
    BY DEF Init
  <2> QED BY <2>1, <2>2 DEF PendingDrifts
<1> QED BY <1>2, <1>3, <1>4, <1>5 DEF AccountsInv

\* A step that changes no counter, moves no worker into or out of a run, and
\* drops or spawns no retry.
LEMMA GaugesFrame ==
  ASSUME GaugesInv, UNCHANGED stats, AtWork' = AtWork, Dropped' = Dropped, RetriersInOrder'
  PROVE  GaugesInv'
BY DEF GaugesInv, ProcessingGauge, GaugeBalance, AtWork

LEMMA NextGauges == QueueInv /\ GaugesInv /\ [Next]_vars => GaugesInv'
<1> SUFFICES ASSUME QueueInv, GaugesInv, [Next]_vars PROVE GaugesInv'
  OBVIOUS
<1> USE DEF jobVars, workerVars
<1>0. /\ TypeOK /\ RetriersInOrder
      /\ stats.processing \in Int /\ stats.pending \in Int /\ stats.completed \in Int
      /\ stats.failed \in Int /\ stats.total \in Int
      /\ stats.processing = Cardinality(AtWork)
  BY DEF QueueInv, TypeOK, GaugesInv, ProcessingGauge, AtWork
<1>1. ASSUME NEW j \in Jobs,
             \/ \E p \in Priorities : SubmitBegin(j, p)
             \/ SubmitSend(j) \/ SubmitRefused(j) \/ DeadlineExpires(j)
      PROVE  GaugesInv'
  <2>1. UNCHANGED <<stats, worker, retries, retrier>>
    BY <1>1 DEF SubmitBegin, SubmitSend, SubmitRefused, DeadlineExpires
  <2> QED BY <1>0, <2>1, GaugesFrame DEF AtWork, Dropped, RetriersInOrder
<1>2. ASSUME NEW j \in Jobs, SubmitCount(j) PROVE GaugesInv'
  <2>1. /\ stats' = [stats EXCEPT !["total"] = @ + 1, !["pending"] = @ + 1]
        /\ UNCHANGED <<worker, retries, retrier>>
    BY <1>0, <1>2 DEF SubmitCount, OnSubmitted, Add, TypeOK
  <2>2. AtWork' = AtWork /\ Dropped' = Dropped /\ RetriersInOrder'
    BY <1>0, <2>1 DEF AtWork, Dropped, RetriersInOrder
  <2>3. /\ stats'.total = stats.total + 1 /\ stats'.pending = stats.pending + 1
        /\ stats'.processing = stats.processing /\ stats'.completed = stats.completed
        /\ stats'.failed = stats.failed
    BY <1>0, <2>1 DEF TypeOK
  <2>4. ProcessingGauge'
    BY <1>0, <2>2, <2>3 DEF ProcessingGauge, AtWork
  <2>5. GaugeBalance'
    BY <1>0, <2>2, <2>3, CountsFinite DEF GaugesInv, GaugeBalance
  <2> QED BY <2>2, <2>4, <2>5 DEF GaugesInv
<1>3. ASSUME NEW w \in Workers,
             \/ StartScan(w) \/ Take(w) \/ SkipEmpty(w) \/ (\E j \in Jobs : TakeParked(w, j))
             \/ HandlerReturns(w) \/ GiveUp(w) \/ Close(w)
             \/ UpdateStats(w) \/ WorkerExit(w)
      PROVE  GaugesInv'
  <2>1. UNCHANGED <<stats, retries, retrier>>
    BY <1>3 DEF StartScan, Take, SkipEmpty, TakeParked, Takes, HandlerReturns, GiveUp, Close,
         UpdateStats, WorkerExit
  <2>2. \A v \in Workers : worker'[v] \in {"run", "returned"} <=> worker[v] \in {"run", "returned"}
    BY <1>0, <1>3 DEF StartScan, Take, SkipEmpty, TakeParked, Takes, HandlerReturns, GiveUp, Close,
         UpdateStats, WorkerExit, TypeOK
  <2>3. AtWork' = AtWork
    BY <2>2 DEF AtWork
  <2> QED BY <1>0, <2>1, <2>3, GaugesFrame DEF Dropped, RetriersInOrder
<1>4. ASSUME NEW w \in Workers, CountProcessing(w) PROVE GaugesInv'
  <2>1. /\ stats' = [stats EXCEPT !["pending"] = @ - 1, !["processing"] = @ + 1]
        /\ UNCHANGED <<retries, retrier>>
    BY <1>0, <1>4 DEF CountProcessing, OnProcessing, Add, TypeOK
  <2>2. AtWork' = AtWork \cup {w} /\ w \notin AtWork
    BY <1>0, <1>4 DEF CountProcessing, AtWork, TypeOK
  <2>3. Dropped' = Dropped /\ RetriersInOrder'
    BY <1>0, <2>1 DEF Dropped, RetriersInOrder
  <2>4. Cardinality(AtWork') = Cardinality(AtWork) + 1
    BY <2>2, CountsFinite, FS_AddElement
  <2>5. /\ stats'.total = stats.total /\ stats'.pending = stats.pending - 1
        /\ stats'.processing = stats.processing + 1 /\ stats'.completed = stats.completed
        /\ stats'.failed = stats.failed
    BY <1>0, <2>1 DEF TypeOK
  <2>6. ProcessingGauge'
    BY <1>0, <2>4, <2>5 DEF ProcessingGauge, AtWork
  <2>7. GaugeBalance'
    <3>1. stats'.pending + stats'.processing + stats'.completed + stats'.failed
            = stats.pending + stats.processing + stats.completed + stats.failed
      BY <1>0, <2>5
    <3> QED BY <2>3, <2>5, <3>1 DEF GaugesInv, GaugeBalance
  <2> QED BY <2>3, <2>6, <2>7 DEF GaugesInv
<1>5. ASSUME NEW w \in Workers, CountCompleted(w) \/ CountFailed(w) PROVE GaugesInv'
  <2>1. /\ \/ stats' = [stats EXCEPT !["processing"] = @ - 1, !["completed"] = @ + 1]
           \/ stats' = [stats EXCEPT !["processing"] = @ - 1, !["failed"] = @ + 1]
        /\ UNCHANGED <<retries, retrier>>
    BY <1>0, <1>5 DEF CountCompleted, CountFailed, OnCompleted, OnFailed, Add, TypeOK
  <2>2. AtWork' = AtWork \ {w} /\ w \in AtWork
    BY <1>0, <1>5 DEF CountCompleted, CountFailed, AtWork, TypeOK
  <2>3. Dropped' = Dropped /\ RetriersInOrder'
    BY <1>0, <2>1 DEF Dropped, RetriersInOrder
  <2>4. Cardinality(AtWork') = Cardinality(AtWork) - 1
    BY <2>2, CountsFinite, FS_RemoveElement
  <2>5. /\ stats'.total = stats.total /\ stats'.pending = stats.pending
        /\ stats'.processing = stats.processing - 1
        /\ \/ stats'.completed = stats.completed + 1 /\ stats'.failed = stats.failed
           \/ stats'.completed = stats.completed /\ stats'.failed = stats.failed + 1
    <3>1. stats \in [{"total", "pending", "processing", "completed", "failed", "retrying"} -> Int]
      BY <1>0 DEF TypeOK
    <3>2. CASE stats' = [stats EXCEPT !["processing"] = @ - 1, !["completed"] = @ + 1]
      BY <3>1, <3>2
    <3>3. CASE stats' = [stats EXCEPT !["processing"] = @ - 1, !["failed"] = @ + 1]
      BY <3>1, <3>3
    <3> QED BY <2>1, <3>2, <3>3
  <2>6. ProcessingGauge'
    BY <1>0, <2>4, <2>5 DEF ProcessingGauge, AtWork
  <2>7. GaugeBalance'
    <3>1. CASE stats'.completed = stats.completed + 1 /\ stats'.failed = stats.failed
      BY <1>0, <2>3, <2>5, <3>1, CountsFinite DEF GaugesInv, GaugeBalance
    <3>2. CASE stats'.completed = stats.completed /\ stats'.failed = stats.failed + 1
      BY <1>0, <2>3, <2>5, <3>2, CountsFinite DEF GaugesInv, GaugeBalance
    <3> QED BY <2>5, <3>1, <3>2
  <2> QED BY <2>3, <2>6, <2>7 DEF GaugesInv
<1>6. ASSUME NEW w \in Workers, Retry(w) PROVE GaugesInv'
  <2> DEFINE j == held[w]
  <2>1. j \in Jobs
    BY <1>6, OwnerTypes DEF Retry, Holding
  <2>2. /\ retries' = [retries EXCEPT ![j] = @ + 1] /\ retries[j] < MaxRetries
        /\ retrier' = [retrier EXCEPT ![j][retries[j] + 1] = "waiting"]
        /\ worker[w] = "failed" /\ worker' = [worker EXCEPT ![w] = "closing"] /\ UNCHANGED stats
    BY <1>6 DEF Retry, MayRetry
  <2> HIDE DEF j
  <2>3. retries[j] + 1 \in RetryNumbers /\ retries[j] \in Nat
    BY <1>0, <2>1, <2>2, RetryNumberType DEF TypeOK
  <2>4. retrier[j][retries[j] + 1] = "none"
    BY <1>0, <2>1, <2>3 DEF RetriersInOrder
  <2>5. /\ \A i \in Jobs \ {j} : retrier'[i] = retrier[i] /\ retries'[i] = retries[i]
        /\ \A n \in RetryNumbers \ {retries[j] + 1} : retrier'[j][n] = retrier[j][n]
        /\ retrier'[j][retries[j] + 1] = "waiting" /\ retries'[j] = retries[j] + 1
    BY <1>0, <2>1, <2>2, <2>3 DEF TypeOK
  <2>6. \A i \in Jobs, n \in RetryNumbers :
          retrier'[i][n] = "dropped" <=> retrier[i][n] = "dropped"
    BY <2>4, <2>5
  <2>7. Dropped' = Dropped
    BY <2>6 DEF Dropped
  <2>8. RetriersInOrder'
    <3> SUFFICES ASSUME NEW i \in Jobs, NEW n \in RetryNumbers, n > retries'[i]
                 PROVE  retrier'[i][n] = "none"
      BY DEF RetriersInOrder
    <3>1. CASE i = j
      <4>1. n \in Int /\ n > retries[j] /\ n # retries[j] + 1
        BY <2>3, <2>5, <3>1 DEF RetryNumbers
      <4> QED BY <1>0, <2>1, <2>5, <3>1, <4>1 DEF RetriersInOrder
    <3>2. CASE i # j
      BY <1>0, <2>5, <3>2 DEF RetriersInOrder
    <3> QED BY <3>1, <3>2
  <2>9. AtWork' = AtWork
    BY <1>0, <2>2 DEF AtWork, TypeOK
  <2> QED BY <2>2, <2>7, <2>8, <2>9, GaugesFrame
<1>7. ASSUME NEW j \in Jobs, NEW n \in RetryNumbers,
             RetryWakes(j, n) \/ Resend(j, n) \/ CountRetry(j, n) \/ RetryAbandoned(j, n)
      PROVE  GaugesInv'
  <2>1. /\ retrier[j][n] \in {"waiting", "awake", "sent"}
        /\ retrier'[j][n] \in {"awake", "sent", "counted", "abandoned"}
        /\ \A i \in Jobs, m \in RetryNumbers : i # j \/ m # n => retrier'[i][m] = retrier[i][m]
        /\ UNCHANGED <<worker, retries>>
    BY <1>0, <1>7 DEF RetryWakes, Resend, CountRetry, RetryAbandoned, TypeOK
  <2>2. AtWork' = AtWork
    BY <2>1 DEF AtWork
  <2>3. \A i \in Jobs, m \in RetryNumbers :
          retrier'[i][m] = "dropped" <=> retrier[i][m] = "dropped"
    BY <2>1
  <2>4. Dropped' = Dropped
    BY <2>3 DEF Dropped
  <2>5. RetriersInOrder'
    BY <1>0, <2>1 DEF RetriersInOrder
  <2>6. /\ stats'.total = stats.total /\ stats'.pending = stats.pending
        /\ stats'.processing = stats.processing /\ stats'.completed = stats.completed
        /\ stats'.failed = stats.failed
    BY <1>0, <1>7 DEF RetryWakes, Resend, CountRetry, RetryAbandoned, OnRetryScheduled, Add, TypeOK
  <2>7. ProcessingGauge' /\ GaugeBalance'
    BY <1>0, <2>2, <2>4, <2>6 DEF GaugesInv, ProcessingGauge, GaugeBalance, AtWork
  <2> QED BY <2>5, <2>7 DEF GaugesInv
<1>8. ASSUME NEW j \in Jobs, NEW n \in RetryNumbers, RetryDropped(j, n) PROVE GaugesInv'
  <2>1. /\ retrier[j][n] = "awake" /\ retrier'[j][n] = "dropped"
        /\ \A i \in Jobs, m \in RetryNumbers : i # j \/ m # n => retrier'[i][m] = retrier[i][m]
        /\ UNCHANGED <<worker, retries>>
    BY <1>0, <1>8 DEF RetryDropped, TypeOK
  <2>2. Dropped' = Dropped \cup {<<j, n>>} /\ <<j, n>> \notin Dropped
    BY <2>1 DEF Dropped
  <2>3. Cardinality(Dropped') = Cardinality(Dropped) + 1
    BY <2>2, CountsFinite, FS_AddElement
  <2>4. AtWork' = AtWork
    BY <2>1 DEF AtWork
  <2>5. RetriersInOrder'
    BY <1>0, <2>1 DEF RetriersInOrder
  <2>6. /\ stats'.total = stats.total /\ stats'.pending = stats.pending
        /\ stats'.processing = stats.processing /\ stats'.completed = stats.completed
        /\ stats'.failed = stats.failed + 1
    BY <1>0, <1>8 DEF RetryDropped, OnRetryFailed, Add, TypeOK
  <2>7. ProcessingGauge'
    BY <1>0, <2>4, <2>6 DEF ProcessingGauge, AtWork
  <2>8. GaugeBalance'
    BY <1>0, <2>3, <2>6, CountsFinite DEF GaugesInv, GaugeBalance
  <2> QED BY <2>5, <2>7, <2>8 DEF GaugesInv
<1>9. CASE PoolStep \/ UNCHANGED vars
  <2>1. UNCHANGED <<stats, worker, retries, retrier>>
    BY <1>9 DEF PoolStep, CheckScaling, ScaleUp, StopBegin, Shutdown, Report, vars
  <2> QED BY <1>0, <2>1, GaugesFrame DEF AtWork, Dropped, RetriersInOrder
<1> QED BY <1>1, <1>2, <1>3, <1>4, <1>5, <1>6, <1>7, <1>8, <1>9
    DEF Next, CallerStep, WorkerStep, RetrierStep, PoolStep
\* Started grows with each run, Counted and Dropped with the retries sent and
\* refused, and no other step touches the three gauges or the three sets.
LEMMA NextDrifts ==
  QueueInv /\ RetriersInOrder /\ PendingDrifts /\ [Next]_vars => PendingDrifts'
<1> SUFFICES ASSUME QueueInv, RetriersInOrder, PendingDrifts, [Next]_vars PROVE PendingDrifts'
  OBVIOUS
<1> USE DEF jobVars, workerVars
<1>0. /\ TypeOK /\ RunsCounted
      /\ stats.total \in Int /\ stats.pending \in Int /\ stats.retrying \in Int
      /\ stats.pending = stats.total - Cardinality(Started)
      /\ stats.retrying = Cardinality(Counted) - Cardinality(Dropped)
  BY DEF QueueInv, TypeOK, PendingDrifts
<1>f. ASSUME /\ stats'.total = stats.total /\ stats'.pending = stats.pending
             /\ stats'.retrying = stats.retrying
             /\ UNCHANGED runs /\ Counted' = Counted /\ Dropped' = Dropped
      PROVE  PendingDrifts'
  <2>1. Started' = Started
    BY <1>f DEF Started
  <2> QED BY <1>0, <1>f, <2>1 DEF PendingDrifts
<1>1. ASSUME NEW j \in Jobs,
             \/ \E p \in Priorities : SubmitBegin(j, p)
             \/ SubmitSend(j) \/ SubmitRefused(j) \/ DeadlineExpires(j)
      PROVE  PendingDrifts'
  <2>1. UNCHANGED <<stats, runs, retrier>>
    BY <1>1 DEF SubmitBegin, SubmitSend, SubmitRefused, DeadlineExpires
  <2> QED BY <1>f, <2>1 DEF Counted, Dropped
<1>2. ASSUME NEW j \in Jobs, SubmitCount(j) PROVE PendingDrifts'
  <2>1. /\ stats'.total = stats.total + 1 /\ stats'.pending = stats.pending + 1
        /\ stats'.retrying = stats.retrying /\ UNCHANGED <<runs, retrier>>
    BY <1>0, <1>2 DEF SubmitCount, OnSubmitted, Add, TypeOK
  <2>2. Started' = Started /\ Counted' = Counted /\ Dropped' = Dropped
    BY <2>1 DEF Started, Counted, Dropped
  <2> QED BY <1>0, <2>1, <2>2, CountsFinite DEF PendingDrifts
<1>3. ASSUME NEW w \in Workers,
             \/ StartScan(w) \/ Take(w) \/ SkipEmpty(w) \/ (\E j \in Jobs : TakeParked(w, j))
             \/ HandlerReturns(w) \/ GiveUp(w) \/ Close(w) \/ UpdateStats(w) \/ WorkerExit(w)
      PROVE  PendingDrifts'
  <2>1. UNCHANGED <<stats, runs, retrier>>
    BY <1>3 DEF StartScan, Take, SkipEmpty, TakeParked, Takes, HandlerReturns, GiveUp, Close,
         UpdateStats, WorkerExit
  <2> QED BY <1>f, <2>1 DEF Counted, Dropped
<1>4. ASSUME NEW w \in Workers, CountCompleted(w) \/ CountFailed(w) PROVE PendingDrifts'
  <2>1. /\ stats'.total = stats.total /\ stats'.pending = stats.pending
        /\ stats'.retrying = stats.retrying /\ UNCHANGED <<runs, retrier>>
    BY <1>0, <1>4 DEF CountCompleted, CountFailed, OnCompleted, OnFailed, Add, TypeOK
  <2> QED BY <1>f, <2>1 DEF Counted, Dropped
<1>5. ASSUME NEW w \in Workers, CountProcessing(w) PROVE PendingDrifts'
  <2> DEFINE j == held[w]
  <2>1. /\ worker[w] = "taken" /\ runs' = [runs EXCEPT ![j] = @ + 1] /\ UNCHANGED retrier
        /\ stats'.total = stats.total /\ stats'.pending = stats.pending - 1
        /\ stats'.retrying = stats.retrying
    BY <1>0, <1>5 DEF CountProcessing, OnProcessing, Add, TypeOK
  <2>2. j \in Jobs /\ runs[j] = retries[j] /\ runs[j] \in 0..MaxRetries /\ runs[j] \in Nat
    <3>1. j \in Jobs
      BY <2>1, OwnerTypes DEF Holding
    <3> QED BY <1>0, <2>1, <3>1 DEF RunsCounted, TypeOK
  <2> HIDE DEF j
  <2>3. runs'[j] = runs[j] + 1 /\ \A i \in Jobs \ {j} : runs'[i] = runs[i]
    BY <1>0, <2>1, <2>2 DEF TypeOK
  <2>4. <<j, runs[j]>> \notin Started
    BY <2>2 DEF Started
  <2>5. Started' = Started \cup {<<j, runs[j]>>}
    <3>1. ASSUME NEW i \in Jobs, NEW n \in 0..MaxRetries
          PROVE  n < runs'[i] <=> n < runs[i] \/ (i = j /\ n = runs[j])
      <4>1. n \in Nat /\ runs[i] \in Nat
        BY <1>0, QueueAssumption DEF TypeOK
      <4> QED BY <2>2, <2>3, <4>1
    <3>2. \A a \in Jobs \X (0..MaxRetries) :
            a \in Started' <=> a \in Started \/ a = <<j, runs[j]>>
      BY <3>1 DEF Started
    <3>3. <<j, runs[j]>> \in Jobs \X (0..MaxRetries)
      BY <2>2
    <3> QED BY <3>2, <3>3 DEF Started
  <2>6. Cardinality(Started') = Cardinality(Started) + 1
    BY <2>4, <2>5, CountsFinite, FS_AddElement
  <2>7. Counted' = Counted /\ Dropped' = Dropped
    BY <2>1 DEF Counted, Dropped
  <2> QED BY <1>0, <2>1, <2>6, <2>7, CountsFinite DEF PendingDrifts
<1>6. ASSUME NEW w \in Workers, Retry(w) PROVE PendingDrifts'
  <2> DEFINE j == held[w]
  <2>1. /\ UNCHANGED <<stats, runs>> /\ retries[j] < MaxRetries
        /\ retrier' = [retrier EXCEPT ![j][retries[j] + 1] = "waiting"]
    BY <1>6 DEF Retry, MayRetry
  <2>2. j \in Jobs
    BY <1>6, OwnerTypes DEF Retry, Holding
  <2> HIDE DEF j
  <2>3. retries[j] + 1 \in RetryNumbers /\ retries[j] \in Nat
    BY <1>0, <2>1, <2>2, RetryNumberType DEF TypeOK
  <2>4. retrier[j][retries[j] + 1] = "none"
    BY <2>2, <2>3 DEF RetriersInOrder
  <2>5. \A i \in Jobs, n \in RetryNumbers :
          \/ retrier'[i][n] = retrier[i][n]
          \/ retrier[i][n] = "none" /\ retrier'[i][n] = "waiting"
    BY <1>0, <2>1, <2>2, <2>3, <2>4 DEF TypeOK
  <2>6. Counted' = Counted /\ Dropped' = Dropped
    <3>1. \A i \in Jobs, n \in RetryNumbers :
            /\ retrier'[i][n] = "counted" <=> retrier[i][n] = "counted"
            /\ retrier'[i][n] = "dropped" <=> retrier[i][n] = "dropped"
      BY <2>5
    <3> QED BY <3>1 DEF Counted, Dropped
  <2> QED BY <1>f, <2>1, <2>6
<1>7. ASSUME NEW j \in Jobs, NEW n \in RetryNumbers,
             RetryWakes(j, n) \/ Resend(j, n) \/ RetryAbandoned(j, n)
      PROVE  PendingDrifts'
  <2>1. /\ retrier[j][n] \in {"waiting", "awake"}
        /\ retrier'[j][n] \in {"awake", "sent", "abandoned"}
        /\ \A i \in Jobs, m \in RetryNumbers : i # j \/ m # n => retrier'[i][m] = retrier[i][m]
        /\ UNCHANGED <<stats, runs>>
    BY <1>0, <1>7 DEF RetryWakes, Resend, RetryAbandoned, TypeOK
  <2>2. \A i \in Jobs, m \in RetryNumbers :
          /\ retrier'[i][m] = "counted" <=> retrier[i][m] = "counted"
          /\ retrier'[i][m] = "dropped" <=> retrier[i][m] = "dropped"
    BY <2>1
  <2>3. Counted' = Counted /\ Dropped' = Dropped
    BY <2>2 DEF Counted, Dropped
  <2> QED BY <1>f, <2>1, <2>3
<1>8. ASSUME NEW j \in Jobs, NEW n \in RetryNumbers, CountRetry(j, n) PROVE PendingDrifts'
  <2>1. /\ retrier[j][n] = "sent" /\ retrier'[j][n] = "counted"
        /\ \A i \in Jobs, m \in RetryNumbers : i # j \/ m # n => retrier'[i][m] = retrier[i][m]
        /\ UNCHANGED runs
    BY <1>0, <1>8 DEF CountRetry, TypeOK
  <2>2. Counted' = Counted \cup {<<j, n>>} /\ <<j, n>> \notin Counted
    BY <2>1 DEF Counted
  <2>3. Cardinality(Counted') = Cardinality(Counted) + 1
    BY <2>2, CountsFinite, FS_AddElement
  <2>4. Dropped' = Dropped /\ Started' = Started
    BY <2>1 DEF Dropped, Started
  <2>5. /\ stats'.total = stats.total /\ stats'.pending = stats.pending
        /\ stats'.retrying = stats.retrying + 1
    BY <1>0, <1>8 DEF CountRetry, OnRetryScheduled, Add, TypeOK
  <2> QED BY <1>0, <2>3, <2>4, <2>5, CountsFinite DEF PendingDrifts
<1>9. ASSUME NEW j \in Jobs, NEW n \in RetryNumbers, RetryDropped(j, n) PROVE PendingDrifts'
  <2>1. /\ retrier[j][n] = "awake" /\ retrier'[j][n] = "dropped"
        /\ \A i \in Jobs, m \in RetryNumbers : i # j \/ m # n => retrier'[i][m] = retrier[i][m]
        /\ UNCHANGED runs
    BY <1>0, <1>9 DEF RetryDropped, TypeOK
  <2>2. Dropped' = Dropped \cup {<<j, n>>} /\ <<j, n>> \notin Dropped
    BY <2>1 DEF Dropped
  <2>3. Cardinality(Dropped') = Cardinality(Dropped) + 1
    BY <2>2, CountsFinite, FS_AddElement
  <2>4. Counted' = Counted /\ Started' = Started
    BY <2>1 DEF Counted, Started
  <2>5. /\ stats'.total = stats.total /\ stats'.pending = stats.pending
        /\ stats'.retrying = stats.retrying - 1
    BY <1>0, <1>9 DEF RetryDropped, OnRetryFailed, Add, TypeOK
  <2> QED BY <1>0, <2>3, <2>4, <2>5, CountsFinite DEF PendingDrifts
<1>10. CASE PoolStep \/ UNCHANGED vars
  <2>1. UNCHANGED <<stats, runs, retrier>>
    BY <1>10 DEF PoolStep, CheckScaling, ScaleUp, StopBegin, Shutdown, Report, vars
  <2> QED BY <1>f, <2>1 DEF Counted, Dropped
<1> QED BY <1>1, <1>2, <1>3, <1>4, <1>5, <1>6, <1>7, <1>8, <1>9, <1>10
    DEF Next, CallerStep, WorkerStep, RetrierStep, PoolStep

\* On an unbuffered channel a job is only ever handed over by its caller.
LEMMA NextFirstRuns == QueueInv /\ FirstRunsInv /\ [Next]_vars => FirstRunsInv'
<1> SUFFICES ASSUME QueueInv, FirstRunsInv, [Next]_vars PROVE FirstRunsInv'
  OBVIOUS
<1> USE DEF jobVars, workerVars
<1>0. /\ TypeOK /\ Placed /\ RunsCounted /\ WithinCapacity /\ FirstRunFresh /\ UnbufferedRunsOnce
      /\ \A p \in Priorities : Capacity[p] \in Nat /\ Len(chan[p]) \in Nat
  BY QueueAssumption DEF QueueInv, TypeOK, FirstRunsInv
<1>f. ASSUME UNCHANGED <<chan, priority, retries, runs>>, \A j \in Jobs : Sent(j) => Sent(j)',
             \A w \in Workers : worker'[w] = "taken" => worker[w] = "taken" /\ held'[w] = held[w]
      PROVE  FirstRunsInv'
  BY <1>0, <1>f DEF FirstRunsInv, WithinCapacity, FirstRunFresh, UnbufferedRunsOnce
<1>1. ASSUME NEW j \in Jobs, NEW p \in Priorities, SubmitBegin(j, p) PROVE FirstRunsInv'
  <2>1. /\ ~Sent(j) /\ UNCHANGED <<chan, retries, runs, worker, held>>
        /\ \A i \in Jobs : Sent(i)' <=> Sent(i)
        /\ \A i \in Jobs \ {j} : priority'[i] = priority[i]
    BY <1>0, <1>1 DEF SubmitBegin, Sent, TypeOK
  <2>2. runs[j] = 0
    BY <1>0, <2>1 DEF RunsCounted, FirstRunFresh
  <2>3. \A w \in Workers : worker[w] = "taken" => held[w] \in Jobs \ {j}
    BY <1>0, <2>1, OwnerTypes DEF Placed, Holding
  <2> QED BY <1>0, <2>1, <2>2, <2>3
      DEF FirstRunsInv, WithinCapacity, FirstRunFresh, UnbufferedRunsOnce
<1>2. ASSUME NEW j \in Jobs, HasRoom(priority[j]),
             chan' = [chan EXCEPT ![priority[j]] = Append(@, j)],
             UNCHANGED <<priority, retries, runs, worker, held>>, \A i \in Jobs : Sent(i) => Sent(i)'
      PROVE  FirstRunsInv'
  <2>1. WithinCapacity'
    <3>1. priority[j] \in Priorities /\ chan[priority[j]] \in Seq(Jobs)
      BY <1>0 DEF TypeOK
    <3>2. Len(chan'[priority[j]]) = Len(chan[priority[j]]) + 1
      BY <1>0, <1>2, <3>1 DEF TypeOK
    <3>3. \A p \in Priorities \ {priority[j]} : chan'[p] = chan[p]
      BY <1>0, <1>2 DEF TypeOK
    <3> QED BY <1>0, <1>2, <3>1, <3>2, <3>3 DEF WithinCapacity, HasRoom
  <2> QED BY <1>0, <1>2, <2>1 DEF FirstRunsInv, FirstRunFresh, UnbufferedRunsOnce
<1>3. ASSUME NEW j \in Jobs, SubmitSend(j) PROVE FirstRunsInv'
  <2>1. \A i \in Jobs : Sent(i) => Sent(i)'
    BY <1>0, <1>3 DEF SubmitSend, Sent, TypeOK
  <2> QED BY <1>2, <1>3, <2>1 DEF SubmitSend
<1>4. ASSUME NEW j \in Jobs, NEW n \in RetryNumbers, Resend(j, n) PROVE FirstRunsInv'
  BY <1>2, <1>4 DEF Resend, Sent
<1>5. ASSUME NEW w \in Workers, Take(w) PROVE FirstRunsInv'
  <2> DEFINE j == Head(chan[cursor[w]])
  <2>1. /\ cursor[w] \in Priorities /\ chan[cursor[w]] \in Seq(Jobs) /\ chan[cursor[w]] # <<>>
        /\ chan' = [chan EXCEPT ![cursor[w]] = Tail(@)]
        /\ worker' = [worker EXCEPT ![w] = "taken"] /\ held' = [held EXCEPT ![w] = j]
        /\ UNCHANGED <<priority, retries, runs, caller>>
    BY <1>0, <1>5 DEF Take, Takes, TypeOK
  <2>2. 1 \in DOMAIN chan[cursor[w]] /\ j = chan[cursor[w]][1] /\ Len(chan[cursor[w]]) > 0
    BY <2>1
  <2>3. priority[j] = cursor[w]
    BY <1>0, <2>1, <2>2 DEF Placed, ChannelsPlaced
  <2>4. Capacity[priority[j]] # 0
    BY <1>0, <2>1, <2>2, <2>3 DEF WithinCapacity
  <2>5. WithinCapacity'
    <3>1. Len(chan'[cursor[w]]) = Len(chan[cursor[w]]) - 1
      BY <1>0, <2>1 DEF TypeOK
    <3>2. \A p \in Priorities \ {cursor[w]} : chan'[p] = chan[p]
      BY <1>0, <2>1 DEF TypeOK
    <3> QED BY <1>0, <2>1, <3>1, <3>2 DEF WithinCapacity
  <2> HIDE DEF j
  <2>6. \A v \in Workers : worker'[v] = "taken" /\ Capacity[priority[held'[v]]] = 0
                             => retries[held'[v]] = 0
    BY <1>0, <2>1, <2>4 DEF FirstRunFresh, TypeOK
  <2>7. \A i \in Jobs : Sent(i)' <=> Sent(i)
    BY <2>1 DEF Sent
  <2> QED BY <1>0, <2>1, <2>5, <2>6, <2>7 DEF FirstRunsInv, FirstRunFresh, UnbufferedRunsOnce
<1>6. ASSUME NEW w \in Workers, NEW j \in Jobs, TakeParked(w, j) PROVE FirstRunsInv'
  <2>1. /\ worker' = [worker EXCEPT ![w] = "taken"] /\ held' = [held EXCEPT ![w] = j]
        /\ UNCHANGED <<chan, priority, retries, runs>> /\ ~Sent(j)
        /\ \A i \in Jobs : Sent(i) => Sent(i)'
    BY <1>0, <1>6 DEF TakeParked, Takes, Sent, TypeOK
  <2>2. retries[j] = 0
    BY <1>0, <2>1 DEF FirstRunFresh
  <2>3. \A v \in Workers : worker'[v] = "taken" /\ Capacity[priority[held'[v]]] = 0
                             => retries[held'[v]] = 0
    BY <1>0, <2>1, <2>2 DEF FirstRunFresh, TypeOK
  <2> QED BY <1>0, <2>1, <2>3
      DEF FirstRunsInv, WithinCapacity, FirstRunFresh, UnbufferedRunsOnce
<1>7. ASSUME NEW w \in Workers, CountProcessing(w) PROVE FirstRunsInv'
  <2>1. /\ worker[w] = "taken" /\ worker' = [worker EXCEPT ![w] = "run"]
        /\ runs' = [runs EXCEPT ![held[w]] = @ + 1]
        /\ UNCHANGED <<chan, priority, retries, held, caller>>
    BY <1>7 DEF CountProcessing
  <2>2. held[w] \in Jobs /\ runs[held[w]] = retries[held[w]] /\ runs[held[w]] \in Nat
    BY <1>0, <2>1, OwnerTypes DEF Holding, RunsCounted, TypeOK
  <2>3. \A i \in Jobs : runs'[i] = IF i = held[w] THEN runs[i] + 1 ELSE runs[i]
    BY <1>0, <2>1, <2>2 DEF TypeOK
  <2>4. Capacity[priority[held[w]]] = 0 => runs[held[w]] = 0
    BY <1>0, <2>1, <2>2 DEF FirstRunFresh
  <2>5. UnbufferedRunsOnce'
    BY <1>0, <2>1, <2>3, <2>4 DEF UnbufferedRunsOnce
  <2>6. FirstRunFresh'
    BY <1>0, <2>1 DEF FirstRunFresh, Sent, TypeOK
  <2> QED BY <1>0, <2>1, <2>5, <2>6 DEF FirstRunsInv, WithinCapacity
<1>8. ASSUME NEW w \in Workers, Retry(w) PROVE FirstRunsInv'
  <2> DEFINE j == held[w]
  <2>1. /\ worker[w] = "failed" /\ worker' = [worker EXCEPT ![w] = "closing"]
        /\ retries' = [retries EXCEPT ![j] = @ + 1]
        /\ UNCHANGED <<chan, priority, runs, held, caller>>
    BY <1>8 DEF Retry
  <2>2. w \in Holding /\ j \in Jobs /\ Sent(j) /\ \A v \in Holding : v # w => held[v] # j
    BY <1>0, <2>1, OwnerTypes DEF Holding, Placed, QueueInv, SingleOwner, HoldersApart
  <2> HIDE DEF j
  <2>3. \A i \in Jobs \ {j} : retries'[i] = retries[i]
    BY <1>0, <2>1 DEF TypeOK
  <2>4. \A v \in Workers : worker'[v] = "taken" => v # w /\ worker[v] = "taken" /\ v \in Holding
    BY <1>0, <2>1 DEF TypeOK, Holding
  <2>5. \A v \in Workers : worker'[v] = "taken" => held[v] \in Jobs \ {j}
    BY <2>2, <2>4, OwnerTypes
  <2>6. FirstRunFresh'
    BY <1>0, <2>1, <2>2, <2>3, <2>4, <2>5 DEF FirstRunFresh, Sent
  <2> QED BY <1>0, <2>1, <2>6 DEF FirstRunsInv, WithinCapacity, UnbufferedRunsOnce
<1>9. ASSUME NEW j \in Jobs,
             \/ SubmitCount(j) \/ SubmitRefused(j) \/ DeadlineExpires(j)
             \/ \E n \in RetryNumbers : RetryWakes(j, n) \/ CountRetry(j, n)
                                        \/ RetryDropped(j, n) \/ RetryAbandoned(j, n)
      PROVE FirstRunsInv'
  <2>1. UNCHANGED <<chan, priority, retries, runs, worker, held>>
    BY <1>9 DEF SubmitCount, SubmitRefused, DeadlineExpires, RetryWakes, CountRetry,
         RetryDropped, RetryAbandoned
  <2>2. \A i \in Jobs : Sent(i) => Sent(i)'
    BY <1>0, <1>9 DEF SubmitCount, SubmitRefused, DeadlineExpires, RetryWakes, CountRetry,
         RetryDropped, RetryAbandoned, Sent, TypeOK
  <2> QED BY <1>f, <2>1, <2>2
<1>10. ASSUME NEW w \in Workers,
              \/ StartScan(w) \/ SkipEmpty(w) \/ HandlerReturns(w) \/ CountCompleted(w)
              \/ CountFailed(w) \/ GiveUp(w) \/ Close(w) \/ UpdateStats(w)
              \/ WorkerExit(w)
       PROVE FirstRunsInv'
  <2>1. UNCHANGED <<chan, priority, retries, runs, caller>>
    BY <1>10 DEF StartScan, SkipEmpty, HandlerReturns, CountCompleted, CountFailed, GiveUp, Close,
         UpdateStats, WorkerExit
  <2>2. \A v \in Workers : worker'[v] = "taken" => worker[v] = "taken" /\ held'[v] = held[v]
    BY <1>0, <1>10 DEF StartScan, SkipEmpty, HandlerReturns, CountCompleted, CountFailed, GiveUp,
         Close, UpdateStats, WorkerExit, TypeOK
  <2> QED BY <1>f, <2>1, <2>2 DEF Sent
<1>11. CASE PoolStep \/ UNCHANGED vars
  <2>1. UNCHANGED <<chan, priority, retries, runs, caller, worker, held>>
    BY <1>11 DEF PoolStep, CheckScaling, ScaleUp, StopBegin, Shutdown, Report, vars
  <2> QED BY <1>f, <2>1 DEF Sent
<1> QED BY <1>1, <1>3, <1>4, <1>5, <1>6, <1>7, <1>8, <1>9, <1>10, <1>11
    DEF Next, CallerStep, WorkerStep, RetrierStep, PoolStep
\* Only SubmitJob makes a context, and job.cancel() follows every run.
LEMMA NextContexts == QueueInv /\ FirstRunsInv /\ ContextsFollow /\ [Next]_vars => ContextsFollow'
<1> SUFFICES ASSUME QueueInv, FirstRunsInv, ContextsFollow, [Next]_vars PROVE ContextsFollow'
  OBVIOUS
<1> USE DEF jobVars, workerVars
<1>0. /\ TypeOK /\ Placed /\ RunsCounted /\ FirstRunFresh
      /\ \A j \in Jobs : runs[j] \in Nat
      /\ NoJob \notin Jobs
  BY NoJobAssumption DEF QueueInv, TypeOK, FirstRunsInv
<1>f. ASSUME UNCHANGED runs, \A j \in Jobs : ctx'[j] = "live" => ctx[j] = "live",
             \A w \in Workers :
               /\ worker[w] \in {"run", "returned", "failed"} =>
                    /\ worker'[w] \in {"run", "returned", "failed", "closing"}
                    /\ held'[w] = held[w]
               /\ worker'[w] \in {"run", "returned", "failed"} =>
                    worker[w] \in {"run", "returned", "failed"}
               /\ worker[w] = "closing" => worker'[w] = "closing" /\ held'[w] = held[w]
      PROVE  ContextsFollow'
  <2> SUFFICES ASSUME NEW j \in Jobs, ctx'[j] = "live", runs[j] > (IF InRun(j)' THEN 1 ELSE 0)
               PROVE  Closing(j)'
    BY <1>f DEF ContextsFollow
  <2>1. CASE InRun(j) /\ ~InRun(j)'
    BY <1>f, <2>1 DEF InRun, Closing
  <2>2. CASE InRun(j) <=> InRun(j)'
    <3>1. Closing(j)
      BY <1>f, <2>2 DEF ContextsFollow
    <3> QED BY <1>f, <3>1 DEF Closing
  <2>3. InRun(j)' => InRun(j)
    BY <1>f DEF InRun
  <2> QED BY <2>1, <2>2, <2>3
<1>1. ASSUME NEW j \in Jobs, NEW p \in Priorities, SubmitBegin(j, p) PROVE ContextsFollow'
  <2>1. /\ ~Sent(j) /\ UNCHANGED <<runs, worker, held>>
        /\ \A i \in Jobs \ {j} : ctx'[i] = ctx[i]
    BY <1>0, <1>1 DEF SubmitBegin, Sent, TypeOK
  <2>2. runs[j] = 0
    BY <1>0, <2>1 DEF RunsCounted, FirstRunFresh
  <2>3. \A i \in Jobs : (InRun(i)' <=> InRun(i)) /\ (Closing(i)' <=> Closing(i))
    BY <2>1 DEF InRun, Closing
  <2> QED BY <2>1, <2>2, <2>3 DEF ContextsFollow
<1>2. ASSUME NEW w \in Workers, CountProcessing(w) PROVE ContextsFollow'
  <2>1. /\ worker[w] = "taken" /\ worker' = [worker EXCEPT ![w] = "run"]
        /\ runs' = [runs EXCEPT ![held[w]] = @ + 1] /\ UNCHANGED <<ctx, held>>
    BY <1>2 DEF CountProcessing
  <2>2. w \in Holding /\ held[w] \in Jobs
    BY <2>1, OwnerTypes DEF Holding
  <2>3. ~InRun(held[w]) /\ InRun(held[w])'
    <3>1. \A v \in Workers : worker[v] \in {"run", "returned", "failed"} => held[v] # held[w]
      BY <2>1, <2>2 DEF QueueInv, SingleOwner, HoldersApart, Holding
    <3> QED BY <1>0, <2>1, <3>1 DEF InRun, TypeOK
  <2>4. \A i \in Jobs : Closing(i) => Closing(i)'
    BY <1>0, <2>1 DEF Closing, TypeOK
  <2>5. \A i \in Jobs \ {held[w]} : (InRun(i)' <=> InRun(i)) /\ runs'[i] = runs[i]
    BY <1>0, <2>1 DEF InRun, TypeOK
  <2>6. runs'[held[w]] = runs[held[w]] + 1
    BY <1>0, <2>1, <2>2 DEF TypeOK
  <2> QED BY <1>0, <2>1, <2>2, <2>3, <2>4, <2>5, <2>6 DEF ContextsFollow
<1>3. ASSUME NEW w \in Workers, Close(w) PROVE ContextsFollow'
  <2>1. /\ worker[w] = "closing" /\ worker' = [worker EXCEPT ![w] = "counting"]
        /\ held' = [held EXCEPT ![w] = NoJob] /\ ctx' = [ctx EXCEPT ![held[w]] = Cancel(@)]
        /\ UNCHANGED runs
    BY <1>3 DEF Close
  <2>2. \A i \in Jobs : ctx'[i] = IF i = held[w] THEN Cancel(ctx[i]) ELSE ctx[i]
    BY <1>0, <2>1 DEF TypeOK
  <2>3. \A i \in Jobs : ctx'[i] = "live" => i # held[w] /\ ctx[i] = "live"
    BY <2>2 DEF Cancel
  <2>4. \A i \in Jobs : InRun(i)' <=> InRun(i)
    BY <1>0, <2>1 DEF InRun, TypeOK
  <2>5. \A i \in Jobs : i # held[w] /\ Closing(i) => Closing(i)'
    BY <1>0, <2>1 DEF Closing, TypeOK
  <2> QED BY <2>1, <2>3, <2>4, <2>5 DEF ContextsFollow
<1>4. ASSUME NEW w \in Workers, Take(w) \/ \E j \in Jobs : TakeParked(w, j) PROVE ContextsFollow'
  <2>1. /\ worker[w] = "scan" /\ worker' = [worker EXCEPT ![w] = "taken"]
        /\ \A v \in Workers \ {w} : held'[v] = held[v]
        /\ UNCHANGED <<runs, ctx>>
    BY <1>0, <1>4 DEF Take, TakeParked, Takes, TypeOK
  <2> QED BY <1>0, <1>f, <2>1 DEF TypeOK
<1>5. ASSUME NEW w \in Workers,
             \/ StartScan(w) \/ SkipEmpty(w) \/ HandlerReturns(w) \/ CountCompleted(w)
             \/ CountFailed(w) \/ Retry(w) \/ GiveUp(w) \/ UpdateStats(w) \/ WorkerExit(w)
      PROVE ContextsFollow'
  <2>1. UNCHANGED <<runs, ctx, held>>
    BY <1>5 DEF StartScan, SkipEmpty, HandlerReturns, CountCompleted, CountFailed, Retry, GiveUp,
         UpdateStats, WorkerExit
  <2>2. \/ worker[w] \in {"run", "returned", "failed"}
           /\ worker'[w] \in {"run", "returned", "failed", "closing"}
        \/ /\ worker[w] \in {"idle", "scan", "counting"}
           /\ worker'[w] \in {"idle", "scan", "counting", "exited"}
    BY <1>0, <1>5 DEF StartScan, SkipEmpty, HandlerReturns, CountCompleted, CountFailed, Retry,
         GiveUp, UpdateStats, WorkerExit, TypeOK
  <2>3. \A v \in Workers \ {w} : worker'[v] = worker[v]
    BY <1>0, <1>5 DEF StartScan, SkipEmpty, HandlerReturns, CountCompleted, CountFailed, Retry,
         GiveUp, UpdateStats, WorkerExit, TypeOK
  <2> QED BY <1>f, <2>1, <2>2, <2>3
<1>6. ASSUME NEW j \in Jobs,
             \/ CallerStep(j) \/ DeadlineExpires(j) \/ \E n \in RetryNumbers : RetrierStep(j, n)
      PROVE ContextsFollow'
  <2>1. UNCHANGED <<runs, worker, held>> /\ \A i \in Jobs : ctx'[i] = "live" => ctx[i] = "live"
    BY <1>0, <1>6 DEF CallerStep, RetrierStep, SubmitSend, SubmitCount, SubmitRefused,
         DeadlineExpires, RetryWakes, Resend, CountRetry, RetryDropped, RetryAbandoned, TypeOK
  <2> QED BY <1>f, <2>1
<1>7. CASE PoolStep \/ UNCHANGED vars
  <2>1. UNCHANGED <<runs, worker, held>> /\ \A i \in Jobs : ctx'[i] = "live" => ctx[i] = "live"
    BY <1>7 DEF PoolStep, CheckScaling, ScaleUp, StopBegin, Shutdown, Report, vars, Cancel
  <2> QED BY <1>f, <2>1
<1> QED BY <1>1, <1>2, <1>3, <1>4, <1>5, <1>6, <1>7 DEF Next, WorkerStep, PoolStep

\* The gauges are what the workers do, PendingJobs is one too low for every
\* retry that ran and RetryingJobs one too high, every updateStats but
\* "retry_failed" moves a job from one gauge to the next, a retry runs under a context
\* that is over or about to be, and without a buffer there is one run per
\* job, for all jobs, workers and capacities (updateStats, CompleteJob).
THEOREM AccountsHold == Spec => []AccountsKept
<1>1. QueueInv /\ AccountsInv => AccountsKept
  <2> SUFFICES ASSUME QueueInv, AccountsInv PROVE RetryContextOver
    BY DEF AccountsInv, GaugesInv, FirstRunsInv, AccountsKept
  <2> SUFFICES ASSUME NEW w \in Workers, worker[w] = "run", runs[held[w]] > 1,
                      ctx[held[w]] = "live"
               PROVE  Closing(held[w])
    BY DEF RetryContextOver, Closing
  <2>1. held[w] \in Jobs /\ InRun(held[w])
    BY OwnerTypes DEF Holding, InRun
  <2> QED BY <2>1 DEF AccountsInv, ContextsFollow
<1> QED BY <1>1, InitQueueInv, NextQueueInv, InitAccounts, NextGauges, NextDrifts, NextFirstRuns,
           NextContexts, PTL DEF Spec, AccountsInv, GaugesInv
-----------------------------------------------------------------------------
(* The queue implements JobLifecycle                                       *)

\* Whether some worker has taken the job without having started it.
TakenOnly(j) == \E w \in Workers : worker[w] = "taken" /\ held[w] = j

\* The phases of a job by where it is.
PhasesTold ==
  \A j \in Jobs :
    /\ ~Sent(j) => Phase(j) = "new"
    /\ Sent(j) /\ Running(j) => Phase(j) = "running"
    /\ Sent(j) /\ ~Running(j) /\ (j \in Queued \/ TakenOnly(j) \/ Retrying(j))
         => Phase(j) = "waiting"
    /\ Sent(j) /\ ~Running(j) /\ j \notin Queued /\ ~TakenOnly(j) /\ ~Retrying(j)
         => Phase(j) = "over"

LEMMA PhaseOf == QueueInv => PhasesTold
<1> SUFFICES ASSUME QueueInv, NEW j \in Jobs
             PROVE  /\ ~Sent(j) => Phase(j) = "new"
                    /\ Sent(j) /\ Running(j) => Phase(j) = "running"
                    /\ Sent(j) /\ ~Running(j) /\ (j \in Queued \/ TakenOnly(j) \/ Retrying(j))
                         => Phase(j) = "waiting"
                    /\ Sent(j) /\ ~Running(j) /\ j \notin Queued /\ ~TakenOnly(j) /\ ~Retrying(j)
                         => Phase(j) = "over"
  BY DEF PhasesTold
<1>1. ~Sent(j) <=> caller[j] \in {"idle", "sending", "refused"}
  BY DEF Sent, QueueInv, TypeOK, CallerStates
<1>2. (\E w \in Holding : held[w] = j) <=> Running(j) \/ TakenOnly(j)
  BY DEF Holding, Running, TakenOnly
<1>3. Settled(j) <=> Sent(j) /\ j \notin Queued /\ ~Running(j) /\ ~TakenOnly(j) /\ ~Retrying(j)
  BY <1>2 DEF Settled
<1>4. Running(j) => Sent(j)
  BY <1>2 DEF QueueInv, Placed
<1>5. CASE ~Sent(j)
  BY <1>1, <1>3, <1>4, <1>5 DEF Phase
<1>6. CASE Sent(j) /\ Running(j)
  BY <1>1, <1>3, <1>6 DEF Phase
<1>7. CASE Sent(j) /\ ~Running(j) /\ Settled(j)
  BY <1>1, <1>3, <1>7 DEF Phase
<1>8. CASE Sent(j) /\ ~Running(j) /\ ~Settled(j)
  BY <1>1, <1>3, <1>8 DEF Phase
<1> QED BY <1>3, <1>5, <1>6, <1>7, <1>8

LEMMA PhaseOfNext == QueueInv' => PhasesTold'
BY PhaseOf, PTL

\* Where a job is, as the phases tell it.
Stays(j) ==
  /\ Sent(j)' <=> Sent(j)
  /\ Running(j)' <=> Running(j)
  /\ j \in Queued' \/ TakenOnly(j)' \/ Retrying(j)' <=> j \in Queued \/ TakenOnly(j) \/ Retrying(j)

phases == [j \in Jobs |-> Phase(j)]

LEMMA StaysPhase ==
  ASSUME QueueInv, QueueInv', NEW j \in Jobs, Stays(j)
  PROVE  Phase(j)' = Phase(j)
<1>1. PhasesTold /\ PhasesTold'
  BY PhaseOf, PhaseOfNext
<1> QED BY <1>1 DEF PhasesTold, Stays

\* A step that moves no job, or one job from one phase to another.
LEMMA AllStay ==
  ASSUME QueueInv, QueueInv', \A j \in Jobs : Stays(j)
  PROVE  phases' = phases
BY StaysPhase DEF phases

LEMMA OneMoves ==
  ASSUME QueueInv, QueueInv', NEW j \in Jobs, \A i \in Jobs \ {j} : Stays(i)
  PROVE  phases' = [phases EXCEPT ![j] = Phase(j)']
BY StaysPhase DEF phases
LEMMA Moves ==
  ASSUME QueueInv, QueueInv', NEW j \in Jobs, \A i \in Jobs \ {j} : Stays(i)
  PROVE  /\ (Phase(j) = "new" /\ Phase(j)' = "waiting" /\ UNCHANGED runs) => Lifecycle!Accept(j)
         /\ (/\ Phase(j) = "waiting" /\ Phase(j)' = "running"
             /\ runs[j] <= MaxRetries /\ runs' = [runs EXCEPT ![j] = @ + 1]) => Lifecycle!Start(j)
         /\ (/\ Phase(j) = "running" /\ Phase(j)' = "waiting"
             /\ runs[j] <= MaxRetries /\ UNCHANGED runs) => Lifecycle!Requeue(j)
         /\ (Phase(j) = "running" /\ Phase(j)' = "over" /\ UNCHANGED runs) => Lifecycle!Finish(j)
         /\ (/\ Phase(j) = "waiting" /\ Phase(j)' = "over"
             /\ runs[j] > 0 /\ UNCHANGED runs) => Lifecycle!Lose(j)
<1>1. phases' = [phases EXCEPT ![j] = Phase(j)'] /\ phases[j] = Phase(j)
  BY OneMoves DEF phases
<1>2. \A p : Phase(j)' = p => Lifecycle!Become(j, p)
  BY <1>1 DEF phases, Lifecycle!Become
<1>3. \A p : Phase(j) = p => [i \in Jobs |-> Phase(i)][j] = p
  OBVIOUS
<1> QED BY <1>2, <1>3 DEF Lifecycle!Accept, Lifecycle!Start, Lifecycle!Requeue, Lifecycle!Finish,
             Lifecycle!Lose

LEMMA NextLifecycle ==
  QueueInv /\ QueueInv' /\ [Next]_vars => [Lifecycle!Next]_<<phases, runs>>
<1> SUFFICES ASSUME QueueInv, QueueInv', [Next]_vars
             PROVE  UNCHANGED <<phases, runs>> \/ Lifecycle!Next
  OBVIOUS
<1> USE DEF jobVars, workerVars
<1>0. /\ TypeOK /\ Placed /\ SingleOwner /\ RunsCounted
      /\ PhasesTold /\ PhasesTold' /\ NoJob \notin Jobs
  BY PhaseOf, PhaseOfNext, NoJobAssumption DEF QueueInv
<1>l. ASSUME NEW j \in Jobs, \/ Lifecycle!Accept(j) \/ Lifecycle!Start(j) \/ Lifecycle!Requeue(j)
                             \/ Lifecycle!Finish(j) \/ Lifecycle!Lose(j)
      PROVE  Lifecycle!Next
  BY <1>l DEF Lifecycle!Next
<1>1. ASSUME NEW j \in Jobs,
             \/ (\E p \in Priorities : SubmitBegin(j, p)) \/ SubmitCount(j) \/ SubmitRefused(j)
             \/ DeadlineExpires(j)
      PROVE  UNCHANGED <<phases, runs>>
  <2>1. UNCHANGED <<chan, retrier, worker, held, runs>>
    BY <1>1 DEF SubmitBegin, SubmitCount, SubmitRefused, DeadlineExpires
  <2>2. \A i \in Jobs : Sent(i)' <=> Sent(i)
    BY <1>0, <1>1 DEF SubmitBegin, SubmitCount, SubmitRefused, DeadlineExpires, Sent, TypeOK
  <2>3. \A i \in Jobs : Stays(i)
    BY <2>1, <2>2 DEF Stays, Running, TakenOnly, Queued, Waiting, Retrying
  <2> QED BY <2>1, <2>3, AllStay
<1>2. CASE PoolStep \/ UNCHANGED vars
  <2>1. UNCHANGED <<chan, caller, retrier, worker, held, runs>>
    BY <1>2 DEF PoolStep, CheckScaling, ScaleUp, StopBegin, Shutdown, Report, vars
  <2>2. \A i \in Jobs : Stays(i)
    BY <2>1 DEF Stays, Running, TakenOnly, Queued, Waiting, Retrying, Sent
  <2> QED BY <2>1, <2>2, AllStay
<1>3. ASSUME NEW w \in Workers,
             \/ StartScan(w) \/ SkipEmpty(w) \/ HandlerReturns(w) \/ CountFailed(w) \/ Close(w)
             \/ UpdateStats(w) \/ WorkerExit(w)
      PROVE  UNCHANGED <<phases, runs>>
  <2>1. UNCHANGED <<chan, caller, retrier, runs>>
    BY <1>3 DEF StartScan, SkipEmpty, HandlerReturns, CountFailed, Close, UpdateStats, WorkerExit
  <2>2. \A v \in Workers :
          /\ worker'[v] = "taken" <=> worker[v] = "taken"
          /\ worker'[v] \in {"run", "returned", "failed"}
               <=> worker[v] \in {"run", "returned", "failed"}
          /\ worker[v] # "closing" => held'[v] = held[v]
    BY <1>0, <1>3 DEF StartScan, SkipEmpty, HandlerReturns, CountFailed, Close, UpdateStats,
         WorkerExit, TypeOK
  <2>3. \A i \in Jobs : Stays(i)
    BY <2>1, <2>2 DEF Stays, Running, TakenOnly, Queued, Waiting, Retrying, Sent
  <2> QED BY <2>1, <2>3, AllStay
<1>4. ASSUME NEW j \in Jobs, NEW n \in RetryNumbers, RetryWakes(j, n) \/ CountRetry(j, n)
      PROVE  UNCHANGED <<phases, runs>>
  <2>1. UNCHANGED <<chan, caller, worker, held, runs>>
    BY <1>4 DEF RetryWakes, CountRetry
  <2>2. /\ retrier[j][n] \in {"waiting", "awake"} <=> retrier'[j][n] \in {"waiting", "awake"}
        /\ \A i \in Jobs, m \in RetryNumbers : i # j \/ m # n => retrier'[i][m] = retrier[i][m]
    BY <1>0, <1>4 DEF RetryWakes, CountRetry, TypeOK
  <2>3. \A i \in Jobs : Retrying(i)' <=> Retrying(i)
    BY <2>2 DEF Retrying
  <2>4. \A i \in Jobs : Stays(i)
    BY <2>1, <2>3 DEF Stays, Running, TakenOnly, Queued, Waiting, Sent
  <2> QED BY <2>1, <2>4, AllStay
<1>5. ASSUME NEW j \in Jobs, SubmitSend(j) PROVE Lifecycle!Accept(j)
  <2>1. /\ ~Sent(j) /\ Sent(j)' /\ \A i \in Jobs \ {j} : Sent(i)' <=> Sent(i)
        /\ UNCHANGED <<retrier, worker, held, runs, priority>>
        /\ chan' = [chan EXCEPT ![priority[j]] = Append(@, j)]
    BY <1>0, <1>5 DEF SubmitSend, Sent, TypeOK
  <2>2. j \notin Queued
    BY <1>0, <2>1 DEF Placed, ChannelsPlaced, Queued, Waiting
  <2>3. Queued' = Queued \cup {j}
    BY <2>1, <2>2, SendPlaced
  <2>4. \A i \in Jobs : (Running(i)' <=> Running(i)) /\ (TakenOnly(i)' <=> TakenOnly(i))
                        /\ (Retrying(i)' <=> Retrying(i))
    BY <2>1 DEF Running, TakenOnly, Retrying
  <2>5. ~Running(j)
    BY <1>0, <2>1 DEF Running, Placed, Holding
  <2>6. Phase(j) = "new" /\ Phase(j)' = "waiting"
    BY <1>0, <2>1, <2>3, <2>4, <2>5 DEF PhasesTold
  <2>7. \A i \in Jobs \ {j} : Stays(i)
    BY <2>1, <2>3, <2>4 DEF Stays
  <2> QED BY <2>1, <2>6, <2>7, Moves
<1>6. ASSUME NEW w \in Workers, NEW j \in Jobs, TakeParked(w, j) PROVE Lifecycle!Accept(j)
  <2>1. /\ ~Sent(j) /\ Sent(j)' /\ \A i \in Jobs \ {j} : Sent(i)' <=> Sent(i)
        /\ worker[w] = "scan" /\ worker' = [worker EXCEPT ![w] = "taken"]
        /\ held' = [held EXCEPT ![w] = j] /\ UNCHANGED <<chan, retrier, runs>>
    BY <1>0, <1>6 DEF TakeParked, Takes, Sent, TypeOK
  <2>2. \A i \in Jobs : /\ Running(i)' <=> Running(i)
                        /\ i \in Queued' <=> i \in Queued
                        /\ Retrying(i)' <=> Retrying(i)
                        /\ TakenOnly(i)' <=> TakenOnly(i) \/ i = j
    BY <1>0, <2>1 DEF Running, Queued, Waiting, Retrying, TakenOnly, TypeOK
  <2>3. ~Running(j)
    BY <1>0, <2>1 DEF Running, Placed, Holding
  <2>4. Phase(j) = "new" /\ Phase(j)' = "waiting"
    BY <1>0, <2>1, <2>2, <2>3 DEF PhasesTold
  <2>5. \A i \in Jobs \ {j} : Stays(i)
    BY <2>1, <2>2 DEF Stays
  <2> QED BY <2>1, <2>4, <2>5, Moves
<1>7. ASSUME NEW w \in Workers, Take(w) PROVE UNCHANGED <<phases, runs>>
  <2> DEFINE j == Head(chan[cursor[w]])
  <2>1. /\ worker[w] = "scan" /\ worker' = [worker EXCEPT ![w] = "taken"]
        /\ held' = [held EXCEPT ![w] = j] /\ UNCHANGED <<retrier, runs, caller>>
        /\ cursor[w] \in Priorities /\ chan[cursor[w]] # <<>> /\ ChannelsApart
        /\ chan' = [chan EXCEPT ![cursor[w]] = Tail(@)]
    BY <1>0, <1>7 DEF Take, Takes, TypeOK, SingleOwner
  <2>2. j \in Jobs /\ j \in Queued /\ Queued' = Queued \ {j}
    BY <1>0, <2>1, ReceiveEffect
  <2> HIDE DEF j
  <2>3. \A i \in Jobs : /\ Running(i)' <=> Running(i)
                        /\ Sent(i)' <=> Sent(i)
                        /\ Retrying(i)' <=> Retrying(i)
                        /\ TakenOnly(i)' <=> TakenOnly(i) \/ i = j
    BY <1>0, <2>1 DEF Running, Sent, Retrying, TakenOnly, TypeOK
  <2>4. \A i \in Jobs : Stays(i)
    BY <2>2, <2>3 DEF Stays
  <2> QED BY <2>1, <2>4, AllStay
<1>8. ASSUME NEW w \in Workers, CountProcessing(w) PROVE \E j \in Jobs : Lifecycle!Start(j)
  <2>0. PICK j \in Jobs : j = held[w]
    BY <1>8, OwnerTypes DEF CountProcessing, Holding
  <2>1. /\ worker[w] = "taken" /\ worker' = [worker EXCEPT ![w] = "run"]
        /\ runs' = [runs EXCEPT ![j] = @ + 1] /\ UNCHANGED <<chan, caller, retrier, held>>
    BY <1>8, <2>0 DEF CountProcessing
  <2>2. w \in Holding /\ Sent(j) /\ \A v \in Holding : v # w => held[v] # j
    BY <1>0, <2>0, <2>1 DEF Holding, Placed, SingleOwner, HoldersApart
  <2>3. runs[j] <= MaxRetries
    BY <1>0, <2>0, <2>1 DEF RunsCounted, RunBudget
  <2>4. ~Running(j) /\ TakenOnly(j) /\ Running(j)'
    <3>1. \A v \in Workers : worker[v] \in {"run", "returned", "failed"} => v \in Holding /\ v # w
      BY <2>1 DEF Holding
    <3>2. ~Running(j)
      BY <2>2, <3>1 DEF Running
    <3>3. TakenOnly(j) /\ Running(j)'
      BY <1>0, <2>0, <2>1 DEF TakenOnly, Running, TypeOK
    <3> QED BY <3>2, <3>3
  <2>5. \A i \in Jobs : Sent(i)' <=> Sent(i)
    BY <2>1 DEF Sent
  <2>6. \A i \in Jobs \ {j} : Stays(i)
    BY <1>0, <2>0, <2>1 DEF Stays, Sent, Running, TakenOnly, Queued, Waiting, Retrying, TypeOK
  <2>7. Phase(j) = "waiting" /\ Phase(j)' = "running"
    BY <1>0, <2>2, <2>4, <2>5 DEF PhasesTold
  <2> QED BY <2>1, <2>2, <2>3, <2>6, <2>7, Moves
<1>9. ASSUME NEW w \in Workers, CountCompleted(w) \/ GiveUp(w) \/ Retry(w)
      PROVE  \E j \in Jobs : Lifecycle!Finish(j) \/ Lifecycle!Requeue(j)
  <2>0. PICK j \in Jobs : j = held[w]
    BY <1>9, OwnerTypes DEF CountCompleted, GiveUp, Retry, Holding
  <2>1. /\ worker[w] \in {"returned", "failed"} /\ worker' = [worker EXCEPT ![w] = "closing"]
        /\ UNCHANGED <<chan, caller, held, runs>>
    BY <1>9 DEF CountCompleted, GiveUp, Retry
  <2>2. /\ w \in Holding /\ Sent(j) /\ \A v \in Holding : v # w => held[v] # j
        /\ j \notin Queued /\ ~Retrying(j)
    BY <1>0, <2>0, <2>1 DEF Holding, Placed, SingleOwner, HoldersApart
  <2>3. Running(j) /\ ~Running(j)' /\ ~TakenOnly(j)'
    <3>1. Running(j)
      BY <2>0, <2>1 DEF Running
    <3>2. \A v \in Workers : worker'[v] \in {"taken", "run", "returned", "failed"}
                               => v # w /\ v \in Holding
      BY <1>0, <2>1 DEF Holding, TypeOK
    <3>3. ~Running(j)' /\ ~TakenOnly(j)'
      BY <2>1, <2>2, <3>2 DEF Running, TakenOnly
    <3> QED BY <3>1, <3>3
  <2>4. \A i \in Jobs : /\ Sent(i)' <=> Sent(i)
                        /\ i \in Queued' <=> i \in Queued
    BY <2>1 DEF Sent, Queued, Waiting
  <2>5. \A i \in Jobs \ {j} : (Running(i)' <=> Running(i)) /\ (TakenOnly(i)' <=> TakenOnly(i))
    BY <1>0, <2>0, <2>1 DEF Running, TakenOnly, TypeOK
  <2>6. \A i \in Jobs \ {j} : Retrying(i)' <=> Retrying(i)
    BY <1>0, <1>9, <2>0 DEF CountCompleted, GiveUp, Retry, Retrying, TypeOK
  <2>7. \A i \in Jobs \ {j} : Stays(i)
    BY <2>4, <2>5, <2>6 DEF Stays
  <2>8. Phase(j) = "running"
    BY <1>0, <2>2, <2>3 DEF PhasesTold
  <2>9. CASE Retrying(j)'
    <3>1. Retry(w)
      BY <1>9, <2>2, <2>9 DEF CountCompleted, GiveUp, Retrying
    <3>2. runs[j] = retries[j] + 1 /\ retries[j] < MaxRetries /\ retries[j] \in Nat
      BY <1>0, <2>0, <2>1, <3>1 DEF Retry, MayRetry, RunsCounted, TypeOK
    <3>3. runs[j] <= MaxRetries
      BY <3>2, QueueAssumption
    <3>4. Phase(j)' = "waiting"
      BY <1>0, <2>2, <2>3, <2>4, <2>9 DEF PhasesTold
    <3> QED BY <2>1, <2>2, <2>7, <2>8, <3>3, <3>4, Moves
  <2>10. CASE ~Retrying(j)'
    <3>1. Phase(j)' = "over"
      BY <1>0, <2>2, <2>3, <2>4, <2>10 DEF PhasesTold
    <3> QED BY <2>1, <2>2, <2>7, <2>8, <3>1, Moves
  <2> QED BY <2>9, <2>10
<1>10. ASSUME NEW j \in Jobs, NEW n \in RetryNumbers,
              Resend(j, n) \/ RetryDropped(j, n) \/ RetryAbandoned(j, n)
       PROVE  UNCHANGED <<phases, runs>> \/ Lifecycle!Lose(j)
  <2>1. /\ retrier[j][n] \in {"waiting", "awake"}
        /\ retrier'[j][n] \in {"sent", "dropped", "abandoned"}
        /\ \A i \in Jobs, m \in RetryNumbers : i # j \/ m # n => retrier'[i][m] = retrier[i][m]
        /\ UNCHANGED <<priority, caller, worker, held, runs>>
    BY <1>0, <1>10 DEF Resend, RetryDropped, RetryAbandoned, TypeOK
  <2>2. Retrying(j) /\ Sent(j) /\ n = retries[j]
    BY <1>0, <2>1 DEF Retrying, Placed
  <2>3. j \notin Queued /\ ~Running(j) /\ ~TakenOnly(j)
    BY <1>0, <2>2 DEF SingleOwner, Running, TakenOnly, Holding
  <2>4. ~Retrying(j)' /\ \A i \in Jobs \ {j} : Retrying(i)' <=> Retrying(i)
    <3>1. \A m \in RetryNumbers : m # n => retrier[j][m] \notin {"waiting", "awake"}
      BY <1>0, <2>2 DEF Placed
    <3> QED BY <2>1, <3>1 DEF Retrying
  <2>5. \A i \in Jobs : /\ Sent(i)' <=> Sent(i)
                        /\ Running(i)' <=> Running(i)
                        /\ TakenOnly(i)' <=> TakenOnly(i)
    BY <2>1 DEF Sent, Running, TakenOnly
  <2>6. CASE Resend(j, n)
    <3>1. chan' = [chan EXCEPT ![priority[j]] = Append(@, j)] /\ Sent(j)'
          /\ \A i \in Jobs : Sent(i) => Sent(i)'
      BY <2>2, <2>5, <2>6 DEF Resend
    <3>2. Queued' = Queued \cup {j}
      BY <2>1, <2>3, <3>1, SendPlaced
    <3>3. \A i \in Jobs : Stays(i)
      BY <2>2, <2>4, <2>5, <3>2 DEF Stays
    <3> QED BY <2>1, <3>3, AllStay
  <2>7. CASE ~Resend(j, n)
    <3>1. Queued' = Queued
      BY <1>10, <2>7 DEF RetryDropped, RetryAbandoned, Queued, Waiting
    <3>2. \A i \in Jobs \ {j} : Stays(i)
      BY <2>4, <2>5, <3>1 DEF Stays
    <3>3. Phase(j) = "waiting" /\ Phase(j)' = "over"
      BY <1>0, <2>2, <2>3, <2>4, <2>5, <3>1 DEF PhasesTold
    <3>4. runs[j] > 0
      BY <1>0, <2>2 DEF RunsCounted, RetryNumbers
    <3> QED BY <2>1, <3>2, <3>3, <3>4, Moves
  <2> QED BY <2>6, <2>7
<1>11. ASSUME NEW w \in Workers, WorkerStep(w) PROVE UNCHANGED <<phases, runs>> \/ Lifecycle!Next
  <2>1. CASE \E j \in Jobs : TakeParked(w, j)
    BY <1>6, <1>l, <2>1
  <2>2. CASE CountProcessing(w) \/ CountCompleted(w) \/ GiveUp(w) \/ Retry(w)
    <3>1. \E j \in Jobs : Lifecycle!Start(j) \/ Lifecycle!Finish(j) \/ Lifecycle!Requeue(j)
      BY <1>8, <1>9, <2>2
    <3> QED BY <1>l, <3>1
  <2> QED BY <1>3, <1>7, <1>11, <2>1, <2>2 DEF WorkerStep
<1>12. ASSUME NEW j \in Jobs, NEW n \in RetryNumbers, RetrierStep(j, n)
       PROVE  UNCHANGED <<phases, runs>> \/ Lifecycle!Next
  BY <1>4, <1>10, <1>12, <1>l DEF RetrierStep
<1>13. ASSUME NEW j \in Jobs, CallerStep(j) PROVE UNCHANGED <<phases, runs>> \/ Lifecycle!Next
  BY <1>1, <1>5, <1>13, <1>l DEF CallerStep
<1> QED BY <1>1, <1>2, <1>11, <1>12, <1>13 DEF Next, PoolStep

LEMMA InitLifecycle == Init => Lifecycle!Init
<1> SUFFICES ASSUME Init PROVE Lifecycle!Init
  OBVIOUS
<1>1. \A j \in Jobs : ~Sent(j)
  BY DEF Init, Sent
<1>2. PhasesTold
  BY InitQueueInv, PhaseOf
<1>3. \A j \in Jobs : Phase(j) = "new"
  BY <1>1, <1>2 DEF PhasesTold
<1> QED BY <1>3 DEF Init, Lifecycle!Init

\* The queue, its workers and its retry goroutines implement the life of a
\* job that JobLifecycle describes: it is accepted once, runs in one place at
\* a time, at most MaxRetries + 1 times, and never after it is over.
THEOREM QueueImplementsLifecycle == Spec => ImplementsLifecycle
<1>1. QueueInv /\ QueueInv' /\ [Next]_vars => [Lifecycle!Next]_(Lifecycle!lifeVars)
  BY NextLifecycle DEF phases, Lifecycle!lifeVars
<1> QED BY <1>1, InitLifecycle, InitQueueInv, NextQueueInv, PTL
        DEF Spec, ImplementsLifecycle, Lifecycle!Spec
=============================================================================
