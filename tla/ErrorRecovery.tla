---------------------------- MODULE ErrorRecovery ---------------------------
(***************************************************************************)
(* internal/monitoring/error_recovery.go: ErrorRecoveryManager.            *)
(*                                                                         *)
(* Recover reads the action under RLock, calls its handler with no lock,   *)
(* again after a backoff when the strategy is to retry, and records the    *)
(* outcome under Lock.  In between the action may be registered anew and   *)
(* the history cleared.                                                    *)
(***************************************************************************)
EXTENDS Integers, FiniteSets

CONSTANTS
  ErrorTypes,    \* the types actions are registered for
  Recoverers,    \* goroutines that call Recover
  RecoveryTries, \* RecoveryAction.MaxAttempts of a retry
  MaxRecoveries  \* bound of the model: calls of Recover for one type

ASSUME RecoveryAssumption ==
  /\ ErrorTypes # {} /\ IsFiniteSet(Recoverers)
  /\ RecoveryTries \in Nat \ {0} /\ MaxRecoveries \in Nat

VARIABLES
  action,     \* erm.actions: the strategy, or "none"
  outcomes,   \* erm.history: its attempts, successes and failures counted apart
  stats,      \* erm.stats
  recovery,   \* per goroutine: where its Recover is
  answers,    \* history, per type: what Recover returned after a handler was called
  cleared     \* history, per type: records that ClearHistory or RegisterAction dropped

recoveryVars == <<action, outcomes, stats, recovery, answers, cleared>>

NoOutcomes == [ok |-> 0, failed |-> 0]
NoStats == [total |-> 0, ok |-> 0, failed |-> 0]
AtRest == [pc |-> "idle", type |-> CHOOSE t \in ErrorTypes : TRUE, tries |-> 0, attempt |-> 0]

RecoveryInit ==
  /\ action = [t \in ErrorTypes |-> "none"]
  /\ outcomes = [t \in ErrorTypes |-> NoOutcomes]
  /\ stats = [t \in ErrorTypes |-> NoStats]
  /\ recovery = [g \in Recoverers |-> AtRest]
  /\ answers = [t \in ErrorTypes |-> [begun |-> 0, ok |-> 0, failed |-> 0, cancelled |-> 0]]
  /\ cleared = [t \in ErrorTypes |-> 0]

Cleared(t) ==
  /\ outcomes' = [outcomes EXCEPT ![t] = NoOutcomes]
  /\ stats' = [stats EXCEPT ![t] = NoStats]
  /\ cleared' = [cleared EXCEPT ![t] = @ + outcomes[t].ok + outcomes[t].failed]

RegisterAction(t, strategy) ==
  /\ action' = [action EXCEPT ![t] = strategy]
  /\ Cleared(t)
  /\ UNCHANGED <<recovery, answers>>

\* ClearHistory, and ClearAllHistory one type at a time.
ClearHistory(t) ==
  /\ Cleared(t)
  /\ UNCHANGED <<action, recovery, answers>>

-----------------------------------------------------------------------------
(* Recover                                                                 *)

\* An unregistered type is an error at once.
Recover(g, t) ==
  /\ recovery[g].pc = "idle" /\ action[t] # "none"
  /\ answers[t].begun < MaxRecoveries
  /\ answers' = [answers EXCEPT ![t].begun = @ + 1]
  /\ recovery' = [recovery EXCEPT ![g] =
       [pc |-> "calling", type |-> t, attempt |-> 0,
        tries |-> IF action[t] = "retry" THEN RecoveryTries ELSE 1]]
  /\ UNCHANGED <<action, outcomes, stats, cleared>>

\* handleRetry and handleStrategy: the handler is called.
CallHandler(g) ==
  LET k == recovery[g] IN
  /\ k.pc = "calling"
  /\ \E ok \in BOOLEAN :
       recovery' = [recovery EXCEPT ![g].attempt = @ + 1,
         ![g].pc = CASE ok -> "succeeded"
                     [] ~ok /\ k.attempt + 1 < k.tries -> "backoff"
                     [] ~ok /\ k.attempt + 1 = k.tries -> "failed"]
  /\ UNCHANGED <<action, outcomes, stats, answers, cleared>>

BackoffEnds(g) ==
  /\ recovery[g].pc = "backoff"
  /\ recovery' = [recovery EXCEPT ![g].pc = "calling"]
  /\ UNCHANGED <<action, outcomes, stats, answers, cleared>>

\* ctx.Done during the backoff: Recover returns and records nothing.
Cancelled(g) ==
  /\ recovery[g].pc = "backoff"
  /\ recovery' = [recovery EXCEPT ![g] = AtRest]
  /\ answers' = [answers EXCEPT ![recovery[g].type].cancelled = @ + 1]
  /\ UNCHANGED <<action, outcomes, stats, cleared>>

\* Failures are not counted in the statistics.
RecordAttemptSuccessOnly(g) ==
  LET t == recovery[g].type
      how == IF recovery[g].pc = "succeeded" THEN "ok" ELSE "failed"
  IN
  /\ recovery[g].pc \in {"succeeded", "failed"}
  /\ outcomes' = [outcomes EXCEPT ![t][how] = @ + 1]
  /\ stats' = IF how = "ok" THEN [stats EXCEPT ![t].total = @ + 1, ![t].ok = @ + 1] ELSE stats
  /\ answers' = [answers EXCEPT ![t][how] = @ + 1]
  /\ recovery' = [recovery EXCEPT ![g] = AtRest]
  /\ UNCHANGED <<action, cleared>>

\* recordAttempt, and Recover returns: one record however many attempts.
RecordAttempt(g) ==
  LET t == recovery[g].type
      how == IF recovery[g].pc = "succeeded" THEN "ok" ELSE "failed"
  IN
  /\ recovery[g].pc \in {"succeeded", "failed"}
  /\ outcomes' = [outcomes EXCEPT ![t][how] = @ + 1]
  /\ stats' = [stats EXCEPT ![t].total = @ + 1, ![t][how] = @ + 1]
  /\ answers' = [answers EXCEPT ![t][how] = @ + 1]
  /\ recovery' = [recovery EXCEPT ![g] = AtRest]
  /\ UNCHANGED <<action, cleared>>

RecoveryNext ==
  \/ \E t \in ErrorTypes, strategy \in {"retry", "once"} : RegisterAction(t, strategy)
  \/ \E t \in ErrorTypes : ClearHistory(t)
  \/ \E g \in Recoverers, t \in ErrorTypes : Recover(g, t)
  \/ \E g \in Recoverers : CallHandler(g) \/ BackoffEnds(g) \/ Cancelled(g) \/ RecordAttempt(g)

RecoverySpec == RecoveryInit /\ [][RecoveryNext]_recoveryVars

-----------------------------------------------------------------------------
(* Properties                                                              *)

\* Type invariant of the recovery manager.
RecoveryTypeOK ==
  /\ action \in [ErrorTypes -> {"none", "retry", "once"}]
  /\ outcomes \in [ErrorTypes -> [ok : Nat, failed : Nat]]
  /\ stats \in [ErrorTypes -> [total : Nat, ok : Nat, failed : Nat]]
  /\ recovery \in [Recoverers -> [pc : {"idle", "calling", "backoff", "succeeded", "failed"},
                                  type : ErrorTypes, tries : Nat, attempt : 0..RecoveryTries]]
  /\ answers \in [ErrorTypes -> [begun : 0..MaxRecoveries, ok : Nat, failed : Nat, cancelled : Nat]]
  /\ cleared \in [ErrorTypes -> Nat]

\* Those that recover from an error of the type.
Running(t) == {g \in Recoverers : recovery[g].pc # "idle" /\ recovery[g].type = t}

Recorded(t) == outcomes[t].ok + outcomes[t].failed

\* The statistics of a type are those of its history, also when it is
\* registered again or cleared while somebody recovers; and every Recover
\* that called a handler of the type is under way, was cancelled during a
\* backoff, or is in the type's history, once, or was cleared from it
\* (recordAttempt, ClearHistory).
RecoveriesCounted ==
  \A t \in ErrorTypes :
    /\ stats[t] = [total |-> Recorded(t), ok |-> outcomes[t].ok, failed |-> outcomes[t].failed]
    /\ answers[t].begun = Cardinality(Running(t)) + answers[t].cancelled + cleared[t] + Recorded(t)
    /\ answers[t].ok + answers[t].failed = cleared[t] + Recorded(t)
=============================================================================
