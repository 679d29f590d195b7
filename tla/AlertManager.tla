---------------------------- MODULE AlertManager ----------------------------
(***************************************************************************)
(* internal/monitoring/advanced_monitoring.go: the metrics of an           *)
(* AdvancedMonitor, its alert rules, and the loop that checks the rules    *)
(* against the metrics.                                                    *)
(*                                                                         *)
(* The loop works on a snapshot of the enabled rules.  It finds a rule's   *)
(* metric under the metrics' lock and reads its value twice after that     *)
(* lock is released: to decide, and again, under the manager's lock, for   *)
(* the alert to show.  In between the metric may be updated in place, be   *)
(* replaced by another object, which leaves the loop with the old one, or  *)
(* go; and its rule may be replaced by any other of the same ID.  An       *)
(* alert's ID joins its rule's ID and metric: a rule that comes to name    *)
(* another metric leaves its alert behind.                                 *)
(*                                                                         *)
(* Whether a value raises a rule's alert is its condition's and its        *)
(* threshold's to say: a rule is raised by the values in its raises.       *)
(***************************************************************************)
EXTENDS Integers, FiniteSets

CONSTANTS
  RuleIDs,
  MetricNames,   \* unlabelled metrics: a check finds no others
  MetricValues,  \* the values recorded, and the sums of counters
  Rules,         \* the rules that may be added
  ChanSize,      \* defaultAlertChanSize
  HistoryMax,    \* defaultAlertHistoryMaxSize
  MaxAlerts      \* bound of the model: alerts created

\* AlertRule; evaluateAlertCondition is true of the values in raises.
Rule == [id : RuleIDs, metric : MetricNames, raises : SUBSET MetricValues, enabled : BOOLEAN]

AlertID == RuleIDs \X MetricNames

ASSUME AlertAssumption ==
  /\ Rules \subseteq Rule /\ Rules # {} /\ MetricValues \subseteq Nat
  /\ ChanSize \in Nat /\ HistoryMax \in Nat /\ MaxAlerts \in Nat

VARIABLES
  metric,     \* metrics: a value, or Absent
  rules,      \* alertRules
  alert,      \* activeAlerts: the value each was last given, or Absent
  resolved,   \* len(alertHistory)
  notices,    \* len(alertChan)
  check,      \* the loop, and the rules left of its snapshot
  read,       \* what it has in hand: rule, metric and what it decided
  tally,      \* history: alerts created, dropped by the channel, trimmed
  seen        \* history: rules checked with neither they nor their metric changed since

alertVars == <<metric, rules, alert, resolved, notices, check, read, tally, seen>>

Absent == -1

NothingRead == [rule |-> CHOOSE o \in Rules : TRUE, value |-> Absent, raised |-> FALSE, is |-> "gone"]

AlertInit ==
  /\ metric = [n \in MetricNames |-> Absent]
  /\ rules = {}
  /\ alert = [i \in AlertID |-> Absent]
  /\ resolved = 0 /\ notices = 0
  /\ check = [pc |-> "waiting", left |-> {}]
  /\ read = NothingRead
  /\ tally = [created |-> 0, dropped |-> 0, trimmed |-> 0]
  /\ seen = {}

\* recordMetric on a metric of its own type: the object is updated in place,
\* also for the loop that has it in hand.
UpdateInPlace(n, v) ==
  /\ metric[n] # Absent
  /\ metric' = [metric EXCEPT ![n] = v]
  /\ read' = IF read.rule.metric = n /\ read.is # "gone"
               THEN [read EXCEPT !.value = v, !.is = "changed"] ELSE read
  /\ seen' = {o \in seen : o.metric # n}
  /\ UNCHANGED <<rules, alert, resolved, notices, check, tally>>

\* RecordGauge, and recordMetric on a new metric or one of another type: a
\* new object, and the loop keeps the old one.
RecordMetric(n, v) ==
  /\ metric' = [metric EXCEPT ![n] = v]
  /\ read' = IF read.rule.metric = n THEN [read EXCEPT !.is = "gone"] ELSE read
  /\ seen' = {o \in seen : o.metric # n}
  /\ UNCHANGED <<rules, alert, resolved, notices, check, tally>>

\* What has not been recorded for the retention time goes.
CleanupOldMetrics ==
  /\ \E old \in SUBSET MetricNames :
       /\ metric' = [n \in MetricNames |-> IF n \in old THEN Absent ELSE metric[n]]
       /\ read' = IF read.rule.metric \in old THEN [read EXCEPT !.is = "gone"] ELSE read
       /\ seen' = {o \in seen : o.metric \notin old}
  /\ UNCHANGED <<rules, alert, resolved, notices, check, tally>>

\* What was seen of the rules with this ID no longer counts.
RuleChanged(id) ==
  /\ read' = IF read.rule.id = id /\ read.is = "current" THEN [read EXCEPT !.is = "changed"] ELSE read
  /\ seen' = {o \in seen : o.id # id}
  /\ UNCHANGED <<metric, alert, resolved, notices, check, tally>>

\* A rule of the same ID is replaced, whatever it said; its alert is left.
AddAlertRule(new) ==
  /\ rules' = {o \in rules : o.id # new.id} \cup {new}
  /\ RuleChanged(new.id)

RemoveAlertRule(id) ==
  /\ rules' = {o \in rules : o.id # id}
  /\ RuleChanged(id)

-----------------------------------------------------------------------------
(* CheckAlertRules                                                         *)

\* getEnabledAlertRules
BeginCheck ==
  /\ check.pc = "waiting"
  /\ check' = [pc |-> "checking", left |-> {o \in rules : o.enabled}]
  /\ UNCHANGED <<metric, rules, alert, resolved, notices, read, tally, seen>>

\* GetMetric and the decision; a rule whose metric is not there is passed over.
ReadMetric(o) ==
  /\ check.pc = "checking" /\ o \in check.left
  /\ check' = [pc |-> IF metric[o.metric] = Absent THEN "checking" ELSE "deciding",
               left |-> check.left \ {o}]
  /\ read' = IF metric[o.metric] = Absent THEN read
             ELSE [rule |-> o, value |-> metric[o.metric], raised |-> metric[o.metric] \in o.raises,
                   is |-> IF o \in rules THEN "current" ELSE "changed"]
  /\ UNCHANGED <<metric, rules, alert, resolved, notices, tally, seen>>

\* What createOrUpdateAlert and resolveAlert work on.
TheAlert == <<read.rule.id, read.rule.metric>>

\* The alert is left, and what was in hand put aside.
Decided ==
  /\ check' = [check EXCEPT !.pc = "checking"]
  /\ read' = NothingRead
  /\ seen' = IF read.is = "current" THEN seen \cup {read.rule} ELSE seen
  /\ UNCHANGED <<metric, rules>>

\* createOrUpdateAlert, with what the metric is by now: a full channel is
\* not waited for.
Raise ==
  /\ check.pc = "deciding" /\ read.raised
  /\ alert' = [alert EXCEPT ![TheAlert] = read.value]
  /\ IF alert[TheAlert] # Absent
       THEN UNCHANGED <<notices, tally>>
       ELSE /\ tally.created < MaxAlerts
            /\ tally' = [tally EXCEPT !.created = @ + 1,
                                      !.dropped = IF notices < ChanSize THEN @ ELSE @ + 1]
            /\ notices' = IF notices < ChanSize THEN notices + 1 ELSE notices
  /\ Decided
  /\ UNCHANGED resolved

\* The alert is moved to the history and stays active.
ResolveKeeps ==
  /\ check.pc = "deciding" /\ ~read.raised
  /\ resolved' = IF alert[TheAlert] = Absent THEN resolved ELSE resolved + 1
  /\ Decided
  /\ UNCHANGED <<alert, notices, tally>>

\* resolveAlert
Resolve ==
  /\ check.pc = "deciding" /\ ~read.raised
  /\ resolved' = IF alert[TheAlert] = Absent THEN resolved ELSE resolved + 1
  /\ alert' = [alert EXCEPT ![TheAlert] = Absent]
  /\ Decided
  /\ UNCHANGED <<notices, tally>>

\* cleanupAlertHistory: one, however many there are too many.
EndCheck ==
  /\ check.pc = "checking" /\ check.left = {}
  /\ check' = [check EXCEPT !.pc = "waiting"]
  /\ IF resolved > HistoryMax
       THEN resolved' = resolved - 1 /\ tally' = [tally EXCEPT !.trimmed = @ + 1]
       ELSE UNCHANGED <<resolved, tally>>
  /\ UNCHANGED <<metric, rules, alert, notices, read, seen>>

\* Stop: the loop meets ctx.Done between two checks.
StopChecking ==
  /\ check.pc = "waiting"
  /\ check' = [check EXCEPT !.pc = "stopped"]
  /\ UNCHANGED <<metric, rules, alert, resolved, notices, read, tally, seen>>

\* Whoever reads the channel takes a notification.
TakeNotice ==
  /\ notices > 0
  /\ notices' = notices - 1
  /\ UNCHANGED <<metric, rules, alert, resolved, check, read, tally, seen>>

AlertNext ==
  \/ \E n \in MetricNames, v \in MetricValues : UpdateInPlace(n, v) \/ RecordMetric(n, v)
  \/ CleanupOldMetrics
  \/ \E o \in Rules : AddAlertRule(o) \/ ReadMetric(o)
  \/ \E id \in RuleIDs : RemoveAlertRule(id)
  \/ BeginCheck \/ Raise \/ Resolve \/ EndCheck \/ StopChecking \/ TakeNotice

AlertSpec == AlertInit /\ [][AlertNext]_alertVars

-----------------------------------------------------------------------------
(* Properties                                                              *)

\* Type invariant of the alert manager.
AlertTypeOK ==
  /\ metric \in [MetricNames -> MetricValues \cup {Absent}]
  /\ rules \subseteq Rules
  /\ alert \in [AlertID -> MetricValues \cup {Absent}]
  /\ resolved \in Nat /\ notices \in 0..ChanSize
  /\ check \in [pc : {"waiting", "checking", "deciding", "stopped"}, left : SUBSET Rules]
  /\ read \in [rule : Rules, value : MetricValues \cup {Absent}, raised : BOOLEAN,
               is : {"current", "changed", "gone"}]
  /\ tally \in [created : 0..MaxAlerts, dropped : Nat, trimmed : Nat]
  /\ seen \subseteq Rules

\* Every alert that was created is active, in the history, or trimmed from
\* it.  And once a rule has been checked with neither it nor its metric
\* replaced, updated or removed since the check found the metric, there is an
\* alert of that rule and metric exactly when the metric's value raises one,
\* and it shows that value, whatever checks on older snapshots have done
\* (processAlertRule, createOrUpdateAlert, resolveAlert).
AlertsFollow ==
  /\ tally.created = Cardinality({i \in AlertID : alert[i] # Absent}) + resolved + tally.trimmed
  /\ \A o \in seen :
       alert[<<o.id, o.metric>>] = IF metric[o.metric] \in o.raises THEN metric[o.metric] ELSE Absent
=============================================================================
