-------------------------- MODULE GitLabSideProofs --------------------------
(***************************************************************************)
(* Proofs about what talks to GitLab and what watches the server, for any  *)
(* callers, requests, rules, metrics, endpoints and error types: alerts    *)
(* follow their metrics and none is lost, a status is the newest probe's,  *)
(* recoveries are counted, what the client reports was made; and all the   *)
(* variables of MCGitLabSide have their types.                             *)
(***************************************************************************)
EXTENDS MCGitLabSide, GitLabWebhookProofs, FiniteSetTheorems

-----------------------------------------------------------------------------
(* Alerts                                                                  *)

Active == {i \in AlertID : alert[i] # Absent}

CheckType == [pc : {"waiting", "checking", "deciding", "stopped"}, left : SUBSET Rules]

ReadType ==
  [rule : Rules, value : MetricValues \cup {Absent}, raised : BOOLEAN, is : {"current", "changed", "gone"}]

TallyType == [created : Nat, dropped : Nat, trimmed : Nat]

AlertShapes ==
  /\ metric \in [MetricNames -> MetricValues \cup {Absent}]
  /\ alert \in [AlertID -> MetricValues \cup {Absent}]
  /\ rules \subseteq Rules /\ seen \subseteq rules
  /\ resolved \in Nat /\ check \in CheckType /\ read \in ReadType /\ tally \in TallyType
  /\ check.pc = "deciding" => read.value # Absent

\* No alert is forgotten.
AlertsCounted ==
  /\ IsFiniteSet(Active)
  /\ tally.created = Cardinality(Active) + resolved + tally.trimmed

\* No two rules share an ID, in the manager or in a snapshot; and what is left
\* of a snapshot, or in hand, under the ID of a rule that was seen is that rule.
OneEach ==
  /\ \A o, q \in rules : o.id = q.id => o = q
  /\ \A o, q \in check.left : o.id = q.id => o = q
  /\ \A o \in check.left, q \in seen : o.id = q.id => o = q
  /\ check.pc = "deciding" =>
       /\ \A o \in check.left : o.id # read.rule.id
       /\ \A q \in seen : q.id = read.rule.id => q = read.rule /\ read.is = "current"

\* What is in hand and current is what the metric and the rule say.
InHand ==
  read.is = "current" =>
    /\ check.pc = "deciding" /\ read.rule \in rules
    /\ read.value = metric[read.rule.metric]
    /\ read.raised <=> read.value \in read.rule.raises

\* Of a rule that was seen there is the alert its metric asks for.
Followed ==
  \A o \in seen :
    alert[<<o.id, o.metric>>] = IF metric[o.metric] \in o.raises THEN metric[o.metric] ELSE Absent

AlertInv == AlertShapes /\ AlertsCounted /\ OneEach /\ InHand /\ Followed

LEMMA RuleType ==
  \A o \in Rules : o.id \in RuleIDs /\ o.metric \in MetricNames /\ <<o.id, o.metric>> \in AlertID
BY AlertAssumption DEF Rule, AlertID

LEMMA AbsentIsNone == Absent \notin MetricValues
BY AlertAssumption DEF Absent

LEMMA NothingReadType == NothingRead \in ReadType /\ NothingRead.is = "gone"
<1>1. (CHOOSE o \in Rules : TRUE) \in Rules
  BY AlertAssumption
<1> QED BY <1>1 DEF NothingRead, ReadType

LEMMA AlertInvInit == AlertInit => AlertInv
<1> SUFFICES ASSUME AlertInit PROVE AlertInv
  OBVIOUS
<1>1. AlertShapes
  BY NothingReadType DEF AlertInit, AlertShapes, CheckType, TallyType
<1>2. Active = {}
  BY DEF AlertInit, Active
<1>3. AlertsCounted
  BY <1>2, FS_EmptySet DEF AlertInit, AlertsCounted
<1>4. OneEach /\ InHand /\ Followed
  BY NothingReadType DEF AlertInit, OneEach, InHand, Followed
<1> QED BY <1>1, <1>3, <1>4 DEF AlertInv

\* The steps that record or drop metrics: what is in hand of a metric that
\* changed is not current any more, and its rules are not seen.
LEMMA MetricsKeep ==
  ASSUME AlertInv, \/ \E n \in MetricNames, v \in MetricValues : UpdateInPlace(n, v) \/ RecordMetric(n, v)
                   \/ CleanupOldMetrics
  PROVE  AlertInv'
<1>1. /\ alert' = alert /\ resolved' = resolved /\ check' = check /\ tally' = tally /\ rules' = rules
      /\ metric \in [MetricNames -> MetricValues \cup {Absent}] /\ read \in ReadType
      /\ check.pc = "deciding" => read.value # Absent
  BY DEF UpdateInPlace, RecordMetric, CleanupOldMetrics, AlertInv, AlertShapes
<1>2. PICK S \in SUBSET MetricNames :
        /\ metric' \in [MetricNames -> MetricValues \cup {Absent}]
        /\ \A m \in MetricNames \ S : metric'[m] = metric[m]
        /\ seen' = {o \in seen : o.metric \notin S}
        /\ read' \in ReadType /\ read'.rule = read.rule /\ read'.raised = read.raised
        /\ check.pc = "deciding" => read'.value # Absent
        /\ IF read.rule.metric \in S THEN read'.is # "current" ELSE read' = read
  <2>1. CASE \E n \in MetricNames, v \in MetricValues : UpdateInPlace(n, v)
    <3>1. PICK n \in MetricNames, v \in MetricValues : UpdateInPlace(n, v)
      BY <2>1
    <3>2. /\ metric' = [metric EXCEPT ![n] = v] /\ seen' = {o \in seen : o.metric \notin {n}}
          /\ read' = IF read.rule.metric = n /\ read.is # "gone"
                       THEN [read EXCEPT !.value = v, !.is = "changed"] ELSE read
      BY <3>1 DEF UpdateInPlace
    <3>3. /\ read' \in ReadType /\ read'.rule = read.rule /\ read'.raised = read.raised
          /\ check.pc = "deciding" => read'.value # Absent
          /\ IF read.rule.metric \in {n} THEN read'.is # "current" ELSE read' = read
      <4>1. CASE read.rule.metric = n /\ read.is # "gone"
        BY <1>1, <3>2, <4>1, AbsentIsNone DEF ReadType
      <4>2. CASE ~(read.rule.metric = n /\ read.is # "gone")
        BY <1>1, <3>2, <4>2
      <4> QED BY <4>1, <4>2
    <3> QED BY <1>1, <3>2, <3>3
  <2>2. CASE \E n \in MetricNames, v \in MetricValues : RecordMetric(n, v)
    <3>1. PICK n \in MetricNames, v \in MetricValues : RecordMetric(n, v)
      BY <2>2
    <3>2. /\ metric' = [metric EXCEPT ![n] = v] /\ seen' = {o \in seen : o.metric \notin {n}}
          /\ read' = IF read.rule.metric \in {n} THEN [read EXCEPT !.is = "gone"] ELSE read
      BY <3>1 DEF RecordMetric
    <3>3. /\ read' \in ReadType /\ read'.rule = read.rule /\ read'.raised = read.raised
          /\ read'.value = read.value
          /\ IF read.rule.metric \in {n} THEN read'.is # "current" ELSE read' = read
      BY <1>1, <3>2 DEF ReadType
    <3>4. /\ metric' \in [MetricNames -> MetricValues \cup {Absent}]
          /\ \A m \in MetricNames \ {n} : metric'[m] = metric[m]
      BY <1>1, <3>2
    <3> QED BY <1>1, <3>2, <3>3, <3>4
  <2>3. CASE CleanupOldMetrics
    BY <1>1, <2>3 DEF CleanupOldMetrics, ReadType
  <2> QED BY <2>1, <2>2, <2>3
<1>3. AlertShapes'
  BY <1>1, <1>2 DEF AlertInv, AlertShapes
<1>4. AlertsCounted'
  BY <1>1 DEF AlertInv, AlertsCounted, Active
<1>5. OneEach'
  <2>1. ASSUME check.pc = "deciding", NEW q \in seen', q.id = read.rule.id
        PROVE  q = read.rule /\ read'.is = "current"
    <3>1. q \in seen /\ q.metric \notin S /\ q = read.rule /\ read.is = "current"
      BY <1>2, <2>1 DEF AlertInv, OneEach
    <3> QED BY <1>2, <3>1
  <2> QED BY <1>1, <1>2, <2>1 DEF AlertInv, OneEach
<1>6. InHand'
  <2>1. read.rule.metric \in MetricNames
    BY <1>1, RuleType DEF ReadType
  <2> QED BY <1>1, <1>2, <2>1 DEF AlertInv, InHand
<1>7. Followed'
  <2>1. \A o \in seen' : o \in seen /\ metric'[o.metric] = metric[o.metric]
    BY <1>2, RuleType DEF AlertInv, AlertShapes
  <2> QED BY <1>1, <2>1 DEF AlertInv, Followed
<1> QED BY <1>3, <1>4, <1>5, <1>6, <1>7 DEF AlertInv

\* A rule is added, replaced or removed.
LEMMA RulesKeep ==
  ASSUME AlertInv, \/ \E o \in Rules : AddAlertRule(o)
                   \/ \E id \in RuleIDs : RemoveAlertRule(id)
  PROVE  AlertInv'
<1>1. PICK id \in RuleIDs, N \in SUBSET Rules :
        /\ \A o \in N : o.id = id /\ (\A q \in N : o = q)
        /\ rules' = {o \in rules : o.id # id} \cup N
        /\ RuleChanged(id)
  <2>1. CASE \E o \in Rules : AddAlertRule(o)
    <3>1. PICK o \in Rules : AddAlertRule(o)
      BY <2>1
    <3>2. o.id \in RuleIDs /\ {o} \in SUBSET Rules
      BY RuleType
    <3> QED BY <3>1, <3>2 DEF AddAlertRule
  <2>2. CASE \E id \in RuleIDs : RemoveAlertRule(id)
    <3>1. PICK id \in RuleIDs : RemoveAlertRule(id)
      BY <2>2
    <3>2. rules' = {o \in rules : o.id # id} \cup {} /\ RuleChanged(id)
      BY <3>1 DEF RemoveAlertRule
    <3> WITNESS id \in RuleIDs, {} \in SUBSET Rules
    <3> QED BY <3>2
  <2> QED BY <2>1, <2>2
<1>2. /\ alert' = alert /\ metric' = metric /\ resolved' = resolved /\ check' = check /\ tally' = tally
      /\ read \in ReadType /\ seen' = {o \in seen : o.id # id}
      /\ read' = IF read.rule.id = id /\ read.is = "current" THEN [read EXCEPT !.is = "changed"] ELSE read
  BY <1>1 DEF RuleChanged, AlertInv, AlertShapes
<1>3. /\ read' \in ReadType /\ read'.rule = read.rule /\ read'.value = read.value /\ read'.raised = read.raised
      /\ read'.is = "current" => read.is = "current" /\ read.rule.id # id
      /\ read.rule.id # id => read' = read
  BY <1>2 DEF ReadType
<1>4. AlertShapes'
  BY <1>1, <1>2, <1>3 DEF AlertInv, AlertShapes
<1>5. AlertsCounted'
  BY <1>2 DEF AlertInv, AlertsCounted, Active
<1>6. OneEach'
  <2>1. \A o, q \in rules' : o.id = q.id => o = q
    BY <1>1 DEF AlertInv, OneEach
  <2>2. \A q \in seen' : q \in seen /\ q.id # id
    BY <1>2
  <2> QED BY <1>2, <1>3, <2>1, <2>2 DEF AlertInv, OneEach
<1>7. InHand'
  BY <1>1, <1>2, <1>3 DEF AlertInv, InHand
<1>8. Followed'
  BY <1>2 DEF AlertInv, Followed
<1> QED BY <1>4, <1>5, <1>6, <1>7, <1>8 DEF AlertInv

\* The loop begins or ends a check, or stops; a reader takes a notification.
LEMMA LoopKeeps ==
  ASSUME AlertInv, BeginCheck \/ StopChecking \/ EndCheck \/ TakeNotice
  PROVE  AlertInv'
<1>1. /\ alert' = alert /\ metric' = metric /\ seen' = seen /\ rules' = rules /\ read' = read
      /\ rules \subseteq Rules /\ seen \subseteq rules /\ check \in CheckType
  BY DEF AlertInv, AlertShapes, BeginCheck, StopChecking, EndCheck, TakeNotice
<1>2. /\ check' \in CheckType /\ check'.left \subseteq check.left \cup rules
      /\ check' = check \/ (check.pc # "deciding" /\ check'.pc # "deciding")
      /\ check'.left = check.left \/ check'.left \subseteq rules
  <2>1. CASE BeginCheck
    BY <1>1, <2>1 DEF BeginCheck, CheckType
  <2>2. CASE StopChecking \/ EndCheck \/ TakeNotice
    BY <1>1, <2>2 DEF StopChecking, EndCheck, TakeNotice, CheckType
  <2> QED BY <2>1, <2>2
<1>3. /\ resolved' \in Nat /\ tally' \in TallyType /\ tally'.created = tally.created
      /\ resolved' + tally'.trimmed = resolved + tally.trimmed
  <2>0. resolved \in Nat /\ tally \in TallyType /\ HistoryMax \in Nat
    BY AlertAssumption DEF AlertInv, AlertShapes
  <2>1. CASE UNCHANGED <<resolved, tally>>
    BY <2>0, <2>1
  <2>2. CASE /\ resolved > HistoryMax
             /\ resolved' = resolved - 1 /\ tally' = [tally EXCEPT !.trimmed = @ + 1]
    BY <2>0, <2>2 DEF TallyType
  <2> QED BY <2>1, <2>2 DEF BeginCheck, StopChecking, EndCheck, TakeNotice
<1>4. AlertShapes'
  BY <1>1, <1>2, <1>3 DEF AlertInv, AlertShapes
<1>5. AlertsCounted'
  <2>1. Active' = Active /\ Cardinality(Active) \in Nat
    BY <1>1, FS_CardinalityType DEF Active, AlertInv, AlertsCounted
  <2> QED BY <1>3, <2>1 DEF AlertInv, AlertsCounted, AlertShapes, TallyType
<1>6. OneEach'
  BY <1>1, <1>2 DEF AlertInv, OneEach
<1>7. InHand' /\ Followed'
  BY <1>1, <1>2 DEF AlertInv, InHand, Followed
<1> QED BY <1>4, <1>5, <1>6, <1>7 DEF AlertInv

LEMMA ReadKeeps ==
  ASSUME AlertInv, NEW p \in Rules, ReadMetric(p)
  PROVE  AlertInv'
<1>0. /\ metric \in [MetricNames -> MetricValues \cup {Absent}] /\ metric[p.metric] \in MetricValues \cup {Absent}
      /\ check \in CheckType /\ read \in ReadType /\ check.pc = "checking" /\ p \in check.left
      /\ rules \subseteq Rules /\ seen \subseteq rules
      /\ alert' = alert /\ metric' = metric /\ resolved' = resolved /\ tally' = tally
      /\ rules' = rules /\ seen' = seen
  BY RuleType DEF AlertInv, AlertShapes, ReadMetric
<1>1. AlertsCounted' /\ Followed'
  BY <1>0 DEF AlertInv, AlertsCounted, Active, Followed
<1>2. CASE metric[p.metric] = Absent
  <2>1. check' = [pc |-> "checking", left |-> check.left \ {p}] /\ read' = read
    BY <1>2 DEF ReadMetric
  <2>2. check' \in CheckType /\ check'.pc = "checking" /\ check'.left \subseteq check.left
    BY <1>0, <2>1 DEF CheckType
  <2> QED BY <1>0, <1>1, <2>1, <2>2 DEF AlertInv, AlertShapes, OneEach, InHand
<1>3. CASE metric[p.metric] # Absent
  <2> DEFINE is == IF p \in rules THEN "current" ELSE "changed"
             raised == metric[p.metric] \in p.raises
  <2>1. /\ check' = [pc |-> "deciding", left |-> check.left \ {p}]
        /\ read' = [rule |-> p, value |-> metric[p.metric], raised |-> raised, is |-> is]
    BY <1>3 DEF ReadMetric
  <2>2. raised \in BOOLEAN /\ is \in {"current", "changed", "gone"} /\ (is = "current" <=> p \in rules)
    OBVIOUS
  <2>3. raised <=> metric[p.metric] \in p.raises
    OBVIOUS
  <2> HIDE DEF is, raised
  <2>4. /\ check' \in CheckType /\ check'.pc = "deciding" /\ check'.left = check.left \ {p}
        /\ read' \in ReadType /\ read'.rule = p /\ read'.value = metric[p.metric]
        /\ read'.raised = raised /\ read'.is = is
    BY <1>0, <2>1, <2>2 DEF CheckType, ReadType
  <2>5. AlertShapes'
    BY <1>0, <1>3, <2>4 DEF AlertInv, AlertShapes
  <2>6. OneEach'
    BY <1>0, <2>2, <2>4 DEF AlertInv, OneEach
  <2>7. InHand'
    BY <1>0, <2>2, <2>3, <2>4 DEF InHand
  <2> QED BY <1>1, <2>5, <2>6, <2>7 DEF AlertInv
<1> QED BY <1>2, <1>3

\* What the number of active alerts becomes with one alert.
LEMMA ActiveEffect ==
  ASSUME AlertInv, NEW r \in AlertID, NEW v \in MetricValues \cup {Absent},
         alert' = [alert EXCEPT ![r] = v]
  PROVE  /\ IsFiniteSet(Active') /\ Cardinality(Active) \in Nat /\ Cardinality(Active') \in Nat
         /\ Cardinality(Active') = Cardinality(Active)
              + (IF alert[r] = Absent /\ v # Absent THEN 1 ELSE 0)
              - (IF alert[r] # Absent /\ v = Absent THEN 1 ELSE 0)
<1>1. IsFiniteSet(Active) /\ Cardinality(Active) \in Nat /\ alert \in [AlertID -> MetricValues \cup {Absent}]
  BY FS_CardinalityType DEF AlertInv, AlertsCounted, AlertShapes
<1>2. Active' = IF v = Absent THEN Active \ {r} ELSE Active \cup {r}
  BY <1>1 DEF Active
<1>3. r \in Active <=> alert[r] # Absent
  BY DEF Active
<1>4. CASE v = Absent
  <2>1. /\ IsFiniteSet(Active \ {r})
        /\ Cardinality(Active \ {r}) = IF r \in Active THEN Cardinality(Active) - 1 ELSE Cardinality(Active)
    BY <1>1, FS_RemoveElement
  <2>2. Cardinality(Active \ {r}) \in Nat
    BY <2>1, FS_CardinalityType
  <2>3. Active' = Active \ {r}
    BY <1>2, <1>4
  <2> QED BY <1>1, <1>3, <1>4, <2>1, <2>2, <2>3
<1>5. CASE v # Absent
  <2>1. /\ IsFiniteSet(Active \cup {r})
        /\ Cardinality(Active \cup {r}) = IF r \in Active THEN Cardinality(Active) ELSE Cardinality(Active) + 1
    BY <1>1, FS_AddElement
  <2>2. Active' = Active \cup {r}
    BY <1>2, <1>5
  <2> QED BY <1>1, <1>3, <1>5, <2>1, <2>2
<1> QED BY <1>4, <1>5

LEMMA DecideKeeps == ASSUME AlertInv, Raise \/ Resolve PROVE AlertInv'
<1> DEFINE i == TheAlert
           v == IF read.raised THEN read.value ELSE Absent
<1>0. /\ check \in CheckType /\ read \in ReadType /\ check.pc = "deciding" /\ read.value # Absent
      /\ read.rule \in Rules /\ i \in AlertID
      /\ v \in MetricValues \cup {Absent} /\ (v = Absent <=> ~read.raised)
      /\ resolved \in Nat /\ tally \in TallyType /\ alert \in [AlertID -> MetricValues \cup {Absent}]
      /\ rules \subseteq Rules /\ seen \subseteq rules
      /\ metric' = metric /\ rules' = rules /\ read' = NothingRead
      /\ check' = [check EXCEPT !.pc = "checking"]
      /\ seen' = IF read.is = "current" THEN seen \cup {read.rule} ELSE seen
  BY RuleType DEF AlertInv, AlertShapes, ReadType, TheAlert, Raise, Resolve, Decided
<1>1. alert' = [alert EXCEPT ![i] = v]
  BY <1>0 DEF Raise, Resolve
<1>2. /\ check' \in CheckType /\ check'.pc = "checking" /\ check'.left = check.left
      /\ read' \in ReadType /\ read'.is = "gone"
  BY <1>0, NothingReadType DEF CheckType
<1>3. /\ resolved' \in Nat /\ tally' \in TallyType
      /\ tally'.created = tally.created + (IF alert[i] = Absent /\ v # Absent THEN 1 ELSE 0)
      /\ tally'.trimmed = tally.trimmed
      /\ resolved' = resolved + (IF alert[i] # Absent /\ v = Absent THEN 1 ELSE 0)
  <2>1. CASE Raise /\ alert[i] # Absent
    BY <1>0, <2>1 DEF Raise, TallyType
  <2>2. CASE Raise /\ alert[i] = Absent
    <3>1. /\ v # Absent /\ resolved' = resolved
          /\ tally' = [tally EXCEPT !.created = @ + 1,
                                    !.dropped = IF notices < ChanSize THEN @ ELSE @ + 1]
      BY <1>0, <2>2 DEF Raise
    <3> DEFINE d == IF notices < ChanSize THEN tally.dropped ELSE tally.dropped + 1
    <3>2. d \in Nat
      BY <1>0 DEF TallyType
    <3>0. tally \in TallyType
      BY <1>0
    <3>3. tally' = [created |-> tally.created + 1, dropped |-> d, trimmed |-> tally.trimmed]
      BY <3>0, <3>1 DEF TallyType
    <3> HIDE DEF d, v, i
    <3>4. /\ tally' \in TallyType /\ tally'.created = tally.created + 1
          /\ tally'.trimmed = tally.trimmed
      BY <3>0, <3>2, <3>3 DEF TallyType
    <3> QED BY <1>0, <2>2, <3>1, <3>4
  <2>3. CASE Resolve
    BY <1>0, <2>3 DEF Resolve, TallyType
  <2> QED BY <2>1, <2>2, <2>3
<1>4. AlertsCounted'
  <2>1. tally.created = Cardinality(Active) + resolved + tally.trimmed
    BY DEF AlertInv, AlertsCounted
  <2> HIDE DEF v, i
  <2>2. /\ IsFiniteSet(Active') /\ Cardinality(Active) \in Nat /\ Cardinality(Active') \in Nat
        /\ Cardinality(Active') = Cardinality(Active)
              + (IF alert[i] = Absent /\ v # Absent THEN 1 ELSE 0)
              - (IF alert[i] # Absent /\ v = Absent THEN 1 ELSE 0)
    BY <1>0, <1>1, ActiveEffect
  <2> QED BY <1>0, <1>3, <2>1, <2>2 DEF AlertsCounted, TallyType
<1>5. seen' \subseteq rules
  BY <1>0 DEF AlertInv, InHand
<1>6. AlertShapes'
  BY <1>0, <1>1, <1>2, <1>3, <1>5 DEF AlertInv, AlertShapes
<1>7. OneEach'
  BY <1>0, <1>2 DEF AlertInv, OneEach
<1>8. InHand'
  BY <1>2 DEF InHand
<1>9. Followed'
  <2> SUFFICES ASSUME NEW o \in seen'
               PROVE  alert'[<<o.id, o.metric>>]
                        = IF metric[o.metric] \in o.raises THEN metric[o.metric] ELSE Absent
    BY <1>0 DEF Followed
  <2>0. <<o.id, o.metric>> \in AlertID
    BY <1>0, <1>5, RuleType
  <2>1. CASE o.id = read.rule.id
    <3>1. o = read.rule /\ read.is = "current"
      BY <1>0, <2>1 DEF AlertInv, OneEach
    <3>2. read.value = metric[o.metric] /\ (read.raised <=> read.value \in o.raises)
      BY <3>1 DEF AlertInv, InHand
    <3>3. i = <<o.id, o.metric>>
      BY <3>1 DEF TheAlert
    <3> QED BY <1>0, <1>1, <2>0, <3>2, <3>3
  <2>2. CASE o.id # read.rule.id
    <3>1. o \in seen /\ <<o.id, o.metric>> # i
      BY <1>0, <2>2 DEF TheAlert
    <3> QED BY <1>0, <1>1, <2>0, <3>1 DEF AlertInv, Followed
  <2> QED BY <2>1, <2>2
<1> QED BY <1>4, <1>6, <1>7, <1>8, <1>9 DEF AlertInv

\* The limits of the channel and the model.
AlertBounds == notices \in 0..ChanSize /\ tally.created <= MaxAlerts

LEMMA AlertBoundsStep ==
  AlertInv /\ AlertBounds /\ [AlertNext]_alertVars => AlertBounds'
<1> SUFFICES ASSUME AlertInv, AlertBounds, [AlertNext]_alertVars PROVE AlertBounds'
  OBVIOUS
<1>0. ChanSize \in Nat /\ MaxAlerts \in Nat /\ tally \in TallyType
  BY AlertAssumption DEF AlertInv, AlertShapes
<1>1. CASE \/ \E n \in MetricNames, v \in MetricValues : UpdateInPlace(n, v) \/ RecordMetric(n, v)
           \/ CleanupOldMetrics
  BY <1>1 DEF UpdateInPlace, RecordMetric, CleanupOldMetrics, AlertBounds
<1>2. CASE \/ \E o \in Rules : AddAlertRule(o) \/ ReadMetric(o)
           \/ \E id \in RuleIDs : RemoveAlertRule(id)
  BY <1>2 DEF AddAlertRule, RemoveAlertRule, RuleChanged, ReadMetric, AlertBounds
<1>3. CASE BeginCheck \/ StopChecking \/ TakeNotice \/ Resolve \/ UNCHANGED alertVars
  BY <1>0, <1>3 DEF BeginCheck, StopChecking, TakeNotice, Resolve, alertVars, AlertBounds
<1>4. CASE EndCheck
  BY <1>0, <1>4 DEF EndCheck, AlertBounds, TallyType
<1>5. CASE Raise
  <2>1. /\ notices' = notices \/ (notices < ChanSize /\ notices' = notices + 1)
        /\ tally' = tally \/ (tally.created < MaxAlerts /\ tally'.created = tally.created + 1)
    BY <1>0, <1>5 DEF Raise, TallyType
  <2> QED BY <1>0, <2>1 DEF AlertBounds, TallyType
<1> QED BY <1>1, <1>2, <1>3, <1>4, <1>5 DEF AlertNext

LEMMA AlertInvStep == AlertInv /\ [AlertNext]_alertVars => AlertInv'
<1> SUFFICES ASSUME AlertInv, [AlertNext]_alertVars PROVE AlertInv'
  OBVIOUS
<1>1. CASE AlertNext
  BY <1>1, MetricsKeep, RulesKeep, LoopKeeps, ReadKeeps, DecideKeeps DEF AlertNext
<1>2. CASE UNCHANGED alertVars
  BY <1>2 DEF alertVars, AlertInv, AlertShapes, AlertsCounted, Active, OneEach, InHand, Followed
<1> QED BY <1>1, <1>2

LEMMA AlertBoundsInit == AlertInit => AlertBounds
BY AlertAssumption DEF AlertInit, AlertBounds

LEMMA AlertInvTells == AlertInv /\ AlertBounds => AlertsFollow /\ AlertTypeOK
<1> SUFFICES ASSUME AlertInv, AlertBounds PROVE AlertsFollow /\ AlertTypeOK
  OBVIOUS
<1>1. AlertsFollow
  BY DEF AlertInv, AlertsCounted, Active, Followed, AlertsFollow
<1>2. AlertTypeOK
  BY AlertAssumption
     DEF AlertInv, AlertBounds, AlertShapes, CheckType, ReadType, TallyType, AlertTypeOK
<1> QED BY <1>1, <1>2

\* For any rules, also ones that replace others and name other metrics, any
\* metrics, limits and interleaving of the loop with whoever records metrics
\* and changes rules: no alert is lost between the active ones, the history
\* and what was trimmed from it, and what a check leaves of a rule, unless
\* that rule or its metric changed under it, is what the metric asks for, until
\* one of them changes (CheckAlertRules, AddAlertRule, cleanupAlertHistory).
THEOREM AlertsAreTrue == AlertSpec => []AlertsFollow
BY AlertInvInit, AlertInvStep, AlertBoundsInit, AlertBoundsStep, AlertInvTells, PTL DEF AlertSpec

-----------------------------------------------------------------------------
(* The webhook monitor                                                     *)

Answers == {"unknown", "healthy", "unhealthy"}

\* The probes of an endpoint under way, and its status's failures so far.
Pending(e) == {p \in probes : p.endpoint = e}
Failures(e) == IF e \in DOMAIN statuses THEN statuses[e].failures ELSE 0

MonitorTyped ==
  /\ loop \in {"unborn", "running", "stopped"}
  /\ begun \in 0..MaxProbes /\ reports \in 0..MaxReports
  /\ probes \subseteq [number : 1..begun, endpoint : Endpoints \cup Elsewhere] /\ IsFiniteSet(probes)
  /\ lastSaid \in [Endpoints -> [newest : 0..begun, answer : Answers, last : Nat]]
  /\ statuses \in [DOMAIN statuses -> [status : Answers, failures : Nat]]
  /\ metrics \in [DOMAIN metrics -> [total : Nat, good : Nat, bad : Nat]]
  /\ DOMAIN metrics \subseteq Endpoints \cup Elsewhere

\* Endpoints are known from Start on, and nothing is said of them before.
KnownOnceStarted ==
  /\ loop = "unborn" =>
       /\ DOMAIN statuses = {}
       /\ \A e \in Endpoints : lastSaid[e] = [newest |-> 0, answer |-> "unknown", last |-> 0]
  /\ loop # "unborn" => DOMAIN statuses = Endpoints /\ Endpoints \subseteq DOMAIN metrics

\* A probe under way is not the newest that has ended, and the one last to
\* end is not newer than it.
ProbesInOrder ==
  /\ \A e \in Endpoints : lastSaid[e].last <= lastSaid[e].newest
  /\ \A p \in probes : p.endpoint \in Endpoints => p.number # lastSaid[p.endpoint].newest

StatusesRight ==
  /\ \A e \in DOMAIN statuses :
       /\ lastSaid[e].last = lastSaid[e].newest => statuses[e].status = lastSaid[e].answer
       /\ statuses[e].failures <= metrics[e].bad
       /\ statuses[e].status # "unknown" => lastSaid[e].newest > 0
  /\ \A e \in DOMAIN metrics : metrics[e].total = metrics[e].good + metrics[e].bad

\* A failure is a probe that has ended.
FailuresWereProbes == \A e \in Endpoints : Failures(e) + Cardinality(Pending(e)) <= begun

MonitorInv ==
  MonitorTyped /\ KnownOnceStarted /\ ProbesInOrder /\ StatusesRight /\ FailuresWereProbes

LEMMA MonitorInvInit == WebhookInit => MonitorInv
<1> SUFFICES ASSUME WebhookInit PROVE MonitorInv
  OBVIOUS
<1> USE DEF WebhookInit
<1>1. MonitorTyped
  BY FS_EmptySet, WebhookMonitorAssumption DEF MonitorTyped, Answers
<1>2. KnownOnceStarted /\ ProbesInOrder /\ StatusesRight
  BY DEF KnownOnceStarted, ProbesInOrder, StatusesRight
<1>3. FailuresWereProbes
  <2>1. \A e \in Endpoints : Pending(e) = {} /\ Failures(e) = 0
    BY DEF Pending, Failures
  <2> QED BY <2>1, FS_EmptySet DEF FailuresWereProbes
<1> QED BY <1>1, <1>2, <1>3 DEF MonitorInv

LEMMA PendingFinite ==
  ASSUME IsFiniteSet(probes), NEW e
  PROVE  IsFiniteSet(Pending(e)) /\ Cardinality(Pending(e)) \in Nat
<1>1. Pending(e) \subseteq probes
  BY DEF Pending
<1> QED BY <1>1, FS_Subset, FS_CardinalityType

LEMMA FailuresType == MonitorTyped => \A e : Failures(e) \in Nat
BY DEF MonitorTyped, Failures

\* What one request, or one probe that has ended, makes of the metrics.
LEMMA CountedEffect ==
  ASSUME MonitorTyped, StatusesRight, KnownOnceStarted, NEW e \in Endpoints \cup Elsewhere, NEW good \in BOOLEAN,
         Counted(e, good)
  PROVE  /\ metrics' \in [DOMAIN metrics' -> [total : Nat, good : Nat, bad : Nat]]
         /\ DOMAIN metrics' = DOMAIN metrics \cup {e}
         /\ \A x \in DOMAIN metrics' : metrics'[x].total = metrics'[x].good + metrics'[x].bad
         /\ \A x \in DOMAIN metrics : metrics[x].bad <= metrics'[x].bad
         /\ ~good /\ e \in DOMAIN metrics => metrics'[e].bad = metrics[e].bad + 1
<1> DEFINE m == IF e \in DOMAIN metrics THEN metrics[e] ELSE NoRequests
           n == [total |-> m.total + 1, good |-> m.good + (IF good THEN 1 ELSE 0),
                 bad |-> m.bad + (IF good THEN 0 ELSE 1)]
<1>1. m \in [total : Nat, good : Nat, bad : Nat] /\ m.total = m.good + m.bad
  BY DEF MonitorTyped, StatusesRight, NoRequests
<1>2. n \in [total : Nat, good : Nat, bad : Nat] /\ n.total = n.good + n.bad /\ n.bad >= m.bad
      /\ (~good => n.bad = m.bad + 1)
  BY <1>1
<1>3. metrics' = [x \in DOMAIN metrics \cup {e} |-> IF x = e THEN n ELSE metrics[x]]
  BY DEF Counted
<1>4. e \in DOMAIN metrics => m = metrics[e]
  OBVIOUS
<1> HIDE DEF n, m
<1> QED BY <1>2, <1>3, <1>4 DEF MonitorTyped, StatusesRight

LEMMA StartStep ==
  ASSUME MonitorInv, StartMonitor
  PROVE  MonitorInv'
<1>1. MonitorTyped'
  BY DEF MonitorInv, MonitorTyped, StartMonitor, NoRequests, Answers
<1>2. KnownOnceStarted' /\ ProbesInOrder'
  BY DEF MonitorInv, KnownOnceStarted, ProbesInOrder, StartMonitor
<1>3. StatusesRight'
  BY DEF MonitorInv, MonitorTyped, KnownOnceStarted, StatusesRight, StartMonitor, NoRequests
<1>4. FailuresWereProbes'
  <2>1. \A e \in Endpoints : Pending(e)' = Pending(e) /\ Failures(e)' = 0 /\ Failures(e) = 0
    BY DEF StartMonitor, Pending, Failures, MonitorInv, KnownOnceStarted
  <2> QED BY <2>1 DEF StartMonitor, MonitorInv, FailuresWereProbes
<1> QED BY <1>1, <1>2, <1>3, <1>4 DEF MonitorInv

\* Probes are begun: for each endpoint one at most, with a new number.
LEMMA ProbeStep ==
  ASSUME MonitorInv, NEW ps, NEW n \in Nat \ {0}, IsFiniteSet(ps), begun + n <= MaxProbes,
         \A p \in ps : p = [number |-> begun + 1, endpoint |-> p.endpoint],
         \A p \in ps : p.endpoint \in Endpoints \cup Elsewhere,
         probes' = probes \cup ps, begun' = begun + n,
         UNCHANGED <<loop, statuses, metrics, reports, lastSaid>>
  PROVE  MonitorInv'
<1>1. MonitorTyped'
  <2>1. ps \subseteq [number : 1..begun', endpoint : Endpoints \cup Elsewhere]
    <3>1. begun + 1 \in 1..begun'
      BY DEF MonitorInv, MonitorTyped
    <3>2. ASSUME NEW p \in ps PROVE p \in [number : 1..begun', endpoint : Endpoints \cup Elsewhere]
      <4>1. p = [number |-> begun + 1, endpoint |-> p.endpoint] /\ p.endpoint \in Endpoints \cup Elsewhere
        OBVIOUS
      <4> QED BY <3>1, <4>1
    <3> QED BY <3>2
  <2>2. IsFiniteSet(probes')
    BY FS_Union DEF MonitorInv, MonitorTyped
  <2>3. begun' \in 0..MaxProbes /\ begun <= begun'
    BY WebhookMonitorAssumption DEF MonitorInv, MonitorTyped
  <2>4. probes' \subseteq [number : 1..begun', endpoint : Endpoints \cup Elsewhere]
    BY <2>1, <2>3 DEF MonitorInv, MonitorTyped
  <2>5. lastSaid' \in [Endpoints -> [newest : 0..begun', answer : Answers, last : Nat]]
    BY <2>3 DEF MonitorInv, MonitorTyped
  <2> QED BY <2>2, <2>3, <2>4, <2>5 DEF MonitorInv, MonitorTyped
<1>2. KnownOnceStarted' /\ StatusesRight'
  BY DEF MonitorInv, KnownOnceStarted, StatusesRight
<1>3. ProbesInOrder'
  <2>1. \A e \in Endpoints : lastSaid[e].newest <= begun /\ lastSaid[e].newest \in Nat /\ begun \in Nat
    BY DEF MonitorInv, MonitorTyped
  <2> QED BY <2>1 DEF MonitorInv, ProbesInOrder
<1>4. FailuresWereProbes'
  <2> SUFFICES ASSUME NEW e \in Endpoints
               PROVE  Failures(e)' + Cardinality(Pending(e)') <= begun'
    BY DEF FailuresWereProbes
  <2> DEFINE new == [number |-> begun + 1, endpoint |-> e]
  <2>1. Pending(e)' \subseteq Pending(e) \cup {new}
    BY DEF Pending
  <2>2. IsFiniteSet(Pending(e)) /\ Cardinality(Pending(e)) \in Nat
    BY PendingFinite DEF MonitorInv, MonitorTyped
  <2>3. /\ IsFiniteSet(Pending(e) \cup {new})
        /\ Cardinality(Pending(e) \cup {new}) \in {Cardinality(Pending(e)), Cardinality(Pending(e)) + 1}
    BY <2>2, FS_AddElement
  <2>4. Cardinality(Pending(e)') <= Cardinality(Pending(e)) + 1 /\ Cardinality(Pending(e)') \in Nat
    BY <2>1, <2>2, <2>3, FS_Subset, FS_CardinalityType
  <2>5. Failures(e)' = Failures(e) /\ Failures(e) \in Nat
    BY FailuresType DEF Failures, MonitorInv
  <2>6. Failures(e) + Cardinality(Pending(e)) <= begun /\ begun \in Nat
    BY DEF MonitorInv, FailuresWereProbes, MonitorTyped
  <2> QED BY <2>2, <2>4, <2>5, <2>6
<1> QED BY <1>1, <1>2, <1>3, <1>4 DEF MonitorInv

LEMMA CheckStep == ASSUME MonitorInv, CheckAllEndpoints PROVE MonitorInv'
<1> DEFINE ps == {[number |-> begun + 1, endpoint |-> e] : e \in Endpoints}
<1>1. CASE Endpoints = {}
  <2>1. Cardinality(Endpoints) = 0 /\ begun \in Nat
    BY <1>1, FS_EmptySet DEF MonitorInv, MonitorTyped
  <2>2. UNCHANGED webhookVars
    BY <1>1, <2>1 DEF CheckAllEndpoints, webhookVars
  <2> QED BY <2>2 DEF webhookVars, MonitorInv, MonitorTyped, KnownOnceStarted, ProbesInOrder, StatusesRight,
                      FailuresWereProbes, Failures, Pending
<1>2. CASE Endpoints # {}
  <2>1. Cardinality(Endpoints) \in Nat \ {0}
    BY <1>2, FS_CardinalityType, FS_EmptySet, WebhookMonitorAssumption
  <2>2. IsFiniteSet(ps)
    <3> DEFINE f == [e \in Endpoints |-> [number |-> begun + 1, endpoint |-> e]]
    <3>1. f \in Surjection(Endpoints, ps)
      BY DEF Surjection
    <3> QED BY <3>1, FS_Surjection, WebhookMonitorAssumption
  <2> QED BY <2>1, <2>2, ProbeStep DEF CheckAllEndpoints
<1> QED BY <1>1, <1>2

LEMMA ReconnectStep ==
  ASSUME MonitorInv, NEW e \in Endpoints \cup Elsewhere, HandleReconnect(e)
  PROVE  MonitorInv'
<1> DEFINE ps == {[number |-> begun + 1, endpoint |-> e]}
<1>1. IsFiniteSet(ps)
  BY FS_Singleton
<1>2. begun + 1 <= MaxProbes
  BY WebhookMonitorAssumption DEF MonitorInv, MonitorTyped, HandleReconnect
<1> QED BY <1>1, <1>2, ProbeStep DEF HandleReconnect

LEMMA UpdateStep ==
  ASSUME MonitorInv, NEW p \in probes, NEW good \in BOOLEAN, UpdateStatus(p, good)
  PROVE  MonitorInv'
<1> DEFINE e == p.endpoint
<1>0. /\ p \in [number : 1..begun, endpoint : Endpoints \cup Elsewhere] /\ begun \in 0..MaxProbes
      /\ probes' = probes \ {p} /\ IsFiniteSet(probes') /\ begun' = begun /\ loop' = loop /\ reports' = reports
  BY FS_RemoveElement DEF MonitorInv, MonitorTyped, UpdateStatus
<1>1. \A x : /\ Pending(x)' = Pending(x) \ {p} /\ IsFiniteSet(Pending(x)) /\ Cardinality(Pending(x)) \in Nat
             /\ Cardinality(Pending(x)') <= Cardinality(Pending(x)) /\ Cardinality(Pending(x)') \in Nat
  <2> SUFFICES ASSUME NEW x
               PROVE  /\ Pending(x)' = Pending(x) \ {p} /\ IsFiniteSet(Pending(x)) /\ Cardinality(Pending(x)) \in Nat
                      /\ Cardinality(Pending(x)') <= Cardinality(Pending(x)) /\ Cardinality(Pending(x)') \in Nat
    OBVIOUS
  <2>1. Pending(x)' = Pending(x) \ {p}
    BY <1>0 DEF Pending
  <2>2. IsFiniteSet(Pending(x)) /\ Cardinality(Pending(x)) \in Nat
    BY PendingFinite DEF MonitorInv, MonitorTyped
  <2> QED BY <2>1, <2>2, FS_Subset, FS_CardinalityType
<1>2. CASE e \notin DOMAIN statuses
  <2>1. UNCHANGED <<statuses, metrics, lastSaid>>
    BY <1>2 DEF UpdateStatus
  <2>2. FailuresWereProbes'
    <3>1. \A x \in Endpoints : Failures(x)' = Failures(x) /\ Failures(x) \in Nat
      BY <2>1, FailuresType DEF Failures, MonitorInv
    <3> QED BY <1>0, <1>1, <3>1 DEF MonitorInv, FailuresWereProbes
  <2> QED BY <1>0, <2>1, <2>2 DEF MonitorInv, MonitorTyped, KnownOnceStarted, ProbesInOrder, StatusesRight
<1>3. CASE e \in DOMAIN statuses
  <2> DEFINE answer == IF good THEN "healthy" ELSE "unhealthy"
             s == [status |-> answer,
                   failures |-> IF good THEN statuses[e].failures ELSE statuses[e].failures + 1]
  <2>1. e \in Endpoints /\ loop # "unborn" /\ e \in DOMAIN metrics /\ DOMAIN statuses = Endpoints
    BY <1>3 DEF MonitorInv, KnownOnceStarted
  <2>2. /\ statuses' = [statuses EXCEPT ![e] = s]
        /\ Counted(e, good)
        /\ lastSaid' = [lastSaid EXCEPT ![e] = Newest(p, answer)]
    BY <1>3 DEF UpdateStatus
  <2>3. /\ s.status = answer /\ answer \in {"healthy", "unhealthy"}
        /\ statuses[e].failures \in Nat /\ s.failures \in Nat
        /\ s.failures = IF good THEN statuses[e].failures ELSE statuses[e].failures + 1
        /\ s \in [status : Answers, failures : Nat]
    BY <1>3 DEF MonitorInv, MonitorTyped, Answers
  <2>4. /\ metrics' \in [DOMAIN metrics' -> [total : Nat, good : Nat, bad : Nat]]
        /\ DOMAIN metrics' = DOMAIN metrics
        /\ \A x \in DOMAIN metrics' : metrics'[x].total = metrics'[x].good + metrics'[x].bad
        /\ \A x \in DOMAIN metrics : metrics[x].bad <= metrics'[x].bad
        /\ ~good => metrics'[e].bad = metrics[e].bad + 1
    <3>1. e \in Endpoints \cup Elsewhere
      BY <2>1
    <3> HIDE DEF e
    <3> QED BY <2>1, <2>2, <3>1, CountedEffect DEF MonitorInv
  <2> DEFINE l == Newest(p, answer)
             old == lastSaid[e]
  <2>5. /\ old \in [newest : 0..begun, answer : Answers, last : Nat] /\ old.last <= old.newest
        /\ p.number # old.newest /\ p.number \in 1..begun
        /\ l = [newest |-> IF p.number > old.newest THEN p.number ELSE old.newest,
                answer |-> IF p.number > old.newest THEN answer ELSE old.answer, last |-> p.number]
    BY <1>0, <2>1 DEF MonitorInv, MonitorTyped, ProbesInOrder, Newest
  <2>6. /\ l \in [newest : 0..begun, answer : Answers, last : Nat]
        /\ l.last <= l.newest /\ l.newest > 0 /\ (l.last = l.newest => l.answer = answer)
        /\ l.newest \in {p.number, old.newest}
    BY <1>0, <2>3, <2>5 DEF Answers
  <2>7. /\ lastSaid' \in [Endpoints -> [newest : 0..begun, answer : Answers, last : Nat]]
        /\ lastSaid'[e] = l /\ \A x \in Endpoints \ {e} : lastSaid'[x] = lastSaid[x]
    BY <2>1, <2>2, <2>6 DEF MonitorInv, MonitorTyped
  <2>8. /\ statuses' \in [Endpoints -> [status : Answers, failures : Nat]]
        /\ statuses'[e] = s /\ \A x \in Endpoints \ {e} : statuses'[x] = statuses[x]
    BY <2>1, <2>2, <2>3 DEF MonitorInv, MonitorTyped
  <2> HIDE DEF s, l, answer
  <2>9. MonitorTyped'
    BY <1>0, <2>4, <2>7, <2>8 DEF MonitorInv, MonitorTyped
  <2>10. KnownOnceStarted'
    BY <1>0, <2>1, <2>4, <2>8 DEF MonitorInv, KnownOnceStarted
  <2>11. ProbesInOrder'
    <3>1. \A x \in Endpoints : lastSaid'[x].last <= lastSaid'[x].newest
      BY <2>6, <2>7 DEF MonitorInv, ProbesInOrder
    <3>2. ASSUME NEW q \in probes', q.endpoint \in Endpoints
          PROVE  q.number # lastSaid'[q.endpoint].newest
      <4>1. CASE q.endpoint # e
        BY <1>0, <2>7, <3>2, <4>1 DEF MonitorInv, ProbesInOrder
      <4>2. CASE q.endpoint = e
        <5>1. q.number # p.number
          <6>1. /\ q = [number |-> q.number, endpoint |-> q.endpoint]
                /\ p = [number |-> p.number, endpoint |-> p.endpoint] /\ q # p
            BY <1>0 DEF MonitorInv, MonitorTyped
          <6> QED BY <4>2, <6>1
        <5>2. q.number # old.newest
          BY <1>0, <4>2, <2>1 DEF MonitorInv, ProbesInOrder
        <5> QED BY <2>6, <2>7, <4>2, <5>1, <5>2
      <4> QED BY <4>1, <4>2
    <3> QED BY <3>1, <3>2 DEF ProbesInOrder
  <2>12. StatusesRight'
    <3>1. ASSUME NEW x \in Endpoints, x # e
          PROVE  /\ lastSaid'[x].last = lastSaid'[x].newest => statuses'[x].status = lastSaid'[x].answer
                 /\ statuses'[x].failures <= metrics'[x].bad
                 /\ statuses'[x].status # "unknown" => lastSaid'[x].newest > 0
      <4>1. lastSaid'[x] = lastSaid[x] /\ statuses'[x] = statuses[x] /\ x \in DOMAIN statuses /\ x \in DOMAIN metrics
        BY <2>1, <2>7, <2>8, <3>1 DEF MonitorInv, KnownOnceStarted
      <4>2. statuses[x].failures <= metrics[x].bad /\ metrics[x].bad <= metrics'[x].bad
            /\ statuses[x].failures \in Nat /\ metrics[x].bad \in Nat /\ metrics'[x].bad \in Nat
        BY <2>4, <4>1 DEF MonitorInv, StatusesRight, MonitorTyped
      <4> QED BY <4>1, <4>2 DEF MonitorInv, StatusesRight
    <3>2. s.failures <= metrics'[e].bad
      <4>1. statuses[e].failures <= metrics[e].bad /\ metrics[e].bad <= metrics'[e].bad
            /\ statuses[e].failures \in Nat /\ metrics[e].bad \in Nat /\ metrics'[e].bad \in Nat
        BY <2>1, <2>4 DEF MonitorInv, StatusesRight, MonitorTyped
      <4> QED BY <2>3, <2>4, <4>1
    <3>3. DOMAIN statuses' = Endpoints
      BY <2>8
    <3> QED BY <2>3, <2>4, <2>6, <2>7, <2>8, <3>1, <3>2, <3>3 DEF StatusesRight
  <2>13. FailuresWereProbes'
    <3> SUFFICES ASSUME NEW x \in Endpoints PROVE Failures(x)' + Cardinality(Pending(x)') <= begun'
      BY DEF FailuresWereProbes
    <3>1. Failures(x) + Cardinality(Pending(x)) <= begun /\ Failures(x) \in Nat /\ begun \in Nat
      BY FailuresType DEF MonitorInv, FailuresWereProbes, MonitorTyped
    <3>2. CASE x # e
      <4>1. Failures(x)' = Failures(x)
        BY <2>1, <2>8, <3>2 DEF Failures
      <4> QED BY <1>0, <1>1, <3>1, <4>1
    <3>3. CASE x = e
      <4>1. Failures(x)' <= Failures(x) + 1 /\ Failures(x)' \in Nat
        BY <2>1, <2>3, <2>8, <3>3 DEF Failures
      <4>2. p \in Pending(x)
        BY <3>3 DEF Pending
      <4>3. Cardinality(Pending(x)') = Cardinality(Pending(x)) - 1
        BY <1>1, <4>2, FS_RemoveElement
      <4> QED BY <1>0, <1>1, <3>1, <4>1, <4>3
    <3> QED BY <3>2, <3>3
  <2> QED BY <2>9, <2>10, <2>11, <2>12, <2>13 DEF MonitorInv
<1> QED BY <1>2, <1>3

LEMMA ReportStep ==
  ASSUME MonitorInv, NEW e \in Endpoints \cup Elsewhere, NEW good \in BOOLEAN, RecordRequest(e, good)
  PROVE  MonitorInv'
<1>1. /\ metrics' \in [DOMAIN metrics' -> [total : Nat, good : Nat, bad : Nat]]
      /\ DOMAIN metrics' = DOMAIN metrics \cup {e}
      /\ \A x \in DOMAIN metrics' : metrics'[x].total = metrics'[x].good + metrics'[x].bad
      /\ \A x \in DOMAIN metrics : metrics[x].bad <= metrics'[x].bad
  BY CountedEffect DEF RecordRequest, MonitorInv
<1>2. MonitorTyped'
  BY <1>1, WebhookMonitorAssumption DEF RecordRequest, MonitorInv, MonitorTyped
<1>3. KnownOnceStarted' /\ ProbesInOrder'
  BY <1>1 DEF RecordRequest, MonitorInv, KnownOnceStarted, ProbesInOrder
<1>4. StatusesRight'
  <2>1. ASSUME NEW x \in DOMAIN statuses PROVE statuses[x].failures <= metrics'[x].bad
    <3>1. x \in DOMAIN metrics
      BY DEF MonitorInv, KnownOnceStarted
    <3>2. statuses[x].failures <= metrics[x].bad /\ metrics[x].bad <= metrics'[x].bad
          /\ statuses[x].failures \in Nat /\ metrics[x].bad \in Nat /\ metrics'[x].bad \in Nat
      BY <1>1, <3>1 DEF MonitorInv, StatusesRight, MonitorTyped
    <3> QED BY <3>2
  <2> QED BY <1>1, <2>1 DEF RecordRequest, MonitorInv, StatusesRight
<1>5. FailuresWereProbes'
  BY DEF RecordRequest, MonitorInv, FailuresWereProbes, Failures, Pending
<1> QED BY <1>2, <1>3, <1>4, <1>5 DEF MonitorInv

LEMMA MonitorInvStep == MonitorInv /\ [WebhookNext]_webhookVars => MonitorInv'
<1> SUFFICES ASSUME MonitorInv, [WebhookNext]_webhookVars PROVE MonitorInv'
  OBVIOUS
<1>1. CASE StopMonitor
  BY <1>1 DEF StopMonitor, MonitorInv, MonitorTyped, KnownOnceStarted, ProbesInOrder, StatusesRight,
              FailuresWereProbes, Failures, Pending
<1>2. CASE UNCHANGED webhookVars
  BY <1>2 DEF webhookVars, MonitorInv, MonitorTyped, KnownOnceStarted, ProbesInOrder, StatusesRight,
              FailuresWereProbes, Failures, Pending
<1> QED BY <1>1, <1>2, StartStep, CheckStep, ReconnectStep, UpdateStep, ReportStep DEF WebhookNext

LEMMA MonitorInvTells == MonitorInv => StatusExplained /\ WebhookTypeOK
<1> SUFFICES ASSUME MonitorInv PROVE StatusExplained /\ WebhookTypeOK
  OBVIOUS
<1>1. StatusExplained
  BY DEF MonitorInv, KnownOnceStarted, StatusesRight, StatusExplained, IsHealthy
<1>2. ASSUME NEW e \in DOMAIN statuses
      PROVE  statuses[e] \in [status : Answers, failures : 0..MaxProbes]
  <2>1. e \in Endpoints /\ Failures(e) = statuses[e].failures
    BY DEF MonitorInv, KnownOnceStarted, Failures
  <2>2. Cardinality(Pending(e)) \in Nat /\ Failures(e) \in Nat /\ begun \in 0..MaxProbes
    BY PendingFinite, FailuresType DEF MonitorInv, MonitorTyped
  <2>3. Failures(e) \in 0..MaxProbes
    BY <2>1, <2>2, WebhookMonitorAssumption DEF MonitorInv, FailuresWereProbes
  <2> QED BY <2>1, <2>3 DEF MonitorInv, MonitorTyped
<1>3. probes \subseteq [number : 1..MaxProbes, endpoint : Endpoints \cup Elsewhere]
  BY WebhookMonitorAssumption DEF MonitorInv, MonitorTyped
<1>4. WebhookTypeOK
  BY <1>2, <1>3 DEF MonitorInv, MonitorTyped, KnownOnceStarted, WebhookTypeOK, Answers
<1> QED BY <1>1, <1>4

\* For any endpoints and any interleaving of their probes: the status is the
\* newest probe's unless an older one ended after it, only probed endpoints
\* are called healthy, and no request is counted twice or not at all
\* (updateStatus, RecordRequest, IsHealthy).
THEOREM StatusFollowsProbes == WebhookSpec => []StatusExplained
BY MonitorInvInit, MonitorInvStep, MonitorInvTells, PTL DEF WebhookSpec

-----------------------------------------------------------------------------
(* The recovery manager                                                    *)

RecoveryType ==
  [pc : {"idle", "calling", "backoff", "succeeded", "failed"}, type : ErrorTypes, tries : 0..RecoveryTries,
   attempt : 0..RecoveryTries]

\* Whoever may still call the handler has a try left.
TriesLeft == \A g \in Recoverers :
  recovery[g].pc \in {"calling", "backoff"} => recovery[g].attempt < recovery[g].tries

RecoveryTyped ==
  /\ action \in [ErrorTypes -> {"none", "retry", "once"}]
  /\ outcomes \in [ErrorTypes -> [ok : Nat, failed : Nat]]
  /\ stats \in [ErrorTypes -> [total : Nat, ok : Nat, failed : Nat]]
  /\ recovery \in [Recoverers -> RecoveryType]
  /\ answers \in [ErrorTypes -> [begun : 0..MaxRecoveries, ok : Nat, failed : Nat, cancelled : Nat]]
  /\ cleared \in [ErrorTypes -> Nat]

RecoveryInv == RecoveryTyped /\ TriesLeft /\ RecoveriesCounted

LEMMA AtRestType == AtRest \in RecoveryType /\ AtRest.pc = "idle"
<1>1. (CHOOSE t \in ErrorTypes : TRUE) \in ErrorTypes
  BY RecoveryAssumption
<1> QED BY <1>1, RecoveryAssumption DEF AtRest, RecoveryType

LEMMA RecoveryInvInit == RecoveryInit => RecoveryInv
<1> SUFFICES ASSUME RecoveryInit PROVE RecoveryInv
  OBVIOUS
<1>1. RecoveryTyped
  BY AtRestType, RecoveryAssumption DEF RecoveryInit, RecoveryTyped, NoOutcomes, NoStats
<1>2. TriesLeft
  BY AtRestType DEF RecoveryInit, TriesLeft
<1>3. RecoveriesCounted
  <2>1. \A t : Running(t) = {}
    BY AtRestType DEF RecoveryInit, Running
  <2> QED BY <2>1, FS_EmptySet DEF RecoveryInit, RecoveriesCounted, Recorded, NoOutcomes, NoStats
<1> QED BY <1>1, <1>2, <1>3 DEF RecoveryInv

LEMMA RunningFinite == \A t : IsFiniteSet(Running(t)) /\ Cardinality(Running(t)) \in Nat
<1> SUFFICES ASSUME NEW t PROVE IsFiniteSet(Running(t)) /\ Cardinality(Running(t)) \in Nat
  OBVIOUS
<1>1. Running(t) \subseteq Recoverers
  BY DEF Running
<1> QED BY <1>1, FS_Subset, FS_CardinalityType, RecoveryAssumption

\* One goroutine goes on with its recovery.
LEMMA RecoveryGoesOn ==
  ASSUME RecoveryInv, NEW g \in Recoverers, NEW k \in RecoveryType,
         recovery[g].pc # "idle", k.pc # "idle", k.type = recovery[g].type,
         k.pc \in {"calling", "backoff"} => k.attempt < k.tries,
         recovery' = [recovery EXCEPT ![g] = k],
         UNCHANGED <<action, outcomes, stats, answers, cleared>>
  PROVE  RecoveryInv'
<1>1. RecoveryTyped'
  BY DEF RecoveryInv, RecoveryTyped
<1>2. TriesLeft'
  BY DEF RecoveryInv, RecoveryTyped, TriesLeft
<1>3. \A t : Running(t)' = Running(t)
  BY DEF RecoveryInv, RecoveryTyped, Running
<1> QED BY <1>1, <1>2, <1>3 DEF RecoveryInv, RecoveriesCounted, Recorded

\* One goroutine's recovery is over, and no other is touched.
LEMMA RecoveryIsOver ==
  ASSUME RecoveryInv, NEW g \in Recoverers, recovery[g].pc # "idle",
         recovery' = [recovery EXCEPT ![g] = AtRest]
  PROVE  /\ recovery' \in [Recoverers -> RecoveryType] /\ TriesLeft'
         /\ \A t : t # recovery[g].type => Running(t)' = Running(t)
         /\ \A t : t = recovery[g].type => Cardinality(Running(t)') = Cardinality(Running(t)) - 1
<1>1. recovery' \in [Recoverers -> RecoveryType]
  BY AtRestType DEF RecoveryInv, RecoveryTyped
<1>2. TriesLeft'
  BY AtRestType DEF RecoveryInv, RecoveryTyped, TriesLeft
<1>3. \A t : Running(t)' = Running(t) \ {g}
  BY AtRestType DEF RecoveryInv, RecoveryTyped, Running
<1>4. \A t : g \in Running(t) <=> t = recovery[g].type
  BY DEF Running
<1>5. ASSUME NEW t, t = recovery[g].type PROVE Cardinality(Running(t)') = Cardinality(Running(t)) - 1
  <2>1. g \in Running(t) /\ IsFiniteSet(Running(t)) /\ Running(t)' = Running(t) \ {g}
    BY <1>3, <1>4, <1>5, RunningFinite
  <2> QED BY <2>1, FS_RemoveElement
<1>6. ASSUME NEW t, t # recovery[g].type PROVE Running(t)' = Running(t)
  BY <1>3, <1>4, <1>6
<1> QED BY <1>1, <1>2, <1>5, <1>6

LEMMA ClearedStep ==
  ASSUME RecoveryInv, NEW t \in ErrorTypes, Cleared(t), recovery' = recovery, answers' = answers,
         action' \in [ErrorTypes -> {"none", "retry", "once"}]
  PROVE  RecoveryInv'
<1>1. /\ outcomes' = [outcomes EXCEPT ![t] = NoOutcomes] /\ stats' = [stats EXCEPT ![t] = NoStats]
      /\ cleared' = [cleared EXCEPT ![t] = @ + outcomes[t].ok + outcomes[t].failed]
  BY DEF Cleared
<1>2. RecoveryTyped'
  BY <1>1 DEF RecoveryInv, RecoveryTyped, NoOutcomes, NoStats
<1>3. TriesLeft'
  BY DEF RecoveryInv, TriesLeft
<1>4. RecoveriesCounted'
  <2> SUFFICES ASSUME NEW u \in ErrorTypes
        PROVE  /\ stats'[u] = [total |-> Recorded(u)', ok |-> outcomes'[u].ok, failed |-> outcomes'[u].failed]
               /\ answers'[u].begun
                    = Cardinality(Running(u)') + answers'[u].cancelled + cleared'[u] + Recorded(u)'
               /\ answers'[u].ok + answers'[u].failed = cleared'[u] + Recorded(u)'
    BY DEF RecoveriesCounted
  <2>1. Running(u)' = Running(u) /\ Cardinality(Running(u)) \in Nat
    BY RunningFinite DEF Running
  <2>2. CASE u # t
    BY <1>1, <2>1, <2>2 DEF RecoveryInv, RecoveryTyped, RecoveriesCounted, Recorded
  <2>3. CASE u = t
    <3>1. /\ outcomes'[t] = NoOutcomes /\ stats'[t] = NoStats
          /\ cleared'[t] = cleared[t] + outcomes[t].ok + outcomes[t].failed /\ Recorded(t)' = 0
      BY <1>1 DEF RecoveryInv, RecoveryTyped, Recorded, NoOutcomes
    <3>2. /\ outcomes[t].ok \in Nat /\ outcomes[t].failed \in Nat /\ cleared[t] \in Nat
          /\ answers[t].begun \in Nat /\ answers[t].cancelled \in Nat /\ answers[t].ok \in Nat
          /\ answers[t].failed \in Nat
      BY DEF RecoveryInv, RecoveryTyped
    <3>3. /\ answers[t].begun
               = Cardinality(Running(t)) + answers[t].cancelled + cleared[t] + outcomes[t].ok + outcomes[t].failed
          /\ answers[t].ok + answers[t].failed = cleared[t] + outcomes[t].ok + outcomes[t].failed
      <4>1. /\ answers[t].begun = Cardinality(Running(t)) + answers[t].cancelled + cleared[t] + Recorded(t)
            /\ answers[t].ok + answers[t].failed = cleared[t] + Recorded(t)
        BY DEF RecoveryInv, RecoveriesCounted
      <4> QED BY <2>1, <2>3, <3>2, <4>1 DEF Recorded
    <3> QED BY <2>1, <2>3, <3>1, <3>2, <3>3 DEF NoOutcomes, NoStats
  <2> QED BY <2>2, <2>3
<1> QED BY <1>2, <1>3, <1>4 DEF RecoveryInv

LEMMA RecoverStep ==
  ASSUME RecoveryInv, NEW g \in Recoverers, NEW t \in ErrorTypes, Recover(g, t)
  PROVE  RecoveryInv'
<1> DEFINE k == [pc |-> "calling", type |-> t, attempt |-> 0,
                 tries |-> IF action[t] = "retry" THEN RecoveryTries ELSE 1]
<1>1. /\ recovery[g].pc = "idle" /\ answers[t].begun < MaxRecoveries
      /\ answers' = [answers EXCEPT ![t].begun = @ + 1] /\ recovery' = [recovery EXCEPT ![g] = k]
      /\ UNCHANGED <<action, outcomes, stats, cleared>>
  BY DEF Recover
<1>2. k \in RecoveryType /\ k.pc = "calling" /\ k.type = t /\ k.attempt < k.tries
  BY RecoveryAssumption DEF RecoveryType
<1> HIDE DEF k
<1>3. answers' \in [ErrorTypes -> [begun : 0..MaxRecoveries, ok : Nat, failed : Nat, cancelled : Nat]]
  BY <1>1, RecoveryAssumption, SMTT(60) DEF RecoveryInv, RecoveryTyped
<1>4. RecoveryTyped'
  BY <1>1, <1>2, <1>3 DEF RecoveryInv, RecoveryTyped
<1>5. TriesLeft'
  BY <1>1, <1>2 DEF RecoveryInv, RecoveryTyped, TriesLeft
<1>6. RecoveriesCounted'
  <2> SUFFICES ASSUME NEW u \in ErrorTypes
        PROVE  /\ stats'[u] = [total |-> Recorded(u)', ok |-> outcomes'[u].ok, failed |-> outcomes'[u].failed]
               /\ answers'[u].begun
                    = Cardinality(Running(u)') + answers'[u].cancelled + cleared'[u] + Recorded(u)'
               /\ answers'[u].ok + answers'[u].failed = cleared'[u] + Recorded(u)'
    BY DEF RecoveriesCounted
  <2>1. Recorded(u)' = Recorded(u)
    BY <1>1 DEF Recorded
  <2>2. CASE u # t
    <3>1. Running(u)' = Running(u) /\ answers'[u] = answers[u]
      BY <1>1, <1>2, <2>2 DEF RecoveryInv, RecoveryTyped, Running
    <3> QED BY <1>1, <2>1, <3>1 DEF RecoveryInv, RecoveriesCounted
  <2>3. CASE u = t
    <3>1. Running(t)' = Running(t) \cup {g} /\ g \notin Running(t)
      BY <1>1, <1>2 DEF RecoveryInv, RecoveryTyped, Running
    <3>2. Cardinality(Running(t)') = Cardinality(Running(t)) + 1 /\ Cardinality(Running(t)) \in Nat
      BY <3>1, RunningFinite, FS_AddElement
    <3>3. /\ answers'[t].begun = answers[t].begun + 1 /\ answers'[t].cancelled = answers[t].cancelled
          /\ answers'[t].ok = answers[t].ok /\ answers'[t].failed = answers[t].failed
      BY <1>1 DEF RecoveryInv, RecoveryTyped
    <3>4. answers[t].cancelled \in Nat /\ cleared[t] \in Nat /\ Recorded(t) \in Nat
      BY DEF RecoveryInv, RecoveryTyped, Recorded
    <3> QED BY <1>1, <2>1, <2>3, <3>2, <3>3, <3>4 DEF RecoveryInv, RecoveriesCounted
  <2> QED BY <2>2, <2>3
<1> QED BY <1>4, <1>5, <1>6 DEF RecoveryInv

LEMMA CallStep ==
  ASSUME RecoveryInv, NEW g \in Recoverers, CallHandler(g) \/ BackoffEnds(g)
  PROVE  RecoveryInv'
<1> DEFINE k == recovery[g]
<1>0. /\ k \in RecoveryType /\ k.pc \in {"calling", "backoff"} /\ k.attempt < k.tries
      /\ k = [pc |-> k.pc, type |-> k.type, tries |-> k.tries, attempt |-> k.attempt]
  BY DEF RecoveryInv, RecoveryTyped, TriesLeft, CallHandler, BackoffEnds, RecoveryType
<1>1. CASE BackoffEnds(g)
  <2> DEFINE n == [pc |-> "calling", type |-> k.type, tries |-> k.tries, attempt |-> k.attempt]
  <2>1. n \in RecoveryType
    BY <1>0 DEF RecoveryType
  <2>2. [k EXCEPT !.pc = "calling"] = n
    BY <1>0
  <2>3. recovery' = [recovery EXCEPT ![g] = n]
    BY <1>1, <2>2 DEF BackoffEnds, RecoveryInv, RecoveryTyped
  <2> QED BY <1>0, <1>1, <2>1, <2>3, RecoveryGoesOn DEF BackoffEnds
<1>2. CASE CallHandler(g)
  <2>1. PICK ok \in BOOLEAN :
          recovery' = [recovery EXCEPT ![g].attempt = @ + 1,
            ![g].pc = CASE ok -> "succeeded"
                        [] ~ok /\ k.attempt + 1 < k.tries -> "backoff"
                        [] ~ok /\ k.attempt + 1 = k.tries -> "failed"]
    BY <1>2 DEF CallHandler
  <2> DEFINE p == CASE ok -> "succeeded"
                    [] ~ok /\ k.attempt + 1 < k.tries -> "backoff"
                    [] ~ok /\ k.attempt + 1 = k.tries -> "failed"
             n == [pc |-> p, type |-> k.type, tries |-> k.tries, attempt |-> k.attempt + 1]
  <2>2. p \in {"succeeded", "backoff", "failed"} /\ (p = "backoff" => k.attempt + 1 < k.tries)
    <3>1. k.attempt \in Nat /\ k.tries \in Nat /\ k.attempt < k.tries
      BY <1>0, RecoveryAssumption DEF RecoveryType
    <3>2. CASE ok = TRUE
      BY <3>2
    <3>3. CASE ok = FALSE /\ k.attempt + 1 < k.tries
      BY <3>1, <3>3
    <3>4. CASE ok = FALSE /\ k.attempt + 1 = k.tries
      BY <3>1, <3>4
    <3>5. k.attempt + 1 < k.tries \/ k.attempt + 1 = k.tries
      BY <3>1
    <3> HIDE DEF p, k
    <3> QED BY <3>2, <3>3, <3>4, <3>5, Zenon
  <2> HIDE DEF p
  <2>3. n \in RecoveryType
    BY <1>0, <2>2, RecoveryAssumption DEF RecoveryType
  <2>4. recovery' = [recovery EXCEPT ![g] = n]
    <3> DEFINE q == [k EXCEPT !.attempt = @ + 1]
    <3>1. q = [pc |-> k.pc, type |-> k.type, tries |-> k.tries, attempt |-> k.attempt + 1]
      BY <1>0
    <3>2. recovery' = [recovery EXCEPT ![g] = [q EXCEPT !.pc = p]]
      <4>1. recovery' = [recovery EXCEPT ![g].attempt = @ + 1, ![g].pc = p]
        BY <2>1, Zenon DEF p
      <4> QED BY <4>1 DEF RecoveryInv, RecoveryTyped
    <3> HIDE DEF q
    <3>3. [q EXCEPT !.pc = p] = n
      BY <3>1
    <3> QED BY <3>2, <3>3
  <2>5. n.pc = p /\ n.type = k.type /\ (n.pc \in {"calling", "backoff"} => n.attempt < n.tries)
    BY <2>2
  <2> HIDE DEF n
  <2> QED BY <1>0, <1>2, <2>2, <2>3, <2>4, <2>5, RecoveryGoesOn DEF CallHandler
<1> QED BY <1>1, <1>2

LEMMA CancelledStep ==
  ASSUME RecoveryInv, NEW g \in Recoverers, Cancelled(g)
  PROVE  RecoveryInv'
<1>0. PICK t \in ErrorTypes : t = recovery[g].type
  BY DEF RecoveryInv, RecoveryTyped, RecoveryType
<1>1. /\ recovery[g].pc # "idle" /\ recovery' = [recovery EXCEPT ![g] = AtRest]
      /\ answers' = [answers EXCEPT ![t].cancelled = @ + 1]
      /\ UNCHANGED <<action, outcomes, stats, cleared>>
  BY <1>0 DEF Cancelled
<1>2. /\ recovery' \in [Recoverers -> RecoveryType] /\ TriesLeft'
      /\ \A u : u # t => Running(u)' = Running(u)
      /\ \A u : u = t => Cardinality(Running(u)') = Cardinality(Running(u)) - 1
  BY <1>0, <1>1, RecoveryIsOver
<1>3. RecoveryTyped'
  BY <1>1, <1>2, SMTT(60) DEF RecoveryInv, RecoveryTyped
<1>4. RecoveriesCounted'
  <2> SUFFICES ASSUME NEW u \in ErrorTypes
        PROVE  /\ stats'[u] = [total |-> Recorded(u)', ok |-> outcomes'[u].ok, failed |-> outcomes'[u].failed]
               /\ answers'[u].begun
                    = Cardinality(Running(u)') + answers'[u].cancelled + cleared'[u] + Recorded(u)'
               /\ answers'[u].ok + answers'[u].failed = cleared'[u] + Recorded(u)'
    BY DEF RecoveriesCounted
  <2>1. Recorded(u)' = Recorded(u)
    BY <1>1 DEF Recorded
  <2>2. CASE u # t
    <3>1. answers'[u] = answers[u]
      BY <1>1, <2>2 DEF RecoveryInv, RecoveryTyped
    <3> QED BY <1>1, <1>2, <2>1, <2>2, <3>1 DEF RecoveryInv, RecoveriesCounted
  <2>3. CASE u = t
    <3>1. Cardinality(Running(t)') = Cardinality(Running(t)) - 1 /\ Cardinality(Running(t)) \in Nat
      BY <1>2, RunningFinite
    <3>2. /\ answers'[t].begun = answers[t].begun /\ answers'[t].cancelled = answers[t].cancelled + 1
          /\ answers'[t].ok = answers[t].ok /\ answers'[t].failed = answers[t].failed
      BY <1>1 DEF RecoveryInv, RecoveryTyped
    <3>3. answers[t].cancelled \in Nat /\ cleared[t] \in Nat /\ Recorded(t) \in Nat
      BY <1>1 DEF RecoveryInv, RecoveryTyped, Recorded
    <3> QED BY <1>1, <2>1, <2>3, <3>1, <3>2, <3>3 DEF RecoveryInv, RecoveriesCounted
  <2> QED BY <2>2, <2>3
<1> QED BY <1>2, <1>3, <1>4 DEF RecoveryInv

LEMMA RecordStep ==
  ASSUME RecoveryInv, NEW g \in Recoverers, RecordAttempt(g)
  PROVE  RecoveryInv'
<1>0. PICK t \in ErrorTypes : t = recovery[g].type
  BY DEF RecoveryInv, RecoveryTyped, RecoveryType
<1> DEFINE how == IF recovery[g].pc = "succeeded" THEN "ok" ELSE "failed"
<1>1. /\ recovery[g].pc # "idle" /\ recovery' = [recovery EXCEPT ![g] = AtRest]
      /\ outcomes' = [outcomes EXCEPT ![t][how] = @ + 1]
      /\ stats' = [stats EXCEPT ![t].total = @ + 1, ![t][how] = @ + 1]
      /\ answers' = [answers EXCEPT ![t][how] = @ + 1]
      /\ UNCHANGED <<action, cleared>> /\ how \in {"ok", "failed"}
  BY <1>0 DEF RecordAttempt
<1>2. /\ recovery' \in [Recoverers -> RecoveryType] /\ TriesLeft'
      /\ \A u : u # t => Running(u)' = Running(u)
      /\ \A u : u = t => Cardinality(Running(u)') = Cardinality(Running(u)) - 1
  BY <1>0, <1>1, RecoveryIsOver
<1> HIDE DEF how
<1>3. /\ outcomes' \in [ErrorTypes -> [ok : Nat, failed : Nat]]
      /\ stats' \in [ErrorTypes -> [total : Nat, ok : Nat, failed : Nat]]
      /\ answers' \in [ErrorTypes -> [begun : 0..MaxRecoveries, ok : Nat, failed : Nat, cancelled : Nat]]
  BY <1>1 DEF RecoveryInv, RecoveryTyped
<1>4. RecoveryTyped'
  BY <1>1, <1>2, <1>3 DEF RecoveryInv, RecoveryTyped
<1>5. RecoveriesCounted'
  <2> SUFFICES ASSUME NEW u \in ErrorTypes
        PROVE  /\ stats'[u] = [total |-> Recorded(u)', ok |-> outcomes'[u].ok, failed |-> outcomes'[u].failed]
               /\ answers'[u].begun
                    = Cardinality(Running(u)') + answers'[u].cancelled + cleared'[u] + Recorded(u)'
               /\ answers'[u].ok + answers'[u].failed = cleared'[u] + Recorded(u)'
    BY DEF RecoveriesCounted
  <2>1. CASE u # t
    <3>1. answers'[u] = answers[u] /\ stats'[u] = stats[u] /\ outcomes'[u] = outcomes[u]
      BY <1>1, <2>1 DEF RecoveryInv, RecoveryTyped
    <3> QED BY <1>1, <1>2, <2>1, <3>1 DEF RecoveryInv, RecoveriesCounted, Recorded
  <2>2. CASE u = t
    <3>1. Cardinality(Running(t)') = Cardinality(Running(t)) - 1 /\ Cardinality(Running(t)) \in Nat
      BY <1>2, RunningFinite
    <3>2. /\ answers[t].cancelled \in Nat /\ cleared[t] \in Nat /\ outcomes[t].ok \in Nat /\ outcomes[t].failed \in Nat
          /\ answers[t].ok \in Nat /\ answers[t].failed \in Nat
      BY <1>1 DEF RecoveryInv, RecoveryTyped
    <3>3. /\ answers'[t].begun = answers[t].begun /\ answers'[t].cancelled = answers[t].cancelled
          /\ answers'[t].ok + answers'[t].failed = answers[t].ok + answers[t].failed + 1
          /\ Recorded(t)' = Recorded(t) + 1
      <4>1. CASE how = "ok"
        BY <1>1, <3>2, <4>1 DEF RecoveryInv, RecoveryTyped, Recorded
      <4>2. CASE how = "failed"
        BY <1>1, <3>2, <4>2 DEF RecoveryInv, RecoveryTyped, Recorded
      <4> QED BY <1>1, <4>1, <4>2
    <3>4. stats'[t] = [total |-> Recorded(t)', ok |-> outcomes'[t].ok, failed |-> outcomes'[t].failed]
      <4>1. /\ stats'[t] = [total |-> stats'[t].total, ok |-> stats'[t].ok, failed |-> stats'[t].failed]
            /\ stats'[t].total = stats[t].total + 1
        BY <1>1, <1>3 DEF RecoveryInv, RecoveryTyped
      <4>2. stats[t] = [total |-> Recorded(t), ok |-> outcomes[t].ok, failed |-> outcomes[t].failed]
        BY <1>1 DEF RecoveryInv, RecoveriesCounted
      <4>3. stats'[t].ok = outcomes'[t].ok /\ stats'[t].failed = outcomes'[t].failed
        <5>1. CASE how = "ok"
          BY <1>1, <4>2, <5>1 DEF RecoveryInv, RecoveryTyped
        <5>2. CASE how = "failed"
          BY <1>1, <4>2, <5>2 DEF RecoveryInv, RecoveryTyped
        <5> QED BY <1>1, <5>1, <5>2
      <4> QED BY <3>3, <4>1, <4>2, <4>3
    <3>5. Recorded(t) \in Nat
      BY <3>2 DEF Recorded
    <3>6. /\ answers[t].begun = Cardinality(Running(t)) + answers[t].cancelled + cleared[t] + Recorded(t)
          /\ answers[t].ok + answers[t].failed = cleared[t] + Recorded(t)
      BY DEF RecoveryInv, RecoveriesCounted
    <3>7. answers'[t].begun = Cardinality(Running(t)') + answers'[t].cancelled + cleared'[t] + Recorded(t)'
      BY <1>1, <3>1, <3>2, <3>3, <3>5, <3>6
    <3>8. answers'[t].ok + answers'[t].failed = cleared'[t] + Recorded(t)'
      BY <1>1, <3>2, <3>3, <3>5, <3>6
    <3> QED BY <2>2, <3>4, <3>7, <3>8
  <2> QED BY <2>1, <2>2
<1> QED BY <1>2, <1>4, <1>5 DEF RecoveryInv

LEMMA RecoveryInvStep == RecoveryInv /\ [RecoveryNext]_recoveryVars => RecoveryInv'
<1> SUFFICES ASSUME RecoveryInv, [RecoveryNext]_recoveryVars PROVE RecoveryInv'
  OBVIOUS
<1>1. CASE \E t \in ErrorTypes, strategy \in {"retry", "once"} : RegisterAction(t, strategy)
  BY <1>1, ClearedStep DEF RegisterAction, RecoveryInv, RecoveryTyped
<1>2. CASE \E t \in ErrorTypes : ClearHistory(t)
  BY <1>2, ClearedStep DEF ClearHistory, RecoveryInv, RecoveryTyped
<1>3. CASE UNCHANGED recoveryVars
  BY <1>3 DEF recoveryVars, RecoveryInv, RecoveryTyped, TriesLeft, RecoveriesCounted, Recorded, Running
<1> QED BY <1>1, <1>2, <1>3, RecoverStep, CallStep, CancelledStep, RecordStep DEF RecoveryNext

LEMMA RecoveryInvTells == RecoveryInv => RecoveriesCounted /\ RecoveryTypeOK
BY RecoveryAssumption DEF RecoveryInv, RecoveryTyped, RecoveryType, RecoveryTypeOK

\* For any error types, goroutines and tries, however registrations, clearings
\* and recoveries interleave: every recovery that called a handler is under
\* way, was cancelled during a backoff, is in its type's history once, or was
\* cleared from it, and the statistics are those of the history
\* (recordAttempt, ClearHistory, RegisterAction).
THEOREM RecoveriesAreCounted == RecoverySpec => []RecoveriesCounted
BY RecoveryInvInit, RecoveryInvStep, RecoveryInvTells, PTL DEF RecoverySpec

-----------------------------------------------------------------------------
(* The GitLab client                                                       *)

LedgerInv ==
  /\ ledger \in [WriteOps -> [told : Nat, made : Nat, unknown : Nat]]
  /\ ReportedIsMade

\* What is reported as done was made, and what was made is at least unknown.
LEMMA EnteredKeeps ==
  ASSUME LedgerInv, NEW op, NEW made \in BOOLEAN, NEW said \in {"ok", "error"},
         said = "ok" <=> made /\ said # "error", ledger' = Entered(op, made, said)
  PROVE  LedgerInv'
<1>1. CASE op \notin WriteOps
  BY <1>1 DEF Entered, LedgerInv, ReportedIsMade
<1>2. CASE op \in WriteOps
  <2> DEFINE l == ledger[op]
             k == [told    |-> l.told + (IF said = "ok" THEN 1 ELSE 0),
                   made    |-> l.made + (IF made THEN 1 ELSE 0),
                   unknown |-> l.unknown + (IF said = "error" THEN 1 ELSE 0)]
  <2>1. /\ l.told \in Nat /\ l.made \in Nat /\ l.unknown \in Nat
        /\ l.told <= l.made /\ l.made <= l.told + l.unknown
    BY <1>2 DEF LedgerInv, ReportedIsMade
  <2>2. /\ k \in [told : Nat, made : Nat, unknown : Nat]
        /\ k.told <= k.made /\ k.made <= k.told + k.unknown
    BY <2>1
  <2>3. ledger' = [ledger EXCEPT ![op] = k]
    BY <1>2 DEF Entered
  <2> HIDE DEF k
  <2> QED BY <2>2, <2>3 DEF LedgerInv, ReportedIsMade
<1> QED BY <1>1, <1>2

LEMMA RefusalIsNoSuccess ==
  ASSUME NEW op, NEW status \in {401, 404, 422, 503}
  PROVE  ~Accepted(op, status)
BY DEF Accepted

LEMMA LedgerStep == LedgerInv /\ [GitLabClientNext]_gitlabClientVars => LedgerInv'
<1> SUFFICES ASSUME LedgerInv, [GitLabClientNext]_gitlabClientVars PROVE LedgerInv'
  OBVIOUS
<1>1. ASSUME ledger' = ledger PROVE LedgerInv'
  BY <1>1 DEF LedgerInv, ReportedIsMade
<1>2. ASSUME NEW c \in ApiCallers, NEW r \in ApiRequests, ApiOperation(c, r) PROVE ledger' = ledger
  BY <1>2 DEF ApiOperation, SendRequest, FindUserByEmail, GetProjectInfo, GetMergeRequest, CreateIssue,
     UpdateIssue, GetIssue, SearchIssuesByTitle, CreateComment, GetMilestones, CreateMilestone,
     UpdateMilestone, DeleteMilestone, TestConnection
<1>3. ASSUME NEW c \in ApiCallers, GitLabDoes(c) PROVE LedgerInv'
  <2>1. PICK arrives \in BOOLEAN :
          ledger' = Entered(apiCall[c].op, TRUE,
                            IF arrives /\ Accepted(apiCall[c].op, Good(apiCall[c].op)) THEN "ok" ELSE "error")
    BY <1>3 DEF GitLabDoes
  <2> DEFINE said == IF arrives /\ Accepted(apiCall[c].op, Good(apiCall[c].op)) THEN "ok" ELSE "error"
  <2>2. said \in {"ok", "error"} /\ (said = "ok" <=> TRUE /\ said # "error")
    OBVIOUS
  <2> QED BY <2>1, <2>2, EnteredKeeps
<1>4. ASSUME NEW c \in ApiCallers, GitLabRefuses(c) PROVE LedgerInv'
  <2>1. PICK status \in {401, 404, 422, 503} :
          ledger' = Entered(apiCall[c].op, FALSE, IF Accepted(apiCall[c].op, status) THEN "ok" ELSE "error")
    BY <1>4, ZenonT(60) DEF GitLabRefuses
  <2> DEFINE said == IF Accepted(apiCall[c].op, status) THEN "ok" ELSE "error"
  <2>2. ~Accepted(apiCall[c].op, status)
    BY RefusalIsNoSuccess
  <2> DEFINE made == FALSE
  <2>3. made \in BOOLEAN /\ said \in {"ok", "error"} /\ (said = "ok" <=> made /\ said # "error")
    BY <2>2
  <2>4. ledger' = Entered(apiCall[c].op, made, said)
    BY <2>1
  <2> HIDE DEF said, made
  <2> QED BY <2>3, <2>4, EnteredKeeps
<1>5. ASSUME NEW c \in ApiCallers, GoesOn(c) PROVE ledger' = ledger
  BY <1>5 DEF GoesOn
<1> QED BY <1>1, <1>2, <1>3, <1>4, <1>5 DEF GitLabClientNext, gitlabClientVars

Ops == WriteOps \cup {"FindUserByEmail", "TestConnection", "GetProjectInfo", "GetMergeRequest", "GetIssue",
                     "SearchIssuesByTitle", "GetMilestones"}

CallType ==
  [pc : {"idle", "sent", "returned"}, op : Ops, result : {"none", "refused", "ok", "error"},
   request : [project : ProjectKinds, iid : 0..2, body : {"nil", "empty", "full"}]]

\* Those who wait for the answer to a change.
Changing == {c \in ApiCallers : apiCall[c].pc = "sent" /\ apiCall[c].op \in WriteOps}

Numbers == 1..(MaxAsked + 2)

\* GitLab has made no more issues, and no more milestones, than it was asked
\* for, so there is a number left for the next.
NumbersLeft ==
  /\ IsFiniteSet(Changing) /\ asked \in 0..MaxAsked
  /\ project \in [issues : SUBSET Numbers, milestones : SUBSET Numbers]
  /\ Cardinality(project.issues) + Cardinality(Changing) <= asked + 1
  /\ Cardinality(project.milestones) + Cardinality(Changing) <= asked + 1

GitLabClientInv == apiCall \in [ApiCallers -> CallType] /\ NumbersLeft /\ LedgerInv

LEMMA NumbersFinite ==
  /\ IsFiniteSet(Numbers) /\ Cardinality(Numbers) = MaxAsked + 2
  /\ \A s \in SUBSET Numbers : IsFiniteSet(s) /\ Cardinality(s) \in Nat
<1>1. IsFiniteSet(Numbers) /\ Cardinality(Numbers) = MaxAsked + 2
  BY FS_Interval, GitLabClientAssumption DEF Numbers
<1> QED BY <1>1, FS_Subset, FS_CardinalityType

LEMMA FreshIsFree ==
  ASSUME NEW s \in SUBSET Numbers, Cardinality(s) <= MaxAsked
  PROVE  Fresh(s) \in Numbers \ s
<1>1. s # Numbers
  BY NumbersFinite, GitLabClientAssumption
<1>2. \E n \in Numbers : n \notin s
  BY <1>1
<1> QED BY <1>2 DEF Fresh, Numbers

\* A request is sent, or the call ends before it.
LEMMA SendStep ==
  ASSUME GitLabClientInv, NEW c \in ApiCallers, NEW r \in ApiRequests, NEW op \in Ops, NEW checks \in BOOLEAN,
         SendRequest(c, op, r, checks)
  PROVE  apiCall' \in [ApiCallers -> CallType] /\ NumbersLeft'
<1> DEFINE k == [pc |-> IF checks THEN "sent" ELSE "returned", op |-> op,
                 result |-> IF checks THEN "none" ELSE "refused", request |-> r]
<1>1. k \in CallType
  BY GitLabClientAssumption DEF CallType
<1> DEFINE p == IF checks THEN "sent" ELSE "returned"
           s == IF checks THEN "none" ELSE "refused"
<1>0. ASSUME NEW q, NEW t
      PROVE  [NoCall EXCEPT !.op = op, !.request = r, !.pc = q, !.result = t]
               = [pc |-> q, op |-> op, result |-> t, request |-> r]
  <2> DEFINE a == [NoCall EXCEPT !.op = op]
             b == [a EXCEPT !.request = r]
             d == [b EXCEPT !.pc = q]
  <2>1. a = [pc |-> "idle", op |-> op, result |-> "none", request |-> NoCall.request]
    BY DEF NoCall
  <2> HIDE DEF a
  <2>2. b = [pc |-> "idle", op |-> op, result |-> "none", request |-> r]
    BY <2>1
  <2> HIDE DEF b
  <2>3. d = [pc |-> q, op |-> op, result |-> "none", request |-> r]
    BY <2>2
  <2> HIDE DEF d
  <2>4. [d EXCEPT !.result = t] = [pc |-> q, op |-> op, result |-> t, request |-> r]
    BY <2>3
  <2> QED BY <2>4, Zenon DEF d, b, a
<1>2. apiCall' = [apiCall EXCEPT ![c] = k] /\ project' = project /\ apiCall[c].pc = "idle"
  <2>1. [NoCall EXCEPT !.op = op, !.request = r, !.pc = p, !.result = s] = k
    BY <1>0, Zenon
  <2>2. /\ apiCall' = [apiCall EXCEPT ![c] = [NoCall EXCEPT !.op = op, !.request = r, !.pc = p, !.result = s]]
        /\ project' = project /\ apiCall[c].pc = "idle"
    BY Zenon DEF SendRequest
  <2> HIDE DEF k, p, s
  <2> QED BY <2>1, <2>2
<1>3. /\ k.pc = "sent" /\ k.op \in WriteOps => asked < MaxAsked /\ asked' = asked + 1
      /\ ~(k.pc = "sent" /\ k.op \in WriteOps) => asked' = asked
  BY DEF SendRequest
<1> HIDE DEF k
<1>4. apiCall' \in [ApiCallers -> CallType]
  BY <1>1, <1>2 DEF GitLabClientInv
<1>5. Changing' = (IF k.pc = "sent" /\ k.op \in WriteOps THEN Changing \cup {c} ELSE Changing) /\ c \notin Changing
  BY <1>2 DEF Changing, GitLabClientInv
<1>6. /\ IsFiniteSet(Changing) /\ Cardinality(Changing) \in Nat
      /\ IsFiniteSet(Changing \cup {c}) /\ Cardinality(Changing \cup {c}) = Cardinality(Changing) + 1
  BY <1>5, FS_AddElement, FS_CardinalityType DEF GitLabClientInv, NumbersLeft
<1>7. Cardinality(project.issues) \in Nat /\ Cardinality(project.milestones) \in Nat
  BY NumbersFinite DEF GitLabClientInv, NumbersLeft
<1>8. NumbersLeft'
  BY <1>2, <1>3, <1>5, <1>6, <1>7, GitLabClientAssumption DEF GitLabClientInv, NumbersLeft
<1> QED BY <1>4, <1>8

LEMMA OperationStep ==
  ASSUME GitLabClientInv, NEW c \in ApiCallers, NEW r \in ApiRequests, ApiOperation(c, r)
  PROVE  apiCall' \in [ApiCallers -> CallType] /\ NumbersLeft'
<1>1. \E op \in Ops, checks \in BOOLEAN : SendRequest(c, op, r, checks)
  BY DEF ApiOperation, FindUserByEmail, GetProjectInfo, GetMergeRequest, CreateIssue,
     UpdateIssue, GetIssue, SearchIssuesByTitle, CreateComment, GetMilestones, CreateMilestone,
     UpdateMilestone, DeleteMilestone, TestConnection, Ops, WriteOps, HasToken, isValidProjectID, Positive,
     parseProjectID
<1> QED BY <1>1, SendStep

\* The call returns, and what it asked for may have been done.
LEMMA ReturnStep ==
  ASSUME GitLabClientInv, NEW c \in ApiCallers, NEW said \in {"ok", "error"}, Returned(c, said),
         apiCall[c].pc = "sent", asked' = asked, project' = project \/ Done(apiCall[c].op, apiCall[c].request)
  PROVE  apiCall' \in [ApiCallers -> CallType] /\ NumbersLeft'
<1> DEFINE op == apiCall[c].op
           change == op \in WriteOps
<1>1. apiCall' \in [ApiCallers -> CallType]
  BY ZenonT(60) DEF Returned, GitLabClientInv, CallType
<1>2. Changing' = Changing \ {c} /\ (c \in Changing <=> change)
  BY DEF Returned, GitLabClientInv, CallType, Changing
<1>3. /\ IsFiniteSet(Changing) /\ Cardinality(Changing) \in Nat /\ IsFiniteSet(Changing')
      /\ Cardinality(Changing') = IF change THEN Cardinality(Changing) - 1 ELSE Cardinality(Changing)
      /\ Cardinality(Changing') \in Nat
  BY <1>2, FS_RemoveElement, FS_CardinalityType DEF GitLabClientInv, NumbersLeft
<1>4. /\ project \in [issues : SUBSET Numbers, milestones : SUBSET Numbers]
      /\ Cardinality(project.issues) \in Nat /\ Cardinality(project.milestones) \in Nat
      /\ Cardinality(project.issues) + Cardinality(Changing) <= asked + 1
      /\ Cardinality(project.milestones) + Cardinality(Changing) <= asked + 1
      /\ asked \in 0..MaxAsked
  BY NumbersFinite DEF GitLabClientInv, NumbersLeft
<1>5. CASE project' = project
  BY <1>1, <1>3, <1>4, <1>5 DEF NumbersLeft
<1>6. CASE change /\ \E s \in SUBSET Numbers :
             /\ Cardinality(s) <= Cardinality(project.issues) + 1 /\ Cardinality(s) \in Nat
             /\ project' = [project EXCEPT !.issues = s]
  BY <1>1, <1>3, <1>4, <1>6 DEF NumbersLeft
<1>7. CASE change /\ \E s \in SUBSET Numbers :
             /\ Cardinality(s) <= Cardinality(project.milestones) + 1 /\ Cardinality(s) \in Nat
             /\ project' = [project EXCEPT !.milestones = s]
  BY <1>1, <1>3, <1>4, <1>7 DEF NumbersLeft
<1>8. ASSUME NEW s \in SUBSET Numbers, Cardinality(s) + Cardinality(Changing) <= asked + 1, change
      PROVE  /\ s \cup {Fresh(s)} \in SUBSET Numbers /\ Cardinality(s \cup {Fresh(s)}) <= Cardinality(s) + 1
             /\ Cardinality(s \cup {Fresh(s)}) \in Nat
  <2>1. IsFiniteSet(s) /\ Cardinality(s) \in Nat /\ Cardinality(s) <= MaxAsked
    BY <1>3, <1>4, <1>8, NumbersFinite, GitLabClientAssumption
  <2> DEFINE n == Fresh(s)
  <2>2. n \in Numbers \ s
    BY <2>1, FreshIsFree
  <2> HIDE DEF n
  <2>3. s \cup {n} \in SUBSET Numbers /\ Cardinality(s \cup {n}) = Cardinality(s) + 1
    BY <2>1, <2>2, FS_AddElement
  <2> QED BY <2>1, <2>3 DEF n
<1>9. CASE Done(op, apiCall[c].request)
  <2>1. CASE op = "CreateIssue"
    <3>1. project' = [project EXCEPT !.issues = @ \cup {Fresh(@)}] /\ change
      BY <1>9, <2>1 DEF Done, WriteOps
    <3> HIDE DEF op, change
    <3> DEFINE s == project.issues \cup {Fresh(project.issues)}
    <3>2. /\ s \in SUBSET Numbers /\ Cardinality(s) <= Cardinality(project.issues) + 1
          /\ Cardinality(s) \in Nat /\ project' = [project EXCEPT !.issues = s]
      BY <1>4, <1>8, <3>1
    <3> HIDE DEF s
    <3> QED BY <1>6, <3>1, <3>2
  <2>2. CASE op = "CreateMilestone"
    <3>1. project' = [project EXCEPT !.milestones = @ \cup {Fresh(@)}] /\ change
      BY <1>9, <2>2 DEF Done, WriteOps
    <3> HIDE DEF op, change
    <3> DEFINE s == project.milestones \cup {Fresh(project.milestones)}
    <3>2. /\ s \in SUBSET Numbers /\ Cardinality(s) <= Cardinality(project.milestones) + 1
          /\ Cardinality(s) \in Nat /\ project' = [project EXCEPT !.milestones = s]
      BY <1>4, <1>8, <3>1
    <3> HIDE DEF s
    <3> QED BY <1>7, <3>1, <3>2
  <2>3. CASE op = "DeleteMilestone"
    <3>1. project' = [project EXCEPT !.milestones = @ \ {apiCall[c].request.iid}] /\ change
      BY <1>9, <2>3 DEF Done, WriteOps
    <3> HIDE DEF op, change
    <3> DEFINE s == project.milestones \ {apiCall[c].request.iid}
    <3>2. s \in SUBSET Numbers /\ IsFiniteSet(project.milestones)
      BY <1>4, NumbersFinite
    <3>3. Cardinality(s) <= Cardinality(project.milestones) + 1 /\ Cardinality(s) \in Nat
      BY <1>4, <3>2, FS_Subset, NumbersFinite
    <3>4. project' = [project EXCEPT !.milestones = s]
      BY <3>1
    <3> HIDE DEF s
    <3> QED BY <1>7, <3>1, <3>2, <3>3, <3>4
  <2>4. CASE op \notin {"CreateIssue", "CreateMilestone", "DeleteMilestone"}
    <3>1. project' = project
      BY <1>9, <2>4 DEF Done
    <3> QED BY <1>5, <3>1
  <2> QED BY <2>1, <2>2, <2>3, <2>4
<1> QED BY <1>5, <1>9

LEMMA GitLabClientInvInit == GitLabClientInit => GitLabClientInv
<1> SUFFICES ASSUME GitLabClientInit PROVE GitLabClientInv
  OBVIOUS
<1>1. apiCall \in [ApiCallers -> CallType]
  BY DEF GitLabClientInit, NoCall, CallType, Ops, ProjectKinds
<1>2. LedgerInv
  BY DEF GitLabClientInit, LedgerInv, ReportedIsMade
<1>3. Changing = {} /\ IsFiniteSet(Changing) /\ Cardinality(Changing) = 0
  BY FS_EmptySet DEF GitLabClientInit, NoCall, Changing
<1>4. NumbersLeft
  <2>1. project = [issues |-> {1}, milestones |-> {1}] /\ asked = 0 /\ Cardinality({1}) = 1
    BY FS_Singleton DEF GitLabClientInit
  <2>2. 1 \in Numbers /\ 0 \in 0..MaxAsked
    BY GitLabClientAssumption DEF Numbers
  <2> QED BY <1>3, <2>1, <2>2 DEF NumbersLeft
<1> QED BY <1>1, <1>2, <1>4 DEF GitLabClientInv

LEMMA GitLabClientInvStep ==
  GitLabClientInv /\ [GitLabClientNext]_gitlabClientVars => GitLabClientInv'
<1> SUFFICES ASSUME GitLabClientInv, [GitLabClientNext]_gitlabClientVars PROVE GitLabClientInv'
  OBVIOUS
<1>1. LedgerInv'
  BY LedgerStep DEF GitLabClientInv
<1>2. CASE \E c \in ApiCallers, r \in ApiRequests : ApiOperation(c, r)
  BY <1>1, <1>2, OperationStep DEF GitLabClientInv
<1>3. CASE \E c \in ApiCallers : GitLabDoes(c)
  <2>1. PICK c \in ApiCallers : GitLabDoes(c)
    BY <1>3
  <2>2. /\ \E said \in {"ok", "error"} : Returned(c, said)
        /\ apiCall[c].pc = "sent" /\ asked' = asked /\ Done(apiCall[c].op, apiCall[c].request)
    BY <2>1 DEF GitLabDoes
  <2> QED BY <1>1, <2>2, ReturnStep DEF GitLabClientInv
<1>4. CASE \E c \in ApiCallers : GitLabRefuses(c)
  <2>1. PICK c \in ApiCallers : GitLabRefuses(c)
    BY <1>4
  <2>2. /\ \E said \in {"ok", "error"} : Returned(c, said)
        /\ apiCall[c].pc = "sent" /\ asked' = asked /\ project' = project
    BY <2>1 DEF GitLabRefuses
  <2> QED BY <1>1, <2>2, ReturnStep DEF GitLabClientInv
<1>5. CASE \E c \in ApiCallers : GoesOn(c)
  <2>1. PICK c \in ApiCallers : GoesOn(c)
    BY <1>5
  <2>2. NoCall \in CallType /\ NoCall.pc = "idle"
    BY DEF NoCall, CallType, Ops, ProjectKinds
  <2>3. apiCall' \in [ApiCallers -> CallType] /\ Changing' = Changing
    BY <2>1, <2>2 DEF GoesOn, GitLabClientInv, Changing
  <2> QED BY <1>1, <2>1, <2>3 DEF GoesOn, GitLabClientInv, NumbersLeft
<1>6. CASE UNCHANGED gitlabClientVars
  BY <1>1, <1>6 DEF gitlabClientVars, GitLabClientInv, NumbersLeft, Changing
<1> QED BY <1>2, <1>3, <1>4, <1>5, <1>6 DEF GitLabClientNext

LEMMA GitLabClientInvTells == GitLabClientInv => ReportedIsMade /\ GitLabClientTypeOK
BY DEF GitLabClientInv, LedgerInv, NumbersLeft, Numbers, CallType, GitLabClientTypeOK

\* However many goroutines use the client, and whatever GitLab does and
\* whatever answers are lost: a change APIClient reports as made was made, and
\* one made beyond that was reported as an error (APIClient's methods).
THEOREM ReportsHold == GitLabClientSpec => []ReportedIsMade
BY GitLabClientInvInit, GitLabClientInvStep, GitLabClientInvTells, PTL DEF GitLabClientSpec

-----------------------------------------------------------------------------
(* Together                                                                *)

GitLabSideInv ==
  /\ scene \in Scenes
  /\ WebhookInv /\ GitLabClientInv /\ AlertInv /\ AlertBounds /\ MonitorInv /\ RecoveryInv

LEMMA GitLabSideInvInit == GitLabSideInit => GitLabSideInv
BY InitInv, GitLabClientInvInit, AlertInvInit, AlertBoundsInit, MonitorInvInit, RecoveryInvInit
   DEF GitLabSideInit, GitLabSideInv

\* A step of one component is a step, or none, of each.
LEMMA GitLabSideInvStep ==
  GitLabSideInv /\ [GitLabSideNext]_<<scene, vars, gitlabClientVars, alertVars, webhookVars, recoveryVars>>
    => GitLabSideInv'
<1> SUFFICES ASSUME GitLabSideInv,
                    [GitLabSideNext]_<<scene, vars, gitlabClientVars, alertVars, webhookVars, recoveryVars>>
             PROVE  GitLabSideInv'
  OBVIOUS
<1>1. /\ scene' = scene /\ [Next]_vars /\ [GitLabClientNext]_gitlabClientVars /\ [AlertNext]_alertVars
      /\ [WebhookNext]_webhookVars /\ [RecoveryNext]_recoveryVars
  BY DEF GitLabSideNext, WebhookScene, ClientScene, AlertScene, MonitorScene, RecoveryScene, In
<1>2. WebhookInv' /\ GitLabClientInv'
  BY <1>1, NextInv, GitLabClientInvStep DEF GitLabSideInv
<1>3. AlertInv' /\ AlertBounds'
  BY <1>1, AlertInvStep, AlertBoundsStep DEF GitLabSideInv
<1>4. MonitorInv' /\ RecoveryInv'
  BY <1>1, MonitorInvStep, RecoveryInvStep DEF GitLabSideInv
<1> QED BY <1>1, <1>2, <1>3, <1>4 DEF GitLabSideInv

\* Every variable of every component has its type, for any constants.
THEOREM GitLabSideTyped == GitLabSideSpec => []Typed
<1>1. GitLabSideInv => Typed
  BY GitLabClientInvTells, AlertInvTells, MonitorInvTells, RecoveryInvTells DEF GitLabSideInv, WebhookInv, Typed
<1> QED BY <1>1, GitLabSideInvInit, GitLabSideInvStep, PTL DEF GitLabSideSpec

\* A project hook that is answered with success has tried every key it found,
\* and what the client reports as done was done, once (HandleProjectHook,
\* APIClient's methods).
THEOREM AnswersAreExplained == GitLabSideSpec => []AnswersExplained
<1>1. GitLabSideInv => AnswersExplained
  BY GitLabClientInvTells, InvTellsTried DEF GitLabSideInv, AnswersExplained
<1> QED BY <1>1, GitLabSideInvInit, GitLabSideInvStep, PTL DEF GitLabSideSpec

\* What alerts, statuses and statistics show is what was seen (CheckAlertRules,
\* updateStatus, recordAttempt).
THEOREM MonitorsAgree == GitLabSideSpec => []MonitoringAgrees
<1>1. GitLabSideInv => MonitoringAgrees
  BY AlertInvTells, MonitorInvTells, RecoveryInvTells DEF GitLabSideInv, MonitoringAgrees
<1> QED BY <1>1, GitLabSideInvInit, GitLabSideInvStep, PTL DEF GitLabSideSpec
=============================================================================
