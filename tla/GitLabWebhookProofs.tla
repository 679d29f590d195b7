------------------------ MODULE GitLabWebhookProofs ------------------------
(***************************************************************************)
(* Proofs about GitLabWebhook for any deliveries, events, keys, filters    *)
(* and bounds: the types, what a successful job and an answered project    *)
(* hook have done, how often a comment is repeated, and what the filter    *)
(* decides.                                                                *)
(***************************************************************************)
EXTENDS GitLabWebhook, TLAPS

-----------------------------------------------------------------------------
(* Conversions                                                              *)

\* The texts of an event the service receives are sequences of keys.
LEMMA TextType ==
  ASSUME NEW e \in Events, NEW f \in Fields
  PROVE  e.text[f] \in Seq(Keys) /\ Converted(e).text[f] \in Seq(Keys)
<1>1. e.text[f] \in Seq(Keys)
  BY EventAssumption
<1>2. Converted(e).text[f] = IF f \in Kept THEN e.text[f] ELSE <<>>
  BY DEF Converted, Event
<1> QED BY <1>1, <1>2

\* A job asks for comments on at most Longest keys.
LEMMA SystemMentionsType ==
  ASSUME NEW e \in Events
  PROVE  /\ SystemMentions(Converted(e)) \in Seq(Keys)
         /\ Len(SystemMentions(Converted(e))) <= Longest
<1> DEFINE c == Converted(e)
<1>1. /\ c.text["message"] \in Seq(Keys) /\ c.text["title"] \in Seq(Keys)
      /\ c.text["description"] \in Seq(Keys) /\ c.text["note"] \in Seq(Keys)
      /\ c.text["ref"] \in Seq(Keys) /\ c.text["environment"] \in Seq(Keys)
  BY TextType DEF Fields
<1>2. c.text["title"] \o c.text["description"] \in Seq(Keys)
  BY <1>1
<1>3. SystemMentions(c) \in Seq(Keys)
  <2> HIDE DEF c
  <2> QED BY <1>1, <1>2 DEF SystemMentions, PushMentions, TitledMentions, NoteMentions,
                            PipelineMentions, DeploymentMentions
<1> QED BY <1>3, LongestAssumption

\* The filter asks about keys.
LEMMA FilterKeysType ==
  ASSUME NEW e \in Events
  PROVE  FilterKeys(Converted(e)) \subseteq Keys
<1>1. \A f \in Fields : ToSet(Converted(e).text[f]) \subseteq Keys
  BY TextType DEF ToSet
<1> QED BY <1>1 DEF FilterKeys, Fields

\* Where a mention that is due is.
LEMMA DuePosition ==
  ASSUME TypeOK, NEW d \in Deliveries, Due(d)
  PROVE  /\ run[d] = "posting"
         /\ next[d] \in Positions /\ next[d] + 1 \in 1..Longest + 1
         /\ next[d] + 1 <= Len(mentions[d]) + 1
<1>1. next[d] \in 1..Longest + 1 /\ Len(mentions[d]) \in Nat /\ Len(mentions[d]) <= Longest
  BY DEF TypeOK
<1> QED BY <1>1, BoundsAssumption DEF Due, Positions

-----------------------------------------------------------------------------
(* The inductive invariant, of one delivery                                 *)

FilterOf(d) == FilterKeys(Converted(event[d]))

\* Where a delivery may be: a request without an event has done nothing, only
\* system hooks have jobs, and the run of a project hook is its request's.
Placed(d) ==
  /\ IF request[d] = "none"
       THEN run[d] = "none" /\ phase[d] = "new" /\ result[d] = "none"
       ELSE event[d] \in Events
  /\ IF HookOf[d] = "system"
       THEN request[d] \notin {"working", "answered"}
       ELSE /\ request[d] \notin {"submitting", "accepted", "refused"}
            /\ run[d] \in {"none", "posting", "returning"}
            /\ run[d] # "none" => request[d] = "working"
  /\ run[d] = "posting" => next[d] <= Len(mentions[d]) + 1

\* Mentions are dealt with in order, and a run that ends well is past the last.
Dealt(d, i) == posted[d][i] > 0 \/ (HookOf[d] = "project" /\ i \in errors[d])

Commented(d) ==
  config.attempts > 0 =>
    /\ run[d] = "posting" => \A i \in Positions : i < next[d] => Dealt(d, i)
    /\ result[d] = "commented" => \A i \in DOMAIN mentions[d] : Dealt(d, i)

\* The result "commented" is final for a project hook, and gone when a new run
\* of a job starts.
Concluded(d) ==
  /\ result[d] = "commented" => run[d] \in {"none", "returning"}
  /\ HookOf[d] = "project" =>
       (result[d] = "commented" <=> run[d] = "returning" \/ request[d] = "answered")

\* The runs a mention of d may have been commented on in, the current one
\* included, and whether the current one has yet to come to mention i.
Chances(d) == IF HookOf[d] = "system" THEN runs[d] ELSE 1

Ahead(d, i) ==
  \/ run[d] \in {"checking", "filtering", "logging"}
  \/ run[d] = "posting" /\ i >= next[d]
  \/ HookOf[d] = "project" /\ run[d] = "none" /\ request[d] # "answered"

Bounded(d) ==
  \A i \in Positions :
    /\ posted[d][i] <= lost[d] + Chances(d)
    /\ Ahead(d, i) => posted[d][i] + 1 <= lost[d] + Chances(d)

\* A run past the filter, or with comments made, was let through by it.
Passed(d) ==
  config.filter /\ FilterOf(d) # {} => FilterOf(d) \cap config.matching # {} \/ d \in blind

Searched(d) ==
  /\ searched[d] \cap config.matching = {}
  /\ run[d] = "filtering" => FilterOf(d) # {}
  /\ result[d] = "skipped" => FilterOf(d) # {} /\ FilterOf(d) \cap config.matching = {}
  /\ HookOf[d] = "system" /\ run[d] \in {"logging", "posting"} => Passed(d)
  /\ HookOf[d] = "system" /\ (\E i \in Positions : posted[d][i] > 0) => Passed(d)
  /\ request[d] = "none" => \A i \in Positions : posted[d][i] = 0

Sound(d) == Placed(d) /\ Commented(d) /\ Concluded(d) /\ Bounded(d) /\ Searched(d)

WebhookInv == TypeOK /\ \A d \in Deliveries : Sound(d)

-----------------------------------------------------------------------------
(* Each step keeps it                                                       *)

\* Nothing has happened yet.
LEMMA InitInv == Init => WebhookInv
<1> SUFFICES ASSUME Init PROVE WebhookInv
  OBVIOUS
<1> USE BoundsAssumption
<1>1. TypeOK
  BY DEF Init, TypeOK, Queue!Init, Queue!Phases, Positions
<1>2. ASSUME NEW d \in Deliveries PROVE Sound(d)
  <2>1. Placed(d) /\ Commented(d) /\ Concluded(d)
    BY DEF Init, Queue!Init, Placed, Commented, Concluded
  <2>2. Bounded(d)
    BY DEF Init, Queue!Init, Bounded, Ahead, Chances, Positions
  <2>3. Searched(d)
    BY DEF Init, Searched, Positions
  <2> QED BY <2>1, <2>2, <2>3 DEF Sound
<1> QED BY <1>1, <1>2 DEF WebhookInv

\* Nothing of delivery e changes.
Untouched(e) ==
  /\ request'[e] = request[e] /\ event'[e] = event[e]
  /\ phase'[e] = phase[e] /\ runs'[e] = runs[e]
  /\ run'[e] = run[e] /\ result'[e] = result[e] /\ searched'[e] = searched[e]
  /\ mentions'[e] = mentions[e] /\ next'[e] = next[e]
  /\ posted'[e] = posted[e] /\ lost'[e] = lost[e] /\ errors'[e] = errors[e]
  /\ config' = config
  /\ e \in blind => e \in blind'

\* A delivery no step touches stays sound; the set blind only grows.
LEMMA UntouchedSound ==
  ASSUME NEW e \in Deliveries, Sound(e), Untouched(e)
  PROVE  Sound(e)'
<1>1. Placed(e)'
  BY DEF Sound, Untouched, Placed
<1>2. Commented(e)' /\ Concluded(e)'
  BY DEF Sound, Untouched, Commented, Concluded, Dealt
<1>3. Bounded(e)'
  BY DEF Sound, Untouched, Bounded, Ahead, Chances
<1>4. Searched(e)'
  BY DEF Sound, Untouched, Searched, Passed, FilterOf
<1> QED BY <1>1, <1>2, <1>3, <1>4 DEF Sound

\* What a step of delivery d has to keep.
StepSound(d) ==
  /\ TypeOK'
  /\ \A e \in Deliveries \ {d} : Untouched(e)
  /\ Sound(d)'

\* An attempt to comment uses up the chance of its mention, or its answer is
\* lost, or it makes no comment.
LEMMA AttemptBounded ==
  ASSUME TypeOK, TypeOK', NEW d \in Deliveries, Bounded(d),
         run[d] = "posting", run'[d] \in {"posting", "returning"}, next[d] \in Positions,
         runs'[d] = runs[d], next'[d] >= next[d],
         \A i \in Positions : i # next[d] => posted'[d][i] = posted[d][i],
         \/ /\ posted'[d][next[d]] = posted[d][next[d]] + 1 /\ lost'[d] = lost[d]
            /\ next'[d] = next[d] + 1
         \/ posted'[d][next[d]] = posted[d][next[d]] + 1 /\ lost'[d] = lost[d] + 1
         \/ posted'[d][next[d]] = posted[d][next[d]] /\ lost'[d] = lost[d]
  PROVE  Bounded(d)'
<1>1. Chances(d) \in Nat /\ Chances(d)' = Chances(d)
  BY DEF TypeOK, Chances
<1>2. lost[d] \in Nat /\ lost'[d] \in Nat /\ next[d] \in Int /\ next'[d] \in Int
  BY BoundsAssumption DEF TypeOK
<1>3. ASSUME NEW i \in Positions
      PROVE  /\ posted'[d][i] <= lost'[d] + Chances(d)
             /\ Ahead(d, i)' => posted'[d][i] + 1 <= lost'[d] + Chances(d)
  <2>1. posted[d][i] \in Nat /\ posted'[d][i] \in Nat /\ i \in Int
    <3>1. posted \in [Deliveries -> [Positions -> Nat]] /\ posted' \in [Deliveries -> [Positions -> Nat]]
      BY DEF TypeOK
    <3>2. i \in Int
      BY DEF Positions
    <3> QED BY <3>1, <3>2
  <2>2. /\ posted[d][i] <= lost[d] + Chances(d)
        /\ i >= next[d] => posted[d][i] + 1 <= lost[d] + Chances(d)
    BY DEF Bounded, Ahead
  <2>3. Ahead(d, i)' => i >= next'[d]
    BY DEF Ahead
  <2>4. CASE i = next[d]
    BY <1>1, <1>2, <2>1, <2>2, <2>3, <2>4
  <2>5. CASE i # next[d]
    BY <1>1, <1>2, <2>1, <2>2, <2>3, <2>5
  <2> QED BY <2>4, <2>5
<1> QED BY <1>1, <1>3 DEF Bounded

\* What an attempt whose answer is not 2xx changes in Jira.
LEMMA AttemptedEffect ==
  ASSUME TypeOK, NEW d \in Deliveries, next[d] \in Positions,
         NEW made \in BOOLEAN, Attempted(d, made)
  PROVE  /\ posted' \in [Deliveries -> [Positions -> Nat]] /\ lost' \in [Deliveries -> Nat]
         /\ \A e \in Deliveries \ {d} : posted'[e] = posted[e] /\ lost'[e] = lost[e]
         /\ \A i \in Positions : i # next[d] => posted'[d][i] = posted[d][i]
         /\ \A i \in Positions : posted[d][i] > 0 => posted'[d][i] > 0
         /\ \/ posted'[d][next[d]] = posted[d][next[d]] + 1 /\ lost'[d] = lost[d] + 1
            \/ posted'[d][next[d]] = posted[d][next[d]] /\ lost'[d] = lost[d]
<1>1. posted \in [Deliveries -> [Positions -> Nat]] /\ lost \in [Deliveries -> Nat]
  BY DEF TypeOK
<1>2. posted[d][next[d]] \in Nat /\ lost[d] \in Nat
  BY <1>1
<1>3. CASE made
  BY <1>1, <1>2, <1>3 DEF Attempted
<1>4. CASE ~made
  BY <1>1, <1>2, <1>4 DEF Attempted
<1> QED BY <1>3, <1>4

\* The handler gives the request its event and its place.
LEMMA DeliverKeeps ==
  ASSUME WebhookInv, NEW d \in Deliveries, Deliver(d)
  PROVE  StepSound(d)
<1> USE BoundsAssumption DEF Deliver, Alive, queueVars, postVars, jiraVars
<1>0. TypeOK /\ Sound(d)
  BY DEF WebhookInv
<1>e. event'[d] \in Events
  BY <1>0 DEF TypeOK, Events
<1>1. TypeOK'
  BY <1>0, <1>e DEF TypeOK, Sound, Placed
<1>2. \A e \in Deliveries \ {d} : Untouched(e)
  BY <1>0 DEF TypeOK, Untouched
<1>3. Placed(d)'
  BY <1>0, <1>e DEF TypeOK, Sound, Placed, Concluded
<1>4. Commented(d)'
  BY <1>0, <1>1 DEF TypeOK, Sound, Placed, Commented, Concluded, Dealt, Positions
<1>5. Concluded(d)'
  BY <1>0 DEF TypeOK, Sound, Placed, Concluded
<1>6. Bounded(d)'
  BY <1>0 DEF TypeOK, Sound, Placed, Concluded, Bounded, Ahead, Chances, Positions
<1>7. Searched(d)'
  BY <1>0 DEF TypeOK, Sound, Placed, Concluded, Searched, Passed, FilterOf, Positions
<1> QED BY <1>1, <1>2, <1>3, <1>4, <1>5, <1>6, <1>7 DEF StepSound, Sound

\* Steps that only move the request or the run of d.
QuietStep(d) ==
  \/ Refuse(d) \/ Answer(d)
  \/ ContextOver(d) \/ Unfiltered(d) \/ Filter(d) \/ SearchFails(d) \/ SearchMatches(d)
  \/ Skip(d) \/ Crash(d) \/ Reject(d)

LEMMA QuietKeeps ==
  ASSUME WebhookInv, NEW d \in Deliveries, QuietStep(d)
  PROVE  StepSound(d)
<1> USE BoundsAssumption DEF QuietStep, Refuse, Answer, ContextOver, Unfiltered, Filter, SearchFails,
        SearchMatches, Skip, Crash, Reject, Alive, Move, Finish, queueVars, postVars, jiraVars
<1>0. TypeOK /\ Sound(d)
  BY DEF WebhookInv
<1>1. TypeOK'
  BY <1>0, ZenonT(60) DEF TypeOK, Sound, Placed, Positions
<1>2. \A e \in Deliveries \ {d} : Untouched(e)
  BY <1>0 DEF TypeOK, Untouched
<1>3. Placed(d)'
  BY <1>0 DEF TypeOK, Sound, Placed, Concluded
<1>4. Commented(d)'
  <2>1. UNCHANGED <<config, mentions, next, posted, errors>>
    OBVIOUS
  <2>2. /\ run'[d] = "posting" => run[d] = "posting"
        /\ result'[d] = "commented" => result[d] = "commented"
    BY <1>0 DEF TypeOK
  <2> HIDE DEF QuietStep
  <2> QED BY <1>0, <2>1, <2>2 DEF Sound, Commented, Dealt
<1>5. Concluded(d)'
  BY <1>0 DEF TypeOK, Sound, Placed, Concluded
<1>6. Bounded(d)'
  BY <1>0 DEF TypeOK, Sound, Placed, Concluded, Bounded, Ahead, Chances, Positions
<1>7. Searched(d)'
  BY <1>0, ZenonT(60) DEF TypeOK, Sound, Placed, Concluded, Searched, Passed, FilterOf, Positions
<1> QED BY <1>1, <1>2, <1>3, <1>4, <1>5, <1>6, <1>7 DEF StepSound, Sound

\* A project hook asks for comments once, so each mention has its one chance.
LEMMA StartProjectKeeps ==
  ASSUME WebhookInv, NEW d \in Deliveries, StartProject(d)
  PROVE  StepSound(d)
<1> USE BoundsAssumption DEF StartProject, Alive, queueVars, postVars, jiraVars
<1>0. TypeOK /\ Sound(d)
  BY DEF WebhookInv
<1>m. mentions'[d] \in Seq(Keys) /\ Len(mentions'[d]) \in Nat /\ Len(mentions'[d]) <= Longest
  BY <1>0, LongestAssumption DEF TypeOK, Sound, Placed
<1>n. 1 \in 1..Longest + 1 /\ 1 \in 1..MaxAttempts + 1
  OBVIOUS
<1>1. TypeOK'
  BY <1>0, <1>m, <1>n DEF TypeOK, Sound, Placed
<1>2. \A e \in Deliveries \ {d} : Untouched(e)
  BY <1>0 DEF TypeOK, Untouched
<1>3. Placed(d)'
  BY <1>0, <1>m DEF TypeOK, Sound, Placed, Concluded
<1>4. Commented(d)'
  BY <1>0, <1>1 DEF TypeOK, Sound, Placed, Commented, Concluded, Dealt, Positions
<1>5. Concluded(d)'
  BY <1>0 DEF TypeOK, Sound, Placed, Concluded
<1>6. Bounded(d)'
  BY <1>0 DEF TypeOK, Sound, Placed, Concluded, Bounded, Ahead, Chances, Positions
<1>7. Searched(d)'
  BY <1>0 DEF TypeOK, Sound, Placed, Concluded, Searched, Passed, FilterOf, Positions
<1> QED BY <1>1, <1>2, <1>3, <1>4, <1>5, <1>6, <1>7 DEF StepSound, Sound

\* The keys a search missed are none Jira selects.
LEMMA SearchMissesKeeps ==
  ASSUME WebhookInv, NEW d \in Deliveries, SearchMisses(d)
  PROVE  StepSound(d)
<1> USE BoundsAssumption DEF SearchMisses, Alive, queueVars, postVars, jiraVars, Move
<1>0. TypeOK /\ Sound(d)
  BY DEF WebhookInv
<1>f. FilterKeys(Converted(event[d])) \subseteq Keys
  BY <1>0, FilterKeysType DEF Sound, Placed
<1>1. TypeOK'
  BY <1>0, <1>f DEF TypeOK, Sound, Placed
<1>2. \A e \in Deliveries \ {d} : Untouched(e)
  BY <1>0 DEF TypeOK, Untouched
<1>3. Placed(d)'
  BY <1>0 DEF TypeOK, Sound, Placed, Concluded
<1>4. Commented(d)'
  BY <1>0, <1>1 DEF TypeOK, Sound, Placed, Commented, Concluded, Dealt, Positions
<1>5. Concluded(d)'
  BY <1>0 DEF TypeOK, Sound, Placed, Concluded
<1>6. Bounded(d)'
  BY <1>0 DEF TypeOK, Sound, Placed, Concluded, Bounded, Ahead, Chances, Positions
<1>7. Searched(d)'
  BY <1>0 DEF TypeOK, Sound, Placed, Concluded, Searched, Passed, FilterOf, Positions
<1> QED BY <1>1, <1>2, <1>3, <1>4, <1>5, <1>6, <1>7 DEF StepSound, Sound

\* A run that gets past the filter asks for comments from the first mention on.
LEMMA DispatchKeeps ==
  ASSUME WebhookInv, NEW d \in Deliveries, Dispatch(d)
  PROVE  StepSound(d)
<1> USE BoundsAssumption DEF Dispatch, Alive, queueVars, postVars, jiraVars
<1>0. TypeOK /\ Sound(d)
  BY DEF WebhookInv
<1>m. mentions'[d] \in Seq(Keys) /\ Len(mentions'[d]) \in Nat /\ Len(mentions'[d]) <= Longest
  BY <1>0, SystemMentionsType DEF TypeOK, Sound, Placed
<1>n. 1 \in 1..Longest + 1 /\ 1 \in 1..MaxAttempts + 1
  OBVIOUS
<1>1. TypeOK'
  BY <1>0, <1>m, <1>n DEF TypeOK, Sound, Placed
<1>2. \A e \in Deliveries \ {d} : Untouched(e)
  BY <1>0 DEF TypeOK, Untouched
<1>3. Placed(d)'
  BY <1>0, <1>m DEF TypeOK, Sound, Placed, Concluded
<1>4. Commented(d)'
  BY <1>0, <1>1 DEF TypeOK, Sound, Placed, Commented, Concluded, Dealt, Positions
<1>5. Concluded(d)'
  BY <1>0 DEF TypeOK, Sound, Placed, Concluded
<1>6. Bounded(d)'
  BY <1>0 DEF TypeOK, Sound, Placed, Concluded, Bounded, Ahead, Chances, Positions
<1>7. Searched(d)'
  BY <1>0 DEF TypeOK, Sound, Placed, Concluded, Searched, Passed, FilterOf, Positions
<1> QED BY <1>1, <1>2, <1>3, <1>4, <1>5, <1>6, <1>7 DEF StepSound, Sound

\* The comment is made, and the run goes past its mention.
LEMMA CommentKeeps ==
  ASSUME WebhookInv, NEW d \in Deliveries, Comment(d)
  PROVE  StepSound(d)
<1> USE BoundsAssumption DEF Comment, Alive, queueVars, postVars, jiraVars
<1>0. TypeOK /\ Sound(d)
  BY DEF WebhookInv
<1>d. Due(d) /\ run[d] = "posting" /\ next[d] \in Positions /\ next[d] + 1 \in 1..Longest + 1
      /\ next[d] + 1 <= Len(mentions[d]) + 1
  BY <1>0, DuePosition
<1>p. posted' \in [Deliveries -> [Positions -> Nat]] /\ posted'[d] \in [Positions -> Nat]
      /\ \A i \in Positions : i # next[d] => posted'[d][i] = posted[d][i]
  BY <1>0, <1>d DEF TypeOK
<1>1. TypeOK'
  BY <1>0, <1>d, <1>p, SMTT(60) DEF TypeOK
<1>2. \A e \in Deliveries \ {d} : Untouched(e)
  BY <1>0 DEF TypeOK, Untouched
<1>3. Placed(d)'
  BY <1>0, <1>d DEF TypeOK, Sound, Placed, Concluded
<1>4. Commented(d)'
  <2>1. result'[d] # "commented" /\ config' = config /\ errors' = errors /\ next'[d] = next[d] + 1
    BY <1>0, <1>d DEF TypeOK, Sound, Concluded
  <2>2. ASSUME NEW i \in Positions, i < next[d] + 1, config.attempts > 0 PROVE Dealt(d, i)'
    <3>1. CASE i = next[d]
      <4>1. posted[d][i] \in Nat /\ posted'[d][i] = posted[d][i] + 1
        BY <1>0, <1>d, <3>1 DEF TypeOK
      <4> QED BY <4>1 DEF Dealt
    <3>2. CASE i # next[d]
      <4>1. i < next[d]
        BY <2>2, <3>2, <1>d DEF Positions
      <4> HIDE DEF Comment
      <4> QED BY <1>0, <1>d, <1>p, <2>1, <2>2, <3>2, <4>1 DEF Sound, Commented, Dealt
    <3> QED BY <3>1, <3>2
  <2> HIDE DEF Comment
  <2> QED BY <2>1, <2>2 DEF Commented
<1>5. Concluded(d)'
  BY <1>0, <1>d DEF TypeOK, Sound, Placed, Concluded
<1>r. /\ posted'[d][next[d]] = posted[d][next[d]] + 1 /\ lost'[d] = lost[d]
      /\ next'[d] = next[d] + 1 /\ run'[d] = run[d] /\ runs'[d] = runs[d]
  BY <1>0, <1>d DEF TypeOK
<1>s. next[d] \in Int /\ next'[d] >= next[d]
  BY <1>r, <1>d DEF Positions
<1>6. Bounded(d)'
  <2> HIDE DEF Comment
  <2> QED BY <1>0, <1>1, <1>d, <1>p, <1>r, <1>s, AttemptBounded DEF Sound
<1>7. Searched(d)'
  <2>1. /\ UNCHANGED <<config, request, event, searched, blind>>
        /\ run'[d] # "filtering" /\ (result'[d] = "skipped" => result[d] = "skipped")
    BY <1>0, <1>d DEF TypeOK
  <2>2. request[d] # "none" /\ (HookOf[d] = "system" => Passed(d))
    BY <1>0, <1>d DEF Sound, Placed, Searched
  <2> HIDE DEF Comment
  <2> QED BY <1>0, <2>1, <2>2 DEF Sound, Searched, Passed, FilterOf
<1> QED BY <1>1, <1>2, <1>3, <1>4, <1>5, <1>6, <1>7 DEF StepSound, Sound

\* The attempt may have made the comment, but then its answer was lost.
LEMMA TryAgainKeeps ==
  ASSUME WebhookInv, NEW d \in Deliveries, TryAgain(d)
  PROVE  StepSound(d)
<1> USE BoundsAssumption DEF TryAgain, Alive, queueVars, postVars, jiraVars, MayTryAgain
<1>0. TypeOK /\ Sound(d)
  BY DEF WebhookInv
<1>d. Due(d) /\ run[d] = "posting" /\ next[d] \in Positions /\ next[d] + 1 \in 1..Longest + 1
      /\ next[d] + 1 <= Len(mentions[d]) + 1
  BY <1>0, DuePosition
<1>p. /\ posted' \in [Deliveries -> [Positions -> Nat]] /\ lost' \in [Deliveries -> Nat]
      /\ \A e \in Deliveries \ {d} : posted'[e] = posted[e] /\ lost'[e] = lost[e]
      /\ \A i \in Positions : i # next[d] => posted'[d][i] = posted[d][i]
      /\ \A i \in Positions : posted[d][i] > 0 => posted'[d][i] > 0
      /\ \/ posted'[d][next[d]] = posted[d][next[d]] + 1 /\ lost'[d] = lost[d] + 1
         \/ posted'[d][next[d]] = posted[d][next[d]] /\ lost'[d] = lost[d]
  BY <1>0, <1>d, AttemptedEffect
<1>r. next'[d] = next[d] /\ run'[d] = run[d] /\ runs'[d] = runs[d]
  OBVIOUS
<1>a. /\ attempt' \in [Deliveries -> 1..MaxAttempts + 1] /\ config' = config
      /\ \A e \in Deliveries : attempt'[e] = 1 \/ attempt'[e] <= config.attempts
  BY <1>0 DEF TypeOK
<1>1. TypeOK'
  BY <1>0, <1>d, <1>p, <1>a DEF TypeOK
<1>2. \A e \in Deliveries \ {d} : Untouched(e)
  BY <1>0, <1>p DEF TypeOK, Untouched
<1>3. Placed(d)'
  BY <1>0, <1>d DEF TypeOK, Sound, Placed, Concluded
<1>4. Commented(d)'
  <2>1. /\ UNCHANGED <<config, mentions, errors>>
        /\ next'[d] = next[d] /\ run'[d] = run[d] /\ result'[d] = result[d]
    OBVIOUS
  <2>2. DOMAIN mentions[d] \subseteq Positions
    BY <1>0 DEF TypeOK, Positions
  <2> HIDE DEF TryAgain
  <2> QED BY <1>0, <1>p, <2>1, <2>2 DEF Sound, Commented, Dealt
<1>5. Concluded(d)'
  BY <1>0, <1>d DEF TypeOK, Sound, Placed, Concluded
<1>s. next[d] \in Int /\ next'[d] >= next[d]
  BY <1>r, <1>d DEF Positions
<1>6. Bounded(d)'
  <2> HIDE DEF TryAgain
  <2> QED BY <1>0, <1>1, <1>d, <1>p, <1>r, <1>s, AttemptBounded DEF Sound
<1>7. Searched(d)'
  <2>1. /\ UNCHANGED <<config, request, event, searched, blind>>
        /\ run'[d] # "filtering" /\ (result'[d] = "skipped" => result[d] = "skipped")
    BY <1>0, <1>d DEF TypeOK
  <2>2. request[d] # "none" /\ (HookOf[d] = "system" => Passed(d))
    BY <1>0, <1>d DEF Sound, Placed, Searched
  <2> HIDE DEF TryAgain
  <2> QED BY <1>0, <2>1, <2>2 DEF Sound, Searched, Passed, FilterOf
<1> QED BY <1>1, <1>2, <1>3, <1>4, <1>5, <1>6, <1>7 DEF StepSound, Sound

\* The caller ends its run, or notes the error and goes on.
LEMMA CannotCommentKeeps ==
  ASSUME WebhookInv, NEW d \in Deliveries, CannotComment(d)
  PROVE  StepSound(d)
<1> USE BoundsAssumption DEF CannotComment, Alive, queueVars, postVars, jiraVars, MayTryAgain,
        GiveUp, GiveUpAtOnce, GiveUpAndGoOn, Finish
<1>0. TypeOK /\ Sound(d)
  BY DEF WebhookInv
<1>d. Due(d) /\ run[d] = "posting" /\ next[d] \in Positions /\ next[d] + 1 \in 1..Longest + 1
      /\ next[d] + 1 <= Len(mentions[d]) + 1
  BY <1>0, DuePosition
<1>p. /\ posted' \in [Deliveries -> [Positions -> Nat]] /\ lost' \in [Deliveries -> Nat]
      /\ \A e \in Deliveries \ {d} : posted'[e] = posted[e] /\ lost'[e] = lost[e]
      /\ \A i \in Positions : i # next[d] => posted'[d][i] = posted[d][i]
      /\ \A i \in Positions : posted[d][i] > 0 => posted'[d][i] > 0
      /\ \/ posted'[d][next[d]] = posted[d][next[d]] + 1 /\ lost'[d] = lost[d] + 1
         \/ posted'[d][next[d]] = posted[d][next[d]] /\ lost'[d] = lost[d]
  BY <1>0, <1>d, AttemptedEffect
<1>g. \/ GiveUpAtOnce(d)
      \/ GiveUpAndGoOn(d)
  OBVIOUS
<1>n. /\ next' \in [Deliveries -> 1..Longest + 1] /\ errors' \in [Deliveries -> SUBSET Positions]
      /\ run' \in [Deliveries -> {"none", "checking", "filtering", "logging", "posting", "returning"}]
      /\ result' \in [Deliveries -> {"none", "commented", "skipped", "failed"}]
      /\ attempt' \in [Deliveries -> 1..MaxAttempts + 1]
      /\ \A e \in Deliveries : attempt'[e] = 1 \/ attempt'[e] = attempt[e]
  <2> HIDE DEF CannotComment, GiveUp
  <2>1. CASE GiveUpAtOnce(d)
    BY <2>1, <1>0, <1>d DEF TypeOK
  <2>2. CASE GiveUpAndGoOn(d)
    BY <2>2, <1>0, <1>d DEF TypeOK
  <2> QED BY <1>g, <2>1, <2>2
<1>1. TypeOK'
  <2> HIDE DEF GiveUp
  <2> QED BY <1>0, <1>d, <1>p, <1>n DEF TypeOK
<1>2. \A e \in Deliveries \ {d} : Untouched(e)
  BY <1>0, <1>p, SMTT(60) DEF TypeOK, Untouched
<1>3. Placed(d)'
  BY <1>0, <1>d DEF TypeOK, Sound, Placed, Concluded
<1>4. Commented(d)'
  <2>1. result'[d] # "commented" /\ config' = config
    BY <1>0, <1>d DEF TypeOK, Sound, Concluded
  <2>2. run'[d] = "posting" =>
          /\ HookOf[d] = "project" /\ next'[d] = next[d] + 1
          /\ errors'[d] = errors[d] \cup {next[d]}
    BY <1>0, <1>d DEF TypeOK
  <2>3. ASSUME NEW i \in Positions, run'[d] = "posting", i < next'[d], config.attempts > 0
        PROVE  Dealt(d, i)'
    <3>1. CASE i = next[d]
      BY <2>2, <2>3, <3>1 DEF Dealt
    <3>2. CASE i # next[d]
      <4>1. i < next[d]
        BY <2>2, <2>3, <3>2, <1>d DEF Positions
      <4> HIDE DEF CannotComment, GiveUp
      <4> QED BY <1>0, <1>d, <1>p, <2>2, <2>3, <4>1 DEF Sound, Commented, Dealt
    <3> QED BY <3>1, <3>2
  <2> HIDE DEF CannotComment, GiveUp
  <2> QED BY <2>1, <2>3 DEF Commented
<1>5. Concluded(d)'
  BY <1>0, <1>d DEF TypeOK, Sound, Placed, Concluded
<1>r. /\ next'[d] \in {next[d], next[d] + 1} /\ run'[d] \in {run[d], "returning"}
      /\ runs'[d] = runs[d]
  BY <1>0, <1>d DEF TypeOK
<1>s. next[d] \in Int /\ next'[d] >= next[d]
  BY <1>r, <1>d DEF Positions
<1>6. Bounded(d)'
  <2> HIDE DEF CannotComment
  <2> QED BY <1>0, <1>1, <1>d, <1>p, <1>r, <1>s, AttemptBounded DEF Sound
<1>7. Searched(d)'
  <2>1. /\ UNCHANGED <<config, request, event, searched, blind>>
        /\ run'[d] # "filtering" /\ (result'[d] = "skipped" => result[d] = "skipped")
    BY <1>0, <1>d DEF TypeOK
  <2>2. request[d] # "none" /\ (HookOf[d] = "system" => Passed(d))
    BY <1>0, <1>d DEF Sound, Placed, Searched
  <2> HIDE DEF CannotComment, GiveUp
  <2> QED BY <1>0, <2>1, <2>2 DEF Sound, Searched, Passed, FilterOf
<1> QED BY <1>1, <1>2, <1>3, <1>4, <1>5, <1>6, <1>7 DEF StepSound, Sound

\* Without attempts nothing is claimed of the comments.
LEMMA NoAttemptKeeps ==
  ASSUME WebhookInv, NEW d \in Deliveries, NoAttempt(d)
  PROVE  StepSound(d)
<1> USE BoundsAssumption DEF NoAttempt, Alive, queueVars, postVars, jiraVars
<1>0. TypeOK /\ Sound(d)
  BY DEF WebhookInv
<1>d. Due(d) /\ run[d] = "posting" /\ next[d] \in Positions /\ next[d] + 1 \in 1..Longest + 1
      /\ next[d] + 1 <= Len(mentions[d]) + 1
  BY <1>0, DuePosition
<1>1. TypeOK'
  BY <1>0, <1>d DEF TypeOK, Sound, Placed, Positions
<1>2. \A e \in Deliveries \ {d} : Untouched(e)
  BY <1>0 DEF TypeOK, Untouched
<1>3. Placed(d)'
  BY <1>0, <1>d DEF TypeOK, Sound, Placed, Concluded
<1>4. Commented(d)'
  BY <1>0, <1>d, <1>1 DEF TypeOK, Sound, Placed, Commented, Concluded, Dealt, Positions
<1>5. Concluded(d)'
  BY <1>0, <1>d DEF TypeOK, Sound, Placed, Concluded
<1>6. Bounded(d)'
  BY <1>0, <1>d DEF TypeOK, Sound, Placed, Concluded, Bounded, Ahead, Chances, Positions
<1>7. Searched(d)'
  BY <1>0, <1>d DEF TypeOK, Sound, Placed, Concluded, Searched, Passed, FilterOf, Positions
<1> QED BY <1>1, <1>2, <1>3, <1>4, <1>5, <1>6, <1>7 DEF StepSound, Sound

\* A run ends well when it is past its last mention.
LEMMA AllPostedKeeps ==
  ASSUME WebhookInv, NEW d \in Deliveries, AllPosted(d)
  PROVE  StepSound(d)
<1> USE BoundsAssumption DEF AllPosted, Alive, queueVars, postVars, jiraVars, Finish
<1>0. TypeOK /\ Sound(d)
  BY DEF WebhookInv
<1>1. TypeOK'
  BY <1>0 DEF TypeOK, Sound, Placed, Positions
<1>2. \A e \in Deliveries \ {d} : Untouched(e)
  BY <1>0 DEF TypeOK, Untouched
<1>3. Placed(d)'
  BY <1>0 DEF TypeOK, Sound, Placed, Concluded
<1>m. \A i \in DOMAIN mentions[d] : i \in Positions /\ i < next[d]
  BY <1>0 DEF TypeOK, Positions
<1>4. Commented(d)'
  BY <1>0, <1>m DEF TypeOK, Sound, Placed, Commented, Concluded, Dealt, Positions
<1>5. Concluded(d)'
  BY <1>0 DEF TypeOK, Sound, Placed, Concluded
<1>6. Bounded(d)'
  BY <1>0 DEF TypeOK, Sound, Placed, Concluded, Bounded, Ahead, Chances, Positions
<1>7. Searched(d)'
  BY <1>0 DEF TypeOK, Sound, Placed, Concluded, Searched, Passed, FilterOf, Positions
<1> QED BY <1>1, <1>2, <1>3, <1>4, <1>5, <1>6, <1>7 DEF StepSound, Sound

QueueType ==
  /\ phase \in [Deliveries -> Queue!Phases]
  /\ runs \in [Deliveries -> Nat]

\* The queue's interface keeps the types of phase and runs and touches the job
\* of d only, which a project hook and a request without an event do not have.
LEMMA QueueStep ==
  ASSUME QueueType, NEW d \in Deliveries,
         \/ Queue!Accept(d) \/ Queue!Start(d) \/ Queue!Requeue(d)
         \/ Queue!Finish(d) \/ Queue!Lose(d)
  PROVE  /\ QueueType'
         /\ \A e \in Deliveries \ {d} : phase'[e] = phase[e] /\ runs'[e] = runs[e]
         /\ Queue!Accept(d) \/ phase[d] # "new"
         /\ IF Queue!Start(d) THEN runs'[d] = runs[d] + 1 ELSE runs'[d] = runs[d]
BY DEF QueueType, Queue!Accept, Queue!Start, Queue!Requeue, Queue!Finish, Queue!Lose,
       Queue!Become, Queue!Phases

\* Only a system hook is queued.
LEMMA AcceptKeeps ==
  ASSUME WebhookInv, NEW d \in Deliveries, Accept(d)
  PROVE  StepSound(d)
<1> USE BoundsAssumption DEF Accept, Alive, postVars, jiraVars
<1>0. TypeOK /\ Sound(d) /\ QueueType
  BY DEF WebhookInv, TypeOK, QueueType
<1>q. /\ QueueType' /\ runs[d] \in Nat
      /\ \A e \in Deliveries \ {d} : phase'[e] = phase[e] /\ runs'[e] = runs[e]
      /\ HookOf[d] = "system" /\ request[d] # "none"
      /\ runs'[d] = runs[d]
  BY <1>0, QueueStep DEF QueueType, TypeOK, Sound, Placed, Queue!Accept, Queue!Start
<1>1. TypeOK'
  BY <1>0, <1>q DEF TypeOK, QueueType, Sound, Placed
<1>2. \A e \in Deliveries \ {d} : Untouched(e)
  BY <1>0, <1>q DEF TypeOK, Untouched
<1>3. Placed(d)'
  BY <1>0, <1>q DEF TypeOK, Sound, Placed
<1>4. Commented(d)'
  BY <1>0, <1>q, <1>1 DEF TypeOK, Sound, Placed, Commented, Concluded, Dealt, Positions
<1>5. Concluded(d)'
  BY <1>0, <1>q DEF TypeOK, Sound, Placed, Concluded
<1>6. Bounded(d)'
  BY <1>0, <1>q DEF TypeOK, Sound, Placed, Concluded, Bounded, Ahead, Chances, Positions
<1>7. Searched(d)'
  BY <1>0, <1>q DEF TypeOK, Sound, Placed, Concluded, Searched, Passed, FilterOf, Positions
<1> QED BY <1>1, <1>2, <1>3, <1>4, <1>5, <1>6, <1>7 DEF StepSound, Sound

\* A new run is one more chance for each mention.
LEMMA StartRunKeeps ==
  ASSUME WebhookInv, NEW d \in Deliveries, StartRun(d)
  PROVE  StepSound(d)
<1> USE BoundsAssumption DEF StartRun, Alive, postVars, jiraVars
<1>0. TypeOK /\ Sound(d) /\ QueueType
  BY DEF WebhookInv, TypeOK, QueueType
<1>q. /\ QueueType' /\ runs[d] \in Nat
      /\ \A e \in Deliveries \ {d} : phase'[e] = phase[e] /\ runs'[e] = runs[e]
      /\ HookOf[d] = "system" /\ request[d] # "none"
      /\ runs'[d] = runs[d] + 1
  BY <1>0, QueueStep DEF QueueType, TypeOK, Sound, Placed, Queue!Start
<1>1. TypeOK'
  BY <1>0, <1>q DEF TypeOK, QueueType, Sound, Placed
<1>2. \A e \in Deliveries \ {d} : Untouched(e)
  BY <1>0, <1>q DEF TypeOK, Untouched
<1>3. Placed(d)'
  BY <1>0, <1>q DEF TypeOK, Sound, Placed
<1>4. Commented(d)'
  BY <1>0, <1>q, <1>1 DEF TypeOK, Sound, Placed, Commented, Concluded, Dealt, Positions
<1>5. Concluded(d)'
  BY <1>0, <1>q DEF TypeOK, Sound, Placed, Concluded
<1>6. Bounded(d)'
  BY <1>0, <1>q, SMTT(60) DEF TypeOK, Sound, Placed, Concluded, Bounded, Ahead, Chances, Positions
<1>7. Searched(d)'
  BY <1>0, <1>q DEF TypeOK, Sound, Placed, Concluded, Searched, Passed, FilterOf, Positions
<1> QED BY <1>1, <1>2, <1>3, <1>4, <1>5, <1>6, <1>7 DEF StepSound, Sound

\* A run ends and its job is over or waits for the next run.
LEMMA ReturnKeeps ==
  ASSUME WebhookInv, NEW d \in Deliveries, Return(d)
  PROVE  StepSound(d)
<1> USE BoundsAssumption DEF Return, Alive, postVars, jiraVars
<1>0. TypeOK /\ Sound(d) /\ QueueType
  BY DEF WebhookInv, TypeOK, QueueType
<1>q. /\ QueueType' /\ runs[d] \in Nat
      /\ \A e \in Deliveries \ {d} : phase'[e] = phase[e] /\ runs'[e] = runs[e]
      /\ HookOf[d] = "system" /\ request[d] # "none"
      /\ runs'[d] = runs[d]
  BY <1>0, QueueStep DEF QueueType, TypeOK, Sound, Placed, Queue!Finish, Queue!Requeue, Queue!Start
<1>1. TypeOK'
  BY <1>0, <1>q DEF TypeOK, QueueType, Sound, Placed
<1>2. \A e \in Deliveries \ {d} : Untouched(e)
  BY <1>0, <1>q DEF TypeOK, Untouched
<1>3. Placed(d)'
  BY <1>0, <1>q DEF TypeOK, Sound, Placed
<1>4. Commented(d)'
  BY <1>0, <1>q, <1>1 DEF TypeOK, Sound, Placed, Commented, Concluded, Dealt, Positions
<1>5. Concluded(d)'
  BY <1>0, <1>q DEF TypeOK, Sound, Placed, Concluded
<1>6. Bounded(d)'
  BY <1>0, <1>q DEF TypeOK, Sound, Placed, Concluded, Bounded, Ahead, Chances, Positions
<1>7. Searched(d)'
  BY <1>0, <1>q DEF TypeOK, Sound, Placed, Concluded, Searched, Passed, FilterOf, Positions
<1> QED BY <1>1, <1>2, <1>3, <1>4, <1>5, <1>6, <1>7 DEF StepSound, Sound

\* A retry that is lost ends the job.
LEMMA RetryLostKeeps ==
  ASSUME WebhookInv, NEW d \in Deliveries, RetryLost(d)
  PROVE  StepSound(d)
<1> USE BoundsAssumption DEF RetryLost, Alive, postVars, jiraVars
<1>0. TypeOK /\ Sound(d) /\ QueueType
  BY DEF WebhookInv, TypeOK, QueueType
<1>q. /\ QueueType' /\ runs[d] \in Nat
      /\ \A e \in Deliveries \ {d} : phase'[e] = phase[e] /\ runs'[e] = runs[e]
      /\ HookOf[d] = "system" /\ request[d] # "none"
      /\ runs'[d] = runs[d]
  BY <1>0, QueueStep DEF QueueType, TypeOK, Sound, Placed, Queue!Lose, Queue!Start
<1>1. TypeOK'
  BY <1>0, <1>q DEF TypeOK, QueueType, Sound, Placed
<1>2. \A e \in Deliveries \ {d} : Untouched(e)
  BY <1>0, <1>q DEF TypeOK, Untouched
<1>3. Placed(d)'
  BY <1>0, <1>q DEF TypeOK, Sound, Placed
<1>4. Commented(d)'
  BY <1>0, <1>q, <1>1 DEF TypeOK, Sound, Placed, Commented, Concluded, Dealt, Positions
<1>5. Concluded(d)'
  BY <1>0, <1>q DEF TypeOK, Sound, Placed, Concluded
<1>6. Bounded(d)'
  BY <1>0, <1>q DEF TypeOK, Sound, Placed, Concluded, Bounded, Ahead, Chances, Positions
<1>7. Searched(d)'
  BY <1>0, <1>q DEF TypeOK, Sound, Placed, Concluded, Searched, Passed, FilterOf, Positions
<1> QED BY <1>1, <1>2, <1>3, <1>4, <1>5, <1>6, <1>7 DEF StepSound, Sound

-----------------------------------------------------------------------------
\* Each step keeps one delivery sound and leaves the others alone.
LEMMA NextInv == WebhookInv /\ [Next]_vars => WebhookInv'
<1> SUFFICES ASSUME WebhookInv, [Next]_vars PROVE WebhookInv'
  OBVIOUS
<1>1. ASSUME NEW d \in Deliveries, HandlerStep(d) \/ RunStep(d) \/ CommentStep(d)
      PROVE  WebhookInv'
  <2>1. HandlerStep(d) => StepSound(d)
    BY DeliverKeeps, AcceptKeeps, StartProjectKeeps, QuietKeeps DEF HandlerStep, QuietStep
  <2>2. RunStep(d) => StepSound(d)
    BY StartRunKeeps, SearchMissesKeeps, DispatchKeeps, ReturnKeeps, RetryLostKeeps, QuietKeeps
       DEF RunStep, QuietStep
  <2>3. CommentStep(d) => StepSound(d)
    BY CommentKeeps, TryAgainKeeps, CannotCommentKeeps, NoAttemptKeeps, AllPostedKeeps
       DEF CommentStep
  <2>4. \A e \in Deliveries : Sound(e)'
    BY <1>1, <2>1, <2>2, <2>3, UntouchedSound DEF StepSound, WebhookInv
  <2> QED BY <1>1, <2>1, <2>2, <2>3, <2>4 DEF StepSound, WebhookInv
<1>2. CASE UNCHANGED vars
  <2>1. TypeOK'
    BY <1>2 DEF WebhookInv, vars, TypeOK
  <2>2. \A e \in Deliveries : Untouched(e)
    BY <1>2 DEF vars, Untouched
  <2> QED BY <2>1, <2>2, UntouchedSound DEF WebhookInv
<1> QED BY <1>1, <1>2 DEF Next

\* The handlers, the runs and AddComment keep every variable within its type,
\* their loops within their bounds, and project hooks out of the queue.
THEOREM TypeCorrect == Spec => []TypeOK
<1>1. WebhookInv => TypeOK
  BY DEF WebhookInv
<1> QED BY <1>1, InitInv, NextInv, PTL DEF Spec

\* ProcessEventAsync returns nil to the queue only when each issue its event
\* asks to comment on has its comment, whatever earlier runs of the job did.
THEOREM SuccessIsComplete == Spec => []SuccessMeansCommented
<1>1. WebhookInv => SuccessMeansCommented
  BY DEF WebhookInv, Sound, Commented, Dealt, SuccessMeansCommented
<1> QED BY <1>1, InitInv, NextInv, PTL DEF Spec

LEMMA InvTellsTried == WebhookInv => AnsweredMeansTried
BY BoundsAssumption DEF WebhookInv, Sound, Placed, Commented, Concluded, Dealt, AnsweredMeansTried

\* HandleProjectHook answers 200 only when each comment was made or its error
\* logged.
THEOREM AnswerIsComplete == Spec => []AnsweredMeansTried
BY InvTellsTried, InitInv, NextInv, PTL DEF Spec
\* A mention is commented on at most once per run and lost answer, for any
\* numbers of attempts and retries.
THEOREM CommentsAreBounded == Spec => []CommentsBounded
<1>1. WebhookInv => CommentsBounded
  BY DEF WebhookInv, Sound, Bounded, Chances, CommentsBounded
<1> QED BY <1>1, InitInv, NextInv, PTL DEF Spec

\* The JQL filter skips an event only when no issue of it is selected, and lets
\* comments through only when one is or a search failed.
THEOREM FilterIsSound == Spec => []FilterSound
<1>1. WebhookInv => FilterSound
  BY DEF WebhookInv, Sound, Searched, Passed, FilterOf, FilterSound
<1> QED BY <1>1, InitInv, NextInv, PTL DEF Spec
=============================================================================
