--------------------------- MODULE JiraSideProofs ---------------------------
(***************************************************************************)
(* Proofs about what talks to Jira, for any callers, operations, rates,    *)
(* workflows, versions and people: the client overruns its rate limit by   *)
(* its sleepers at most and does not lock itself out, a mirrored issue is  *)
(* what its events make of it; and all the variables of MCJiraSide have    *)
(* their types.                                                            *)
(***************************************************************************)
EXTENDS MCJiraSide, JiraWebhookProofs, FiniteSetTheorems, SequenceTheorems

-----------------------------------------------------------------------------
(* The Jira client                                                         *)

\* A caller's record has its fields, whatever they hold.
CallsShaped ==
  /\ DOMAIN jcall = JiraCallers
  /\ \A c \in JiraCallers :
       jcall[c] = [pc |-> jcall[c].pc, op |-> jcall[c].op, left |-> jcall[c].left]

\* Callers that have slept for a token of their own.
Rested == {c \in JiraCallers : jcall[c].pc = "rested"}

\* What has gone out in this tick, what is in the bucket or owed to it, and
\* the sleepers' tokens.
RateInv ==
  /\ bucket \in [tokens : 0..Capacity, owed : 0..Capacity, thisTick : Nat]
  /\ bucket.thisTick + JMin(Capacity, bucket.tokens + bucket.owed) + Cardinality(Rested)
       <= Capacity + Cardinality(JiraCallers)

LEMMA RestedFinite ==
  /\ Cardinality(JiraCallers) \in Nat /\ IsFiniteSet(Rested) /\ Cardinality(Rested) \in Nat
  /\ Cardinality(Rested) <= Cardinality(JiraCallers)
<1>1. Rested \subseteq JiraCallers
  BY DEF Rested
<1> QED BY <1>1, FS_Subset, FS_CardinalityType, JiraClientAssumption

LEMMA RestedFinitePrime ==
  /\ IsFiniteSet(Rested') /\ Cardinality(Rested') \in Nat
  /\ Cardinality(Rested') <= Cardinality(JiraCallers)
<1>1. Rested' \subseteq JiraCallers
  BY DEF Rested
<1> QED BY <1>1, FS_Subset, FS_CardinalityType, JiraClientAssumption

LEMMA RateInit == JiraClientInit => RateInv
<1> SUFFICES ASSUME JiraClientInit PROVE RateInv
  OBVIOUS
<1>1. bucket = [tokens |-> Capacity, owed |-> 0, thisTick |-> 0]
  BY DEF JiraClientInit
<1>2. JMin(Capacity, bucket.tokens + bucket.owed) = Capacity
  BY <1>1, JiraClientAssumption DEF JMin
<1> QED BY <1>1, <1>2, RestedFinite, JiraClientAssumption DEF RateInv

\* The steps that leave the bucket alone let nobody wake.
LEMMA RateFrame ==
  ASSUME RateInv, bucket' = bucket, Rested' \subseteq Rested
  PROVE  RateInv'
<1>1. Cardinality(Rested') <= Cardinality(Rested)
  BY RestedFinite, FS_Subset
<1> QED BY <1>1, RestedFinite, RestedFinitePrime, JiraClientAssumption DEF RateInv, JMin

\* One caller goes on, and not by beginning to wait for its turn again.
LEMMA CallerGoesOn ==
  ASSUME CallsShaped, NEW c \in JiraCallers, NEW k,
         k = [pc |-> k.pc, op |-> k.op, left |-> k.left], k.pc # "rested",
         jcall' = [jcall EXCEPT ![c] = k]
  PROVE  CallsShaped' /\ Rested' \subseteq Rested \ {c}
<1>1. jcall'[c] = k /\ \A d \in JiraCallers : d # c => jcall'[d] = jcall[d]
  BY DEF CallsShaped
<1> QED BY <1>1 DEF CallsShaped, Rested

\* The ways the actions write it.
LEMMA CallerMoves ==
  ASSUME CallsShaped, NEW c \in JiraCallers, NEW p, p # "rested", jcall' = [jcall EXCEPT ![c].pc = p]
  PROVE  CallsShaped' /\ Rested' \subseteq Rested \ {c}
<1> DEFINE k == [pc |-> p, op |-> jcall[c].op, left |-> jcall[c].left]
<1>1. [jcall[c] EXCEPT !.pc = p] = k
  <2>1. jcall[c] = [pc |-> jcall[c].pc, op |-> jcall[c].op, left |-> jcall[c].left]
    BY DEF CallsShaped
  <2> QED BY <2>1
<1>2. jcall' = [jcall EXCEPT ![c] = k]
  BY <1>1 DEF CallsShaped
<1>3. k = [pc |-> k.pc, op |-> k.op, left |-> k.left] /\ k.pc = p
  OBVIOUS
<1> HIDE DEF k
<1> QED BY <1>2, <1>3, CallerGoesOn

LEMMA CallerProceeds ==
  ASSUME CallsShaped, NEW c \in JiraCallers, NEW l,
         jcall' = [jcall EXCEPT ![c].pc = "limiter", ![c].left = l]
  PROVE  CallsShaped' /\ Rested' \subseteq Rested
<1> DEFINE k == [pc |-> "limiter", op |-> jcall[c].op, left |-> l]
<1>1. [jcall[c] EXCEPT !.pc = "limiter", !.left = l] = k
  <2> DEFINE q == [jcall[c] EXCEPT !.pc = "limiter"]
  <2>1. q = [pc |-> "limiter", op |-> jcall[c].op, left |-> jcall[c].left]
    BY DEF CallsShaped
  <2>2. [jcall[c] EXCEPT !.pc = "limiter", !.left = l] = [q EXCEPT !.left = l]
    OBVIOUS
  <2> HIDE DEF q
  <2>3. [q EXCEPT !.left = l] = k
    BY <2>1
  <2> QED BY <2>2, <2>3
<1>2. jcall' = [jcall EXCEPT ![c] = k]
  BY <1>1 DEF CallsShaped
<1>3. k = [pc |-> k.pc, op |-> k.op, left |-> k.left] /\ k.pc = "limiter"
  OBVIOUS
<1> HIDE DEF k
<1> QED BY <1>2, <1>3, CallerGoesOn

LEMMA CallerEnds ==
  ASSUME CallsShaped, NEW c \in JiraCallers, jcall' = Ended(c)
  PROVE  CallsShaped' /\ Rested' \subseteq Rested
<1>1. AtRest = [pc |-> AtRest.pc, op |-> AtRest.op, left |-> AtRest.left] /\ AtRest.pc = "idle"
  BY DEF AtRest
<1> QED BY <1>1, CallerGoesOn DEF Ended

\* The steps that do not take from the bucket.
LEMMA OtherStep ==
  ASSUME CallsShaped, RateInv, JiraClientNext,
         ~Tick, ~(\E c \in JiraCallers : Wait(c) \/ Wake(c))
  PROVE  CallsShaped' /\ RateInv'
<1>1. CASE \E c \in JiraCallers, op \in Operations : Call(c, op)
  <2>1. PICK c \in JiraCallers, op \in Operations : Call(c, op)
    BY <1>1
  <2> DEFINE k == [pc |-> "limiter", op |-> op, left |-> Plan(op)]
  <2>2. bucket' = bucket /\ jcall' = [jcall EXCEPT ![c] = k]
    BY <2>1 DEF Call
  <2>4. k = [pc |-> k.pc, op |-> k.op, left |-> k.left] /\ k.pc = "limiter"
    OBVIOUS
  <2> HIDE DEF k
  <2>3. CallsShaped' /\ Rested' \subseteq Rested
    BY <2>2, <2>4, CallerGoesOn
  <2> QED BY <2>2, <2>3, RateFrame
<1>2. CASE \E c \in JiraCallers : Header(c) \/ Answered(c) \/ FailsOrIsLost(c)
  <2>1. PICK c \in JiraCallers : Header(c) \/ Answered(c) \/ FailsOrIsLost(c)
    BY <1>2
  <2>2. bucket' = bucket
    BY <2>1 DEF Header, Answered, FailsOrIsLost
  <2>3. CASE Header(c)
    <3>1. jcall' = [jcall EXCEPT ![c].pc = "sending"] \/ jcall' = [jcall EXCEPT ![c].pc = "refreshing"]
          \/ jcall' = Ended(c)
      BY <2>3 DEF Header
    <3> QED BY <2>2, <3>1, CallerMoves, CallerEnds, RateFrame
  <2>4. CASE Answered(c)
    <3> DEFINE l == jcall[c].left
    <3>1. jcall' = Ended(c) \/ Proceeds(c, Tail(l)) \/ Proceeds(c, Tail(Tail(l)))
      BY <2>4 DEF Answered
    <3>2. jcall' = Ended(c) \/ \E rest : jcall' = [jcall EXCEPT ![c].pc = "limiter", ![c].left = rest]
      BY <3>1 DEF Proceeds
    <3> QED BY <2>2, <3>2, CallerProceeds, CallerEnds, RateFrame
  <2>5. CASE FailsOrIsLost(c)
    <3>1. \/ jcall' = Ended(c)
          \/ jcall' = [jcall EXCEPT ![c].pc = "limiter", ![c].left = Tail(jcall[c].left)]
      BY <2>5 DEF FailsOrIsLost, CallsShaped
    <3> QED BY <2>2, <3>1, CallerProceeds, CallerEnds, RateFrame
  <2> QED BY <2>1, <2>3, <2>4, <2>5
<1>3. CASE \E a \in Actors : Granted(a) \/ Refused(a) \/ StoreAccess(a) \/ StoreRefresh(a) \/ StoreExpiry(a)
  <2>1. PICK a \in Actors :
          Granted(a) \/ Refused(a) \/ StoreAccess(a) \/ StoreRefresh(a) \/ StoreExpiry(a)
    BY <1>3
  <2>2. /\ bucket' = bucket
        /\ \/ jcall' = jcall
           \/ a \in JiraCallers /\ (jcall' = Ended(a) \/ jcall' = [jcall EXCEPT ![a].pc = "sending"])
    BY <2>1 DEF Granted, Refused, GivesUp, StoreAccess, StoreRefresh, StoreExpiry, Actors
  <2>3. CASE jcall' = jcall
    BY <2>2, <2>3, RateFrame DEF CallsShaped, Rested
  <2>4. CASE a \in JiraCallers /\ (jcall' = Ended(a) \/ jcall' = [jcall EXCEPT ![a].pc = "sending"])
    BY <2>2, <2>4, CallerMoves, CallerEnds, RateFrame
  <2> QED BY <2>2, <2>3, <2>4
<1>4. CASE HandleAuthorize \/ HandleCallback \/ Expires \/ Moved
  <2>1. bucket' = bucket /\ jcall' = jcall
    BY <1>4 DEF HandleAuthorize, HandleCallback, Expires, Moved
  <2> QED BY <2>1, RateFrame DEF CallsShaped, Rested
<1> QED BY <1>1, <1>2, <1>3, <1>4 DEF JiraClientNext

LEMMA WaitStep ==
  ASSUME CallsShaped, RateInv, NEW c \in JiraCallers, Wait(c)
  PROVE  CallsShaped' /\ RateInv'
<1>0. /\ bucket.tokens \in 0..Capacity /\ bucket.owed \in 0..Capacity /\ bucket.thisTick \in Nat
      /\ bucket = [tokens |-> bucket.tokens, owed |-> bucket.owed, thisTick |-> bucket.thisTick]
      /\ bucket.thisTick + JMin(Capacity, bucket.tokens + bucket.owed) + Cardinality(Rested)
           <= Capacity + Cardinality(JiraCallers)
  BY DEF RateInv
<1>1. Refilled = JMin(Capacity, bucket.tokens + bucket.owed) /\ Refilled \in 0..Capacity
  BY <1>0, JiraClientAssumption DEF Refilled, JMin
<1>2. CallsShaped' /\ Rested' \subseteq Rested
  BY CallerMoves DEF Wait
<1>3. Cardinality(Rested') <= Cardinality(Rested)
  BY <1>2, RestedFinite, FS_Subset
<1>4. CASE Refilled > 0
  <2>1. bucket' = [tokens |-> Refilled - 1, owed |-> 0, thisTick |-> bucket.thisTick + 1]
    BY <1>4 DEF Wait
  <2>2. JMin(Capacity, bucket'.tokens + bucket'.owed) = Refilled - 1
    BY <1>1, <1>4, <2>1, JiraClientAssumption DEF JMin
  <2> QED BY <1>0, <1>1, <1>2, <1>3, <1>4, <2>1, <2>2, RestedFinite, RestedFinitePrime, JiraClientAssumption
          DEF RateInv
<1>5. CASE ~(Refilled > 0)
  <2>1. bucket' = [tokens |-> Refilled, owed |-> 0, thisTick |-> bucket.thisTick]
    BY <1>0, <1>5 DEF Wait
  <2>2. JMin(Capacity, bucket'.tokens + bucket'.owed) = Refilled
    BY <1>1, <2>1, JiraClientAssumption DEF JMin
  <2> QED BY <1>0, <1>1, <1>2, <1>3, <2>1, <2>2, RestedFinite, RestedFinitePrime, JiraClientAssumption
          DEF RateInv
<1> QED BY <1>4, <1>5

LEMMA WakeStep ==
  ASSUME CallsShaped, RateInv, NEW c \in JiraCallers, Wake(c)
  PROVE  CallsShaped' /\ RateInv'
<1>0. /\ bucket.tokens \in 0..Capacity /\ bucket.owed \in 0..Capacity /\ bucket.thisTick \in Nat
      /\ bucket.thisTick + JMin(Capacity, bucket.tokens + bucket.owed) + Cardinality(Rested)
           <= Capacity + Cardinality(JiraCallers)
      /\ JMin(Capacity, bucket.tokens + bucket.owed) >= 0 /\ JMin(Capacity, bucket.tokens + bucket.owed) \in Int
  BY JiraClientAssumption DEF RateInv, JMin
<1>1. /\ c \in Rested /\ jcall' = [jcall EXCEPT ![c].pc = "header"]
      /\ bucket' = [tokens |-> 0, owed |-> 0, thisTick |-> bucket.thisTick + 1]
  BY DEF Wake, Rested
<1>2. CallsShaped' /\ Rested' \subseteq Rested \ {c}
  BY <1>1, CallerMoves
<1>3. /\ IsFiniteSet(Rested \ {c}) /\ Cardinality(Rested \ {c}) = Cardinality(Rested) - 1
  BY <1>1, RestedFinite, FS_RemoveElement
<1>4. Cardinality(Rested') <= Cardinality(Rested) - 1
  BY <1>2, <1>3, FS_Subset
<1>5. JMin(Capacity, bucket'.tokens + bucket'.owed) = 0
  BY <1>1, JiraClientAssumption DEF JMin
<1> QED BY <1>0, <1>1, <1>2, <1>4, <1>5, RestedFinite, RestedFinitePrime, JiraClientAssumption DEF RateInv

LEMMA TickStep == ASSUME CallsShaped, RateInv, Tick PROVE CallsShaped' /\ RateInv'
<1>1. CallsShaped'
  <2>1. ASSUME NEW c \in JiraCallers
        PROVE  jcall'[c] = [pc |-> jcall'[c].pc, op |-> jcall'[c].op, left |-> jcall'[c].left]
    <3>1. jcall[c] = [pc |-> jcall[c].pc, op |-> jcall[c].op, left |-> jcall[c].left]
      BY DEF CallsShaped
    <3>2. jcall'[c] = IF jcall[c].pc = "dozing" THEN [jcall[c] EXCEPT !.pc = "rested"] ELSE jcall[c]
      BY DEF Tick
    <3> QED BY <3>1, <3>2
  <2> QED BY <2>1 DEF CallsShaped, Tick
<1>2. /\ bucket' = [tokens |-> bucket.tokens, owed |-> JMin(Capacity, bucket.owed + 1), thisTick |-> 0]
      /\ bucket.tokens \in 0..Capacity /\ bucket.owed \in 0..Capacity
  BY DEF Tick, RateInv
<1>3. /\ bucket' \in [tokens : 0..Capacity, owed : 0..Capacity, thisTick : Nat]
      /\ JMin(Capacity, bucket'.tokens + bucket'.owed) \in 0..Capacity
  BY <1>2, JiraClientAssumption DEF JMin
<1> QED BY <1>1, <1>2, <1>3, RestedFinite, RestedFinitePrime, JiraClientAssumption DEF RateInv

-----------------------------------------------------------------------------
Storing(a) == writes[a].pc \in {"access", "refresh", "expiry"}

\* As long as nothing has gone astray, one actor at most stores an answer,
\* and it is the server's last; with none storing, the configuration has it.
LockoutInv ==
  /\ DOMAIN writes = Actors
  /\ \A a \in Actors : writes[a] = [pc |-> writes[a].pc, held |-> writes[a].held, got |-> writes[a].got]
  /\ tokens = [access |-> tokens.access, refresh |-> tokens.refresh, expired |-> tokens.expired]
  /\ ~astray =>
       /\ \A a \in Actors : Storing(a) =>
            /\ \A b \in Actors : Storing(b) => b = a
            /\ writes[a].pc \in {"access", "refresh"} => writes[a].got = granted
            /\ writes[a].pc = "expiry" => tokens.refresh = granted
       /\ (\A a \in Actors : ~Storing(a)) => tokens.refresh = granted

\* A caller with an exchange under way waits for it.
BusyRefreshes == \A c \in JiraCallers : Busy(c) => jcall[c].pc = "refreshing"

LEMMA LockoutInit == JiraClientInit => LockoutInv
BY DEF JiraClientInit, LockoutInv, NoAnswerYet, Storing

\* What one actor's exchange becomes.
LEMMA WritesEffect ==
  ASSUME LockoutInv, NEW a \in Actors, NEW p, NEW h, NEW g,
         writes' = [writes EXCEPT ![a] = [pc |-> p, held |-> h, got |-> g]]
  PROVE  /\ DOMAIN writes' = Actors
         /\ \A b \in Actors : writes'[b] = [pc |-> writes'[b].pc, held |-> writes'[b].held,
                                           got |-> writes'[b].got]
         /\ writes'[a].pc = p /\ writes'[a].got = g
         /\ \A b \in Actors : b # a => writes'[b] = writes[b]
BY DEF LockoutInv

LEMMA ExchangeStep ==
  ASSUME LockoutInv, NEW a \in Actors,
         Granted(a) \/ Refused(a) \/ StoreAccess(a) \/ StoreRefresh(a) \/ StoreExpiry(a)
  PROVE  LockoutInv'
<1>1. CASE Granted(a)
  <2>1. CASE astray'
    <3>1. \/ writes' = [writes EXCEPT ![a] = [pc |-> "access", held |-> writes[a].held, got |-> granted + 1]]
          \/ writes' = [writes EXCEPT ![a] = [pc |-> "none", held |-> 0, got |-> 0]]
      BY <1>1 DEF Granted, GivesUp, NoAnswerYet, LockoutInv
    <3>2. tokens' = tokens
      BY <1>1 DEF Granted
    <3> QED BY <2>1, <3>1, <3>2, WritesEffect DEF LockoutInv
  <2>2. CASE ~astray'
    <3>1. /\ writes' = [writes EXCEPT ![a] = [pc |-> "access", held |-> writes[a].held, got |-> granted + 1]]
          /\ granted' = granted + 1 /\ tokens' = tokens /\ ~astray /\ ~OthersBusy(a)
      BY <1>1, <2>2, ZenonT(60) DEF Granted, LockoutInv
    <3>2. \A b \in Actors : b # a => writes[b].pc = "none"
      BY <3>1 DEF OthersBusy, Busy
    <3>3. \A b \in Actors : Storing(b)' <=> b = a
      BY <3>1, <3>2, WritesEffect DEF Storing
    <3> QED BY <3>1, <3>3, WritesEffect DEF LockoutInv
  <2> QED BY <2>1, <2>2
<1>2. CASE Refused(a)
  <2>1. /\ writes' = [writes EXCEPT ![a] = [pc |-> "none", held |-> 0, got |-> 0]] /\ ~Storing(a)
        /\ granted' = granted /\ tokens' = tokens /\ astray' = astray
    BY <1>2 DEF Refused, GivesUp, NoAnswerYet, Storing
  <2>2. \A b \in Actors : Storing(b)' <=> Storing(b)
    BY <2>1, WritesEffect DEF Storing
  <2> QED BY <2>1, <2>2, WritesEffect DEF LockoutInv, Storing
<1>3. CASE StoreAccess(a)
  <2>0. /\ writes[a] = [pc |-> writes[a].pc, held |-> writes[a].held, got |-> writes[a].got]
        /\ tokens = [access |-> tokens.access, refresh |-> tokens.refresh, expired |-> tokens.expired]
        /\ writes' = [writes EXCEPT ![a].pc = "refresh"] /\ DOMAIN writes = Actors
        /\ tokens' = [tokens EXCEPT !.access = writes[a].got]
        /\ granted' = granted /\ astray' = astray /\ writes[a].pc = "access"
    BY <1>3 DEF StoreAccess, LockoutInv
  <2>4. [writes[a] EXCEPT !.pc = "refresh"] = [pc |-> "refresh", held |-> writes[a].held, got |-> writes[a].got]
    BY <2>0
  <2>5. writes' = [writes EXCEPT ![a] = [pc |-> "refresh", held |-> writes[a].held, got |-> writes[a].got]]
    BY <2>0, <2>4
  <2>6. /\ tokens'.refresh = tokens.refresh
        /\ tokens' = [access |-> tokens'.access, refresh |-> tokens'.refresh, expired |-> tokens'.expired]
    BY <2>0
  <2>1. /\ writes' = [writes EXCEPT ![a] = [pc |-> "refresh", held |-> writes[a].held, got |-> writes[a].got]]
        /\ Storing(a) /\ granted' = granted /\ astray' = astray /\ writes[a].pc = "access"
        /\ tokens'.refresh = tokens.refresh
        /\ tokens' = [access |-> tokens'.access, refresh |-> tokens'.refresh, expired |-> tokens'.expired]
    BY <2>0, <2>5, <2>6 DEF Storing
  <2>2. \A b \in Actors : Storing(b)' <=> Storing(b)
    BY <2>1, WritesEffect DEF Storing
  <2> QED BY <2>1, <2>2, WritesEffect DEF LockoutInv, Storing
<1>4. CASE StoreRefresh(a)
  <2>0. /\ writes[a] = [pc |-> writes[a].pc, held |-> writes[a].held, got |-> writes[a].got]
        /\ tokens = [access |-> tokens.access, refresh |-> tokens.refresh, expired |-> tokens.expired]
        /\ writes' = [writes EXCEPT ![a].pc = "expiry"] /\ DOMAIN writes = Actors
        /\ tokens' = [tokens EXCEPT !.refresh = writes[a].got]
        /\ granted' = granted /\ astray' = astray /\ writes[a].pc = "refresh"
    BY <1>4 DEF StoreRefresh, LockoutInv
  <2>4. [writes[a] EXCEPT !.pc = "expiry"] = [pc |-> "expiry", held |-> writes[a].held, got |-> writes[a].got]
    BY <2>0
  <2>5. writes' = [writes EXCEPT ![a] = [pc |-> "expiry", held |-> writes[a].held, got |-> writes[a].got]]
    BY <2>0, <2>4
  <2>6. /\ tokens'.refresh = writes[a].got
        /\ tokens' = [access |-> tokens'.access, refresh |-> tokens'.refresh, expired |-> tokens'.expired]
    BY <2>0
  <2>1. /\ writes' = [writes EXCEPT ![a] = [pc |-> "expiry", held |-> writes[a].held, got |-> writes[a].got]]
        /\ Storing(a) /\ granted' = granted /\ astray' = astray /\ writes[a].pc = "refresh"
        /\ tokens'.refresh = writes[a].got
        /\ tokens' = [access |-> tokens'.access, refresh |-> tokens'.refresh, expired |-> tokens'.expired]
    BY <2>0, <2>5, <2>6 DEF Storing
  <2>2. \A b \in Actors : Storing(b)' <=> Storing(b)
    BY <2>1, WritesEffect DEF Storing
  <2> QED BY <2>1, <2>2, WritesEffect DEF LockoutInv, Storing
<1>5. CASE StoreExpiry(a)
  <2>1. /\ writes' = [writes EXCEPT ![a] = [pc |-> "none", held |-> 0, got |-> 0]]
        /\ Storing(a) /\ granted' = granted /\ writes[a].pc = "expiry"
        /\ astray' = (astray /\ (OthersBusy(a) \/ tokens.refresh # granted))
        /\ tokens'.refresh = tokens.refresh
        /\ tokens' = [access |-> tokens'.access, refresh |-> tokens'.refresh, expired |-> tokens'.expired]
    BY <1>5 DEF StoreExpiry, NoAnswerYet, Storing, LockoutInv
  <2>2. ~astray' => tokens.refresh = granted /\ \A b \in Actors : ~Storing(b)'
    <3>1. \A b \in Actors : Storing(b)' <=> Storing(b) /\ b # a
      BY <2>1, WritesEffect DEF Storing
    <3>2. ~OthersBusy(a) => \A b \in Actors : Storing(b) => b = a
      BY DEF OthersBusy, Busy, Storing
    <3> QED BY <2>1, <3>1, <3>2 DEF LockoutInv
  <2> QED BY <2>1, <2>2, WritesEffect DEF LockoutInv
<1> QED BY <1>1, <1>2, <1>3, <1>4, <1>5

LEMMA LockoutStep ==
  LockoutInv /\ BusyRefreshes /\ [JiraClientNext]_jiraClientVars => LockoutInv'
<1> SUFFICES ASSUME LockoutInv, BusyRefreshes, [JiraClientNext]_jiraClientVars PROVE LockoutInv'
  OBVIOUS
<1>1. CASE \E a \in Actors : Granted(a) \/ Refused(a) \/ StoreAccess(a) \/ StoreRefresh(a) \/ StoreExpiry(a)
  BY <1>1, ExchangeStep
<1>2. ASSUME NEW a \in Actors, NEW h, ~Storing(a),
             writes' = [writes EXCEPT ![a] = [pc |-> "asking", held |-> h, got |-> 0]],
             granted' = granted, tokens' = tokens, astray' = astray
      PROVE  LockoutInv'
  <2>1. \A b \in Actors : Storing(b)' <=> Storing(b)
    BY <1>2, WritesEffect DEF Storing
  <2> QED BY <1>2, <2>1, WritesEffect DEF LockoutInv, Storing
<1>3. ASSUME writes' = writes, granted' = granted, astray' = astray,
             tokens' = tokens \/ tokens' = [tokens EXCEPT !.expired = TRUE]
      PROVE  LockoutInv'
  <2>1. /\ tokens'.refresh = tokens.refresh
        /\ tokens' = [access |-> tokens'.access, refresh |-> tokens'.refresh, expired |-> tokens'.expired]
    BY <1>3 DEF LockoutInv
  <2> QED BY <1>3, <2>1 DEF LockoutInv, Storing
<1>4. CASE \E c \in JiraCallers : Header(c)
  <2>1. PICK c \in JiraCallers : Header(c)
    BY <1>4
  <2>2. granted' = granted /\ tokens' = tokens /\ astray' = astray /\ ~Storing(c)
    BY <2>1 DEF Header, BusyRefreshes, Busy, Storing
  <2>3. CASE writes' = writes
    BY <2>2, <2>3, <1>3
  <2>4. CASE writes' = [writes EXCEPT ![c] = [pc |-> "asking", held |-> tokens.refresh, got |-> 0]]
    BY <2>2, <2>4, <1>2 DEF Actors
  <2> QED BY <2>1, <2>3, <2>4 DEF Header
<1>5. CASE HandleCallback
  <2>1. granted' = granted /\ tokens' = tokens /\ astray' = astray /\ ~Storing(Browser)
    BY <1>5 DEF HandleCallback, Busy, Storing
  <2>2. CASE writes' = writes
    BY <2>1, <2>2, <1>3
  <2>3. CASE writes' = [writes EXCEPT ![Browser] = [pc |-> "asking", held |-> 0, got |-> 0]]
    BY <2>1, <2>3, <1>2 DEF Actors
  <2> QED BY <1>5, <2>2, <2>3 DEF HandleCallback
<1>6. CASE \E c \in JiraCallers : \/ \E op \in Operations : Call(c, op)
                                \/ Wait(c) \/ Wake(c) \/ Answered(c) \/ FailsOrIsLost(c)
  <2>1. writes' = writes /\ granted' = granted /\ astray' = astray /\ tokens' = tokens
    BY <1>6 DEF Call, Wait, Wake, Answered, FailsOrIsLost
  <2> QED BY <2>1, <1>3
<1>7. CASE HandleAuthorize \/ Tick \/ Expires \/ Moved \/ UNCHANGED jiraClientVars
  <2>1. /\ writes' = writes /\ granted' = granted /\ astray' = astray
        /\ tokens' = tokens \/ tokens' = [tokens EXCEPT !.expired = TRUE]
    BY <1>7 DEF HandleAuthorize, Tick, Expires, Moved, jiraClientVars
  <2> QED BY <2>1, <1>3
<1> QED BY <1>1, <1>4, <1>5, <1>6, <1>7 DEF JiraClientNext

LEMMA BusyStep ==
  CallsShaped /\ LockoutInv /\ BusyRefreshes /\ [JiraClientNext]_jiraClientVars => BusyRefreshes'
<1> SUFFICES ASSUME CallsShaped, LockoutInv, BusyRefreshes, [JiraClientNext]_jiraClientVars
             PROVE  BusyRefreshes'
  OBVIOUS
<1>0. /\ DOMAIN writes = Actors /\ DOMAIN jcall = JiraCallers /\ JiraCallers \subseteq Actors
      /\ Browser \notin JiraCallers
      /\ \A c \in JiraCallers : jcall[c] = [pc |-> jcall[c].pc, op |-> jcall[c].op, left |-> jcall[c].left]
  BY JiraClientAssumption DEF LockoutInv, CallsShaped, Actors
<1>1. CASE \E c \in JiraCallers : \/ \E op \in Operations : Call(c, op)
                                \/ Wait(c) \/ Wake(c) \/ Answered(c) \/ FailsOrIsLost(c)
  <2>1. PICK c \in JiraCallers : \/ \E op \in Operations : Call(c, op)
                               \/ Wait(c) \/ Wake(c) \/ Answered(c) \/ FailsOrIsLost(c)
    BY <1>1
  <2>2. writes' = writes /\ jcall[c].pc # "refreshing"
    BY <2>1 DEF Call, Wait, Wake, Answered, FailsOrIsLost
  <2>3. \A d \in JiraCallers \ {c} : jcall'[d] = jcall[d]
    BY <1>0, <2>1 DEF Call, Wait, Wake, Answered, Proceeds, FailsOrIsLost, Ended
  <2> QED BY <2>2, <2>3 DEF BusyRefreshes, Busy
<1>2. CASE \E c \in JiraCallers : Header(c)
  <2>1. PICK c \in JiraCallers : Header(c)
    BY <1>2
  <2>2. \A d \in JiraCallers \ {c} : jcall'[d] = jcall[d] /\ writes'[d] = writes[d]
    BY <1>0, <2>1 DEF Header, Ended
  <2>3. writes' = writes \/ jcall'[c].pc = "refreshing"
    <3>1. CASE jcall' = [jcall EXCEPT ![c].pc = "refreshing"]
      BY <1>0, <3>1
    <3> QED BY <2>1, <3>1 DEF Header
  <2>4. ~Busy(c)
    BY <2>1 DEF Header, BusyRefreshes
  <2> QED BY <2>2, <2>3, <2>4 DEF BusyRefreshes, Busy
<1>3. CASE \E a \in Actors : Granted(a) \/ Refused(a) \/ StoreAccess(a) \/ StoreRefresh(a) \/ StoreExpiry(a)
  <2>1. PICK a \in Actors :
          Granted(a) \/ Refused(a) \/ StoreAccess(a) \/ StoreRefresh(a) \/ StoreExpiry(a)
    BY <1>3
  <2>2. \A d \in JiraCallers \ {a} : jcall'[d] = jcall[d] /\ writes'[d] = writes[d]
    BY <1>0, <2>1 DEF Granted, Refused, GivesUp, Ended, StoreAccess, StoreRefresh, StoreExpiry
  <2>3. Busy(a)
    BY <2>1 DEF Granted, Refused, StoreAccess, StoreRefresh, StoreExpiry, Busy
  <2>4. jcall' = jcall \/ writes'[a].pc = "none"
    <3>1. CASE writes' = [writes EXCEPT ![a] = NoAnswerYet]
      BY <1>0, <2>1, <3>1 DEF NoAnswerYet
    <3> QED BY <2>1, <3>1 DEF Granted, Refused, GivesUp, StoreAccess, StoreRefresh, StoreExpiry
  <2> QED BY <2>2, <2>3, <2>4 DEF BusyRefreshes, Busy
<1>4. CASE HandleCallback
  <2>1. jcall' = jcall /\ \A c \in JiraCallers : writes'[c] = writes[c]
    BY <1>0, <1>4 DEF HandleCallback
  <2> QED BY <2>1 DEF BusyRefreshes, Busy
<1>5. CASE Tick
  <2>1. writes' = writes /\ \A c \in JiraCallers : jcall[c].pc = "refreshing" => jcall'[c] = jcall[c]
    BY <1>5 DEF Tick
  <2> QED BY <2>1 DEF BusyRefreshes, Busy
<1>6. CASE HandleAuthorize \/ Expires \/ Moved \/ UNCHANGED jiraClientVars
  BY <1>6 DEF HandleAuthorize, Expires, Moved, jiraClientVars, BusyRefreshes, Busy
<1> QED BY <1>1, <1>2, <1>3, <1>4, <1>5, <1>6 DEF JiraClientNext

-----------------------------------------------------------------------------
(* The types of the client's variables                                     *)

Requests == {"read", "write", "users", "info", "status", "check", "transitions", "execute"}

\* What a validated transition may have left.
ValidatedRest ==
  {<<"status", "check", "transitions", "execute">>, <<"check", "transitions", "execute">>,
   <<"transitions", "execute">>, <<"execute">>}

CallFine(k) ==
  /\ k.pc \in {"idle", "limiter", "dozing", "rested", "header", "refreshing", "sending"}
  /\ k.op \in Operations \cup {"request"}
  /\ k.left \in Seq(Requests)
  /\ k.pc # "idle" => k.left # <<>> /\ (k.op = "validated" => k.left \in ValidatedRest)

CallsTyped == \A c \in JiraCallers : CallFine(jcall[c])

TokensTyped ==
  /\ tokens \in [access : 0..MaxGrants, refresh : 0..MaxGrants, expired : BOOLEAN]
  /\ granted \in 0..MaxGrants /\ astray \in BOOLEAN /\ remote \in JiraStatuses
  /\ cookie \in [state : 0..MaxGrants, begun : 0..MaxGrants]
  /\ writes \in [Actors -> [pc : {"none", "asking", "access", "refresh", "expiry"},
                            held : 0..MaxGrants, got : 0..MaxGrants]]

\* Requests one after the other.
LEMMA Joined ==
  ASSUME NEW a, NEW b, NEW c
  PROVE  <<a>> \o <<b>> = <<a, b>> /\ <<a, b>> \o <<c>> = <<a, b, c>>
<1>1. <<a>> \o <<b>> = <<a, b>>
  <2> DEFINE s == <<a>> \o <<b>>
  <2>1. s \in Seq({a, b}) /\ Len(s) = 2 /\ s[1] = a /\ s[2] = b
    OBVIOUS
  <2> HIDE DEF s
  <2>2. s = <<a, b>>
    BY <2>1, SeqEqual
  <2> QED BY <2>2 DEF s
<1>2. <<a, b>> \o <<c>> = <<a, b, c>>
  <2> DEFINE s == <<a, b>> \o <<c>>
  <2>1. s = [i \in 1..3 |-> IF i = 1 THEN a ELSE IF i = 2 THEN b ELSE c]
    OBVIOUS
  <2> HIDE DEF s
  <2>2. s = <<a, b, c>>
    BY <2>1
  <2> QED BY <2>2 DEF s
<1> QED BY <1>1, <1>2

LEMMA JoinedToThree ==
  ASSUME NEW a, NEW b, NEW c, NEW d
  PROVE  <<a, b, c>> \o <<d>> = <<a, b, c, d>>
<1> DEFINE s == <<a, b, c>> \o <<d>>
<1>1. s = [i \in 1..4 |-> IF i = 1 THEN a ELSE IF i = 2 THEN b ELSE IF i = 3 THEN c ELSE d]
  OBVIOUS
<1> HIDE DEF s
<1>2. s = <<a, b, c, d>>
  BY <1>1
<1> QED BY <1>2 DEF s

LEMMA TuplesOf ==
  ASSUME NEW S, NEW a \in S, NEW b \in S, NEW c \in S, NEW d \in S
  PROVE  /\ <<a>> \in Seq(S) /\ <<a, b>> \in Seq(S) /\ <<a, b, c>> \in Seq(S) /\ <<a, b, c, d>> \in Seq(S)
         /\ <<a>> # <<>> /\ <<a, b>> # <<>> /\ <<a, b, c>> # <<>> /\ <<a, b, c, d>> # <<>>
OBVIOUS

\* What a transition may have left is a sequence of requests.
LEMMA RestsFine ==
  /\ \A left \in ValidatedRest : left \in Seq(Requests) /\ left # <<>>
  /\ <<"status", "transitions", "execute">> \in Seq(Requests)
  /\ <<"status", "transitions", "execute">> # <<>>
<1>1. {"status", "check", "transitions", "execute"} \subseteq Requests
  BY DEF Requests
<1>2. /\ <<"status", "check", "transitions", "execute">> \in Seq(Requests)
      /\ <<"check", "transitions", "execute">> \in Seq(Requests)
      /\ <<"transitions", "execute">> \in Seq(Requests) /\ <<"execute">> \in Seq(Requests)
      /\ <<"status", "transitions", "execute">> \in Seq(Requests)
  BY <1>1, TuplesOf
<1>3. /\ <<"status", "check", "transitions", "execute">> # <<>> /\ <<"execute">> # <<>>
      /\ <<"check", "transitions", "execute">> # <<>> /\ <<"transitions", "execute">> # <<>>
      /\ <<"status", "transitions", "execute">> # <<>>
  BY TuplesOf
<1> QED BY <1>2, <1>3, Zenon DEF ValidatedRest

LEMMA PlanFine ==
  ASSUME NEW op \in Operations
  PROVE  Plan(op) \in Seq(Requests) /\ Plan(op) # <<>> /\ (op = "validated" => Plan(op) \in ValidatedRest)
<1>1. op \in {"search", "request", "assign", "unassign", "probe", "transition", "validated"}
  BY JiraClientAssumption
<1>2. CASE op = "probe"
  <2>1. Plan(op) = TestConnection
    BY <1>2 DEF Plan
  <2>2. TestConnection \in Seq(Requests) /\ Len(TestConnection) = MaxTries
    BY JiraClientAssumption DEF TestConnection, Requests
  <2> QED  BY <1>2, <2>1, <2>2, JiraClientAssumption
<1>3. CASE op = "search"  BY <1>3 DEF Plan, SearchIssues, Requests
<1>4. CASE op = "request"  BY <1>4 DEF Plan, do, Requests
<1>5. CASE op = "assign"
  BY <1>5 DEF Plan, SetAssigneeWithValidation, SearchUsers, SetAssignee, executePutRequest, Requests
<1>6. CASE op = "unassign"  BY <1>6 DEF Plan, handleSpecialAssignee, executePutRequest, Requests
<1>7. CASE op = "transition"
  <2>1. Plan(op) = <<"status", "transitions", "execute">>
    <3>1. TransitionToStatus = <<"status", "transitions", "execute">>
      BY Joined, Zenon DEF TransitionToStatus, GetIssue, FindTransition, GetTransitions, ExecuteTransition
    <3> QED BY <1>7, <3>1 DEF Plan
  <2> QED  BY <1>7, <2>1, RestsFine
<1>8. CASE op = "validated"
  <2>1. Plan(op) = <<"status", "check", "transitions", "execute">>
    <3>1. ExecuteTransitionWithValidation = <<"status", "check", "transitions", "execute">>
      <4>1. ValidateTransition = <<"status", "check">>
        BY Joined, Zenon DEF ValidateTransition, GetIssue
      <4>2. ValidateTransition \o FindTransition = <<"status", "check", "transitions">>
        BY <4>1, Joined, Zenon DEF FindTransition, GetTransitions
      <4>3. <<"status", "check", "transitions">> \o <<"execute">> = <<"status", "check", "transitions", "execute">>
        BY JoinedToThree, Zenon
      <4> QED BY <4>2, <4>3, Zenon DEF ExecuteTransitionWithValidation, ExecuteTransition
    <3> QED BY <1>8, <3>1 DEF Plan
  <2>2. Plan(op) \in ValidatedRest
    BY <2>1 DEF ValidatedRest
  <2> QED  BY <2>2, RestsFine
<1> QED  BY <1>1, <1>2, <1>3, <1>4, <1>5, <1>6, <1>7, <1>8

LEMMA CallTyped ==
  ASSUME CallsShaped, CallsTyped, NEW c \in JiraCallers, NEW k, CallFine(k), jcall' = [jcall EXCEPT ![c] = k]
  PROVE  CallsTyped'
<1>1. jcall'[c] = k /\ \A d \in JiraCallers \ {c} : jcall'[d] = jcall[d]
  BY DEF CallsShaped
<1> QED  BY <1>1 DEF CallsTyped, CallFine

LEMMA CallOnTyped ==
  ASSUME CallsShaped, CallsTyped, NEW c \in JiraCallers, NEW p \in {"dozing", "rested", "header", "refreshing", "sending"},
         jcall[c].pc # "idle", jcall' = [jcall EXCEPT ![c].pc = p]
  PROVE  CallsTyped'
<1>1. jcall'[c].pc = p /\ jcall'[c].op = jcall[c].op /\ jcall'[c].left = jcall[c].left
  BY DEF CallsShaped
<1>2. \A d \in JiraCallers \ {c} : jcall'[d] = jcall[d]
  BY DEF CallsShaped
<1>3. CallFine(jcall[c])
  BY DEF CallsTyped
<1> QED  BY <1>1, <1>2, <1>3 DEF CallsTyped, CallFine

LEMMA CallEndsTyped ==
  ASSUME CallsShaped, CallsTyped, NEW c \in JiraCallers, jcall' = Ended(c)
  PROVE  CallsTyped'
<1>1. CallFine(AtRest)
  BY DEF CallFine, AtRest
<1> QED  BY <1>1, CallTyped DEF Ended

LEMMA CallProceedsTyped ==
  ASSUME CallsShaped, CallsTyped, NEW c \in JiraCallers, NEW rest \in Seq(Requests), rest # <<>>,
         jcall[c].pc # "idle", jcall[c].op = "validated" => rest \in ValidatedRest,
         jcall' = [jcall EXCEPT ![c].pc = "limiter", ![c].left = rest]
  PROVE  CallsTyped'
<1>1. jcall'[c].pc = "limiter" /\ jcall'[c].op = jcall[c].op /\ jcall'[c].left = rest
  BY DEF CallsShaped
<1>2. \A d \in JiraCallers \ {c} : jcall'[d] = jcall[d]
  BY DEF CallsShaped
<1>3. CallFine(jcall[c])
  BY DEF CallsTyped
<1> QED  BY <1>1, <1>2, <1>3 DEF CallsTyped, CallFine

\* What is left after an answer, of a validated transition too.
LEMMA TailsFine ==
  ASSUME NEW left \in ValidatedRest
  PROVE  /\ Tail(left) = <<>> \/ Tail(left) \in ValidatedRest
         /\ Head(left) = "status" => Tail(Tail(left)) \in ValidatedRest
         /\ Head(left) # "info"
<1>1. CASE left = <<"status", "check", "transitions", "execute">>  BY <1>1 DEF ValidatedRest, Requests
<1>2. CASE left = <<"check", "transitions", "execute">>  BY <1>2 DEF ValidatedRest, Requests
<1>3. CASE left = <<"transitions", "execute">>  BY <1>3 DEF ValidatedRest, Requests
<1>4. CASE left = <<"execute">>  BY <1>4 DEF ValidatedRest, Requests
<1> QED  BY <1>1, <1>2, <1>3, <1>4 DEF ValidatedRest

LEMMA TailOfMore == ASSUME NEW S, NEW s \in Seq(S), Len(s) > 1 PROVE Tail(s) # <<>>
<1>1. s # <<>> /\ Len(s) \in Nat
  OBVIOUS
<1>2. Tail(s) \in Seq(S) /\ Len(Tail(s)) = Len(s) - 1
  BY <1>1, HeadTailProperties
<1>3. Len(Tail(s)) > 0
  BY <1>1, <1>2
<1> DEFINE t == Tail(s)
<1>4. t \in Seq(S) /\ Len(t) > 0
  BY <1>2, <1>3
<1> HIDE DEF t
<1>5. t # <<>>
  BY <1>4
<1> QED BY <1>5 DEF t

LEMMA AnswersTyped ==
  ASSUME CallsShaped, CallsTyped, NEW c \in JiraCallers, Answered(c) \/ FailsOrIsLost(c)
  PROVE  CallsTyped'
<1> DEFINE left == jcall[c].left
<1>1. CallFine(jcall[c]) /\ jcall[c].pc = "sending"
  BY DEF CallsTyped, Answered, FailsOrIsLost
<1>2. /\ left \in Seq(Requests) /\ left # <<>> /\ Tail(left) \in Seq(Requests)
      /\ jcall[c].op = "validated" => left \in ValidatedRest
  BY <1>1 DEF CallFine
<1>3. CASE jcall' = Ended(c)
  BY <1>3, CallEndsTyped
<1>4. CASE Tail(left) # <<>> /\ jcall' = [jcall EXCEPT ![c].pc = "limiter", ![c].left = Tail(left)]
  <2>1. jcall[c].op = "validated" => Tail(left) \in ValidatedRest
    BY <1>2, <1>4, TailsFine
  <2> HIDE DEF left
  <2> QED BY <1>1, <1>2, <1>4, <2>1, CallProceedsTyped
<1>5. CASE /\ jcall[c].op = "validated" /\ Head(left) = "status"
           /\ jcall' = [jcall EXCEPT ![c].pc = "limiter", ![c].left = Tail(Tail(left))]
  <2>1. Tail(Tail(left)) \in ValidatedRest
    BY <1>2, <1>5, TailsFine
  <2>2. Tail(Tail(left)) \in Seq(Requests) /\ Tail(Tail(left)) # <<>>
    BY <2>1, RestsFine
  <2> HIDE DEF left
  <2> QED BY <1>1, <1>5, <2>1, <2>2, CallProceedsTyped
<1>6. CASE Answered(c)
  <2>1. \/ jcall' = Ended(c)
        \/ Proceeds(c, Tail(left))
        \/ jcall[c].op = "validated" /\ Head(left) = "status" /\ Proceeds(c, Tail(Tail(left)))
    BY <1>6 DEF Answered
  <2> QED BY <2>1, <1>3, <1>4, <1>5 DEF Proceeds
<1>7. CASE FailsOrIsLost(c)
  <2>1. \/ jcall' = Ended(c)
        \/ Len(left) > 1 /\ jcall' = [jcall EXCEPT ![c].pc = "limiter", ![c].left = Tail(left)]
    BY <1>7 DEF FailsOrIsLost, CallsShaped
  <2>2. Len(left) > 1 => Tail(left) # <<>>
    BY <1>2, TailOfMore
  <2> HIDE DEF left
  <2> QED BY <2>1, <2>2, <1>3, <1>4
<1> QED BY <1>6, <1>7

LEMMA CallsTypedStep ==
  ASSUME CallsShaped, BusyRefreshes, CallsTyped, [JiraClientNext]_jiraClientVars
  PROVE  CallsTyped'
<1>1. CASE \E c \in JiraCallers, op \in Operations : Call(c, op)
  <2>1. PICK c \in JiraCallers, op \in Operations : Call(c, op)
    BY <1>1
  <2> DEFINE k == [pc |-> "limiter", op |-> op, left |-> Plan(op)]
  <2>2. CallFine(k)
    BY PlanFine DEF CallFine
  <2>3. jcall' = [jcall EXCEPT ![c] = k]
    BY <2>1 DEF Call
  <2> HIDE DEF k
  <2> QED BY <2>2, <2>3, CallTyped
<1>2. CASE \E c \in JiraCallers : Wait(c) \/ Wake(c) \/ Header(c)
  <2>1. PICK c \in JiraCallers : Wait(c) \/ Wake(c) \/ Header(c)
    BY <1>2
  <2>2. /\ jcall[c].pc # "idle"
        /\ \/ \E p \in {"dozing", "header", "refreshing", "sending"} : jcall' = [jcall EXCEPT ![c].pc = p]
           \/ jcall' = Ended(c)
    BY <2>1 DEF Wait, Wake, Header
  <2> QED BY <2>2, CallOnTyped, CallEndsTyped
<1>3. CASE \E c \in JiraCallers : Answered(c) \/ FailsOrIsLost(c)
  BY <1>3, AnswersTyped
<1>4. CASE \E a \in Actors : Granted(a) \/ Refused(a) \/ StoreAccess(a) \/ StoreRefresh(a) \/ StoreExpiry(a)
  <2>1. PICK a \in Actors :
          Granted(a) \/ Refused(a) \/ StoreAccess(a) \/ StoreRefresh(a) \/ StoreExpiry(a)
    BY <1>4
  <2>2. \/ jcall' = jcall
        \/ a \in JiraCallers /\ Busy(a) /\ (jcall' = Ended(a) \/ jcall' = [jcall EXCEPT ![a].pc = "sending"])
    BY <2>1 DEF Granted, Refused, GivesUp, StoreAccess, StoreRefresh, StoreExpiry, Actors, Busy
  <2>3. CASE jcall' = jcall
    BY <2>3 DEF CallsTyped, CallFine
  <2>4. CASE a \in JiraCallers /\ Busy(a) /\ (jcall' = Ended(a) \/ jcall' = [jcall EXCEPT ![a].pc = "sending"])
    <3>1. jcall[a].pc # "idle"
      BY <2>4 DEF BusyRefreshes
    <3> QED BY <2>4, <3>1, CallOnTyped, CallEndsTyped
  <2> QED BY <2>2, <2>3, <2>4
<1>5. CASE Tick
  <2>1. ASSUME NEW c \in JiraCallers PROVE CallFine(jcall'[c])
    <3>1. CallFine(jcall[c]) /\ jcall[c] = [pc |-> jcall[c].pc, op |-> jcall[c].op, left |-> jcall[c].left]
      BY DEF CallsTyped, CallsShaped
    <3>2. jcall'[c] = IF jcall[c].pc = "dozing" THEN [jcall[c] EXCEPT !.pc = "rested"] ELSE jcall[c]
      BY <1>5 DEF Tick
    <3>3. CASE jcall[c].pc = "dozing"
      <4>1. jcall'[c] = [pc |-> "rested", op |-> jcall[c].op, left |-> jcall[c].left]
        BY <3>1, <3>2, <3>3
      <4> QED BY <3>1, <3>3, <4>1 DEF CallFine
    <3> QED BY <3>1, <3>2, <3>3 DEF CallFine
  <2> QED BY <2>1 DEF CallsTyped, CallFine
<1>6. CASE HandleAuthorize \/ HandleCallback \/ Expires \/ Moved \/ UNCHANGED jiraClientVars
  <2>1. jcall' = jcall
    BY <1>6 DEF HandleAuthorize, HandleCallback, Expires, Moved, jiraClientVars
  <2> QED BY <2>1 DEF CallsTyped, CallFine
<1> QED BY <1>1, <1>2, <1>3, <1>4, <1>5, <1>6 DEF JiraClientNext

\* Every exchange's answer is one the server has given.
LEMMA TokensTypedStep ==
  ASSUME TokensTyped, [JiraClientNext]_jiraClientVars
  PROVE  TokensTyped'
<1>0. /\ MaxGrants \in Nat /\ JiraCallers \subseteq Actors /\ Browser \in Actors
      /\ NoAnswerYet \in [pc : {"none", "asking", "access", "refresh", "expiry"},
                          held : 0..MaxGrants, got : 0..MaxGrants]
  BY JiraClientAssumption DEF NoAnswerYet, Actors
<1>1. CASE \E c \in JiraCallers : \/ \E op \in Operations : Call(c, op)
                                \/ Wait(c) \/ Wake(c)
  BY <1>1 DEF Call, Wait, Wake, TokensTyped
<1>2. CASE \E c \in JiraCallers : Header(c)
  BY <1>0, <1>2 DEF Header, TokensTyped
<1>3. CASE \E c \in JiraCallers : Answered(c) \/ FailsOrIsLost(c)
  <2>1. UNCHANGED <<tokens, granted, writes, cookie, astray>> /\ remote' \in {remote, "done"}
    BY <1>3 DEF Answered, FailsOrIsLost
  <2> QED BY <2>1 DEF TokensTyped, JiraStatuses
<1>4. CASE \E a \in Actors : Granted(a) \/ Refused(a) \/ StoreAccess(a) \/ StoreRefresh(a) \/ StoreExpiry(a)
  <2>1. PICK a \in Actors :
          Granted(a) \/ Refused(a) \/ StoreAccess(a) \/ StoreRefresh(a) \/ StoreExpiry(a)
    BY <1>4
  <2>2. CASE Granted(a)
    <3>1. granted' = granted + 1 /\ granted' \in 0..MaxGrants /\ UNCHANGED <<tokens, cookie, remote>>
      BY <1>0, <2>2 DEF Granted, TokensTyped
    <3>2. astray' \in BOOLEAN
      BY <2>2 DEF Granted, TokensTyped, OthersBusy
    <3>3. \/ writes' = [writes EXCEPT ![a].pc = "access", ![a].got = granted + 1]
          \/ writes' = [writes EXCEPT ![a] = NoAnswerYet]
      BY <2>2 DEF Granted, GivesUp
    <3> QED BY <1>0, <3>1, <3>2, <3>3 DEF TokensTyped
  <2>3. CASE Refused(a)
    BY <1>0, <2>3 DEF Refused, GivesUp, TokensTyped
  <2>4. CASE StoreAccess(a)
    BY <1>0, <2>4 DEF StoreAccess, TokensTyped
  <2>5. CASE StoreRefresh(a)
    BY <1>0, <2>5 DEF StoreRefresh, TokensTyped
  <2>6. CASE StoreExpiry(a)
    BY <1>0, <2>6 DEF StoreExpiry, TokensTyped, OthersBusy
  <2> QED BY <2>1, <2>2, <2>3, <2>4, <2>5, <2>6
<1>5. CASE HandleAuthorize
  BY <1>0, <1>5 DEF HandleAuthorize, TokensTyped
<1>6. CASE HandleCallback
  BY <1>0, <1>6, SMTT(60) DEF HandleCallback, TokensTyped
<1>7. CASE Tick \/ UNCHANGED jiraClientVars
  BY <1>7 DEF Tick, jiraClientVars, TokensTyped
<1>8. CASE Expires
  BY <1>8 DEF Expires, TokensTyped
<1>9. CASE Moved
  <2>1. remote' \in JiraStatuses
    BY <1>9 DEF Moved, JiraStatuses, TokensTyped
  <2> QED BY <1>9, <2>1 DEF Moved, TokensTyped
<1> QED BY <1>1, <1>2, <1>3, <1>4, <1>5, <1>6, <1>7, <1>8, <1>9 DEF JiraClientNext

\* Everything the client's proofs keep.
JiraClientInv ==
  CallsShaped /\ RateInv /\ LockoutInv /\ BusyRefreshes /\ CallsTyped /\ TokensTyped

LEMMA JiraClientInvInit == JiraClientInit => JiraClientInv
<1> SUFFICES ASSUME JiraClientInit PROVE JiraClientInv
  OBVIOUS
<1>1. CallsShaped
  BY DEF JiraClientInit, CallsShaped, AtRest
<1>2. BusyRefreshes
  BY DEF JiraClientInit, BusyRefreshes, Busy, NoAnswerYet, Actors
<1>3. CallsTyped
  <2>1. CallFine(AtRest)
    BY DEF CallFine, AtRest
  <2>2. \A c \in JiraCallers : jcall[c] = AtRest
    BY DEF JiraClientInit
  <2> QED BY <2>1, <2>2, Zenon DEF CallsTyped
<1>4. TokensTyped
  <2>1. NoAnswerYet \in [pc : {"none", "asking", "access", "refresh", "expiry"},
                        held : 0..MaxGrants, got : 0..MaxGrants]
    BY JiraClientAssumption DEF NoAnswerYet
  <2>2. writes \in [Actors -> [pc : {"none", "asking", "access", "refresh", "expiry"},
                              held : 0..MaxGrants, got : 0..MaxGrants]]
    BY <2>1 DEF JiraClientInit
  <2>3. /\ tokens \in [access : 0..MaxGrants, refresh : 0..MaxGrants, expired : BOOLEAN]
        /\ granted \in 0..MaxGrants /\ cookie \in [state : 0..MaxGrants, begun : 0..MaxGrants]
    BY JiraClientAssumption DEF JiraClientInit
  <2> QED BY <2>2, <2>3 DEF JiraClientInit, TokensTyped
<1> QED BY <1>1, <1>2, <1>3, <1>4, RateInit, LockoutInit DEF JiraClientInv

LEMMA JiraClientInvStep ==
  JiraClientInv /\ [JiraClientNext]_jiraClientVars => JiraClientInv'
<1> SUFFICES ASSUME JiraClientInv, [JiraClientNext]_jiraClientVars PROVE JiraClientInv'
  OBVIOUS
<1> USE DEF JiraClientInv
<1>1. CallsShaped' /\ RateInv'
  <2>1. CASE JiraClientNext
    BY <2>1, OtherStep, WaitStep, WakeStep, TickStep
  <2>2. CASE UNCHANGED jiraClientVars
    BY <2>2, RateFrame DEF jiraClientVars, CallsShaped, Rested
  <2> QED BY <2>1, <2>2
<1> QED BY <1>1, LockoutStep, BusyStep, CallsTypedStep, TokensTypedStep

LEMMA JiraClientInvTells == JiraClientInv => JiraClientSafe /\ JiraClientTypeOK
<1> SUFFICES ASSUME JiraClientInv PROVE JiraClientSafe /\ JiraClientTypeOK
  OBVIOUS
<1>1. RateBounded
  <2>1. JMin(Capacity, bucket.tokens + bucket.owed) \in Nat /\ bucket.thisTick \in Nat
    BY JiraClientAssumption DEF JiraClientInv, RateInv, JMin
  <2> QED BY <2>1, RestedFinite, JiraClientAssumption DEF JiraClientInv, RateInv, RateBounded
<1>2. LockoutExplained
  BY DEF JiraClientInv, LockoutInv, LockoutExplained, Storing, Busy
<1>3. JiraClientTypeOK
  BY DEF JiraClientInv, RateInv, CallsTyped, CallFine, TokensTyped, Requests, JiraClientTypeOK
<1> QED BY <1>1, <1>2, <1>3 DEF JiraClientSafe

\* However many goroutines share the client: within the time of one token no
\* more requests go out than a full bucket and one for each sleeper, and the
\* client can refresh its tokens unless an answer was lost or two exchanges
\* ran at once (RateLimiter.Wait, GetValidAccessToken, HandleCallback).
THEOREM ClientKeepsWithin == JiraClientSpec => []JiraClientSafe
BY JiraClientInvInit, JiraClientInvStep, JiraClientInvTells, PTL DEF JiraClientSpec

-----------------------------------------------------------------------------
(* The mirror of an issue                                                  *)

Versions == FixVersions \cup {"none"}

JiraEventType ==
  [kind : {"issue", "comment", "worklog", "deleted"}, status : Statuses, version : Versions, moved : BOOLEAN,
   attempt : Nat]
GitLabEventType == [kind : {"gitlab"}, state : {"opened", "closed"}, titled : BOOLEAN]

OnJiraEvent == {"searching", "milestones", "creating", "updating", "noting"}
OnGitLabEvent == {"reading", "choosing", "rereading", "finding", "executing"}

\* What a goroutine holds at each step of the two handlers.
HoldsRight(k) ==
  /\ k.pc \in {"idle"} \cup OnJiraEvent \cup OnGitLabEvent
  /\ k.pc \in OnJiraEvent => k.event \in JiraEventType
  /\ k.pc \in OnGitLabEvent => k.event \in GitLabEventType
  /\ k.pc \in {"milestones", "creating"} => k.event.version \in FixVersions
  /\ k.pc \in {"milestones", "creating", "updating"} => k.event.kind = "issue"
  /\ k.pc = "noting" => k.event.kind # "issue"
  /\ k.pc = "updating" => k.chosen \in milestones \cup {"none", "cleared"}

Counters == people \in 0..MaxEdits /\ remarks \in 0..people /\ echoes \in 0..MaxEchoes

Hands ==
  /\ DOMAIN mirror = Mirrors /\ mirror = [m \in Mirrors |-> mirror[m]]
  /\ \A m \in Mirrors : DOMAIN mirror[m] = {"pc", "event", "chosen"} /\ HoldsRight(mirror[m])

MirrorShapes ==
  /\ jiraIssue \in [status : Statuses, version : Versions]
  /\ gitlabIssue \in [state : {"opened", "closed"}, milestone : Versions, titled : BOOLEAN, notes : Nat]
  /\ milestones \subseteq FixVersions
  /\ Counters /\ Hands
  /\ reason \in BOOLEAN /\ clean \in BOOLEAN
  /\ jiraEvents \subseteq JiraEventType /\ gitlabEvents \subseteq GitLabEventType

\* A closed status is nowhere without a reason, on its way or not.
ClosedExplained ==
  /\ jiraIssue.status \in ClosedStatuses => reason
  /\ \A e \in jiraEvents : e.status \in ClosedStatuses => reason
  /\ \A m \in Mirrors : mirror[m].pc \in OnJiraEvent /\ mirror[m].event.status \in ClosedStatuses => reason

\* What people said in Jira and GitLab has not heard of: told, or in a hand.
Unheard == {e \in jiraEvents : e.kind # "issue"}
InHand == {m \in Mirrors : mirror[m].pc \in OnJiraEvent /\ mirror[m].event.kind # "issue"}

\* While nothing goes wrong at most one remark is on its way, and GitLab has
\* all the others.
OneUnheard ==
  /\ gitlabIssue.titled
  /\ \/ Unheard = {} /\ InHand = {} /\ remarks = gitlabIssue.notes
     \/ (\E e \in jiraEvents : Unheard = {e}) /\ InHand = {} /\ remarks = gitlabIssue.notes + 1
     \/ Unheard = {} /\ (\E m \in Mirrors : InHand = {m}) /\ remarks = gitlabIssue.notes + 1

MirrorInv ==
  MirrorShapes /\ ClosedForAReason /\ ClosedExplained /\ (clean => OneUnheard)

LEMMA MirrorInvInit == MirrorInit => MirrorInv
<1> SUFFICES ASSUME MirrorInit PROVE MirrorInv  OBVIOUS
<1>1. MirrorShapes
  <2>1. \A m \in Mirrors : mirror[m].pc = "idle" /\ DOMAIN mirror[m] = {"pc", "event", "chosen"}
    BY DEF MirrorInit, AtEase
  <2>2. \A m \in Mirrors : HoldsRight(mirror[m])
    BY <2>1 DEF HoldsRight, OnJiraEvent, OnGitLabEvent
  <2>3. jiraIssue \in [status : Statuses, version : Versions]
    BY DEF MirrorInit, Versions
  <2>4. gitlabIssue \in [state : {"opened", "closed"}, milestone : Versions, titled : BOOLEAN, notes : Nat]
    BY DEF MirrorInit, Versions
  <2>5. Counters
    BY MirrorAssumption DEF MirrorInit, Counters
  <2>6. Hands
    BY <2>1, <2>2 DEF MirrorInit, Hands
  <2> QED  BY <2>1, <2>2, <2>3, <2>4, <2>5, <2>6 DEF MirrorInit, MirrorShapes
<1>2. ClosedForAReason /\ ClosedExplained
  BY DEF MirrorInit, ClosedForAReason, ClosedExplained, AtEase, OnJiraEvent
<1>3. OneUnheard
  BY DEF MirrorInit, OneUnheard, Unheard, InHand, AtEase, OnJiraEvent
<1> QED  BY <1>1, <1>2, <1>3 DEF MirrorInv

-----------------------------------------------------------------------------
\* One goroutine's place changes, and stays well formed.
OneHand(m) ==
  /\ DOMAIN mirror' = Mirrors /\ mirror' = [n \in Mirrors |-> mirror'[n]]
  /\ DOMAIN mirror'[m] = {"pc", "event", "chosen"}
  /\ \A n \in Mirrors \ {m} : mirror'[n] = mirror[n]

LEMMA OnEffect ==
  ASSUME MirrorShapes, NEW m \in Mirrors, NEW pc, NEW chosen, On(m, pc, chosen)
  PROVE  OneHand(m) /\ mirror'[m].pc = pc /\ mirror'[m].chosen = chosen /\ mirror'[m].event = mirror[m].event
  BY DEF MirrorShapes, Hands, On, OneHand

LEMMA OverEffect ==
  ASSUME MirrorShapes, NEW m \in Mirrors, Over(m)
  PROVE  OneHand(m) /\ mirror'[m].pc = "idle"
  BY DEF MirrorShapes, Hands, Over, OneHand, AtEase

LEMMA PutEffectMirror ==
  ASSUME MirrorShapes, NEW m \in Mirrors, NEW pc, NEW ev,
         mirror' = [mirror EXCEPT ![m] = [AtEase EXCEPT !.pc = pc, !.event = ev]]
  PROVE  OneHand(m) /\ mirror'[m].pc = pc /\ mirror'[m].event = ev
  BY DEF MirrorShapes, Hands, OneHand, AtEase

LEMMA HandKeeps ==
  ASSUME MirrorShapes, NEW m \in Mirrors, OneHand(m), milestones \subseteq milestones', HoldsRight(mirror[m])'
  PROVE  Hands'
<1> SUFFICES ASSUME NEW n \in Mirrors
             PROVE  DOMAIN mirror'[n] = {"pc", "event", "chosen"} /\ HoldsRight(mirror[n])'
  BY DEF OneHand, Hands
<1>1. CASE n = m  BY <1>1 DEF OneHand
<1>2. CASE n # m
  <2>1. mirror'[n] = mirror[n] /\ DOMAIN mirror[n] = {"pc", "event", "chosen"} /\ HoldsRight(mirror[n])
    BY <1>2 DEF OneHand, MirrorShapes, Hands
  <2> QED  BY <2>1 DEF HoldsRight
<1> QED  BY <1>1, <1>2

\* A goroutine's event has come from the queue, and goes back there.
FromQueue(m) ==
  mirror'[m].pc \in OnJiraEvent =>
    \/ mirror[m].pc \in OnJiraEvent /\ mirror'[m].event = mirror[m].event
    \/ mirror'[m].event \in jiraEvents

NothingNew(m) ==
  \A e \in jiraEvents' :
    e \in jiraEvents \/ (mirror[m].pc \in OnJiraEvent /\ e.status = mirror[m].event.status)

LEMMA ReasonKeeps ==
  ASSUME ClosedExplained, NEW m \in Mirrors, OneHand(m), jiraIssue' = jiraIssue, reason' = reason,
         FromQueue(m), NothingNew(m)
  PROVE  ClosedExplained'
<1>1. (jiraIssue.status \in ClosedStatuses => reason)'
  BY DEF ClosedExplained
<1>2. (\A e \in jiraEvents : e.status \in ClosedStatuses => reason)'
  BY DEF ClosedExplained, NothingNew
<1>3. ASSUME NEW n \in Mirrors, mirror'[n].pc \in OnJiraEvent, mirror'[n].event.status \in ClosedStatuses
      PROVE  reason'
  BY <1>3 DEF ClosedExplained, OneHand, FromQueue
<1> QED  BY <1>1, <1>2, <1>3 DEF ClosedExplained

\* Nobody has said anything, and nothing said was carried further.
LEMMA HeardKeeps ==
  ASSUME NEW m \in Mirrors, OneHand(m), clean => OneUnheard, clean' => clean,
         UNCHANGED remarks, gitlabIssue'.notes = gitlabIssue.notes,
         gitlabIssue.titled => gitlabIssue'.titled,
         Unheard' = Unheard, m \in InHand' <=> m \in InHand
  PROVE  (clean => OneUnheard)'
<1>1. InHand' = InHand
  <2>1. ASSUME NEW n \in Mirrors PROVE n \in InHand' <=> n \in InHand
    BY DEF OneHand, InHand
  <2> QED  BY <2>1 DEF InHand
<1> QED  BY <1>1 DEF OneUnheard, Unheard

LEMMA GoesBackEffect ==
  ASSUME MirrorShapes, NEW m \in Mirrors, mirror[m].pc \in OnJiraEvent, GoesBack(m)
  PROVE  /\ OneHand(m) /\ mirror'[m].pc = "idle" /\ clean' = FALSE
         /\ jiraEvents' \subseteq JiraEventType
         /\ \A e \in jiraEvents' : e \in jiraEvents \/ e.status = mirror[m].event.status
<1>1. OneHand(m) /\ mirror'[m].pc = "idle" /\ clean' = FALSE
  BY OverEffect DEF GoesBack
<1>2. mirror[m].event \in JiraEventType /\ jiraEvents \subseteq JiraEventType
  BY DEF MirrorShapes, Hands, HoldsRight
<1> DEFINE again == [mirror[m].event EXCEPT !.attempt = @ + 1]
<1>3. again \in JiraEventType /\ again.status = mirror[m].event.status
  BY <1>2 DEF JiraEventType
<1>4. \A e \in jiraEvents' : e \in jiraEvents \/ e = again
  BY DEF GoesBack
<1> QED  BY <1>1, <1>2, <1>3, <1>4

\* What a step that moves one goroutine must leave right.
LEMMA MirrorInvFrom ==
  ASSUME MirrorInv, NEW m \in Mirrors, OneHand(m), HoldsRight(mirror[m])',
         milestones \subseteq milestones', ClosedForAReason', ClosedExplained', (clean => OneUnheard)',
         jiraIssue' \in [status : Statuses, version : Versions],
         gitlabIssue' \in [state : {"opened", "closed"}, milestone : Versions, titled : BOOLEAN, notes : Nat],
         milestones' \subseteq FixVersions, UNCHANGED <<people, remarks>>, echoes' \in 0..MaxEchoes,
         reason' \in BOOLEAN, clean' \in BOOLEAN,
         jiraEvents' \subseteq JiraEventType, gitlabEvents' \subseteq GitLabEventType
  PROVE  MirrorInv'
<1>1. MirrorShapes  BY DEF MirrorInv
<1>2. Hands'
  BY <1>1, HandKeeps
<1>4. Counters'
  BY <1>1 DEF MirrorShapes, Counters
<1>3. MirrorShapes'
  BY <1>2, <1>4 DEF MirrorShapes
<1> QED  BY <1>3 DEF MirrorInv

-----------------------------------------------------------------------------
(* People                                                                  *)

\* An event is new, with the issue as it has become.
LEMMA DeliverKeeps ==
  ASSUME MirrorShapes, NEW e \in JiraEventType, DeliverEvent(e)
  PROVE  jiraEvents' \subseteq JiraEventType
  BY DEF MirrorShapes, DeliverEvent

LEMMA QuietMeansHeard ==
  ASSUME MirrorShapes, OneUnheard, AllQuiet
  PROVE  Unheard = {} /\ InHand = {} /\ jiraEvents = {} /\ remarks = gitlabIssue.notes
  BY DEF OneUnheard, AllQuiet, Unheard, InHand, OnJiraEvent

LEMMA EditJiraKeeps == ASSUME MirrorInv, EditJira PROVE MirrorInv'
<1> USE DEF MirrorInv
<1>0. /\ UNCHANGED <<gitlabIssue, gitlabEvents, mirror, milestones, echoes>>
      /\ people < MaxEdits /\ people' = people + 1
  BY DEF EditJira
<1>1. Hands'
  BY <1>0 DEF MirrorShapes, Hands, HoldsRight
<1>6. clean' \in BOOLEAN /\ (clean' => clean /\ AllQuiet)
  BY Zenon DEF EditJira
<1>7. ASSUME remarks' \in {remarks, remarks + 1} PROVE Counters'
  BY <1>0, <1>7, MirrorAssumption DEF MirrorShapes, Counters
<1>2. clean' => OneUnheard /\ Unheard = {} /\ InHand = {} /\ jiraEvents = {} /\ remarks = gitlabIssue.notes
  BY <1>6, QuietMeansHeard
<1>3. CASE \E t \in Offered(jiraIssue.status) :
             /\ jiraIssue' = [jiraIssue EXCEPT !.status = t.to]
             /\ DeliverEvent(Snapshot("issue", jiraIssue', TRUE))
             /\ reason' = (reason \/ t.to \in ClosedStatuses)
             /\ UNCHANGED remarks
  <2>1. PICK t \in Offered(jiraIssue.status) :
             /\ jiraIssue' = [jiraIssue EXCEPT !.status = t.to]
             /\ DeliverEvent(Snapshot("issue", jiraIssue', TRUE))
             /\ reason' = (reason \/ t.to \in ClosedStatuses)
             /\ UNCHANGED remarks
    BY <1>3
  <2> DEFINE e == Snapshot("issue", jiraIssue', TRUE)
  <2>2. t.to \in Statuses /\ jiraIssue' \in [status : Statuses, version : Versions] /\ jiraIssue'.status = t.to
    BY <2>1 DEF Offered, Statuses, MirrorShapes
  <2>3. e \in JiraEventType /\ e.kind = "issue" /\ e.status = t.to
    BY <2>2 DEF Snapshot, JiraEventType
  <2>4. jiraEvents' = jiraEvents \cup {e} /\ jiraEvents' \subseteq JiraEventType
    BY <2>1, <2>3, DeliverKeeps DEF DeliverEvent
  <2>5. MirrorShapes'
    BY <1>0, <1>1, <1>6, <1>7, <2>1, <2>2, <2>4 DEF MirrorShapes
  <2>6. ClosedForAReason' /\ ClosedExplained'
    BY <1>0, <2>1, <2>2, <2>3, <2>4 DEF ClosedForAReason, ClosedExplained
  <2>7. (clean => OneUnheard)'
    <3> SUFFICES ASSUME clean' PROVE OneUnheard'  OBVIOUS
    <3>1. Unheard' = {} /\ InHand' = {}
      BY <1>0, <1>2, <2>3, <2>4 DEF Unheard, InHand
    <3> QED  BY <1>0, <1>2, <2>1, <3>1 DEF OneUnheard
  <2> QED  BY <2>5, <2>6, <2>7
<1>4. CASE \E v \in FixVersions \cup {"none"} :
             /\ jiraIssue' = [jiraIssue EXCEPT !.version = v]
             /\ DeliverEvent(Snapshot("issue", jiraIssue', FALSE))
             /\ UNCHANGED <<reason, remarks>>
  <2>1. PICK v \in FixVersions \cup {"none"} :
             /\ jiraIssue' = [jiraIssue EXCEPT !.version = v]
             /\ DeliverEvent(Snapshot("issue", jiraIssue', FALSE))
             /\ UNCHANGED <<reason, remarks>>
    BY <1>4
  <2> DEFINE e == Snapshot("issue", jiraIssue', FALSE)
  <2>2. jiraIssue' \in [status : Statuses, version : Versions] /\ jiraIssue'.status = jiraIssue.status
    BY <2>1 DEF Versions, MirrorShapes
  <2>3. e \in JiraEventType /\ e.kind = "issue" /\ e.status = jiraIssue.status
    BY <2>2 DEF Snapshot, JiraEventType
  <2>4. jiraEvents' = jiraEvents \cup {e} /\ jiraEvents' \subseteq JiraEventType
    BY <2>1, <2>3, DeliverKeeps DEF DeliverEvent
  <2>5. MirrorShapes'
    BY <1>0, <1>1, <1>6, <1>7, <2>1, <2>2, <2>4 DEF MirrorShapes
  <2>6. ClosedForAReason' /\ ClosedExplained'
    BY <1>0, <2>1, <2>2, <2>3, <2>4 DEF ClosedForAReason, ClosedExplained
  <2>7. (clean => OneUnheard)'
    <3> SUFFICES ASSUME clean' PROVE OneUnheard'  OBVIOUS
    <3>1. Unheard' = {} /\ InHand' = {}
      BY <1>0, <1>2, <2>3, <2>4 DEF Unheard, InHand
    <3> QED  BY <1>0, <1>2, <2>1, <3>1 DEF OneUnheard
  <2> QED  BY <2>5, <2>6, <2>7
<1>5. CASE \E kind \in {"comment", "worklog", "deleted"} :
             /\ DeliverEvent(Snapshot(kind, jiraIssue, FALSE))
             /\ remarks' = remarks + 1
             /\ UNCHANGED <<jiraIssue, reason>>
  <2>1. PICK kind \in {"comment", "worklog", "deleted"} :
             /\ DeliverEvent(Snapshot(kind, jiraIssue, FALSE))
             /\ remarks' = remarks + 1
             /\ UNCHANGED <<jiraIssue, reason>>
    BY <1>5
  <2> DEFINE e == Snapshot(kind, jiraIssue, FALSE)
  <2>3. e \in JiraEventType /\ e.kind # "issue" /\ e.status = jiraIssue.status
    BY DEF Snapshot, JiraEventType, MirrorShapes
  <2>4. jiraEvents' = jiraEvents \cup {e} /\ jiraEvents' \subseteq JiraEventType
    BY <2>1, <2>3, DeliverKeeps DEF DeliverEvent
  <2>5. MirrorShapes'
    BY <1>0, <1>1, <1>6, <1>7, <2>1, <2>4 DEF MirrorShapes
  <2>6. ClosedForAReason' /\ ClosedExplained'
    BY <1>0, <2>1, <2>3, <2>4 DEF ClosedForAReason, ClosedExplained
  <2>7. (clean => OneUnheard)'
    <3> SUFFICES ASSUME clean' PROVE OneUnheard'  OBVIOUS
    <3>1. Unheard' = {e} /\ InHand' = {} /\ e \in jiraEvents'
      BY <1>0, <1>2, <2>3, <2>4 DEF Unheard, InHand
    <3> QED  BY <1>0, <1>2, <2>1, <3>1 DEF OneUnheard
  <2> QED  BY <2>5, <2>6, <2>7
<1> QED  BY <1>3, <1>4, <1>5 DEF EditJira

LEMMA TellKeeps ==
  ASSUME MirrorShapes, NEW state \in {"opened", "closed"}, NEW titled \in BOOLEAN, Tell(state, titled)
  PROVE  gitlabEvents' \subseteq GitLabEventType
  BY DEF MirrorShapes, Tell, GitLabEventType

LEMMA EditGitLabKeeps == ASSUME MirrorInv, EditGitLab PROVE MirrorInv'
<1> USE DEF MirrorInv
<1>0. /\ UNCHANGED <<jiraIssue, jiraEvents, mirror, milestones, echoes, remarks>>
      /\ people < MaxEdits /\ people' = people + 1 /\ clean' = FALSE
  BY DEF EditGitLab
<1>1. Hands'
  BY <1>0 DEF MirrorShapes, Hands, HoldsRight
<1>5. Counters'
  BY <1>0, MirrorAssumption DEF MirrorShapes, Counters
<1>2. gitlabIssue \in [state : {"opened", "closed"}, milestone : Versions, titled : BOOLEAN, notes : Nat]
  BY DEF MirrorShapes
<1>3. CASE /\ gitlabIssue' = [gitlabIssue EXCEPT !.state = IF @ = "opened" THEN "closed" ELSE "opened"]
           /\ reason' = TRUE
           /\ Tell(gitlabIssue'.state, gitlabIssue.titled)
  <2>1. /\ gitlabIssue' \in [state : {"opened", "closed"}, milestone : Versions, titled : BOOLEAN, notes : Nat]
        /\ gitlabIssue'.milestone = gitlabIssue.milestone
    BY <1>2, <1>3
  <2>2. gitlabEvents' \subseteq GitLabEventType
    BY <1>2, <1>3, <2>1, TellKeeps
  <2>3. MirrorShapes'
    BY <1>0, <1>1, <1>5, <1>3, <2>1, <2>2 DEF MirrorShapes
  <2>4. ClosedForAReason' /\ ClosedExplained'
    BY <1>0, <1>3, <2>1 DEF ClosedForAReason, ClosedExplained
  <2> QED  BY <1>0, <2>3, <2>4
<1>4. CASE /\ gitlabIssue.titled
           /\ gitlabIssue' = [gitlabIssue EXCEPT !.titled = FALSE]
           /\ Tell(gitlabIssue.state, FALSE)
           /\ UNCHANGED reason
  <2>1. /\ gitlabIssue' \in [state : {"opened", "closed"}, milestone : Versions, titled : BOOLEAN, notes : Nat]
        /\ gitlabIssue'.milestone = gitlabIssue.milestone /\ gitlabIssue'.state = gitlabIssue.state
    BY <1>2, <1>4
  <2>2. gitlabEvents' \subseteq GitLabEventType
    BY <1>2, <1>4, <2>1, TellKeeps
  <2>3. MirrorShapes'
    BY <1>0, <1>1, <1>5, <1>4, <2>1, <2>2 DEF MirrorShapes
  <2>4. ClosedForAReason' /\ ClosedExplained'
    BY <1>0, <1>4, <2>1 DEF ClosedForAReason, ClosedExplained
  <2> QED  BY <1>0, <2>3, <2>4
<1> QED  BY <1>3, <1>4 DEF EditGitLab

-----------------------------------------------------------------------------
(* The two handlers                                                        *)

LEMMA ShapesOf ==
  ASSUME MirrorInv
  PROVE  /\ jiraIssue \in [status : Statuses, version : Versions]
         /\ gitlabIssue \in [state : {"opened", "closed"}, milestone : Versions, titled : BOOLEAN, notes : Nat]
         /\ milestones \subseteq FixVersions /\ echoes \in 0..MaxEchoes
         /\ reason \in BOOLEAN /\ clean \in BOOLEAN
         /\ jiraEvents \subseteq JiraEventType /\ gitlabEvents \subseteq GitLabEventType
         /\ \A m \in Mirrors : HoldsRight(mirror[m])
         /\ ClosedForAReason /\ ClosedExplained /\ (clean => OneUnheard) /\ MirrorShapes
  BY DEF MirrorInv, MirrorShapes, Counters, Hands

\* A step that only moves a goroutine, along its handler or out of the one of
\* GitLab's events.
LEMMA QuietMove ==
  ASSUME MirrorInv, NEW m \in Mirrors, OneHand(m), HoldsRight(mirror[m])',
         UNCHANGED <<jiraIssue, gitlabIssue, jiraEvents, milestones, people, echoes, reason, remarks, clean>>,
         gitlabEvents' \subseteq gitlabEvents,
         mirror'[m].pc \in OnJiraEvent => mirror[m].pc \in OnJiraEvent,
         mirror[m].pc \in OnJiraEvent /\ mirror[m].event.kind # "issue" => mirror'[m].pc \in OnJiraEvent,
         mirror'[m].pc # "idle" /\ mirror[m].pc # "idle" => mirror'[m].event = mirror[m].event
  PROVE  MirrorInv'
<1> USE ShapesOf
<1>0. \A pc \in OnJiraEvent : pc # "idle"  BY DEF OnJiraEvent
<1>1. ClosedForAReason'  BY DEF ClosedForAReason
<1>2. ClosedExplained'
  <2>1. FromQueue(m) /\ NothingNew(m)
    BY <1>0 DEF FromQueue, NothingNew
  <2> QED  BY <2>1, ReasonKeeps
<1>3. Unheard' = Unheard  BY DEF Unheard
<1>4. m \in InHand' <=> m \in InHand  BY <1>0 DEF InHand
<1>5. (clean => OneUnheard)'  BY <1>3, <1>4, HeardKeeps
<1> QED  BY <1>1, <1>2, <1>5, MirrorInvFrom

LEMMA TakeKeeps == ASSUME MirrorInv, NEW m \in Mirrors, Take(m) PROVE MirrorInv'
<1> USE ShapesOf
<1>1. PICK ev \in jiraEvents :
        /\ jiraEvents' = jiraEvents \ {ev}
        /\ mirror' = [mirror EXCEPT ![m] = [AtEase EXCEPT !.pc = "searching", !.event = ev]]
  BY DEF Take
<1>2. /\ mirror[m].pc = "idle"
      /\ UNCHANGED <<jiraIssue, gitlabIssue, gitlabEvents, milestones, people, echoes, reason, remarks, clean>>
  BY DEF Take
<1>3. OneHand(m) /\ mirror'[m].pc = "searching" /\ mirror'[m].event = ev
  BY <1>1, PutEffectMirror
<1>4. HoldsRight(mirror[m])'
  BY <1>3 DEF HoldsRight, OnJiraEvent, OnGitLabEvent
<1>5. ClosedForAReason'
  BY <1>2 DEF ClosedForAReason
<1>6. ClosedExplained'
  <2>1. FromQueue(m) /\ NothingNew(m)
    BY <1>1, <1>3 DEF FromQueue, NothingNew
  <2> QED  BY <1>2, <1>3, <2>1, ReasonKeeps
<1>7. (clean => OneUnheard)'
  <2> SUFFICES ASSUME clean, OneUnheard PROVE OneUnheard'
    BY <1>2
  <2>1. m \notin InHand
    BY <1>2 DEF InHand, OnJiraEvent
  <2>2. \A n \in Mirrors : n \in InHand' <=> n \in InHand \/ (n = m /\ ev.kind # "issue")
    BY <1>3, <2>1 DEF OneHand, InHand, OnJiraEvent
  <2>3. Unheard' = Unheard \ {ev}
    BY <1>1 DEF Unheard
  <2>4. CASE ev.kind = "issue"
    <3>1. Unheard' = Unheard /\ InHand' = InHand
      BY <2>2, <2>3, <2>4 DEF Unheard, InHand
    <3> QED  BY <1>2, <3>1 DEF OneUnheard, Unheard
  <2>5. CASE ev.kind # "issue"
    <3>1. ev \in Unheard
      BY <2>5 DEF Unheard
    <3>2. Unheard = {ev} /\ InHand = {} /\ remarks = gitlabIssue.notes + 1
      BY <3>1 DEF OneUnheard
    <3>3. Unheard' = {} /\ InHand' = {m}
      BY <2>2, <2>3, <2>5, <3>2 DEF InHand
    <3> QED  BY <1>2, <3>2, <3>3 DEF OneUnheard
  <2> QED  BY <2>4, <2>5
<1> QED  BY <1>1, <1>2, <1>3, <1>4, <1>5, <1>6, <1>7, MirrorInvFrom

\* A step that fails, with GitLab's issue as the failed call has left it.
LEMMA FailKeeps ==
  ASSUME MirrorInv, NEW m \in Mirrors, mirror[m].pc \in OnJiraEvent, GoesBack(m),
         UNCHANGED <<jiraIssue, milestones, people, reason, remarks>>, echoes' \in 0..MaxEchoes,
         gitlabIssue' \in [state : {"opened", "closed"}, milestone : Versions, titled : BOOLEAN, notes : Nat],
         gitlabEvents' \subseteq GitLabEventType, ClosedForAReason'
  PROVE  MirrorInv'
<1> USE ShapesOf
<1>1. /\ OneHand(m) /\ mirror'[m].pc = "idle" /\ clean' = FALSE
      /\ jiraEvents' \subseteq JiraEventType
      /\ \A e \in jiraEvents' : e \in jiraEvents \/ e.status = mirror[m].event.status
  BY GoesBackEffect
<1>2. HoldsRight(mirror[m])'
  BY <1>1 DEF HoldsRight, OnJiraEvent, OnGitLabEvent
<1>3. ClosedExplained'
  <2>1. FromQueue(m) /\ NothingNew(m)
    BY <1>1 DEF FromQueue, NothingNew, OnJiraEvent
  <2> QED  BY <1>1, <2>1, ReasonKeeps
<1> QED  BY <1>1, <1>2, <1>3, MirrorInvFrom

LEMMA FindKeeps == ASSUME MirrorInv, NEW m \in Mirrors, findExistingGitLabIssue(m) PROVE MirrorInv'
<1> USE ShapesOf
<1> DEFINE ev == mirror[m].event
<1>1. /\ mirror[m].pc = "searching" /\ ev \in JiraEventType
      /\ UNCHANGED <<jiraIssue, gitlabIssue, gitlabEvents, milestones, people, echoes, reason, remarks>>
  BY DEF findExistingGitLabIssue, HoldsRight, OnJiraEvent
<1>2. CASE GoesBack(m)
  BY <1>1, <1>2, FailKeeps DEF OnJiraEvent, ClosedForAReason
<1>3. CASE ~gitlabIssue.titled /\ Over(m) /\ UNCHANGED <<jiraEvents, clean>>
  <2>1. OneHand(m) /\ mirror'[m].pc = "idle"
    BY <1>3, OverEffect
  <2>2. HoldsRight(mirror[m])'
    BY <2>1 DEF HoldsRight, OnJiraEvent, OnGitLabEvent
  <2>3. ClosedExplained'
    <3>1. FromQueue(m) /\ NothingNew(m)
      BY <1>3, <2>1 DEF FromQueue, NothingNew, OnJiraEvent
    <3> QED  BY <1>1, <2>1, <3>1, ReasonKeeps
  <2>5. ClosedForAReason'
    BY <1>1 DEF ClosedForAReason
  <2>4. ~clean
    BY <1>3 DEF OneUnheard
  <2> QED  BY <1>1, <1>3, <2>1, <2>2, <2>3, <2>4, <2>5, MirrorInvFrom
<1>4. CASE gitlabIssue.titled /\ ev.kind # "issue" /\ On(m, "noting", "none") /\ UNCHANGED <<jiraEvents, clean>>
  <2>1. OneHand(m) /\ mirror'[m].pc = "noting" /\ mirror'[m].event = ev
    BY <1>4, OnEffect
  <2> QED  BY <1>1, <1>4, <2>1, QuietMove DEF HoldsRight, OnJiraEvent, OnGitLabEvent
<1>5. CASE ev.kind = "issue" /\ ev.version = "none" /\ On(m, "updating", "cleared") /\ UNCHANGED <<jiraEvents, clean>>
  <2>1. OneHand(m) /\ mirror'[m].pc = "updating" /\ mirror'[m].event = ev /\ mirror'[m].chosen = "cleared"
    BY <1>5, OnEffect
  <2> QED  BY <1>1, <1>5, <2>1, QuietMove DEF HoldsRight, OnJiraEvent, OnGitLabEvent
<1>6. CASE ev.kind = "issue" /\ ev.version # "none" /\ On(m, "milestones", "none") /\ UNCHANGED <<jiraEvents, clean>>
  <2>1. OneHand(m) /\ mirror'[m].pc = "milestones" /\ mirror'[m].event = ev
    BY <1>6, OnEffect
  <2>2. ev.version \in FixVersions
    BY <1>1, <1>6 DEF JiraEventType, Versions
  <2> QED  BY <1>1, <1>6, <2>1, <2>2, QuietMove DEF HoldsRight, OnJiraEvent, OnGitLabEvent
<1> QED  BY <1>2, <1>3, <1>4, <1>5, <1>6 DEF findExistingGitLabIssue

LEMMA MilestoneKeeps == ASSUME MirrorInv, NEW m \in Mirrors, findGitLabMilestone(m) PROVE MirrorInv'
<1> USE ShapesOf
<1>1. /\ mirror[m].pc = "milestones" /\ HoldsRight(mirror[m])
      /\ UNCHANGED <<jiraIssue, gitlabIssue, jiraEvents, gitlabEvents, milestones, people, echoes, reason, remarks, clean>>
  BY DEF findGitLabMilestone
<1>2. CASE mirror[m].event.version \in milestones /\ On(m, "updating", mirror[m].event.version)
  <2>1. OneHand(m) /\ mirror'[m].pc = "updating" /\ mirror'[m].event = mirror[m].event
        /\ mirror'[m].chosen \in milestones
    BY <1>2, OnEffect
  <2> QED  BY <1>1, <2>1, QuietMove DEF HoldsRight, OnJiraEvent, OnGitLabEvent
<1>3. CASE \E pc \in {"creating", "updating"} : On(m, pc, "none")
  <2>1. PICK pc \in {"creating", "updating"} : On(m, pc, "none")
    BY <1>3
  <2>2. OneHand(m) /\ mirror'[m].pc = pc /\ mirror'[m].event = mirror[m].event /\ mirror'[m].chosen = "none"
    BY <2>1, OnEffect
  <2> QED  BY <1>1, <2>2, QuietMove DEF HoldsRight, OnJiraEvent, OnGitLabEvent
<1> QED  BY <1>2, <1>3 DEF findGitLabMilestone

LEMMA CreateKeeps == ASSUME MirrorInv, NEW m \in Mirrors, CreateMilestone(m) PROVE MirrorInv'
<1> USE ShapesOf
<1> DEFINE version == mirror[m].event.version
<1>1. /\ mirror[m].pc = "creating" /\ HoldsRight(mirror[m]) /\ version \in FixVersions
      /\ UNCHANGED <<jiraIssue, gitlabIssue, jiraEvents, gitlabEvents, people, echoes, reason, remarks, clean>>
  BY DEF CreateMilestone, HoldsRight
<1>2. \E v \in {version, "none"} : On(m, "updating", v) /\ (v = "none" \/ v \in milestones')
  BY DEF CreateMilestone
<1>3. milestones \subseteq milestones' /\ milestones' \subseteq FixVersions
  BY <1>1 DEF CreateMilestone
<1>4. PICK v \in {version, "none"} : On(m, "updating", v) /\ (v = "none" \/ v \in milestones')
  BY <1>2
<1>5. OneHand(m) /\ mirror'[m].pc = "updating" /\ mirror'[m].event = mirror[m].event /\ mirror'[m].chosen = v
  BY <1>4, OnEffect
<1>6. HoldsRight(mirror[m])'
  BY <1>1, <1>4, <1>5 DEF HoldsRight, OnJiraEvent, OnGitLabEvent
<1>7. ClosedForAReason'
  BY <1>1, <1>3 DEF ClosedForAReason
<1>8. ClosedExplained'
  <2>1. FromQueue(m) /\ NothingNew(m)
    BY <1>1, <1>5 DEF FromQueue, NothingNew, OnJiraEvent
  <2> QED  BY <1>1, <1>5, <2>1, ReasonKeeps
<1>9. (clean => OneUnheard)'
  <2>1. Unheard' = Unheard  BY <1>1 DEF Unheard
  <2>2. m \in InHand' <=> m \in InHand
    BY <1>1, <1>5 DEF InHand, OnJiraEvent
  <2> QED  BY <1>1, <1>5, <2>1, <2>2, HeardKeeps
<1> QED  BY <1>1, <1>3, <1>5, <1>6, <1>7, <1>8, <1>9, MirrorInvFrom

\* The issue is closed only when the event's status is a closed one.
LEMMA ClosesForStatus ==
  ASSUME NEW ev, NEW state \in {"opened", "closed"}
  PROVE  /\ Apply(state, updateIssueState(ev)) \in {"opened", "closed"}
         /\ Apply(state, updateIssueState(ev)) = "closed" => state = "closed" \/ ev.status \in ClosedStatuses
<1> DEFINE old == IF ev.moved THEN ev.status ELSE ""
<1>1. CASE ~isClosedStatus(old) /\ isClosedStatus(ev.status)
  <2>1. updateIssueState(ev) = "close"
    BY <1>1 DEF updateIssueState, getStatusTransition
  <2> QED  BY <1>1, <2>1 DEF Apply, isClosedStatus
<1>2. CASE isClosedStatus(old) /\ ~isClosedStatus(ev.status)
  <2>1. updateIssueState(ev) = "reopen"
    BY <1>2 DEF updateIssueState, getStatusTransition
  <2> QED  BY <2>1 DEF Apply
<1>3. CASE isClosedStatus(old) <=> isClosedStatus(ev.status)
  <2>1. updateIssueState(ev) = ""
    BY <1>3 DEF updateIssueState, getStatusTransition
  <2> QED  BY <2>1 DEF Apply
<1> QED  BY <1>1, <1>2, <1>3

LEMMA UpdateIssueKeeps == ASSUME MirrorInv, NEW m \in Mirrors, UpdateIssue(m) PROVE MirrorInv'
<1> USE ShapesOf
<1> DEFINE k == mirror[m]
<1>1. /\ k.pc = "updating" /\ HoldsRight(k) /\ k.event \in JiraEventType /\ k.event.kind = "issue"
      /\ k.chosen \in milestones \cup {"none", "cleared"}
      /\ UNCHANGED <<jiraIssue, milestones, people, reason, remarks>>
  BY DEF UpdateIssue, HoldsRight, OnJiraEvent
<1>2. CASE GoesBack(m) /\ UNCHANGED <<gitlabIssue, gitlabEvents, echoes>>
  BY <1>1, <1>2, FailKeeps DEF OnJiraEvent, ClosedForAReason
<1>3. CASE /\ gitlabIssue' = [state |-> Apply(gitlabIssue.state, updateIssueState(k.event)),
                              milestone |-> CASE k.chosen = "cleared" -> "none"
                                              [] k.chosen = "none" -> gitlabIssue.milestone
                                              [] k.chosen \in FixVersions -> k.chosen,
                              titled |-> TRUE, notes |-> gitlabIssue.notes]
           /\ EchoOf(gitlabIssue'.state)
           /\ (Over(m) /\ UNCHANGED <<jiraEvents, clean>>) \/ GoesBack(m)
  <2>1. /\ gitlabIssue'.state \in {"opened", "closed"}
        /\ gitlabIssue'.state = "closed" => gitlabIssue.state = "closed" \/ k.event.status \in ClosedStatuses
    BY <1>3, ClosesForStatus
  <2>2. gitlabIssue'.milestone \in milestones \cup {"none"} /\ gitlabIssue'.milestone \in Versions
    <3>1. gitlabIssue.milestone \in milestones \cup {"none"}
      BY DEF ClosedForAReason
    <3>2. CASE k.chosen = "cleared"
      <4>1. k.chosen \notin FixVersions
        BY <3>2, MirrorAssumption
      <4>2. gitlabIssue'.milestone = "none"
        BY <1>3, <3>2, <4>1
      <4> QED  BY <4>2 DEF Versions
    <3>3. CASE k.chosen = "none"
      <4>1. k.chosen \notin FixVersions
        BY <3>3, MirrorAssumption
      <4>2. gitlabIssue'.milestone = gitlabIssue.milestone
        BY <1>3, <3>3, <4>1
      <4> QED  BY <3>1, <4>2 DEF Versions
    <3>4. CASE k.chosen \notin {"cleared", "none"}
      <4>1. k.chosen \in milestones /\ k.chosen \in FixVersions
        BY <1>1, <3>4
      <4>2. gitlabIssue'.milestone = k.chosen
        BY <1>3, <3>4, <4>1
      <4> QED  BY <4>1, <4>2 DEF Versions
    <3> QED  BY <3>2, <3>3, <3>4
  <2>3. gitlabIssue' \in [state : {"opened", "closed"}, milestone : Versions, titled : BOOLEAN, notes : Nat]
    BY <1>3, <2>1, <2>2
  <2>4. ClosedForAReason'
    <3>1. k.event.status \in ClosedStatuses => reason
      BY <1>1 DEF ClosedExplained, OnJiraEvent
    <3>2. gitlabIssue.state = "closed" => reason
      BY DEF ClosedForAReason
    <3> QED  BY <1>1, <2>1, <2>2, <3>1, <3>2 DEF ClosedForAReason
  <2>5. echoes' \in 0..MaxEchoes /\ gitlabEvents' \subseteq GitLabEventType
    <3>1. CASE UNCHANGED <<echoes, gitlabEvents>>  BY <3>1
    <3>2. CASE echoes < MaxEchoes /\ echoes' = echoes + 1 /\ Tell(gitlabIssue'.state, TRUE)
      <4>1. gitlabEvents' \subseteq GitLabEventType
        BY <2>1, <3>2, TellKeeps
      <4> QED  BY <3>2, <4>1, MirrorAssumption
    <3> QED  BY <1>3, <3>1, <3>2 DEF EchoOf
  <2>6. CASE GoesBack(m)
    BY <1>1, <2>3, <2>4, <2>5, <2>6, FailKeeps DEF OnJiraEvent
  <2>7. CASE Over(m) /\ UNCHANGED <<jiraEvents, clean>>
    <3>1. OneHand(m) /\ mirror'[m].pc = "idle"
      BY <2>7, OverEffect
    <3>2. HoldsRight(mirror[m])'
      BY <3>1 DEF HoldsRight, OnJiraEvent, OnGitLabEvent
    <3>3. ClosedExplained'
      <4>1. FromQueue(m) /\ NothingNew(m)
        BY <2>7, <3>1 DEF FromQueue, NothingNew, OnJiraEvent
      <4> QED  BY <1>1, <3>1, <4>1, ReasonKeeps
    <3>4. (clean => OneUnheard)'
      <4>1. Unheard' = Unheard  BY <2>7 DEF Unheard
      <4>2. m \notin InHand' /\ m \notin InHand
        BY <1>1, <3>1 DEF InHand, OnJiraEvent
      <4>3. gitlabIssue'.notes = gitlabIssue.notes /\ gitlabIssue'.titled
        BY <1>3
      <4> QED  BY <1>1, <2>7, <3>1, <4>1, <4>2, <4>3, HeardKeeps
    <3> QED  BY <1>1, <2>3, <2>4, <2>5, <2>7, <3>1, <3>2, <3>3, <3>4, MirrorInvFrom
  <2> QED  BY <1>3, <2>6, <2>7
<1> QED  BY <1>2, <1>3 DEF UpdateIssue

LEMMA NoteKeeps == ASSUME MirrorInv, NEW m \in Mirrors, syncToGitLab(m) PROVE MirrorInv'
<1> USE ShapesOf
<1>1. /\ mirror[m].pc = "noting" /\ HoldsRight(mirror[m]) /\ mirror[m].event.kind # "issue"
      /\ UNCHANGED <<jiraIssue, gitlabEvents, milestones, people, echoes, reason, remarks>>
  BY DEF syncToGitLab, HoldsRight
<1>2. gitlabIssue' = gitlabIssue \/ gitlabIssue' = [gitlabIssue EXCEPT !.notes = @ + 1]
  BY DEF syncToGitLab
<1>3. /\ gitlabIssue' \in [state : {"opened", "closed"}, milestone : Versions, titled : BOOLEAN, notes : Nat]
      /\ gitlabIssue'.state = gitlabIssue.state /\ gitlabIssue'.milestone = gitlabIssue.milestone
      /\ gitlabIssue'.titled = gitlabIssue.titled
  BY <1>2
<1>4. ClosedForAReason'
  BY <1>1, <1>3 DEF ClosedForAReason
<1>5. CASE GoesBack(m)
  BY <1>1, <1>3, <1>4, <1>5, FailKeeps DEF OnJiraEvent
<1>6. CASE /\ Over(m) /\ UNCHANGED jiraEvents
           /\ clean' = FALSE \/ (UNCHANGED clean /\ gitlabIssue' = [gitlabIssue EXCEPT !.notes = @ + 1])
  <2>1. OneHand(m) /\ mirror'[m].pc = "idle"
    BY <1>6, OverEffect
  <2>2. HoldsRight(mirror[m])'
    BY <2>1 DEF HoldsRight, OnJiraEvent, OnGitLabEvent
  <2>3. ClosedExplained'
    <3>1. FromQueue(m) /\ NothingNew(m)
      BY <1>6, <2>1 DEF FromQueue, NothingNew, OnJiraEvent
    <3> QED  BY <1>1, <2>1, <3>1, ReasonKeeps
  <2>4. (clean => OneUnheard)'
    <3> SUFFICES ASSUME clean' PROVE OneUnheard'  OBVIOUS
    <3>1. OneUnheard /\ gitlabIssue'.notes = gitlabIssue.notes + 1
      BY <1>6
    <3>2. m \in InHand
      BY <1>1 DEF InHand, OnJiraEvent
    <3>3. InHand = {m} /\ Unheard = {} /\ remarks = gitlabIssue.notes + 1
      BY <3>1, <3>2 DEF OneUnheard
    <3>4. Unheard' = {}
      BY <1>6, <3>3 DEF Unheard
    <3>5. InHand' = {}
      <4>1. \A n \in Mirrors : n \notin InHand'
        BY <2>1, <3>3 DEF OneHand, InHand, OnJiraEvent
      <4> QED  BY <4>1 DEF InHand
    <3> QED  BY <1>1, <1>3, <3>1, <3>3, <3>4, <3>5 DEF OneUnheard
  <2>5. clean' \in BOOLEAN
    BY <1>6
  <2> QED  BY <1>1, <1>3, <1>4, <1>6, <2>1, <2>2, <2>3, <2>4, <2>5, MirrorInvFrom
<1> QED  BY <1>5, <1>6 DEF syncToGitLab

\* What a step of a goroutine with an event of GitLab, or with none, leaves
\* alone.
LEMMA HandleKeeps == ASSUME MirrorInv, NEW m \in Mirrors, HandleGitLabWebhook(m) PROVE MirrorInv'
<1> USE ShapesOf
<1>1. PICK ev \in gitlabEvents :
        /\ gitlabEvents' = gitlabEvents \ {ev}
        /\ IF ev.titled THEN mirror' = [mirror EXCEPT ![m] = [AtEase EXCEPT !.pc = "reading", !.event = ev]]
                           ELSE UNCHANGED mirror
  BY DEF HandleGitLabWebhook
<1>2. /\ mirror[m].pc = "idle"
      /\ UNCHANGED <<jiraIssue, gitlabIssue, jiraEvents, milestones, people, echoes, reason, remarks, clean>>
  BY DEF HandleGitLabWebhook
<1>3. CASE ev.titled
  <2>1. OneHand(m) /\ mirror'[m].pc = "reading" /\ mirror'[m].event = ev
    BY <1>1, <1>3, PutEffectMirror
  <2> QED  BY <1>1, <1>2, <2>1, QuietMove DEF HoldsRight, OnJiraEvent, OnGitLabEvent
<1>4. CASE ~ev.titled
  <2>1. OneHand(m) /\ mirror'[m] = mirror[m]
    BY <1>1, <1>4 DEF OneHand, MirrorShapes, Hands
  <2>2. HoldsRight(mirror[m])'
    BY <1>2, <2>1 DEF HoldsRight, OnJiraEvent, OnGitLabEvent
  <2> QED  BY <1>1, <1>2, <2>1, <2>2, QuietMove DEF OnJiraEvent
<1> QED  BY <1>3, <1>4

LEMMA AnswerKeeps ==
  ASSUME MirrorInv, NEW m \in Mirrors, ReadStatus(m) \/ ChooseTarget(m) \/ Reread(m) \/ SeekTransition(m)
  PROVE  MirrorInv'
<1> USE ShapesOf
<1>1. /\ mirror[m].pc \in OnGitLabEvent /\ HoldsRight(mirror[m])
      /\ UNCHANGED <<jiraIssue, gitlabIssue, jiraEvents, gitlabEvents, milestones, people, echoes, reason,
                     remarks, clean>>
  BY DEF ReadStatus, ChooseTarget, Reread, SeekTransition, OnGitLabEvent
<1>2. CASE Over(m)
  <2>1. OneHand(m) /\ mirror'[m].pc = "idle"
    BY <1>2, OverEffect
  <2> QED  BY <1>1, <2>1, QuietMove DEF HoldsRight, OnJiraEvent, OnGitLabEvent
<1>3. CASE \E pc \in OnGitLabEvent : \E chosen : On(m, pc, chosen)
  <2>1. PICK pc \in OnGitLabEvent : \E chosen : On(m, pc, chosen)
    BY <1>3
  <2>2. PICK chosen : On(m, pc, chosen)
    BY <2>1
  <2>3. OneHand(m) /\ mirror'[m].pc = pc /\ mirror'[m].event = mirror[m].event
    BY <2>2, OnEffect
  <2> QED  BY <1>1, <2>3, QuietMove DEF HoldsRight, OnJiraEvent, OnGitLabEvent
<1>4. Over(m) \/ \E pc \in OnGitLabEvent : \E chosen : On(m, pc, chosen)
  <2>1. CASE ReadStatus(m)  BY <2>1 DEF ReadStatus, OnGitLabEvent
  <2>2. CASE ChooseTarget(m)  BY <2>2 DEF ChooseTarget, OnGitLabEvent
  <2>3. CASE Reread(m)  BY <2>3 DEF Reread, OnGitLabEvent
  <2>4. CASE SeekTransition(m)  BY <2>4 DEF SeekTransition, OnGitLabEvent
  <2> QED  BY <2>1, <2>2, <2>3, <2>4
<1> QED  BY <1>2, <1>3, <1>4

LEMMA TransitionKeeps == ASSUME MirrorInv, NEW m \in Mirrors, MakeTransition(m) PROVE MirrorInv'
<1> USE ShapesOf
<1>1. /\ mirror[m].pc = "executing" /\ Over(m)
      /\ UNCHANGED <<gitlabIssue, gitlabEvents, milestones, people, remarks, clean>>
  BY DEF MakeTransition
<1>2. OneHand(m) /\ mirror'[m].pc = "idle"
  BY <1>1, OverEffect
<1>3. HoldsRight(mirror[m])'
  BY <1>2 DEF HoldsRight, OnJiraEvent, OnGitLabEvent
<1>4. CASE UNCHANGED <<jiraIssue, jiraEvents, reason, echoes>>
  BY <1>1, <1>2, <1>3, <1>4, QuietMove DEF OnJiraEvent
<1>5. CASE /\ Leads(mirror[m].chosen) /\ echoes < MaxEchoes
           /\ jiraIssue' = [jiraIssue EXCEPT !.status = mirror[m].chosen]
           /\ DeliverEvent(Snapshot("issue", jiraIssue', TRUE))
           /\ reason' = (reason \/ mirror[m].chosen \in ClosedStatuses)
           /\ echoes' = echoes + 1
  <2> DEFINE e == Snapshot("issue", jiraIssue', TRUE)
  <2>1. mirror[m].chosen \in Statuses
    BY <1>5 DEF Leads, Offered, Statuses
  <2>2. jiraIssue' \in [status : Statuses, version : Versions] /\ jiraIssue'.status = mirror[m].chosen
    BY <1>5, <2>1
  <2>3. e \in JiraEventType /\ e.kind = "issue" /\ e.status = mirror[m].chosen
    BY <2>2 DEF Snapshot, JiraEventType
  <2>4. jiraEvents' = jiraEvents \cup {e} /\ jiraEvents' \subseteq JiraEventType
    BY <1>5, <2>3, DeliverKeeps DEF DeliverEvent
  <2>5. echoes' \in 0..MaxEchoes
    BY <1>5, MirrorAssumption
  <2>6. ClosedForAReason' /\ reason' \in BOOLEAN
    BY <1>1, <1>5 DEF ClosedForAReason
  <2>7. ClosedExplained'
    <3>1. (jiraIssue.status \in ClosedStatuses => reason)'
      BY <1>5, <2>2
    <3>2. (\A x \in jiraEvents : x.status \in ClosedStatuses => reason)'
      BY <1>5, <2>3, <2>4 DEF ClosedExplained
    <3>3. ASSUME NEW n \in Mirrors, mirror'[n].pc \in OnJiraEvent, mirror'[n].event.status \in ClosedStatuses
          PROVE  reason'
      BY <1>2, <1>5, <3>3 DEF ClosedExplained, OneHand, OnJiraEvent
    <3> QED  BY <3>1, <3>2, <3>3 DEF ClosedExplained
  <2>8. (clean => OneUnheard)'
    <3>1. Unheard' = Unheard
      BY <2>3, <2>4 DEF Unheard
    <3>2. m \in InHand' <=> m \in InHand
      BY <1>1, <1>2 DEF InHand, OnJiraEvent
    <3> QED  BY <1>1, <1>2, <3>1, <3>2, HeardKeeps
  <2> QED  BY <1>1, <1>2, <1>3, <2>2, <2>4, <2>5, <2>6, <2>7, <2>8, MirrorInvFrom
<1> QED  BY <1>4, <1>5 DEF MakeTransition

-----------------------------------------------------------------------------
LEMMA MirrorInvStep == MirrorInv /\ [MirrorNext]_mirrorVars => MirrorInv'
<1> SUFFICES ASSUME MirrorInv, [MirrorNext]_mirrorVars PROVE MirrorInv'  OBVIOUS
<1>1. CASE EditJira  BY <1>1, EditJiraKeeps
<1>2. CASE EditGitLab  BY <1>2, EditGitLabKeeps
<1>3. ASSUME NEW m \in Mirrors, MirrorStep(m) PROVE MirrorInv'
  <2>1. CASE Take(m)  BY <2>1, TakeKeeps
  <2>2. CASE findExistingGitLabIssue(m)  BY <2>2, FindKeeps
  <2>3. CASE findGitLabMilestone(m)  BY <2>3, MilestoneKeeps
  <2>4. CASE CreateMilestone(m)  BY <2>4, CreateKeeps
  <2>5. CASE UpdateIssue(m)  BY <2>5, UpdateIssueKeeps
  <2>6. CASE syncToGitLab(m)  BY <2>6, NoteKeeps
  <2>7. CASE HandleGitLabWebhook(m)  BY <2>7, HandleKeeps
  <2>8. CASE ReadStatus(m) \/ ChooseTarget(m) \/ Reread(m) \/ SeekTransition(m)  BY <2>8, AnswerKeeps
  <2>9. CASE MakeTransition(m)  BY <2>9, TransitionKeeps
  <2> QED  BY <1>3, <2>1, <2>2, <2>3, <2>4, <2>5, <2>6, <2>7, <2>8, <2>9 DEF MirrorStep
<1>4. CASE UNCHANGED mirrorVars
  BY <1>4, ZenonT(60) DEF mirrorVars, MirrorInv, MirrorShapes, Counters, Hands, HoldsRight, ClosedForAReason,
              ClosedExplained, OneUnheard, Unheard, InHand
<1> QED  BY <1>1, <1>2, <1>3, <1>4 DEF MirrorNext

LEMMA MirrorInvTells == MirrorInv => IssueMirrored /\ MirrorTypeOK
<1> SUFFICES ASSUME MirrorInv PROVE IssueMirrored /\ MirrorTypeOK  OBVIOUS
<1>1. NotesFollow
  BY QuietMeansHeard DEF MirrorInv, NotesFollow
<1>2. /\ jiraIssue \in [status : Statuses, version : FixVersions \cup {"none"}]
      /\ gitlabIssue \in [state : {"opened", "closed"}, milestone : FixVersions \cup {"none"}, titled : BOOLEAN,
                          notes : Nat]
      /\ milestones \subseteq FixVersions
  BY DEF MirrorInv, MirrorShapes, Versions
<1>3. people \in 0..MaxEdits /\ remarks \in 0..MaxEdits /\ echoes \in 0..MaxEchoes
  BY MirrorAssumption DEF MirrorInv, MirrorShapes, Counters
<1>4. \A m \in Mirrors : mirror[m].pc \in {"idle", "searching", "milestones", "creating", "updating", "noting",
                                          "reading", "choosing", "rereading", "finding", "executing"}
  BY DEF MirrorInv, MirrorShapes, Hands, HoldsRight, OnJiraEvent, OnGitLabEvent
<1> QED  BY <1>1, <1>2, <1>3, <1>4 DEF MirrorInv, IssueMirrored, MirrorTypeOK

\* For any workflow, versions and people: the GitLab issue is closed only if
\* somebody closed it or the Jira issue was in a closed status, it points only
\* to milestones the project has, and while nothing fails every remark made in
\* Jira has one comment in GitLab as soon as all is quiet (UpdateIssue,
\* CreateMilestone, syncToGitLab).
THEOREM MirrorFollows == MirrorSpec => []IssueMirrored
<1>1. MirrorInit => MirrorInv  BY MirrorInvInit
<1>2. MirrorInv /\ [MirrorNext]_mirrorVars => MirrorInv'  BY MirrorInvStep
<1>3. MirrorInv => IssueMirrored  BY MirrorInvTells
<1> QED  BY <1>1, <1>2, <1>3, PTL DEF MirrorSpec

-----------------------------------------------------------------------------
(* Together                                                                *)

JiraSideInv == scene \in Scenes /\ TypeOK /\ JiraClientInv /\ MirrorInv

LEMMA JiraSideInvInit == JiraSideInit => JiraSideInv
BY InitTypeOK, JiraClientInvInit, MirrorInvInit DEF JiraSideInit, JiraSideInv

\* A step of one component is a step, or none, of each.
LEMMA JiraSideInvStep ==
  JiraSideInv /\ [JiraSideNext]_<<scene, vars, jiraClientVars, mirrorVars>> => JiraSideInv'
<1> SUFFICES ASSUME JiraSideInv, [JiraSideNext]_<<scene, vars, jiraClientVars, mirrorVars>>
             PROVE  JiraSideInv'
  OBVIOUS
<1>1. /\ scene' = scene /\ [Next]_vars /\ [JiraClientNext]_jiraClientVars /\ [MirrorNext]_mirrorVars
  BY DEF JiraSideNext, WebhookScene, ClientScene, MirrorScene, In
<1> QED BY <1>1, NextTypeOK, JiraClientInvStep, MirrorInvStep DEF JiraSideInv

\* Every variable of every component has its type, for any constants.
THEOREM JiraSideTyped == JiraSideSpec => []Typed
<1>1. JiraSideInv => Typed
  BY JiraClientInvTells, MirrorInvTells DEF JiraSideInv, Typed
<1> QED BY <1>1, JiraSideInvInit, JiraSideInvStep, PTL DEF JiraSideSpec
=============================================================================
