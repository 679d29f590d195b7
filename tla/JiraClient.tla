----------------------------- MODULE JiraClient -----------------------------
(***************************************************************************)
(* internal/jira: Client (client.go) with its RateLimiter, and the OAuth   *)
(* 2.0 tokens it shares with the authorization handlers (oauth2_client.go, *)
(* oauth2_handlers.go).                                                    *)
(*                                                                         *)
(* Every operation of the client is a sequence of requests; each request   *)
(* takes a token from the rate limiter, gets its Authorization header and  *)
(* is sent.  The clock ticks once per token the limiter earns.  Access and *)
(* refresh tokens are numbered as the token server, which is external and  *)
(* takes a refresh token once, hands them out.  The configuration's fields *)
(* are plain memory, written one after the other with no lock.             *)
(***************************************************************************)
EXTENDS Integers, FiniteSets, Sequences

CONSTANTS
  JiraCallers,    \* goroutines that use the client
  Operations,     \* what they call
  Capacity,       \* rate limit, and the bucket's size: JiraRateLimit
  UsesOAuth,      \* JiraAuthMethod is oauth2
  MaxTries,       \* JiraRetryMaxAttempts, for TestConnection
  MaxGrants,      \* bound: authorizations and refreshes the server grants
  Browser         \* the browser of whoever authorizes the application

ASSUME JiraClientAssumption ==
  /\ Capacity \in Nat \ {0} /\ MaxTries \in Nat \ {0} /\ MaxGrants \in Nat
  /\ Operations \subseteq {"search", "request", "assign", "unassign", "probe",
                     "transition", "validated"}
  /\ UsesOAuth \in BOOLEAN /\ Browser \notin JiraCallers /\ IsFiniteSet(JiraCallers)

VARIABLES
  bucket,    \* tokens, the ticks owed since lastRefill, and the grants of this tick
  jcall,     \* per caller: the requests its operation has left, and where it is
  tokens,    \* JiraAccessToken, JiraRefreshToken (0: none), JiraTokenExpiry has passed
  granted,   \* the token server: the newest refresh token it has handed out
  writes,    \* per caller and for the browser: the token answer it is storing
  cookie,    \* the browser's oauth_state, 0 for none, and the flows it has begun
  astray,    \* an answer was lost or two exchanges overlapped
  remote     \* the Jira issue's status, external

jiraClientVars == <<bucket, jcall, tokens, granted, writes, cookie, astray, remote>>

Actors == JiraCallers \cup {Browser}

JiraStatuses == {"todo", "done"}   \* an issue's statuses; the target is "done"

\* The requests of each operation, were it to make them all.
GetIssue           == <<"status">>
GetTransitions     == <<"transitions">>
FindTransition     == GetTransitions
ExecuteTransition  == <<"execute">>
ValidateTransition == GetIssue \o <<"check">>
TransitionToStatus == GetIssue \o FindTransition \o ExecuteTransition
ExecuteTransitionWithValidation == ValidateTransition \o FindTransition \o ExecuteTransition
SearchIssues       == <<"read">>
SearchUsers        == <<"users">>
do                 == <<"read">>
executePutRequest  == <<"write">>
handleSpecialAssignee == executePutRequest
SetAssignee        == executePutRequest
SetAssigneeWithValidation == SearchUsers \o SetAssignee
TestConnection     == [i \in 1..MaxTries |-> "info"]

Plan(op) ==
  CASE op = "search"     -> SearchIssues
    [] op = "request"    -> do
    [] op = "assign"     -> SetAssigneeWithValidation
    [] op = "unassign"   -> handleSpecialAssignee
    [] op = "probe"      -> TestConnection
    [] op = "transition" -> TransitionToStatus
    [] op = "validated"  -> ExecuteTransitionWithValidation

AtRest == [pc |-> "idle", op |-> "request", left |-> <<>>]
NoAnswerYet == [pc |-> "none", held |-> 0, got |-> 0]

JiraClientInit ==
  /\ bucket = [tokens |-> Capacity, owed |-> 0, thisTick |-> 0]
  /\ jcall = [c \in JiraCallers |-> AtRest]
  /\ tokens = [access |-> 0, refresh |-> 0, expired |-> TRUE]
  /\ granted = 0
  /\ writes = [a \in Actors |-> NoAnswerYet]
  /\ cookie = [state |-> 0, begun |-> 0]
  /\ astray = FALSE
  /\ remote \in JiraStatuses

-----------------------------------------------------------------------------
(* RateLimiter.Wait                                                        *)

JMin(a, b) == IF a < b THEN a ELSE b

Call(c, op) ==
  /\ jcall[c].pc = "idle"
  /\ jcall' = [jcall EXCEPT ![c] = [pc |-> "limiter", op |-> op, left |-> Plan(op)]]
  /\ UNCHANGED <<bucket, tokens, granted, writes, cookie, astray, remote>>

Refilled == IF bucket.owed > 0 THEN JMin(Capacity, bucket.tokens + bucket.owed) ELSE bucket.tokens

\* Tokens earned since lastRefill are added; with none the lock is given up
\* and the caller sleeps for the time of one token.
Wait(c) ==
  /\ jcall[c].pc = "limiter"
  /\ IF Refilled > 0
       THEN /\ bucket' = [tokens |-> Refilled - 1, owed |-> 0, thisTick |-> bucket.thisTick + 1]
            /\ jcall' = [jcall EXCEPT ![c].pc = "header"]
       ELSE /\ bucket' = [bucket EXCEPT !.tokens = Refilled, !.owed = 0]
            /\ jcall' = [jcall EXCEPT ![c].pc = "dozing"]
  /\ UNCHANGED <<tokens, granted, writes, cookie, astray, remote>>

\* The token the sleeper gives itself is left in the bucket as well.
WakeKeepsToken(c) ==
  /\ jcall[c].pc = "rested"
  /\ bucket' = [tokens |-> 1, owed |-> 0, thisTick |-> bucket.thisTick + 1]
  /\ jcall' = [jcall EXCEPT ![c].pc = "header"]
  /\ UNCHANGED <<tokens, granted, writes, cookie, astray, remote>>

\* tokens = 1, whatever it has become meanwhile, and one is taken.
Wake(c) ==
  /\ jcall[c].pc = "rested"
  /\ bucket' = [tokens |-> 0, owed |-> 0, thisTick |-> bucket.thisTick + 1]
  /\ jcall' = [jcall EXCEPT ![c].pc = "header"]
  /\ UNCHANGED <<tokens, granted, writes, cookie, astray, remote>>

\* What is owed beyond the bucket's size is not told apart.
Tick ==
  /\ bucket' = [bucket EXCEPT !.owed = JMin(Capacity, @ + 1), !.thisTick = 0]
  /\ jcall' = [c \in JiraCallers |->
                 IF jcall[c].pc = "dozing" THEN [jcall[c] EXCEPT !.pc = "rested"] ELSE jcall[c]]
  /\ UNCHANGED <<tokens, granted, writes, cookie, astray, remote>>

-----------------------------------------------------------------------------
(* getAuthorizationHeader and GetValidAccessToken                          *)

\* The caller gets the result, or an error.
Ended(c) == [jcall EXCEPT ![c] = AtRest]

\* A refresh is due and can be asked for; a header can be given as it is.
Refreshable == UsesOAuth /\ tokens.access # 0 /\ tokens.expired /\ tokens.refresh # 0
HeaderReady == UsesOAuth => tokens.access # 0 /\ ~tokens.expired

Header(c) ==
  /\ jcall[c].pc = "header"
  /\ CASE HeaderReady -> jcall' = [jcall EXCEPT ![c].pc = "sending"] /\ UNCHANGED writes
       [] Refreshable
            -> /\ jcall' = [jcall EXCEPT ![c].pc = "refreshing"]
               /\ writes' = [writes EXCEPT ![c] = [pc |-> "asking", held |-> tokens.refresh, got |-> 0]]
       [] OTHER -> jcall' = Ended(c) /\ UNCHANGED writes
  /\ UNCHANGED <<bucket, tokens, granted, cookie, astray, remote>>

Busy(a) == writes[a].pc # "none"
OthersBusy(a) == \E b \in Actors \ {a} : Busy(b)

\* What follows a token request that fails.
GivesUp(a) ==
  /\ writes' = [writes EXCEPT ![a] = NoAnswerYet]
  /\ jcall' = IF a = Browser THEN jcall ELSE Ended(a)

\* The token server takes the newest refresh token, or a code, and answers;
\* the answer may be lost.
Granted(a) ==
  /\ writes[a].pc = "asking"
  /\ a = Browser \/ writes[a].held = granted
  /\ granted < MaxGrants
  /\ granted' = granted + 1
  /\ \/ /\ writes' = [writes EXCEPT ![a].pc = "access", ![a].got = granted + 1]
        /\ astray' = (astray \/ OthersBusy(a))
        /\ UNCHANGED jcall
     \/ GivesUp(a) /\ astray' = TRUE
  /\ UNCHANGED <<bucket, tokens, cookie, remote>>

\* An old token is refused, and any request may fail before it arrives.
Refused(a) ==
  /\ writes[a].pc = "asking"
  /\ GivesUp(a)
  /\ UNCHANGED <<bucket, tokens, granted, cookie, astray, remote>>

\* updateTokensInConfig and updateConfigWithTokens: three plain writes.
StoreAccess(a) ==
  /\ writes[a].pc = "access"
  /\ tokens' = [tokens EXCEPT !.access = writes[a].got]
  /\ writes' = [writes EXCEPT ![a].pc = "refresh"]
  /\ UNCHANGED <<bucket, jcall, granted, cookie, astray, remote>>

\* The refresh token in hand is kept.
StoreRefreshForgets(a) ==
  /\ writes[a].pc = "refresh"
  /\ writes' = [writes EXCEPT ![a].pc = "expiry"]
  /\ UNCHANGED <<bucket, jcall, tokens, granted, cookie, astray, remote>>

StoreRefresh(a) ==
  /\ writes[a].pc = "refresh"
  /\ tokens' = [tokens EXCEPT !.refresh = writes[a].got]
  /\ writes' = [writes EXCEPT ![a].pc = "expiry"]
  /\ UNCHANGED <<bucket, jcall, granted, cookie, astray, remote>>

StoreExpiry(a) ==
  /\ writes[a].pc = "expiry"
  /\ tokens' = [tokens EXCEPT !.expired = FALSE]
  /\ writes' = [writes EXCEPT ![a] = NoAnswerYet]
  /\ jcall' = IF a = Browser THEN jcall ELSE [jcall EXCEPT ![a].pc = "sending"]
  /\ astray' = (astray /\ (OthersBusy(a) \/ tokens.refresh # granted))
  /\ UNCHANGED <<bucket, granted, cookie, remote>>

\* Five minutes before an access token ends it counts as expired.
Expires ==
  /\ ~tokens.expired
  /\ tokens' = [tokens EXCEPT !.expired = TRUE]
  /\ UNCHANGED <<bucket, jcall, granted, writes, cookie, astray, remote>>

-----------------------------------------------------------------------------
(* HandleAuthorize and HandleCallback                                      *)

\* Every flow has a state of its own, and overwrites the cookie.
HandleAuthorize ==
  /\ cookie.begun < MaxGrants
  /\ cookie' = [state |-> cookie.begun + 1, begun |-> cookie.begun + 1]
  /\ UNCHANGED <<bucket, jcall, tokens, granted, writes, astray, remote>>

\* The callback of the newest flow, the only one whose state matches the
\* cookie, and once; then Jira may report an error, or send no code.
HandleCallback ==
  /\ cookie.state # 0
  /\ ~Busy(Browser)
  /\ cookie' = [cookie EXCEPT !.state = 0]
  /\ \/ writes' = [writes EXCEPT ![Browser] = [pc |-> "asking", held |-> 0, got |-> 0]]
     \/ UNCHANGED writes
  /\ UNCHANGED <<bucket, jcall, tokens, granted, astray, remote>>

-----------------------------------------------------------------------------
(* The requests and what the operations make of the answers                *)

\* The request is answered well, and the operation goes on or ends.
Proceeds(c, rest) ==
  jcall' = IF rest = <<>> THEN Ended(c)
                          ELSE [jcall EXCEPT ![c].pc = "limiter", ![c].left = rest]

Answered(c) ==
  LET k == jcall[c]
      request == Head(k.left)
      offered == remote # "done"   \* the workflow offers no transition to where it is
  IN
  /\ k.pc = "sending"
  /\ \/ request \in {"read", "write"} /\ Proceeds(c, Tail(k.left)) /\ UNCHANGED remote
     \/ request = "info" /\ jcall' = Ended(c) /\ UNCHANGED remote
     \* the user may not be among those found
     \/ /\ request = "users" /\ UNCHANGED remote
        /\ Proceeds(c, Tail(k.left)) \/ jcall' = Ended(c)
     \* already there: TransitionToStatus is done, ValidateTransition is too
     \/ /\ request = "status" /\ UNCHANGED remote
        /\ \/ remote # "done" /\ Proceeds(c, Tail(k.left))
           \/ remote = "done" /\ k.op = "transition" /\ jcall' = Ended(c)
           \/ remote = "done" /\ k.op = "validated" /\ Proceeds(c, Tail(Tail(k.left)))
     \/ /\ request \in {"check", "transitions"} /\ UNCHANGED remote
        /\ IF offered THEN Proceeds(c, Tail(k.left)) ELSE jcall' = Ended(c)
     \* Jira refuses a transition the issue's status no longer allows
     \/ /\ request = "execute"
        /\ IF offered THEN remote' = "done" /\ Proceeds(c, Tail(k.left))
                      ELSE jcall' = Ended(c) /\ UNCHANGED remote
  /\ UNCHANGED <<bucket, tokens, granted, writes, cookie, astray>>

\* A network error or a status that is no success; a transition may have been
\* executed.  TestConnection tries again after a 5xx or no answer.
FailsOrIsLost(c) ==
  LET k == jcall[c] IN
  /\ k.pc = "sending"
  /\ \/ jcall' = Ended(c)
     \/ Head(k.left) = "info" /\ Len(k.left) > 1
          /\ jcall' = [jcall EXCEPT ![c].pc = "limiter", ![c].left = Tail(@)]
  /\ remote' \in IF Head(k.left) = "execute" THEN {remote, "done"} ELSE {remote}
  /\ UNCHANGED <<bucket, tokens, granted, writes, cookie, astray>>

\* People move the issue too.
Moved ==
  /\ remote' = CHOOSE s \in JiraStatuses : s # remote
  /\ UNCHANGED <<bucket, jcall, tokens, granted, writes, cookie, astray>>

JiraClientNext ==
  \/ \E c \in JiraCallers : \/ \E op \in Operations : Call(c, op)
                            \/ Wait(c) \/ Wake(c) \/ Header(c) \/ Answered(c) \/ FailsOrIsLost(c)
  \/ \E a \in Actors : Granted(a) \/ Refused(a) \/ StoreAccess(a) \/ StoreRefresh(a) \/ StoreExpiry(a)
  \/ HandleAuthorize \/ HandleCallback \/ Tick \/ Expires \/ Moved

JiraClientSpec == JiraClientInit /\ [][JiraClientNext]_jiraClientVars

-----------------------------------------------------------------------------
(* Properties                                                              *)

JiraClientTypeOK ==
  /\ bucket \in [tokens : 0..Capacity, owed : 0..Capacity, thisTick : Nat]
  /\ \A c \in JiraCallers :
       /\ jcall[c].pc \in {"idle", "limiter", "dozing", "rested", "header", "refreshing", "sending"}
       /\ jcall[c].op \in Operations \cup {"request"}
       /\ jcall[c].left \in Seq({"read", "write", "users", "info", "status", "check", "transitions",
                                 "execute"})
       /\ jcall[c].pc # "idle" => jcall[c].left # <<>>
  /\ tokens \in [access : 0..MaxGrants, refresh : 0..MaxGrants, expired : BOOLEAN]
  /\ granted \in 0..MaxGrants /\ astray \in BOOLEAN /\ remote \in JiraStatuses
  /\ cookie \in [state : 0..MaxGrants, begun : 0..MaxGrants]
  /\ writes \in [Actors -> [pc : {"none", "asking", "access", "refresh", "expiry"},
                            held : 0..MaxGrants, got : 0..MaxGrants]]

\* The rate limiter's promise, as far as it goes: in the time of one token at
\* most a full bucket goes out, and one request more for every caller that
\* slept.  Each sleeper wakes with a token of its own, so the rate grows with
\* the callers, but no further.
RateBounded == bucket.thisTick <= Capacity + Cardinality(JiraCallers)

\* With no exchange under way, the refresh token in the configuration is the
\* one the server will take, unless an answer was lost or two exchanges ran
\* at once.  Otherwise the client could never refresh again.
LockoutExplained ==
  (\A a \in Actors : ~Busy(a)) => tokens.refresh = granted \/ astray

\* The client overruns the Jira rate limit by its sleepers at most, and does
\* not lock itself out of Jira.
JiraClientSafe == RateBounded /\ LockoutExplained
=============================================================================
