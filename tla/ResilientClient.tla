-------------------------- MODULE ResilientClient --------------------------
(***************************************************************************)
(* EnhancedAPIClient.ExecuteRequest (internal/errors/integration.go): one  *)
(* circuit breaker (internal/async/middleware.go) around the retry loop    *)
(* and the error taxonomy of internal/errors/types.go and api_errors.go.   *)
(* Callers are goroutines that share the client.                           *)
(*                                                                         *)
(* The breaker is read under its lock and acted upon after it: snapshot    *)
(* holds what a caller has read.  Of the clock only one thing matters,     *)
(* whether timeout has passed since a failure; a stamp is cool when it     *)
(* has.  failureCount saturates at FailureThreshold, above which the code  *)
(* does not tell counts apart.                                             *)
(***************************************************************************)
EXTENDS Integers, FiniteSets

CONSTANTS
  Callers,           \* goroutines that call ExecuteRequest
  Hosts,             \* what services they call: "gitlab", "jira", "other"
  Statuses,          \* the HTTP statuses a service may answer with, or NoAnswer
  FailureThreshold,  \* CircuitBreakerConfig.FailureThreshold
  MaxAttempts        \* RetryConfig.MaxAttempts

ASSUME ClientAssumption ==
  /\ Hosts \subseteq {"gitlab", "jira", "other"} /\ Hosts # {}
  /\ Statuses \subseteq (200..599) \cup {0}
  /\ FailureThreshold \in Nat \ {0}
  /\ MaxAttempts \in Nat

VARIABLES
  breaker,   \* state, failureCount, and whether lastFailureTime is cool
  call,      \* per caller: where it is in ExecuteRequest and what it knows
  healthy    \* the service answers every request well from now on

clientVars == <<breaker, call, healthy>>

-----------------------------------------------------------------------------
(* The taxonomy: the category decides whether an error is retried          *)

NoAnswer == 0  \* the request failed on the network

Failed(status) == status = NoAnswer \/ status >= 400

\* Both branches of ExecuteRequest's switch: classifyAPIError for GitLab and
\* Jira, clientErrorFromHTTP and serverErrorFromHTTP for other hosts.
Category(host, status) ==
  CASE status \in {NoAnswer, 504} -> "timeout"
    [] status = 503 -> "retryable"
    [] status = 429 /\ host # "other" -> "rate_limit"
    [] status \in {400, 401, 403, 404} -> "client"
    [] status \in 400..499 /\ host = "other" -> "client"
    [] OTHER -> "external"

\* ServiceError.IsRetryable; no error made here is of critical severity.
IsRetryable(host, status) ==
  Category(host, status) \in {"retryable", "timeout", "rate_limit", "external"}

-----------------------------------------------------------------------------
Resting == [pc |-> "idle", snapshot |-> "closed", cool |-> FALSE, fresh |-> FALSE,
            host |-> CHOOSE h \in Hosts : TRUE, sent |-> 0, last |-> 200,
            cancelled |-> FALSE, result |-> "none"]

ClientInit ==
  /\ breaker = [state |-> "closed", failures |-> 0, cool |-> FALSE]
  /\ call = [c \in Callers |-> Resting]
  /\ healthy = FALSE

\* Execute reads the breaker under RLock.
Snapshot(c) ==
  /\ call[c].pc = "idle"
  /\ \E h \in Hosts :
       call' = [call EXCEPT ![c] = [Resting EXCEPT !.pc = "deciding", !.host = h, !.fresh = TRUE,
                                       !.snapshot = breaker.state,
                                       !.cool = breaker.state = "open" /\ breaker.cool]]
  /\ UNCHANGED <<breaker, healthy>>

\* The way in: half-open when it was open, and on to the first attempt, if
\* there is to be one.
LetIn(c) ==
  /\ breaker' = IF call[c].snapshot = "open" THEN [breaker EXCEPT !.state = "half-open"]
                                              ELSE breaker
  /\ call' = [call EXCEPT ![c].pc = IF MaxAttempts = 0 THEN "reporting" ELSE "trying",
                          ![c].cool = FALSE,
                          ![c].result = IF MaxAttempts = 0 THEN "nothing" ELSE "none"]
  /\ UNCHANGED healthy

\* The age of the last failure is not looked at.
AdmitAlways(c) ==
  /\ call[c].pc = "deciding"
  /\ LetIn(c)

\* The decision is taken on what was read, whatever the breaker has become.
Admit(c) ==
  /\ call[c].pc = "deciding"
  /\ call[c].snapshot = "open" => call[c].cool
  /\ LetIn(c)

Reject(c) ==
  /\ call[c].pc = "deciding"
  /\ call[c].snapshot = "open" /\ ~call[c].cool
  /\ call' = [call EXCEPT ![c] = Resting]
  /\ UNCHANGED <<breaker, healthy>>

\* The error is not asked whether it may be retried.
VerdictRetriesAll(k, sent, status) ==
  CASE ~Failed(status) -> "response"
    [] Failed(status)
         -> IF k.cancelled THEN "cancelled" ELSE IF sent = MaxAttempts THEN "error" ELSE "none"

\* How Retryer.Execute goes on after an attempt, the sent-th.
Verdict(k, sent, status) ==
  CASE ~Failed(status) -> "response"
    [] Failed(status) /\ ~IsRetryable(k.host, status) -> "error"
    [] Failed(status) /\ IsRetryable(k.host, status)
         -> IF k.cancelled THEN "cancelled" ELSE IF sent = MaxAttempts THEN "error" ELSE "none"

\* One attempt.  A request under a cancelled context fails.
Attempt(c) ==
  LET k == call[c] IN
  /\ k.pc = "trying"
  /\ \E status \in Statuses :
       /\ healthy /\ ~k.cancelled => ~Failed(status)
       /\ k.cancelled => status = NoAnswer
       /\ LET result == Verdict(k, k.sent + 1, status)
          IN call' = [call EXCEPT ![c].sent = @ + 1, ![c].last = status, ![c].result = result,
                                  ![c].pc = IF result = "none" THEN "trying" ELSE "reporting"]
  /\ UNCHANGED <<breaker, healthy>>

\* The wait before a retry ends with the context.
Interrupted(c) ==
  /\ call[c].pc = "trying"
  /\ call[c].sent > 0 /\ call[c].cancelled
  /\ call' = [call EXCEPT ![c].pc = "reporting", ![c].result = "cancelled"]
  /\ UNCHANGED <<breaker, healthy>>

-----------------------------------------------------------------------------
(* The verdict: onSuccess and onFailure                                    *)

\* The state is not reset.
OnSuccessStaysHalfOpen == breaker' = [breaker EXCEPT !.failures = 0]

OnSuccess == breaker' = [breaker EXCEPT !.state = "closed", !.failures = 0]

OnFailure ==
  LET failures == IF breaker.failures = FailureThreshold THEN FailureThreshold
                                                         ELSE breaker.failures + 1
  IN breaker' = [state |-> IF breaker.state = "half-open" \/ failures >= FailureThreshold
                             THEN "open" ELSE breaker.state,
                 failures |-> failures, cool |-> FALSE]

\* A nil error with a nil response, after no attempt at all, is a success
\* too, and so is a caller's own cancellation a failure of the service.
ReportOutcome(c) ==
  /\ call[c].pc = "reporting"
  /\ IF call[c].result \in {"response", "nothing"}
       THEN /\ OnSuccess
            /\ call' = [call EXCEPT ![c] = Resting]
       ELSE /\ OnFailure
            /\ call' = [k \in Callers |-> IF k = c THEN Resting ELSE [call[k] EXCEPT !.fresh = FALSE]]
  /\ UNCHANGED healthy

-----------------------------------------------------------------------------
(* The environment                                                         *)

\* The caller's context ends, whatever the service does.
CancelCall(c) ==
  /\ call[c].pc \in {"deciding", "trying"}
  /\ call' = [call EXCEPT ![c].cancelled = TRUE]
  /\ UNCHANGED <<breaker, healthy>>

\* timeout passes since the last failure, and so since every earlier one; or
\* only since the earlier ones, which some callers still hold.
Cool(all) ==
  /\ breaker' = IF all THEN [breaker EXCEPT !.cool = TRUE] ELSE breaker
  /\ call' = [c \in Callers |->
                [call[c] EXCEPT !.cool = @ \/ (call[c].pc = "deciding" /\ call[c].snapshot = "open"
                                             /\ (all \/ ~call[c].fresh))]]
  /\ UNCHANGED healthy

Recover ==
  /\ ~healthy
  /\ healthy' = TRUE
  /\ UNCHANGED <<breaker, call>>

CallerStep(c) ==
  \/ Snapshot(c) \/ Admit(c) \/ Reject(c) \/ Attempt(c) \/ Interrupted(c) \/ ReportOutcome(c)

ClientNext ==
  \/ \E c \in Callers : CallerStep(c)
  \/ \E c \in Callers : CancelCall(c)
  \/ \E all \in BOOLEAN : Cool(all)
  \/ Recover

ClientSpec == ClientInit /\ [][ClientNext]_clientVars

\* Callers keep calling and get on; the clock goes on.
ClientFairness ==
  /\ \A c \in Callers : WF_clientVars(CallerStep(c))
  /\ WF_clientVars(Cool(TRUE))

-----------------------------------------------------------------------------
(* Properties                                                              *)

ClientTypeOK ==
  /\ breaker \in [state : {"closed", "open", "half-open"}, failures : 0..FailureThreshold,
                  cool : BOOLEAN]
  /\ call \in [Callers -> [pc : {"idle", "deciding", "trying", "reporting"},
                           snapshot : {"closed", "open", "half-open"}, cool : BOOLEAN,
                           fresh : BOOLEAN, host : Hosts, sent : 0..MaxAttempts,
                           last : Statuses \cup {200}, cancelled : BOOLEAN,
                           result : {"none", "response", "nothing", "error", "cancelled"}]]
  /\ healthy \in BOOLEAN

\* An open breaker lets no request through while its timeout runs, but for
\* callers that read it before its last failure: the decision is taken on a
\* copy, and a copy is out of date from the next failure on.
ShutMeansShut ==
  \A c \in Callers :
    call[c].pc = "trying" /\ call[c].fresh =>
      /\ breaker.state # "open"
      /\ call[c].snapshot = "open" => breaker.cool

\* A request is sent again only after an answer that is worth it, and what
\* ExecuteRequest returns is what happened.
ToldTheTruth ==
  \A c \in Callers :
    LET k == call[c] IN
    /\ k.pc = "trying" /\ k.sent > 0 =>
         Failed(k.last) /\ IsRetryable(k.host, k.last) /\ k.sent < MaxAttempts
    /\ k.pc = "reporting" =>
         /\ k.result = "response" => k.sent > 0 /\ ~Failed(k.last)
         /\ k.result = "error" => /\ Failed(k.last)
                                  /\ k.sent = MaxAttempts \/ ~IsRetryable(k.host, k.last)
         /\ k.result = "nothing" => MaxAttempts = 0

\* What a client may rely on: an open breaker lets nothing through but what
\* had been decided before, and ExecuteRequest sends, sends again and returns
\* as the taxonomy of the answers says.
ClientSound == ShutMeansShut /\ ToldTheTruth

\* Once the service is well and no caller gives up, the breaker closes and
\* stays closed, whatever it was when the service recovered.  A caller that
\* gives up is a failure to the breaker (Execute, onFailure), of which
\* FailureThreshold open it, and one while it is half-open, however well the
\* service is.
Patient == \A c \in Callers : ~call[c].cancelled

BreakerRecovers == [](healthy /\ Patient) ~> [](breaker.state = "closed")
=============================================================================
