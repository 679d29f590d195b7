---------------------------- MODULE GitLabClient ----------------------------
(***************************************************************************)
(* internal/gitlab/api_client.go: what APIClient checks before it sends a  *)
(* request to GitLab, and what it makes of the answer.                     *)
(*                                                                         *)
(* Every operation sends one request at most and never a second one.  A    *)
(* request names its project by the kind of its ID, the issue, merge       *)
(* request or milestone by a number, and says whether the request's body,  *)
(* or the text to search for, is nil, empty or full.  GitLab is external:  *)
(* it does what it is asked or not, and its answer may be lost, or fail to *)
(* decode, after it has done it.                                           *)
(***************************************************************************)
EXTENDS Integers, FiniteSets

CONSTANTS
  ApiCallers,    \* goroutines that use the client
  ApiRequests,   \* what they ask for
  Token,         \* the configured token: "none", "wrong" or "good"
  MaxAsked       \* bound of the model: requests sent to change something

ProjectKinds == {"small", "huge", "nowhere", "zero", "path"}

ASSUME GitLabClientAssumption ==
  /\ Token \in {"none", "wrong", "good"} /\ MaxAsked \in Nat
  /\ ApiRequests \subseteq [project : ProjectKinds, iid : 0..2, body : {"nil", "empty", "full"}]

VARIABLES
  apiCall,    \* per caller: where its call is, and what has become of it
  project,    \* the GitLab project's issues and milestones, by number
  ledger,     \* per kind of change: reported as made, made, not known
  asked       \* requests sent to change something

gitlabClientVars == <<apiCall, project, ledger, asked>>

WriteOps == {"CreateIssue", "UpdateIssue", "CreateComment", "CreateMilestone", "UpdateMilestone",
             "DeleteMilestone"}

NoCall == [pc |-> "idle", op |-> "TestConnection", result |-> "none",
           request |-> [project |-> "small", iid |-> 1, body |-> "full"]]

GitLabClientInit ==
  /\ apiCall = [c \in ApiCallers |-> NoCall]
  /\ project = [issues |-> {1}, milestones |-> {1}]
  /\ ledger = [op \in WriteOps |-> [told |-> 0, made |-> 0, unknown |-> 0]]
  /\ asked = 0

-----------------------------------------------------------------------------
(* The checks                                                              *)

\* An ID above 1,000,000 is one GitLab has too: "huge".
isValidProjectID(p) == p \in {"small", "nowhere"}
Positive(p) == p \in {"small", "huge", "nowhere"}

\* parseProjectID: a path is an error, zero and negative numbers are not.
parseProjectID(p) == p # "path"

HasToken == Token # "none"

\* The request is sent, or the call ends before it, with an error.
SendRequest(c, op, r, checks) ==
  /\ apiCall[c].pc = "idle"
  /\ apiCall' = [apiCall EXCEPT ![c] = [NoCall EXCEPT !.op = op, !.request = r,
                                          !.pc = IF checks THEN "sent" ELSE "returned",
                                          !.result = IF checks THEN "none" ELSE "refused"]]
  /\ IF checks /\ op \in WriteOps THEN asked < MaxAsked /\ asked' = asked + 1 ELSE UNCHANGED asked
  /\ UNCHANGED <<project, ledger>>

FindUserByEmail(c, r) == SendRequest(c, "FindUserByEmail", r, HasToken)
TestConnection(c, r)  == SendRequest(c, "TestConnection", r, HasToken)

\* These two take the ID as an int; the second does not look at the token.
GetProjectInfo(c, r) ==
  r.project # "path" /\ SendRequest(c, "GetProjectInfo", r, HasToken /\ isValidProjectID(r.project))

GetMergeRequest(c, r) ==
  r.project # "path" /\ SendRequest(c, "GetMergeRequest", r, Positive(r.project) /\ r.iid > 0)

\* The only one that does not look at the sign of the ID.
CreateIssue(c, r) ==
  SendRequest(c, "CreateIssue", r, HasToken /\ parseProjectID(r.project) /\ r.body = "full")

UpdateIssue(c, r) ==
  SendRequest(c, "UpdateIssue", r, HasToken /\ Positive(r.project) /\ r.iid > 0 /\ r.body # "nil")

GetIssue(c, r) == SendRequest(c, "GetIssue", r, HasToken /\ Positive(r.project) /\ r.iid > 0)

SearchIssuesByTitle(c, r) ==
  SendRequest(c, "SearchIssuesByTitle", r, HasToken /\ Positive(r.project) /\ r.body = "full")

CreateComment(c, r) ==
  SendRequest(c, "CreateComment", r, HasToken /\ Positive(r.project) /\ r.iid > 0 /\ r.body = "full")

GetMilestones(c, r) == SendRequest(c, "GetMilestones", r, HasToken /\ Positive(r.project))

CreateMilestone(c, r) ==
  SendRequest(c, "CreateMilestone", r, HasToken /\ Positive(r.project) /\ r.body = "full")

UpdateMilestone(c, r) ==
  SendRequest(c, "UpdateMilestone", r, HasToken /\ Positive(r.project) /\ r.iid > 0 /\ r.body # "nil")

DeleteMilestone(c, r) ==
  SendRequest(c, "DeleteMilestone", r, HasToken /\ Positive(r.project) /\ r.iid > 0)

-----------------------------------------------------------------------------
(* The answer                                                              *)

\* What the request's URL leads to: the search's "?search=" is part of the
\* path, where "?" is escaped, and GitLab knows no such path.
Found(op, r) ==
  /\ r.project \in {"small", "huge"} \/ op \in {"FindUserByEmail", "TestConnection"}
  /\ op # "SearchIssuesByTitle"
  /\ op \in {"GetIssue", "UpdateIssue", "CreateComment"} => r.iid \in project.issues
  /\ op \in {"UpdateMilestone", "DeleteMilestone"} => r.iid \in project.milestones

Fresh(numbers) == CHOOSE n \in 1..(MaxAsked + 2) : n \notin numbers

\* What GitLab does for a request it accepts.
Done(op, r) ==
  project' = CASE op = "CreateIssue"     -> [project EXCEPT !.issues = @ \cup {Fresh(@)}]
               [] op = "CreateMilestone" -> [project EXCEPT !.milestones = @ \cup {Fresh(@)}]
               [] op = "DeleteMilestone" -> [project EXCEPT !.milestones = @ \ {r.iid}]
               [] OTHER -> project

\* Only server errors count as errors.
AcceptedUnlessServerError(op, status) == status < 500

\* The statuses that count as success.
Accepted(op, status) ==
  CASE op \in {"CreateIssue", "CreateComment", "CreateMilestone"} -> status = 201
    [] op = "DeleteMilestone" -> status \in {200, 204}
    [] OTHER -> status = 200

Good(op) ==
  CASE op \in {"CreateIssue", "CreateComment", "CreateMilestone"} -> 201
    [] op = "DeleteMilestone" -> 204
    [] OTHER -> 200

Returned(c, result) ==
  apiCall' = [apiCall EXCEPT ![c].pc = "returned", ![c].result = result]

\* A change is entered as made, and as reported to the caller or not known.
Entered(op, made, result) ==
  IF op \in WriteOps
    THEN [ledger EXCEPT ![op] = [told    |-> @.told + (IF result = "ok" THEN 1 ELSE 0),
                                 made    |-> @.made + (IF made THEN 1 ELSE 0),
                                 unknown |-> @.unknown + (IF result = "error" THEN 1 ELSE 0)]]
    ELSE ledger

\* GitLab does it, and its answer arrives or is lost.
GitLabDoes(c) ==
  LET op == apiCall[c].op
      r == apiCall[c].request
  IN
  /\ apiCall[c].pc = "sent"
  /\ Token = "good" /\ Found(op, r)
  /\ Done(op, r)
  /\ \E arrives \in BOOLEAN :
       LET result == IF arrives /\ Accepted(op, Good(op)) THEN "ok" ELSE "error" IN
       /\ Returned(c, result)
       /\ ledger' = Entered(op, TRUE, result)
  /\ UNCHANGED asked

\* GitLab refuses: no such thing, no right to it, invalid; or it fails.
GitLabRefuses(c) ==
  LET op == apiCall[c].op IN
  /\ apiCall[c].pc = "sent"
  /\ \E status \in {401, 404, 422, 503} :
       LET result == IF Accepted(op, status) THEN "ok" ELSE "error" IN
       /\ status = 401 => Token # "good"
       /\ status = 404 => ~Found(op, apiCall[c].request)
       /\ Returned(c, result)
       /\ ledger' = Entered(op, FALSE, result)
  /\ UNCHANGED <<project, asked>>

\* The caller goes on.
GoesOn(c) ==
  /\ apiCall[c].pc = "returned"
  /\ apiCall' = [apiCall EXCEPT ![c] = NoCall]
  /\ UNCHANGED <<project, ledger, asked>>

ApiOperation(c, r) ==
  \/ FindUserByEmail(c, r) \/ GetProjectInfo(c, r) \/ GetMergeRequest(c, r)
  \/ CreateIssue(c, r) \/ UpdateIssue(c, r) \/ GetIssue(c, r) \/ SearchIssuesByTitle(c, r)
  \/ CreateComment(c, r)
  \/ GetMilestones(c, r) \/ CreateMilestone(c, r) \/ UpdateMilestone(c, r) \/ DeleteMilestone(c, r)
  \/ TestConnection(c, r)

GitLabClientNext ==
  \E c \in ApiCallers :
    \/ \E r \in ApiRequests : ApiOperation(c, r)
    \/ GitLabDoes(c) \/ GitLabRefuses(c) \/ GoesOn(c)

GitLabClientSpec == GitLabClientInit /\ [][GitLabClientNext]_gitlabClientVars

-----------------------------------------------------------------------------
(* Properties                                                              *)

GitLabClientTypeOK ==
  /\ \A c \in ApiCallers :
       /\ apiCall[c].pc \in {"idle", "sent", "returned"}
       /\ apiCall[c].result \in {"none", "refused", "ok", "error"}
  /\ project \in [issues : SUBSET (1..(MaxAsked + 2)), milestones : SUBSET (1..(MaxAsked + 2))]
  /\ ledger \in [WriteOps -> [told : Nat, made : Nat, unknown : Nat]]
  /\ asked \in 0..MaxAsked

\* What the client reports as done is done, once; what GitLab did beyond that
\* is within what was reported as an error, for an error after the request
\* has been sent says nothing of what it did.
ReportedIsMade ==
  \A op \in WriteOps :
    /\ ledger[op].told <= ledger[op].made
    /\ ledger[op].made <= ledger[op].told + ledger[op].unknown
=============================================================================
