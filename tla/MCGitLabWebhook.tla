-------------------------- MODULE MCGitLabWebhook --------------------------
(* Instances of GitLabWebhook for TLC: one request of each hook, and events *)
(* of the kinds the two sides treat differently.                            *)
EXTENDS GitLabWebhook, TLC

CONSTANTS s1, p1, A, B

Both == {s1, p1}
Hooks == (s1 :> "system") @@ (p1 :> "project")
TwoKeys == {A, B}

Usual == {"project", "attributes", "allowedProject", "watched"}
Texts(t) == t @@ NoText

Push == Event("push", "push", Usual \cup {"commits"}, Texts("message" :> <<A, B>>))
PushElsewhere == [Push EXCEPT !.has = @ \ {"watched"}]
MergeRequest == Event("merge_request", "", Usual, Texts("title" :> <<A>> @@ "description" :> <<A>> @@ "branches" :> <<B>>))
Issue == Event("", "issue", Usual \cup {"described"}, Texts("title" :> <<B>> @@ "description" :> <<A>>))
Note == Event("note", "", Usual, Texts("note" :> <<A>>))
Release == Event("release", "", Usual, Texts("details" :> <<A>>))
UserCreate == Event("", "user_create", {"allowedName"}, NoText)
Foreign == Event("push", "push", {"project", "commits"}, Texts("message" :> <<A>>))

SystemEvents == {Push, MergeRequest, Release, UserCreate}
ProjectEvents == {PushElsewhere, Issue, Note, Foreign}
SomeEvents == (s1 :> SystemEvents) @@ (p1 :> ProjectEvents)
=============================================================================
