------------------------- MODULE SyncManagerProofs -------------------------
(***************************************************************************)
(* Proofs about SyncManager for any events, summaries, window and time:    *)
(* the types with the pointers, that a success in the audit trail left     *)
(* nothing undone, and that the IDs in the manual queue are distinct.      *)
(***************************************************************************)
EXTENDS SyncManager, TLAPS

-----------------------------------------------------------------------------
(* Types and pointers                                                      *)

LEMMA InitTypeOK == Init => TypeOK
<1> SUFFICES ASSUME Init PROVE TypeOK
  OBVIOUS
<1>1. jira \in Issues /\ clock = 0 /\ clock \in 0..MaxTime
  BY SyncAssumption DEF Init, Issues, Titles
<1>2. Mirror(jira) \in Issues
  BY <1>1 DEF Mirror, Tagged, Wrapped, Issues, Titles
<1>3. TrackersOK
  <2>1. PICK made \in BOOLEAN :
          /\ mirrors = IF made THEN <<Mirror(jira)>> ELSE <<>>
          /\ births = IF made THEN <<[title |-> mirrors[1].title, by |-> Earlier]>> ELSE <<>>
    BY DEF Init
  <2>2. CASE made
    <3>1. mirrors = <<Mirror(jira)>> /\ mirrors[1] = Mirror(jira)
      BY <2>1, <2>2
    <3>2. [title |-> mirrors[1].title, by |-> Earlier] \in Births
      BY <3>1, <1>2 DEF Issues, Births
    <3> QED BY <1>1, <1>2, <2>1, <2>2, <3>1, <3>2 DEF TrackersOK
  <2>3. CASE ~made
    BY <1>1, <2>1, <2>3 DEF TrackersOK
  <2> QED BY <2>2, <2>3
<1>4. GoroutinesOK /\ ConflictsOK /\ PointersOK
  BY DEF Init, GoroutinesOK, ConflictsOK, PointersOK, Places, NoConflict
<1> QED BY <1>3, <1>4 DEF Init, TypeOK

\* An update gives an issue the fields of another one.
LEMMA WrittenType ==
  ASSUME TrackersOK, NEW issue \in Issues, NEW fields, NEW source,
         source.title \in Titles, source.desc \in Nat
  PROVE  Written(issue, fields, source) \in Issues
BY DEF TrackersOK, Written, Issues

\* A mirror replaced by another issue leaves the list of mirrors as long.
LEMMA MirrorReplaced ==
  ASSUME TrackersOK, NEW m \in DOMAIN mirrors, NEW issue \in Issues
  PROVE  /\ [mirrors EXCEPT ![m] = issue] \in Seq(Issues)
         /\ DOMAIN [mirrors EXCEPT ![m] = issue] = DOMAIN mirrors
         /\ Len([mirrors EXCEPT ![m] = issue]) = Len(mirrors)
BY DEF TrackersOK

\* What a step does to pointers when it changes only what a goroutine knows.
LEMMA TrackersFrame ==
  ASSUME TrackersOK, UNCHANGED <<clock, trackers>>
  PROVE  TrackersOK' /\ DOMAIN mirrors' = DOMAIN mirrors
BY DEF TrackersOK, trackers, Issues, Titles, Births

\* Steps of a goroutine that leave Jira and GitLab alone.
LEMMA QuietTypeOK ==
  ASSUME TypeOK, NEW e \in Events,
         \/ Skip(e) \/ Process(e) \/ LookExists(e) \/ LookNew(e)
         \/ LookBlind(e) \/ FindFails(e) \/ Find(e) \/ FindNone(e)
         \/ CommentNowhere(e) \/ Agree(e) \/ Detect(e) \/ AddConflict(e)
         \/ AddConflictTwice(e) \/ Settle(e) \/ SettleFailed(e) \/ UpdateNothing(e)
         \/ Finish(e) \/ FinishNil(e) \/ PersonResolves(e) \/ RemoveConflict(e)
  PROVE  TypeOK'
<1> USE DEF Runs, Goto, Places, Lapse, Resolved, searches, queueVars, Created, CreatePlace
<1>1. CASE Skip(e)
  <2>1. TrackersOK' /\ DOMAIN mirrors' = DOMAIN mirrors
    BY <1>1, TrackersFrame DEF TypeOK, Skip
  <2>2. GoroutinesOK'
    BY <1>1 DEF TypeOK, GoroutinesOK, Skip
  <2>3. ConflictsOK'
    BY <1>1 DEF TypeOK, ConflictsOK, Skip
  <2>4. PointersOK'
    BY <1>1, <2>1 DEF TypeOK, PointersOK, GoroutinesOK, Skip
  <2> QED BY <1>1, <2>1, <2>2, <2>3, <2>4 DEF TypeOK, Skip
<1>2. CASE Process(e)
  <2>1. TrackersOK' /\ DOMAIN mirrors' = DOMAIN mirrors
    BY <1>2, TrackersFrame DEF TypeOK, Process
  <2>2. GoroutinesOK'
    BY <1>2 DEF TypeOK, GoroutinesOK, Process
  <2>3. ConflictsOK'
    BY <1>2 DEF TypeOK, ConflictsOK, Process
  <2>4. PointersOK'
    BY <1>2, <2>1 DEF TypeOK, PointersOK, GoroutinesOK, Process
  <2> QED BY <1>2, <2>1, <2>2, <2>3, <2>4 DEF TypeOK, Process
<1>3. CASE LookExists(e)
  <2>1. TrackersOK' /\ DOMAIN mirrors' = DOMAIN mirrors
    BY <1>3, TrackersFrame DEF TypeOK, LookExists
  <2>2. GoroutinesOK'
    BY <1>3 DEF TypeOK, GoroutinesOK, LookExists
  <2>3. ConflictsOK'
    BY <1>3 DEF TypeOK, ConflictsOK, LookExists
  <2>4. PointersOK'
    BY <1>3, <2>1 DEF TypeOK, PointersOK, GoroutinesOK, LookExists
  <2> QED BY <1>3, <2>1, <2>2, <2>3, <2>4 DEF TypeOK, LookExists
<1>4. CASE LookNew(e)
  <2>1. TrackersOK' /\ DOMAIN mirrors' = DOMAIN mirrors
    BY <1>4, TrackersFrame DEF TypeOK, LookNew
  <2>2. GoroutinesOK'
    BY <1>4 DEF TypeOK, GoroutinesOK, LookNew, TrackersOK, PointersOK, Matches, Issues
  <2>3. ConflictsOK'
    BY <1>4 DEF TypeOK, ConflictsOK, LookNew
  <2>4. PointersOK'
    BY <1>4, <2>1 DEF TypeOK, PointersOK, GoroutinesOK, LookNew
  <2> QED BY <1>4, <2>1, <2>2, <2>3, <2>4 DEF TypeOK, LookNew
<1>5. CASE LookBlind(e)
  <2>1. TrackersOK' /\ DOMAIN mirrors' = DOMAIN mirrors
    BY <1>5, TrackersFrame DEF TypeOK, LookBlind
  <2>2. GoroutinesOK'
    BY <1>5 DEF TypeOK, GoroutinesOK, LookBlind
  <2>3. ConflictsOK'
    BY <1>5 DEF TypeOK, ConflictsOK, LookBlind
  <2>4. PointersOK'
    BY <1>5, <2>1 DEF TypeOK, PointersOK, GoroutinesOK, LookBlind
  <2> QED BY <1>5, <2>1, <2>2, <2>3, <2>4 DEF TypeOK, LookBlind
<1>6. CASE FindFails(e)
  <2>1. TrackersOK' /\ DOMAIN mirrors' = DOMAIN mirrors
    BY <1>6, TrackersFrame DEF TypeOK, FindFails
  <2>2. GoroutinesOK'
    BY <1>6 DEF TypeOK, GoroutinesOK, FindFails
  <2>3. ConflictsOK'
    BY <1>6 DEF TypeOK, ConflictsOK, FindFails
  <2>4. PointersOK'
    BY <1>6, <2>1 DEF TypeOK, PointersOK, GoroutinesOK, FindFails
  <2> QED BY <1>6, <2>1, <2>2, <2>3, <2>4 DEF TypeOK, FindFails
<1>7. CASE Find(e)
  <2>1. TrackersOK' /\ DOMAIN mirrors' = DOMAIN mirrors
    BY <1>7, TrackersFrame DEF TypeOK, Find
  <2>m. PICK m \in Matches(e) :
          found' = [found EXCEPT ![e] = [id |-> m, title |-> mirrors[m].title,
                               desc |-> mirrors[m].desc, updated |-> mirrors[m].updated]]
    BY <1>7 DEF Find
  <2>n. m \in DOMAIN mirrors /\ m \in Nat \ {0} /\ mirrors[m] \in Issues
    BY DEF TypeOK, TrackersOK, Matches
  <2>r. [id |-> m, title |-> mirrors[m].title, desc |-> mirrors[m].desc,
         updated |-> mirrors[m].updated]
          \in [id : Nat \ {0}, title : Titles, desc : Nat, updated : 0..MaxTime]
    BY <2>n DEF Issues
  <2>2. GoroutinesOK'
    BY <1>7, <2>m, <2>r DEF TypeOK, GoroutinesOK, Find
  <2>3. ConflictsOK'
    BY <1>7 DEF TypeOK, ConflictsOK, Find
  <2>4. PointersOK'
    BY <1>7, <2>1, <2>m, <2>n DEF TypeOK, PointersOK, GoroutinesOK, Find, NoIssue
  <2> QED BY <1>7, <2>1, <2>2, <2>3, <2>4 DEF TypeOK, Find
<1>8. CASE FindNone(e)
  <2>1. TrackersOK' /\ DOMAIN mirrors' = DOMAIN mirrors
    BY <1>8, TrackersFrame DEF TypeOK, FindNone
  <2>2. GoroutinesOK'
    BY <1>8 DEF TypeOK, GoroutinesOK, FindNone
  <2>3. ConflictsOK'
    BY <1>8 DEF TypeOK, ConflictsOK, FindNone
  <2>4. PointersOK'
    BY <1>8, <2>1 DEF TypeOK, PointersOK, GoroutinesOK, FindNone
  <2> QED BY <1>8, <2>1, <2>2, <2>3, <2>4 DEF TypeOK, FindNone
<1>9. CASE CommentNowhere(e)
  <2>1. TrackersOK' /\ DOMAIN mirrors' = DOMAIN mirrors
    BY <1>9, TrackersFrame DEF TypeOK, CommentNowhere
  <2>2. GoroutinesOK'
    BY <1>9 DEF TypeOK, GoroutinesOK, CommentNowhere
  <2>3. ConflictsOK'
    BY <1>9 DEF TypeOK, ConflictsOK, CommentNowhere
  <2>4. PointersOK'
    BY <1>9, <2>1 DEF TypeOK, PointersOK, GoroutinesOK, CommentNowhere
  <2> QED BY <1>9, <2>1, <2>2, <2>3, <2>4 DEF TypeOK, CommentNowhere
<1>10. CASE Agree(e)
  <2>1. TrackersOK' /\ DOMAIN mirrors' = DOMAIN mirrors
    BY <1>10, TrackersFrame DEF TypeOK, Agree
  <2>2. GoroutinesOK'
    BY <1>10 DEF TypeOK, GoroutinesOK, Agree
  <2>3. ConflictsOK'
    BY <1>10 DEF TypeOK, ConflictsOK, Agree
  <2>4. PointersOK'
    BY <1>10, <2>1 DEF TypeOK, PointersOK, GoroutinesOK, Agree
  <2> QED BY <1>10, <2>1, <2>2, <2>3, <2>4 DEF TypeOK, Agree
<1>11. CASE Detect(e)
  <2>1. TrackersOK' /\ DOMAIN mirrors' = DOMAIN mirrors
    BY <1>11, TrackersFrame DEF TypeOK, Detect
  <2>2. GoroutinesOK'
    BY <1>11 DEF TypeOK, GoroutinesOK, Detect
  <2>3. ConflictsOK'
    BY <1>11 DEF TypeOK, ConflictsOK, Detect, GoroutinesOK, PointersOK, TrackersOK
  <2>4. PointersOK'
    BY <1>11, <2>1 DEF TypeOK, PointersOK, GoroutinesOK, Detect
  <2> QED BY <1>11, <2>1, <2>2, <2>3, <2>4 DEF TypeOK, Detect
<1>12. CASE AddConflict(e)
  <2>1. TrackersOK' /\ DOMAIN mirrors' = DOMAIN mirrors
    BY <1>12, TrackersFrame DEF TypeOK, AddConflict
  <2>2. GoroutinesOK'
    BY <1>12 DEF TypeOK, GoroutinesOK, AddConflict
  <2>3. ConflictsOK'
    BY <1>12 DEF TypeOK, ConflictsOK, AddConflict
  <2>4. PointersOK'
    BY <1>12, <2>1 DEF TypeOK, PointersOK, GoroutinesOK, AddConflict
  <2> QED BY <1>12, <2>1, <2>2, <2>3, <2>4 DEF TypeOK, AddConflict
<1>13. CASE AddConflictTwice(e)
  <2>1. TrackersOK' /\ DOMAIN mirrors' = DOMAIN mirrors
    BY <1>13, TrackersFrame DEF TypeOK, AddConflictTwice
  <2>2. GoroutinesOK'
    BY <1>13 DEF TypeOK, GoroutinesOK, AddConflictTwice
  <2>3. ConflictsOK'
    BY <1>13 DEF TypeOK, ConflictsOK, AddConflictTwice
  <2>4. PointersOK'
    BY <1>13, <2>1 DEF TypeOK, PointersOK, GoroutinesOK, AddConflictTwice
  <2> QED BY <1>13, <2>1, <2>2, <2>3, <2>4 DEF TypeOK, AddConflictTwice
<1>14. CASE Settle(e)
  <2>1. TrackersOK' /\ DOMAIN mirrors' = DOMAIN mirrors
    BY <1>14, TrackersFrame DEF TypeOK, Settle
  <2>2. GoroutinesOK'
    BY <1>14 DEF TypeOK, GoroutinesOK, Settle
  <2>3. ConflictsOK'
    BY <1>14, ZenonT(60) DEF TypeOK, ConflictsOK, Settle
  <2>4. PointersOK'
    BY <1>14, <2>1 DEF TypeOK, PointersOK, GoroutinesOK, Settle
  <2> QED BY <1>14, <2>1, <2>2, <2>3, <2>4 DEF TypeOK, Settle
<1>15. CASE SettleFailed(e)
  <2>1. TrackersOK' /\ DOMAIN mirrors' = DOMAIN mirrors
    BY <1>15, TrackersFrame DEF TypeOK, SettleFailed
  <2>2. GoroutinesOK'
    BY <1>15 DEF TypeOK, GoroutinesOK, SettleFailed
  <2>3. ConflictsOK'
    BY <1>15 DEF TypeOK, ConflictsOK, SettleFailed
  <2>4. PointersOK'
    BY <1>15, <2>1 DEF TypeOK, PointersOK, GoroutinesOK, SettleFailed
  <2> QED BY <1>15, <2>1, <2>2, <2>3, <2>4 DEF TypeOK, SettleFailed
<1>16. CASE UpdateNothing(e)
  <2>1. TrackersOK' /\ DOMAIN mirrors' = DOMAIN mirrors
    BY <1>16, TrackersFrame DEF TypeOK, UpdateNothing
  <2>2. GoroutinesOK'
    BY <1>16 DEF TypeOK, GoroutinesOK, UpdateNothing
  <2>3. ConflictsOK'
    BY <1>16 DEF TypeOK, ConflictsOK, UpdateNothing
  <2>4. PointersOK'
    BY <1>16, <2>1 DEF TypeOK, PointersOK, GoroutinesOK, UpdateNothing
  <2> QED BY <1>16, <2>1, <2>2, <2>3, <2>4 DEF TypeOK, UpdateNothing
<1>17. CASE Finish(e)
  <2>1. TrackersOK' /\ DOMAIN mirrors' = DOMAIN mirrors
    BY <1>17, TrackersFrame DEF TypeOK, Finish
  <2>2. GoroutinesOK'
    BY <1>17 DEF TypeOK, GoroutinesOK, Finish
  <2>3. ConflictsOK'
    BY <1>17 DEF TypeOK, ConflictsOK, Finish
  <2>4. PointersOK'
    BY <1>17, <2>1 DEF TypeOK, PointersOK, GoroutinesOK, Finish
  <2> QED BY <1>17, <2>1, <2>2, <2>3, <2>4 DEF TypeOK, Finish
<1>18. CASE FinishNil(e)
  <2>1. TrackersOK' /\ DOMAIN mirrors' = DOMAIN mirrors
    BY <1>18, TrackersFrame DEF TypeOK, FinishNil
  <2>2. GoroutinesOK'
    BY <1>18 DEF TypeOK, GoroutinesOK, FinishNil
  <2>3. ConflictsOK'
    BY <1>18 DEF TypeOK, ConflictsOK, FinishNil
  <2>4. PointersOK'
    BY <1>18, <2>1 DEF TypeOK, PointersOK, GoroutinesOK, FinishNil
  <2> QED BY <1>18, <2>1, <2>2, <2>3, <2>4 DEF TypeOK, FinishNil
<1>19. CASE PersonResolves(e)
  <2>1. TrackersOK' /\ DOMAIN mirrors' = DOMAIN mirrors
    BY <1>19, TrackersFrame DEF TypeOK, PersonResolves
  <2>2. GoroutinesOK'
    BY <1>19 DEF TypeOK, GoroutinesOK, PersonResolves
  <2>3. ConflictsOK'
    BY <1>19, ZenonT(60) DEF TypeOK, ConflictsOK, PersonResolves
  <2>4. PointersOK'
    BY <1>19, <2>1 DEF TypeOK, PointersOK, GoroutinesOK, PersonResolves
  <2> QED BY <1>19, <2>1, <2>2, <2>3, <2>4 DEF TypeOK, PersonResolves
<1>20. CASE RemoveConflict(e)
  <2>1. TrackersOK' /\ DOMAIN mirrors' = DOMAIN mirrors
    BY <1>20, TrackersFrame DEF TypeOK, RemoveConflict
  <2>2. GoroutinesOK'
    BY <1>20 DEF TypeOK, GoroutinesOK, RemoveConflict
  <2>3. ConflictsOK'
    BY <1>20 DEF TypeOK, ConflictsOK, RemoveConflict
  <2>4. PointersOK'
    BY <1>20, <2>1 DEF TypeOK, PointersOK, GoroutinesOK, RemoveConflict
  <2> QED BY <1>20, <2>1, <2>2, <2>3, <2>4 DEF TypeOK, RemoveConflict
<1> QED BY <1>1, <1>2, <1>3, <1>4, <1>5, <1>6, <1>7, <1>8, <1>9, <1>10, <1>11, <1>12, <1>13, <1>14, <1>15, <1>16, <1>17, <1>18, <1>19, <1>20

\* Writes to Jira and GitLab: what they leave of the trackers and pointers.
LEMMA WriteTypeOK ==
  ASSUME TypeOK, NEW e \in Events, TrackersOK', DOMAIN mirrors \subseteq DOMAIN mirrors',
         at'[e] # "none", at' \in [Events -> Places], err' \in [Events -> BOOLEAN],
         \A f \in Events : f # e => at'[f] = at[f],
         at'[e] \in {"detecting", "resolving", "merging", "settling", "updating"} => found[e] # NoIssue,
         at[e] # "none", lapsed' \in SUBSET Events,
         UNCHANGED <<strategy, event, found, queueVars, outcome, process, searches>>
  PROVE  TypeOK'
<1>1. GoroutinesOK' /\ ConflictsOK'
  BY DEF TypeOK, GoroutinesOK, ConflictsOK, searches, queueVars
<1>2. PointersOK'
  BY DEF TypeOK, PointersOK
<1> QED BY <1>1, <1>2 DEF TypeOK

LEMMA WritingTypeOK ==
  ASSUME TypeOK, NEW e \in Events,
         \/ CreateIssue(e) \/ JiraWins(e) \/ GitLabWins(e) \/ MergeToGitLab(e)
         \/ MergeToJira(e) \/ Update(e)
  PROVE  TypeOK'
<1> USE DEF Runs, Goto, Places, Lapse
<1>a. at \in [Events -> Places] /\ err \in [Events -> BOOLEAN] /\ lapsed \in SUBSET Events
  BY DEF TypeOK, GoroutinesOK
<1>b. \A answer \in Answers : Failed(answer) \in BOOLEAN
  BY DEF Failed
<1>c. at[e] # "none" => event[e].title \in Titles /\ event[e].desc \in Nat
  BY DEF TypeOK, GoroutinesOK, PointersOK
<1>d. found[e] # NoIssue => /\ found[e].title \in Titles /\ found[e].desc \in Nat
                            /\ found[e].id \in DOMAIN mirrors
  BY DEF TypeOK, GoroutinesOK, PointersOK
<1>e. at[e] \in {"resolving", "merging", "updating"} => found[e] # NoIssue
  BY DEF TypeOK, PointersOK
<1>f. ASSUME at[e] \in {"resolving", "merging"}
      PROVE  /\ at[e] = "resolving" =>
                  \A source \in {event[e], Newer(e)} :
                    Written(mirrors[found[e].id], Conflicting(e), source) \in Issues
             /\ \A source \in {found[e], Newer(e)} :
                  Written(jira, Conflicting(e), source) \in Issues
  <2>1. \A source \in {event[e], found[e], Newer(e)} : source.title \in Titles /\ source.desc \in Nat
    BY <1>c, <1>d, <1>e, <1>f DEF Newer
  <2>2. mirrors[found[e].id] \in Issues /\ jira \in Issues /\ TrackersOK
    BY <1>d, <1>e, <1>f DEF TypeOK, TrackersOK
  <2> QED BY <2>1, <2>2, WrittenType
<1>1. CASE CreateIssue(e)
  <2>1. PICK answer \in Answers :
          /\ IF Done(answer)
               THEN /\ mirrors' = Append(mirrors, Mirror(event[e]))
                    /\ births' = Append(births, [title |-> Tagged(event[e].title), by |-> e])
               ELSE UNCHANGED <<mirrors, births>>
          /\ Lapse(e, Failed(answer))
          /\ at' = [at EXCEPT ![e] = IF Failed(answer) THEN "done" ELSE Created(e)]
    BY <1>1 DEF CreateIssue
  <2>t. Tagged(event[e].title) \in Titles
    BY <1>1, <1>c DEF CreateIssue, Tagged, Titles
  <2>u. event[e].desc + 1 \in Nat /\ clock \in 0..MaxTime
    BY <1>1, <1>c DEF CreateIssue, TypeOK, TrackersOK
  <2>2. Mirror(event[e]) \in Issues
    BY <2>t, <2>u DEF Mirror, Wrapped, Issues
  <2>3. TrackersOK' /\ DOMAIN mirrors \subseteq DOMAIN mirrors'
    <3>1. CASE Done(answer)
      <4>1. [title |-> Tagged(event[e].title), by |-> e] \in Births
        BY <2>t DEF Births
      <4>2. /\ mirrors' \in Seq(Issues) /\ Len(mirrors') = Len(mirrors) + 1
            /\ births' \in Seq(Births)
            /\ Len(births') = Len(births) + 1
        <5>1. mirrors \in Seq(Issues) /\ births \in Seq(Births)
          BY DEF TypeOK, TrackersOK
        <5>2. /\ mirrors' = Append(mirrors, Mirror(event[e]))
              /\ births' = Append(births, [title |-> Tagged(event[e].title), by |-> e])
          BY <2>1, <3>1
        <5>3. mirrors' \in Seq(Issues) /\ Len(mirrors') = Len(mirrors) + 1
          BY <5>1, <5>2, <2>2
        <5> QED BY <5>1, <5>2, <5>3, <4>1
      <4>3. DOMAIN mirrors = 1..Len(mirrors) /\ DOMAIN mirrors' = 1..Len(mirrors')
            /\ Len(mirrors) \in Nat
        BY <4>2 DEF TypeOK, TrackersOK
      <4> QED BY <1>1, <4>2, <4>3 DEF CreateIssue, TypeOK, TrackersOK, Issues, Titles, Births
    <3>2. CASE ~Done(answer)
      BY <1>1, <2>1, <3>2 DEF CreateIssue, TypeOK, TrackersOK, Issues, Titles, Births
    <3> QED BY <3>1, <3>2
  <2>4. at'[e] \in {"done", "finishing"}
    BY <1>a, <2>1 DEF Created
  <2>5. /\ at' \in [Events -> Places] /\ err' \in [Events -> BOOLEAN] /\ lapsed' \in SUBSET Events
        /\ \A f \in Events : f # e => at'[f] = at[f]
    BY <1>a, <1>b, <2>1 DEF Created
  <2> QED BY <1>1, <2>3, <2>4, <2>5, WriteTypeOK DEF CreateIssue
<1>2. CASE JiraWins(e) \/ MergeToGitLab(e)
  <2>1. PICK answer \in Answers, source \in {event[e], Newer(e)} :
          /\ IF Done(answer) THEN UpdateMirror(e, Conflicting(e), source)
                          ELSE UNCHANGED <<mirrors, moved>>
          /\ Lapse(e, Failed(answer))
    BY <1>2 DEF JiraWins, MergeToGitLab
  <2>2. at[e] = "resolving" /\ UNCHANGED <<clock, jira, births>>
    BY <1>2 DEF JiraWins, MergeToGitLab
  <2>3. Written(mirrors[found[e].id], Conflicting(e), source) \in Issues
    BY <1>f, <2>2
  <2>4. mirrors' \in Seq(Issues) /\ DOMAIN mirrors' = DOMAIN mirrors /\ Len(mirrors') = Len(mirrors)
    <3>1. TrackersOK /\ found[e].id \in DOMAIN mirrors
      BY <1>d, <1>e, <2>2 DEF TypeOK
    <3>2. \/ mirrors' = mirrors
          \/ mirrors' = [mirrors EXCEPT ![found[e].id] =
                                Written(mirrors[found[e].id], Conflicting(e), source)]
      BY <2>1 DEF UpdateMirror
    <3> QED BY <2>3, <3>1, <3>2, MirrorReplaced DEF TrackersOK
  <2>5. TrackersOK'
    BY <2>2, <2>4 DEF TypeOK, TrackersOK, Issues, Titles, Births
  <2>6. at' \in [Events -> Places] /\ at'[e] \in {"settling", "merging"}
        /\ \A f \in Events : f # e => at'[f] = at[f]
    BY <1>a, <1>2 DEF JiraWins, MergeToGitLab
  <2>7. err' \in [Events -> BOOLEAN] /\ lapsed' \in SUBSET Events
    BY <1>a, <1>b, <2>1
  <2> QED BY <1>2, <1>e, <2>2, <2>4, <2>5, <2>6, <2>7, WriteTypeOK DEF JiraWins, MergeToGitLab
<1>3. CASE GitLabWins(e) \/ MergeToJira(e)
  <2>1. PICK answer \in Answers, source \in {found[e], Newer(e)} :
          /\ jira' = IF Done(answer) THEN Written(jira, Conflicting(e), source) ELSE jira
          /\ Lapse(e, Failed(answer))
    BY <1>3 DEF GitLabWins, MergeToJira
  <2>2. at[e] \in {"resolving", "merging"} /\ UNCHANGED <<clock, mirrors, births>>
    BY <1>3 DEF GitLabWins, MergeToJira
  <2>3. jira' \in Issues
    BY <1>f, <2>1, <2>2 DEF TypeOK, TrackersOK
  <2>4. TrackersOK' /\ DOMAIN mirrors' = DOMAIN mirrors
    BY <2>2, <2>3 DEF TypeOK, TrackersOK, Issues, Titles, Births
  <2>5. at' \in [Events -> Places] /\ at'[e] = "settling" /\ \A f \in Events : f # e => at'[f] = at[f]
    BY <1>a, <1>3 DEF GitLabWins, MergeToJira
  <2>6. err' \in [Events -> BOOLEAN] /\ lapsed' \in SUBSET Events
    BY <1>a, <1>b, <2>1
  <2> QED BY <1>3, <1>e, <2>2, <2>4, <2>5, <2>6, WriteTypeOK DEF GitLabWins, MergeToJira
<1>4. CASE Update(e)
  <2>1. PICK answer \in Answers :
          /\ mirrors' = IF Done(answer) THEN [mirrors EXCEPT ![found[e].id].updated = clock]
                                     ELSE mirrors
          /\ Lapse(e, Failed(answer))
    BY <1>4 DEF Update
  <2>2. found[e].id \in DOMAIN mirrors
    BY <1>4, <1>d, <1>e DEF Update
  <2>3. [mirrors[found[e].id] EXCEPT !.updated = clock] \in Issues
    <3>1. mirrors[found[e].id] \in Issues /\ clock \in 0..MaxTime
      BY <2>2 DEF TypeOK, TrackersOK
    <3> QED BY <3>1 DEF Issues
  <2>4. mirrors' \in Seq(Issues) /\ DOMAIN mirrors' = DOMAIN mirrors /\ Len(mirrors') = Len(mirrors)
    BY <2>1, <2>2, <2>3, MirrorReplaced DEF TypeOK, TrackersOK
  <2>5. TrackersOK'
    BY <1>4, <2>4 DEF Update, TypeOK, TrackersOK, Issues, Titles, Births
  <2>6. at' \in [Events -> Places] /\ at'[e] \in {"done", "finishing"}
        /\ \A f \in Events : f # e => at'[f] = at[f]
    BY <1>a, <1>4 DEF Update
  <2>7. err' \in [Events -> BOOLEAN] /\ lapsed' \in SUBSET Events
    BY <1>a, <1>b, <2>1
  <2> QED BY <1>4, <2>4, <2>5, <2>6, <2>7, WriteTypeOK DEF Update
<1> QED BY <1>1, <1>2, <1>3, <1>4

\* Time, and what users of the two trackers do.
LEMMA OutsideTypeOK ==
  ASSUME TypeOK,
         \/ TimePasses
         \/ \E b \in Bases : JiraEdit(b)
         \/ \E m \in DOMAIN mirrors, b \in Bases : GitLabEdit(m, b)
  PROVE  TypeOK'
<1>1. UNCHANGED <<strategy, at, event, found, err, queueVars, outcome, process, searches, lapsed>>
  BY DEF TimePasses, JiraEdit, GitLabEdit
<1>2. clock' \in 0..MaxTime
  <2>1. Tick
    BY DEF TimePasses, JiraEdit, GitLabEdit
  <2>2. clock \in 0..MaxTime /\ MaxTime \in Nat
    BY SyncAssumption DEF TypeOK, TrackersOK
  <2> QED BY <2>1, <2>2 DEF Tick
<1>3. TrackersOK' /\ DOMAIN mirrors' = DOMAIN mirrors
  <2>1. CASE TimePasses
    BY <1>2, <2>1 DEF TypeOK, TrackersOK, TimePasses, trackers, Issues, Titles, Births
  <2>2. CASE \E b \in Bases : JiraEdit(b)
    <3>1. PICK b \in Bases : /\ jira' = [jira EXCEPT !.title = [tags |-> 0, base |-> b],
                                                  !.updated = clock']
                            /\ UNCHANGED <<mirrors, births>>
      BY <2>2 DEF JiraEdit
    <3>2. [tags |-> 0, base |-> b] \in Titles /\ jira \in Issues
      BY DEF TypeOK, TrackersOK, Titles
    <3>3. jira' \in Issues
      BY <1>2, <3>1, <3>2 DEF Issues
    <3> QED BY <1>2, <3>1, <3>3 DEF TypeOK, TrackersOK, Issues, Titles, Births
  <2>3. CASE \E m \in DOMAIN mirrors, b \in Bases : GitLabEdit(m, b)
    <3>1. PICK m \in DOMAIN mirrors, b \in Bases : GitLabEdit(m, b)
      BY <2>3
    <3>2. mirrors[m] \in Issues
      BY DEF TypeOK, TrackersOK
    <3>3. /\ [mirrors[m] EXCEPT !.title = [tags |-> 1, base |-> b], !.updated = clock'] \in Issues
          /\ [mirrors[m] EXCEPT !.desc = 0, !.updated = clock'] \in Issues
      BY <1>2, <3>2 DEF Issues, Titles
    <3>4. PICK issue \in Issues : mirrors' = [mirrors EXCEPT ![m] = issue]
      BY <3>1, <3>3, ZenonT(60) DEF GitLabEdit
    <3>5. mirrors' \in Seq(Issues) /\ DOMAIN mirrors' = DOMAIN mirrors /\ Len(mirrors') = Len(mirrors)
      BY <3>4, MirrorReplaced DEF TypeOK
    <3>6. UNCHANGED <<jira, births>>
      BY <3>1 DEF GitLabEdit
    <3> QED BY <1>2, <3>5, <3>6 DEF TypeOK, TrackersOK, Issues, Titles, Births
  <2> QED BY <2>1, <2>2, <2>3
<1>4. GoroutinesOK' /\ ConflictsOK'
  BY <1>1 DEF TypeOK, GoroutinesOK, ConflictsOK, searches, queueVars
<1>5. PointersOK'
  BY <1>1, <1>3 DEF TypeOK, PointersOK
<1> QED BY <1>1, <1>3, <1>4, <1>5 DEF TypeOK

LEMMA NextTypeOK == TypeOK /\ [Next]_vars => TypeOK'
<1> SUFFICES ASSUME TypeOK, [Next]_vars PROVE TypeOK'
  OBVIOUS
<1>1. ASSUME NEW e \in Events, NEW kind \in Kinds, JiraSends(e, kind)
      PROVE  TypeOK'
  <2>1. TrackersOK' /\ DOMAIN mirrors' = DOMAIN mirrors
    BY <1>1, TrackersFrame DEF TypeOK, JiraSends
  <2>2. event'[e] \in [kind : Kinds, title : Titles, desc : Nat, updated : 0..MaxTime]
        /\ event'[e] # NoEvent
    BY <1>1 DEF TypeOK, TrackersOK, GoroutinesOK, JiraSends, Issues, NoEvent, Kinds
  <2>3. /\ event' = [event EXCEPT ![e] = event'[e]]
        /\ at' = [at EXCEPT ![e] = "queued"]
        /\ UNCHANGED <<strategy, found, err, queueVars, outcome, process, searches, lapsed>>
    BY <1>1 DEF TypeOK, GoroutinesOK, JiraSends
  <2>4. GoroutinesOK' /\ ConflictsOK'
    BY <2>2, <2>3 DEF TypeOK, GoroutinesOK, ConflictsOK, searches, queueVars, Places
  <2>5. PointersOK'
    BY <2>1, <2>2, <2>3 DEF TypeOK, PointersOK, GoroutinesOK
  <2> QED BY <2>1, <2>3, <2>4, <2>5 DEF TypeOK
<1>2. CASE Restart
  <2>1. TrackersOK' /\ DOMAIN mirrors' = DOMAIN mirrors
    BY <1>2, TrackersFrame DEF TypeOK, Restart
  <2>2. GoroutinesOK'
    BY <1>2 DEF TypeOK, GoroutinesOK, Restart, searches, Places
  <2>3. ConflictsOK'
    BY <1>2 DEF ConflictsOK, Restart, NoConflict
  <2>4. PointersOK'
    BY <1>2 DEF TypeOK, PointersOK, Restart
  <2> QED BY <1>2, <2>1, <2>2, <2>3, <2>4 DEF TypeOK, Restart
<1>3. CASE UNCHANGED vars
  BY <1>3 DEF vars, TypeOK, TrackersOK, GoroutinesOK, ConflictsOK, PointersOK,
              Issues, Titles, Births
<1> QED
  BY <1>1, <1>2, <1>3, OutsideTypeOK, QuietTypeOK, WritingTypeOK DEF Next, Step, Look, Resolve

\* Whatever users do to the two trackers between the calls of an event, and
\* whenever the process dies, the handlers of bidirectional.go and the resolver
\* follow no nil pointer before the end of an update.
THEOREM TypeCorrect == Spec => []TypeOK
<1> QED BY InitTypeOK, NextTypeOK, PTL DEF Spec

-----------------------------------------------------------------------------
(* What a recorded success means                                           *)

\* A write that returned an error is remembered in err until the outcome of the
\* event is recorded, and after that the event takes no further step.
LapseKept(e) ==
  /\ e \in lapsed => \/ at[e] \in {"done", "lost"}
                     \/ err[e] /\ at[e] \in {"settling", "finishing"}
  /\ outcome[e] = "success" => at[e] = "done" /\ e \notin lapsed

LapseInv == TypeOK /\ \A e \in Events : LapseKept(e)

\* The step of one event's goroutine leaves the records of the others alone.
LEMMA OthersKeptLapse ==
  ASSUME TypeOK, NEW e \in Events, NEW f \in Events \ {e}, Step(f), LapseKept(e)
  PROVE  LapseKept(e)'
<1> USE DEF Goto, Lapse, Runs, GoroutinesOK
<1>1. /\ at \in [Events -> Places] /\ err \in [Events -> BOOLEAN]
      /\ outcome \in [Events -> {"none", "create", "failed", "success"}]
  BY DEF TypeOK
<1>2. at'[e] = at[e]
  BY <1>1 DEF Step, Look, Resolve, Skip, Process, LookExists, LookNew, LookBlind, CreateIssue,
       FindFails, Find, FindNone, CommentNowhere, Agree, Detect, JiraWins, GitLabWins,
       MergeToGitLab, MergeToJira, AddConflict, AddConflictTwice, Settle, SettleFailed,
       Update, UpdateNothing, Finish, FinishNil
<1>3. err'[e] = err[e] /\ (e \in lapsed' <=> e \in lapsed)
  BY <1>1 DEF Step, Look, Resolve, Skip, Process, LookExists, LookNew, LookBlind, CreateIssue,
       FindFails, Find, FindNone, CommentNowhere, Agree, Detect, JiraWins, GitLabWins,
       MergeToGitLab, MergeToJira, AddConflict, AddConflictTwice, Settle, SettleFailed,
       Update, UpdateNothing, Finish, FinishNil
<1>4. outcome'[e] = outcome[e]
  BY <1>1 DEF Step, Look, Resolve, Skip, Process, LookExists, LookNew, LookBlind, CreateIssue,
       FindFails, Find, FindNone, CommentNowhere, Agree, Detect, JiraWins, GitLabWins,
       MergeToGitLab, MergeToJira, AddConflict, AddConflictTwice, Settle, SettleFailed,
       Update, UpdateNothing, Finish, FinishNil
<1> QED BY <1>2, <1>3, <1>4 DEF LapseKept

\* The step of an event's own goroutine.
LEMMA OwnKeptLapse ==
  ASSUME TypeOK, NEW e \in Events, Step(e), LapseKept(e)
  PROVE  LapseKept(e)'
<1> USE DEF Goto, Lapse, Runs, LapseKept
<1>0. /\ at \in [Events -> Places] /\ err \in [Events -> BOOLEAN]
      /\ outcome \in [Events -> {"none", "create", "failed", "success"}]
  BY DEF TypeOK, GoroutinesOK
<1>1. CASE \/ Skip(e) \/ Process(e) \/ LookExists(e) \/ LookNew(e) \/ LookBlind(e)
           \/ Find(e) \/ CommentNowhere(e) \/ Agree(e) \/ Detect(e) \/ AddConflict(e)
           \/ Settle(e) \/ UpdateNothing(e) \/ FinishNil(e)
  BY <1>0, <1>1 DEF Skip, Process, LookExists, LookNew, LookBlind, Find, CommentNowhere,
       Agree, Detect, AddConflict, Settle, UpdateNothing, FinishNil, CreatePlace
<1>2. CASE FindFails(e) \/ FindNone(e) \/ SettleFailed(e)
  BY <1>0, <1>2 DEF FindFails, FindNone, SettleFailed
<1>3. CASE CreateIssue(e)
  BY <1>0, <1>3 DEF CreateIssue
<1>4. CASE JiraWins(e) \/ GitLabWins(e) \/ MergeToJira(e) \/ AddConflictTwice(e)
  BY <1>0, <1>4 DEF JiraWins, GitLabWins, MergeToJira, AddConflictTwice
<1>5. CASE MergeToGitLab(e)
  BY <1>0, <1>5 DEF MergeToGitLab
<1>6. CASE Update(e)
  BY <1>0, <1>6 DEF Update
<1>7. CASE Finish(e)
  BY <1>0, <1>7 DEF Finish
<1> QED BY <1>1, <1>2, <1>3, <1>4, <1>5, <1>6, <1>7 DEF Step, Look, Resolve

LEMMA NextLapse == LapseInv /\ [Next]_vars => LapseInv'
<1> SUFFICES ASSUME LapseInv, [Next]_vars, NEW e \in Events PROVE LapseKept(e)'
  BY NextTypeOK DEF LapseInv
<1> USE DEF LapseInv
<1>1. CASE \E f \in Events : Step(f)
  BY <1>1, OthersKeptLapse, OwnKeptLapse
<1>2. CASE Restart
  BY <1>2 DEF Restart, LapseKept
<1>3. ASSUME NEW f \in Events, NEW kind \in Kinds, JiraSends(f, kind)
      PROVE  LapseKept(e)'
  BY <1>3 DEF JiraSends, LapseKept, TypeOK, GoroutinesOK
<1>4. CASE UNCHANGED <<at, err, outcome, lapsed>>
  BY <1>4 DEF LapseKept
<1>5. CASE \/ TimePasses \/ (\E b \in Bases : JiraEdit(b))
           \/ (\E m \in DOMAIN mirrors, b \in Bases : GitLabEdit(m, b))
           \/ (\E f \in Events : PersonResolves(f) \/ RemoveConflict(f))
  BY <1>4, <1>5 DEF TimePasses, JiraEdit, GitLabEdit, PersonResolves, RemoveConflict
<1> QED BY <1>1, <1>2, <1>3, <1>4, <1>5 DEF Next, vars

\* An audit record of finalizeIssueUpdateAudit that says success belongs to an
\* event none of whose calls of GitLab or Jira returned an error, although the
\* error of a resolution and those of the updates take different ways there.
THEOREM SuccessMeansAllDone == Spec => []SuccessMeansDone
<1>1. Init => LapseInv
  BY InitTypeOK DEF Init, LapseInv, LapseKept
<1>2. LapseInv => SuccessMeansDone
  BY DEF LapseInv, LapseKept, SuccessMeansDone
<1> QED BY <1>1, <1>2, NextLapse, PTL DEF Spec

-----------------------------------------------------------------------------
(* The IDs in the manual queue                                             *)

\* A conflict enters the queue after the last change of its ID.
Settled == {"settling", "updating", "finishing", "done"}
QueuedSettled == \A e \in manual : at[e] \in Settled
QueueInv == TypeOK /\ QueuedSettled /\ DistinctConflicts

LEMMA QueueInvInit == Init => QueueInv
BY InitTypeOK DEF Init, QueueInv, DistinctConflicts, QueuedSettled

LEMMA NextQueue == QueueInv /\ [Next]_vars => QueueInv'
<1> SUFFICES ASSUME QueueInv, [Next]_vars
             PROVE  DistinctConflicts' /\ QueuedSettled'
  BY NextTypeOK DEF QueueInv
<1> USE DEF QueueInv, DistinctConflicts, QueuedSettled, Settled, Goto, Runs
<1>0. at \in [Events -> Places] /\ manual \in SUBSET Events
  BY DEF TypeOK, GoroutinesOK, ConflictsOK
<1>1. CASE UNCHANGED <<at, queueVars>>
  BY <1>1 DEF queueVars
<1>2. ASSUME NEW e \in Events,
             \/ Skip(e) \/ Process(e) \/ LookExists(e) \/ LookNew(e) \/ LookBlind(e)
             \/ CreateIssue(e) \/ FindFails(e) \/ Find(e) \/ FindNone(e)
             \/ CommentNowhere(e) \/ Agree(e) \/ JiraWins(e) \/ GitLabWins(e)
             \/ MergeToGitLab(e) \/ MergeToJira(e) \/ AddConflictTwice(e)
             \/ Update(e) \/ UpdateNothing(e) \/ Finish(e)
      PROVE  DistinctConflicts' /\ QueuedSettled'
  <2>1. UNCHANGED queueVars /\ \E to \in Places : at' = [at EXCEPT ![e] = to]
    BY <1>2 DEF Skip, Process, LookExists, LookNew, LookBlind, CreateIssue, FindFails, Find,
         FindNone, CommentNowhere, Agree, JiraWins, GitLabWins, MergeToGitLab, MergeToJira,
         AddConflictTwice, Update, UpdateNothing, Finish, Created, Places
  <2>2. at[e] \in Settled =>
          at'[e] \in Settled
    BY <1>0, <1>2 DEF Skip, Process, LookExists, LookNew, LookBlind, CreateIssue, FindFails, Find,
         FindNone, CommentNowhere, Agree, JiraWins, GitLabWins, MergeToGitLab, MergeToJira,
         AddConflictTwice, Update, UpdateNothing, Finish, Created, CreatePlace, Places
  <2> QED BY <1>0, <2>1, <2>2 DEF queueVars
<1>3. ASSUME NEW e \in Events, Detect(e)
      PROVE  DistinctConflicts' /\ QueuedSettled'
  <2>1. e \notin manual /\ manual' = manual
    BY <1>3 DEF Detect
  <2>2. \A f \in manual : conflict'[f] = conflict[f] /\ at'[f] = at[f]
    BY <1>0, <1>3, <2>1 DEF Detect, TypeOK, ConflictsOK
  <2> QED BY <2>1, <2>2
<1>4. ASSUME NEW e \in Events, AddConflict(e)
      PROVE  DistinctConflicts' /\ QueuedSettled'
  BY <1>0, <1>4 DEF AddConflict, Listed
<1>5. ASSUME NEW e \in Events, Settle(e) \/ SettleFailed(e)
      PROVE  DistinctConflicts' /\ QueuedSettled'
  <2>1. manual' = manual /\ \A f \in Events : conflict'[f].id = conflict[f].id
    BY <1>5 DEF Settle, SettleFailed, Resolved, TypeOK, ConflictsOK
  <2>2. \A f \in manual : at'[f] \in Settled
    BY <1>0, <1>5 DEF Settle, SettleFailed
  <2> QED BY <1>0, <2>1, <2>2
<1>6. ASSUME NEW e \in Events, PersonResolves(e) \/ RemoveConflict(e)
      PROVE  DistinctConflicts' /\ QueuedSettled'
  <2>1. at' = at /\ manual' \subseteq manual
    BY <1>6 DEF PersonResolves, RemoveConflict
  <2>2. \A f \in Events : conflict'[f].id = conflict[f].id
    BY <1>6 DEF PersonResolves, RemoveConflict, Resolved, TypeOK, ConflictsOK
  <2> QED BY <1>0, <2>1, <2>2
<1>7. ASSUME NEW e \in Events, NEW kind \in Kinds, JiraSends(e, kind)
      PROVE  DistinctConflicts' /\ QueuedSettled'
  <2>1. e \notin manual /\ UNCHANGED queueVars
    BY <1>7 DEF JiraSends
  <2>2. \A f \in manual : at'[f] = at[f]
    BY <1>0, <1>7, <2>1 DEF JiraSends
  <2> QED BY <2>1, <2>2 DEF queueVars
<1>8. CASE Restart
  BY <1>8 DEF Restart
<1>9. CASE \/ TimePasses \/ (\E b \in Bases : JiraEdit(b))
           \/ (\E m \in DOMAIN mirrors, b \in Bases : GitLabEdit(m, b))
           \/ (\E e \in Events : FinishNil(e))
  BY <1>1, <1>9 DEF TimePasses, JiraEdit, GitLabEdit, FinishNil
<1>10. CASE UNCHANGED vars
  BY <1>1, <1>10 DEF vars
<1> QED BY <1>2, <1>3, <1>4, <1>5, <1>6, <1>7, <1>8, <1>9, <1>10 DEF Next, Step, Look, Resolve

\* The ID of generateConflictID has a resolution of a second, but AddConflict
\* refuses an ID the queue holds, and DetectConflicts runs before: the person
\* who names a conflict always names one.
THEOREM IdsDistinct == Spec => []DistinctConflicts
<1>1. QueueInv => DistinctConflicts
  BY DEF QueueInv
<1> QED BY <1>1, QueueInvInit, NextQueue, PTL DEF Spec

-----------------------------------------------------------------------------
(* How two mirrors come to have one title                                  *)

Made == {"finishing", "done", "lost"}

\* A mirror nobody renamed is called what it was called when it was made.
NamesKept == \A m \in DOMAIN mirrors : m \notin moved => mirrors[m].title = births[m].title

\* An event about to create has found none of the mirrors it searched under
\* the title it is going to use.
Searched ==
  \A e \in Events :
    /\ known[e] <= Len(mirrors)
    /\ at[e] = "creating" =>
         \/ e \in blind
         \/ \A m \in DOMAIN births :
              m <= known[e] => m \in moved \/ births[m].title # Tagged(event[e].title)

\* An event that made a mirror searches and creates no more.
MadeOnce ==
  \A n \in DOMAIN births : n > 1 => births[n].by \in Events /\ at[births[n].by] \in Made

BirthParts == NamesKept /\ Searched /\ MadeOnce /\ DuplicatesExplained

BirthInv == TypeOK /\ BirthParts

\* A step that makes no mirror, renames none without recording it, and brings
\* no event to a creation but blindly.
LEMMA BirthFrame ==
  ASSUME BirthInv, TypeOK',
         UNCHANGED <<births, known>>,
         Len(mirrors') = Len(mirrors),
         moved \subseteq moved', blind \subseteq blind',
         \A m \in DOMAIN mirrors : m \notin moved' => mirrors'[m].title = mirrors[m].title,
         \A e \in Events : at[e] \in Made => at'[e] \in Made,
         \A e \in Events : at'[e] = "creating" =>
           e \in blind' \/ (at[e] = "creating" /\ event'[e] = event[e])
  PROVE  BirthParts'
<1> USE DEF BirthInv, BirthParts
<1>1. /\ mirrors \in Seq(Issues) /\ mirrors' \in Seq(Issues)
      /\ births \in Seq(Births) /\ Len(births) = Len(mirrors)
  BY DEF TypeOK, TrackersOK
<1>2. DOMAIN mirrors' = DOMAIN mirrors
  BY <1>1
<1>3. NamesKept'
  BY <1>2 DEF NamesKept
<1>4. Searched'
  BY ZenonT(60) DEF Searched, Tagged
<1>5. MadeOnce'
  BY DEF MadeOnce
<1>6. DuplicatesExplained'
  BY DEF DuplicatesExplained
<1> QED BY <1>3, <1>4, <1>5, <1>6

\* The search before the creation: a mirror that still has the title the event
\* is going to use is one of the matches.
LEMMA BirthSearch ==
  ASSUME BirthInv, TypeOK', NEW e \in Events, LookNew(e)
  PROVE  BirthParts'
<1> USE DEF BirthInv, BirthParts
<1>1. /\ mirrors \in Seq(Issues) /\ births \in Seq(Births) /\ Len(births) = Len(mirrors)
      /\ at \in [Events -> Places] /\ known \in [Events -> Nat]
  BY DEF TypeOK, TrackersOK, GoroutinesOK
<1>2. /\ UNCHANGED <<mirrors, births, moved, event, blind>>
      /\ at[e] \notin Made
      /\ at' = [at EXCEPT ![e] = "creating"]
      /\ known' = [known EXCEPT ![e] = Len(mirrors)]
  BY DEF LookNew, trackers, Runs, Goto, CreatePlace, Made
<1>3. NamesKept'
  BY <1>2 DEF NamesKept
<1>4. ASSUME NEW m \in DOMAIN births, m \notin moved PROVE births[m].title # Tagged(event[e].title)
  <2>1. m \in DOMAIN mirrors /\ mirrors[m] \in Issues
    BY <1>1
  <2>2. mirrors[m].title = births[m].title
    BY <1>4, <2>1 DEF NamesKept
  <2>3. m \notin Matches(e)
    BY DEF LookNew
  <2>4. mirrors[m].title \in Titles
    BY <2>1 DEF Issues
  <2> QED BY <2>1, <2>2, <2>3, <2>4 DEF Matches, Contains, Titles
<1>5. Searched'
  <2>1. ASSUME NEW f \in Events
        PROVE  /\ known'[f] <= Len(mirrors)
               /\ at'[f] = "creating" => f = e \/ (at[f] = "creating" /\ known'[f] = known[f])
    BY <1>1, <1>2 DEF Searched
  <2>2. \A m \in DOMAIN births : m \in moved \/ births[m].title # Tagged(event[e].title)
    BY <1>4
  <2>3. ASSUME NEW f \in Events, at'[f] = "creating"
        PROVE  \/ f \in blind
               \/ \A m \in DOMAIN births :
                    m <= known'[f] => m \in moved \/ births[m].title # Tagged(event[f].title)
    BY <2>1, <2>2, <2>3 DEF Searched
  <2> QED BY <1>2, <2>1, <2>3 DEF Searched, Tagged
<1>6. \A n \in DOMAIN births : n > 1 => births[n].by # e
  BY <1>2 DEF MadeOnce
<1>7. MadeOnce'
  BY <1>1, <1>2, <1>6 DEF MadeOnce
<1>8. DuplicatesExplained'
  <2>1. \A m, n \in DOMAIN births : m < n => births[n].by \in Events \ {e}
    BY <1>1, <1>6 DEF MadeOnce
  <2>2. \A f \in Events \ {e} : known'[f] = known[f]
    BY <1>1, <1>2
  <2> QED BY <1>2, <2>1, <2>2 DEF DuplicatesExplained
<1> QED BY <1>3, <1>5, <1>7, <1>8

\* The creation itself, carried out.
LEMMA BirthMade ==
  ASSUME BirthInv, TypeOK', NEW e \in Events, CreateIssue(e), births' # births
  PROVE  BirthParts'
<1> USE DEF BirthInv, BirthParts
<1>1. /\ mirrors \in Seq(Issues) /\ births \in Seq(Births) /\ Len(births) = Len(mirrors)
      /\ at \in [Events -> Places] /\ known \in [Events -> Nat]
  BY DEF TypeOK, TrackersOK, GoroutinesOK
<1>2. /\ UNCHANGED <<moved, event, known, blind>>
      /\ at[e] = "creating"
      /\ mirrors' = Append(mirrors, Mirror(event[e]))
      /\ births' = Append(births, [title |-> Tagged(event[e].title), by |-> e])
      /\ at' = [at EXCEPT ![e] = "done"] \/ at' = [at EXCEPT ![e] = "finishing"]
  BY DEF CreateIssue, searches, Runs, Goto, Created
<1> DEFINE new == Len(births) + 1
<1>3. /\ DOMAIN births' = DOMAIN births \cup {new}
      /\ DOMAIN mirrors' = DOMAIN births \cup {new} /\ DOMAIN mirrors = DOMAIN births
      /\ Len(mirrors') = Len(mirrors) + 1
  BY <1>1, <1>2
<1>4. /\ births'[new] = [title |-> Tagged(event[e].title), by |-> e]
      /\ mirrors'[new].title = Tagged(event[e].title)
      /\ \A m \in DOMAIN births :
           m # new /\ m < new /\ births'[m] = births[m] /\ mirrors'[m] = mirrors[m]
  BY <1>1, <1>2 DEF Mirror
<1>5. at'[e] \in Made /\ \A f \in Events : f # e => at'[f] = at[f]
  BY <1>1, <1>2 DEF Made
<1>6. NamesKept'
  BY <1>2, <1>3, <1>4 DEF NamesKept
<1>7. Searched'
  <2>1. \A f \in Events : known[f] <= Len(mirrors) /\ ~ (new <= known[f])
    BY <1>1 DEF Searched
  <2>2. \A f \in Events : known'[f] <= Len(mirrors')
    BY <1>1, <1>2, <1>3, <2>1
  <2>3. ASSUME NEW f \in Events, at'[f] = "creating"
        PROVE  \/ f \in blind'
               \/ \A m \in DOMAIN births' :
                    m <= known'[f] => m \in moved' \/ births'[m].title # Tagged(event'[f].title)
    <3>1. at[f] = "creating"
      BY <1>2, <1>5, <2>3
    <3> QED BY <1>2, <1>3, <1>4, <2>1, <3>1 DEF Searched
  <2> QED BY <2>2, <2>3 DEF Searched, Tagged
<1>8. MadeOnce'
  BY <1>3, <1>4, <1>5 DEF MadeOnce
<1>9. DuplicatesExplained'
  <2>1. \A m \in DOMAIN births :
          births[m].title = Tagged(event[e].title) => known[e] < m \/ e \in blind \/ m \in moved
    BY <1>1, <1>2 DEF Searched
  <2>2. \A m, n \in DOMAIN births' : m < n => m \in DOMAIN births
    BY <1>1, <1>3
  <2>3. ASSUME NEW m \in DOMAIN births, NEW n \in DOMAIN births', m < n,
               births'[m].title = births'[n].title
        PROVE  known'[births'[n].by] < m \/ births'[n].by \in blind' \/ m \in moved'
    <3>1. CASE n = new
      BY <1>2, <1>4, <2>1, <2>3, <3>1
    <3>2. CASE n # new
      BY <1>2, <1>3, <1>4, <2>3, <3>2 DEF DuplicatesExplained
    <3> QED BY <3>1, <3>2
  <2> QED BY <2>2, <2>3 DEF DuplicatesExplained
<1> QED BY <1>6, <1>7, <1>8, <1>9

\* The steps that write to a mirror record the ones whose title they change.
LEMMA BirthWrite ==
  ASSUME BirthInv, TypeOK', NEW e \in Events, found[e] # NoIssue,
         NEW fields, NEW source, UpdateMirror(e, fields, source)
  PROVE  /\ Len(mirrors') = Len(mirrors) /\ moved \subseteq moved'
         /\ \A m \in DOMAIN mirrors : m \notin moved' => mirrors'[m].title = mirrors[m].title
<1>1. mirrors \in Seq(Issues) /\ found[e].id \in DOMAIN mirrors
  BY DEF BirthInv, TypeOK, TrackersOK, PointersOK
<1> QED BY <1>1 DEF UpdateMirror

LEMMA NextBirth == BirthInv /\ [Next]_vars => BirthInv'
<1> SUFFICES ASSUME BirthInv, [Next]_vars PROVE BirthParts'
  BY NextTypeOK DEF BirthInv
<1>t. TypeOK /\ TypeOK'
  BY NextTypeOK DEF BirthInv
<1>0. /\ mirrors \in Seq(Issues) /\ at \in [Events -> Places]
  BY <1>t DEF TypeOK, TrackersOK, GoroutinesOK
<1> USE DEF Goto, Runs, Made
<1>1. ASSUME NEW e \in Events,
             \/ Skip(e) \/ Process(e) \/ LookExists(e) \/ LookBlind(e) \/ FindFails(e)
             \/ Find(e) \/ FindNone(e) \/ CommentNowhere(e) \/ Agree(e) \/ Detect(e)
             \/ AddConflict(e) \/ AddConflictTwice(e) \/ Settle(e) \/ SettleFailed(e)
             \/ UpdateNothing(e) \/ Finish(e) \/ FinishNil(e)
      PROVE  BirthParts'
  <2>1. UNCHANGED <<trackers, known, event>> /\ blind \subseteq blind'
    BY <1>1 DEF Skip, Process, LookExists, LookBlind, FindFails, Find, FindNone, CommentNowhere,
         Agree, Detect, AddConflict, AddConflictTwice, Settle, SettleFailed, UpdateNothing, Finish,
         FinishNil, searches
  <2>2. \A f \in Events : f # e => at'[f] = at[f]
    BY <1>0, <1>1 DEF Skip, Process, LookExists, LookBlind, FindFails, Find, FindNone,
         CommentNowhere, Agree, Detect, AddConflict, AddConflictTwice, Settle, SettleFailed,
         UpdateNothing, Finish, FinishNil
  <2>3. (at[e] \in Made => at'[e] \in Made) /\ (at'[e] = "creating" => e \in blind' \/ at[e] = "creating")
    BY <1>0, <1>1 DEF Skip, Process, LookExists, LookBlind, FindFails, Find, FindNone,
         CommentNowhere, Agree, Detect, AddConflict, AddConflictTwice, Settle, SettleFailed,
         UpdateNothing, Finish, FinishNil, Created, CreatePlace
  <2> QED BY <1>t, <2>1, <2>2, <2>3, BirthFrame DEF trackers
<1>2. ASSUME NEW e \in Events, LookNew(e) PROVE BirthParts'
  BY <1>t, <1>2, BirthSearch
<1>3. ASSUME NEW e \in Events, CreateIssue(e) PROVE BirthParts'
  <2>1. CASE births' # births
    BY <1>t, <1>3, <2>1, BirthMade
  <2>2. CASE births' = births
    <3>1. births \in Seq(Births)
      BY <1>t DEF TypeOK, TrackersOK
    <3>2. mirrors' = mirrors
      BY <1>3, <2>2, <3>1 DEF CreateIssue
    <3>3. UNCHANGED <<event, known, blind, moved>>
      BY <1>3 DEF CreateIssue, searches
    <3>4. \A f \in Events : \/ at'[f] = at[f]
                            \/ at[f] = "creating" /\ at'[f] \in {"done", "finishing"}
      BY <1>0, <1>3 DEF CreateIssue, Created
    <3> QED BY <1>t, <2>2, <3>2, <3>3, <3>4, BirthFrame
  <2> QED BY <2>1, <2>2
<1>4. ASSUME NEW e \in Events,
             \/ JiraWins(e) \/ GitLabWins(e) \/ MergeToGitLab(e) \/ MergeToJira(e) \/ Update(e)
      PROVE  BirthParts'
  <2>1. UNCHANGED <<births, known, event, blind>>
    BY <1>4 DEF JiraWins, GitLabWins, MergeToGitLab, MergeToJira, Update, searches
  <2>2. \A f \in Events : \/ at'[f] = at[f]
                          \/ at[f] \notin Made /\ at'[f] # "creating"
    BY <1>0, <1>4 DEF JiraWins, GitLabWins, MergeToGitLab, MergeToJira, Update
  <2>3. found[e] # NoIssue
    BY <1>t, <1>4 DEF JiraWins, GitLabWins, MergeToGitLab, MergeToJira, Update, TypeOK, PointersOK
  <2>4. /\ Len(mirrors') = Len(mirrors) /\ moved \subseteq moved'
        /\ \A m \in DOMAIN mirrors : m \notin moved' => mirrors'[m].title = mirrors[m].title
    <3>1. CASE UNCHANGED <<mirrors, moved>>
      BY <3>1
    <3>2. CASE \E fields, source : UpdateMirror(e, fields, source)
      BY <1>t, <2>3, <3>2, BirthWrite
    <3>3. CASE mirrors' = [mirrors EXCEPT ![found[e].id].updated = clock] /\ moved' = moved
      BY <1>0, <3>3
    <3> QED BY <1>4, <3>1, <3>2, <3>3
            DEF JiraWins, GitLabWins, MergeToGitLab, MergeToJira, Update
  <2> QED BY <1>t, <2>1, <2>2, <2>4, BirthFrame
<1>5. ASSUME NEW e \in Events, NEW kind \in Kinds, JiraSends(e, kind)
      PROVE  BirthParts'
  <2>1. UNCHANGED <<trackers, searches>>
    BY <1>5 DEF JiraSends
  <2>2. \A f \in Events : \/ at'[f] = at[f] /\ event'[f] = event[f]
                          \/ at[f] = "none" /\ at'[f] = "queued"
    BY <1>0, <1>t, <1>5 DEF JiraSends, TypeOK, GoroutinesOK
  <2> QED BY <1>t, <2>1, <2>2, BirthFrame DEF trackers, searches
<1>6. CASE Restart
  <2>1. UNCHANGED <<trackers, searches, event>>
    BY <1>6 DEF Restart
  <2>2. \A f \in Events : at'[f] = "lost" \/ (at'[f] = at[f] /\ at[f] \in {"none", "done"})
    BY <1>6 DEF Restart
  <2> QED BY <1>t, <2>1, <2>2, BirthFrame DEF trackers, searches
<1>7. ASSUME NEW m \in DOMAIN mirrors, NEW b \in Bases, GitLabEdit(m, b)
      PROVE  BirthParts'
  <2>1. UNCHANGED <<at, event, births, searches>>
    BY <1>7 DEF GitLabEdit
  <2>2. /\ Len(mirrors') = Len(mirrors) /\ moved \subseteq moved'
        /\ \A n \in DOMAIN mirrors : n \notin moved' => mirrors'[n].title = mirrors[n].title
    BY <1>0, <1>7 DEF GitLabEdit
  <2> QED BY <1>t, <2>1, <2>2, BirthFrame DEF searches
<1>8. CASE UNCHANGED <<at, event, mirrors, births, moved, searches>>
  BY <1>t, <1>8, BirthFrame DEF searches
<1>9. ASSUME \/ TimePasses \/ (\E b \in Bases : JiraEdit(b)) \/ UNCHANGED vars
             \/ (\E e \in Events : PersonResolves(e) \/ RemoveConflict(e))
      PROVE  BirthParts'
  <2>1. UNCHANGED <<at, event, mirrors, births, moved, searches>>
    BY <1>9 DEF TimePasses, JiraEdit, PersonResolves, RemoveConflict, trackers, searches, vars
  <2> QED BY <1>8, <2>1
<1> QED BY <1>1, <1>2, <1>3, <1>4, <1>5, <1>6, <1>7, <1>9 DEF Next, Step, Look, Resolve

\* handleIssueCreated looks before it creates: two GitLab issues made under one
\* title were made by events that raced, by one whose search had failed and
\* was ignored, or after the first had been renamed, whatever the number of
\* events, titles and edits.
THEOREM DuplicatesOnlyExplained == Spec => []DuplicatesExplained
<1>1. ASSUME Init PROVE BirthInv
  <2>1. TypeOK
    BY <1>1, InitTypeOK
  <2>2. NamesKept /\ Searched /\ MadeOnce /\ DuplicatesExplained
    BY <1>1 DEF Init, NamesKept, Searched, MadeOnce, DuplicatesExplained
  <2> QED BY <2>1, <2>2 DEF BirthInv, BirthParts
<1>2. BirthInv => DuplicatesExplained
  BY DEF BirthInv, BirthParts
<1> QED BY <1>1, <1>2, NextBirth, PTL DEF Spec

-----------------------------------------------------------------------------
(* What a resolution overwrites                                            *)

\* A merge under way is one of titles, under the strategy that merges.
TitlesMerged == \A e \in Events : at[e] = "merging" => "desc" \notin Conflicting(e)

TextInv == TypeOK /\ TitlesMerged

\* Time and users leave the goroutines alone.
LEMMA UsersLeaveEvents ==
  TimePasses \/ (\E b \in Bases : JiraEdit(b)) \/ UNCHANGED vars
    \/ (\E m \in DOMAIN mirrors, b \in Bases : GitLabEdit(m, b)) => UNCHANGED <<at, event, found>>
<1>1. ASSUME NEW b \in Bases, JiraEdit(b) PROVE UNCHANGED <<at, event, found>>
  BY <1>1 DEF JiraEdit
<1>2. ASSUME NEW m \in DOMAIN mirrors, NEW b \in Bases, GitLabEdit(m, b)
      PROVE  UNCHANGED <<at, event, found>>
  BY <1>2 DEF GitLabEdit
<1>3. TimePasses \/ UNCHANGED vars => UNCHANGED <<at, event, found>>
  BY DEF TimePasses, vars
<1> QED BY <1>1, <1>2, <1>3

LEMMA NextText == TextInv /\ [Next]_vars => TextInv'
<1> SUFFICES ASSUME TextInv, [Next]_vars, NEW e \in Events, at'[e] = "merging"
             PROVE  "desc" \notin Conflicting(e)'
  BY NextTypeOK DEF TextInv, TitlesMerged
<1>0. /\ at \in [Events -> Places] /\ found \in [Events -> {NoIssue} \cup
           [id : Nat \ {0}, title : Titles, desc : Nat, updated : 0..MaxTime]]
      /\ event \in [Events -> {NoEvent} \cup
           [kind : Kinds, title : Titles, desc : Nat, updated : 0..MaxTime]]
  BY DEF TextInv, TypeOK, GoroutinesOK
<1> USE DEF Goto, Runs
<1>1. CASE at[e] = "merging" /\ found'[e] = found[e] /\ event'[e] = event[e]
  BY <1>1 DEF TextInv, TitlesMerged, Conflicting
<1>2. CASE MergeToGitLab(e)
  BY <1>2 DEF MergeToGitLab, NeedsPerson, Conflicting
<1>3. ASSUME NEW f \in Events,
             \/ Skip(f) \/ Process(f) \/ LookExists(f) \/ LookNew(f) \/ LookBlind(f)
             \/ CreateIssue(f) \/ FindFails(f) \/ Find(f) \/ FindNone(f) \/ CommentNowhere(f)
      PROVE  at[e] = "merging" /\ found'[e] = found[e] /\ event'[e] = event[e]
  BY <1>0, <1>3 DEF Skip, Process, LookExists, LookNew, LookBlind, CreateIssue, FindFails, Find,
     FindNone, CommentNowhere, Created, CreatePlace
<1>4. ASSUME NEW f \in Events,
             \/ Agree(f) \/ Detect(f) \/ JiraWins(f) \/ GitLabWins(f) \/ MergeToJira(f)
             \/ AddConflict(f) \/ AddConflictTwice(f) \/ Settle(f) \/ SettleFailed(f)
             \/ Update(f) \/ UpdateNothing(f) \/ Finish(f) \/ FinishNil(f)
             \/ PersonResolves(f) \/ RemoveConflict(f)
      PROVE  at[e] = "merging" /\ found'[e] = found[e] /\ event'[e] = event[e]
  BY <1>0, <1>4 DEF Agree, Detect, JiraWins, GitLabWins, MergeToJira, AddConflict,
     AddConflictTwice, Settle, SettleFailed, Update, UpdateNothing, Finish, FinishNil,
     PersonResolves, RemoveConflict
<1>5. ASSUME NEW f \in Events, MergeToGitLab(f), f # e
      PROVE  at[e] = "merging" /\ found'[e] = found[e] /\ event'[e] = event[e]
  BY <1>0, <1>5 DEF MergeToGitLab
<1>6. ASSUME NEW f \in Events, NEW kind \in Kinds, JiraSends(f, kind)
      PROVE  at[e] = "merging" /\ found'[e] = found[e] /\ event'[e] = event[e]
  BY <1>0, <1>6 DEF JiraSends
<1>7. ASSUME \/ TimePasses \/ (\E b \in Bases : JiraEdit(b)) \/ UNCHANGED vars
             \/ (\E m \in DOMAIN mirrors, b \in Bases : GitLabEdit(m, b))
      PROVE  at[e] = "merging" /\ found'[e] = found[e] /\ event'[e] = event[e]
  BY <1>7, UsersLeaveEvents
<1>8. ~Restart
  BY DEF Restart
<1> QED BY <1>1, <1>2, <1>3, <1>4, <1>5, <1>6, <1>7, <1>8 DEF Next, Step, Look, Resolve

\* The text of an issue after a write that leaves its description out.
LEMMA WrittenDesc ==
  ASSUME NEW issue \in Issues, NEW fields, NEW source, "desc" \notin fields
  PROVE  Written(issue, fields, source).desc = issue.desc
BY DEF Written, Issues

\* A step of the sync keeps the descriptions unless the last write wins.
LEMMA StepKeepsDesc ==
  ASSUME TextInv, NEW e \in Events, Step(e), strategy # "last_write_wins"
  PROVE  /\ jira'.desc = jira.desc
         /\ \A m \in DOMAIN mirrors : mirrors'[m].desc = mirrors[m].desc
<1>0. jira \in Issues /\ mirrors \in Seq(Issues)
  BY DEF TextInv, TypeOK, TrackersOK
<1>1. CASE \/ Skip(e) \/ Process(e) \/ LookExists(e) \/ LookNew(e) \/ LookBlind(e)
           \/ FindFails(e) \/ Find(e) \/ FindNone(e) \/ CommentNowhere(e) \/ Agree(e)
           \/ Detect(e) \/ AddConflict(e) \/ AddConflictTwice(e) \/ Settle(e)
           \/ SettleFailed(e) \/ UpdateNothing(e) \/ Finish(e) \/ FinishNil(e)
  <2>1. UNCHANGED <<jira, mirrors>>
    BY <1>1 DEF Skip, Process, LookExists, LookNew, LookBlind, FindFails, Find, FindNone,
       CommentNowhere, Agree, Detect, AddConflict, AddConflictTwice, Settle, SettleFailed,
       UpdateNothing, Finish, FinishNil, trackers
  <2> QED BY <2>1
<1>2. CASE CreateIssue(e)
  <2>1. UNCHANGED jira /\ (mirrors' = mirrors \/ mirrors' = Append(mirrors, Mirror(event[e])))
    BY <1>2 DEF CreateIssue
  <2>2. \A m \in DOMAIN mirrors : mirrors'[m] = mirrors[m]
    BY <1>0, <2>1 DEF Mirror
  <2> QED BY <2>1, <2>2
<1>3. CASE MergeToGitLab(e)
  <2>1. "desc" \notin Conflicting(e) /\ UNCHANGED jira
    BY <1>3 DEF MergeToGitLab, NeedsPerson
  <2>2. CASE UpdateMirror(e, Conflicting(e), Newer(e))
    <3>1. ASSUME NEW m \in DOMAIN mirrors
          PROVE  \/ mirrors'[m] = mirrors[m]
                 \/ mirrors'[m] = Written(mirrors[m], Conflicting(e), Newer(e))
      BY <1>0, <2>2, <3>1 DEF UpdateMirror
    <3> QED BY <1>0, <2>1, <3>1, WrittenDesc
  <2>3. CASE UNCHANGED mirrors
    BY <2>1, <2>3
  <2> QED BY <1>3, <2>2, <2>3 DEF MergeToGitLab
<1>4. CASE MergeToJira(e)
  <2>1. "desc" \notin Conflicting(e) /\ UNCHANGED mirrors
    BY <1>4 DEF MergeToJira, Runs, TextInv, TitlesMerged
  <2>2. jira' = jira \/ jira' = Written(jira, Conflicting(e), Newer(e))
    BY <1>4 DEF MergeToJira
  <2> QED BY <1>0, <2>1, <2>2, WrittenDesc
<1>5. CASE Update(e)
  <2>1. UNCHANGED jira
    BY <1>5 DEF Update
  <2>2. mirrors' = mirrors \/ mirrors' = [mirrors EXCEPT ![found[e].id].updated = clock]
    BY <1>5 DEF Update
  <2>3. ASSUME NEW m \in DOMAIN mirrors PROVE mirrors'[m].desc = mirrors[m].desc
    <3>1. mirrors[m] \in Issues
      BY <1>0
    <3> QED BY <2>2, <2>3, <3>1 DEF Issues
  <2> QED BY <2>1, <2>3
<1>6. ~JiraWins(e) /\ ~GitLabWins(e)
  BY DEF JiraWins, GitLabWins
<1> QED BY <1>1, <1>2, <1>3, <1>4, <1>5, <1>6 DEF Step, Look, Resolve

\* Under "merge" and "manual" no step of SyncJiraToGitLab changes the
\* description of a Jira or GitLab issue: a conflict over descriptions waits
\* for a person, also when a merge of the titles has begun.
THEOREM DescriptionsAreKept == Spec => DescriptionsKept
<1>1. Init => TextInv
  BY InitTypeOK DEF Init, TextInv, TitlesMerged
<1>2. ASSUME TextInv, [Next]_vars, strategy # "last_write_wins", NEW e \in Events, at'[e] # at[e]
      PROVE  /\ jira'.desc = jira.desc
             /\ \A m \in DOMAIN mirrors : mirrors'[m].desc = mirrors[m].desc
  <2>1. CASE \E f \in Events : Step(f)
    BY <1>2, <2>1, StepKeepsDesc
  <2>2. CASE Restart \/ \E f \in Events, kind \in Kinds : JiraSends(f, kind)
    BY <2>2 DEF Restart, JiraSends, trackers
  <2>3. CASE \/ TimePasses \/ (\E b \in Bases : JiraEdit(b)) \/ UNCHANGED vars
             \/ (\E m \in DOMAIN mirrors, b \in Bases : GitLabEdit(m, b))
    BY <1>2, <2>3, UsersLeaveEvents
  <2>4. CASE \E f \in Events : PersonResolves(f) \/ RemoveConflict(f)
    BY <1>2, <2>4 DEF PersonResolves, RemoveConflict
  <2> QED BY <1>2, <2>1, <2>2, <2>3, <2>4 DEF Next
<1>3. TextInv /\ [Next]_vars =>
        [strategy # "last_write_wins" =>
           \A e \in Events : at'[e] # at[e] =>
             /\ jira'.desc = jira.desc
             /\ \A m \in DOMAIN mirrors : mirrors'[m].desc = mirrors[m].desc]_vars
  BY <1>2
<1> QED BY <1>1, <1>3, NextText, PTL DEF Spec, DescriptionsKept

\* What the resolution of one event overwrites when the last write wins.
LEMMA ResolveTakesNewer ==
  ASSUME TypeOK, NEW e \in Events, NEW f \in Events, Step(f),
         at[e] = "resolving", at'[e] = "settling", strategy = "last_write_wins"
  PROVE  LET m == found[e].id IN
         /\ mirrors' # mirrors /\ mirrors[m].updated > event[e].updated
              => mirrors[m].updated > found[e].updated
         /\ jira' # jira /\ jira.updated > found[e].updated
              => jira.updated > event[e].updated
<1>0. /\ at \in [Events -> Places]
      /\ mirrors \in Seq(Issues) /\ found[e].id \in DOMAIN mirrors
      /\ event[e].updated \in Nat /\ found[e].updated \in Nat /\ jira.updated \in Nat
  <2>1. found[e] # NoIssue /\ event[e] # NoEvent
    BY DEF TypeOK, PointersOK
  <2> QED BY <2>1, SyncAssumption DEF TypeOK, GoroutinesOK, TrackersOK, PointersOK, Issues
<1>1. mirrors[found[e].id].updated \in Nat
  <2>1. mirrors[found[e].id] \in Issues
    BY <1>0
  <2> QED BY <2>1, SyncAssumption DEF Issues
<1> USE DEF Goto, Runs
<1>2. f = e
  <2> SUFFICES ASSUME f # e PROVE at'[e] = at[e]
    OBVIOUS
  <2>1. CASE \/ Skip(f) \/ Process(f) \/ Look(f) \/ Agree(f) \/ Detect(f)
    BY <1>0, <2>1 DEF Skip, Process, Look, LookExists, LookNew, LookBlind, CreateIssue, FindFails,
       Find, FindNone, CommentNowhere, Agree, Detect
  <2>2. CASE \/ Resolve(f) \/ Update(f) \/ UpdateNothing(f) \/ Finish(f) \/ FinishNil(f)
    BY <1>0, <2>2 DEF Resolve, JiraWins, GitLabWins, MergeToGitLab, MergeToJira, AddConflict,
       AddConflictTwice, Settle, SettleFailed, Update, UpdateNothing, Finish, FinishNil
  <2> QED BY <2>1, <2>2 DEF Step
<1>3. CASE JiraWins(e)
  BY <1>0, <1>1, <1>3 DEF JiraWins, JiraNewer
<1>4. CASE GitLabWins(e)
  BY <1>0, <1>1, <1>4 DEF GitLabWins, JiraNewer
<1>5. CASE AddConflict(e) \/ AddConflictTwice(e)
  BY <1>5 DEF AddConflict, AddConflictTwice, trackers
<1>6. ~MergeToGitLab(e) /\ ~MergeToJira(e) /\ ~Settle(e) /\ ~SettleFailed(e)
  BY DEF MergeToGitLab, MergeToJira, Settle, SettleFailed
<1>7. ~Skip(e) /\ ~Process(e) /\ ~Look(e) /\ ~Agree(e) /\ ~Detect(e)
  BY <1>0 DEF Skip, Process, Look, LookExists, LookNew, LookBlind, CreateIssue, FindFails, Find,
     FindNone, CommentNowhere, Agree, Detect, CreatePlace
<1>8. ~Update(e) /\ ~UpdateNothing(e) /\ ~Finish(e) /\ ~FinishNil(e)
  BY DEF Update, UpdateNothing, Finish, FinishNil
<1> QED BY <1>2, <1>3, <1>4, <1>5, <1>6, <1>7, <1>8 DEF Step, Resolve

\* resolveLastWriteWins overwrites what is newer than the version it writes
\* only if that side has changed since the event was sent or the search read
\* it, for any events, clocks and windows.
THEOREM NewerIsKept == Spec => NewerLosesOnlyByRace
<1>1. ASSUME TypeOK, [Next]_vars, NEW e \in Events,
             at[e] = "resolving", at'[e] = "settling", strategy = "last_write_wins"
      PROVE  LET m == found[e].id IN
             /\ mirrors' # mirrors /\ mirrors[m].updated > event[e].updated
                  => mirrors[m].updated > found[e].updated
             /\ jira' # jira /\ jira.updated > found[e].updated
                  => jira.updated > event[e].updated
  <2>1. CASE \E f \in Events : Step(f)
    BY <1>1, <2>1, ResolveTakesNewer
  <2>2. CASE Restart \/ \E f \in Events, kind \in Kinds : JiraSends(f, kind)
    BY <2>2 DEF Restart, JiraSends, trackers
  <2>3. CASE \/ TimePasses \/ (\E b \in Bases : JiraEdit(b)) \/ UNCHANGED vars
             \/ (\E m \in DOMAIN mirrors, b \in Bases : GitLabEdit(m, b))
    BY <1>1, <2>3, UsersLeaveEvents
  <2>4. CASE \E f \in Events : PersonResolves(f) \/ RemoveConflict(f)
    BY <1>1, <2>4 DEF PersonResolves, RemoveConflict
  <2> QED BY <1>1, <2>1, <2>2, <2>3, <2>4 DEF Next
<1>2. TypeOK /\ [Next]_vars =>
        [\A e \in Events :
           at[e] = "resolving" /\ at'[e] = "settling" /\ strategy = "last_write_wins" =>
             LET m == found[e].id IN
             /\ mirrors' # mirrors /\ mirrors[m].updated > event[e].updated
                  => mirrors[m].updated > found[e].updated
             /\ jira' # jira /\ jira.updated > found[e].updated
                  => jira.updated > event[e].updated]_vars
  BY <1>1
<1> QED BY <1>2, InitTypeOK, NextTypeOK, PTL DEF Spec, NewerLosesOnlyByRace
=============================================================================
