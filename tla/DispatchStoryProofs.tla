------------------------ MODULE DispatchStoryProofs ------------------------
(***************************************************************************)
(* Theorems about DispatchStory, for every value of its constants.  Each   *)
(* theorem names the code behaviour it is about.                           *)
(***************************************************************************)
EXTENDS DispatchStory, SequenceTheorems, TLAPS

(***************************************************************************)
(* Where the workflow stands, and what its locals must then be.            *)
(***************************************************************************)
(* Before the first pull request is found: no round can have begun.        *)
FirstBuild == {"checkDependencies", "resolveSurfaces", "createStoryBranch",
               "findPullRequest"}
(* Points a first build and a revision round both pass.                    *)
AnyBuild == {"dispatchSpecialist", "postSpecialistStarted",
             "awaitSpecialistTask", "deleteProgressComment"}
(* Reached only once a pull request was found: before any round ...        *)
FirstPull == {"mergeStoryPullRequest", "requestPullRequestReviewer",
              "unmatchedNotice"}
(* ... at the watch, or around a round.                                    *)
WatchPoints == {"watchState", "watchReviews"}
RoundPoints == {"startedNotice", "editNotice", "exhaustedNotice"}

Located ==
  /\ openPullRequest \in DOMAIN pulls \cup {0}
  /\ pc \in FirstBuild \cup FirstPull => revisionRound = 0
  /\ pc \in FirstPull \cup WatchPoints => openPullRequest # 0
  /\ pc \in RoundPoints => revisionRound # 0
  /\ pc \in FirstBuild => openPullRequest = 0
  /\ pc \in AnyBuild /\ revisionRound = 0 => openPullRequest = 0
  /\ revisionRound # 0 => openPullRequest # 0 /\ reviewerLogin
  /\ pc = "watchReviews" => Watching

TypeInv == TypeOK /\ Located

(***************************************************************************)
(* Sequences of records: what the three ways of changing one preserve.     *)
(***************************************************************************)
(* Setting the state of one pull request leaves a sequence of pull         *)
(* requests, with the same numbers.                                        *)
LEMMA SetPullType ==
  ASSUME pulls \in Seq(Pulls), NEW n \in DOMAIN pulls,
         NEW s \in {"open", "merged", "closed"}, SetPull(n, s)
  PROVE  /\ pulls' \in Seq(Pulls) /\ DOMAIN pulls' = DOMAIN pulls
         /\ pulls'[n].state = s
         /\ \A m \in DOMAIN pulls : m # n => pulls'[m] = pulls[m]
<1>1. n \in 1..Len(pulls) /\ pulls[n] \in Pulls
  BY ElementOfSeq, LenProperties
<1>2. [pulls[n] EXCEPT !.state = s] \in Pulls
  BY <1>1 DEF Pulls
<1>3. pulls' = [pulls EXCEPT ![n] = [pulls[n] EXCEPT !.state = s]]
  BY DEF SetPull
<1>4. [pulls[n] EXCEPT !.state = s].state = s
  BY <1>1 DEF Pulls
<1> QED
  BY <1>1, <1>2, <1>3, <1>4, ExceptSeq, LenProperties

(* Closing the pull requests of a deleted branch: likewise.                *)
LEMMA CloseAllType ==
  ASSUME pulls \in Seq(Pulls),
         pulls' = [n \in DOMAIN pulls |->
                     IF n \in Open THEN [pulls[n] EXCEPT !.state = "closed"]
                                   ELSE pulls[n]]
  PROVE  /\ pulls' \in Seq(Pulls) /\ DOMAIN pulls' = DOMAIN pulls
         /\ \A m \in DOMAIN pulls : m \notin Open => pulls'[m] = pulls[m]
<1>1. Len(pulls) \in Nat /\ DOMAIN pulls = 1..Len(pulls)
  BY LenProperties
<1>2. \A n \in 1..Len(pulls) : pulls[n] \in Pulls
  BY ElementOfSeq
<1>3. pulls' \in [1..Len(pulls) -> Pulls]
  BY <1>1, <1>2 DEF Pulls
<1>4. pulls' \in Seq(Pulls)
  BY <1>1, <1>3, SeqDef
<1> QED
  BY <1>1, <1>3, <1>4

(***************************************************************************)
(* Who changes what.                                                       *)
(***************************************************************************)
(* Only a merge, a first build and people change the pull requests.        *)
LEMMA PullsChangers ==
  ASSUME [Next]_vars
  PROVE  \/ MergeStoryPullRequest \/ ContainerOpensPull
         \/ HumanMerges \/ HumanCloses \/ HumanDeletesBranch
         \/ UNCHANGED pulls
BY DEF Next, Workflow, Environment, vars, github, AttemptFails,
  NonRetryableFailure, CheckDependencies, ResolveSurfaces, CreateStoryBranch,
  DispatchSpecialist, PostSpecialistStarted, PostClaim, AwaitSpecialistTask,
  DeleteProgressComment, RetireClaim, FindPullRequest, EnsureEpicPullRequest,
  RequestPullRequestReviewer, UnmatchedNotice, Say, PullDecided, PullStillOpen,
  NothingNew, NewRound, StartRound, StartedNotice, EditNotice,
  ExhaustedNotice, MoveStoryToTodo, PostDispatchFailed, FailedNotice,
  ContainerPushes, AwaitedStops, OrphanStops, TaskForgotten, HumanReviews,
  Redispatch

(* Whoever changes them: numbers stay in use, and a pull request that is   *)
(* merged or closed is never anything else again.                          *)
LEMMA PullsEvolve ==
  ASSUME pulls \in Seq(Pulls), dispatch \in Nat,
         openPullRequest \in DOMAIN pulls \cup {0},
         pc = "mergeStoryPullRequest" => openPullRequest # 0,
         [Next]_vars
  PROVE  /\ pulls' \in Seq(Pulls) /\ DOMAIN pulls \subseteq DOMAIN pulls'
         /\ \A n \in DOMAIN pulls :
              pulls[n].state # "open" => pulls'[n] = pulls[n]
<1>1. CASE MergeStoryPullRequest
  <2>1. CASE UNCHANGED pulls
    BY <2>1
  <2>2. CASE /\ pulls[openPullRequest].state = "open"
             /\ SetPull(openPullRequest, "merged")
    <3>1. openPullRequest \in DOMAIN pulls
      BY <1>1 DEF MergeStoryPullRequest
    <3> QED
      BY <2>2, <3>1, SetPullType
  <2> QED
    BY <1>1, <2>1, <2>2 DEF MergeStoryPullRequest
<1>2. CASE ContainerOpensPull
  <2>1. [state |-> "open", dispatch |-> dispatch] \in Pulls
    BY DEF Pulls
  <2> QED
    BY <1>2, <2>1, AppendProperties, LenProperties DEF ContainerOpensPull
<1>3. CASE HumanMerges
  BY <1>3, SetPullType DEF HumanMerges, Open
<1>4. CASE HumanCloses
  BY <1>4, SetPullType DEF HumanCloses, Open
<1>5. CASE HumanDeletesBranch
  BY <1>5, CloseAllType DEF HumanDeletesBranch, Open
<1>6. CASE UNCHANGED pulls
  BY <1>6
<1> QED
  BY <1>1, <1>2, <1>3, <1>4, <1>5, <1>6, PullsChangers

(* Only a submitted review changes the reviews, and it is appended.        *)
LEMMA ReviewsEvolve ==
  ASSUME reviews \in Seq(Reviews), pulls \in Seq(Pulls), [Next]_vars
  PROVE  /\ reviews' \in Seq(Reviews) /\ DOMAIN reviews \subseteq DOMAIN reviews'
         /\ \A id \in DOMAIN reviews : reviews'[id] = reviews[id]
<1>1. CASE HumanReviews
  <2>1. PICK n \in Open, change \in BOOLEAN :
          reviews' = Append(reviews, [pull |-> n, change |-> change])
    BY <1>1 DEF HumanReviews
  <2>2. [pull |-> n, change |-> change] \in Reviews
    BY LenProperties DEF Open, Reviews
  <2> QED
    BY <2>1, <2>2, AppendProperties, LenProperties
<1>2. CASE UNCHANGED reviews
  BY <1>2
<1>3. HumanReviews \/ UNCHANGED reviews
  BY DEF Next, Workflow, Environment, vars, github, AttemptFails,
    NonRetryableFailure, CheckDependencies, ResolveSurfaces, CreateStoryBranch,
    DispatchSpecialist, PostSpecialistStarted, PostClaim, AwaitSpecialistTask,
    DeleteProgressComment, RetireClaim, FindPullRequest, EnsureEpicPullRequest,
    RequestPullRequestReviewer, UnmatchedNotice, Say, PullDecided, PullStillOpen,
    NothingNew, NewRound, StartRound, StartedNotice, EditNotice,
    ExhaustedNotice, MoveStoryToTodo, PostDispatchFailed, FailedNotice,
    MergeStoryPullRequest, ContainerOpensPull, HumanMerges, HumanCloses,
    HumanDeletesBranch,
    ContainerPushes, AwaitedStops, OrphanStops, TaskForgotten, Redispatch
<1> QED
  BY <1>1, <1>2, <1>3

(* The state of a pull request in the sequence is one of the three.        *)
LEMMA PullState ==
  ASSUME pulls \in Seq(Pulls), NEW n \in DOMAIN pulls
  PROVE  n \in Nat \ {0} /\ pulls[n].state \in {"open", "merged", "closed"}
<1>1. n \in 1..Len(pulls) /\ Len(pulls) \in Nat
  BY LenProperties
<1>2. pulls[n] \in Pulls
  BY <1>1, ElementOfSeq
<1> QED
  BY <1>1, <1>2 DEF Pulls

(***************************************************************************)
(* Where an attempt can lead.                                              *)
(***************************************************************************)
(* A failed attempt is repeated, or the catch-all takes over, or, in the   *)
(* catch-all, the workflow ends there.                                     *)
GivesUp ==
  \/ pc \notin CatchCalls /\ pc' = "postDispatchFailed" /\ outcome' = "failed"
  \/ pc \in CatchCalls /\ pc' = "end" /\ outcome' = "aborted"

LEMMA GiveUpMoves == GiveUp => GivesUp /\ attempt' = 1
BY DEF GiveUp, Conclude, GivesUp

LEMMA RetryMoves ==
  ASSUME attempt \in 1..MaxAttempts, Retry
  PROVE  /\ attempt' \in 1..MaxAttempts
         /\ UNCHANGED <<pc, outcome>> \/ GivesUp
BY ConstantsAssumption, GiveUpMoves DEF Retry

LEMMA ReturnsMoves ==
  ASSUME attempt \in 1..MaxAttempts, NEW next, Returns(next)
  PROVE  /\ attempt' \in 1..MaxAttempts
         /\ \/ pc' = next /\ UNCHANGED outcome
            \/ UNCHANGED <<pc, outcome>>
            \/ GivesUp
BY ConstantsAssumption, RetryMoves DEF Returns, Reply

(***************************************************************************)
(* Type correctness.                                                       *)
(***************************************************************************)
(* TypeInv is inductive: no activity, whichever way it ends, and nobody    *)
(* around the workflow leaves it.                                          *)
LEMMA TypeInvStep == TypeInv /\ [Next]_vars => TypeInv'
<1> SUFFICES ASSUME TypeInv, [Next]_vars PROVE TypeInv'
  OBVIOUS
<1> USE ConstantsAssumption DEF TypeInv, Located, FirstBuild, AnyBuild, FirstPull,
      WatchPoints, RoundPoints, Outcomes, Claims, Tellings
<1> DEFINE Rest == /\ pulls' \in Seq(Pulls) /\ reviews' \in Seq(Reviews)
                   /\ DOMAIN pulls \subseteq DOMAIN pulls'
<1>0. Rest
  BY PullsEvolve, ReviewsEvolve DEF TypeOK
<1>p. \A n \in DOMAIN pulls : n \in Nat \ {0} /\ pulls[n].state \in {"open", "merged", "closed"}
  BY PullState DEF TypeOK
<1>r. \A n \in DOMAIN reviews : n \in Nat \ {0}
  BY LenProperties DEF TypeOK
<1> HIDE DEF Rest
<1>1. CASE AttemptFails
  BY <1>0, <1>1, RetryMoves, GiveUpMoves DEF Rest, TypeOK, AttemptFails,
    Conclude, locals, tracker, github, ecs, history, GivesUp, Watching,
    Points, ThrowingCalls, UnlimitedCalls, SwallowingCalls, CatchCalls
<1>2. CASE NonRetryableFailure
  BY <1>0, <1>2, GiveUpMoves DEF Rest, TypeOK, NonRetryableFailure, Conclude,
    locals, tracker, github, ecs, history, GivesUp, Watching, Points,
    ThrowingCalls, UnlimitedCalls, SwallowingCalls, CatchCalls
<1>3. CASE CheckDependencies
  <2>1. pc' \in Points /\ attempt' \in 1..MaxAttempts /\ outcome' \in Outcomes
    BY <1>3, RetryMoves, GiveUpMoves DEF TypeOK, CheckDependencies, Reply,
      Conclude, locals, github, ecs, history, GivesUp, Points, ThrowingCalls,
      UnlimitedCalls, SwallowingCalls, CatchCalls
  <2>2. told' \subseteq Tellings
    BY <1>3 DEF TypeOK, CheckDependencies, Reply, Conclude, locals, github,
      ecs, history, GivesUp
  <2>3. Located'
    BY <1>0, <1>3, RetryMoves, GiveUpMoves DEF Rest, TypeOK,
      CheckDependencies, Reply, Conclude, locals, github, ecs, history,
      GivesUp, Watching, CatchCalls
  <2> QED
    BY <1>0, <1>3, <2>1, <2>2, <2>3 DEF Rest, TypeOK, CheckDependencies,
      Reply, Conclude, locals, github, ecs, history, GivesUp
<1>4. CASE ResolveSurfaces
  BY <1>0, <1>4 DEF Rest, TypeOK, ResolveSurfaces, Reply, locals, tracker,
    github, ecs, history, Watching, Points, ThrowingCalls, UnlimitedCalls,
    SwallowingCalls, CatchCalls
<1>5. CASE CreateStoryBranch
  <2>1. pc' \in Points /\ attempt' \in 1..MaxAttempts /\ outcome' \in Outcomes
    BY <1>5, RetryMoves, GiveUpMoves DEF TypeOK, CreateStoryBranch, Reply,
      Conclude, locals, tracker, ecs, GivesUp, Points, ThrowingCalls,
      UnlimitedCalls, SwallowingCalls, CatchCalls
  <2>2. branch' \in {"absent", "level", "ahead"}
    BY <1>5 DEF TypeOK, CreateStoryBranch, Reply, Conclude, locals, tracker,
      ecs, GivesUp
  <2>3. dropped' \subseteq {"todo", "failed", "compare", "courtesy"}
    BY <1>5 DEF TypeOK, CreateStoryBranch, Reply, Conclude, locals, tracker,
      ecs, GivesUp
  <2>4. Located'
    BY <1>0, <1>5, RetryMoves, GiveUpMoves DEF Rest, TypeOK,
      CreateStoryBranch, Reply, Conclude, locals, tracker, ecs, GivesUp,
      Watching, CatchCalls
  <2> QED
    BY <1>0, <1>5, <2>1, <2>2, <2>3, <2>4 DEF Rest, TypeOK, CreateStoryBranch,
      Reply, Conclude, locals, tracker, ecs, GivesUp
<1>6. CASE DispatchSpecialist
  BY <1>0, <1>6, RetryMoves, GiveUpMoves DEF Rest, TypeOK, DispatchSpecialist,
    Reply, Conclude, locals, tracker, github, GivesUp, Watching, Points,
    ThrowingCalls, UnlimitedCalls, SwallowingCalls, CatchCalls
<1>7. CASE PostSpecialistStarted
  <2>1. pc' \in Points /\ attempt' \in 1..MaxAttempts /\ outcome' \in Outcomes
    BY <1>7, ReturnsMoves DEF TypeOK, PostSpecialistStarted, PostClaim, Reply,
      github, ecs, GivesUp, Points, ThrowingCalls, UnlimitedCalls,
      SwallowingCalls, CatchCalls
  <2>2. held' \subseteq Claims /\ shown' \subseteq Claims
    BY <1>7 DEF TypeOK, PostSpecialistStarted, PostClaim, Reply, github, ecs,
      GivesUp
  <2>3. dropped' \subseteq {"todo", "failed", "compare", "courtesy"}
    BY <1>7 DEF TypeOK, PostSpecialistStarted, PostClaim, Reply, github, ecs,
      GivesUp
  <2>4. Located'
    BY <1>0, <1>7, ReturnsMoves DEF Rest, TypeOK, PostSpecialistStarted,
      PostClaim, Reply, github, ecs, GivesUp, Watching, CatchCalls
  <2> QED
    BY <1>0, <1>7, <2>1, <2>2, <2>3, <2>4 DEF Rest, TypeOK,
      PostSpecialistStarted, PostClaim, Reply, github, ecs, GivesUp
<1>8. CASE AwaitSpecialistTask
  BY <1>0, <1>8 DEF Rest, TypeOK, AwaitSpecialistTask, AfterRun, AfterNotice,
    Reply, locals, tracker, github, history, Watching, Points, ThrowingCalls,
    UnlimitedCalls, SwallowingCalls, CatchCalls
<1>9. CASE DeleteProgressComment
  <2>1. pc' \in Points /\ attempt' \in 1..MaxAttempts /\ outcome' \in Outcomes
    BY <1>9, ReturnsMoves DEF TypeOK, DeleteProgressComment, RetireClaim,
      AfterRun, AfterNotice, locals, github, ecs, GivesUp, Points,
      ThrowingCalls, UnlimitedCalls, SwallowingCalls, CatchCalls
  <2>2. held' \subseteq Claims /\ shown' \subseteq Claims
    BY <1>9 DEF TypeOK, DeleteProgressComment, RetireClaim, AfterRun,
      AfterNotice, locals, github, ecs, GivesUp
  <2>3. dropped' \subseteq {"todo", "failed", "compare", "courtesy"}
    BY <1>9 DEF TypeOK, DeleteProgressComment, RetireClaim, AfterRun,
      AfterNotice, locals, github, ecs, GivesUp
  <2>4. Located'
    BY <1>0, <1>9, ReturnsMoves DEF Rest, TypeOK, DeleteProgressComment,
      RetireClaim, AfterRun, AfterNotice, locals, github, ecs, GivesUp,
      Watching, CatchCalls
  <2> QED
    BY <1>0, <1>9, <2>1, <2>2, <2>3, <2>4 DEF Rest, TypeOK,
      DeleteProgressComment, RetireClaim, AfterRun, AfterNotice, locals,
      github, ecs, GivesUp
<1>10. CASE FindPullRequest
  BY <1>0, <1>p, <1>10 DEF Rest, TypeOK, FindPullRequest, Reply, Conclude,
    tracker, github, ecs, history, Watching, Points, ThrowingCalls,
    UnlimitedCalls, SwallowingCalls, CatchCalls
<1>11. CASE MergeStoryPullRequest
  BY <1>0, <1>p, <1>11, RetryMoves, GiveUpMoves DEF Rest, TypeOK,
    MergeStoryPullRequest, Reply, Conclude, locals, tracker, ecs, history,
    GivesUp, Watched, Watching, Points, ThrowingCalls, UnlimitedCalls,
    SwallowingCalls, CatchCalls
<1>12. CASE EnsureEpicPullRequest
  BY <1>0, <1>12 DEF Rest, TypeOK, EnsureEpicPullRequest, Reply, locals,
    tracker, github, ecs, history, Watching, Points, ThrowingCalls,
    UnlimitedCalls, SwallowingCalls, CatchCalls
<1>13. CASE RequestPullRequestReviewer
  <2>1. pc' \in Points /\ attempt' \in 1..MaxAttempts /\ outcome' \in Outcomes
    BY <1>13 DEF TypeOK, RequestPullRequestReviewer, Reply, tracker, github,
      ecs, history, Points, ThrowingCalls, UnlimitedCalls, SwallowingCalls,
      CatchCalls
  <2>2. reviewerLogin' \in BOOLEAN
    BY <1>13 DEF TypeOK, RequestPullRequestReviewer, Reply, tracker, github,
      ecs, history
  <2>3. Located'
    BY <1>0, <1>13 DEF Rest, TypeOK, RequestPullRequestReviewer, Reply,
      tracker, github, ecs, history, Watching, CatchCalls
  <2> QED
    BY <1>0, <1>13, <2>1, <2>2, <2>3 DEF Rest, TypeOK,
      RequestPullRequestReviewer, Reply, tracker, github, ecs, history
<1>14. CASE UnmatchedNotice
  <2>1. pc' \in Points /\ attempt' \in 1..MaxAttempts /\ outcome' \in Outcomes
    BY <1>14, ReturnsMoves DEF TypeOK, UnmatchedNotice, Say, locals, github,
      ecs, GivesUp, Points, ThrowingCalls, UnlimitedCalls, SwallowingCalls,
      CatchCalls
  <2>2. told' \subseteq Tellings
    BY <1>14 DEF TypeOK, UnmatchedNotice, Say, locals, github, ecs, GivesUp
  <2>3. dropped' \subseteq {"todo", "failed", "compare", "courtesy"}
    BY <1>14 DEF TypeOK, UnmatchedNotice, Say, locals, github, ecs, GivesUp
  <2>4. Located'
    BY <1>0, <1>14, ReturnsMoves DEF Rest, TypeOK, UnmatchedNotice, Say,
      locals, github, ecs, GivesUp, Watching, CatchCalls
  <2> QED
    BY <1>0, <1>14, <2>1, <2>2, <2>3, <2>4 DEF Rest, TypeOK, UnmatchedNotice,
      Say, locals, github, ecs, GivesUp
<1>15. CASE PullDecided
  <2>1. pc' \in Points /\ attempt' \in 1..MaxAttempts /\ outcome' \in Outcomes
    BY <1>15, <1>p DEF TypeOK, PullDecided, Conclude, control, locals, github,
      ecs, history, Watched, Points, ThrowingCalls, UnlimitedCalls,
      SwallowingCalls, CatchCalls
  <2>2. told' \subseteq Tellings
    BY <1>15, <1>p DEF TypeOK, PullDecided, Conclude, control, locals, github,
      ecs, history, Watched
  <2>3. Located'
    BY <1>0, <1>15, <1>p DEF Rest, TypeOK, PullDecided, Conclude, control,
      locals, github, ecs, history, Watching, CatchCalls
  <2> QED
    BY <1>0, <1>15, <2>1, <2>2, <2>3 DEF Rest, TypeOK, PullDecided, Conclude,
      control, locals, github, ecs, history
<1>16. CASE PullStillOpen
  BY <1>0, <1>p, <1>16 DEF Rest, TypeOK, PullStillOpen, Reply, locals,
    tracker, github, ecs, history, Watched, Watching, Points, ThrowingCalls,
    UnlimitedCalls, SwallowingCalls, CatchCalls
<1>17. CASE NothingNew
  BY <1>0, <1>17 DEF Rest, TypeOK, NothingNew, Reply, locals, tracker, github,
    ecs, history, Watching, Points, ThrowingCalls, UnlimitedCalls,
    SwallowingCalls, CatchCalls
<1>18. CASE NewRound
  BY <1>0, <1>r, <1>18 DEF Rest, TypeOK, NewRound, StartRound, Newest,
    Candidates, Reply, tracker, github, ecs, history, Watching, Points,
    ThrowingCalls, UnlimitedCalls, SwallowingCalls, CatchCalls
<1>19. CASE StartedNotice
  <2>1. pc' \in Points /\ attempt' \in 1..MaxAttempts /\ outcome' \in Outcomes
    BY <1>19, ReturnsMoves DEF TypeOK, StartedNotice, PostClaim, Reply,
      github, ecs, GivesUp, Points, ThrowingCalls, UnlimitedCalls,
      SwallowingCalls, CatchCalls
  <2>2. held' \subseteq Claims /\ shown' \subseteq Claims
    BY <1>19 DEF TypeOK, StartedNotice, PostClaim, Reply, github, ecs, GivesUp
  <2>3. dropped' \subseteq {"todo", "failed", "compare", "courtesy"}
    BY <1>19 DEF TypeOK, StartedNotice, PostClaim, Reply, github, ecs, GivesUp
  <2>4. Located'
    BY <1>0, <1>19, ReturnsMoves DEF Rest, TypeOK, StartedNotice, PostClaim,
      Reply, github, ecs, GivesUp, Watching, CatchCalls
  <2> QED
    BY <1>0, <1>19, <2>1, <2>2, <2>3, <2>4 DEF Rest, TypeOK, StartedNotice,
      PostClaim, Reply, github, ecs, GivesUp
<1>20. CASE EditNotice
  <2>1. pc' \in Points /\ attempt' \in 1..MaxAttempts /\ outcome' \in Outcomes
    BY <1>20, ReturnsMoves DEF TypeOK, EditNotice, RetireClaim, AfterNotice,
      locals, github, ecs, GivesUp, Points, ThrowingCalls, UnlimitedCalls,
      SwallowingCalls, CatchCalls
  <2>2. held' \subseteq Claims /\ shown' \subseteq Claims
    BY <1>20 DEF TypeOK, EditNotice, RetireClaim, AfterNotice, locals, github,
      ecs, GivesUp
  <2>3. dropped' \subseteq {"todo", "failed", "compare", "courtesy"}
    BY <1>20 DEF TypeOK, EditNotice, RetireClaim, AfterNotice, locals, github,
      ecs, GivesUp
  <2>4. Located'
    BY <1>0, <1>20, ReturnsMoves DEF Rest, TypeOK, EditNotice, RetireClaim,
      AfterNotice, locals, github, ecs, GivesUp, Watching, CatchCalls
  <2> QED
    BY <1>0, <1>20, <2>1, <2>2, <2>3, <2>4 DEF Rest, TypeOK, EditNotice,
      RetireClaim, AfterNotice, locals, github, ecs, GivesUp
<1>21. CASE ExhaustedNotice
  <2>1. pc' \in Points /\ attempt' \in 1..MaxAttempts /\ outcome' \in Outcomes
    BY <1>21, ReturnsMoves DEF TypeOK, ExhaustedNotice, Say, locals, github,
      ecs, GivesUp, Points, ThrowingCalls, UnlimitedCalls, SwallowingCalls,
      CatchCalls
  <2>2. told' \subseteq Tellings
    BY <1>21 DEF TypeOK, ExhaustedNotice, Say, locals, github, ecs, GivesUp
  <2>3. dropped' \subseteq {"todo", "failed", "compare", "courtesy"}
    BY <1>21 DEF TypeOK, ExhaustedNotice, Say, locals, github, ecs, GivesUp
  <2>4. Located'
    BY <1>0, <1>21, ReturnsMoves DEF Rest, TypeOK, ExhaustedNotice, Say,
      locals, github, ecs, GivesUp, Watching, CatchCalls
  <2> QED
    BY <1>0, <1>21, <2>1, <2>2, <2>3, <2>4 DEF Rest, TypeOK, ExhaustedNotice,
      Say, locals, github, ecs, GivesUp
<1>22. CASE MoveStoryToTodo
  <2>1. pc' \in Points /\ attempt' \in 1..MaxAttempts /\ outcome' \in Outcomes
    BY <1>22, ReturnsMoves DEF TypeOK, MoveStoryToTodo, locals, github, ecs,
      GivesUp, Points, ThrowingCalls, UnlimitedCalls, SwallowingCalls,
      CatchCalls
  <2>2. status' \in {"Todo", "InProgress"}
    BY <1>22 DEF TypeOK, MoveStoryToTodo, locals, github, ecs, GivesUp
  <2>3. dropped' \subseteq {"todo", "failed", "compare", "courtesy"}
    BY <1>22 DEF TypeOK, MoveStoryToTodo, locals, github, ecs, GivesUp
  <2>4. Located'
    BY <1>0, <1>22, ReturnsMoves DEF Rest, TypeOK, MoveStoryToTodo, locals,
      github, ecs, GivesUp, Watching, CatchCalls
  <2> QED
    BY <1>0, <1>22, <2>1, <2>2, <2>3, <2>4 DEF Rest, TypeOK, MoveStoryToTodo,
      locals, github, ecs, GivesUp
<1>23. CASE PostDispatchFailed
  <2>1. pc' \in Points /\ attempt' \in 1..MaxAttempts /\ outcome' \in Outcomes
    BY <1>23, ReturnsMoves DEF TypeOK, PostDispatchFailed, locals, github,
      ecs, GivesUp, Points, ThrowingCalls, UnlimitedCalls, SwallowingCalls,
      CatchCalls
  <2>2. told' \subseteq Tellings
    BY <1>23 DEF TypeOK, PostDispatchFailed, locals, github, ecs, GivesUp
  <2>3. dropped' \subseteq {"todo", "failed", "compare", "courtesy"}
    BY <1>23 DEF TypeOK, PostDispatchFailed, locals, github, ecs, GivesUp
  <2>4. Located'
    BY <1>0, <1>23, ReturnsMoves DEF Rest, TypeOK, PostDispatchFailed, locals,
      github, ecs, GivesUp, Watching, CatchCalls
  <2> QED
    BY <1>0, <1>23, <2>1, <2>2, <2>3, <2>4 DEF Rest, TypeOK,
      PostDispatchFailed, locals, github, ecs, GivesUp
<1>24. CASE FailedNotice
  BY <1>0, <1>24 DEF Rest, TypeOK, FailedNotice, Reply, locals, tracker,
    github, ecs, history, Watching, Points, ThrowingCalls, UnlimitedCalls,
    SwallowingCalls, CatchCalls
<1>25. CASE ContainerPushes
  BY <1>0, <1>25 DEF Rest, TypeOK, ContainerPushes, control, locals, tracker,
    ecs, history, Watching
<1>26. CASE ContainerOpensPull
  BY <1>0, <1>26 DEF Rest, TypeOK, ContainerOpensPull, control, locals,
    tracker, ecs, history, Watching
<1>27. CASE AwaitedStops
  BY <1>0, <1>27 DEF Rest, TypeOK, AwaitedStops, control, locals, tracker,
    github, history, Watching
<1>28. CASE OrphanStops
  BY <1>0, <1>28 DEF Rest, TypeOK, OrphanStops, control, locals, tracker,
    github, history, Watching
<1>29. CASE TaskForgotten
  BY <1>0, <1>29 DEF Rest, TypeOK, TaskForgotten, control, locals, tracker,
    github, history, Watching
<1>30. CASE HumanMerges
  BY <1>0, <1>30 DEF Rest, TypeOK, HumanMerges, control, locals, tracker, ecs,
    Watching
<1>31. CASE HumanCloses
  BY <1>0, <1>31 DEF Rest, TypeOK, HumanCloses, control, locals, tracker, ecs,
    history, Watching
<1>32. CASE HumanReviews
  BY <1>0, <1>32 DEF Rest, TypeOK, HumanReviews, control, locals, tracker,
    ecs, history, Watching
<1>33. CASE HumanDeletesBranch
  BY <1>0, <1>33 DEF Rest, TypeOK, HumanDeletesBranch, control, locals,
    tracker, ecs, history, Watching
<1>34. CASE Redispatch
  <2>1. pc' \in Points /\ attempt' \in 1..MaxAttempts /\ outcome' \in Outcomes
    BY <1>34 DEF TypeOK, Redispatch, github, Points, ThrowingCalls,
      UnlimitedCalls, SwallowingCalls, CatchCalls
  <2>2. orphans' \in Nat /\ dispatch' \in Nat
    BY <1>34 DEF TypeOK, Redispatch, github
  <2>3. held' = {} /\ told' = {} /\ shown' = {} /\ dropped' = {}
    BY <1>34 DEF Redispatch
  <2>4. reviewerLogin' \in BOOLEAN /\ inherited' \in BOOLEAN
    BY <1>34 DEF TypeOK, Redispatch, github
  <2>5. answers' \in [1..RoundCap -> Nat]
    BY <1>34 DEF TypeOK, Redispatch, github
  <2>6. Located'
    BY <1>0, <1>34 DEF Rest, TypeOK, Redispatch, github, Watching, CatchCalls
  <2>7. /\ revisionRound' = 0 /\ afterReviewId' = 0 /\ openPullRequest' = 0
        /\ status' = "InProgress" /\ awaited' = "none" /\ branch' = branch
    BY <1>34 DEF Redispatch, github
  <2>8. TypeOK'
    BY <1>0, <2>1, <2>2, <2>3, <2>4, <2>5, <2>7 DEF Rest, TypeOK
  <2> QED
    BY <2>6, <2>8
<1>35. CASE UNCHANGED vars
  BY <1>35 DEF TypeOK, Watching, vars, control, locals, tracker, github, ecs, history
<1> QED
  BY <1>1, <1>2, <1>3, <1>4, <1>5, <1>6, <1>7, <1>8, <1>9, <1>10, <1>11,
    <1>12, <1>13, <1>14, <1>15, <1>16, <1>17, <1>18, <1>19, <1>20, <1>21,
    <1>22, <1>23, <1>24, <1>25, <1>26, <1>27, <1>28, <1>29, <1>30, <1>31,
    <1>32, <1>33, <1>34, <1>35 DEF Next, Workflow, Environment

(* A dispatch as the listener starts it is well typed, and stands before   *)
(* its first build.                                                        *)
LEMMA TypeInvInit == Init => TypeInv
<1> SUFFICES ASSUME Init PROVE TypeInv
  OBVIOUS
<1>1. pulls \in Seq(Pulls) /\ reviews \in Seq(Reviews)
  BY DEF Init
<1>2. pc \in Points
  BY DEF Init, Points, ThrowingCalls
<1>3. answers \in [1..RoundCap -> Nat] /\ reviewerLogin \in BOOLEAN /\ inherited \in BOOLEAN
  BY DEF Init
<1>4. TypeOK
  BY <1>1, <1>2, <1>3, ConstantsAssumption DEF Init, TypeOK, Outcomes
<1>5. Located
  BY DEF Init, Located, FirstBuild, AnyBuild, FirstPull, WatchPoints, RoundPoints
<1> QED
  BY <1>4, <1>5 DEF TypeInv

LEMMA TypeInvariance == Spec => []TypeInv
<1> QED
  BY TypeInvInit, TypeInvStep, PTL DEF Spec

(* Every variable of a dispatch, its history included, keeps its type.     *)
THEOREM TypeCorrect == Spec => []TypeOK
<1>1. TypeInv => TypeOK
  BY DEF TypeInv
<1> QED
  BY <1>1, TypeInvariance, PTL

(***************************************************************************)
(* How a dispatch ends: the result that is decided, the comment that says  *)
(* it, and the move back to Todo.                                          *)
(***************************************************************************)
(* What has been decided at each point, ...                                *)
Decided ==
  /\ pc \in FirstBuild \cup AnyBuild \cup FirstPull \cup WatchPoints \cup RoundPoints
       => outcome = "none"
  /\ pc = "moveStoryToTodo" => outcome \in {"not-ready", "no-pr", "closed"}
  /\ pc = "ensureEpicPullRequest" => outcome = "merged"
  /\ pc \in CatchCalls => outcome = "failed"
  /\ pc = "end" => outcome # "none"

(* ... that the deed is done and said before the story is moved back, ...  *)
Deed ==
  /\ outcome = "not-ready" => "blocked" \in told
  /\ outcome = "closed" => "closed" \in told
  /\ outcome \in {"merged", "closed"} =>
       openPullRequest # 0 /\ pulls[openPullRequest].state = outcome
  /\ outcome = "no-pr" => openPullRequest = 0

(* ... and that only the end of the catch-all or the move itself is last.  *)
Last ==
  /\ pc \in {"failedNotice", "failedTodo"} => "failed" \in told \cup dropped
  /\ pc = "end" =>
       /\ outcome = "failed" => "failed" \in told \cup dropped
       /\ outcome \in {"merged", "aborted"} \/ status = "Todo" \/ "todo" \in dropped

EndInv == TypeInv /\ Decided /\ Deed /\ Last

(* The people and containers around the workflow leave it where it is; a   *)
(* re-dispatch alone starts it again.                                      *)
LEMMA EnvironmentMoves ==
  Environment => \/ Redispatch
                 \/ UNCHANGED <<control, locals, tracker, dispatch, answers, dropped>>
BY DEF Environment, ContainerPushes, ContainerOpensPull, AwaitedStops,
  OrphanStops, TaskForgotten, HumanMerges, HumanCloses, HumanReviews,
  HumanDeletesBranch, ecs, history

(* A pull request once merged or closed stays so, whichever it is.         *)
LEMMA DecidedPullStays ==
  ASSUME TypeInv, [Next]_vars, openPullRequest # 0, Watched # "open"
  PROVE  pulls'[openPullRequest] = pulls[openPullRequest]
BY PullsEvolve DEF TypeInv, TypeOK, Located, FirstPull, Watched

LEMMA EndInvStep == EndInv /\ [Next]_vars => EndInv'
<1> SUFFICES ASSUME EndInv, [Next]_vars PROVE EndInv'
  OBVIOUS
<1> USE DEF FirstBuild, AnyBuild, FirstPull, WatchPoints, RoundPoints, CatchCalls
<1>t. TypeInv' /\ attempt \in 1..MaxAttempts
  BY TypeInvStep DEF EndInv, TypeInv, TypeOK
<1>s. openPullRequest # 0 /\ Watched # "open" =>
        pulls'[openPullRequest] = pulls[openPullRequest]
  BY DecidedPullStays DEF EndInv
<1>1. CASE AttemptFails
  <2>1. Decided'
    BY <1>t, <1>1, RetryMoves, GiveUpMoves DEF EndInv, TypeInv, Located,
      Decided, AttemptFails, locals, tracker, github, ecs, history, GivesUp,
      ThrowingCalls, SwallowingCalls
  <2>2. Deed'
    BY <1>t, <1>s, <1>1, RetryMoves, GiveUpMoves DEF EndInv, TypeInv, Located,
      Decided, Deed, Watched, AttemptFails, locals, tracker, github, ecs,
      history, GivesUp, ThrowingCalls, SwallowingCalls
  <2>3. Last'
    BY <1>t, <1>1, RetryMoves, GiveUpMoves DEF EndInv, Decided, Last,
      AttemptFails, locals, tracker, github, ecs, history, GivesUp,
      ThrowingCalls, SwallowingCalls
  <2> QED
    BY <1>t, <2>1, <2>2, <2>3 DEF EndInv
<1>2. CASE NonRetryableFailure
  <2>1. Decided'
    BY <1>t, <1>2, GiveUpMoves DEF EndInv, TypeInv, Located, Decided,
      NonRetryableFailure, locals, tracker, github, ecs, history, GivesUp
  <2>2. Deed'
    BY <1>t, <1>s, <1>2, GiveUpMoves DEF EndInv, TypeInv, Located, Decided,
      Deed, Watched, NonRetryableFailure, locals, tracker, github, ecs,
      history, GivesUp
  <2>3. Last'
    BY <1>t, <1>2, GiveUpMoves DEF EndInv, Decided, Last, NonRetryableFailure,
      locals, tracker, github, ecs, history, GivesUp
  <2> QED
    BY <1>t, <2>1, <2>2, <2>3 DEF EndInv
<1>3. CASE CheckDependencies
  <2>1. Decided'
    BY <1>t, <1>3, RetryMoves, GiveUpMoves DEF EndInv, TypeInv, Located,
      Decided, CheckDependencies, Reply, Conclude, locals, github, ecs,
      history, GivesUp
  <2>2. Deed'
    BY <1>t, <1>s, <1>3, RetryMoves, GiveUpMoves DEF EndInv, TypeInv, Located,
      Decided, Deed, Watched, CheckDependencies, Reply, Conclude, locals,
      github, ecs, history, GivesUp
  <2>3. Last'
    BY <1>t, <1>3, RetryMoves, GiveUpMoves DEF EndInv, Decided, Last,
      CheckDependencies, Reply, Conclude, locals, github, ecs, history,
      GivesUp
  <2> QED
    BY <1>t, <2>1, <2>2, <2>3 DEF EndInv
<1>4. CASE ResolveSurfaces
  <2>1. Decided'
    BY <1>t, <1>4 DEF EndInv, TypeInv, Located, Decided, ResolveSurfaces,
      Reply, locals, tracker, github, ecs, history
  <2>2. Deed'
    BY <1>t, <1>s, <1>4 DEF EndInv, TypeInv, Located, Decided, Deed, Watched,
      ResolveSurfaces, Reply, locals, tracker, github, ecs, history
  <2>3. Last'
    BY <1>t, <1>4 DEF EndInv, Decided, Last, ResolveSurfaces, Reply, locals,
      tracker, github, ecs, history
  <2> QED
    BY <1>t, <2>1, <2>2, <2>3 DEF EndInv
<1>5. CASE CreateStoryBranch
  <2>1. Decided'
    BY <1>t, <1>5, RetryMoves, GiveUpMoves DEF EndInv, TypeInv, Located,
      Decided, CreateStoryBranch, Reply, Conclude, locals, tracker, ecs,
      GivesUp
  <2>2. Deed'
    BY <1>t, <1>s, <1>5, RetryMoves, GiveUpMoves DEF EndInv, TypeInv, Located,
      Decided, Deed, Watched, CreateStoryBranch, Reply, Conclude, locals,
      tracker, ecs, GivesUp
  <2>3. Last'
    BY <1>t, <1>5, RetryMoves, GiveUpMoves DEF EndInv, Decided, Last,
      CreateStoryBranch, Reply, Conclude, locals, tracker, ecs, GivesUp
  <2> QED
    BY <1>t, <2>1, <2>2, <2>3 DEF EndInv
<1>6. CASE DispatchSpecialist
  <2>1. Decided'
    BY <1>t, <1>6, RetryMoves, GiveUpMoves DEF EndInv, TypeInv, Located,
      Decided, DispatchSpecialist, Reply, Conclude, locals, tracker, github,
      GivesUp
  <2>2. Deed'
    BY <1>t, <1>s, <1>6, RetryMoves, GiveUpMoves DEF EndInv, TypeInv, Located,
      Decided, Deed, Watched, DispatchSpecialist, Reply, Conclude, locals,
      tracker, github, GivesUp
  <2>3. Last'
    BY <1>t, <1>6, RetryMoves, GiveUpMoves DEF EndInv, Decided, Last,
      DispatchSpecialist, Reply, Conclude, locals, tracker, github, GivesUp
  <2> QED
    BY <1>t, <2>1, <2>2, <2>3 DEF EndInv
<1>7. CASE PostSpecialistStarted
  <2>1. Decided'
    BY <1>t, <1>7, ReturnsMoves DEF EndInv, TypeInv, Located, Decided,
      PostSpecialistStarted, PostClaim, Reply, github, ecs, GivesUp
  <2>2. Deed'
    BY <1>t, <1>s, <1>7, ReturnsMoves DEF EndInv, TypeInv, Located, Decided,
      Deed, Watched, PostSpecialistStarted, PostClaim, Reply, github, ecs,
      GivesUp
  <2>3. Last'
    BY <1>t, <1>7, ReturnsMoves DEF EndInv, Decided, Last,
      PostSpecialistStarted, PostClaim, Reply, github, ecs, GivesUp
  <2> QED
    BY <1>t, <2>1, <2>2, <2>3 DEF EndInv
<1>8. CASE AwaitSpecialistTask
  <2>1. Decided'
    BY <1>t, <1>8 DEF EndInv, TypeInv, Located, Decided, AwaitSpecialistTask,
      AfterRun, AfterNotice, Reply, locals, tracker, github, history
  <2>2. Deed'
    BY <1>t, <1>s, <1>8 DEF EndInv, TypeInv, Located, Decided, Deed, Watched,
      AwaitSpecialistTask, AfterRun, AfterNotice, Reply, locals, tracker,
      github, history
  <2>3. Last'
    BY <1>t, <1>8 DEF EndInv, Decided, Last, AwaitSpecialistTask, AfterRun,
      AfterNotice, Reply, locals, tracker, github, history
  <2> QED
    BY <1>t, <2>1, <2>2, <2>3 DEF EndInv
<1>9. CASE DeleteProgressComment
  <2>1. Decided'
    BY <1>t, <1>9, ReturnsMoves DEF EndInv, TypeInv, Located, Decided,
      DeleteProgressComment, RetireClaim, AfterRun, AfterNotice, locals,
      github, ecs, GivesUp
  <2>2. Deed'
    BY <1>t, <1>s, <1>9, ReturnsMoves DEF EndInv, TypeInv, Located, Decided,
      Deed, Watched, DeleteProgressComment, RetireClaim, AfterRun,
      AfterNotice, locals, github, ecs, GivesUp
  <2>3. Last'
    BY <1>t, <1>9, ReturnsMoves DEF EndInv, Decided, Last,
      DeleteProgressComment, RetireClaim, AfterRun, AfterNotice, locals,
      github, ecs, GivesUp
  <2> QED
    BY <1>t, <2>1, <2>2, <2>3 DEF EndInv
<1>10. CASE FindPullRequest
  <2>1. Decided'
    BY <1>t, <1>10 DEF EndInv, TypeInv, Located, Decided, FindPullRequest,
      Reply, Conclude, tracker, github, ecs, history
  <2>2. Deed'
    BY <1>t, <1>s, <1>10 DEF EndInv, TypeInv, Located, Decided, Deed, Watched,
      FindPullRequest, Reply, Conclude, tracker, github, ecs, history
  <2>3. Last'
    BY <1>t, <1>10 DEF EndInv, Decided, Last, FindPullRequest, Reply,
      Conclude, tracker, github, ecs, history
  <2> QED
    BY <1>t, <2>1, <2>2, <2>3 DEF EndInv
<1>11. CASE MergeStoryPullRequest
  <2>1. Decided'
    BY <1>t, <1>11, RetryMoves, GiveUpMoves DEF EndInv, TypeInv, Located,
      Decided, MergeStoryPullRequest, Reply, Conclude, locals, tracker, ecs,
      history, GivesUp
  <2>m. pulls[openPullRequest].state = "open" /\ SetPull(openPullRequest, "merged")
          => pulls'[openPullRequest].state = "merged"
    BY <1>11, SetPullType DEF EndInv, TypeInv, TypeOK, Located, MergeStoryPullRequest
  <2>2. Deed'
    BY <1>t, <1>s, <1>11, <2>m, RetryMoves, GiveUpMoves DEF EndInv, TypeInv,
      Located, Decided, Deed, Watched, MergeStoryPullRequest, Reply, Conclude,
      locals, tracker, ecs, history, GivesUp
  <2>3. Last'
    BY <1>t, <1>11, <2>m, RetryMoves, GiveUpMoves DEF EndInv, Decided, Last,
      MergeStoryPullRequest, Reply, Conclude, locals, tracker, ecs, history,
      GivesUp
  <2> QED
    BY <1>t, <2>1, <2>2, <2>3 DEF EndInv
<1>12. CASE EnsureEpicPullRequest
  <2>1. Decided'
    BY <1>t, <1>12 DEF EndInv, TypeInv, Located, Decided,
      EnsureEpicPullRequest, Reply, locals, tracker, github, ecs, history
  <2>2. Deed'
    BY <1>t, <1>s, <1>12 DEF EndInv, TypeInv, Located, Decided, Deed, Watched,
      EnsureEpicPullRequest, Reply, locals, tracker, github, ecs, history
  <2>3. Last'
    BY <1>t, <1>12 DEF EndInv, Decided, Last, EnsureEpicPullRequest, Reply,
      locals, tracker, github, ecs, history
  <2> QED
    BY <1>t, <2>1, <2>2, <2>3 DEF EndInv
<1>13. CASE RequestPullRequestReviewer
  <2>1. Decided'
    BY <1>t, <1>13 DEF EndInv, TypeInv, Located, Decided,
      RequestPullRequestReviewer, Reply, tracker, github, ecs, history
  <2>2. Deed'
    BY <1>t, <1>s, <1>13 DEF EndInv, TypeInv, Located, Decided, Deed, Watched,
      RequestPullRequestReviewer, Reply, tracker, github, ecs, history
  <2>3. Last'
    BY <1>t, <1>13 DEF EndInv, Decided, Last, RequestPullRequestReviewer,
      Reply, tracker, github, ecs, history
  <2> QED
    BY <1>t, <2>1, <2>2, <2>3 DEF EndInv
<1>14. CASE UnmatchedNotice
  <2>1. Decided'
    BY <1>t, <1>14, ReturnsMoves DEF EndInv, TypeInv, Located, Decided,
      UnmatchedNotice, Say, locals, github, ecs, GivesUp
  <2>2. Deed'
    BY <1>t, <1>s, <1>14, ReturnsMoves DEF EndInv, TypeInv, Located, Decided,
      Deed, Watched, UnmatchedNotice, Say, locals, github, ecs, GivesUp
  <2>3. Last'
    BY <1>t, <1>14, ReturnsMoves DEF EndInv, Decided, Last, UnmatchedNotice,
      Say, locals, github, ecs, GivesUp
  <2> QED
    BY <1>t, <2>1, <2>2, <2>3 DEF EndInv
<1>15. CASE PullDecided
  <2>1. Decided'
    BY <1>t, <1>15 DEF EndInv, TypeInv, Located, Decided, Watched,
      PullDecided, Conclude, control, locals, github, ecs, history
  <2>2. Deed'
    BY <1>t, <1>s, <1>15 DEF EndInv, TypeInv, Located, Decided, Deed, Watched,
      PullDecided, Conclude, control, locals, github, ecs, history
  <2>3. Last'
    BY <1>t, <1>15 DEF EndInv, Decided, Last, Watched, PullDecided, Conclude,
      control, locals, github, ecs, history
  <2> QED
    BY <1>t, <2>1, <2>2, <2>3 DEF EndInv
<1>16. CASE PullStillOpen
  <2>1. Decided'
    BY <1>t, <1>16 DEF EndInv, TypeInv, Located, Decided, PullStillOpen,
      Reply, locals, tracker, github, ecs, history
  <2>2. Deed'
    BY <1>t, <1>s, <1>16 DEF EndInv, TypeInv, Located, Decided, Deed, Watched,
      PullStillOpen, Reply, locals, tracker, github, ecs, history
  <2>3. Last'
    BY <1>t, <1>16 DEF EndInv, Decided, Last, PullStillOpen, Reply, locals,
      tracker, github, ecs, history
  <2> QED
    BY <1>t, <2>1, <2>2, <2>3 DEF EndInv
<1>17. CASE NothingNew
  <2>1. Decided'
    BY <1>t, <1>17 DEF EndInv, TypeInv, Located, Decided, NothingNew, Reply,
      locals, tracker, github, ecs, history
  <2>2. Deed'
    BY <1>t, <1>s, <1>17 DEF EndInv, TypeInv, Located, Decided, Deed, Watched,
      NothingNew, Reply, locals, tracker, github, ecs, history
  <2>3. Last'
    BY <1>t, <1>17 DEF EndInv, Decided, Last, NothingNew, Reply, locals,
      tracker, github, ecs, history
  <2> QED
    BY <1>t, <2>1, <2>2, <2>3 DEF EndInv
<1>18. CASE NewRound
  <2>1. Decided'
    BY <1>t, <1>18 DEF EndInv, TypeInv, Located, Decided, NewRound,
      StartRound, Newest, Candidates, Reply, tracker, github, ecs, history
  <2>2. Deed'
    BY <1>t, <1>s, <1>18 DEF EndInv, TypeInv, Located, Decided, Deed, Watched,
      NewRound, StartRound, Newest, Candidates, Reply, tracker, github, ecs,
      history
  <2>3. Last'
    BY <1>t, <1>18 DEF EndInv, Decided, Last, NewRound, StartRound, Newest,
      Candidates, Reply, tracker, github, ecs, history
  <2> QED
    BY <1>t, <2>1, <2>2, <2>3 DEF EndInv
<1>19. CASE StartedNotice
  <2>1. Decided'
    BY <1>t, <1>19, ReturnsMoves DEF EndInv, TypeInv, Located, Decided,
      StartedNotice, PostClaim, Reply, github, ecs, GivesUp
  <2>2. Deed'
    BY <1>t, <1>s, <1>19, ReturnsMoves DEF EndInv, TypeInv, Located, Decided,
      Deed, Watched, StartedNotice, PostClaim, Reply, github, ecs, GivesUp
  <2>3. Last'
    BY <1>t, <1>19, ReturnsMoves DEF EndInv, Decided, Last, StartedNotice,
      PostClaim, Reply, github, ecs, GivesUp
  <2> QED
    BY <1>t, <2>1, <2>2, <2>3 DEF EndInv
<1>20. CASE EditNotice
  <2>1. Decided'
    BY <1>t, <1>20, ReturnsMoves DEF EndInv, TypeInv, Located, Decided,
      EditNotice, RetireClaim, AfterNotice, locals, github, ecs, GivesUp
  <2>2. Deed'
    BY <1>t, <1>s, <1>20, ReturnsMoves DEF EndInv, TypeInv, Located, Decided,
      Deed, Watched, EditNotice, RetireClaim, AfterNotice, locals, github,
      ecs, GivesUp
  <2>3. Last'
    BY <1>t, <1>20, ReturnsMoves DEF EndInv, Decided, Last, EditNotice,
      RetireClaim, AfterNotice, locals, github, ecs, GivesUp
  <2> QED
    BY <1>t, <2>1, <2>2, <2>3 DEF EndInv
<1>21. CASE ExhaustedNotice
  <2>1. Decided'
    BY <1>t, <1>21, ReturnsMoves DEF EndInv, TypeInv, Located, Decided,
      ExhaustedNotice, Say, locals, github, ecs, GivesUp
  <2>2. Deed'
    BY <1>t, <1>s, <1>21, ReturnsMoves DEF EndInv, TypeInv, Located, Decided,
      Deed, Watched, ExhaustedNotice, Say, locals, github, ecs, GivesUp
  <2>3. Last'
    BY <1>t, <1>21, ReturnsMoves DEF EndInv, Decided, Last, ExhaustedNotice,
      Say, locals, github, ecs, GivesUp
  <2> QED
    BY <1>t, <2>1, <2>2, <2>3 DEF EndInv
<1>22. CASE MoveStoryToTodo
  <2>1. Decided'
    BY <1>t, <1>22, ReturnsMoves DEF EndInv, TypeInv, Located, Decided,
      MoveStoryToTodo, locals, github, ecs, GivesUp
  <2>2. Deed'
    BY <1>t, <1>s, <1>22, ReturnsMoves DEF EndInv, TypeInv, Located, Decided,
      Deed, Watched, MoveStoryToTodo, locals, github, ecs, GivesUp
  <2>3. Last'
    BY <1>t, <1>22, ReturnsMoves DEF EndInv, Decided, Last, MoveStoryToTodo,
      locals, github, ecs, GivesUp
  <2> QED
    BY <1>t, <2>1, <2>2, <2>3 DEF EndInv
<1>23. CASE PostDispatchFailed
  <2>1. Decided'
    BY <1>t, <1>23, ReturnsMoves DEF EndInv, TypeInv, Located, Decided,
      PostDispatchFailed, locals, github, ecs, GivesUp
  <2>2. Deed'
    BY <1>t, <1>s, <1>23, ReturnsMoves DEF EndInv, TypeInv, Located, Decided,
      Deed, Watched, PostDispatchFailed, locals, github, ecs, GivesUp
  <2>3. Last'
    BY <1>t, <1>23, ReturnsMoves DEF EndInv, Decided, Last,
      PostDispatchFailed, locals, github, ecs, GivesUp
  <2> QED
    BY <1>t, <2>1, <2>2, <2>3 DEF EndInv
<1>24. CASE FailedNotice
  <2>1. Decided'
    BY <1>t, <1>24 DEF EndInv, TypeInv, Located, Decided, FailedNotice, Reply,
      locals, tracker, github, ecs, history
  <2>2. Deed'
    BY <1>t, <1>s, <1>24 DEF EndInv, TypeInv, Located, Decided, Deed, Watched,
      FailedNotice, Reply, locals, tracker, github, ecs, history
  <2>3. Last'
    BY <1>t, <1>24 DEF EndInv, Decided, Last, FailedNotice, Reply, locals,
      tracker, github, ecs, history
  <2> QED
    BY <1>t, <2>1, <2>2, <2>3 DEF EndInv
<1>25. CASE Redispatch
  BY <1>t, <1>25 DEF EndInv, Decided, Deed, Last, Redispatch
<1>26. CASE UNCHANGED <<control, locals, tracker, dispatch, answers, dropped>>
  BY <1>t, <1>s, <1>26
  DEF EndInv, Decided, Deed, Last, Watched, control, locals, tracker
<1>27. CASE UNCHANGED vars
  BY <1>26, <1>27 DEF vars, history
<1> QED
  BY <1>1, <1>2, <1>3, <1>4, <1>5, <1>6, <1>7, <1>8, <1>9, <1>10, <1>11,
    <1>12, <1>13, <1>14, <1>15, <1>16, <1>17, <1>18, <1>19, <1>20, <1>21,
    <1>22, <1>23, <1>24, <1>25, <1>26, <1>27, EnvironmentMoves DEF Next,
    Workflow

LEMMA EndInvInit == Init => EndInv
BY TypeInvInit DEF EndInv, Decided, Deed, Last, Init, FirstBuild, CatchCalls

LEMMA EndInvariance == Spec => []EndInv
<1> QED
  BY EndInvInit, EndInvStep, PTL DEF Spec

(* A dispatch that ended without a merged pull request has moved its story *)
(* back to Todo, or lost that call, or died in its own catch-all.          *)
THEOREM StoriesAreHandedBack == Spec => []HandedBack
<1>1. EndInv => HandedBack
  BY DEF EndInv, TypeInv, TypeOK, Last, HandedBack, Ended
<1> QED
  BY <1>1, EndInvariance, PTL

(* A dispatch that ends not ready, closed or failed has said so, or lost   *)
(* the one comment that says it.                                           *)
THEOREM EndsAreNeverSilent == Spec => []NeverSilent
<1>1. EndInv => NeverSilent
  BY DEF EndInv, Deed, Last, NeverSilent, Ended
<1> QED
  BY <1>1, EndInvariance, PTL

(* What the workflow returns about the pull request is the truth, however  *)
(* many merge calls were lost and whoever decided it.                      *)
THEOREM OutcomesAreTrue == Spec => []OutcomeIsTrue
<1>1. EndInv => OutcomeIsTrue
  BY DEF EndInv, Deed, OutcomeIsTrue, Ended, Watched
<1> QED
  BY <1>1, EndInvariance, PTL

(***************************************************************************)
(* What each revision round answers.                                       *)
(***************************************************************************)
(* Once a round has begun, the watermark is a change request on the pull   *)
(* request being watched; no earlier round was given one as new as that.   *)
Marked ==
  /\ revisionRound # 0 =>
       /\ afterReviewId \in DOMAIN reviews
       /\ reviews[afterReviewId].change
       /\ reviews[afterReviewId].pull = openPullRequest
  /\ \A r \in 1..RoundCap :
       /\ r > revisionRound => answers[r] = 0
       /\ r < revisionRound => answers[r] < afterReviewId
       /\ answers[r] <= afterReviewId

AnswerInv == TypeInv /\ Marked /\ AnswersAreFresh

(***************************************************************************)
(* Claims that a specialist is at work.                                    *)
(***************************************************************************)
Failing == pc \in CatchCalls \/ (pc = "end" /\ outcome \in {"failed", "aborted"})

(* Where such a claim may still stand: only within the run it announces,   *)
(* with its id held, or in a dispatch that has failed.                     *)
ClaimsStand ==
  "courtesy" \notin dropped =>
    /\ shown \subseteq held
    /\ "progress" \in shown =>
         Failing \/ pc \in {"awaitSpecialistTask", "deleteProgressComment"}
    /\ "notice" \in shown =>
         Failing \/ pc = "editNotice" \/ (pc \in AnyBuild /\ revisionRound # 0)

ClaimInv == EndInv /\ ClaimsStand
SaidInv == TypeInv /\ NotWatchedIsSaid

(* Only a new round moves the watermark, only a container's start records  *)
(* an answer, and only before the first round is a pull request found.     *)
LEMMA RoundChangers ==
  ASSUME [Next]_vars
  PROVE  \/ DispatchSpecialist \/ FindPullRequest \/ NewRound \/ Redispatch
         \/ UNCHANGED <<revisionRound, afterReviewId, openPullRequest, answers>>
BY EnvironmentMoves DEF Next, Workflow, vars, locals, history, AttemptFails,
  NonRetryableFailure, CheckDependencies, ResolveSurfaces, CreateStoryBranch,
  PostSpecialistStarted, PostClaim, AwaitSpecialistTask,
  DeleteProgressComment, RetireClaim, MergeStoryPullRequest,
  EnsureEpicPullRequest, RequestPullRequestReviewer, UnmatchedNotice, Say,
  PullDecided, PullStillOpen, NothingNew, StartedNotice, EditNotice,
  ExhaustedNotice, MoveStoryToTodo, PostDispatchFailed, FailedNotice

LEMMA AnswerInvStep == AnswerInv /\ [Next]_vars => AnswerInv'
<1> SUFFICES ASSUME AnswerInv, [Next]_vars PROVE AnswerInv'
  OBVIOUS
<1> USE DEF AnswerInv, Marked, AnswersAreFresh
<1>t. TypeInv' /\ RoundCap \in Nat /\ revisionRound \in 0..RoundCap /\ afterReviewId \in Nat
        /\ answers \in [1..RoundCap -> Nat]
  BY TypeInvStep, ConstantsAssumption DEF TypeInv, TypeOK
<1>r. /\ DOMAIN reviews \subseteq DOMAIN reviews'
      /\ \A id \in DOMAIN reviews : reviews'[id] = reviews[id]
  BY ReviewsEvolve DEF TypeInv, TypeOK
<1>1. CASE DispatchSpecialist
  <2>1. UNCHANGED <<revisionRound, afterReviewId, openPullRequest, reviews>>
    BY <1>1 DEF DispatchSpecialist, locals, github
  <2>2. CASE revisionRound = 0
    BY <1>t, <1>1, <2>1, <2>2 DEF DispatchSpecialist
  <2>3. CASE revisionRound # 0
    <3>1. answers' = [answers EXCEPT ![revisionRound] = afterReviewId]
      BY <1>1, <2>3 DEF DispatchSpecialist
    <3> QED
      BY <1>t, <2>1, <2>3, <3>1
  <2> QED
    BY <2>2, <2>3
<1>2. CASE FindPullRequest
  <2>1. revisionRound = 0 /\ UNCHANGED <<revisionRound, afterReviewId, answers>>
    BY <1>2 DEF FindPullRequest, history, TypeInv, Located, FirstBuild
  <2> QED
    BY <1>t, <2>1
<1>3. CASE NewRound
  <2>1. PICK id \in DOMAIN reviews : StartRound(id)
    BY <1>3 DEF NewRound
  <2>2. /\ id \in Nat /\ id > afterReviewId
        /\ reviews[id].change /\ reviews[id].pull = openPullRequest
    BY <2>1, LenProperties DEF StartRound, Newest, Candidates, TypeInv, TypeOK
  <2>3. /\ revisionRound' = revisionRound + 1 /\ afterReviewId' = id
        /\ UNCHANGED <<openPullRequest, reviews, answers>>
    BY <2>1 DEF StartRound, github, history
  <2> QED
    BY <1>t, <2>2, <2>3
<1>4. CASE Redispatch
  BY <1>t, <1>4 DEF Redispatch
<1>5. CASE UNCHANGED <<revisionRound, afterReviewId, openPullRequest, answers>>
  BY <1>t, <1>r, <1>5
<1> QED
  BY <1>1, <1>2, <1>3, <1>4, <1>5, RoundChangers

(* No container is given a review twice, a review older than one already   *)
(* answered, or one that is not a change request on its pull request.      *)
THEOREM NoReviewIsAnsweredTwice == Spec => []AnswersAreFresh
<1>1. Init => AnswerInv
  BY TypeInvInit, ConstantsAssumption DEF Init, AnswerInv, Marked, AnswersAreFresh
<1>2. AnswerInv => AnswersAreFresh
  BY DEF AnswerInv
<1> QED
  BY <1>1, <1>2, AnswerInvStep, PTL DEF Spec

(* A claim is posted with its id, and every way out of the run it is about *)
(* passes the call that retires it.                                        *)
LEMMA ClaimInvStep == ClaimInv /\ [Next]_vars => ClaimInv'
<1> SUFFICES ASSUME ClaimInv, [Next]_vars PROVE ClaimInv'
  OBVIOUS
<1> USE DEF ClaimInv, ClaimsStand, Failing, Decided, CatchCalls, FirstBuild, AnyBuild,
      FirstPull, WatchPoints, RoundPoints
<1>t. EndInv' /\ attempt \in 1..MaxAttempts /\ Decided /\ Located
  BY EndInvStep DEF EndInv, TypeInv, TypeOK
<1>1. CASE AttemptFails
  BY <1>t, <1>1, RetryMoves, GiveUpMoves DEF AttemptFails, locals, tracker,
    github, ecs, history, GivesUp, ThrowingCalls, SwallowingCalls
<1>2. CASE NonRetryableFailure
  BY <1>t, <1>2, GiveUpMoves DEF NonRetryableFailure, locals, tracker, github,
    ecs, history, GivesUp
<1>3. CASE CheckDependencies
  BY <1>t, <1>3, RetryMoves, GiveUpMoves DEF CheckDependencies, Reply,
    Conclude, locals, github, ecs, history, GivesUp
<1>4. CASE ResolveSurfaces
  BY <1>t, <1>4 DEF ResolveSurfaces, Reply, locals, tracker, github, ecs,
    history
<1>5. CASE CreateStoryBranch
  BY <1>t, <1>5, RetryMoves, GiveUpMoves DEF CreateStoryBranch, Reply,
    Conclude, locals, tracker, ecs, GivesUp
<1>6. CASE DispatchSpecialist
  BY <1>t, <1>6, RetryMoves, GiveUpMoves DEF DispatchSpecialist, Reply,
    Conclude, locals, tracker, github, GivesUp
<1>7. CASE PostSpecialistStarted
  BY <1>t, <1>7, ReturnsMoves DEF PostSpecialistStarted, PostClaim, Reply,
    github, ecs, GivesUp
<1>8. CASE AwaitSpecialistTask
  BY <1>t, <1>8 DEF AwaitSpecialistTask, AfterRun, AfterNotice, Reply, locals,
    tracker, github, history
<1>9. CASE DeleteProgressComment
  BY <1>t, <1>9, ReturnsMoves DEF DeleteProgressComment, RetireClaim,
    AfterRun, AfterNotice, locals, github, ecs, GivesUp
<1>10. CASE FindPullRequest
  BY <1>t, <1>10 DEF FindPullRequest, Reply, Conclude, tracker, github, ecs,
    history
<1>11. CASE MergeStoryPullRequest
  BY <1>t, <1>11, RetryMoves, GiveUpMoves DEF MergeStoryPullRequest, Reply,
    Conclude, locals, tracker, ecs, history, GivesUp
<1>12. CASE EnsureEpicPullRequest
  BY <1>t, <1>12 DEF EnsureEpicPullRequest, Reply, locals, tracker, github,
    ecs, history
<1>13. CASE RequestPullRequestReviewer
  BY <1>t, <1>13 DEF RequestPullRequestReviewer, Reply, tracker, github, ecs,
    history
<1>14. CASE UnmatchedNotice
  BY <1>t, <1>14, ReturnsMoves DEF UnmatchedNotice, Say, locals, github, ecs,
    GivesUp
<1>15. CASE PullDecided
  BY <1>t, <1>15 DEF PullDecided, Conclude, control, locals, github, ecs,
    history
<1>16. CASE PullStillOpen
  BY <1>t, <1>16 DEF PullStillOpen, Reply, locals, tracker, github, ecs,
    history
<1>17. CASE NothingNew
  BY <1>t, <1>17 DEF NothingNew, Reply, locals, tracker, github, ecs, history
<1>18. CASE NewRound
  BY <1>t, <1>18 DEF NewRound, StartRound, Newest, Candidates, Reply, tracker,
    github, ecs, history
<1>19. CASE StartedNotice
  BY <1>t, <1>19, ReturnsMoves DEF Located, StartedNotice, PostClaim, Reply, github,
    ecs, GivesUp
<1>20. CASE EditNotice
  BY <1>t, <1>20, ReturnsMoves DEF EditNotice, RetireClaim, AfterNotice,
    locals, github, ecs, GivesUp
<1>21. CASE ExhaustedNotice
  BY <1>t, <1>21, ReturnsMoves DEF ExhaustedNotice, Say, locals, github, ecs,
    GivesUp
<1>22. CASE MoveStoryToTodo
  BY <1>t, <1>22, ReturnsMoves DEF MoveStoryToTodo, locals, github, ecs,
    GivesUp
<1>23. CASE PostDispatchFailed
  BY <1>t, <1>23, ReturnsMoves DEF PostDispatchFailed, locals, github, ecs,
    GivesUp
<1>24. CASE FailedNotice
  BY <1>t, <1>24 DEF FailedNotice, Reply, locals, tracker, github, ecs,
    history
<1>25. CASE Redispatch
  BY <1>t, <1>25 DEF Redispatch
<1>26. CASE UNCHANGED <<control, locals, tracker, dispatch, answers, dropped>>
  BY <1>t, <1>26 DEF control, locals, tracker
<1>27. CASE UNCHANGED vars
  BY <1>26, <1>27 DEF vars, history
<1> QED
  BY <1>1, <1>2, <1>3, <1>4, <1>5, <1>6, <1>7, <1>8, <1>9, <1>10, <1>11,
    <1>12, <1>13, <1>14, <1>15, <1>16, <1>17, <1>18, <1>19, <1>20, <1>21,
    <1>22, <1>23, <1>24, <1>25, <1>26, <1>27, EnvironmentMoves DEF Next,
    Workflow

(* Nothing says a specialist is at work when none is, unless a courtesy    *)
(* call was lost or the dispatch has failed.                               *)
THEOREM ClaimsAreRetired == Spec => []ClaimsRetired
<1>1. Init => ClaimInv
  BY EndInvInit DEF Init, ClaimInv, ClaimsStand
<1>2. ClaimInv => ClaimsRetired
  BY DEF ClaimInv, ClaimsStand, ClaimsRetired, EndInv, TypeInv, TypeOK, Located,
    Failing, Ended, Claims, CatchCalls, FirstBuild, AnyBuild
<1> QED
  BY <1>1, <1>2, ClaimInvStep, PTL DEF Spec

LEMMA SaidInvStep == SaidInv /\ [Next]_vars => SaidInv'
<1> SUFFICES ASSUME SaidInv, [Next]_vars PROVE SaidInv'
  OBVIOUS
<1> USE DEF SaidInv, NotWatchedIsSaid, Located, Watching, CatchCalls, FirstBuild,
      FirstPull, RoundPoints
<1>t. /\ TypeInv' /\ Located /\ attempt \in 1..MaxAttempts
      /\ revisionRound \in 0..RoundCap /\ RoundCap \in Nat \ {0}
  BY TypeInvStep, ConstantsAssumption DEF TypeInv, TypeOK
<1>1. CASE AttemptFails
  BY <1>t, <1>1, RetryMoves, GiveUpMoves DEF AttemptFails, locals, tracker,
    github, ecs, history, GivesUp, ThrowingCalls, SwallowingCalls
<1>2. CASE NonRetryableFailure
  BY <1>t, <1>2, GiveUpMoves DEF NonRetryableFailure, locals, tracker, github,
    ecs, history, GivesUp
<1>3. CASE CheckDependencies
  BY <1>t, <1>3, RetryMoves, GiveUpMoves DEF CheckDependencies, Reply,
    Conclude, locals, github, ecs, history, GivesUp
<1>4. CASE ResolveSurfaces
  BY <1>t, <1>4 DEF ResolveSurfaces, Reply, locals, tracker, github, ecs,
    history
<1>5. CASE CreateStoryBranch
  BY <1>t, <1>5, RetryMoves, GiveUpMoves DEF CreateStoryBranch, Reply,
    Conclude, locals, tracker, ecs, GivesUp
<1>6. CASE DispatchSpecialist
  BY <1>t, <1>6, RetryMoves, GiveUpMoves DEF DispatchSpecialist, Reply,
    Conclude, locals, tracker, github, GivesUp
<1>7. CASE PostSpecialistStarted
  BY <1>t, <1>7, ReturnsMoves DEF PostSpecialistStarted, PostClaim, Reply,
    github, ecs, GivesUp
<1>8. CASE AwaitSpecialistTask
  BY <1>t, <1>8 DEF AwaitSpecialistTask, AfterRun, AfterNotice, Reply, locals,
    tracker, github, history
<1>9. CASE DeleteProgressComment
  BY <1>t, <1>9, ReturnsMoves DEF DeleteProgressComment, RetireClaim,
    AfterRun, AfterNotice, locals, github, ecs, GivesUp
<1>10. CASE FindPullRequest
  BY <1>t, <1>10 DEF FindPullRequest, Reply, Conclude, tracker, github, ecs,
    history
<1>11. CASE MergeStoryPullRequest
  BY <1>t, <1>11, RetryMoves, GiveUpMoves DEF MergeStoryPullRequest, Reply,
    Conclude, locals, tracker, ecs, history, GivesUp
<1>12. CASE EnsureEpicPullRequest
  BY <1>t, <1>12 DEF EnsureEpicPullRequest, Reply, locals, tracker, github,
    ecs, history
<1>13. CASE RequestPullRequestReviewer
  BY <1>t, <1>13 DEF RequestPullRequestReviewer, Reply, tracker, github, ecs,
    history
<1>14. CASE UnmatchedNotice
  BY <1>t, <1>14, ReturnsMoves DEF UnmatchedNotice, Say, locals, github, ecs,
    GivesUp
<1>15. CASE PullDecided
  BY <1>t, <1>15 DEF PullDecided, Conclude, control, locals, github, ecs,
    history
<1>16. CASE PullStillOpen
  BY <1>t, <1>16 DEF PullStillOpen, Reply, locals, tracker, github, ecs,
    history
<1>17. CASE NothingNew
  BY <1>t, <1>17 DEF NothingNew, Reply, locals, tracker, github, ecs, history
<1>18. CASE NewRound
  BY <1>t, <1>18 DEF NewRound, StartRound, Newest, Candidates, Reply, tracker,
    github, ecs, history
<1>19. CASE StartedNotice
  BY <1>t, <1>19, ReturnsMoves DEF StartedNotice, PostClaim, Reply, github,
    ecs, GivesUp
<1>20. CASE EditNotice
  BY <1>t, <1>20, ReturnsMoves DEF EditNotice, RetireClaim, AfterNotice,
    locals, github, ecs, GivesUp
<1>21. CASE ExhaustedNotice
  BY <1>t, <1>21, ReturnsMoves DEF ExhaustedNotice, Say, locals, github, ecs,
    GivesUp
<1>22. CASE MoveStoryToTodo
  BY <1>t, <1>22, ReturnsMoves DEF MoveStoryToTodo, locals, github, ecs,
    GivesUp
<1>23. CASE PostDispatchFailed
  BY <1>t, <1>23, ReturnsMoves DEF PostDispatchFailed, locals, github, ecs,
    GivesUp
<1>24. CASE FailedNotice
  BY <1>t, <1>24 DEF FailedNotice, Reply, locals, tracker, github, ecs,
    history
<1>25. CASE Redispatch
  BY <1>t, <1>25 DEF Redispatch
<1>26. CASE UNCHANGED <<control, locals, tracker, dispatch, answers, dropped>>
  BY <1>t, <1>26 DEF control, locals, tracker
<1>27. CASE UNCHANGED vars
  BY <1>26, <1>27 DEF vars, history
<1> QED
  BY <1>1, <1>2, <1>3, <1>4, <1>5, <1>6, <1>7, <1>8, <1>9, <1>10, <1>11,
    <1>12, <1>13, <1>14, <1>15, <1>16, <1>17, <1>18, <1>19, <1>20, <1>21,
    <1>22, <1>23, <1>24, <1>25, <1>26, <1>27, EnvironmentMoves DEF Next,
    Workflow

(* A watch that will not act on change requests is never silent about it.  *)
THEOREM UnwatchedIsSaid == Spec => []NotWatchedIsSaid
<1>1. Init => SaidInv
  BY TypeInvInit DEF Init, SaidInv, NotWatchedIsSaid
<1>2. SaidInv => NotWatchedIsSaid
  BY DEF SaidInv
<1> QED
  BY <1>1, <1>2, SaidInvStep, PTL DEF Spec

(***************************************************************************)
(* Refinement of the contract.                                             *)
(***************************************************************************)
LEMMA ContractStep ==
  EndInv /\ [Next]_vars => [Contract!Next]_(Contract!vars)
<1> SUFFICES ASSUME EndInv, [Next]_vars PROVE [Contract!Next]_(Contract!vars)
  OBVIOUS
<1> USE DEF Decided, CatchCalls, FirstBuild, AnyBuild, FirstPull, WatchPoints,
      RoundPoints, Phase, Ended, Contract!vars, Contract!Next, Contract!Watch,
      Contract!Revise, Contract!Decide, Contract!EndingFails, Contract!End,
      Contract!Again
<1>t. EndInv' /\ attempt \in 1..MaxAttempts /\ Decided /\ Decided'
  BY EndInvStep DEF EndInv, TypeInv, TypeOK
<1>1. CASE AttemptFails
  BY <1>t, <1>1, RetryMoves, GiveUpMoves DEF AttemptFails, locals, tracker,
    github, ecs, history, GivesUp, ThrowingCalls, SwallowingCalls
<1>2. CASE NonRetryableFailure
  BY <1>t, <1>2, GiveUpMoves DEF NonRetryableFailure, locals, tracker, github,
    ecs, history, GivesUp
<1>3. CASE CheckDependencies
  BY <1>t, <1>3, RetryMoves, GiveUpMoves DEF CheckDependencies, Reply,
    Conclude, locals, github, ecs, history, GivesUp
<1>4. CASE ResolveSurfaces
  BY <1>t, <1>4 DEF ResolveSurfaces, Reply, locals, tracker, github, ecs,
    history
<1>5. CASE CreateStoryBranch
  BY <1>t, <1>5, RetryMoves, GiveUpMoves DEF CreateStoryBranch, Reply,
    Conclude, locals, tracker, ecs, GivesUp
<1>6. CASE DispatchSpecialist
  BY <1>t, <1>6, RetryMoves, GiveUpMoves DEF DispatchSpecialist, Reply,
    Conclude, locals, tracker, github, GivesUp
<1>7. CASE PostSpecialistStarted
  BY <1>t, <1>7, ReturnsMoves DEF PostSpecialistStarted, PostClaim, Reply,
    github, ecs, GivesUp
<1>8. CASE AwaitSpecialistTask
  BY <1>t, <1>8 DEF AwaitSpecialistTask, AfterRun, AfterNotice, Reply, locals,
    tracker, github, history
<1>9. CASE DeleteProgressComment
  BY <1>t, <1>9, ReturnsMoves DEF DeleteProgressComment, RetireClaim,
    AfterRun, AfterNotice, locals, github, ecs, GivesUp
<1>10. CASE FindPullRequest
  BY <1>t, <1>10 DEF FindPullRequest, Reply, Conclude, tracker, github, ecs,
    history
<1>11. CASE MergeStoryPullRequest
  BY <1>t, <1>11, RetryMoves, GiveUpMoves DEF MergeStoryPullRequest, Reply,
    Conclude, locals, tracker, ecs, history, GivesUp
<1>12. CASE EnsureEpicPullRequest
  BY <1>t, <1>12 DEF EnsureEpicPullRequest, Reply, locals, tracker, github,
    ecs, history
<1>13. CASE RequestPullRequestReviewer
  BY <1>t, <1>13 DEF RequestPullRequestReviewer, Reply, tracker, github, ecs,
    history
<1>14. CASE UnmatchedNotice
  BY <1>t, <1>14, ReturnsMoves DEF UnmatchedNotice, Say, locals, github, ecs,
    GivesUp
<1>15. CASE PullDecided
  BY <1>t, <1>15 DEF PullDecided, Conclude, locals, github, ecs, history,
    Watched, control
<1>16. CASE PullStillOpen
  BY <1>t, <1>16 DEF PullStillOpen, Reply, locals, tracker, github, ecs,
    history
<1>17. CASE NothingNew
  BY <1>t, <1>17 DEF NothingNew, Reply, locals, tracker, github, ecs, history
<1>18. CASE NewRound
  <2>1. PICK id \in DOMAIN reviews : StartRound(id)
    BY <1>18 DEF NewRound
  <2>2. id \in Nat /\ id > afterReviewId /\ revisionRound < RoundCap
    BY <2>1, LenProperties
    DEF StartRound, Newest, Candidates, EndInv, TypeInv, TypeOK, Located, Watching
  <2>3. Contract!Revise
    BY <1>t, <2>1, <2>2 DEF StartRound, Reply
  <2> QED
    BY <2>3
<1>19. CASE StartedNotice
  BY <1>t, <1>19, ReturnsMoves DEF StartedNotice, PostClaim, Reply, github,
    ecs, GivesUp
<1>20. CASE EditNotice
  BY <1>t, <1>20, ReturnsMoves DEF EditNotice, RetireClaim, AfterNotice,
    locals, github, ecs, GivesUp
<1>21. CASE ExhaustedNotice
  BY <1>t, <1>21, ReturnsMoves DEF ExhaustedNotice, Say, locals, github, ecs,
    GivesUp
<1>22. CASE MoveStoryToTodo
  BY <1>t, <1>22, ReturnsMoves DEF MoveStoryToTodo, locals, github, ecs,
    GivesUp
<1>23. CASE PostDispatchFailed
  BY <1>t, <1>23, ReturnsMoves DEF PostDispatchFailed, locals, github, ecs,
    GivesUp
<1>24. CASE FailedNotice
  BY <1>t, <1>24 DEF FailedNotice, Reply, locals, tracker, github, ecs,
    history
<1>25. CASE Redispatch
  BY <1>t, <1>25 DEF Redispatch
<1>26. CASE UNCHANGED <<control, locals, tracker, dispatch, answers, dropped>>
  BY <1>t, <1>26 DEF control, locals, tracker
<1>27. CASE UNCHANGED vars
  BY <1>26, <1>27 DEF vars, history
<1> QED
  BY <1>1, <1>2, <1>3, <1>4, <1>5, <1>6, <1>7, <1>8, <1>9, <1>10, <1>11,
    <1>12, <1>13, <1>14, <1>15, <1>16, <1>17, <1>18, <1>19, <1>20, <1>21,
    <1>22, <1>23, <1>24, <1>25, <1>26, <1>27, EnvironmentMoves DEF Next,
    Workflow

(* The workflow with its activities, retries and humans implements the     *)
(* abstract dispatch: at most RoundCap rounds, each for a newer review, a  *)
(* watch that never fails, an ending that can only get worse.              *)
THEOREM DispatchKeepsContract == Spec => KeepsContract
<1>1. Init => Contract!Init
  BY DEF Init, Contract!Init, Phase, Ended
<1> QED
  BY <1>1, EndInvariance, ContractStep, PTL DEF Spec, KeepsContract, Contract!Spec

(***************************************************************************)
(* A fresh start, and an end after the specialist's.                       *)
(***************************************************************************)
(* Until the story branch was created or compared, what it inherited is    *)
(* still on it; afterwards the comparison must have failed to be read.     *)
Early == {"checkDependencies", "resolveSurfaces", "createStoryBranch"}
Inherits ==
  inherited => \/ pc \in Early /\ branch = "ahead"
               \/ "compare" \in dropped \/ outcome # "none"
FreshInv == EndInv /\ Inherits

(* The other actions leave the branch and what was inherited alone, forget *)
(* nothing that was dropped or decided, and leave the early activities     *)
(* only for the catch-all.                                                 *)
LEMMA StartChangers ==
  ASSUME EndInv, [Next]_vars
  PROVE  \/ CheckDependencies \/ CreateStoryBranch \/ MergeStoryPullRequest
         \/ ContainerPushes \/ HumanMerges \/ HumanDeletesBranch \/ Redispatch
         \/ /\ UNCHANGED <<branch, inherited>> /\ dropped \subseteq dropped'
            /\ outcome # "none" => outcome' # "none"
            /\ pc \in Early => pc' \in Early \/ outcome' # "none"
<1> SUFFICES ASSUME ~(CheckDependencies \/ CreateStoryBranch \/ MergeStoryPullRequest
                      \/ ContainerPushes \/ HumanMerges \/ HumanDeletesBranch \/ Redispatch)
             PROVE  /\ UNCHANGED <<branch, inherited>> /\ dropped \subseteq dropped'
                    /\ outcome # "none" => outcome' # "none"
                    /\ pc \in Early => pc' \in Early \/ outcome' # "none"
  OBVIOUS
<1> USE DEF Early, GivesUp, locals, tracker, github, ecs, history, control
<1>t. attempt \in 1..MaxAttempts
  BY DEF EndInv, TypeInv, TypeOK
<1>1. CASE AttemptFails
  BY <1>t, <1>1, RetryMoves DEF AttemptFails
<1>2. CASE NonRetryableFailure
  BY <1>2, GiveUpMoves DEF NonRetryableFailure
<1>3. CASE ResolveSurfaces
  BY <1>3 DEF ResolveSurfaces, Reply
<1>4. CASE DispatchSpecialist
  BY <1>t, <1>4, RetryMoves DEF DispatchSpecialist, Reply
<1>5. CASE PostSpecialistStarted \/ StartedNotice
  BY <1>t, <1>5, ReturnsMoves DEF PostSpecialistStarted, StartedNotice, PostClaim, Reply
<1>6. CASE AwaitSpecialistTask \/ EnsureEpicPullRequest \/ RequestPullRequestReviewer
           \/ FindPullRequest
  BY <1>6 DEF AwaitSpecialistTask, EnsureEpicPullRequest, RequestPullRequestReviewer,
    FindPullRequest, Reply, Conclude
<1>7. CASE DeleteProgressComment \/ EditNotice
  BY <1>t, <1>7, ReturnsMoves DEF DeleteProgressComment, EditNotice, RetireClaim
<1>8. CASE UnmatchedNotice \/ ExhaustedNotice
  BY <1>t, <1>8, ReturnsMoves DEF UnmatchedNotice, ExhaustedNotice, Say
<1>9. CASE PullDecided \/ PullStillOpen \/ NothingNew
  BY <1>9 DEF PullDecided, PullStillOpen, NothingNew, Reply, Conclude
<1>10. CASE NewRound
  BY <1>10 DEF NewRound, StartRound, Reply
<1>11. CASE MoveStoryToTodo \/ PostDispatchFailed
  BY <1>t, <1>11, ReturnsMoves DEF MoveStoryToTodo, PostDispatchFailed
<1>12. CASE FailedNotice
  BY <1>12 DEF FailedNotice, Reply
<1>13. CASE Environment
  BY <1>13 DEF Environment, ContainerOpensPull, AwaitedStops, OrphanStops, TaskForgotten,
    HumanCloses, HumanReviews
<1>14. CASE UNCHANGED vars
  BY <1>14 DEF vars
<1> QED
  BY <1>1, <1>2, <1>3, <1>4, <1>5, <1>6, <1>7, <1>8, <1>9, <1>10, <1>11, <1>12, <1>13,
    <1>14 DEF Next, Workflow

LEMMA FreshInvStep == FreshInv /\ [Next]_vars => FreshInv'
<1> SUFFICES ASSUME FreshInv, [Next]_vars PROVE FreshInv'
  OBVIOUS
<1> USE DEF FreshInv, Inherits, Early, GivesUp, locals, tracker, github, ecs, history, control
<1>t. EndInv' /\ Decided /\ attempt \in 1..MaxAttempts
  BY EndInvStep DEF EndInv, TypeInv, TypeOK
<1>1. CASE CheckDependencies
  BY <1>t, <1>1, RetryMoves DEF CheckDependencies, Reply, Conclude
<1>2. CASE CreateStoryBranch
  BY <1>t, <1>2, RetryMoves, GiveUpMoves DEF CreateStoryBranch, Reply
<1>3. CASE MergeStoryPullRequest
  BY <1>t, <1>3, RetryMoves DEF MergeStoryPullRequest, Reply, Conclude, Decided, FirstPull
<1>4. CASE ContainerPushes
  BY <1>t, <1>4 DEF ContainerPushes
<1>5. CASE HumanMerges
  BY <1>t, <1>5 DEF HumanMerges
<1>6. CASE HumanDeletesBranch
  BY <1>t, <1>6 DEF HumanDeletesBranch, Decided
<1>7. CASE Redispatch
  BY <1>t, <1>7 DEF Redispatch
<1>8. CASE /\ UNCHANGED <<branch, inherited>> /\ dropped \subseteq dropped'
           /\ outcome # "none" => outcome' # "none"
           /\ pc \in Early => pc' \in Early \/ outcome' # "none"
  BY <1>t, <1>8
<1> QED
  BY <1>1, <1>2, <1>3, <1>4, <1>5, <1>6, <1>7, <1>8, StartChangers

(* No first build runs on the commits of an earlier dispatch, unless the   *)
(* comparison that would have found them could not be read                 *)
(* (create-story-branch.ts, its refusal of an existing branch).            *)
THEOREM DispatchesStartFresh == Spec => []FreshStart
<1>1. Init => FreshInv
  BY EndInvInit DEF Init, FreshInv, Inherits
<1>2. FreshInv => FreshStart
  BY DEF FreshInv, Inherits, FreshStart, Early, EndInv, Decided, AnyBuild
<1> QED
  BY <1>1, <1>2, FreshInvStep, PTL DEF Spec

(* A container the workflow holds runs only between its start and the end  *)
(* of the wait for it.                                                     *)
RunsWhileAwaited ==
  ~Timeouts /\ awaited = "running" => pc \in {"postSpecialistStarted", "awaitSpecialistTask"}
AwaitInv == TypeInv /\ RunsWhileAwaited

LEMMA AwaitChangers ==
  ASSUME [Next]_vars
  PROVE  \/ DispatchSpecialist \/ AwaitSpecialistTask \/ AwaitedStops \/ TaskForgotten
         \/ Redispatch \/ UNCHANGED awaited
BY DEF Next, Workflow, Environment, vars, locals, ecs, AttemptFails,
  NonRetryableFailure, CheckDependencies, ResolveSurfaces, CreateStoryBranch,
  PostSpecialistStarted, StartedNotice, PostClaim, DeleteProgressComment, EditNotice,
  RetireClaim, FindPullRequest, MergeStoryPullRequest, EnsureEpicPullRequest,
  RequestPullRequestReviewer, UnmatchedNotice, ExhaustedNotice, Say, PullDecided,
  PullStillOpen, NothingNew, NewRound, StartRound, MoveStoryToTodo, PostDispatchFailed,
  FailedNotice, ContainerPushes, ContainerOpensPull, OrphanStops, HumanMerges, HumanCloses,
  HumanReviews, HumanDeletesBranch

(* Where a container may be running, the workflow goes on to the wait and  *)
(* stays there: neither a courtesy post nor the wait gives up.             *)
LEMMA WaitsOn ==
  ASSUME [Next]_vars, ~Timeouts,
         pc \in {"postSpecialistStarted", "awaitSpecialistTask"}
  PROVE  \/ AwaitSpecialistTask
         \/ pc' \in {"postSpecialistStarted", "awaitSpecialistTask"}
<1> USE DEF control
<1>1. CASE Workflow
  BY <1>1 DEF Workflow, AttemptFails, ThrowingCalls, NonRetryableFailure, CheckDependencies,
    ResolveSurfaces, CreateStoryBranch, DispatchSpecialist, PostSpecialistStarted, PostClaim,
    Returns, Reply, DeleteProgressComment, FindPullRequest, MergeStoryPullRequest,
    EnsureEpicPullRequest, RequestPullRequestReviewer, UnmatchedNotice, PullDecided,
    PullStillOpen, NothingNew, NewRound, StartRound, StartedNotice, EditNotice,
    ExhaustedNotice, MoveStoryToTodo, PostDispatchFailed, FailedNotice
<1>2. CASE Environment
  BY <1>2, EnvironmentMoves DEF Redispatch
<1>3. CASE UNCHANGED vars
  BY <1>3 DEF vars
<1> QED
  BY <1>1, <1>2, <1>3 DEF Next

LEMMA AwaitInvStep == AwaitInv /\ [Next]_vars => AwaitInv'
<1> SUFFICES ASSUME AwaitInv, [Next]_vars, ~Timeouts, awaited' = "running"
             PROVE  pc' \in {"postSpecialistStarted", "awaitSpecialistTask"}
  BY TypeInvStep DEF AwaitInv, RunsWhileAwaited
<1>1. CASE DispatchSpecialist
  <2>1. CASE awaited = "running"
    BY <1>1, <2>1 DEF AwaitInv, RunsWhileAwaited, DispatchSpecialist
  <2>2. CASE awaited # "running"
    BY <1>1, <2>2 DEF DispatchSpecialist, Reply
  <2> QED
    BY <2>1, <2>2
<1>2. CASE UNCHANGED awaited
  <2>1. pc \in {"postSpecialistStarted", "awaitSpecialistTask"}
    BY <1>2 DEF AwaitInv, RunsWhileAwaited
  <2>2. ~AwaitSpecialistTask
    BY <1>2 DEF AwaitSpecialistTask
  <2> QED
    BY <2>1, <2>2, WaitsOn
<1> QED
  BY <1>1, <1>2, AwaitChangers DEF AwaitSpecialistTask, AwaitedStops, TaskForgotten, Redispatch

(* As long as no worker dies, a dispatch does not end under its own        *)
(* specialist: of the calls around it only the wait can end the wait       *)
(* (dispatch-story-workflow.ts, around awaitSpecialistTask).               *)
THEOREM DispatchesOutliveTheirSpecialist == Spec => [](Timeouts \/ EndsAfterItsSpecialist)
<1>1. Init => AwaitInv
  BY TypeInvInit DEF Init, AwaitInv, RunsWhileAwaited
<1>2. AwaitInv => Timeouts \/ EndsAfterItsSpecialist
  BY ConstantsAssumption DEF AwaitInv, RunsWhileAwaited, EndsAfterItsSpecialist, Ended
<1> QED
  BY <1>1, <1>2, AwaitInvStep, PTL DEF Spec

=============================================================================
