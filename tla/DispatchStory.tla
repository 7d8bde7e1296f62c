--------------------------- MODULE DispatchStory ---------------------------
(***************************************************************************)
(* One story of the specialist tier, from the moment its dispatch starts:  *)
(* dispatchStoryWorkflow (dispatch-worker/src/workflows) run by Temporal,  *)
(* the activities it calls, and what those activities meet: the story and  *)
(* its comments in Linear, the story branch, its pull requests and their   *)
(* reviews on GitHub, and the specialist containers on ECS.                *)
(*                                                                         *)
(* One action is one attempt of one activity, because Temporal runs every  *)
(* activity at least once and an attempt may take effect and still be      *)
(* reported as failed.  Humans and containers move between any two of them.*)
(* pc is the activity the workflow is waiting for.  When a dispatch has    *)
(* ended a human may send the story round again (Redispatch).              *)
(***************************************************************************)
EXTENDS Integers, Sequences, FiniteSets

CONSTANTS
  RoundCap,       \* REVISION_ROUND_CAP, 3 in the code
  MaxAttempts,    \* retry.maximumAttempts of the short activities, 3 in the code
  PageSize,       \* how many reviews one GET .../reviews returns (GitHub: 30)
  Timeouts,       \* may an attempt of a swallow-everything activity die with its worker
  EcsExpires,     \* may ECS forget a stopped task before it is described
  MaxDispatches,  \* bound: dispatches of the story
  MaxOrphans,     \* bound: containers whose RunTask reply was lost, at one time
  MaxPulls,       \* bound: pull requests opened for the branch pair
  MaxReviews      \* bound: reviews submitted

ASSUME ConstantsAssumption ==
  /\ RoundCap \in Nat \ {0} /\ MaxAttempts \in Nat \ {0} /\ PageSize \in Nat
  /\ Timeouts \in BOOLEAN /\ EcsExpires \in BOOLEAN
  /\ MaxDispatches \in Nat \ {0} /\ MaxOrphans \in Nat
  /\ MaxPulls \in Nat /\ MaxReviews \in Nat

VARIABLES
  pc,              \* the activity awaited, or "end"
  attempt,         \* its attempt number
  outcome,         \* what the workflow will return; "none" until decided
  revisionRound,   \* revision rounds started
  afterReviewId,   \* watermark: the last review acted on, 0 for null
  openPullRequest, \* number of the pull request found, 0 for null
  reviewerLogin,   \* did the mover resolve to a GitHub login
  held,            \* ids held: of the "progress" comment, of the round's "notice"
  status,          \* the story's status in the tracker
  told,            \* what this dispatch said on the story or on the pull request
  shown,           \* standing claims that work is running: "progress", "notice"
  branch,          \* story branch: "absent", "level" with the epic branch, "ahead"
  pulls,           \* the branch pair's pull requests, by number
  reviews,         \* reviews, by id
  awaited,         \* the container whose ARN the workflow holds
  orphans,         \* running containers whose ARN nobody holds
  dispatch,        \* history: number of this dispatch
  inherited,       \* history: the branch was ahead when this dispatch began
  answers,         \* history: the review each round's container was given
  dropped          \* history: best-effort calls of this dispatch that did not land

control == <<pc, attempt, outcome>>
locals  == <<revisionRound, afterReviewId, openPullRequest, reviewerLogin, held>>
tracker == <<status, told, shown>>
github  == <<branch, pulls, reviews>>
ecs     == <<awaited, orphans>>
history == <<dispatch, inherited, answers, dropped>>
vars    == <<control, locals, tracker, github, ecs, history>>

(* The activities by how they fail.  The first two groups throw; of the    *)
(* rest nothing but the worker's own death fails an attempt.               *)
ThrowingCalls_Watch == {"checkDependencies", "dispatchSpecialist", "watchState"}
ThrowingCalls_Courtesy == {"checkDependencies", "postSpecialistStarted"}
ThrowingCalls == {"checkDependencies", "resolveSurfaces", "createStoryBranch",
                  "dispatchSpecialist", "findPullRequest",
                  "mergeStoryPullRequest", "ensureEpicPullRequest"}
UnlimitedCalls == {"awaitSpecialistTask", "watchState", "watchReviews"}
CatchCalls == {"postDispatchFailed", "failedNotice", "failedTodo"}
SwallowingCalls == {"postSpecialistStarted", "deleteProgressComment",
                    "requestPullRequestReviewer", "unmatchedNotice",
                    "startedNotice", "editNotice", "exhaustedNotice",
                    "moveStoryToTodo"} \cup CatchCalls
Points == ThrowingCalls \cup UnlimitedCalls \cup SwallowingCalls \cup {"end"}

Outcomes == {"none", "not-ready", "no-pr", "merged", "closed", "failed", "aborted"}
Claims == {"progress", "notice"}
Tellings == {"blocked", "merged", "closed", "failed", "unmatched", "exhausted"}
Pulls == [state: {"open", "merged", "closed"}, dispatch: Nat]
Reviews == [pull: Nat, change: BOOLEAN]

TypeOK ==
  /\ pc \in Points /\ attempt \in 1..MaxAttempts /\ outcome \in Outcomes
  /\ revisionRound \in 0..RoundCap /\ afterReviewId \in Nat
  /\ openPullRequest \in Nat /\ reviewerLogin \in BOOLEAN /\ held \subseteq Claims
  /\ status \in {"Todo", "InProgress"}
  /\ told \subseteq Tellings /\ shown \subseteq Claims
  /\ branch \in {"absent", "level", "ahead"}
  /\ pulls \in Seq(Pulls) /\ reviews \in Seq(Reviews)
  /\ awaited \in {"none", "running", "stopped", "gone"} /\ orphans \in Nat
  /\ dispatch \in Nat /\ inherited \in BOOLEAN
  /\ answers \in [1..RoundCap -> Nat]
  /\ dropped \subseteq {"todo", "failed", "compare", "courtesy"}

(* A dispatch as the listener starts it: the story is In Progress, nothing *)
(* is known of its branch.                                                 *)
Init ==
  /\ pc = "checkDependencies" /\ attempt = 1 /\ outcome = "none"
  /\ revisionRound = 0 /\ afterReviewId = 0 /\ openPullRequest = 0
  /\ reviewerLogin = FALSE /\ held = {}
  /\ status = "InProgress" /\ told = {} /\ shown = {}
  /\ branch = "absent" /\ pulls = <<>> /\ reviews = <<>>
  /\ awaited = "none" /\ orphans = 0
  /\ dispatch = 1 /\ inherited = FALSE
  /\ answers = [r \in 1..RoundCap |-> 0] /\ dropped = {}

(***************************************************************************)
(* How an attempt ends.                                                    *)
(***************************************************************************)
Reply(next) == pc' = next /\ attempt' = 1 /\ UNCHANGED outcome

Conclude(result, next) == pc' = next /\ attempt' = 1 /\ outcome' = result

(* The activity has failed for good: the catch-all takes over, or, when    *)
(* the catch-all itself was running, the workflow fails there and then.    *)
GiveUp_Silent ==
  IF pc \in CatchCalls THEN Conclude("aborted", "end")
                       ELSE Conclude("failed", "failedTodo")
GiveUp ==
  IF pc \in CatchCalls THEN Conclude("aborted", "end")
                       ELSE Conclude("failed", "postDispatchFailed")

Retry_NoLimit == attempt' = (attempt % MaxAttempts) + 1 /\ UNCHANGED <<pc, outcome>>
Retry ==
  \/ attempt < MaxAttempts /\ attempt' = attempt + 1 /\ UNCHANGED <<pc, outcome>>
  \/ attempt = MaxAttempts /\ GiveUp

(* An activity that swallows its own errors returns, unless its worker     *)
(* dies or the five minutes run out after the call took effect.            *)
Returns(next) == Reply(next) \/ (Timeouts /\ Retry)

(* An attempt throws, or dies, with nothing done.                          *)
AttemptFails ==
  /\ pc \in ThrowingCalls \/ (Timeouts /\ pc \in SwallowingCalls)
  /\ Retry
  /\ UNCHANGED <<locals, tracker, github, ecs, history>>

(* ApplicationFailure.nonRetryable: no second attempt.                     *)
NonRetryableFailure ==
  /\ pc \in {"resolveSurfaces", "createStoryBranch", "findPullRequest"}
  /\ GiveUp
  /\ UNCHANGED <<locals, tracker, github, ecs, history>>

(***************************************************************************)
(* The activities up to the first build.                                   *)
(***************************************************************************)
CheckDependencies ==
  /\ pc = "checkDependencies"
  /\ \/ Reply("resolveSurfaces") /\ UNCHANGED told
     \/ /\ told' = told \cup {"blocked"}
        /\ Conclude("not-ready", "moveStoryToTodo") \/ Retry
  /\ UNCHANGED <<locals, status, shown, github, ecs, history>>

ResolveSurfaces ==
  /\ pc = "resolveSurfaces"
  /\ Reply("createStoryBranch")
  /\ UNCHANGED <<locals, tracker, github, ecs, history>>

(* POST refs: either the branch is new, or it exists and is compared.  A   *)
(* comparison that cannot be read lets the dispatch proceed.               *)
CreateStoryBranch_Idempotent ==
  /\ pc = "createStoryBranch"
  /\ branch' = IF branch = "absent" THEN "level" ELSE branch
  /\ Reply("dispatchSpecialist") \/ Retry
  /\ UNCHANGED <<locals, tracker, pulls, reviews, ecs, history>>
CreateStoryBranch ==
  /\ pc = "createStoryBranch"
  /\ \/ /\ branch = "absent" /\ branch' = "level" /\ UNCHANGED dropped
        /\ Reply("dispatchSpecialist") \/ Retry
     \/ /\ branch # "absent" /\ UNCHANGED branch
        /\ \/ branch = "level" /\ Reply("dispatchSpecialist") /\ UNCHANGED dropped
           \/ branch = "ahead" /\ GiveUp /\ UNCHANGED dropped
           \/ Reply("dispatchSpecialist") /\ dropped' = dropped \cup {"compare"}
  /\ UNCHANGED <<locals, tracker, pulls, reviews, ecs, dispatch, inherited, answers>>

(* RunTask carries no client token that outlives an attempt: a reply that  *)
(* is lost leaves a running container, and the next attempt starts another.*)
DispatchSpecialist ==
  /\ pc = "dispatchSpecialist"
  /\ answers' = IF revisionRound = 0 THEN answers
                ELSE [answers EXCEPT ![revisionRound] = afterReviewId]
  /\ \/ Reply("postSpecialistStarted") /\ awaited' = "running" /\ UNCHANGED orphans
     \/ orphans < MaxOrphans /\ orphans' = orphans + 1 /\ Retry /\ UNCHANGED awaited
  /\ UNCHANGED <<locals, tracker, github, dispatch, inherited, dropped>>

(* A courtesy post: it lands and its id is returned; or null is returned,  *)
(* whether or not the post landed; or the attempt dies and runs again.     *)
PostClaim(claim, next) ==
  /\ \/ /\ Reply(next) /\ held' = held \cup {claim}
        /\ shown' = shown \cup {claim} /\ UNCHANGED dropped
     \/ /\ Returns(next) /\ held' = held \ {claim}
        /\ shown' \in {shown, shown \cup {claim}}
        /\ dropped' = dropped \cup {"courtesy"}
  /\ UNCHANGED <<revisionRound, afterReviewId, openPullRequest, reviewerLogin>>
  /\ UNCHANGED <<status, told, github, ecs, dispatch, inherited, answers>>

(* Removing (the progress comment) or rewriting (the notice) such a post.  *)
RetireClaim(claim, next) ==
  /\ Returns(next)
  /\ \/ shown' = shown \ {claim} /\ UNCHANGED dropped
     \/ UNCHANGED shown /\ dropped' = dropped \cup {"courtesy"}
  /\ UNCHANGED <<locals, status, told, github, ecs, dispatch, inherited, answers>>

PostSpecialistStarted ==
  pc = "postSpecialistStarted" /\ PostClaim("progress", "awaitSpecialistTask")

Watching == revisionRound < RoundCap /\ reviewerLogin

(* Where a run that is over leads: the first build to its pull request, a  *)
(* revision round to its notice and back to the watch.                     *)
AfterNotice_OffByOne == IF revisionRound > RoundCap THEN "exhaustedNotice" ELSE "watchState"
AfterNotice == IF revisionRound >= RoundCap THEN "exhaustedNotice" ELSE "watchState"
AfterRun_NoEdit == IF revisionRound = 0 THEN "findPullRequest" ELSE AfterNotice
AfterRun == IF revisionRound = 0 THEN "findPullRequest"
            ELSE IF "notice" \in held THEN "editNotice" ELSE AfterNotice

AwaitSpecialistTask ==
  /\ pc = "awaitSpecialistTask" /\ awaited = "stopped" /\ awaited' = "none"
  /\ Reply(IF "progress" \in held THEN "deleteProgressComment" ELSE AfterRun)
  /\ UNCHANGED <<locals, tracker, github, orphans, history>>

DeleteProgressComment ==
  pc = "deleteProgressComment" /\ RetireClaim("progress", AfterRun)

(***************************************************************************)
(* The pull request.                                                       *)
(***************************************************************************)
Newest(n, S) == n \in S /\ \A m \in S : m <= n
Open == {n \in DOMAIN pulls : pulls[n].state = "open"}

(* Open ones first; else the newest of the closed, if it was merged.       *)
IsPicked(n) ==
  \/ Newest(n, Open)
  \/ Open = {} /\ Newest(n, DOMAIN pulls) /\ pulls[n].state = "merged"

FindPullRequest ==
  /\ pc = "findPullRequest"
  /\ \/ \E n \in DOMAIN pulls :
          IsPicked(n) /\ openPullRequest' = n /\ Reply("mergeStoryPullRequest")
     \/ /\ \A n \in DOMAIN pulls : ~IsPicked(n)
        /\ Conclude("no-pr", "moveStoryToTodo") /\ UNCHANGED openPullRequest
  /\ UNCHANGED <<revisionRound, afterReviewId, reviewerLogin, held>>
  /\ UNCHANGED <<tracker, github, ecs, history>>

SetPull(n, state) == pulls' = [pulls EXCEPT ![n].state = state]

(* Already merged; merged now, as a merge commit; or refused.              *)
MergeStoryPullRequest_Trusting ==
  /\ pc = "mergeStoryPullRequest"
  /\ Conclude("merged", "ensureEpicPullRequest")
  /\ UNCHANGED <<locals, tracker, github, ecs, history>>
MergeStoryPullRequest ==
  /\ pc = "mergeStoryPullRequest"
  /\ \/ /\ pulls[openPullRequest].state = "merged" /\ UNCHANGED <<pulls, branch>>
        /\ Conclude("merged", "ensureEpicPullRequest")
     \/ /\ pulls[openPullRequest].state = "open"
        /\ SetPull(openPullRequest, "merged") /\ branch' = "level"
        /\ Conclude("merged", "ensureEpicPullRequest") \/ Retry
     \/ Reply("requestPullRequestReviewer") /\ UNCHANGED <<pulls, branch>>
  /\ UNCHANGED <<locals, tracker, reviews, ecs, history>>

EnsureEpicPullRequest ==
  /\ pc = "ensureEpicPullRequest"
  /\ Reply("end")
  /\ UNCHANGED <<locals, tracker, github, ecs, history>>

RequestPullRequestReviewer ==
  /\ pc = "requestPullRequestReviewer"
  /\ \/ reviewerLogin' = TRUE /\ Reply("watchState")
     \/ reviewerLogin' = FALSE /\ Reply("unmatchedNotice")
  /\ UNCHANGED <<revisionRound, afterReviewId, openPullRequest, held>>
  /\ UNCHANGED <<tracker, github, ecs, history>>

(* A notice nobody edits later.  A failed revision round's says nothing    *)
(* that the story does not.                                                *)
Say(what, next) ==
  /\ Returns(next)
  /\ \/ told' = told \cup {what} /\ UNCHANGED dropped
     \/ UNCHANGED told /\ dropped' = dropped \cup {"courtesy"}
  /\ UNCHANGED <<locals, status, shown, github, ecs, dispatch, inherited, answers>>

UnmatchedNotice == pc = "unmatchedNotice" /\ Say("unmatched", "watchState")

(***************************************************************************)
(* The watch: one poll reads the pull request, then its reviews.           *)
(***************************************************************************)
Watched == pulls[openPullRequest].state

(* The terminal comment is posted inside the activity: when it cannot be,  *)
(* or its reply is lost, the attempt fails and the poll starts over.       *)
PullDecided_NoHandBack ==
  /\ pc = "watchState" /\ Watched # "open"
  /\ told' = told \cup {Watched}
  /\ Conclude(Watched, IF Watched = "merged" THEN "ensureEpicPullRequest" ELSE "end")
  /\ UNCHANGED <<locals, status, shown, github, ecs, history>>
PullDecided_MergedOnly ==
  /\ pc = "watchState" /\ Watched = "merged"
  /\ told' = told \cup {Watched}
  /\ Conclude("merged", "ensureEpicPullRequest")
  /\ UNCHANGED <<locals, status, shown, github, ecs, history>>
PullDecided ==
  /\ pc = "watchState" /\ Watched # "open"
  /\ told' = told \cup {Watched}
  /\ \/ Watched = "merged" /\ Conclude("merged", "ensureEpicPullRequest")
     \/ Watched = "closed" /\ Conclude("closed", "moveStoryToTodo")
     \/ UNCHANGED control
  /\ UNCHANGED <<locals, status, shown, github, ecs, history>>

PullStillOpen ==
  /\ pc = "watchState" /\ Watched = "open" /\ Watching
  /\ Reply("watchReviews")
  /\ UNCHANGED <<locals, tracker, github, ecs, history>>

(* The first page of the watched pull request's reviews, oldest first.     *)
Earlier(id) == {j \in DOMAIN reviews : j < id /\ reviews[j].pull = openPullRequest}
OnFirstPage(id) == Cardinality(Earlier(id)) < PageSize
Candidates_NoWatermark == {id \in DOMAIN reviews :
                 /\ reviews[id].pull = openPullRequest /\ OnFirstPage(id)
                 /\ reviews[id].change}
Candidates_NullOnly == {id \in DOMAIN reviews :
                 /\ reviews[id].pull = openPullRequest /\ OnFirstPage(id)
                 /\ reviews[id].change /\ afterReviewId = 0}
Candidates == {id \in DOMAIN reviews :
                 /\ reviews[id].pull = openPullRequest /\ OnFirstPage(id)
                 /\ reviews[id].change /\ id > afterReviewId}

StartRound(id) ==
  /\ pc = "watchReviews" /\ Newest(id, Candidates)
  /\ revisionRound' = revisionRound + 1 /\ afterReviewId' = id
  /\ Reply("startedNotice")
  /\ UNCHANGED <<openPullRequest, reviewerLogin, held, tracker, github, ecs, history>>

NewRound == \E id \in DOMAIN reviews : StartRound(id)

(* No such review, or this poll could not read them.                       *)
NothingNew ==
  /\ pc = "watchReviews"
  /\ Reply("watchState")
  /\ UNCHANGED <<locals, tracker, github, ecs, history>>

StartedNotice == pc = "startedNotice" /\ PostClaim("notice", "dispatchSpecialist")
EditNotice == pc = "editNotice" /\ RetireClaim("notice", AfterNotice)
ExhaustedNotice == pc = "exhaustedNotice" /\ Say("exhausted", "watchState")

(***************************************************************************)
(* Handing the story back, and the catch-all.                              *)
(***************************************************************************)
(* Whatever the status is by now, it becomes Todo; or the call is lost.    *)
MoveStoryToTodo ==
  /\ pc \in {"moveStoryToTodo", "failedTodo"}
  /\ Returns("end")
  /\ \/ status' = "Todo" /\ UNCHANGED dropped
     \/ UNCHANGED status /\ dropped' = dropped \cup {"todo"}
  /\ UNCHANGED <<locals, told, shown, github, ecs, dispatch, inherited, answers>>

PostDispatchFailed ==
  /\ pc = "postDispatchFailed"
  /\ Returns(IF openPullRequest # 0 /\ revisionRound > 0 THEN "failedNotice" ELSE "failedTodo")
  /\ \/ told' = told \cup {"failed"} /\ UNCHANGED dropped
     \/ UNCHANGED told /\ dropped' = dropped \cup {"failed"}
  /\ UNCHANGED <<locals, status, shown, github, ecs, dispatch, inherited, answers>>

FailedNotice ==
  /\ pc = "failedNotice"
  /\ Reply("failedTodo")
  /\ UNCHANGED <<locals, tracker, github, ecs, history>>

Workflow ==
  \/ AttemptFails \/ NonRetryableFailure
  \/ CheckDependencies \/ ResolveSurfaces \/ CreateStoryBranch
  \/ DispatchSpecialist \/ PostSpecialistStarted \/ AwaitSpecialistTask
  \/ DeleteProgressComment \/ FindPullRequest \/ MergeStoryPullRequest
  \/ EnsureEpicPullRequest \/ RequestPullRequestReviewer \/ UnmatchedNotice
  \/ PullDecided \/ PullStillOpen \/ NothingNew
  \/ NewRound
  \/ StartedNotice \/ EditNotice \/ ExhaustedNotice
  \/ MoveStoryToTodo \/ PostDispatchFailed \/ FailedNotice

(***************************************************************************)
(* Containers, ECS, and the people around the story.                       *)
(***************************************************************************)
Building == orphans > 0 \/ (awaited = "running" /\ revisionRound = 0)

ContainerPushes ==
  /\ awaited = "running" \/ orphans > 0
  /\ branch # "ahead" /\ branch' = "ahead"
  /\ UNCHANGED <<control, locals, tracker, pulls, reviews, ecs, history>>

(* A first build opens the pull request; GitHub allows one open at a time. *)
ContainerOpensPull ==
  /\ Building /\ branch = "ahead" /\ Open = {} /\ Len(pulls) < MaxPulls
  /\ pulls' = Append(pulls, [state |-> "open", dispatch |-> dispatch])
  /\ UNCHANGED <<control, locals, tracker, branch, reviews, ecs, history>>

AwaitedStops ==
  /\ awaited = "running" /\ awaited' = "stopped"
  /\ UNCHANGED <<control, locals, tracker, github, orphans, history>>

OrphanStops ==
  /\ orphans > 0 /\ orphans' = orphans - 1
  /\ UNCHANGED <<control, locals, tracker, github, awaited, history>>

TaskForgotten ==
  /\ EcsExpires /\ awaited = "stopped" /\ awaited' = "gone"
  /\ UNCHANGED <<control, locals, tracker, github, orphans, history>>

(* A person merging may choose a squash, which leaves the branch ahead.    *)
HumanMerges ==
  /\ \E n \in Open : SetPull(n, "merged")
  /\ branch' \in {"level", "ahead"}
  /\ inherited' = (inherited /\ branch' = "ahead")
  /\ UNCHANGED <<control, locals, tracker, reviews, ecs, dispatch, answers, dropped>>

HumanCloses ==
  /\ \E n \in Open : SetPull(n, "closed")
  /\ UNCHANGED <<control, locals, tracker, branch, reviews, ecs, history>>

(* change: a "request changes" review by the reviewer-of-record.           *)
HumanReviews ==
  /\ Len(reviews) < MaxReviews
  /\ \E n \in Open, change \in BOOLEAN :
       reviews' = Append(reviews, [pull |-> n, change |-> change])
  /\ UNCHANGED <<control, locals, tracker, branch, pulls, ecs, history>>

(* The remedy the refusal names, though a person may delete the branch at  *)
(* any time: an open pull request closes with it, and what an earlier      *)
(* dispatch left on it is gone.                                            *)
HumanDeletesBranch ==
  /\ branch # "absent" /\ branch' = "absent" /\ inherited' = FALSE
  /\ pulls' = [n \in DOMAIN pulls |->
                 IF n \in Open THEN [pulls[n] EXCEPT !.state = "closed"] ELSE pulls[n]]
  /\ UNCHANGED <<control, locals, tracker, reviews, ecs, dispatch, answers, dropped>>

(* The story is moved into In Progress again after its dispatch ended: a   *)
(* new execution under the same workflow id.  A container the old one was  *)
(* waiting for is nobody's now.                                            *)
Redispatch ==
  /\ pc = "end" /\ dispatch < MaxDispatches /\ dispatch' = dispatch + 1
  /\ pc' = "checkDependencies" /\ attempt' = 1 /\ outcome' = "none"
  /\ revisionRound' = 0 /\ afterReviewId' = 0 /\ openPullRequest' = 0
  /\ reviewerLogin' = FALSE /\ held' = {}
  /\ status' = "InProgress" /\ told' = {} /\ shown' = {} /\ dropped' = {}
  /\ awaited' = "none"
  /\ orphans' = IF awaited = "running" THEN orphans + 1 ELSE orphans
  /\ inherited' = (branch = "ahead")
  /\ answers' = [r \in 1..RoundCap |-> 0]
  /\ UNCHANGED github

Environment ==
  \/ ContainerPushes \/ ContainerOpensPull \/ AwaitedStops \/ OrphanStops
  \/ TaskForgotten
  \/ HumanMerges \/ HumanCloses \/ HumanReviews \/ HumanDeletesBranch
  \/ Redispatch

Next == Workflow \/ Environment

Spec == Init /\ [][Next]_vars

(* Temporal keeps attempting what is due, a specialist's turn budget ends  *)
(* its container, and GitHub's reviews are readable again and again.       *)
(* Nothing is assumed of people, of orphans, or of ECS's memory.           *)
Fairness == WF_vars(Workflow) /\ WF_vars(AwaitedStops) /\ SF_vars(NewRound)
LiveSpec == Spec /\ Fairness

(***************************************************************************)
(* Safety.                                                                 *)
(***************************************************************************)
Ended == pc = "end"

(* Every path that ends without a merged pull request hands the story back *)
(* to a developer: it is In Progress only if the move itself did not land, *)
(* or the catch-all died (README, "Moving back to Todo").                  *)
HandedBack ==
  Ended /\ status = "InProgress" =>
    outcome \in {"merged", "aborted"} \/ "todo" \in dropped

(* Never silent: a dispatch that stops because its story is not ready, its *)
(* pull request was closed or something failed says so, unless the one     *)
(* comment that would say it did not land.  An end without a pull request  *)
(* is told by the specialist, if at all (SpecialistRunner), and one whose  *)
(* catch-all died by nobody.                                               *)
NeverSilent ==
  Ended => /\ outcome = "not-ready" => "blocked" \in told
           /\ outcome = "closed" => "closed" \in told
           /\ outcome = "failed" => "failed" \in told \cup dropped

(* What the workflow returns about its pull request is so, whoever merged  *)
(* or closed it, and however many merge calls were lost on the way.        *)
OutcomeIsTrue ==
  Ended => /\ outcome \in {"merged", "closed"} => Watched = outcome
           /\ outcome = "no-pr" => openPullRequest = 0

(* Each revision container is given a "request changes" review of the      *)
(* reviewer-of-record on the watched pull request, newer than that of      *)
(* every round before it: no review is answered twice, none out of order.  *)
AnswersAreFresh ==
  \A r \in 1..RoundCap : answers[r] # 0 =>
    /\ r <= revisionRound
    /\ answers[r] \in DOMAIN reviews
    /\ reviews[answers[r]].change /\ reviews[answers[r]].pull = openPullRequest
    /\ \A q \in 1..(r - 1) : answers[q] < answers[r]

(* Once nothing runs, neither the story nor the pull request goes on       *)
(* claiming that a specialist is at work, unless a courtesy call was lost. *)
ClaimsRetired ==
  /\ pc \in {"findPullRequest", "watchState"} \/ (Ended /\ outcome \notin {"failed", "aborted"})
  /\ shown # {}
  => "courtesy" \in dropped

(* A reviewer whose change requests will go nowhere has been told so on    *)
(* the pull request before the watch that ignores them.                    *)
NotWatchedIsSaid ==
  pc = "watchState" /\ ~Watching =>
    told \cap {"unmatched", "exhausted"} # {} \/ "courtesy" \in dropped

(* A re-dispatch is a fresh start: no first build runs on commits that an  *)
(* earlier dispatch left behind, unless the comparison could not be read.  *)
FreshStart ==
  pc = "awaitSpecialistTask" /\ inherited => "compare" \in dropped

(* As long as no worker dies, a dispatch does not end under its own        *)
(* specialist: a courtesy call that fails never fails the dispatch.        *)
EndsAfterItsSpecialist == Ended => awaited # "running"

(* The dispatch keeps the abstract contract.                               *)
Phase ==
  IF Ended THEN "ended"
  ELSE IF outcome # "none" THEN "closing"
  ELSE IF pc \in {"watchState", "watchReviews"} THEN "watching" ELSE "working"
Contract == INSTANCE DispatchContract WITH
  phase <- Phase, round <- revisionRound, mark <- afterReviewId, result <- outcome
KeepsContract == Contract!Spec

(***************************************************************************)
(* Liveness.                                                               *)
(***************************************************************************)
AtWatch == pc \in {"watchState", "watchReviews"}

(* A dispatch never hangs in an activity: it reaches the watch or its end. *)
Settles == ~AtWatch ~> AtWatch \/ Ended

(* A pull request that has been merged or closed ends the dispatch.        *)
DecidedPullEnds == (AtWatch /\ Watched # "open") ~> Ended

(* While rounds remain, a change request on the open pull request is acted *)
(* on, or a newer one is, or the pull request is decided first.            *)
RequestsAnswered ==
  \A id \in 1..MaxReviews :
    (/\ AtWatch /\ Watching /\ id \in DOMAIN reviews /\ id > afterReviewId
     /\ reviews[id].change /\ reviews[id].pull = openPullRequest)
    ~> (afterReviewId >= id \/ (AtWatch /\ Watched # "open") \/ Ended)

(***************************************************************************)
(* What the repository says and the code does not do (README, section 5).  *)
(* StalePull.cfg checks the second; the others are refuted when they are   *)
(* added to Dispatch.cfg, the last under LiveSpec where ECS forgets tasks. *)
(***************************************************************************)
(* story-merge.ts: the epic's pull request is a courtesy, and failing to   *)
(* open it never fails the dispatch of a story that has been merged.       *)
EpicPullIsCourtesy ==
  [][pc = "ensureEpicPullRequest" => pc' \in {"ensureEpicPullRequest", "end"}]_vars

(* find-pull-request.ts: trusting a merged result does not resurrect the   *)
(* pull request of an earlier, unrelated attempt.                          *)
MergedPullIsThisDispatchs ==
  [][\A n \in DOMAIN pulls :
       pc = "findPullRequest" /\ openPullRequest' = n /\ pulls[n].state = "merged"
       => pulls[n].dispatch = dispatch]_vars

(* The workflow, where it finds no pull request: nothing is actively       *)
(* running anymore, so the story goes back to a developer.                 *)
NoPullNothingRunning ==
  Ended /\ outcome = "no-pr" => awaited # "running" /\ orphans = 0

(* The workflow, at the wait for the specialist: a run that outlasts the   *)
(* wait makes the workflow give up and move the story to Todo.             *)
WaitGivesUp == pc = "awaitSpecialistTask" ~> pc # "awaitSpecialistTask"

=============================================================================
