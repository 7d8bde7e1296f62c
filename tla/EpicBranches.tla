---------------------------- MODULE EpicBranches ----------------------------
(***************************************************************************)
(* The stories of one epic and the branches they share: createStoryBranch  *)
(* of create-story-branch.ts and the two activities of story-merge.ts, one *)
(* step for each request to GitHub, for several stories at once.  A branch *)
(* is the set of the commits it contains, and "no branch" is a 404.        *)
(*                                                                         *)
(* The rest of a dispatch is DispatchStory's; here its specialist pushes a *)
(* commit, or stops.                                                       *)
(***************************************************************************)
EXTENDS Naturals

CONSTANTS
  Stories,        \* stories of the epic, of one repository
  MaxAttempts,    \* attempts of an activity, 3 in the code
  MaxDispatches,  \* bound: dispatches of one story
  MaxBase,        \* bound: commits others push to the base branch
  Absent          \* no such branch

ASSUME EpicAssumption ==
  /\ MaxAttempts \in Nat \ {0} /\ MaxDispatches \in Nat /\ MaxBase \in Nat

VARIABLES
  base,        \* the surface's registry ref
  epic,        \* the epic branch
  epicPull,    \* whether the epic's pull request is open
  story,       \* each story's branch
  pull,        \* each story's pull request, the newest: "none", "open", "closed", "merged"
  at,          \* the request each story's dispatch makes next
  sha,         \* the head it has in hand
  attempt,     \* attempt of the activity
  dispatches,  \* dispatches so far
  cut,         \* history: this dispatch created its story's branch
  cause,       \* history: what the last request that failed died of
  lapsed       \* history: a merge went by without a request for the epic's pull

vars == <<base, epic, epicPull, story, pull, at, sha, attempt, dispatches, cut, cause, lapsed>>

Commits == {<<"base", n>> : n \in 0..MaxBase} \cup (Stories \X (1..MaxDispatches))
Branches == (SUBSET Commits) \cup {Absent}

ASSUME AbsentAssumption == \A commits \in SUBSET Commits : commits # Absent

(* The requests, by activity: createStoryBranch, mergeStoryPullRequest,    *)
(* ensureEpicPullRequest.                                                  *)
Creating == {"read_epic", "read_base", "create_epic", "reread_epic", "create_story", "compare"}
Merging == {"read_pull", "merge", "notice"}
Ensuring == {"list_epic_pulls", "open_epic_pull"}
Ended == {"idle", "refused", "failed", "unmerged", "merged"}

TypeOK ==
  /\ base \in SUBSET Commits /\ epic \in Branches /\ epicPull \in BOOLEAN
  /\ story \in [Stories -> Branches]
  /\ pull \in [Stories -> {"none", "open", "closed", "merged"}]
  /\ at \in [Stories -> Creating \cup Merging \cup Ensuring \cup {"build", "watch"} \cup Ended]
  /\ sha \in [Stories -> SUBSET Commits]
  /\ attempt \in [Stories -> 1..MaxAttempts]
  /\ dispatches \in [Stories -> 0..MaxDispatches]
  /\ cut \in [Stories -> BOOLEAN]
  /\ cause \in [Stories -> {"none", "transient", "final"}]
  /\ lapsed \in BOOLEAN

Init ==
  /\ base = {<<"base", 0>>} /\ epic = Absent /\ epicPull = FALSE
  /\ story = [s \in Stories |-> Absent]
  /\ pull = [s \in Stories |-> "none"]
  /\ at = [s \in Stories |-> "idle"]
  /\ sha = [s \in Stories |-> {}]
  /\ attempt = [s \in Stories |-> 1]
  /\ dispatches = [s \in Stories |-> 0]
  /\ cut = [s \in Stories |-> FALSE]
  /\ cause = [s \in Stories |-> "none"]
  /\ lapsed = FALSE

-----------------------------------------------------------------------------
github == <<base, epic, epicPull, story, pull>>
history == <<cut, cause, lapsed>>
Goes(s, where) == at' = [at EXCEPT ![s] = where] /\ UNCHANGED attempt
Holding(s, head) == sha' = [sha EXCEPT ![s] = head]

(* The next activity begins with its first attempt.                        *)
Enters(s, where) == at' = [at EXCEPT ![s] = where] /\ attempt' = [attempt EXCEPT ![s] = 1]

(* An attempt throws, or what it did is not heard of: the activity starts  *)
(* over from its first request, until its attempts are used up.            *)
First(where) ==
  IF where \in Creating THEN "read_epic"
  ELSE IF where \in Merging THEN "read_pull"
  ELSE IF where \in Ensuring THEN "list_epic_pulls" ELSE where
Retries(s) ==
  IF attempt[s] < MaxAttempts
  THEN at' = [at EXCEPT ![s] = First(@)] /\ attempt' = [attempt EXCEPT ![s] = @ + 1]
  ELSE Goes(s, "failed")

Dispatch(s) ==
  /\ at[s] \in Ended /\ dispatches[s] < MaxDispatches
  /\ dispatches' = [dispatches EXCEPT ![s] = @ + 1]
  /\ Enters(s, "read_epic") /\ Holding(s, {})
  /\ cut' = [cut EXCEPT ![s] = FALSE] /\ cause' = [cause EXCEPT ![s] = "none"]
  /\ UNCHANGED <<github, lapsed>>

(* Its story is merged, and it is to see to the epic's pull request.       *)
OnItsWay(s) ==
  at[s] \in Ensuring \/ (at[s] \in Merging \cup {"watch"} /\ pull[s] = "merged")

Fails(s, how) ==
  /\ cause' = [cause EXCEPT ![s] = how]
  /\ lapsed' = (lapsed \/ (OnItsWay(s) /\ at'[s] = "failed"))
  /\ UNCHANGED <<github, sha, dispatches, cut>>

(* fetch throws: nothing in these activities catches it.                   *)
NetworkFails(s) ==
  /\ at[s] \in Creating \cup Merging \cup Ensuring
  /\ Retries(s) /\ Fails(s, "transient")

(* A 5xx, and a 4xx that is not the 404 or 422 of the actions below.       *)
ServerFails(s) ==
  /\ at[s] \in Creating \ {"compare"}
  /\ IF at[s] = "reread_epic" THEN Goes(s, "failed") ELSE Retries(s)
  /\ Fails(s, "transient")
ClientError(s) ==
  /\ at[s] \in Creating \ {"compare"}
  /\ Goes(s, "failed") /\ Fails(s, "final")

-----------------------------------------------------------------------------
(* epicBranchSha.  Only a 404 creates anything.                            *)
ReadEpic(s) ==
  /\ at[s] = "read_epic"
  /\ IF epic = Absent THEN Goes(s, "read_base") /\ UNCHANGED sha
     ELSE Goes(s, "create_story") /\ Holding(s, epic)
  /\ UNCHANGED <<github, dispatches, history>>

ReadBase(s) ==
  /\ at[s] = "read_base"
  /\ Goes(s, "create_epic") /\ Holding(s, base)
  /\ UNCHANGED <<github, dispatches, history>>

(* POST refs creates the branch or answers 422 "already exists"; after     *)
(* that the branch another story created is used, wherever it is.          *)
CreateEpic_TrustsBase(s) ==
  /\ at[s] = "create_epic"
  /\ epic' = IF epic = Absent THEN sha[s] ELSE epic
  /\ Goes(s, "create_story") \/ Retries(s)
  /\ UNCHANGED <<base, epicPull, story, pull, sha, dispatches, history>>
CreateEpic(s) ==
  /\ at[s] = "create_epic"
  /\ IF epic = Absent
     THEN epic' = sha[s] /\ (Goes(s, "create_story") \/ Retries(s))
     ELSE Goes(s, "reread_epic") /\ UNCHANGED epic
  /\ UNCHANGED <<base, epicPull, story, pull, sha, dispatches, history>>

RereadEpic(s) ==
  /\ at[s] = "reread_epic"
  /\ IF epic = Absent THEN Goes(s, "failed") /\ cause' = [cause EXCEPT ![s] = "final"] /\ UNCHANGED sha
     ELSE Goes(s, "create_story") /\ Holding(s, epic)
  /\ UNCHANGED <<github, dispatches, history>>

(* createStoryBranch.  A branch that exists is never moved.                *)
CreateStory(s) ==
  /\ at[s] = "create_story"
  /\ IF story[s] = Absent
     THEN /\ story' = [story EXCEPT ![s] = sha[s]]
          /\ cut' = [cut EXCEPT ![s] = TRUE]
          /\ Enters(s, "build") \/ Retries(s)
     ELSE Goes(s, "compare") /\ UNCHANGED <<story, cut>>
  /\ UNCHANGED <<base, epic, epicPull, pull, sha, dispatches, cause, lapsed>>

(* refuseAbandonedWork: ahead_by, against the epic branch as it is now; a  *)
(* comparison that cannot be read refuses nothing, nor one of a branch     *)
(* that is gone.                                                           *)
AheadBy(s) == IF story[s] = Absent \/ epic = Absent THEN {} ELSE story[s] \ epic
Compare_Heads(s) ==
  /\ at[s] = "compare"
  /\ \/ Enters(s, "build")
     \/ epic # Absent /\ story[s] \notin {Absent, epic} /\ Goes(s, "refused")
  /\ UNCHANGED <<github, sha, dispatches, history>>
Compare(s) ==
  /\ at[s] = "compare"
  /\ \/ Enters(s, "build")
     \/ AheadBy(s) # {} /\ Goes(s, "refused")
  /\ UNCHANGED <<github, sha, dispatches, history>>

-----------------------------------------------------------------------------
(* The specialist pushes its commit and opens a pull request, or leaves    *)
(* what it has pushed, or nothing, as it must where its branch is gone.    *)
Build(s) ==
  /\ at[s] = "build"
  /\ LET built == [story EXCEPT ![s] = @ \cup {<<s, dispatches[s]>>}]
     IN  \/ /\ story[s] # Absent /\ story' = built /\ pull' = [pull EXCEPT ![s] = "open"]
            /\ Enters(s, "read_pull")
         \/ /\ story' = story \/ (story[s] # Absent /\ story' = built)
            /\ Goes(s, "unmerged") /\ UNCHANGED pull
  /\ UNCHANGED <<base, epic, epicPull, sha, dispatches, history>>

(* mergeStoryPullRequest.  Merged already is success, if the answer can be *)
(* read; PUT merge merges what is open, or refuses it for whatever reason, *)
(* and then a notice leaves it to the reviewer, whose merge the dispatch   *)
(* watches for.                                                            *)
ReadPull(s) ==
  /\ at[s] = "read_pull"
  /\ (pull[s] = "merged" /\ Enters(s, "list_epic_pulls")) \/ Goes(s, "merge")
  /\ UNCHANGED <<github, sha, dispatches, history>>

MergesInto(s) ==
  /\ pull[s] = "open" /\ epic # Absent
  /\ epic' = epic \cup story[s] /\ pull' = [pull EXCEPT ![s] = "merged"]
MergeStory(s) ==
  /\ at[s] = "merge"
  /\ \/ /\ MergesInto(s) /\ (Enters(s, "list_epic_pulls") \/ Retries(s))
        /\ lapsed' = (lapsed \/ at'[s] = "failed")
     \/ Goes(s, "notice") /\ UNCHANGED <<epic, pull, lapsed>>
  /\ UNCHANGED <<base, epicPull, story, sha, dispatches, cut, cause>>

PostNotice(s) ==
  /\ at[s] = "notice" /\ Enters(s, "watch")
  /\ UNCHANGED <<github, sha, dispatches, history>>

Watch(s) ==
  /\ at[s] = "watch"
  /\ IF pull[s] = "merged" THEN Enters(s, "list_epic_pulls") ELSE Goes(s, "unmerged")
  /\ UNCHANGED <<github, sha, dispatches, history>>

(* ensureEpicPullRequest: a list that cannot be read counts as empty, and  *)
(* whatever POST pulls answers but 201 is taken for null.                  *)
ListEpicPulls_FirstOnly(s) ==
  /\ at[s] = "list_epic_pulls"
  /\ IF epicPull \/ \E t \in Stories : at[t] = "merged"
     THEN Goes(s, "merged") ELSE Goes(s, "open_epic_pull")
  /\ UNCHANGED <<github, sha, dispatches, history>>
ListEpicPulls(s) ==
  /\ at[s] = "list_epic_pulls"
  /\ (epicPull /\ Goes(s, "merged")) \/ Goes(s, "open_epic_pull")
  /\ UNCHANGED <<github, sha, dispatches, history>>

OpenEpicPull(s) ==
  /\ at[s] = "open_epic_pull"
  /\ IF ~epicPull /\ epic # Absent /\ ~(epic \subseteq base)
     THEN \/ epicPull' = TRUE /\ (Goes(s, "merged") \/ Retries(s)) /\ UNCHANGED lapsed
          \/ UNCHANGED epicPull /\ Goes(s, "merged") /\ lapsed' = TRUE
     ELSE Goes(s, "merged") /\ UNCHANGED <<epicPull, lapsed>>
  /\ UNCHANGED <<base, epic, story, pull, sha, dispatches, cut, cause>>

-----------------------------------------------------------------------------
(* People, on GitHub.                                                      *)
others == <<at, sha, attempt, dispatches, cut, cause>>

(* At any time: where no dispatch waits for it, nobody asks for the epic's *)
(* pull request afterwards.                                                *)
PersonMergesStory(s) ==
  /\ MergesInto(s)
  /\ lapsed' = (lapsed \/ at[s] \notin Merging \cup {"watch"})
  /\ UNCHANGED <<base, epicPull, story, others>>

(* At any time too, and an open pull request closes with its branch; but   *)
(* a push of the specialist's brings the branch back as it was.            *)
PersonDeletesStory(s) ==
  /\ at[s] # "build" /\ story[s] # Absent /\ story' = [story EXCEPT ![s] = Absent]
  /\ pull' = IF pull[s] = "open" THEN [pull EXCEPT ![s] = "closed"] ELSE pull
  /\ UNCHANGED <<base, epic, epicPull, others, lapsed>>

(* The epic's pull request is merged; its branch may be deleted with it,   *)
(* though not under a dispatch that has just read it.                      *)
PersonMergesEpic ==
  /\ epicPull /\ epicPull' = FALSE
  /\ base' = base \cup epic
  /\ epic' \in {epic} \cup {gone \in {Absent} : \A s \in Stories : at[s] \notin Creating}
  /\ UNCHANGED <<story, pull, others, lapsed>>

BaseMoves ==
  /\ \E n \in 1..MaxBase : <<"base", n>> \notin base /\ base' = base \cup {<<"base", n>>}
  /\ UNCHANGED <<epic, epicPull, story, pull, others, lapsed>>

Next ==
  \/ \E s \in Stories :
       \/ Dispatch(s) \/ NetworkFails(s) \/ ServerFails(s) \/ ClientError(s)
       \/ ReadEpic(s) \/ ReadBase(s) \/ CreateEpic(s) \/ RereadEpic(s)
       \/ CreateStory(s) \/ Compare(s) \/ Build(s)
       \/ ReadPull(s) \/ MergeStory(s) \/ PostNotice(s) \/ Watch(s)
       \/ ListEpicPulls(s) \/ OpenEpicPull(s)
       \/ PersonMergesStory(s) \/ PersonDeletesStory(s)
  \/ PersonMergesEpic \/ BaseMoves

Spec == Init /\ [][Next]_vars

-----------------------------------------------------------------------------
(* Properties.                                                             *)

(* "An existing epic branch is never moved", only grown by merges: however *)
(* the stories race to create it, none takes a commit away from another    *)
(* (create-story-branch.ts:11-12).                                         *)
EpicOnlyGrows == [][epic # Absent /\ epic' # Absent => epic \subseteq epic']_vars

(* A story's branch starts from its epic: whichever story created that,    *)
(* and wherever its base has moved, the branch it cuts holds nothing that  *)
(* its pull request would bring in uncalled (create-story-branch.ts:       *)
(* 114-119).                                                               *)
CutFromEpic ==
  [][\A s \in Stories : story[s] = Absent /\ story'[s] # Absent =>
       epic # Absent /\ story'[s] \subseteq epic]_vars

(* A dispatch never refuses the branch it has itself created, whatever     *)
(* replies were lost and however its epic has moved since                  *)
(* (create-story-branch.ts:14-17, 141-146).                                *)
OwnBranchIsAccepted == \A s \in Stories : at[s] = "refused" => ~cut[s]

(* Merged stories are on display: while no request for it went wrong, work *)
(* the base does not have is in an open pull request, or a dispatch whose  *)
(* story is merged is about to open one (story-merge.ts:1-7).              *)
MergedIsOnDisplay ==
  lapsed \/ epic = Absent \/ epic \subseteq base \/ epicPull \/ \E s \in Stories : OnItsWay(s)

(***************************************************************************)
(* What the repository says and the code does not do (README, section 5).  *)
(* The run's configuration refutes each of these when it is added to it.   *)
(***************************************************************************)
(* create-story-branch.ts:26-29: "A 5xx or a network-level failure might   *)
(* be transient, so those throw a plain Error and stay retryable."         *)
TransientIsRetried ==
  \A s \in Stories : at[s] = "failed" /\ cause[s] = "transient" => attempt[s] = MaxAttempts
=============================================================================
