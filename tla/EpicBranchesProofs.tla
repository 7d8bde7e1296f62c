------------------------- MODULE EpicBranchesProofs -------------------------
(***************************************************************************)
(* Theorems about EpicBranches, for every set of stories and every bound.  *)
(***************************************************************************)
EXTENDS EpicBranches, TLAPS

(* A story that is past its first dispatch has one.                        *)
Counted == \A s \in Stories : at[s] # "idle" => dispatches[s] >= 1

(* A pull request is open from a branch.                                   *)
PullHasBranch == epicPull => epic # Absent

(* So is a story's.                                                        *)
Branched == \A s \in Stories : pull[s] = "open" => story[s] # Absent

(* What a dispatch knows where: the epic branch is there before a story's  *)
(* is created, and holds the head in hand.                                 *)
Grounded ==
  \A s \in Stories :
    /\ at[s] = "create_epic" => sha[s] \subseteq base
    /\ at[s] = "create_story" => epic # Absent /\ sha[s] \subseteq epic

(* The branch a dispatch has cut stays inside its epic until it builds.    *)
OwnInEpic ==
  \A s \in Stories : cut[s] /\ at[s] \in Creating /\ story[s] # Absent =>
    epic # Absent /\ story[s] \subseteq epic

TypeInv == TypeOK /\ Counted /\ Branched /\ PullHasBranch
EpicInv == TypeInv /\ Grounded
OwnInv == EpicInv /\ OwnInEpic /\ OwnBranchIsAccepted
DisplayInv == EpicInv /\ MergedIsOnDisplay

-----------------------------------------------------------------------------
(* Every place a dispatch can be, by the activity it belongs to.           *)
Places == Creating \cup Merging \cup Ensuring \cup {"build", "watch"} \cup Ended

LEMMA PlacesAre ==
  Places = {"read_epic", "read_base", "create_epic", "reread_epic", "create_story",
            "compare", "read_pull", "merge", "notice", "list_epic_pulls", "open_epic_pull", "build", "watch",
            "idle", "refused", "failed", "unmerged", "merged"}
  BY DEF Places, Creating, Merging, Ensuring, Ended

(* How a dispatch moves between requests keeps its place and its attempts. *)
LEMMA GoesType ==
  ASSUME TypeOK, NEW s \in Stories, NEW where \in Places, Goes(s, where)
  PROVE  /\ at' = [at EXCEPT ![s] = where]
         /\ at' \in [Stories -> Places]
         /\ attempt' \in [Stories -> 1..MaxAttempts]
  BY DEF Goes, TypeOK, Places

LEMMA EntersType ==
  ASSUME TypeOK, NEW s \in Stories, NEW where \in Places, Enters(s, where)
  PROVE  /\ at' = [at EXCEPT ![s] = where]
         /\ at' \in [Stories -> Places]
         /\ attempt' \in [Stories -> 1..MaxAttempts]
<1>1. 1 \in 1..MaxAttempts
  BY EpicAssumption DEF EpicAssumption
<1> QED BY <1>1 DEF Enters, TypeOK, Places

LEMMA RetriesType ==
  ASSUME TypeOK, NEW s \in Stories, at[s] # "idle", Retries(s)
  PROVE  /\ at' = [at EXCEPT ![s] = First(at[s])] \/ at' = [at EXCEPT ![s] = "failed"]
         /\ at' \in [Stories -> Places]
         /\ attempt' \in [Stories -> 1..MaxAttempts]
         /\ at'[s] \in {"read_epic", "read_pull", "list_epic_pulls", "failed", at[s]}
<1>1. at \in [Stories -> Places] /\ attempt \in [Stories -> 1..MaxAttempts]
  BY DEF TypeOK, Places
<1>2. /\ First(at[s]) \in Places /\ "failed" \in Places
      /\ First(at[s]) \in {"read_epic", "read_pull", "list_epic_pulls", at[s]}
  BY <1>1, PlacesAre DEF First, Creating
<1>3. CASE attempt[s] < MaxAttempts
  <2>1. at' = [at EXCEPT ![s] = First(@)] /\ attempt' = [attempt EXCEPT ![s] = @ + 1]
    BY <1>3 DEF Retries
  <2>2. attempt[s] + 1 \in 1..MaxAttempts
    BY <1>1, <1>3, EpicAssumption DEF EpicAssumption
  <2> QED BY <1>1, <1>2, <2>1, <2>2
<1>4. CASE ~(attempt[s] < MaxAttempts)
  BY <1>1, <1>2, <1>4 DEF Retries, Goes
<1> QED BY <1>3, <1>4

LEMMA RetryCreating ==
  ASSUME TypeOK, NEW s \in Stories, at[s] \in Creating, Retries(s)
  PROVE  /\ at' \in [Stories -> Places] /\ attempt' \in [Stories -> 1..MaxAttempts]
         /\ \E p \in {"read_epic", "failed"} : at' = [at EXCEPT ![s] = p]
<1>1. at[s] # "idle" /\ First(at[s]) = "read_epic"
  BY DEF First, Creating
<1> QED BY <1>1, RetriesType

-----------------------------------------------------------------------------
(* A branch holds commits, and a merge adds only such.                     *)
LEMMA BranchesHold ==
  ASSUME NEW b \in Branches, b # Absent
  PROVE  b \in SUBSET Commits
  BY DEF Branches

LEMMA MergeHolds ==
  ASSUME TypeOK, NEW s \in Stories, epic # Absent, story[s] # Absent
  PROVE  epic \cup story[s] \in Branches /\ epic \cup story[s] # Absent
<1>1. epic \in SUBSET Commits /\ story[s] \in SUBSET Commits
  BY BranchesHold DEF TypeOK
<1>2. epic \cup story[s] \in SUBSET Commits
  BY <1>1
<1> QED BY <1>2, AbsentAssumption DEF Branches

LEMMA TypeInit == Init => TypeInv
<1> SUFFICES ASSUME Init PROVE TypeInv
  OBVIOUS
<1>1. {<<"base", 0>>} \in SUBSET Commits
  BY EpicAssumption DEF EpicAssumption, Commits
<1>2. 1 \in 1..MaxAttempts /\ 0 \in 0..MaxDispatches
  BY EpicAssumption DEF EpicAssumption
<1> QED BY <1>1, <1>2 DEF Init, TypeInv, TypeOK, Counted, Branched, PullHasBranch, Branches, Ended

LEMMA TypeStep == TypeInv /\ [Next]_vars => TypeInv'
<1> SUFFICES ASSUME TypeInv, [Next]_vars PROVE TypeInv'
  OBVIOUS
<1> USE DEF TypeInv
<1>a. at \in [Stories -> Places]
  BY DEF TypeOK, Places
<1>b. ASSUME at' \in [Stories -> Places], UNCHANGED dispatches,
             \A s \in Stories : at[s] = "idle" => at'[s] = "idle"
      PROVE  Counted'
  BY <1>b DEF Counted
<1>c. ASSUME UNCHANGED <<story, pull>> PROVE Branched'
  BY <1>c DEF Branched
<1>d. ASSUME UNCHANGED epicPull, epic # Absent => epic' # Absent PROVE PullHasBranch'
  BY <1>d DEF PullHasBranch
<1>1. ASSUME NEW s \in Stories, Dispatch(s) PROVE TypeInv'
  <2>1. at' = [at EXCEPT ![s] = "read_epic"] /\ at' \in [Stories -> Places]
        /\ attempt' \in [Stories -> 1..MaxAttempts]
    BY <1>1, EntersType, PlacesAre DEF Dispatch
  <2>2. dispatches[s] + 1 \in 0..MaxDispatches /\ dispatches[s] + 1 >= 1
    BY <1>1, EpicAssumption DEF Dispatch, TypeOK, EpicAssumption
  <2>3. dispatches' \in [Stories -> 0..MaxDispatches]
    BY <1>1, <2>2 DEF Dispatch, TypeOK
  <2>4. Counted'
    BY <1>1, <2>1, <2>2, <1>a DEF Dispatch, TypeOK, Counted
  <2>5. Branched'
    BY <1>1, <1>c DEF Dispatch, github
  <2> QED BY <1>1, <2>1, <2>3, <2>4, <2>5 DEF Dispatch, TypeOK, PullHasBranch, Places, Holding, github
<1>2. ASSUME NEW s \in Stories, NetworkFails(s) \/ ServerFails(s) \/ ClientError(s)
      PROVE  TypeInv'
  <2>1. at[s] \in Creating \cup Merging \cup Ensuring
    BY <1>2 DEF NetworkFails, ServerFails, ClientError
  <2>2. at[s] # "idle"
    BY <2>1 DEF Creating, Merging, Ensuring
  <2>3. Retries(s) \/ Goes(s, "failed")
    BY <1>2 DEF NetworkFails, ServerFails, ClientError
  <2>4. /\ at' \in [Stories -> Places] /\ attempt' \in [Stories -> 1..MaxAttempts]
        /\ \E p \in Places : at' = [at EXCEPT ![s] = p]
    <3>1. First(at[s]) \in Places /\ "failed" \in Places
      BY <1>a, PlacesAre DEF First
    <3> QED BY <2>2, <2>3, <3>1, GoesType, RetriesType
  <2>5. \E how \in {"transient", "final"} : Fails(s, how)
    BY <1>2 DEF NetworkFails, ServerFails, ClientError
  <2>6. /\ cause' \in [Stories -> {"none", "transient", "final"}]
        /\ lapsed' \in BOOLEAN /\ UNCHANGED <<github, sha, dispatches, cut>>
    BY <2>5 DEF Fails, OnItsWay, TypeOK
  <2>7. Counted'
    BY <1>b, <1>a, <2>2, <2>4, <2>6
  <2>8. Branched'
    BY <1>c, <2>6 DEF github
  <2> QED BY <2>4, <2>6, <2>7, <2>8 DEF TypeOK, PullHasBranch, Places, github
<1>3. ASSUME NEW s \in Stories,
             ReadEpic(s) \/ ReadBase(s) \/ CreateEpic(s) \/ RereadEpic(s)
      PROVE  TypeInv'
  <2>1. at[s] \in Creating /\ at[s] # "idle"
    BY <1>3 DEF ReadEpic, ReadBase, CreateEpic, RereadEpic, Creating
  <2>2. \/ Retries(s)
        \/ \E p \in {"read_base", "create_epic", "reread_epic", "create_story", "failed"} : Goes(s, p)
    BY <1>3 DEF ReadEpic, ReadBase, CreateEpic, RereadEpic
  <2>3. /\ at' \in [Stories -> Places] /\ attempt' \in [Stories -> 1..MaxAttempts]
        /\ \E p \in Places : at' = [at EXCEPT ![s] = p]
    <3>2. CASE Retries(s)
      BY <3>2, <2>1, RetryCreating, PlacesAre
    <3>3. CASE \E p \in {"read_base", "create_epic", "reread_epic", "create_story", "failed"} : Goes(s, p)
      BY <3>3, GoesType, PlacesAre
    <3> QED BY <2>2, <3>2, <3>3
  <2>4. /\ sha' \in [Stories -> SUBSET Commits] /\ epic' \in Branches
        /\ epic # Absent => epic' # Absent
        /\ cause' \in [Stories -> {"none", "transient", "final"}]
        /\ UNCHANGED <<base, epicPull, story, pull, dispatches, cut, lapsed>>
    <3>1. epic # Absent => epic \in SUBSET Commits
      BY BranchesHold DEF TypeOK
    <3>2. sha[s] \in Branches /\ sha[s] # Absent
      BY AbsentAssumption DEF TypeOK, Branches
    <3> QED BY <1>3, <3>1, <3>2
            DEF ReadEpic, ReadBase, CreateEpic, RereadEpic, Holding, github, history, TypeOK
  <2>5. Counted'
    BY <1>b, <1>a, <2>1, <2>3, <2>4
  <2>6. Branched'
    BY <1>c, <2>4
  <2> QED BY <1>d, <2>3, <2>4, <2>5, <2>6 DEF TypeOK, Places
<1>4. ASSUME NEW s \in Stories, CreateStory(s) PROVE TypeInv'
  <2>1. at[s] \in Creating /\ at[s] # "idle"
    BY <1>4 DEF CreateStory, Creating
  <2>2. /\ story' \in [Stories -> Branches] /\ cut' \in [Stories -> BOOLEAN]
        /\ \A t \in Stories : story[t] # Absent => story'[t] # Absent
        /\ UNCHANGED <<base, epic, epicPull, pull, sha, dispatches, cause, lapsed>>
    <3>1. sha[s] \in Branches /\ sha[s] # Absent
      BY AbsentAssumption DEF TypeOK, Branches
    <3> QED BY <1>4, <3>1 DEF CreateStory, TypeOK
  <2>3. /\ at' \in [Stories -> Places] /\ attempt' \in [Stories -> 1..MaxAttempts]
        /\ \E p \in Places : at' = [at EXCEPT ![s] = p]
    <3>1. Retries(s) \/ Enters(s, "build") \/ Goes(s, "compare")
      BY <1>4 DEF CreateStory
    <3> QED BY <2>1, <3>1, RetryCreating, GoesType, EntersType, PlacesAre
  <2>4. Branched'
    BY <2>2 DEF Branched
  <2>5. Counted'
    BY <1>b, <1>a, <2>1, <2>3, <2>2
  <2> QED BY <1>d, <2>2, <2>3, <2>4, <2>5 DEF TypeOK, Places
<1>5. ASSUME NEW s \in Stories, Compare(s) PROVE TypeInv'
  <2>1. at[s] = "compare" /\ UNCHANGED <<github, sha, dispatches, history>>
    BY <1>5 DEF Compare
  <2>2. Enters(s, "build") \/ Goes(s, "refused")
    BY <1>5 DEF Compare
  <2>3. /\ at' \in [Stories -> Places] /\ attempt' \in [Stories -> 1..MaxAttempts]
        /\ \E p \in Places : at' = [at EXCEPT ![s] = p]
    BY <2>2, GoesType, EntersType, PlacesAre
  <2>5. Branched'
    BY <1>c, <2>1 DEF github
  <2>6. Counted'
    BY <1>b, <1>a, <2>1, <2>3
  <2> QED BY <2>1, <2>3, <2>5, <2>6 DEF TypeOK, PullHasBranch, Places, github, history
<1>6. ASSUME NEW s \in Stories, Build(s) PROVE TypeInv'
  <2>1. /\ at[s] = "build"
        /\ Enters(s, "read_pull") \/ Goes(s, "unmerged")
        /\ UNCHANGED <<base, epic, epicPull, sha, dispatches, cut, cause, lapsed>>
    BY <1>6 DEF Build, history
  <2>2. /\ at' \in [Stories -> Places] /\ attempt' \in [Stories -> 1..MaxAttempts]
        /\ \E p \in Places : at' = [at EXCEPT ![s] = p]
    BY <2>1, GoesType, EntersType, PlacesAre
  <2>3. <<s, dispatches[s]>> \in Commits
    BY <2>1, EpicAssumption DEF Counted, TypeOK, Commits, EpicAssumption
  <2>4. /\ story' \in [Stories -> Branches]
        /\ \A t \in Stories : story[t] # Absent => story'[t] # Absent
    <3> DEFINE built == [story EXCEPT ![s] = @ \cup {<<s, dispatches[s]>>}]
    <3>1. story' = story \/ (story[s] # Absent /\ story' = built)
      BY <1>6 DEF Build
    <3>2. ASSUME story[s] # Absent
          PROVE  /\ built \in [Stories -> Branches] /\ built[s] # Absent
                 /\ \A t \in Stories \ {s} : built[t] = story[t]
      <4>1. story[s] \in SUBSET Commits
        BY <3>2, BranchesHold DEF TypeOK
      <4>2. story[s] \cup {<<s, dispatches[s]>>} \in SUBSET Commits
        BY <2>3, <4>1
      <4>3. /\ story[s] \cup {<<s, dispatches[s]>>} \in Branches
            /\ story[s] \cup {<<s, dispatches[s]>>} # Absent
        BY <4>2, AbsentAssumption DEF Branches
      <4> QED BY <4>3 DEF TypeOK
    <3> HIDE DEF built
    <3> QED BY <3>1, <3>2 DEF TypeOK
  <2>5. /\ pull' \in [Stories -> {"none", "open", "closed", "merged"}]
        /\ \A t \in Stories : pull'[t] = "open" => pull[t] = "open" \/ story[t] # Absent
    BY <1>6 DEF Build, TypeOK
  <2>6. Branched'
    BY <2>4, <2>5 DEF Branched
  <2>7. Counted'
    BY <1>b, <1>a, <2>1, <2>2
  <2> QED BY <1>d, <2>1, <2>2, <2>4, <2>5, <2>6, <2>7 DEF TypeOK, Places
<1>7. ASSUME NEW s \in Stories, ReadPull(s) \/ MergeStory(s) \/ PostNotice(s) \/ Watch(s)
      PROVE  TypeInv'
  <2>1. at[s] \in Merging \cup {"watch"} /\ at[s] # "idle"
    BY <1>7 DEF ReadPull, MergeStory, PostNotice, Watch, Merging
  <2>2. \/ Retries(s) \/ \E p \in {"merge", "notice", "unmerged"} : Goes(s, p)
        \/ Enters(s, "list_epic_pulls") \/ Enters(s, "watch")
    BY <1>7 DEF ReadPull, MergeStory, PostNotice, Watch
  <2>3. /\ at' \in [Stories -> Places] /\ attempt' \in [Stories -> 1..MaxAttempts]
        /\ \E p \in Places : at' = [at EXCEPT ![s] = p]
    <3>1. First(at[s]) \in Places
      BY <1>a, <2>1, PlacesAre DEF First
    <3>2. CASE Retries(s)
      BY <2>1, <3>1, <3>2, RetriesType, PlacesAre
    <3>3. CASE ~Retries(s)
      BY <2>2, <3>3, GoesType, EntersType, PlacesAre
    <3> QED BY <3>2, <3>3
  <2>4. /\ epic' \in Branches /\ lapsed' \in BOOLEAN
        /\ epic # Absent => epic' # Absent
        /\ pull' \in [Stories -> {"none", "open", "closed", "merged"}] /\ Branched'
        /\ UNCHANGED <<base, epicPull, story, sha, dispatches, cut, cause>>
    <3>1. CASE MergeStory(s) /\ MergesInto(s)
      <4>1. epic' \in Branches /\ epic' # Absent
        BY <3>1, MergeHolds DEF MergesInto, Branched
      <4>2. lapsed' \in BOOLEAN
        BY <3>1 DEF MergeStory, TypeOK
      <4> QED BY <3>1, <4>1, <4>2 DEF MergeStory, MergesInto, TypeOK, Branched
    <3>2. CASE ~(MergeStory(s) /\ MergesInto(s))
      <4>1. UNCHANGED <<github, sha, dispatches, history>>
        BY <1>7, <3>2 DEF ReadPull, MergeStory, PostNotice, Watch, github, history
      <4> QED BY <4>1, <1>c DEF github, history, TypeOK
    <3> QED BY <3>1, <3>2
  <2>5. Counted'
    BY <1>b, <1>a, <2>1, <2>3, <2>4
  <2> QED BY <1>d, <2>3, <2>4, <2>5 DEF TypeOK, Places
<1>8. ASSUME NEW s \in Stories, ListEpicPulls(s) \/ OpenEpicPull(s) PROVE TypeInv'
  <2>1. at[s] # "idle" /\ at[s] \in Ensuring
    BY <1>8 DEF ListEpicPulls, OpenEpicPull, Ensuring
  <2>2. Retries(s) \/ Goes(s, "merged") \/ Goes(s, "open_epic_pull")
    BY <1>8 DEF ListEpicPulls, OpenEpicPull
  <2>3. /\ at' \in [Stories -> Places] /\ attempt' \in [Stories -> 1..MaxAttempts]
        /\ \E p \in Places : at' = [at EXCEPT ![s] = p]
    <3>1. First(at[s]) = "list_epic_pulls"
      BY <2>1 DEF First, Ensuring, Creating, Merging
    <3>2. CASE Retries(s)
      BY <2>1, <3>1, <3>2, RetriesType, PlacesAre
    <3>3. CASE ~Retries(s)
      BY <2>2, <3>3, GoesType, PlacesAre
    <3> QED BY <3>2, <3>3
  <2>4. /\ epicPull' \in BOOLEAN /\ lapsed' \in BOOLEAN
        /\ epicPull' => epicPull \/ epic # Absent
        /\ UNCHANGED <<base, epic, story, pull, sha, dispatches, cut, cause>>
    BY <1>8 DEF ListEpicPulls, OpenEpicPull, github, history, TypeOK
  <2>5. Counted'
    BY <1>b, <1>a, <2>1, <2>3, <2>4
  <2>6. Branched'
    BY <1>c, <2>4
  <2> QED BY <2>3, <2>4, <2>5, <2>6 DEF TypeOK, PullHasBranch, Places
<1>9. ASSUME NEW s \in Stories, PersonMergesStory(s) \/ PersonDeletesStory(s)
      PROVE  TypeInv'
  <2>1. CASE PersonMergesStory(s)
    <3>1. epic' \in Branches /\ epic' # Absent
      BY <2>1, MergeHolds DEF PersonMergesStory, MergesInto, Branched
    <3> QED BY <2>1, <3>1
            DEF PersonMergesStory, MergesInto, others, TypeOK, Counted, Branched, PullHasBranch
  <2>2. CASE PersonDeletesStory(s)
    <3>1. story' \in [Stories -> Branches]
      BY <2>2 DEF PersonDeletesStory, TypeOK, Branches
    <3>2. pull' \in [Stories -> {"none", "open", "closed", "merged"}] /\ pull'[s] # "open"
      BY <2>2 DEF PersonDeletesStory, TypeOK
    <3>3. Branched'
      BY <2>2, <3>2 DEF PersonDeletesStory, TypeOK, Branched
    <3> QED BY <2>2, <3>1, <3>2, <3>3
            DEF PersonDeletesStory, others, TypeOK, Counted, PullHasBranch
  <2> QED BY <1>9, <2>1, <2>2
<1>10. ASSUME PersonMergesEpic \/ BaseMoves PROVE TypeInv'
  <2>1. /\ UNCHANGED <<story, pull, others, lapsed>> /\ epicPull' \in BOOLEAN /\ PullHasBranch'
    <3>1. CASE PersonMergesEpic
      BY <3>1 DEF PersonMergesEpic, PullHasBranch
    <3>2. CASE BaseMoves
      BY <3>2 DEF BaseMoves, TypeOK, PullHasBranch
    <3> QED BY <1>10, <3>1, <3>2
  <2>2. base' \in SUBSET Commits /\ epic' \in Branches
    <3>1. CASE PersonMergesEpic
      <4>1. epic # Absent
        BY <3>1 DEF PersonMergesEpic, PullHasBranch
      <4> QED BY <3>1, <4>1, BranchesHold DEF PersonMergesEpic, TypeOK, Branches
    <3>2. CASE BaseMoves
      BY <3>2, EpicAssumption DEF BaseMoves, TypeOK, Commits, EpicAssumption
    <3> QED BY <1>10, <3>1, <3>2
  <2> QED BY <2>1, <2>2 DEF others, TypeOK, Counted, Branched
<1>11. CASE UNCHANGED vars
  BY <1>11 DEF vars, TypeOK, Counted, Branched, PullHasBranch
<1> QED BY <1>1, <1>2, <1>3, <1>4, <1>5, <1>6, <1>7, <1>8, <1>9, <1>10, <1>11 DEF Next

(* TypeOK holds throughout (EpicBranches.tla; the requests of              *)
(* create-story-branch.ts and story-merge.ts).                             *)
THEOREM EpicTypeCorrect == Spec => []TypeOK
<1>1. TypeInv => TypeOK
  BY DEF TypeInv
<1> QED BY <1>1, TypeInit, TypeStep, PTL DEF Spec

-----------------------------------------------------------------------------
(* Only these write the epic branch, and only the last takes it away.      *)
LEMMA EpicWriters ==
  ASSUME [Next]_vars
  PROVE  \/ epic' = epic
         \/ epic = Absent
         \/ \E s \in Stories : MergesInto(s)
         \/ epic' = Absent /\ \A s \in Stories : at[s] \notin Creating
<1>1. ASSUME NEW s \in Stories,
             \/ Dispatch(s) \/ NetworkFails(s) \/ ServerFails(s) \/ ClientError(s)
             \/ ReadEpic(s) \/ ReadBase(s) \/ RereadEpic(s)
             \/ CreateStory(s) \/ Compare(s) \/ Build(s) \/ ReadPull(s) \/ PostNotice(s)
             \/ Watch(s) \/ ListEpicPulls(s) \/ OpenEpicPull(s) \/ PersonDeletesStory(s)
      PROVE  epic' = epic
  BY <1>1 DEF Dispatch, NetworkFails, ServerFails, ClientError, Fails, ReadEpic, ReadBase,
              RereadEpic, CreateStory, Compare, Build, ReadPull, PostNotice, Watch,
              ListEpicPulls, OpenEpicPull, PersonDeletesStory, github
<1>2. ASSUME NEW s \in Stories, CreateEpic(s) PROVE epic = Absent \/ epic' = epic
  BY <1>2 DEF CreateEpic
<1>3. ASSUME NEW s \in Stories, MergeStory(s) \/ PersonMergesStory(s)
      PROVE  epic' = epic \/ MergesInto(s)
  BY <1>3 DEF MergeStory, PersonMergesStory
<1>4. ASSUME PersonMergesEpic
      PROVE  epic' = epic \/ (epic' = Absent /\ \A s \in Stories : at[s] \notin Creating)
  BY <1>4 DEF PersonMergesEpic
<1>5. ASSUME BaseMoves \/ UNCHANGED vars PROVE epic' = epic
  BY <1>5 DEF BaseMoves, vars
<1> QED BY <1>1, <1>2, <1>3, <1>4, <1>5 DEF Next

(* However many stories race to create it, the epic branch never loses a   *)
(* commit (create-story-branch.ts:11-12).                                  *)
THEOREM EpicGrows == Spec => EpicOnlyGrows
<1>1. [Next]_vars => (epic # Absent /\ epic' # Absent => epic \subseteq epic')
  BY EpicWriters DEF MergesInto
<1> QED BY <1>1, PTL DEF Spec, EpicOnlyGrows

-----------------------------------------------------------------------------
(* What is in an epic branch stays there while a dispatch is creating.     *)
LEMMA EpicStays ==
  ASSUME TypeInv, [Next]_vars, epic # Absent, NEW s \in Stories, at[s] \in Creating
  PROVE  epic' # Absent /\ epic \subseteq epic'
<1>1. ASSUME NEW t \in Stories, MergesInto(t) PROVE epic' # Absent /\ epic \subseteq epic'
  BY <1>1, MergeHolds DEF MergesInto, TypeInv, Branched
<1> QED BY <1>1, EpicWriters

LEMMA BaseGrows ==
  ASSUME [Next]_vars PROVE base \subseteq base'
<1>1. ASSUME NEW s \in Stories,
             \/ Dispatch(s) \/ NetworkFails(s) \/ ServerFails(s) \/ ClientError(s)
             \/ ReadEpic(s) \/ ReadBase(s) \/ CreateEpic(s) \/ RereadEpic(s)
             \/ CreateStory(s) \/ Compare(s) \/ Build(s)
             \/ ReadPull(s) \/ MergeStory(s) \/ PostNotice(s) \/ Watch(s)
             \/ ListEpicPulls(s) \/ OpenEpicPull(s)
             \/ PersonMergesStory(s) \/ PersonDeletesStory(s)
      PROVE  base' = base
  BY <1>1 DEF Dispatch, NetworkFails, ServerFails, ClientError, Fails, ReadEpic, ReadBase,
              CreateEpic, RereadEpic, CreateStory, Compare, Build, ReadPull, MergeStory,
              PostNotice, Watch,
              ListEpicPulls, OpenEpicPull, PersonMergesStory, PersonDeletesStory, github
<1>2. ASSUME PersonMergesEpic \/ BaseMoves \/ UNCHANGED vars PROVE base \subseteq base'
  BY <1>2 DEF PersonMergesEpic, BaseMoves, vars
<1> QED BY <1>1, <1>2 DEF Next

(* An attempt that starts over asks for no branch of its own.              *)
LEMMA RetryAsks ==
  ASSUME TypeOK, NEW s \in Stories, at[s] # "idle", Retries(s)
  PROVE  \E p \in Places \ {"create_epic", "create_story"} : at' = [at EXCEPT ![s] = p]
<1>1. at \in [Stories -> Places]
  BY DEF TypeOK, Places
<1>2. First(at[s]) \in Places \ {"create_epic", "create_story"}
  BY <1>1, PlacesAre DEF First, Creating
<1> QED BY <1>2, RetriesType, PlacesAre

LEMMA EpicInit == Init => EpicInv
  BY TypeInit DEF Init, EpicInv, Grounded

(* A dispatch that stays where it is, or goes nowhere that needs a head,   *)
(* disturbs nothing; sha is its own.                                       *)
LEMMA EpicStep == EpicInv /\ [Next]_vars => EpicInv'
<1> SUFFICES ASSUME EpicInv, [Next]_vars PROVE Grounded'
  BY TypeStep DEF EpicInv
<1>t. TypeOK /\ Counted /\ Branched /\ PullHasBranch /\ TypeOK'
  BY TypeStep DEF EpicInv, TypeInv
<1>a. at \in [Stories -> Places] /\ sha \in [Stories -> SUBSET Commits]
  BY <1>t DEF TypeOK, Places
<1>b. base \subseteq base'
  BY BaseGrows
<1>c. \A s \in Stories : at[s] \in Creating /\ epic # Absent =>
        epic' # Absent /\ epic \subseteq epic'
  BY EpicStays DEF EpicInv
<1>d. ASSUME NEW s \in Stories, NEW p \in Places, at' = [at EXCEPT ![s] = p],
             \A t \in Stories \ {s} : sha'[t] = sha[t],
             p = "create_epic" => sha'[s] \subseteq base,
             p = "create_story" => epic' # Absent /\ sha'[s] \subseteq epic'
      PROVE  Grounded'
  <2>1. ASSUME NEW t \in Stories \ {s} PROVE at'[t] = at[t] /\ sha'[t] = sha[t]
    BY <1>a, <1>d
  <2>2. at'[s] = p
    BY <1>a, <1>d
  <2> QED BY <1>b, <1>c, <1>d, <2>1, <2>2 DEF EpicInv, Grounded, Creating
<1>e. ASSUME NEW s \in Stories, UNCHANGED sha,
             \E p \in Places \ {"create_epic", "create_story"} : at' = [at EXCEPT ![s] = p]
      PROVE  Grounded'
  BY <1>d, <1>e
<1>1. ASSUME NEW s \in Stories, Dispatch(s) PROVE Grounded'
  <2>1. at' = [at EXCEPT ![s] = "read_epic"] /\ sha' = [sha EXCEPT ![s] = {}]
    BY <1>1 DEF Dispatch, Enters, Holding
  <2> QED BY <1>a, <1>d, <2>1, PlacesAre
<1>2. ASSUME NEW s \in Stories, NetworkFails(s) \/ ServerFails(s) \/ ClientError(s)
      PROVE  Grounded'
  <2>1. (Retries(s) \/ Goes(s, "failed")) /\ UNCHANGED sha /\ at[s] # "idle"
    BY <1>2 DEF NetworkFails, ServerFails, ClientError, Fails, Creating, Merging, Ensuring
  <2> QED BY <1>e, <1>t, <2>1, RetryAsks, GoesType, PlacesAre
<1>3. ASSUME NEW s \in Stories, ReadEpic(s) \/ RereadEpic(s) PROVE Grounded'
  <2>1. UNCHANGED epic
    BY <1>3 DEF ReadEpic, RereadEpic, github
  <2>2. CASE /\ epic # Absent /\ at' = [at EXCEPT ![s] = "create_story"]
             /\ sha' = [sha EXCEPT ![s] = epic]
    BY <1>a, <1>d, <2>1, <2>2, PlacesAre
  <2>3. CASE (Goes(s, "read_base") \/ Goes(s, "failed")) /\ UNCHANGED sha
    BY <1>e, <1>t, <2>3, GoesType, PlacesAre
  <2> QED BY <1>3, <2>2, <2>3 DEF ReadEpic, RereadEpic, Goes, Holding
<1>4. ASSUME NEW s \in Stories, ReadBase(s) PROVE Grounded'
  <2>1. at' = [at EXCEPT ![s] = "create_epic"] /\ sha' = [sha EXCEPT ![s] = base]
    BY <1>4 DEF ReadBase, Goes, Holding
  <2> QED BY <1>a, <1>d, <2>1, PlacesAre
<1>5. ASSUME NEW s \in Stories, CreateEpic(s) PROVE Grounded'
  <2>1. at[s] = "create_epic" /\ UNCHANGED sha
    BY <1>5 DEF CreateEpic
  <2>2. CASE epic = Absent /\ epic' = sha[s] /\ Goes(s, "create_story")
    <3>1. sha[s] # Absent
      BY <1>a, AbsentAssumption
    <3>2. at' = [at EXCEPT ![s] = "create_story"]
      BY <2>2 DEF Goes
    <3> QED BY <1>a, <1>d, <2>1, <2>2, <3>1, <3>2, PlacesAre
  <2>3. CASE Retries(s) \/ Goes(s, "reread_epic")
    BY <1>e, <1>t, <2>1, <2>3, RetryAsks, GoesType, PlacesAre
  <2> QED BY <1>5, <2>2, <2>3 DEF CreateEpic
<1>6. ASSUME NEW s \in Stories,
             \/ CreateStory(s) \/ Compare(s) \/ Build(s)
             \/ ReadPull(s) \/ MergeStory(s) \/ PostNotice(s) \/ Watch(s)
             \/ ListEpicPulls(s) \/ OpenEpicPull(s)
      PROVE  Grounded'
  <2>1. UNCHANGED sha /\ at[s] # "idle"
    BY <1>6 DEF CreateStory, Compare, Build, ReadPull, MergeStory, PostNotice, Watch,
                ListEpicPulls, OpenEpicPull
  <2>2. \/ Retries(s)
        \/ \E p \in {"compare", "refused", "merge", "notice", "unmerged", "merged",
                      "open_epic_pull"} : Goes(s, p)
        \/ \E p \in {"build", "read_pull", "watch", "list_epic_pulls"} : Enters(s, p)
    BY <1>6 DEF CreateStory, Compare, Build, ReadPull, MergeStory, PostNotice, Watch,
                ListEpicPulls, OpenEpicPull
  <2>3. CASE Retries(s)
    BY <1>e, <1>t, <2>1, <2>3, RetryAsks
  <2>4. CASE ~Retries(s)
    BY <1>e, <1>t, <2>1, <2>2, <2>4, GoesType, EntersType, PlacesAre
  <2> QED BY <2>3, <2>4
<1>7. ASSUME UNCHANGED <<at, sha>> PROVE Grounded'
  BY <1>b, <1>c, <1>7 DEF EpicInv, Grounded, Creating
<1>8. ASSUME NEW s \in Stories, PersonMergesStory(s) \/ PersonDeletesStory(s)
      PROVE  Grounded'
  BY <1>7, <1>8 DEF PersonMergesStory, PersonDeletesStory, others
<1>9. ASSUME PersonMergesEpic \/ BaseMoves PROVE Grounded'
  BY <1>7, <1>9 DEF PersonMergesEpic, BaseMoves, others
<1>10. CASE UNCHANGED vars
  BY <1>7, <1>10 DEF vars
<1> QED BY <1>1, <1>2, <1>3, <1>4, <1>5, <1>6, <1>8, <1>9, <1>10 DEF Next

(* A story's branch is cut from its epic (create-story-branch.ts:114-119), *)
(* wherever that or its base has moved in between.                         *)
THEOREM StoriesAreCutFromTheEpic == Spec => CutFromEpic
<1> DEFINE Cut == \A s \in Stories : story[s] = Absent /\ story'[s] # Absent =>
                    epic # Absent /\ story'[s] \subseteq epic
<1>1. EpicInv /\ [Next]_vars => Cut
  <2> SUFFICES ASSUME EpicInv, [Next]_vars, NEW s \in Stories,
                      story[s] = Absent, story'[s] # Absent
               PROVE  epic # Absent /\ story'[s] \subseteq epic
    OBVIOUS
  <2>1. ASSUME NEW t \in Stories, CreateStory(t)
        PROVE  epic # Absent /\ story'[s] \subseteq epic
    <3>1. story' = story \/ story' = [story EXCEPT ![t] = sha[t]]
      BY <2>1 DEF CreateStory
    <3>2. t = s /\ story'[s] = sha[s]
      BY <3>1 DEF EpicInv, TypeInv, TypeOK
    <3> QED BY <2>1, <3>2 DEF CreateStory, EpicInv, Grounded
  <2>2. ASSUME NEW t \in Stories, Build(t) PROVE FALSE
    <3>1. story' = story \/ (t # s /\ story'[s] = story[s])
      BY <2>2 DEF Build, EpicInv, TypeInv, TypeOK
    <3> QED BY <3>1
  <2>3. ASSUME NEW t \in Stories, PersonDeletesStory(t) PROVE FALSE
    BY <2>3 DEF PersonDeletesStory, EpicInv, TypeInv, TypeOK
  <2>4. story' # story
    OBVIOUS
  <2>5. ASSUME NEW t \in Stories,
               \/ Dispatch(t) \/ NetworkFails(t) \/ ServerFails(t) \/ ClientError(t)
               \/ ReadEpic(t) \/ ReadBase(t) \/ CreateEpic(t) \/ RereadEpic(t)
               \/ Compare(t) \/ ReadPull(t) \/ MergeStory(t) \/ PostNotice(t) \/ Watch(t)
               \/ ListEpicPulls(t) \/ OpenEpicPull(t) \/ PersonMergesStory(t)
        PROVE  FALSE
    BY <2>4, <2>5 DEF Dispatch, NetworkFails, ServerFails, ClientError, Fails, ReadEpic,
       ReadBase, CreateEpic, RereadEpic, Compare, ReadPull, MergeStory, PostNotice, Watch,
       ListEpicPulls, OpenEpicPull, PersonMergesStory, github
  <2>6. ~(PersonMergesEpic \/ BaseMoves \/ UNCHANGED vars)
    BY <2>4 DEF PersonMergesEpic, BaseMoves, vars
  <2> QED BY <2>1, <2>2, <2>3, <2>5, <2>6 DEF Next
<1>2. Cut => (\A s \in Stories : story[s] = Absent /\ story'[s] # Absent =>
                epic # Absent /\ story'[s] \subseteq epic)
  OBVIOUS
<1> HIDE DEF Cut
<1> QED BY <1>1, <1>2, EpicInit, EpicStep, PTL DEF Spec, CutFromEpic

-----------------------------------------------------------------------------
LEMMA OwnInit == Init => OwnInv
  BY EpicInit DEF Init, OwnInv, OwnInEpic, OwnBranchIsAccepted

LEMMA OwnStep == OwnInv /\ [Next]_vars => OwnInv'
<1> DEFINE Own == OwnInEpic /\ OwnBranchIsAccepted
<1> SUFFICES ASSUME OwnInv, [Next]_vars PROVE Own'
  BY EpicStep DEF OwnInv
<1>t. TypeOK
  BY DEF OwnInv, EpicInv, TypeInv
<1>a. at \in [Stories -> Places] /\ story \in [Stories -> Branches] /\ cut \in [Stories -> BOOLEAN]
  BY <1>t DEF TypeOK, Places
<1>c. \A s \in Stories : at[s] \in Creating /\ epic # Absent =>
        epic' # Absent /\ epic \subseteq epic'
  BY EpicStays DEF OwnInv, EpicInv
<1>d. ASSUME NEW s \in Stories, NEW p \in Places, at' = [at EXCEPT ![s] = p],
             UNCHANGED <<story, cut>>,
             p \in Creating => at[s] \in Creating, p # "refused"
      PROVE  Own'
  <2>1. \A t \in Stories : at'[t] = IF t = s THEN p ELSE at[t]
    BY <1>a, <1>d
  <2> QED BY <1>c, <1>d, <2>1 DEF OwnInv, OwnInEpic, OwnBranchIsAccepted
<1>e. ASSUME UNCHANGED <<at, cut>>, \A t \in Stories : story'[t] \in {story[t], Absent}
      PROVE  Own'
  BY <1>c, <1>e DEF OwnInv, OwnInEpic, OwnBranchIsAccepted
<1>f. ASSUME NEW s \in Stories, Retries(s), at[s] # "idle", UNCHANGED <<story, cut>>
      PROVE  Own'
  <2>2. First(at[s]) \in Creating => at[s] \in Creating
    BY DEF First, Ensuring, Merging, Creating
  <2>3. CASE at[s] = "refused"
    <3>1. First(at[s]) = "refused"
      BY <2>3 DEF First, Creating, Merging, Ensuring
    <3>2. at' = [at EXCEPT ![s] = "refused"] \/ at' = [at EXCEPT ![s] = "failed"]
      BY <1>f, <1>t, <3>1, RetriesType
    <3>3. CASE at' = [at EXCEPT ![s] = "refused"]
      BY <1>a, <1>e, <1>f, <2>3, <3>3
    <3> QED BY <1>d, <1>f, <3>2, <3>3, PlacesAre DEF Creating
  <2>4. CASE at[s] # "refused"
    <3>1. First(at[s]) \in Places /\ First(at[s]) # "refused"
      BY <1>a, <2>4, PlacesAre DEF First
    <3>2. at' = [at EXCEPT ![s] = First(at[s])] \/ at' = [at EXCEPT ![s] = "failed"]
      BY <1>f, <1>t, RetriesType
    <3> QED BY <1>d, <1>f, <2>2, <3>1, <3>2, PlacesAre DEF Creating
  <2> QED BY <2>3, <2>4
<1>1. ASSUME NEW s \in Stories, Dispatch(s) PROVE Own'
  <2>1. /\ at' = [at EXCEPT ![s] = "read_epic"] /\ cut' = [cut EXCEPT ![s] = FALSE]
        /\ UNCHANGED story
    BY <1>1 DEF Dispatch, Enters, github
  <2> QED BY <1>a, <1>c, <2>1 DEF OwnInv, OwnInEpic, OwnBranchIsAccepted
<1>2. ASSUME NEW s \in Stories, NetworkFails(s) \/ ServerFails(s) \/ ClientError(s)
      PROVE  Own'
  <2>1. /\ Retries(s) \/ Goes(s, "failed")
        /\ UNCHANGED <<story, cut>> /\ at[s] # "idle"
    BY <1>2 DEF NetworkFails, ServerFails, ClientError, Fails, Creating, Merging, Ensuring, github
  <2>2. CASE Goes(s, "failed")
    BY <1>d, <1>t, <2>1, <2>2, GoesType, PlacesAre DEF Creating
  <2> QED BY <1>f, <2>1, <2>2
<1>3. ASSUME NEW s \in Stories,
             ReadEpic(s) \/ ReadBase(s) \/ CreateEpic(s) \/ RereadEpic(s)
      PROVE  Own'
  <2>1. UNCHANGED <<story, cut>> /\ at[s] \in Creating /\ at[s] # "idle"
    BY <1>3 DEF ReadEpic, ReadBase, CreateEpic, RereadEpic, Creating, github, history
  <2>2. \/ Retries(s)
        \/ \E p \in {"read_base", "create_epic", "reread_epic", "create_story", "failed"} : Goes(s, p)
    BY <1>3 DEF ReadEpic, ReadBase, CreateEpic, RereadEpic
  <2>3. CASE ~Retries(s)
    BY <1>d, <1>t, <2>1, <2>2, <2>3, GoesType, PlacesAre
  <2> QED BY <1>f, <2>1, <2>3
<1>4. ASSUME NEW s \in Stories, CreateStory(s) PROVE Own'
  <2>1. at[s] = "create_story" /\ at[s] \in Creating /\ at[s] # "idle" /\ UNCHANGED epic
    BY <1>4 DEF CreateStory, Creating
  <2>2. CASE UNCHANGED <<story, cut>> /\ Goes(s, "compare")
    BY <1>d, <1>t, <2>1, <2>2, GoesType, PlacesAre
  <2>3. CASE /\ story' = [story EXCEPT ![s] = sha[s]] /\ cut' = [cut EXCEPT ![s] = TRUE]
             /\ Enters(s, "build") \/ Retries(s)
    <3>1. epic # Absent /\ sha[s] \subseteq epic /\ sha[s] # Absent
      BY <1>t, <2>1, AbsentAssumption DEF OwnInv, EpicInv, Grounded, TypeOK
    <3>2. \E p \in {"build", "read_epic", "failed"} : at' = [at EXCEPT ![s] = p]
      BY <1>t, <2>1, <2>3, EntersType, RetryCreating, PlacesAre
    <3>3. at'[s] # "refused" /\ \A t \in Stories \ {s} : at'[t] = at[t]
      BY <1>a, <3>2
    <3>4. /\ story'[s] = sha[s]
          /\ \A t \in Stories \ {s} : story'[t] = story[t] /\ cut'[t] = cut[t]
      BY <1>a, <2>3
    <3> QED BY <2>1, <3>1, <3>3, <3>4 DEF OwnInv, OwnInEpic, OwnBranchIsAccepted
  <2> QED BY <1>4, <2>2, <2>3 DEF CreateStory
<1>5. ASSUME NEW s \in Stories, Compare(s) PROVE Own'
  <2>1. at[s] = "compare" /\ UNCHANGED <<epic, story, cut>> /\ at[s] \in Creating
    BY <1>5 DEF Compare, github, history, Creating
  <2>2. CASE Enters(s, "build")
    BY <1>d, <1>t, <2>1, <2>2, EntersType, PlacesAre
  <2>3. CASE AheadBy(s) # {} /\ Goes(s, "refused")
    <3>1. ~cut[s]
      BY <2>1, <2>3 DEF AheadBy, OwnInv, OwnInEpic
    <3>2. \A t \in Stories : at'[t] = IF t = s THEN "refused" ELSE at[t]
      BY <1>a, <2>3 DEF Goes
    <3> QED BY <2>1, <3>1, <3>2 DEF OwnInv, OwnInEpic, OwnBranchIsAccepted, Creating
  <2> QED BY <1>5, <2>2, <2>3 DEF Compare
<1>6. ASSUME NEW s \in Stories, Build(s) PROVE Own'
  <2>1. /\ at[s] = "build" /\ UNCHANGED <<epic, cut>>
        /\ \A t \in Stories \ {s} : story'[t] = story[t]
        /\ \E p \in {"read_pull", "unmerged"} : at' = [at EXCEPT ![s] = p]
    BY <1>6, <1>a DEF Build, Enters, Goes, history
  <2>2. /\ at'[s] \notin Creating /\ at'[s] # "refused"
        /\ \A t \in Stories \ {s} : at'[t] = at[t]
    BY <1>a, <2>1 DEF Creating
  <2> QED BY <2>1, <2>2 DEF OwnInv, OwnInEpic, OwnBranchIsAccepted
<1>7. ASSUME NEW s \in Stories,
             \/ ReadPull(s) \/ MergeStory(s) \/ PostNotice(s) \/ Watch(s)
             \/ ListEpicPulls(s) \/ OpenEpicPull(s)
      PROVE  Own'
  <2>1. UNCHANGED <<story, cut>> /\ at[s] # "idle"
    BY <1>7 DEF ReadPull, MergeStory, PostNotice, Watch, ListEpicPulls, OpenEpicPull, github,
                history
  <2>2. \/ Retries(s)
        \/ \E p \in {"merge", "notice", "unmerged", "merged", "open_epic_pull"} : Goes(s, p)
        \/ \E p \in {"watch", "list_epic_pulls"} : Enters(s, p)
    BY <1>7 DEF ReadPull, MergeStory, PostNotice, Watch, ListEpicPulls, OpenEpicPull
  <2>3. CASE ~Retries(s)
    BY <1>d, <1>t, <2>1, <2>2, <2>3, GoesType, EntersType, PlacesAre DEF Creating
  <2> QED BY <1>f, <2>1, <2>3
<1>8. ASSUME NEW s \in Stories, PersonMergesStory(s) \/ PersonDeletesStory(s)
      PROVE  Own'
  <2>1. UNCHANGED <<at, cut>>
    BY <1>8 DEF PersonMergesStory, PersonDeletesStory, others
  <2>2. \A t \in Stories : story'[t] \in {story[t], Absent}
    BY <1>8, <1>a DEF PersonMergesStory, PersonDeletesStory
  <2> QED BY <1>e, <2>1, <2>2
<1>9. ASSUME PersonMergesEpic \/ BaseMoves PROVE Own'
  BY <1>e, <1>9 DEF PersonMergesEpic, BaseMoves, others
<1>10. CASE UNCHANGED vars
  BY <1>e, <1>10 DEF vars
<1> QED BY <1>1, <1>2, <1>3, <1>4, <1>5, <1>6, <1>7, <1>8, <1>9, <1>10 DEF Next

(* A dispatch never refuses the branch it cut itself                       *)
(* (create-story-branch.ts:14-17, 141-146).                                *)
THEOREM OwnWorkIsNeverRefused == Spec => []OwnBranchIsAccepted
<1>1. OwnInv => OwnBranchIsAccepted
  BY DEF OwnInv
<1> QED BY <1>1, OwnInit, OwnStep, PTL DEF Spec

-----------------------------------------------------------------------------
LEMMA DisplayInit == Init => DisplayInv
  BY EpicInit DEF Init, DisplayInv, MergedIsOnDisplay

LEMMA DisplayStep == DisplayInv /\ [Next]_vars => DisplayInv'
<1> SUFFICES ASSUME DisplayInv, [Next]_vars PROVE MergedIsOnDisplay'
  BY EpicStep DEF DisplayInv
<1>t. TypeOK /\ Branched
  BY DEF DisplayInv, EpicInv, TypeInv
<1>a. at \in [Stories -> Places] /\ lapsed \in BOOLEAN
  BY <1>t DEF TypeOK, Places
<1>b. base \subseteq base'
  BY BaseGrows
(* Whoever was on its way still is, and s is or lapsed.                    *)
<1>c. ASSUME NEW s \in Stories, UNCHANGED <<epic, epicPull>>, lapsed => lapsed',
             \A t \in Stories \ {s} : at'[t] = at[t] /\ pull'[t] = pull[t],
             OnItsWay(s) => OnItsWay(s)' \/ lapsed'
      PROVE  MergedIsOnDisplay'
  <2>1. \A t \in Stories \ {s} : OnItsWay(t) => OnItsWay(t)'
    BY <1>c DEF OnItsWay
  <2> QED BY <1>b, <1>c, <2>1 DEF DisplayInv, MergedIsOnDisplay
(* s is not on its way, and touches nothing that is.                       *)
<1>d. ASSUME NEW s \in Stories, UNCHANGED <<epic, epicPull, lapsed>>, ~OnItsWay(s),
             \A t \in Stories \ {s} : at'[t] = at[t] /\ pull'[t] = pull[t]
      PROVE  MergedIsOnDisplay'
  BY <1>c, <1>d
<1>e. ASSUME NEW s \in Stories, NEW p \in Places, at' = [at EXCEPT ![s] = p]
      PROVE  at'[s] = p /\ \A t \in Stories \ {s} : at'[t] = at[t]
  BY <1>a, <1>e
<1>1. ASSUME NEW s \in Stories, Dispatch(s) PROVE MergedIsOnDisplay'
  <2>1. at' = [at EXCEPT ![s] = "read_epic"] /\ UNCHANGED <<epic, epicPull, pull, lapsed>>
    BY <1>1 DEF Dispatch, Enters, github
  <2>2. ~OnItsWay(s)
    BY <1>1 DEF Dispatch, OnItsWay, Ended, Merging, Ensuring
  <2> QED BY <1>d, <1>e, <2>1, <2>2, PlacesAre
<1>2. ASSUME NEW s \in Stories, NetworkFails(s) \/ ServerFails(s) \/ ClientError(s)
      PROVE  MergedIsOnDisplay'
  <2>1. /\ at[s] \in Creating \cup Merging \cup Ensuring /\ at[s] # "idle"
        /\ Retries(s) \/ Goes(s, "failed")
        /\ UNCHANGED <<epic, epicPull, pull>>
        /\ lapsed' = (lapsed \/ (OnItsWay(s) /\ at'[s] = "failed"))
    BY <1>2 DEF NetworkFails, ServerFails, ClientError, Fails, Creating, Merging, Ensuring, github
  <2>2. \/ at' = [at EXCEPT ![s] = "failed"]
        \/ at' = [at EXCEPT ![s] = First(at[s])]
    BY <1>t, <2>1, RetriesType DEF Goes
  <2>3. CASE at' = [at EXCEPT ![s] = "failed"]
    <3>1. at'[s] = "failed" /\ \A t \in Stories \ {s} : at'[t] = at[t]
      BY <1>e, <2>3, PlacesAre
    <3> QED BY <1>c, <2>1, <3>1
  <2>4. CASE at' = [at EXCEPT ![s] = First(at[s])]
    <3>1. at'[s] = First(at[s]) /\ \A t \in Stories \ {s} : at'[t] = at[t]
      BY <1>a, <2>4
    <3>2. /\ at[s] \in Merging => First(at[s]) \in Merging
          /\ at[s] \in Ensuring => First(at[s]) \in Ensuring
      BY DEF First, Creating, Merging, Ensuring
    <3>3. OnItsWay(s) => OnItsWay(s)'
      BY <2>1, <3>1, <3>2 DEF OnItsWay, Creating, Merging, Ensuring
    <3> QED BY <1>c, <2>1, <3>1, <3>3
  <2> QED BY <2>2, <2>3, <2>4
<1>3. ASSUME NEW s \in Stories, ReadEpic(s) \/ ReadBase(s) \/ RereadEpic(s) \/ Compare(s)
      PROVE  MergedIsOnDisplay'
  <2>1. at[s] \in Creating /\ UNCHANGED <<epic, epicPull, pull, lapsed>>
    BY <1>3 DEF ReadEpic, ReadBase, RereadEpic, Compare, Creating, github, history
  <2>2. ~OnItsWay(s)
    BY <2>1 DEF OnItsWay, Creating, Merging, Ensuring
  <2>3. \/ \E p \in {"read_base", "create_epic", "create_story", "failed", "refused"} : Goes(s, p)
        \/ Enters(s, "build")
    BY <1>3 DEF ReadEpic, ReadBase, RereadEpic, Compare
  <2>4. \A t \in Stories \ {s} : at'[t] = at[t]
    BY <1>e, <1>t, <2>3, GoesType, EntersType, PlacesAre
  <2> QED BY <1>d, <2>1, <2>2, <2>4
<1>4. ASSUME NEW s \in Stories, CreateEpic(s) PROVE MergedIsOnDisplay'
  <2>1. at[s] = "create_epic" /\ UNCHANGED <<base, epicPull, pull, lapsed>>
    BY <1>4 DEF CreateEpic, history
  <2>2. CASE epic' = sha[s]
    <3>1. sha[s] \subseteq base
      BY <2>1 DEF DisplayInv, EpicInv, Grounded
    <3> QED BY <2>1, <2>2, <3>1 DEF MergedIsOnDisplay
  <2>3. CASE UNCHANGED epic /\ Goes(s, "reread_epic")
    <3>1. \A t \in Stories \ {s} : at'[t] = at[t]
      BY <1>e, <1>t, <2>3, GoesType, PlacesAre
    <3>2. ~OnItsWay(s)
      BY <2>1 DEF OnItsWay, Merging, Ensuring
    <3> QED BY <1>d, <2>1, <2>3, <3>1, <3>2
  <2> QED BY <1>4, <2>2, <2>3 DEF CreateEpic
<1>5. ASSUME NEW s \in Stories, CreateStory(s) PROVE MergedIsOnDisplay'
  <2>1. /\ at[s] = "create_story" /\ at[s] # "idle" /\ at[s] \in Creating
        /\ UNCHANGED <<epic, epicPull, pull, lapsed>>
        /\ Goes(s, "compare") \/ Enters(s, "build") \/ Retries(s)
    BY <1>5 DEF CreateStory, Creating
  <2>2. \A t \in Stories \ {s} : at'[t] = at[t]
    BY <1>e, <1>t, <2>1, GoesType, EntersType, RetryCreating, PlacesAre
  <2>3. ~OnItsWay(s)
    BY <2>1 DEF OnItsWay, Merging, Ensuring
  <2> QED BY <1>d, <2>1, <2>2, <2>3
<1>6. ASSUME NEW s \in Stories, Build(s) PROVE MergedIsOnDisplay'
  <2>1. /\ at[s] = "build" /\ UNCHANGED <<epic, epicPull, lapsed>>
        /\ Enters(s, "read_pull") \/ Goes(s, "unmerged")
    BY <1>6 DEF Build, history
  <2>2. \A t \in Stories \ {s} : at'[t] = at[t]
    BY <1>e, <1>t, <2>1, GoesType, EntersType, PlacesAre
  <2>3. \A t \in Stories \ {s} : pull'[t] = pull[t]
    BY <1>6, <1>t DEF Build, TypeOK
  <2>4. ~OnItsWay(s)
    BY <2>1 DEF OnItsWay, Merging, Ensuring
  <2> QED BY <1>d, <2>1, <2>2, <2>3, <2>4
<1>7. ASSUME NEW s \in Stories, MergeStory(s), MergesInto(s) PROVE MergedIsOnDisplay'
  <2>1. pull'[s] = "merged" /\ pull' # pull
    BY <1>7, <1>t DEF MergesInto, TypeOK
  <2>2. at[s] = "merge" /\ at[s] # "idle" /\ lapsed' = (lapsed \/ at'[s] = "failed")
    BY <1>7, <2>1 DEF MergeStory
  <2>3. Enters(s, "list_epic_pulls") \/ Retries(s)
    BY <1>7, <2>1 DEF MergeStory
  <2>4. at'[s] \in {"list_epic_pulls", "read_pull", "failed"}
    <3>1. First(at[s]) = "read_pull"
      BY <2>2 DEF First, Creating, Merging, Ensuring
    <3>2. \E p \in {"list_epic_pulls", "read_pull", "failed"} : at' = [at EXCEPT ![s] = p]
      BY <1>t, <2>2, <2>3, <3>1, RetriesType DEF Enters
    <3> QED BY <1>e, <3>2, PlacesAre
  <2> QED BY <2>1, <2>2, <2>4 DEF MergedIsOnDisplay, OnItsWay, Merging, Ensuring
<1>8. ASSUME NEW s \in Stories,
             ReadPull(s) \/ (MergeStory(s) /\ ~MergesInto(s)) \/ PostNotice(s) \/ Watch(s)
      PROVE  MergedIsOnDisplay'
  <2>1. /\ at[s] \in Merging \cup {"watch"} /\ UNCHANGED <<epic, epicPull, pull, lapsed>>
    BY <1>8 DEF ReadPull, MergeStory, PostNotice, Watch, Merging, github, history
  <2>2. \/ \E p \in {"merge", "notice"} : Goes(s, p)
        \/ \E p \in {"list_epic_pulls", "watch"} : Enters(s, p)
        \/ pull[s] # "merged" /\ Goes(s, "unmerged")
    BY <1>8 DEF ReadPull, MergeStory, PostNotice, Watch
  <2>3. \E p \in {"merge", "notice", "list_epic_pulls", "watch", "unmerged"} :
          at' = [at EXCEPT ![s] = p] /\ (p = "unmerged" => pull[s] # "merged")
    BY <2>2 DEF Goes, Enters
  <2>4. /\ at'[s] \in Merging \cup Ensuring \cup {"watch"} \/ pull[s] # "merged"
        /\ \A t \in Stories \ {s} : at'[t] = at[t]
    BY <1>e, <2>3, PlacesAre DEF Merging, Ensuring
  <2>5. OnItsWay(s) => OnItsWay(s)'
    BY <2>1, <2>4 DEF OnItsWay, Merging, Ensuring
  <2> QED BY <1>c, <2>1, <2>4, <2>5
<1>9. ASSUME NEW s \in Stories, ListEpicPulls(s) PROVE MergedIsOnDisplay'
  <2>1. UNCHANGED epicPull
    BY <1>9 DEF ListEpicPulls, github
  <2>2. CASE Goes(s, "open_epic_pull")
    <3>1. at'[s] = "open_epic_pull"
      BY <1>e, <1>t, <2>2, GoesType, PlacesAre
    <3> QED BY <3>1 DEF MergedIsOnDisplay, OnItsWay, Ensuring
  <2> QED BY <1>9, <2>1, <2>2 DEF ListEpicPulls, MergedIsOnDisplay
<1>10. ASSUME NEW s \in Stories, OpenEpicPull(s) PROVE MergedIsOnDisplay'
  BY <1>10, <1>b DEF OpenEpicPull, MergedIsOnDisplay
<1>11. ASSUME NEW s \in Stories, PersonMergesStory(s) PROVE MergedIsOnDisplay'
  <2>1. /\ at' = at /\ lapsed' = (lapsed \/ at[s] \notin Merging \cup {"watch"})
        /\ pull'[s] = "merged"
    BY <1>11, <1>t DEF PersonMergesStory, MergesInto, others, TypeOK
  <2> QED BY <2>1 DEF MergedIsOnDisplay, OnItsWay
<1>12. ASSUME NEW s \in Stories, PersonDeletesStory(s) PROVE MergedIsOnDisplay'
  <2>1. /\ UNCHANGED <<epic, epicPull, at, lapsed>>
        /\ \A t \in Stories \ {s} : pull'[t] = pull[t]
        /\ pull[s] = "merged" => pull'[s] = "merged"
    BY <1>12, <1>t DEF PersonDeletesStory, others, TypeOK
  <2>2. OnItsWay(s) => OnItsWay(s)'
    BY <2>1 DEF OnItsWay
  <2> QED BY <1>c, <2>1, <2>2
<1>13. ASSUME PersonMergesEpic PROVE MergedIsOnDisplay'
  BY <1>13 DEF PersonMergesEpic, MergedIsOnDisplay
<1>14. ASSUME BaseMoves \/ UNCHANGED vars PROVE MergedIsOnDisplay'
  <2>1. UNCHANGED <<epic, epicPull, pull, at, lapsed>>
    BY <1>14 DEF BaseMoves, others, vars
  <2>2. \A t \in Stories : OnItsWay(t) => OnItsWay(t)'
    BY <2>1 DEF OnItsWay
  <2> QED BY <1>b, <2>1, <2>2 DEF DisplayInv, MergedIsOnDisplay
<1> QED BY <1>1, <1>2, <1>3, <1>4, <1>5, <1>6, <1>7, <1>8, <1>9, <1>10, <1>11, <1>12,
           <1>13, <1>14 DEF Next

(* While no request for it went wrong, what is merged into the epic and    *)
(* not yet into the base is on display, or about to be                     *)
(* (story-merge.ts:1-7).                                                   *)
THEOREM MergedWorkIsShown == Spec => []MergedIsOnDisplay
<1>1. DisplayInv => MergedIsOnDisplay
  BY DEF DisplayInv
<1> QED BY <1>1, DisplayInit, DisplayStep, PTL DEF Spec
=============================================================================
