# TLA+ models of the agent framework

This directory holds TLA+ modules that model the framework's programs, TLC
configurations that check them on small instances, and proofs that TLAPS checks
for every instance. It is read beside the source: every definition names, in
`PROJECT.json` ("map"), the lines it stands for.

```
tlc -workers 2 -config Dispatch.cfg MCDispatchStory.tla   # one run
tlapm DispatchStoryProofs.tla                             # the proofs of one module
```

## 1. The system

A tracker (Linear) is the user interface. Two services and a container do the
work; Temporal and ECS run them; GitHub holds the code.

| Component | Source | State it keeps | Operations |
|---|---|---|---|
| Webhook intake and scheduler | `webhook-listener/src/server.ts`, `agent-scheduler.ts`, `team-allowlist.ts` | a bounded set of seen deliveries, one debounce timer per entity, both in memory | accept a delivery, deduplicate, route, fire now or after the debounce |
| Tracker adapter and routing | `adapters/linear.ts`, `swim-lane-routing.ts`, `swim-lanes.ts` | none | verify a signature, turn a webhook into one event, choose a lane and a pass |
| Activation runner | `activation-runner.ts`, `tracker-notifier.ts` | cached system blocks; per run: retries, continuations, the progress comment | run one agent turn, retry a broken stream, resume a paused turn, report errors and duplicate writes |
| Dispatch trigger | `dispatch-trigger.ts`, `story-context.ts`, `temporal-client.ts`, `move-story-to-todo.ts` | the cached Temporal client | gather a story's context, compute its turn budget, start its workflow or hand it back |
| Dispatch workflow and activities | `dispatch-worker/src/workflows`, `activities/` | the workflow's locals (replayed by Temporal) | check dependencies, resolve surfaces, cut the branch, run the specialist, find, merge and watch the pull request, run revision rounds, hand the story back |
| Surface registry | `activities/surface-registry.ts`, `resolve-surfaces.ts` | none | parse, merge and resolve surface records |
| Specialist runner | `specialist-runner/src` | the container's workspace | read its dispatch context, prepare the workspace, run the agent, post a fallback comment on failure |
| Infrastructure | `infrastructure/` | none (CDKTF) | not modelled: declarative resources |
| Agent and skill texts, scripts, CI | `agents/`, `skills/`, `scripts/` | none | not modelled: prompts and tooling |

How they meet. A webhook reaches the listener, which routes it to a lane: a
shaping lane runs the activation runner; moving a story into In Progress runs
the dispatch trigger, which starts `dispatchStoryWorkflow` under the workflow id
`dispatch-<story>`. The workflow calls activities one at a time; Temporal runs
each at least once and retries it. `dispatchSpecialist` starts a container on
ECS; the container pushes the story branch and opens a pull request on its own.
People review, merge, close, delete branches and move stories at any moment.
Linear, GitHub and ECS are the only shared state.

Where it is hard:

* an activity may take effect and still be reported as failed (a lost reply, a
  dead worker), so its next attempt meets its own traces;
* people and containers act between any two activities, and between the two
  reads of one poll;
* some activities throw, some swallow every error, some retry for ever: which is
  which decides whether a failure is reported, hidden or endless;
* one `catch` answers for every failure, and itself calls activities that fail;
* a story may be dispatched again over the branch and the pull requests an
  earlier dispatch left;
* the listener keeps its deduplication and its timers in memory.

What makes each component correct:

* *Workflow*: it always settles; an ending that a person must act on is said; unless a pull request
  was merged the story is handed back to Todo; what it reports is true; each
  revision round answers a new change request and there are at most
  `REVISION_ROUND_CAP`; a re-dispatch never builds on abandoned work; no comment
  keeps claiming work that is over.
* *Trigger*: a story has one execution at a time, and is not left In Progress
  without one unless a named failure came between. The hand-backs are
  unconditional, so a late one may undo a newer move (section 5).
* *Listener*: a delivery calls the agent at most once; an accepted reply is read
  unless the process restarts; a burst of replies becomes one run that starts
  after the last of them.
* *Routing*: each lane fires on exactly the transitions it declares, whatever
  combination of changes one update carries.
* *Activation runner*: bounded calls; an error is reported once; a duplicate
  write is reported; the progress comment never outlives a clean run.
* *Registry*: the epic's records override the project's, a resolved story has
  exactly one repository.
* *Specialist runner*: the session starts from the context that was sent and from a
  complete prompt, and a container that fails on its way there says so. One whose
  session ends without a turn does not (section 5).

## 2. Modules

| Module | Models |
|---|---|
| `DispatchStory` | one story of the specialist tier: the workflow, its activities, Temporal's retries, Linear, GitHub, ECS and people |
| `DispatchContract` | what one dispatch promises, with all of that left out |
| `DispatchLifecycle` | from a person's move into In Progress to the end of the execution: trigger runs, the shared Temporal client, the workflow id, restarts |
| `EpicBranches` | the stories of one epic and the branches they share: creating, merging, the epic's pull request, one step per request to GitHub |
| `WebhookListener` | the listener between a webhook and the agent's start: deduplication, the handler's awaits, debounce, redelivery, restarts |
| `Routing` | which event a webhook becomes and which lane it wakes, while the tracker moves on |
| `ActivationRunner` | the runs of one lane: system blocks, token count, progress comment and timer, dropped and paused calls, error comments |
| `McpErrors` | how a run reads its tool calls: failed writes, excused failures, duplicates |
| `SurfaceRegistry` | the registry's operators: parse a block, render it, merge two, resolve a story's surfaces |
| `ResolveSurfaces` | the activity that reads the two registries while agents rewrite them |
| `SpecialistRunner` | one container, from the variables it is given to its exit and its fallback comment |
| `StoryLabels` | what a dispatch takes from a story's labels: surfaces, tier, size, turn budget |
| `Lists` | what the code's filters and its lists without repeats compute, for the three modules that read lists |
| `MC...` | a module above for TLC: its constants |
| `...Proofs` | theorems about a module above, with their proofs: `DispatchStory`, `DispatchLifecycle`, `EpicBranches`, `WebhookListener`, `SpecialistRunner`, `ResolveSurfaces`; `LaneProofs` holds those of `Routing`, `ActivationRunner` and `McpErrors`, `ListProofs` the lemmas about `Lists` |

How they compose. `WebhookListener` ends where an agent starts; `Routing` says
which agent; `ActivationRunner` and `DispatchLifecycle` are the two kinds of agent.
`DispatchLifecycle` sees of an execution only that it runs, hands back and closes;
`DispatchStory` is that execution, and `EpicBranches` and `ResolveSurfaces` open up
the activities which `DispatchStory` lets succeed or fail. `SpecialistRunner` is
its container, `McpErrors` the verdict of an `ActivationRunner` run.

### DispatchStory

`pc` is the activity the workflow awaits; `attempt` its attempt number. The
locals of the workflow (`revisionRound`, `afterReviewId`, `openPullRequest`,
`reviewerLogin`) keep the code's names, null being 0 or FALSE; `held` says which
comment ids (progress comment, round notice) are not null. The tracker is the
story's `status`, what was `told` to people in this dispatch, and the claims
that work is running which still stand (`shown`). GitHub is the story `branch`
relative to the epic branch, the branch pair's `pulls` and their `reviews`, both
numbered in order. ECS is the `awaited` container and the number of `orphans`,
running containers whose ARN nobody holds. `dispatch`, `inherited`, `answers` and
`dropped` are history: they guard nothing in the workflow.

One action is one attempt of one activity, named as the activity is. How an
attempt may end depends on the activity:

* the *throwing* ones (`ThrowingCalls`) may fail with nothing done
  (`AttemptFails`), may fail after they took effect (a `Retry` beside the effect),
  and after `MaxAttempts` hand over to the catch-all (`GiveUp`); three of them can
  also fail at once (`NonRetryableFailure`);
* the *swallowing* ones (`SwallowingCalls`) always return, perhaps with nothing
  done, which `dropped` records; only a worker's death or the five-minute limit
  (`Timeouts`) makes Temporal attempt them again;
* the two *unlimited* ones (`UnlimitedCalls`) set no `maximumAttempts`, so a
  failed attempt only starts the poll over.

The poll of the pull request is two reads in the code and two actions here
(`PullDecided`/`PullStillOpen`, then `NewRound`/`NothingNew`), with people free to
act in between. `StartedNotice ... EditNotice` are a revision round.
`PostDispatchFailed`, `FailedNotice` and `MoveStoryToTodo` at `failedTodo` are the
catch block; an activity that fails for good there ends the workflow
("aborted").

Abstractions. Wording, logging and payloads are left out. Reviews and pull
requests are numbered as GitHub's ids are ordered; a review is only whether it is
a "request changes" of the reviewer-of-record and on which pull request. Reopened
pull requests and dismissed reviews are not modelled. `findPullRequest`'s two
reads are one step. A person may delete the story branch at any time, which closes
its open pull request. Cutting the epic branch and resolving surfaces either succeed
or fail. The story's status is Todo or In Progress, the two the worker acts on; a
person moving a story while its dispatch runs is left to `DispatchLifecycle`. The
tracker's "In Progress" is spelled `InProgress`. A first build opens a pull
request only once something was pushed.

### DispatchContract

Phases *working*, *watching*, *closing*, *ended*; revision rounds; the newest
review acted on; the result. It says that a watch is left only by a decided pull
request or a newer review, that no more than `RoundCap` rounds are run, that a
watch never fails, and that a decided ending can only turn into a failure and a
failure only into an abort. `DispatchStory` implements it under the mapping
`Contract` (module `DispatchStory`).

### WebhookListener

`seen` is `seenEvents` in insertion order and `timers` the map of pending
debounce timers, each holding the delivery (the trace id) that set it. `owed`
is the tracker: the events it has not heard a success for and may deliver again,
`MaxAttempts` times at most. `stage` is what became of each delivery, and tells
how far its handler got. `waiting`, `starts` and `accepted` are history.

The handler has two awaits, so it is three actions: `Deliver` (up to
`parseEvent`: the key is looked up and remembered), `Parse` (up to
`entityTeamIds`) and `Route` (allowlist, lane, `dispatch`, reply). Either await
may throw, which the framework answers with an error; a success may be lost on
its way or come after the tracker stopped waiting (`Succeed`). `DebounceElapses`
is the timer's callback. `Restart` forgets `seen`, `timers` and every handler.

Abstractions. An event is its deduplication key, taken to be the same on every
delivery. What a payload means (`parseEvent`, `route`) is left open: each event
has a pass and may be ignored at either await; `Routing` decides which.
Requests with a bad signature change nothing and are left out, as are the
`TEST_STAGE` dry runs. How long an agent runs is left to `ActivationRunner`, and
with it the overlap of two runs on one entity, which nothing here prevents.

### DispatchLifecycle

A trigger run is named `<<story, n>>`, and an execution has the name of the run
that started it. `run` says where a run is (reading the context, waiting for the
client, starting, or how it ended) and for which of the story's `moves` it runs;
`exec` is an execution's phase (running, handing back, closing, closed) and how it
ends. `client` is `clientPromise`: none, pending, connected or *rejected*, a value
the code keeps. `board` is the story's status, written by three parties: people,
the trigger's hand-back, and the execution's. A run that throws outside the try
ends the process, because `agent-scheduler.ts:58` calls it under `void` and nothing
handles the rejection; so does `Restart`, and every run in hand is then "cut".

An execution that hands back is one step, and one more until Temporal has closed
it; the other activities are `DispatchStory`'s. A start whose reply is lost
(`LostReplies`) is an execution behind a run that believes it failed.

### EpicBranches

A branch is the set of commits it contains, "no branch" (`Absent`) is a 404, and
each request of `createStoryBranch`, `mergeStoryPullRequest` and
`ensureEpicPullRequest` is a step of its own, so that two stories interleave
between any two of them: a merge is `ReadPull`, `MergeStory` and, if GitHub refuses
it, `PostNotice`. `pull` is the newest pull request of each story. `NetworkFails`, `ServerFails` and `ClientError` end a
request as the code classifies it, retryable or not; a request may take effect
and its reply be lost. People merge story pull requests and delete story branches
at any time, merge the epic's pull request and delete its branch, and push to the
base. Two things people do not do here: delete the epic branch while a dispatch is
inside `createStoryBranch`, and delete a story branch during its specialist's
session, whose next push would bring it back; that session is one commit (`Build`).

### Routing

An act on the tracker changes an entity and leaves a webhook, and webhooks are
handled in any order. A handler is one step: it reads nothing that may have
changed but a comment's context. Lane declarations are `Triggers`, evaluated as
`route` does; a label lookup is answered in full or in part, refused, or throws
(`NamesFound` is the set of what it may find). A refused *team* lookup fails closed as a team outside the allowlist does, so it is not an outcome of its
own.

### ActivationRunner and McpErrors

`at` is where a run stands; `attempt`, `drops` and `rounds` are the code's attempt,
streamAttempt and continuations. `comment` and `timer` are the progress comment and
`progressTimer`, `blocks` the lane's cached promise of system blocks, shared by the
lane's runs. Every courtesy write may be refused or lose its reply. `wrong` is what
went wrong in a run, several things at once if they do: a response may hold a failed
write and a call of a client's tool. After the model's last word each check is an
action of its own: `ReportIncomplete`, `FindMcpError` and `FindToolUse` post and go
to the `finally`, `DeleteComment` is the clean end, and whatever throws goes through
`Catch`.

`McpErrors` takes any conversation of calls, answers and pauses. A call has a name,
an input, a body (the rest of its arguments) and an *entity*: what it is about,
whether the input names it or not, which only the properties see. An answer whose
`tool_use_id` is of no call counts as the answer to call 0, and a conversation has
one at most.

### SurfaceRegistry, StoryLabels, ResolveSurfaces

`SurfaceRegistry` and `StoryLabels` are operators: the line-by-line parser, the
canonical rendering, merging and resolving; and what a dispatch takes from a
story's labels. A block is a sequence of lines, a line a key with a value, and a
value the tokens the code cuts it into ("/" in repos and paths, "," in skills).

`ResolveSurfaces` is the activity around them. A story comes with its labels;
the epic's document is read, then the project's, as two requests between which
agents rewrite either (`Edit`), and a failed read starts the activity over. The
properties read a document as a whole (`WellFormed`, `Records`), not line by line,
so that the parser is compared with something it was not written from.

### SpecialistRunner

`env` is what the dispatcher's overrides leave in the environment when any of
`Drops` is missing; `pc` follows `main()`. A list is the sequence of what stands
between its commas, so a path that holds commas is the sequence of its pieces, and
arrives in as many items. Each git command may fail, a file of the prompt may not
be readable, a mandatory skill may be nowhere, the session's stream may end or
throw before its first turn or after any, and the task may be killed at any moment.

## 3. Runs

| Run | Shows |
|---|---|
| `dispatch` | `HandedBack`, `NeverSilent`, `OutcomeIsTrue`, `AnswersAreFresh`, `ClaimsRetired`, `NotWatchedIsSaid`; the dispatch implements the contract |
| `redispatch` | over two dispatches of one story: `FreshStart`; and, as long as no worker dies, `EndsAfterItsSpecialist` |
| `dispatch_live` | `Settles`, `DecidedPullEnds`, `RequestsAnswered` |
| `stale_pull` | a finding: an earlier dispatch's merged pull request is taken for this one's |
| `redelivery` | `StartsOnce`, `DedupeWindow`, `TimerHoldsLatest`, `DeliveredIsTaken`, `RepliesAreRead`, with errors, lost replies, an evicted key and a restart |
| `lifecycle` | `OneDispatch`: one execution of a story at a time; `InProgressIsExplained`: no story is shown In Progress without one of a short list of reasons; `RunsEnd` |
| `siblings` | two stories racing through one epic, people merging and deleting at any time: `CutFromEpic`, `OwnBranchIsAccepted` (a retry takes its own branch for its own), `MergedIsOnDisplay` |
| `surfaces` | `TargetIsOneRepo`, `OverrideDecides`, `RefusalsAreGrounded` while both registries are rewritten; `RegenerationIsStable`; `TyposCostNothing` |
| `lane_routing` | `RoutedAsMeant`: each act wakes the lane its declaration means and no other; `PresenceFailsClosed` |
| `activation` | `OneVerdict`, `ClaimsRetired`, `CallsAreBounded`, `RunsConclude` of two runs over one cache and one process, with drops, pauses, faulty responses, refused courtesy writes and a restart |
| `tool_errors` | `TargetedFailuresAreReported`: no other write's success hides a failure; `RetriesAreBelieved`: no retry is overlooked, however the pauses fall; over every conversation of three calls |
| `specialist` | `ContextIsInput`, `MandatoryAreRead`, `SilenceHadSession`, from the dispatcher's variables to the container's exit |

`RoutingTypeOK` is an invariant of `lane_routing`; the type of every other module is
a theorem only (section 4), and so are `EpicOnlyGrows`, `TimersStop` and
`DuplicatesAreRepeats`. Each was checked by TLC, under the configuration of its
module, before it was proved. `Routing` and `McpErrors` name their initial states,
steps and types `RoutingInit`, `McpNext` and so on, because one module of proofs
extends both.

`NeverSilent` speaks of the endings that ask something of a person: not ready, closed
and failed. An end without a pull request is left to the specialist's own words, and
one whose catch-all died is said by nobody.

Bounds. `dispatch` takes two rounds and three reviews, so that a round can be
started, answered by a newer review, exhausted, and a review arrive after the
cap; two attempts, so that an activity can fail, be repeated and give up; one
orphan and worker deaths. One pull request is enough there: GitHub allows one
open at a time for a branch pair, and a later one belongs to a later dispatch,
which `redispatch` has (two dispatches, two pull requests, one round). The first
page of reviews holds all of them. Deadlock is not checked in any run: a dispatch, a
run, a container or a tracker with nothing left to do stays as it is.

`redelivery` has a reply and a first touch on one entity, two deliveries each, a
seen set of one key, so that the second event evicts the first and two deliveries
of the reply can be in hand at once, and one restart, which may fall between any
two awaits. The theorems of section 4 cover more entities, events and keys. A
burst is finite: that replies arriving faster than the debounce for ever postpone
the run for ever is how a debounce works, and is not excluded.

`lifecycle` moves one story twice and delivers each move up to twice, with every
fault and one restart: a second move can meet an execution that runs, hands back
or has closed, and a run can meet a client that another has spoilt. `siblings` has
two stories with one dispatch each, three attempts and a base that moves once: a
race needs two stories, an attempt that meets its own branch needs two attempts,
and the third gives up; a story dispatched again, over a branch an earlier dispatch
left, is covered by the theorems, which hold for any number of dispatches. `surfaces`
takes ten documents, well-formed ones in every spelling and one for each way to be
malformed; two rewrites, so that a record can move from one document to the other
between the reads; and two attempts. `lane_routing` starts with at most one entity
and takes two acts, enough for one to overtake the other; two teams, so that a
project may belong to both; and the labels and statuses that some trigger
mentions, with one that none does. `activation` has two runs with one drop and one
pause each, which is enough for a drop before and after a pause and for both limits
to be met; the theorems hold for any limits. `tool_errors` takes three calls: a
failure, its repair and a bystander; among the inputs are some whose leading id is
empty, some without a real id, and one whose leading id is not of what it writes.
`specialist` takes a dispatcher that sets everything, one that predates the
registry, and four that forget one variable; paths with a comma in the middle, in
front, and twice in front; two turns tell the first from the last.

Fairness (`redelivery`). Weak fairness of `Handle` says that a request to Linear
ends with an answer or an error, and of `DebounceElapses` that the event loop
runs a due timer. Nothing is assumed of the tracker.

Fairness (`dispatch_live`). Weak fairness of the workflow's own steps is
Temporal: what is scheduled is attempted, and an attempt returns, fails or times
out. Weak fairness of `AwaitedStops` is the specialist's turn budget. Strong
fairness of `NewRound` says that GitHub's reviews can be read again and again: the
poll goes round for ever, and a new review cannot be missed by every poll. Nothing
is assumed of people, orphaned containers or ECS's memory. The liveness run has no
worker deaths: a worker that dies at every attempt of an unlimited activity keeps
a dispatch from settling, and the code does not claim otherwise.

Fairness (`lifecycle`). Weak fairness of a run's own steps and of `Connect`: the
event loop runs what is due, and a request or a connection ends with an answer or
an error. Nothing is assumed of people, of deliveries, of Temporal coming back or
of an execution's end. Fairness (`activation`). Weak fairness of each run's next
step and of the building of system blocks: the SDK's stream ends, drops or times
out (`requestTimeoutMs`). Nothing is assumed
about kills and restarts in either.

## 4. Proofs

`DispatchStoryProofs` proves, from `ConstantsAssumption` (positive round cap,
attempt limit and dispatch bound) and for every value of the constants:

* `TypeCorrect`: `Spec => []TypeOK`. `TypeOK` is not inductive: that `revisionRound`
  stays within the cap needs that reviews are only read while rounds remain, and
  that a decided state is "merged" or "closed" needs a pull request behind
  `openPullRequest`. `Located` says what the locals must be at each activity;
  `TypeInv == TypeOK /\ Located` is inductive (`TypeInvStep`, one step per action).
* `StoriesAreHandedBack`, `EndsAreNeverSilent`, `OutcomesAreTrue`: from
  `EndInv == TypeInv /\ Decided /\ Deed /\ Last`: what has been decided at each
  activity, that the deed is done and said before the story is moved, and what
  only the last call leaves open. It rests on `PullsEvolve`: a merged or closed
  pull request is never anything else again.
* `NoReviewIsAnsweredTwice`: from `Marked`: the watermark is a change request on
  the watched pull request and bounds every answer, strictly those of earlier
  rounds.
* `ClaimsAreRetired`: from `ClaimsStand`, which says where a claim may stand; it
  needs `EndInv`, because a failed dispatch may leave one.
* `UnwatchedIsSaid`: `NotWatchedIsSaid` is inductive together with `TypeInv`.
* `DispatchesStartFresh`: from `FreshInv`: what an earlier dispatch left is still on
  the branch until that branch was made or compared (`Inherits`).
* `DispatchesOutliveTheirSpecialist`: without worker deaths (`~Timeouts`), from
  `AwaitInv`: a container the workflow holds runs only between its start and the end
  of the wait for it.
* `DispatchKeepsContract`: `Spec => Contract!Spec`; every action of the workflow
  is a step of the contract or a stutter (`ContractStep`), under `EndInv`.

Each invariant was checked by TLC before it was proved. Lemmas `PullsChangers`,
`RoundChangers` and `EnvironmentMoves` say who may change what, so that the
theorems need only look at those actions.

Only model-checked: the liveness properties (they rest on fairness and ENABLED,
which the prover does not handle).

`WebhookListenerProofs` proves, from `ListenerAssumption`, for any events and
entities, any cap and any number of attempts and restarts:

* `ListenerTypeCorrect`: `Spec => []TypeOK`, the cap on `seen` included.
* `DeliveriesStartOnce` and `BurstsHaveOneTimer`: from `TimerInv`, whose `Pending`
  says that a waiting reply belongs to its entity, was dispatched and has started
  nothing; so the timer that fires cannot be one that fired before.
* `DeliveredEventsWereTaken`: from `SeenWereTaken`: a key is in `seen` only because
  some delivery of it was taken in hand, which no step takes back (`TakenStays`).
* `SeenKeysAreAWindow`: from `SeenIsTail`: `seen` is the tail of what was accepted,
  as long as the cap allows, so a key outside it is `SeenCap` keys old (`NotRecent`).

`RepliesAreRead` rests on fairness and is only model-checked.

`DispatchLifecycleProofs`, from `LifecycleAssumption`, for any stories, bounds and
choice of faults:

* `OneDispatchAtATime`: `OneDispatch` is inductive together with `TypeOK`: a start
  opens an execution only when none of the story's is open.
* `InProgressHasAReason`: from `ExplainedInv`, which adds to the property that a run
  is for a move that was made, that it is behind its own execution unless it met
  another, and that an execution which ends has an ending. Each step that takes a
  reason away must give another or move the story: the proof goes over the writers.

`EpicBranchesProofs`, from `EpicAssumption` and `AbsentAssumption` (no set of commits
is "no branch"), for any stories and bounds:

* `EpicTypeCorrect`: from `TypeInv`: a dispatch under way has been counted, and an open
  pull request, a story's or the epic's, has its branch.
* `EpicGrows` and `StoriesAreCutFromTheEpic`: from `EpicInv`, whose `Grounded` says
  that a head read requests ago is still inside the branch it was read from.
* `OwnWorkIsNeverRefused`: from `OwnInv`: the branch a dispatch cut stays inside the
  epic until it builds, so that a retry's comparison finds nothing ahead.
* `MergedWorkIsShown`: from `DisplayInv`: unless a request for the epic's pull
  request went by, the epic is in the base, in an open pull request, or some story
  that merged is on its way to open one.

`LaneProofs` holds the theorems of three modules.

`Routing`, from its three assumptions, for any entities, lanes' labels, bounds and
order of handling:

* `RoutingTypeCorrect`, `ActsWakeTheirLane` and `UnreadLabelsWakeNobody`: from
  `RoutingInv`. Its `Acted` says what an act leaves in its webhook, `Current` that a
  webhook which no later act has overtaken still says how its entity is, and
  `WokenInTime` that what a handler woke is what that webhook alone would wake. That
  leaves a statement about one webhook, proved lane by lane against the declarations.

`ActivationRunner`, from `RunnerAssumption`, for any runs and limits:

* `OneVerdictPerRun`, `ClaimsAreRetired`, `TimersAreStopped`: none is inductive, since
  each speaks of the end of a run only. `RunsInv` adds its `Tale`: until the call ends
  nothing is wrong; what is found wrong leads to a place that says it, and nothing was
  said before; and at the `finally` the run has its `Verdict`.
* `ModelCallsAreBounded`: from `BudgetInv`: before the model is called nothing
  counts, and afterwards every call is paid for by a continuation or by a drop:
  `attempt <= rounds * (MaxStreamRetries + 1) + drops + 1`.

`McpErrors`, from `McpAssumption`, for any calls and conversations of any length:

* `TargetedFailuresSurface`: whatever ids the calls carry. It is about a failed call
  that named its entity; `SameTargetSameEntity` says what a comparison of targets then
  establishes of a call that names its own.
* `RetriesAreHeard`: from `InOrder`: answers come in order, each after its call and
  none in a response before the last pause, so that a call made after a failure was
  seen is local to the response and its answer stands behind the failure.
* `DuplicatesAreExact`: under `OneEntityPerInput` (two calls of one tool with the same
  input are about one thing) and `CallsAreRecords` (a call is its four fields).

`ListProofs`: what a filter and a list without repeats hold, where each item stood,
and what a concatenation of lists holds, for lists of any length. The provers cannot
instantiate the library's induction theorems, which take an operator; so `UpTo` states
induction over a set of numbers, and follows from the library's theorem that `<` is
well-founded. `Iterates` says that a value made step by step exists, which is what a
recursive function needs.

`SpecialistRunnerProofs`, from `RunnerAssumption`, for any targets, dispatchers,
catalogs and turn budgets:

* `ContainerTypeCorrect`: from `RunnerInv`, which adds to the type that a story's id is
  in the environment unless the dispatcher dropped it (`EnvIsSent`), that no turn is
  taken before the session, and that a run which ended has a reason for its silence or
  exits zero (`Located`).
* `ContextsArriveWhole`, `MandatorySkillsAreRead` and `SilentEndsHadSession`: from
  `SentInv`, which adds what the
  runner knows and from where: the environment is the dispatcher's overrides without
  those it dropped, a loaded context is what `loadDispatchContext` makes of them, and a
  session has the skills `buildSystemPrompt` found. What joining, cutting and removing
  repeats do to lists of any length are lemmas of `ListProofs`.

`ResolveSurfacesProofs`, from `ResolveAssumption`, for any documents, labels, attempts
and rewrites. Its first part is about the parser, for texts of any length:

* `ParserReads`: the pass over the lines, with one record open, throws just when the
  text, read as a whole, is not well-formed, and otherwise answers with the records it
  has. The invariant of the pass is `Reading`: after `i` lines a parser that has thrown
  has met something the text cannot recover from, and one that has not has turned every
  closed record into one of its own (`Holds`, a bijection with the lines where records
  start), holds the fields of the one that is open (`Held`), and has left no line out
  (`Covered`). `TakeStep` goes over the kinds of lines.
* `RegenerationsAreStable` (`RegenerationIsStable`): `RenderedRead` steps the parser over
  the canonical lines, block by block; `WrittenIsCanonical` says that those lines are
  those of the record, which is where `NormalizedAgain` needs `PlainPaths`.

The rest is about the activity. `ResolveInv` says what was remembered of the documents,
and that the answer is `Decide` of one text of the epic's history and one of the
project's (`Decided`); `DecideByRecords` says what that is in terms of the records in
force, the epic's first.

* `TargetsAreLabelled`: it rests also on `SurfacesAreLabelled`: the story's surfaces are
  what its labels say, in their order.
* `OverridesDecide` (`OverrideDecides`) and `RefusalsHaveGrounds` (`RefusalsAreGrounded`):
  both about texts, so they need `ParserReads`.
* `BudgetsSurviveTypos`: the first recognized label of a kind is one of them
  (`FirstIsImplied`), wherever it stands.

Every safety property that a passing run checks is thus the property of a theorem. Only
model-checked: the liveness properties of every module, which rest on fairness and
ENABLED.

## 5. Where the code and its words differ

One finding has a run, `stale_pull`: `findPullRequest` takes the newest merged pull
request of the branch pair, whichever dispatch opened it. The others are stated as
formulas at the end of their modules, where the comment quotes the source; added as
an INVARIANT (or a PROPERTY, where it is temporal or an action formula) to the
configuration named here, TLC refutes each within seconds.

| Formula | Configuration | What the code does |
|---|---|---|
| `EpicPullIsCourtesy` | `Dispatch.cfg` | the courtesy epic pull request can fail a merged story (`story-merge.ts:95`) |
| `NoPullNothingRunning` | `Dispatch.cfg` | a lost RunTask reply leaves a container nobody holds, building behind a story that was handed back (`dispatch-specialist.ts:99`) |
| `RequestsAnswered` | `DispatchLive.cfg` with `PageSize = 1` | change requests beyond the first page of reviews are not seen (`await-pull-request-outcome.ts:230`) |
| `WaitGivesUp` | `DispatchLive.cfg` with `EcsExpires = TRUE` | the wait for a task that ECS has forgotten never ends (`await-specialist-task.ts:63`) |
| `TransientIsRetried` | `Siblings.cfg` | after a lost race, a 5xx is classified by the 422 before it (`create-story-branch.ts:116`) |
| `FailuresAreHandedBack` | `Lifecycle.cfg` | a request that throws before the try ends the process and hands nothing back (`dispatch-trigger.ts:128`) |
| `AbsorbedIsBenign` | `Lifecycle.cfg` | a move absorbed by an execution that has already handed back leaves the story In Progress for nobody (`dispatch-trigger.ts:170`) |
| `NoWorkflowExistsYet` | `Lifecycle.cfg` | a start whose reply is lost is reported and handed back while its workflow runs (`dispatch-trigger.ts:177`) |
| `UndoesItsOwnMove` | `Lifecycle.cfg` | a late hand-back takes back a newer move, since it reads no status first (`move-story-to-todo.ts:63`) |
| `RetryCanStart` | `Lifecycle.cfg` | a rejected connection is kept until the process restarts (`temporal-client.ts:84`) |
| `DiscardedWasHandled` | `Redelivery.cfg` | a retry is discarded after a handler that failed (`server.ts:85`) |
| `FirstTouchIsFirst` | `LaneRouting.cfg` | a refused or partial label lookup reads as no labels (`adapters/linear.ts:221`) |
| `EpicsOnly` | `LaneRouting.cfg` | a story wakes the lane for epics (`swim-lanes.ts:42`) |
| `StatusEntryFires` | `LaneRouting.cfg` | a status change that comes with a label change is not one (`adapters/linear.ts:328`) |
| `RepliesAreHeard` | `LaneRouting.cfg` | a reply is read against a later status (`adapters/linear.ts:429`) |
| `RetriesAreSafe` | `Activation.cfg` | the retry of a dropped stream repeats its writes (`activation-runner.ts:517`) |
| `ResumedMeansPaused` | `Activation.cfg` | a drop is announced as a pause (`tracker-notifier.ts:125`) |
| `PromiseIsKept` | `Activation.cfg` | a restart leaves "I'll leave an error comment" standing (`tracker-notifier.ts:111`) |
| `ToleratedIsRepaired` | `ToolErrors.cfg` | a failure without a target is excused by a write to something else (`activation-runner.ts:247`) |
| `TargetsAreConfirmed` | `ToolErrors.cfg` | an empty id decides a comparison before the id that has a value (`activation-runner.ts:159`) |
| `RepeatsAreBelieved` | `ToolErrors.cfg` | a retry made before a pause and answered after it excuses nothing (`activation-runner.ts:245`) |
| `UnrecognizedIsAWrite` | `ToolErrors.cfg` with `Calls <- Archives` | a tool with an unknown verb is not a write (`activation-runner.ts:222`) |
| `PartialSetRefused` | `Specialist.cfg` | revision variables without `REVISION_ROUND` are taken for a first build (`dispatch-context.ts:149`) |
| `PathsArriveWhole` | `Specialist.cfg` | a path that begins with a comma loses it on the way and is accepted (`dispatch-context.ts:113`) |
| `TurnlessIsSaid` | `Specialist.cfg` | a stream that ends before its first turn, in a result of error too, exits zero without a word (`run.ts:116`) |
| `FallbackMeansNoTurn` | `Specialist.cfg` | a session that throws after a turn is reported as one that failed to start (`run.ts:127`) |

Two more were met in reading. `resolveMaxTurns` multiplies what tier and size imply
(`dispatch-trigger.ts:92`), where `story-context.ts:52` speaks of the larger of the
two; the model takes the code's product. And `normalizePath` is not idempotent: it
turns "." into "./" and "./" into "/", and takes one slash at a time off "//x", so a
path that still begins with a dot or a slash once it is normalized changes when its
record is written out and read again. `RegenerationIsStable` says so as a hypothesis,
`PlainPaths`; the documents of `surfaces` hold no such path.

## 6. Not modelled

* `infrastructure/`: declarative CDKTF resources with no state of their own. The
  one fact that matters, a single listener task stopped before its successor
  starts, is an assumption of `WebhookListener`.
* `agents/`, `skills/`: prompts; what a model does with them is nondeterministic in
  `ActivationRunner`, `McpErrors` and `SpecialistRunner`.
* `scripts/` and CI: one-off tooling over files.
* In modelled components: HMAC arithmetic, the shapes of payloads and GraphQL
  queries, markdown around a registry block, the wording of prompts, comments and
  logs, and the start-up of the two services (read the environment, connect, or
  exit).

## 7. Plan

1. `checkDependencies`, with blockers that are completed and reopened while it
   reads them, as a part of `EpicBranches`.
