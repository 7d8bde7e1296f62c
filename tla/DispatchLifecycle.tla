------------------------- MODULE DispatchLifecycle -------------------------
(***************************************************************************)
(* From a person's move of a story into In Progress to the end of its      *)
(* dispatch: the trigger runs of webhook-listener/src/dispatch-trigger.ts, *)
(* the Temporal client they share, the executions Temporal keeps apart by  *)
(* workflow id, and the three parties that write the story's status.       *)
(*                                                                         *)
(* A trigger run is <<story, n>>, and an execution has the name of the run *)
(* that started it.  What an execution does between its start and the      *)
(* decision to end is DispatchStory's; here it only hands back, or not.    *)
(***************************************************************************)
EXTENDS Naturals

CONSTANTS
  Stories,         \* stories of the tracker
  MaxMoves,        \* bound: moves of one story into In Progress
  MaxRuns,         \* bound: trigger runs of one story, repeated deliveries included
  MaxRestarts,     \* bound: restarts of the listener by its platform
  TrackerFaults,   \* whether a request to Linear may fail
  TemporalFaults,  \* whether Temporal may be unset or out of reach
  LostReplies      \* whether a start Temporal accepted may be reported as an error

ASSUME LifecycleAssumption ==
  /\ MaxMoves \in Nat /\ MaxRuns \in Nat /\ MaxRestarts \in Nat
  /\ {TrackerFaults, TemporalFaults, LostReplies} \subseteq BOOLEAN

VARIABLES
  board,     \* by story, its status in the tracker
  moves,     \* by story, how often a person has moved it into In Progress
  run,       \* by trigger run, where it is and for which move it runs
  exec,      \* by execution, its phase and how it ends
  client,    \* clientPromise
  temporal,  \* "unset" in the environment, or configured and "up" or "down"
  restarts   \* restarts so far

vars == <<board, moves, run, exec, client, temporal, restarts>>

Runs == Stories \X (1..MaxRuns)
StoryOf(r) == r[1]
RunsOf(s) == {r \in Runs : StoryOf(r) = s}

(* A run waits for the story's context, for the client, for the start's    *)
(* reply, for its error comment, for its move to Todo.  Then it has        *)
(* "started" an execution or was "absorbed" by one, too "late" if that one *)
(* had handed back already; or it "handed" the story back, or failed to    *)
(* and left it "stuck"; or the process ended and it was "cut".             *)
InFlight == {"context", "client", "start", "comment", "move"}
Stages == InFlight \cup
          {"idle", "started", "absorbed", "late", "handed", "stuck", "cut"}
Phases == {"none", "running", "handing", "closing", "closed"}
Endings == {"none", "handed", "unwritten", "merged"}

TypeOK ==
  /\ board \in [Stories -> {"Todo", "In_Progress"}]
  /\ moves \in [Stories -> 0..MaxMoves]
  /\ run \in [Runs -> [at : Stages, move : Nat, by : Runs, doubt : BOOLEAN]]
  /\ \A r \in Runs : StoryOf(run[r].by) = StoryOf(r)
  /\ exec \in [Runs -> [phase : Phases, ending : Endings]]
  /\ client \in {"none", "connecting", "ready", "rejected"}
  /\ temporal \in {"unset", "up", "down"}
  /\ restarts \in 0..MaxRestarts

Init ==
  /\ board = [s \in Stories |-> "Todo"]
  /\ moves = [s \in Stories |-> 0]
  /\ run = [r \in Runs |-> [at |-> "idle", move |-> 0, by |-> r, doubt |-> FALSE]]
  /\ exec = [r \in Runs |-> [phase |-> "none", ending |-> "none"]]
  /\ client = "none"
  /\ temporal \in IF TemporalFaults THEN {"unset", "up"} ELSE {"up"}
  /\ restarts = 0

-----------------------------------------------------------------------------
(* People, and what is outside the code.                                   *)
MoveIn(s) ==
  /\ board[s] = "Todo" /\ moves[s] < MaxMoves
  /\ board' = [board EXCEPT ![s] = "In_Progress"]
  /\ moves' = [moves EXCEPT ![s] = @ + 1]
  /\ UNCHANGED <<run, exec, client, temporal, restarts>>

MoveOut(s) ==
  /\ board[s] = "In_Progress"
  /\ board' = [board EXCEPT ![s] = "Todo"]
  /\ UNCHANGED <<moves, run, exec, client, temporal, restarts>>

(* "doubt" remembers that Temporal was not up all through a run.           *)
Doubted(r) == run[r].at \in InFlight
GoDown ==
  /\ TemporalFaults /\ temporal = "up" /\ temporal' = "down"
  /\ run' = [r \in Runs |-> IF Doubted(r) THEN [run[r] EXCEPT !.doubt = TRUE] ELSE run[r]]
  /\ UNCHANGED <<board, moves, exec, client, restarts>>
ComeUp ==
  /\ temporal = "down" /\ temporal' = "up"
  /\ UNCHANGED <<board, moves, run, exec, client, restarts>>

-----------------------------------------------------------------------------
(* The listener.  A delivery of one of the story's moves starts a run at   *)
(* once, whatever the board shows by then.                                 *)
Goes(r, stage) == run' = [run EXCEPT ![r].at = stage]

Arrive(r) ==
  /\ run[r].at = "idle" /\ \A n \in 1..r[2] - 1 : run[<<StoryOf(r), n>>].at # "idle"
  /\ \E n \in 1..moves[StoryOf(r)] :
       run' = [run EXCEPT ![r].at = "context", ![r].move = n,
                          ![r].doubt = (temporal # "up")]
  /\ UNCHANGED <<board, moves, exec, client, temporal, restarts>>

(* The process ends, and with it every run in hand and the client.         *)
Stops ==
  /\ run' = [r \in Runs |-> IF run[r].at \in InFlight
                             THEN [run[r] EXCEPT !.at = "cut"] ELSE run[r]]
  /\ client' = "none"

Restart ==
  /\ restarts < MaxRestarts /\ restarts' = restarts + 1
  /\ Stops
  /\ temporal' \in IF temporal = "unset" THEN {"unset", "up"} ELSE {temporal}
  /\ UNCHANGED <<board, moves, exec>>

(* fetchStoryDispatchContext: the story is fit, or it is not.              *)
ReadContext(r) ==
  /\ run[r].at = "context"
  /\ Goes(r, "client") \/ Goes(r, "comment")
  /\ UNCHANGED <<board, moves, exec, client, temporal, restarts>>

(* Or the request throws, outside the try and under a void call: nothing   *)
(* handles the rejection, and Node ends the process.                       *)
ContextThrows(r) ==
  /\ run[r].at = "context" /\ TrackerFaults
  /\ Stops
  /\ UNCHANGED <<board, moves, exec, temporal, restarts>>

(* getClient: the first caller opens the connection; without an address    *)
(* it throws before the promise is kept.  The promise is kept however it   *)
(* ends.                                                                   *)
GetClient_NoReject(r) ==
  /\ run[r].at = "client"
  /\ \/ client = "none" /\ temporal = "unset" /\ Goes(r, "comment") /\ UNCHANGED client
     \/ client = "none" /\ temporal # "unset" /\ client' = "connecting" /\ UNCHANGED run
     \/ client = "ready" /\ Goes(r, "start") /\ UNCHANGED client
  /\ UNCHANGED <<board, moves, exec, temporal, restarts>>
GetClient(r) ==
  /\ run[r].at = "client"
  /\ \/ client = "none" /\ temporal = "unset" /\ Goes(r, "comment") /\ UNCHANGED client
     \/ client = "none" /\ temporal # "unset" /\ client' = "connecting" /\ UNCHANGED run
     \/ client = "ready" /\ Goes(r, "start") /\ UNCHANGED client
     \/ client = "rejected" /\ Goes(r, "comment") /\ UNCHANGED client
  /\ UNCHANGED <<board, moves, exec, temporal, restarts>>

Connect ==
  /\ client = "connecting"
  /\ client' = IF temporal = "up" THEN "ready" ELSE "rejected"
  /\ UNCHANGED <<board, moves, run, exec, temporal, restarts>>

(* client.workflow.start under the id dispatch-<story>: Temporal refuses a *)
(* second execution while one is open.                                     *)
Open(e) == exec[e].phase \in {"running", "handing", "closing"}
OpenOf_ByRun(s) == {}
OpenOf(s) == {e \in RunsOf(s) : Open(e)}

Accepted(r) ==
  /\ OpenOf(StoryOf(r)) = {}
  /\ exec' = [exec EXCEPT ![r].phase = "running"]
  /\ \/ Goes(r, "started")
     \/ LostReplies /\ Goes(r, "comment")

AlreadyStarted(r) ==
  \E e \in OpenOf(StoryOf(r)) :
    /\ run' = [run EXCEPT ![r].by = e,
                          ![r].at = IF exec[e].ending = "handed" THEN "late" ELSE "absorbed"]
    /\ UNCHANGED exec

Start(r) ==
  /\ run[r].at = "start"
  /\ \/ temporal = "up" /\ (Accepted(r) \/ AlreadyStarted(r))
     \/ temporal = "down" /\ Goes(r, "comment") /\ UNCHANGED exec
  /\ UNCHANGED <<board, moves, client, temporal, restarts>>

(* postErrorComment swallows its own failure, so the move always follows.  *)
Comment(r) ==
  /\ run[r].at = "comment"
  /\ Goes(r, "move")
  /\ UNCHANGED <<board, moves, exec, client, temporal, restarts>>

(* moveStoryToTodo, the listener's: unconditional, and best-effort.        *)
HandBack_Skipped(r) ==
  /\ run[r].at = "move"
  /\ Goes(r, "handed")
  /\ UNCHANGED <<board, moves, exec, client, temporal, restarts>>
HandBack(r) ==
  /\ run[r].at = "move"
  /\ \/ Goes(r, "handed") /\ board' = [board EXCEPT ![StoryOf(r)] = "Todo"]
     \/ TrackerFaults /\ Goes(r, "stuck") /\ UNCHANGED board
  /\ UNCHANGED <<moves, exec, client, temporal, restarts>>

-----------------------------------------------------------------------------
(* The execution, as the board sees it.  It ends merged, or decides to     *)
(* hand back; the activity's update lands, maybe more than once before the *)
(* workflow hears of it, or is given up; and then Temporal closes it.      *)
Decide(e) ==
  /\ exec[e].phase = "running"
  /\ \/ exec' = [exec EXCEPT ![e] = [phase |-> "closing", ending |-> "merged"]]
     \/ exec' = [exec EXCEPT ![e].phase = "handing"]
  /\ UNCHANGED <<board, moves, run, client, temporal, restarts>>

MoveStoryToTodo(e) ==
  /\ exec[e].phase = "handing"
  /\ \/ /\ board' = [board EXCEPT ![StoryOf(e)] = "Todo"]
        /\ \/ UNCHANGED exec
           \/ exec' = [exec EXCEPT ![e] = [phase |-> "closing", ending |-> "handed"]]
     \/ /\ TrackerFaults /\ UNCHANGED board
        /\ exec' = [exec EXCEPT ![e] = [phase |-> "closing", ending |-> "unwritten"]]
  /\ UNCHANGED <<moves, run, client, temporal, restarts>>

Close(e) ==
  /\ exec[e].phase = "closing"
  /\ exec' = [exec EXCEPT ![e].phase = "closed"]
  /\ UNCHANGED <<board, moves, run, client, temporal, restarts>>

-----------------------------------------------------------------------------
Trigger(r) == ReadContext(r) \/ GetClient(r) \/ Start(r) \/ Comment(r) \/ HandBack(r)
Workflow(e) == Decide(e) \/ MoveStoryToTodo(e) \/ Close(e)
People(s) == MoveIn(s) \/ MoveOut(s)

Next ==
  \/ \E s \in Stories : People(s)
  \/ \E r \in Runs : Arrive(r) \/ ContextThrows(r) \/ Trigger(r) \/ Workflow(r)
  \/ Connect \/ GoDown \/ ComeUp \/ Restart

Spec == Init /\ [][Next]_vars

(* Every request of a run ends by an answer or an error, a connection      *)
(* attempt included.  People, Temporal and the platform owe nothing.       *)
FairSpec == Spec /\ (\A r \in Runs : WF_vars(Trigger(r))) /\ WF_vars(Connect)

-----------------------------------------------------------------------------
(* Properties.                                                             *)

(* However deliveries repeat and runs overlap, one story has one execution *)
(* at a time, so its branch has one writer (dispatch-trigger.ts:163-166).  *)
OneDispatch ==
  \A d, e \in Runs : StoryOf(d) = StoryOf(e) /\ Open(d) /\ Open(e) => d = e

(* A story shown as In Progress has a reason: its last move is still to be *)
(* heard or in hand; its execution works, or merged and left the board to  *)
(* a person; or one of four failures happened to that very move: the run   *)
(* died with its process, its hand-back or its execution's could not be    *)
(* written, or it was absorbed by an execution that had handed back.       *)
Heard(s) == {r \in RunsOf(s) : run[r].at # "idle" /\ run[r].move = moves[s]}
Works(e) == exec[e].phase \in {"running", "handing"}
Accounts(r) ==
  \/ run[r].at \in InFlight \cup {"cut", "stuck", "late"}
  \/ run[r].at \in {"started", "absorbed"} /\
     (Works(run[r].by) \/ exec[run[r].by].ending \in {"unwritten", "merged"})
InProgressIsExplained ==
  \A s \in Stories : board[s] = "In_Progress" =>
    Heard(s) = {} \/ \E r \in Heard(s) : Accounts(r)

(* No run waits for ever, whatever becomes of Temporal and the client.     *)
RunsEnd == \A r \in Runs : run[r].at = "context" ~> run[r].at \notin InFlight

(***************************************************************************)
(* What the repository says and the code does not do (README, section 5).  *)
(* The run's configuration refutes each of these when it is added to it.   *)
(***************************************************************************)
(* move-story-to-todo.ts:6 says it covers "the failure paths *before* a    *)
(* dispatch workflow ever starts": then no run just dies in hand while the *)
(* platform leaves the process alone.                                      *)
FailuresAreHandedBack ==
  restarts = 0 => \A r \in Runs : run[r].at # "cut"

(* dispatch-trigger.ts:171-173 calls an already-started error benign: the  *)
(* story's dispatch is still running.  Then it still hands the story back, *)
(* and no absorbed move leaves it In Progress with nothing to move it.     *)
AbsorbedIsBenign ==
  \A s \in Stories : board[s] = "In_Progress" =>
    \A r \in Heard(s) : run[r].at = "late" =>
      \E q \in Heard(s) : q # r /\ Accounts(q)

(* move-story-to-todo.ts:8-9 moves the story "since no workflow exists     *)
(* yet": no execution works behind a run that reported a failed start.     *)
NoWorkflowExistsYet ==
  \A r \in Runs : run[r].at \in {"comment", "move", "handed"} => ~Open(r)

(* Nor, by the same words, does its move take back a newer one, and the    *)
(* dispatch that came of that.                                             *)
UndoesItsOwnMove ==
  [][\A r \in Runs : run[r].at = "move" /\ run'[r].at = "handed" =>
       board[StoryOf(r)] = "Todo" \/ run[r].move = moves[StoryOf(r)]]_vars

(* The comment on a failed start ends in "Once resolved, re-trigger"       *)
(* (tracker-notifier.ts:266): a retry that finds Temporal up all along is  *)
(* not failed by a connection that was refused before it came.             *)
RetryCanStart ==
  \A r \in Runs :
    run[r].at = "client" /\ ~run[r].doubt => client # "rejected"
=============================================================================
