-------------------------- MODULE ActivationRunner --------------------------
(***************************************************************************)
(* The runs of one lane: createActivationRunner of activation-runner.ts,   *)
(* with the four courtesy writes of tracker-notifier.ts.  A run loads the  *)
(* lane's system blocks, counts tokens, posts "working on this", calls the *)
(* model until it stops for good, and ends with that comment deleted or    *)
(* with an error comment beside it.  Runs share the cache of blocks and    *)
(* the process, and nothing keeps two of them off one entity.              *)
(*                                                                         *)
(* Whether a final response has a failed write, or a call of a tool of the *)
(* client's, or both, is the model's choice here; how the code reads its   *)
(* tool calls is McpErrors'.                                               *)
(***************************************************************************)
EXTENDS Naturals

CONSTANTS
  Runs,                   \* activations, one per call of the lane's agent
  MaxPauseContinuations,  \* resumes of a paused run, 5 in the code
  MaxStreamRetries,       \* retries of a dropped stream, 2 in the code
  MaxRestarts,            \* bound: restarts of the process
  TrackerFaults           \* whether a courtesy write may fail or lose its reply

ASSUME RunnerAssumption ==
  /\ MaxPauseContinuations \in Nat /\ MaxStreamRetries \in Nat /\ MaxRestarts \in Nat
  /\ TrackerFaults \in BOOLEAN

VARIABLES
  at,        \* where each run is
  blocks,    \* systemBlockCache of the lane
  attempt,   \* calls of the model so far
  drops,     \* streamAttempt: drops of the current call
  rounds,    \* continuations
  comment,   \* the run's "working on this" comment
  timer,     \* whether progressTimer ticks
  shown,     \* what its last edit says of the attempt
  wrong,     \* what went wrong in the run: for the checks of its response,
             \* and for the properties
  errors,    \* error comments posted, or tried
  wrote,     \* writes the model's tools have made for the current call
  restarts   \* restarts so far

vars == <<at, blocks, attempt, drops, rounds, comment, timer, shown, wrong, errors, wrote, restarts>>

(* After the call: the report of a run still paused, the two checks of a   *)
(* response, the catch, the deletion of the comment, and the finally.      *)
(* "over" is the end of a run; "cut" is one its process took along.        *)
Waiting == {"blocks", "count", "announce", "call",
            "incomplete", "calls", "use", "thrown", "delete", "finally"}
Ended == {"over", "cut"}

InResponse == {"failed_call", "client_call"}
Faults == InResponse \cup {"incomplete", "thrown"}

(* "orphan" stands without the run knowing its id, "kept" was not deleted. *)
Comments == {"none", "standing", "orphan", "deleted", "kept"}

TypeOK ==
  /\ at \in [Runs -> Waiting \cup Ended \cup {"idle"}]
  /\ blocks \in {"none", "loading", "ready", "rejected"}
  /\ attempt \in [Runs -> Nat]
  /\ drops \in [Runs -> 0..MaxStreamRetries]
  /\ rounds \in [Runs -> 0..MaxPauseContinuations]
  /\ comment \in [Runs -> Comments]
  /\ timer \in [Runs -> BOOLEAN]
  /\ shown \in [Runs -> {"started", "first", "resumed"}]
  /\ wrong \in [Runs -> SUBSET Faults]
  /\ errors \in [Runs -> Nat]
  /\ wrote \in [Runs -> 0..MaxStreamRetries + 1]
  /\ restarts \in 0..MaxRestarts

Init ==
  /\ at = [r \in Runs |-> "idle"]
  /\ blocks = "none"
  /\ attempt = [r \in Runs |-> 0]
  /\ drops = [r \in Runs |-> 0]
  /\ rounds = [r \in Runs |-> 0]
  /\ comment = [r \in Runs |-> "none"]
  /\ timer = [r \in Runs |-> FALSE]
  /\ shown = [r \in Runs |-> "started"]
  /\ wrong = [r \in Runs |-> {}]
  /\ errors = [r \in Runs |-> 0]
  /\ wrote = [r \in Runs |-> 0]
  /\ restarts = 0

-----------------------------------------------------------------------------
Goes(r, where) == at' = [at EXCEPT ![r] = where]
calling == <<attempt, drops, rounds, wrote>>
courtesy == <<comment, timer, shown, errors>>

(* A throw anywhere in the try: the catch is next.                         *)
Finds(r, faults) == wrong' = [wrong EXCEPT ![r] = @ \cup faults]
Throws(r) == Goes(r, "thrown") /\ Finds(r, {"thrown"})
Passes(r, where) == Goes(r, where) /\ UNCHANGED wrong

(* getSystemBlocks: the first run of the lane reads the files, and the     *)
(* promise stays in the cache however it ends.                             *)
Start(r) ==
  /\ at[r] = "idle"
  /\ Goes(r, "blocks")
  /\ blocks' = IF blocks = "none" THEN "loading" ELSE blocks
  /\ UNCHANGED <<calling, courtesy, wrong, restarts>>

BuildSystemBlocks ==
  /\ blocks = "loading" /\ blocks' \in {"ready", "rejected"}
  /\ UNCHANGED <<at, calling, courtesy, wrong, restarts>>

(* The prompt is rendered, or the blocks or its template cannot be read.   *)
Assemble_WaitsForBlocks(r) ==
  /\ at[r] = "blocks"
  /\ blocks = "ready" /\ (Passes(r, "count") \/ Throws(r))
  /\ UNCHANGED <<blocks, calling, courtesy, restarts>>
Assemble(r) ==
  /\ at[r] = "blocks"
  /\ \/ blocks = "ready" /\ (Passes(r, "count") \/ Throws(r))
     \/ blocks = "rejected" /\ Throws(r)
  /\ UNCHANGED <<blocks, calling, courtesy, restarts>>

(* countTokens fails, or finds too many, or allows the call.               *)
CountTokens(r) ==
  /\ at[r] = "count"
  /\ Passes(r, "announce") \/ Throws(r)
  /\ UNCHANGED <<blocks, calling, courtesy, restarts>>

(* postActivationStarted: only a comment whose id came back gets a timer.  *)
(* With it the first call of the model begins.                             *)
Posted == IF TrackerFaults THEN {"standing", "orphan", "none"} ELSE {"standing"}
Announce(r) ==
  /\ at[r] = "announce"
  /\ Goes(r, "call")
  /\ \E posted \in Posted :
       /\ comment' = [comment EXCEPT ![r] = posted]
       /\ timer' = [timer EXCEPT ![r] = (posted = "standing")]
  /\ attempt' = [attempt EXCEPT ![r] = @ + 1]
  /\ UNCHANGED <<blocks, drops, rounds, shown, wrong, errors, wrote, restarts>>

(* The model's tools run on the server while the stream is open.           *)
ServerWrites(r) ==
  /\ at[r] = "call" /\ wrote[r] <= drops[r]
  /\ wrote' = [wrote EXCEPT ![r] = @ + 1]
  /\ UNCHANGED <<at, blocks, attempt, drops, rounds, courtesy, wrong, restarts>>

CallIsOver(r) == wrote' = [wrote EXCEPT ![r] = 0]

(* callOnce: a stream that ends without a message is opened again with the *)
(* same messages; after too many of them, and on any other error, the run  *)
(* throws.                                                                 *)
StreamDrops_OneMore(r) ==
  /\ at[r] = "call"
  /\ IF drops[r] <= MaxStreamRetries
     THEN /\ drops' = [drops EXCEPT ![r] = @ + 1]
          /\ attempt' = [attempt EXCEPT ![r] = @ + 1]
          /\ UNCHANGED <<at, wrong, wrote>>
     ELSE Throws(r) /\ CallIsOver(r) /\ UNCHANGED <<attempt, drops>>
  /\ UNCHANGED <<blocks, rounds, courtesy, restarts>>
StreamDrops(r) ==
  /\ at[r] = "call"
  /\ IF drops[r] < MaxStreamRetries
     THEN /\ drops' = [drops EXCEPT ![r] = @ + 1]
          /\ attempt' = [attempt EXCEPT ![r] = @ + 1]
          /\ UNCHANGED <<at, wrong, wrote>>
     ELSE Throws(r) /\ CallIsOver(r) /\ UNCHANGED <<attempt, drops>>
  /\ UNCHANGED <<blocks, rounds, courtesy, restarts>>

CallThrows(r) ==
  /\ at[r] = "call" /\ Throws(r) /\ CallIsOver(r)
  /\ UNCHANGED <<blocks, attempt, drops, rounds, courtesy, restarts>>

(* stop_reason "pause_turn": resumed by a call of its own, so many times.  *)
Pauses(r) ==
  /\ at[r] = "call"
  /\ IF rounds[r] < MaxPauseContinuations
     THEN /\ rounds' = [rounds EXCEPT ![r] = @ + 1]
          /\ drops' = [drops EXCEPT ![r] = 0]
          /\ attempt' = [attempt EXCEPT ![r] = @ + 1]
          /\ UNCHANGED <<at, wrong>>
     ELSE /\ Goes(r, "incomplete") /\ Finds(r, {"incomplete"})
          /\ UNCHANGED <<attempt, drops, rounds>>
  /\ CallIsOver(r)
  /\ UNCHANGED <<blocks, courtesy, restarts>>

(* Any other stop, whatever is in the response.                            *)
Stops(r) ==
  /\ at[r] = "call"
  /\ Goes(r, "calls") /\ \E found \in SUBSET InResponse : Finds(r, found)
  /\ CallIsOver(r)
  /\ UNCHANGED <<blocks, attempt, drops, rounds, courtesy, restarts>>

(* postErrorComment, whose own failure is swallowed.                       *)
PostErrorComment(r) == errors' = [errors EXCEPT ![r] = @ + 1] /\ UNCHANGED <<comment, timer, shown>>

(* Three exits post and return, and the finally is next.                   *)
ReportIncomplete(r) ==
  /\ at[r] = "incomplete"
  /\ PostErrorComment(r) /\ Passes(r, "finally")
  /\ UNCHANGED <<blocks, calling, restarts>>

FindMcpError_NoReturn(r) ==
  /\ at[r] = "calls"
  /\ IF "failed_call" \in wrong[r] THEN PostErrorComment(r) ELSE UNCHANGED courtesy
  /\ Passes(r, "use")
  /\ UNCHANGED <<blocks, calling, restarts>>
FindMcpError(r) ==
  /\ at[r] = "calls"
  /\ IF "failed_call" \in wrong[r] THEN PostErrorComment(r) /\ Passes(r, "finally")
     ELSE UNCHANGED courtesy /\ Passes(r, "use")
  /\ UNCHANGED <<blocks, calling, restarts>>

(* A response with nothing wrong: the timer stops before the comment goes. *)
FindToolUse_LeavesComment(r) ==
  /\ at[r] = "use"
  /\ IF "client_call" \in wrong[r] THEN PostErrorComment(r) ELSE UNCHANGED courtesy
  /\ Passes(r, "finally")
  /\ UNCHANGED <<blocks, calling, restarts>>
FindToolUse(r) ==
  /\ at[r] = "use"
  /\ \/ "client_call" \in wrong[r] /\ PostErrorComment(r) /\ Passes(r, "finally")
     \/ /\ "client_call" \notin wrong[r] /\ comment[r] # "standing"
        /\ UNCHANGED courtesy /\ Passes(r, "finally")
     \/ /\ "client_call" \notin wrong[r] /\ comment[r] = "standing"
        /\ timer' = [timer EXCEPT ![r] = FALSE] /\ UNCHANGED <<comment, shown, errors>>
        /\ Passes(r, "delete")
  /\ UNCHANGED <<blocks, calling, restarts>>

DeleteComment(r) ==
  /\ at[r] = "delete"
  /\ Passes(r, "finally")
  /\ \E left \in IF TrackerFaults THEN {"deleted", "kept"} ELSE {"deleted"} :
       comment' = [comment EXCEPT ![r] = left]
  /\ UNCHANGED <<blocks, calling, timer, shown, errors, restarts>>

(* catch (err)                                                             *)
Catch(r) ==
  /\ at[r] = "thrown"
  /\ PostErrorComment(r) /\ Passes(r, "finally")
  /\ UNCHANGED <<blocks, calling, restarts>>

Finally(r) ==
  /\ at[r] = "finally"
  /\ timer' = [timer EXCEPT ![r] = FALSE] /\ Passes(r, "over")
  /\ UNCHANGED <<blocks, calling, comment, shown, errors, restarts>>

(* setInterval: the comment is edited in place, and any attempt after the  *)
(* first is called resumed.                                                *)
UpdateActivationProgress(r) ==
  /\ timer[r]
  /\ shown' = [shown EXCEPT ![r] = IF attempt[r] > 1 THEN "resumed" ELSE "first"]
  /\ UNCHANGED <<at, blocks, calling, comment, timer, wrong, errors, restarts>>

Restart ==
  /\ restarts < MaxRestarts /\ restarts' = restarts + 1
  /\ at' = [r \in Runs |-> IF at[r] \in Waiting THEN "cut" ELSE at[r]]
  /\ timer' = [r \in Runs |-> FALSE]
  /\ blocks' = "none"
  /\ UNCHANGED <<calling, comment, shown, wrong, errors>>

-----------------------------------------------------------------------------
CallEnds(r) == StreamDrops(r) \/ CallThrows(r) \/ Pauses(r) \/ Stops(r)
Concludes(r) ==
  \/ ReportIncomplete(r) \/ FindMcpError(r) \/ FindToolUse(r) \/ DeleteComment(r)
  \/ Catch(r) \/ Finally(r)
Proceeds(r) == Assemble(r) \/ CountTokens(r) \/ Announce(r) \/ CallEnds(r) \/ Concludes(r)

Next ==
  \/ \E r \in Runs : Start(r) \/ Proceeds(r) \/ ServerWrites(r) \/ UpdateActivationProgress(r)
  \/ BuildSystemBlocks \/ Restart

Spec == Init /\ [][Next]_vars

(* Every request has a timeout and file reads end; nobody owes a start.    *)
FairSpec == Spec /\ (\A r \in Runs : WF_vars(Proceeds(r))) /\ WF_vars(BuildSystemBlocks)

-----------------------------------------------------------------------------
(* Properties.                                                             *)

(* A run tells one story, whichever of its exits it takes and however many *)
(* things are wrong in it: one error comment, and its "working on this"    *)
(* not taken away, if anything was, and no error comment if nothing was    *)
(* (activation-runner.ts:555-617; 604-606: "every failure return above     *)
(* leaves the comment in place as a trace").                               *)
OneVerdict ==
  \A r \in Runs : at[r] = "over" =>
    \/ wrong[r] = {} /\ errors[r] = 0
    \/ wrong[r] # {} /\ errors[r] = 1 /\ comment[r] \notin {"deleted", "kept"}

(* A "working on this" comment stands while its run works; after it, only  *)
(* as the trace of a run that failed or was cut short, or because the      *)
(* tracker lost its id or its deletion (activation-runner.ts:601-610).     *)
ClaimsRetired ==
  \A r \in Runs : at[r] = "over" /\ wrong[r] = {} => comment[r] # "standing"

(* A run that is over never ticks again (activation-runner.ts:379-380).    *)
TimersStop == \A r \in Runs : at[r] \in Ended => ~timer[r]

(* Drops and pauses together never call the model more often than so.      *)
CallsAreBounded ==
  \A r \in Runs : attempt[r] <= (MaxPauseContinuations + 1) * (MaxStreamRetries + 1)

(* Every run comes to an end, whatever the model, the tracker and the      *)
(* lane's cached blocks do.                                                *)
RunsConclude == \A r \in Runs : at[r] = "blocks" ~> at[r] \in Ended

(***************************************************************************)
(* What the repository says and the code does not do (README, section 5).  *)
(* The run's configuration refutes each of these when it is added to it.   *)
(***************************************************************************)
(* activation-config.ts:99-102: after a drop "nothing was written, so      *)
(* retrying the identical call is safe": it makes no write twice.          *)
RetriesAreSafe == \A r \in Runs : wrote[r] <= 1

(* tracker-notifier.ts:125 tells the reader "resumed after the server's    *)
(* tool-call loop paused": then the run has paused.                        *)
ResumedMeansPaused == \A r \in Runs : shown[r] = "resumed" => rounds[r] > 0

(* tracker-notifier.ts:111 promises "I'll leave an error comment if it     *)
(* can't complete": no claim stands for a run that is over without one.    *)
PromiseIsKept ==
  \A r \in Runs : comment[r] = "standing" /\ at[r] \in Ended => errors[r] > 0
=============================================================================
