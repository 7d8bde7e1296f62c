----------------------------- MODULE McpErrors -----------------------------
(***************************************************************************)
(* What an activation concludes from the tool calls of its last response:  *)
(* findMcpError and findDuplicateWrites of activation-runner.ts, over any  *)
(* conversation of a model with its MCP servers.                           *)
(*                                                                         *)
(* Calls are numbered as they are made.  A response holds the calls made   *)
(* since the last pause and the answers that came since then, so an answer *)
(* may be in a later response than its call.  A result whose tool_use_id   *)
(* is of no call counts as the answer to call 0; a conversation has one at *)
(* most (a bound).                                                         *)
(***************************************************************************)
EXTENDS Naturals, SequencesExt

CONSTANTS
  Calls,      \* what a model may call: [name, input, body, entity]
  Prefixed,   \* the tool names that start with a MCP_WRITE_TOOL_PREFIXES
  ReadTools,  \* the tool names with a read verb, get_, list_ or search_
  MaxCalls,   \* bound: calls of one conversation
  Empty       \* the empty string, as a value of an input

ASSUME McpAssumption == MaxCalls \in Nat

VARIABLES
  made,      \* every call of the conversation
  paused,    \* how many of them were made before the last pause
  settled,   \* the calls answered before it
  answers    \* the answers in the current response: [call, error, known], the last
             \* for the properties: the calls made by the time of the answer

mcpVars == <<made, paused, settled, answers>>

-----------------------------------------------------------------------------
(* The code's reading of a call.                                           *)
IsWrite(call) == call.name \in Prefixed

(* The first key that either input has decides; without one, no match.     *)
TargetIdKeys == <<"issueId", "projectId", "documentId", "id", "entityId">>
NamedBy(a, b) == {i \in 1..Len(TargetIdKeys) : TargetIdKeys[i] \in DOMAIN a \cup DOMAIN b}
SameTarget(a, b) ==
  \E i \in NamedBy(a, b) :
    LET key == TargetIdKeys[i]
    IN  /\ \A j \in NamedBy(a, b) : i <= j
        /\ key \in DOMAIN a \cap DOMAIN b /\ a[key] = b[key]

HasUsableTarget(a) == \E key \in Range(TargetIdKeys) \cap DOMAIN a : a[key] # Empty

(* allToolUses is made; localToolUses, the calls of the current response.  *)
Local(n) == n > paused
Known(i) == answers[i].call # 0
CallOf(i) == made[answers[i].call]
Failed(i) == answers[i].error

(* A later answer excuses a failed write: the same tool, with the same     *)
(* target if the failed call had one.                                      *)
Excuses_ByName(j, i) ==
  /\ Known(i) /\ Known(j) /\ j > i /\ ~Failed(j) /\ Local(answers[j].call)
  /\ CallOf(j).name = CallOf(i).name
Excuses_LocalFailure(j, i) ==
  /\ Known(i) /\ Known(j) /\ j > i /\ ~Failed(j) /\ Local(answers[j].call) /\ Local(answers[i].call)
  /\ CallOf(j).name = CallOf(i).name
  /\ HasUsableTarget(CallOf(i).input) => SameTarget(CallOf(i).input, CallOf(j).input)
Excuses(j, i) ==
  /\ Known(i) /\ Known(j) /\ j > i /\ ~Failed(j) /\ Local(answers[j].call)
  /\ CallOf(j).name = CallOf(i).name
  /\ HasUsableTarget(CallOf(i).input) => SameTarget(CallOf(i).input, CallOf(j).input)

(* findMcpError: the failed writes nothing excuses, the answer to no call  *)
(* taken for one; the code returns the first, or null if there is none.    *)
McpErrors == {i \in 1..Len(answers) :
  /\ Failed(i) /\ (Known(i) => IsWrite(CallOf(i)))
  /\ \A j \in 1..Len(answers) : ~Excuses(j, i)}

(* findDuplicateWrites: the later of two successful writes with the same   *)
(* tool, target and input.                                                 *)
SuccessfulWrites == {i \in 1..Len(answers) : ~Failed(i) /\ Known(i) /\ IsWrite(CallOf(i))}
Twins(i, j) ==
  /\ CallOf(i).name = CallOf(j).name /\ SameTarget(CallOf(i).input, CallOf(j).input)
  /\ CallOf(i).input = CallOf(j).input /\ CallOf(i).body = CallOf(j).body
DuplicateWrites == {j \in SuccessfulWrites : \E i \in SuccessfulWrites : i < j /\ Twins(i, j)}

-----------------------------------------------------------------------------
(* The conversation.                                                       *)
Answers == [call : 0..MaxCalls, error : BOOLEAN, known : 0..MaxCalls]
McpTypeOK ==
  /\ made \in Seq(Calls) /\ Len(made) <= MaxCalls
  /\ paused \in 0..Len(made)
  /\ settled \subseteq 0..paused
  /\ answers \in Seq(Answers)
  /\ \A i \in 1..Len(answers) : answers[i].call \in 0..Len(made) \ settled

McpInit == made = <<>> /\ paused = 0 /\ settled = {} /\ answers = <<>>

Call(c) ==
  /\ Len(made) < MaxCalls
  /\ made' = Append(made, c)
  /\ UNCHANGED <<paused, settled, answers>>

Answered == {answers[i].call : i \in 1..Len(answers)}
Answer(n, error) ==
  /\ n \in 0..Len(made) \ (settled \cup Answered)
  /\ answers' = Append(answers, [call |-> n, error |-> error, known |-> Len(made)])
  /\ UNCHANGED <<made, paused, settled>>

(* stop_reason "pause_turn": the response goes into the messages, where    *)
(* collectToolUses finds its calls and nothing looks for its answers.      *)
Pause ==
  /\ paused < Len(made)
  /\ paused' = Len(made)
  /\ settled' = settled \cup Answered
  /\ answers' = <<>>
  /\ UNCHANGED made

McpNext ==
  \/ \E c \in Calls : Call(c)
  \/ \E n \in 0..MaxCalls, error \in BOOLEAN : Answer(n, error)
  \/ Pause

McpSpec == McpInit /\ [][McpNext]_mcpVars

-----------------------------------------------------------------------------
(* Properties.  What a call is about is its entity, whether its input      *)
(* names it or not; the code never sees it.                                *)
Repaired(i) ==
  \E j \in i + 1..Len(answers) :
    /\ Known(j) /\ ~Failed(j)
    /\ CallOf(j).name = CallOf(i).name /\ CallOf(j).entity = CallOf(i).entity

(* The id that decides a comparison of this call is a real one, and is of  *)
(* what the call writes.                                                   *)
NamesEntity(call) ==
  \E i \in NamedBy(call.input, call.input) :
    /\ \A j \in NamedBy(call.input, call.input) : i <= j
    /\ call.input[TargetIdKeys[i]] = call.entity /\ call.entity # Empty

(* A failed write that named what it wrote is reported, unless the same    *)
(* tool later succeeded on that very entity, or did with the id of that    *)
(* entity in the place that decides while it wrote something else.  No     *)
(* other success hides it, whatever ids, empty ones too, the other calls   *)
(* carry (activation-runner.ts:146-153, 185-188).  A failure that answers  *)
(* no call is always reported.                                             *)
TargetedFailuresAreReported ==
  \A i \in 1..Len(answers) :
    Failed(i) /\ (Known(i) => IsWrite(CallOf(i)) /\ NamesEntity(CallOf(i))) =>
      \/ i \in McpErrors
      \/ /\ Known(i)
         /\ \/ Repaired(i)
            \/ \E j \in i + 1..Len(answers) :
                 /\ Known(j) /\ ~Failed(j)
                 /\ CallOf(j).name = CallOf(i).name /\ ~NamesEntity(CallOf(j))

(* No false alarm: whatever the model calls once it has seen a write fail, *)
(* and with success, is believed to make it good if it is the same tool    *)
(* again, with the same ids or where the failed call had none.  That the   *)
(* code looks for it among the calls of the last response only, but for    *)
(* the failed call in all of them, costs no such retry, however the pauses *)
(* fall (activation-runner.ts:176-186, 205-214, 226-245, 291-297).         *)
RetriesAreBelieved ==
  \A i \in McpErrors, j \in 1..Len(answers) :
    /\ Known(i) /\ Known(j) /\ ~Failed(j)
    /\ answers[j].call > answers[i].known /\ CallOf(j).name = CallOf(i).name
    => HasUsableTarget(CallOf(i).input) /\ CallOf(j).input # CallOf(i).input

(* The duplicates named in the log are one write made twice, and no such   *)
(* pair of one response is missed (activation-runner.ts:257-266).          *)
DuplicatesAreRepeats ==
  \A j \in SuccessfulWrites : HasUsableTarget(CallOf(j).input) =>
    (j \in DuplicateWrites <=> \E i \in SuccessfulWrites : i < j /\ CallOf(i) = CallOf(j))

(***************************************************************************)
(* What the repository says and the code does not do (README, section 5).  *)
(* The run's configuration refutes each of these when it is added to it.   *)
(***************************************************************************)
(* activation-runner.ts:187-188: a failure is tolerated "never on tool     *)
(* name alone, which would risk swallowing an unrelated write's real       *)
(* failure": what is tolerated was repaired.                               *)
ToleratedIsRepaired ==
  \A i \in 1..Len(answers) :
    Failed(i) /\ Known(i) /\ IsWrite(CallOf(i)) => i \in McpErrors \/ Repaired(i)

(* activation-runner.ts:146-148: a comparison of targets is there "to      *)
(* confirm a later retry of the same tool actually targets the same entity *)
(* as the one that failed".  Two empty ids compare as equal, whatever real *)
(* id either call has beside it.                                           *)
TargetsAreConfirmed ==
  \A i \in 1..Len(answers) :
    Failed(i) /\ Known(i) /\ IsWrite(CallOf(i)) /\ HasUsableTarget(CallOf(i).input) =>
      i \in McpErrors \/ Repaired(i)

(* activation-runner.ts:185-187: a failure is tolerated if "the same tool, *)
(* targeting the same entity, retried later in the conversation with a     *)
(* result that succeeded".  Of two calls made before a pause and answered  *)
(* after it, the second does not excuse the first.                         *)
RepeatsAreBelieved ==
  \A i \in McpErrors : \A j \in i + 1..Len(answers) :
    Known(i) /\ Known(j) /\ ~Failed(j) /\ NamesEntity(CallOf(i)) =>
      CallOf(j) # CallOf(i)

(* activation-runner.ts:141-142: "an unrecognized name is treated as a     *)
(* write", so its failure is reported like one.                            *)
UnrecognizedIsAWrite ==
  \A i \in 1..Len(answers) :
    Failed(i) /\ Known(i) /\ CallOf(i).name \notin ReadTools => i \in McpErrors \/ Repaired(i)
=============================================================================
