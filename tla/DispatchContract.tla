-------------------------- MODULE DispatchContract --------------------------
(***************************************************************************)
(* What one dispatch promises, with every activity, retry and human left   *)
(* out.  A dispatch works, then watches a pull request; from the watch it  *)
(* goes back to work at most RoundCap times, each time for a newer review, *)
(* and the watch itself never fails.  Once it has decided how to end, the  *)
(* only thing that can still change is that the ending fails; a dispatch   *)
(* that has been reported as failed is never reported as anything better.  *)
(***************************************************************************)
EXTENDS Naturals

CONSTANT RoundCap

VARIABLES
  phase,    \* "working", "watching", "closing" or "ended"
  round,    \* revision rounds started
  mark,     \* the newest review acted on
  result    \* how the dispatch ends, "none" until it is decided

vars == <<phase, round, mark, result>>

Init == phase = "working" /\ round = 0 /\ mark = 0 /\ result = "none"

Watch ==
  /\ phase = "working" /\ phase' = "watching"
  /\ UNCHANGED <<round, mark, result>>

Revise ==
  /\ phase = "watching" /\ phase' = "working"
  /\ round < RoundCap /\ round' = round + 1
  /\ mark' \in Nat /\ mark' > mark
  /\ UNCHANGED result

Decide ==
  /\ \/ phase = "working" /\ result' \in {"not-ready", "no-pr", "merged", "failed"}
     \/ phase = "watching" /\ result' \in {"merged", "closed"}
  /\ phase' = "closing"
  /\ UNCHANGED <<round, mark>>

EndingFails ==
  /\ phase = "closing" /\ result \notin {"failed", "aborted"} /\ result' = "failed"
  /\ UNCHANGED <<phase, round, mark>>

End ==
  /\ phase = "closing" /\ phase' = "ended"
  /\ \/ UNCHANGED result
     \/ result = "failed" /\ result' = "aborted"
  /\ UNCHANGED <<round, mark>>

(* A later dispatch of the same story starts from nothing.                 *)
Again ==
  /\ phase = "ended"
  /\ phase' = "working" /\ round' = 0 /\ mark' = 0 /\ result' = "none"

Next == Watch \/ Revise \/ Decide \/ EndingFails \/ End \/ Again

Spec == Init /\ [][Next]_vars

=============================================================================
