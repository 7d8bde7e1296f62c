----------------------------- MODULE MCRouting -----------------------------
(* Routing for TLC: an issue of an allowed team, a project shared with     *)
(* another pipeline's team, and a project of the allowed team alone.       *)
EXTENDS Routing, TLC

CONSTANTS issue, ours, shared, us, them

StatusNames == [issue |-> {"Todo", "Evaluation", "In_Progress"}, project |-> {"Backlog", "Started"}]
LabelNames == [issue |-> {"spec_awaiting_answers", "spec_resolved", "surface_api"},
               project |-> {"ready_for_intake"}]
Types == [x \in Entities |-> IF x = issue THEN "issue" ELSE "project"]
Teams == [x \in Entities |-> IF x = shared THEN {us, them} ELSE {us}]
=============================================================================
