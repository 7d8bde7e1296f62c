-------------------------- MODULE MCDispatchStory --------------------------
(* DispatchStory for TLC.  The .cfg files choose the bounds of each run.   *)
EXTENDS DispatchStory
=============================================================================
