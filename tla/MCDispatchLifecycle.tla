------------------------ MODULE MCDispatchLifecycle ------------------------
(* DispatchLifecycle for TLC: stories are interchangeable.                 *)
EXTENDS DispatchLifecycle, TLC

CONSTANTS s1, s2

Interchangeable == Permutations(Stories)
=============================================================================
