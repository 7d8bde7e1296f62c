------------------------ MODULE MCActivationRunner ------------------------
(* ActivationRunner for TLC: runs are interchangeable.                     *)
EXTENDS ActivationRunner, TLC

CONSTANTS r1, r2

Interchangeable == Permutations(Runs)
=============================================================================
