--------------------------- MODULE MCEpicBranches ---------------------------
(* EpicBranches for TLC: the stories of an epic are interchangeable.       *)
EXTENDS EpicBranches, TLC

CONSTANTS s1, s2, s3, absent

Interchangeable == Permutations(Stories)
=============================================================================
