-------------------------------- MODULE Lists --------------------------------
(***************************************************************************)
(* Lists as the code's loops make them: a filter, and each item once.      *)
(***************************************************************************)
EXTENDS Naturals, SequencesExt

(* What a filter that lets the items of a set through has kept of the      *)
(* first n items, and of all.                                              *)
KeptOf(items, set) ==
  LET kept[n \in 0..Len(items)] ==
        IF n = 0 THEN <<>>
        ELSE IF items[n] \in set THEN Append(kept[n - 1], items[n])
        ELSE kept[n - 1]
  IN  kept
Kept(items, set) == KeptOf(items, set)[Len(items)]

(* Every item of a list once, where it first stood: of the first n, and of *)
(* all.                                                                    *)
SeenOf(items) ==
  LET seen[n \in 0..Len(items)] ==
        IF n = 0 THEN <<>>
        ELSE IF items[n] \in Range(seen[n - 1]) THEN seen[n - 1]
        ELSE Append(seen[n - 1], items[n])
  IN  seen
Distinct(items) == SeenOf(items)[Len(items)]

(* A comma-separated value: an empty item is no item.                      *)
Listed(items) == Kept(items, Range(items) \ {""})
=============================================================================
