----------------------------- MODULE StoryLabels -----------------------------
(***************************************************************************)
(* What a dispatch takes from a story's labels: its surfaces, tier and     *)
(* size (webhook-listener/src/story-context.ts) and the turn budget made   *)
(* of the last two (dispatch-trigger.ts).  Labels come in the order they   *)
(* were applied; a label is [prefix, value], and its prefix is "" if it    *)
(* has none that the code knows.                                           *)
(***************************************************************************)
EXTENDS Lists

TierMultiplier == [small |-> 1, mid |-> 2, large |-> 4]
SizeMultiplier == [small |-> 1, medium |-> 2, large |-> 4]
BaseMaxTurns == 400

(* The first recognized value, or none.                                    *)
First_Any(labels, prefix, known) ==
  LET found == Kept(labels, {label \in Range(labels) : label.prefix = prefix})
  IN  IF found = <<>> \/ found[1].value \notin known THEN "none" ELSE found[1].value
First(labels, prefix, known) ==
  LET found == Kept(labels, {label \in Range(labels) : label.prefix = prefix /\ label.value \in known})
  IN  IF found = <<>> THEN "none" ELSE found[1].value

ParseTier(labels) == First(labels, "tier", DOMAIN TierMultiplier)
ParseSize(labels) == First(labels, "size", DOMAIN SizeMultiplier)

ResolveMaxTurns(tier, size) ==
  BaseMaxTurns * (IF tier = "none" THEN 1 ELSE TierMultiplier[tier])
               * (IF size = "none" THEN 1 ELSE SizeMultiplier[size])

ParseSurfaces(labels) ==
  LET named == Kept(labels, {label \in Range(labels) : label.prefix = "surface"})
  IN  Distinct([i \in DOMAIN named |-> named[i].value])

-----------------------------------------------------------------------------
(* The labels of a kind, and what the recognized ones imply; 1 without any.*)
Values(labels, prefix) == {label.value : label \in {l \in Range(labels) : l.prefix = prefix}}
Implied(labels, prefix, multiplier) ==
  LET known == Values(labels, prefix) \cap DOMAIN multiplier
  IN  IF known = {} THEN {1} ELSE {multiplier[value] : value \in known}
=============================================================================
