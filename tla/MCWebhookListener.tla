------------------------- MODULE MCWebhookListener -------------------------
(* WebhookListener for TLC: a reply and a first touch on one entity.       *)
EXTENDS WebhookListener

CONSTANTS reply, touch, epic

OneEntity == [e \in Events |-> epic]
Passes == [e \in Events |-> IF e = touch THEN "first" ELSE "follow-up"]
=============================================================================
