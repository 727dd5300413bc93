------------------------- MODULE MCWebhookDeliveries -------------------------
(***************************************************************************)
(* Two events; s1 listens to both, s2 to the first.  An operator deletes   *)
(* s1, whose deliveries are in the way of those of s2; s2 stays.           *)
(***************************************************************************)
EXTENDS WebhookDeliveries

MCListensTo == [s \in Subs |-> IF s = "s1" THEN Emissions ELSE {1}]

MCNext == Next /\ "s2" \in subs'

MCSpec == Init /\ [][MCNext]_vars /\ Fairness
==============================================================================
