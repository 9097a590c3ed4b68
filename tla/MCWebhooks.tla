----------------------------- MODULE MCWebhooks -----------------------------
(* Model-checking instance of Webhooks for liveness: one tenant whose two    *)
(* subscriptions both match the event.                                     *)
EXTENDS Webhooks

CONSTANT t

OneTenant == [s \in Subs |-> t]
AllEvents == [s \in Subs |-> Events]
=============================================================================
