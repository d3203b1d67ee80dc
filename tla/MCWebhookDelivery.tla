------------------------- MODULE MCWebhookDelivery -------------------------
(* The instance of WebhookDelivery for TLC.                                *)
EXTENDS WebhookDelivery

CONSTANT loop

TheLoop == {loop}
=============================================================================
