------------------------ MODULE MCWebhookRetryQueue ------------------------
(* Small instances of the retry queue for TLC. *)
EXTENDS WebhookRetryQueue, TLC

CONSTANTS d1, d2, d3, hostA, hostB

MCTargetOf == (d1 :> hostA) @@ (d2 :> hostA) @@ (d3 :> hostB)
============================================================================
