---------------------------- MODULE MCWebhookDlq ----------------------------
(* Small instances of the dead-letter queue for TLC. *)
EXTENDS WebhookDlq, TLC

CONSTANTS e1, e2, e3, hostA, hostB

MCHostOf ==
  [d \in Entries |-> ((e1 :> hostA) @@ (e2 :> hostA) @@ (e3 :> hostB))[d]]
============================================================================
