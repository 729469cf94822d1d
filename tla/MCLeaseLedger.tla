--------------------------- MODULE MCLeaseLedger ---------------------------
(* A ring of three slots for TLC. *)
EXTENDS LeaseLedger

MCRingSlot == [seed \in Seeds |-> (2 * seed + 1) % RingSize]
============================================================================
