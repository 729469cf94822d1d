--------------------------- MODULE MCCampaignCli ---------------------------
(* A campaign of a few seeds on a ring of three slots. *)
EXTENDS CampaignCli

MCRingSlot == [s \in Seeds |-> (2 * s + 1) % RingSize]
============================================================================
