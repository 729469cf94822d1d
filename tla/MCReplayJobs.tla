---------------------------- MODULE MCReplayJobs ----------------------------
(* Small fingerprints for TLC. *)
EXTENDS ReplayJobs

MCMaxOpens == [c \in Clients |-> 2]

MCRecorded == [f \in Fields |-> "recorded"]

(* One that does not say, and one that differs. *)
MCEnvironments == {[f \in Fields |-> Unset], [f \in Fields |-> "other"]}
=============================================================================
