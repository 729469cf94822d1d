------------------------ MODULE MCCampaignAdmission ------------------------
(* Small tables of payloads, requests and reports for TLC. *)
EXTENDS CampaignAdmission, TLC

Empty == [id |-> Absent, createdAt |-> Absent,
          campaignClass |-> Absent, preset |-> Absent, workers |-> Absent,
          parallelism |-> Absent, seeds |-> Absent, rpcCalls |-> Absent]

(* The id that a body may bring. *)
Chosen == CHOOSE id \in Ids : id \notin Requests

(* A smoke campaign of defaults, a deep one that asks for most, one with   *)
(* an id and a date of its own, a bad one.                                 *)
MCBody == [p \in Payloads |->
  CASE p = "smoke" -> [Empty EXCEPT !.preset = "smoke", !.parallelism = 2]
    [] p = "deep"  -> [Empty EXCEPT !.campaignClass = "deep", !.workers = 2, !.seeds = 2]
    [] p = "named" -> [Empty EXCEPT !.id = Chosen, !.createdAt = 0, !.seeds = 2]
    [] OTHER       -> [Empty EXCEPT !.workers = MaxWorkers + 1]]

MCLimits == [workers |-> 4, seeds |-> 4, storage |-> 1]

MCDefaultSeeds == [c \in Classes |-> 1]

(* The deep window is closed at instant 1. *)
MCOpenAt == [c \in Classes |-> IF c = "deep" THEN (0 .. Horizon) \ {1} ELSE 0 .. Horizon]

MCLeaseTtl == [c \in Classes |-> 1]

Call(key, payload, override, maintainer) ==
  [key |-> key, payload |-> payload, override |-> override, maintainer |-> maintainer]

MCContents ==
  {Call(key, "deep", "none", FALSE) : key \in Keys}
  \cup {Call(key, "smoke", "reason", TRUE) : key \in Keys}
  \cup {Call(NoKey, "deep", "reason", FALSE), Call(NoKey, "bad", "none", FALSE),
        Call(NoKey, "named", "none", FALSE)}

(* A heartbeat, and a final report of more seeds than were reserved, with   *)
(* the storage that the scope holds.                                       *)
MCReports ==
  {[used |-> [seeds |-> 0], storage |-> Absent, finished |-> FALSE],
   [used |-> [seeds |-> 3], storage |-> 1, finished |-> TRUE]}

Symmetry == Permutations(Requests)
=============================================================================
