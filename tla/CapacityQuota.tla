--------------------------- MODULE CapacityQuota ---------------------------
(***************************************************************************)
(* What a campaign asks for and whether a quota admits it:                 *)
(* lib/capacity/quotas.ts and lib/capacity/campaign-admission.ts.          *)
(***************************************************************************)
EXTENDS Integers, FiniteSets

CONSTANTS
  Daily,           \* what is counted per UTC day: seeds and RPC calls
  Limits,          \* the configured limit of each resource, or Unlimited
  DefaultSeeds,    \* DEFAULT_SEEDS_BY_CLASS
  OpenAt,          \* the times at which a class's window is open
  MaxWorkers,      \* MAX_WORKERS: more is refused as malformed
  MaxCount,        \* MAX_COUNT, the same for seeds and RPC calls
  Unlimited, Absent

Classes == {"interactive", "nightly", "deep"}

Resources == {"workers"} \cup Daily

Headroom == [interactive |-> 0, nightly |-> 1000, deep |-> 2500]

ASSUME QuotaAssumption ==
  /\ Daily \subseteq {"seeds", "rpcCalls"}
  /\ Limits \in [Resources \cup {"storage"} -> Nat \cup {Unlimited}]
  /\ DefaultSeeds \in [Classes -> Nat]
  /\ MaxWorkers \in Nat /\ MaxCount \in Nat
  /\ Unlimited \notin Nat /\ Absent \notin Nat

------------------------------------------------------------------------------
(* A body of POST /api/campaigns: fields may be missing. *)

Given(value, default) == IF value = Absent THEN default ELSE value

campaignClassForPreset(preset) ==
  CASE preset = "smoke"              -> "interactive"
    [] preset \in {"nightly", "deep"} -> preset
    [] OTHER                         -> "interactive"

Class(body) == Given(body.campaignClass, campaignClassForPreset(body.preset))

AtLeastOne(n) == IF n < 1 THEN 1 ELSE n

(* A field that is missing or a count within its bound. *)
readCount(value, max) == Given(value, 0) \in 0 .. max

isValid(body) == /\ Class(body) \in Classes
                 /\ readCount(body.workers, MaxWorkers)
                 /\ readCount(body.parallelism, MaxWorkers)
                 /\ readCount(body.seeds, MaxCount)
                 /\ readCount(body.rpcCalls, MaxCount)

deriveCampaignRequest(body) ==
  [class |-> Class(body),
   asks  |-> [r \in Resources |->
                CASE r = "workers" -> AtLeastOne(Given(body.workers, Given(body.parallelism, 1)))
                  [] r = "seeds"   -> Given(body.seeds, DefaultSeeds[Class(body)])
                  [] OTHER         -> Given(body.rpcCalls, 0)]]

------------------------------------------------------------------------------

effectiveLimit(limit, class) == limit - (limit * Headroom[class]) \div 10000

(* Mutant: the comparison is off by one. *)
ExceedsLate(resource, used, request) ==
  /\ Limits[resource] # Unlimited
  /\ used[resource] + request.asks[resource]
       > effectiveLimit(Limits[resource], request.class) + 1

Exceeds(resource, used, request) ==
  /\ Limits[resource] # Unlimited
  /\ used[resource] + request.asks[resource]
       > effectiveLimit(Limits[resource], request.class)

StorageFull(used, request) ==
  /\ Limits["storage"] # Unlimited
  /\ used["storage"] >= effectiveLimit(Limits["storage"], request.class)

checkAdmission(used, request) ==
  /\ \A r \in Resources : ~Exceeds(r, used, request)
  /\ ~StorageFull(used, request)

(* A closed window is reported before an exceeded quota. *)
evaluateCampaignAdmission(used, request, now) ==
  IF now \notin OpenAt[request.class] THEN "window"
  ELSE IF ~checkAdmission(used, request) THEN "quota"
  ELSE "ok"
=============================================================================
