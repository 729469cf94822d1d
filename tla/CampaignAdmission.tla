------------------------- MODULE CampaignAdmission -------------------------
(***************************************************************************)
(* POST /api/campaigns and POST /api/capacity/usage over the idempotency   *)
(* store (lib/storage/idempotency-store.ts), the capacity ledger           *)
(* (lib/capacity/usage-ledger.ts) and the campaign registry.               *)
(*                                                                         *)
(* A handler is a sequence of steps with an await between them; whatever   *)
(* happens between two awaits is one action.  The records name a campaign  *)
(* by the request that created it; the ledger, the registry and the audit  *)
(* log by its id, which is a random one of the request's own unless the    *)
(* body brings another.                                                    *)
(***************************************************************************)
EXTENDS CapacityQuota, Sequences

CONSTANTS
  Requests,        \* calls of POST /api/campaigns; bound: each is sent once
  Ids,             \* of campaigns; a request is also the id it generates
  Contents,        \* what a call may carry: key, payload, override, role
  Payloads, Body,  \* payloads (told apart by their fingerprint), their fields
  Keys, NoKey,     \* values of the Idempotency-Key header
  LeaseTtl,        \* LEASE_TTL_MS of each class
  KeyTtl,          \* IDEMPOTENCY_TTL_SECONDS
  DayLength,       \* of a UTC day
  LeaseHistory,    \* LEASE_HISTORY_MS
  MaxStored,       \* MAX_STORED_CAMPAIGNS
  Reports,         \* the usage reports runners may send
  Horizon,         \* bound: the last instant of the clock
  MaxRestarts      \* bound: restarts of the server

VARIABLES
  clock,
  kv,          \* the idempotency records are in the KV store
  records,     \* per key: the record of its first campaign
  leases,      \* the ledger: per campaign id, its lease
  storage,     \* the ledger: bytes of artifacts last reported
  registry,    \* campaigns of the timeline registry, oldest entry first
  audit,       \* quota.override events
  handler,     \* per request: the step its handler is at
  wins,        \* records won: key, campaign, instant, and whether it is stored
  unchecked,   \* ids of campaigns that charge more than was checked
  restarts

vars == <<clock, kv, records, leases, storage, registry, audit, handler, wins,
          unchecked, restarts>>

ASSUME AdmissionAssumption ==
  /\ Contents \subseteq [key : Keys \cup {NoKey}, payload : Payloads,
                         override : {"none", "reason", "unusable"}, maintainer : BOOLEAN]
  /\ LeaseTtl \in [Classes -> Nat \ {0}]
  /\ Reports \subseteq [used : [Daily -> Nat], storage : Nat \cup {Absent},
                        finished : BOOLEAN]
  /\ KeyTtl \in Nat \ {0} /\ DayLength \in Nat \ {0} /\ MaxStored \in Nat \ {0}
  /\ LeaseHistory \in Nat /\ LeaseHistory >= DayLength
  /\ Horizon \in Nat /\ MaxRestarts \in Nat
  /\ NoKey \notin Keys /\ Absent \notin Requests
  /\ Requests \subseteq Ids /\ IsFiniteSet(Ids)
  /\ \A p \in Payloads : /\ Body[p].id \in Ids \cup {Absent}
                         /\ Body[p].createdAt \in Nat \cup {Absent}

Steps == {"idle", "decide", "role", "put", "reread", "admit", "done"}

Answers == {"created", "replayed", "reused", "invalid", "closed", "exceeded",
            "forbidden", "lost"}

Handler == [step : Steps, content : Contents \cup {Absent}, now : 0 .. Horizon,
            bypassed : {"none", "window", "quota"}, stale : BOOLEAN,
            answer : Answers \cup {Absent}, campaign : Requests \cup {Absent}]

(* finishedAt is Absent while the campaign runs. *)
Lease == [class : Classes, asks : [Resources -> Nat], used : [Daily -> Nat],
          day : Nat, expiresAt : Nat, finishedAt : 0 .. Horizon \cup {Absent}]

Record == [payload : Payloads, campaign : Requests, expiresAt : Nat]

(* Absent stands for the absence of a record, a lease or an answer. *)
ASSUME AbsentAssumption == Absent \notin Record \cup Lease \cup Answers

Day(at) == at \div DayLength

------------------------------------------------------------------------------
(* The ledger. *)

isActive(lease, at) == lease.finishedAt = Absent /\ lease.expiresAt > at

Larger(m, n) == IF m >= n THEN m ELSE n

(* What a lease counts for, at an instant, in one resource. *)
Charge(lease, resource, at) ==
  IF resource = "workers" THEN IF isActive(lease, at) THEN lease.asks[resource] ELSE 0
  ELSE IF lease.day # Day(at) THEN 0
  ELSE IF isActive(lease, at) THEN Larger(lease.asks[resource], lease.used[resource])
  ELSE lease.used[resource]

Leased(ls) == {c \in Ids : ls[c] # Absent}

(* The sum of a function's values, counted as the units they stand for. *)
Total(charges) == Cardinality(UNION {{c} \X (1 .. charges[c]) : c \in DOMAIN charges})

usage(at) ==
  [r \in Resources \cup {"storage"} |->
     IF r = "storage" THEN storage
     ELSE Total([c \in Leased(leases) |-> Charge(leases[c], r, at)])]

End(lease) == IF lease.finishedAt = Absent THEN lease.expiresAt ELSE lease.finishedAt

Pruned(ls, at) ==
  [c \in Ids |-> IF c \in Leased(ls) /\ End(ls[c]) + LeaseHistory < at
                 THEN Absent ELSE ls[c]]

NewLease(request, at) ==
  [class |-> request.class, asks |-> request.asks,
   used |-> [r \in Daily |-> 0], day |-> Day(at),
   expiresAt |-> at + LeaseTtl[request.class], finishedAt |-> Absent]

(* The usage of some scope went up: the handlers that were admitted against *)
(* the old one hold a stale check.                                          *)
Outdated(hs) ==
  [r \in Requests |-> IF hs[r].step \in {"role", "put", "reread", "admit"}
                      THEN [hs[r] EXCEPT !.stale = TRUE] ELSE hs[r]]

------------------------------------------------------------------------------
(* The idempotency store and the registry. *)

live(key) == records[key] # Absent /\ records[key].expiresAt > clock

idle == [step |-> "idle", content |-> Absent, now |-> 0, bypassed |-> "none",
         stale |-> FALSE, answer |-> Absent, campaign |-> Absent]

Answered(answer, campaign) ==
  [idle EXCEPT !.step = "done", !.answer = answer, !.campaign = campaign]

replayOrReject(h, record) ==
  IF record.payload = h.content.payload
  THEN [Answered("replayed", record.campaign) EXCEPT !.content = h.content]
  ELSE Answered("reused", Absent)

(* Mutant: the cap lets one entry more in. *)
evictLate(entries) == IF Len(entries) <= MaxStored + 1 THEN entries ELSE Tail(entries)

(* The entry created first leaves; of two, the one registered first. *)
evictOldestCampaignIfNeeded(entries) ==
  IF Len(entries) <= MaxStored THEN entries
  ELSE LET oldest == CHOOSE i \in DOMAIN entries :
             /\ \A j \in DOMAIN entries : entries[i].createdAt <= entries[j].createdAt
             /\ \A j \in 1 .. i - 1 : entries[i].createdAt < entries[j].createdAt
       IN SubSeq(entries, 1, oldest - 1) \o SubSeq(entries, oldest + 1, Len(entries))

(* An id that is known keeps its entry, and the time it was created. *)
registerCampaign(entries, id, createdAt) ==
  IF \E i \in DOMAIN entries : entries[i].campaign = id THEN entries
  ELSE evictOldestCampaignIfNeeded(
         Append(entries, [campaign |-> id, createdAt |-> createdAt]))

------------------------------------------------------------------------------
(* POST /api/campaigns. *)

Init == /\ clock = 0 /\ storage = 0 /\ restarts = 0
        /\ kv \in BOOLEAN
        /\ records = [k \in Keys |-> Absent]
        /\ leases = [c \in Ids |-> Absent]
        /\ registry = << >>
        /\ handler = [r \in Requests |-> idle]
        /\ audit = {} /\ wins = {} /\ unchecked = {}

ledgerVars == <<leases, storage, registry, audit, unchecked>>

(* The body is parsed and the store is asked for the key, if there is one. *)
Arrive(r, content) ==
  LET h == [idle EXCEPT !.content = content, !.step = "decide"] IN
  /\ handler[r].step = "idle"
  /\ handler' = [handler EXCEPT ![r] =
                   IF content.key # NoKey /\ live(content.key)
                   THEN replayOrReject(h, records[content.key]) ELSE h]
  /\ UNCHANGED <<clock, kv, records, wins, restarts, ledgerVars>>

Asked(r) == deriveCampaignRequest(Body[handler[r].content.payload])

(* `...payload` comes after the generated id and the time of the decision: *)
(* what the body brings of the two wins.                                   *)
campaignId(r) == Given(Body[handler[r].content.payload].id, r)

createdAt(r, h) == Given(Body[handler[r].content.payload].createdAt, h.now)

(* The code after the last await: lease, registry entry, audit event, 201. *)
(* A lease of the same id is overwritten.                                  *)
Created(r, h) ==
  LET id == campaignId(r) IN
  /\ leases' = [Pruned(leases, clock) EXCEPT ![id] = NewLease(Asked(r), clock)]
  /\ registry' = registerCampaign(registry, id, createdAt(r, h))
  /\ audit' = IF h.bypassed = "none" THEN audit ELSE audit \cup {<<id, h.bypassed>>}
  /\ handler' = [Outdated(handler) EXCEPT ![r] =
                   [Answered("created", r) EXCEPT !.content = handler[r].content]]
  /\ unchecked' = IF h.stale \/ h.bypassed # "none" THEN unchecked \cup {id}
                  ELSE unchecked \ {id}
  /\ UNCHANGED <<clock, kv, records, storage, wins, restarts>>

(* With a key the record is stored first; without one nothing is awaited. *)
StoreOrCreate(r, h) ==
  IF h.content.key = NoKey
  THEN Created(r, h)
  ELSE /\ handler' = [handler EXCEPT ![r] = [h EXCEPT !.step = "put"]]
       /\ UNCHANGED <<clock, kv, records, wins, restarts, ledgerVars>>

Decide(r) ==
  LET h         == handler[r]
      malformed == ~isValid(Body[h.content.payload]) \/ h.content.override = "unusable"
      verdict   == evaluateCampaignAdmission(usage(clock), Asked(r), clock)
      decided   == [h EXCEPT !.now = clock,
                             !.bypassed = IF verdict = "ok" THEN "none" ELSE verdict]
      stop(answer) == /\ handler' = [handler EXCEPT ![r] = answer]
                      /\ UNCHANGED <<clock, kv, records, wins, restarts, ledgerVars>>
  IN /\ h.step = "decide"
     /\ \/ malformed /\ stop(Answered("invalid", Absent))
        \/ ~malformed /\ verdict = "ok" /\ StoreOrCreate(r, decided)
        \/ /\ ~malformed /\ verdict # "ok" /\ h.content.override = "none"
           /\ stop(Answered(IF verdict = "window" THEN "closed" ELSE "exceeded", Absent))
        \/ /\ ~malformed /\ verdict # "ok" /\ h.content.override = "reason"
           /\ stop([decided EXCEPT !.step = "role"])

CheckRole(r) ==
  LET h == handler[r] IN
  /\ h.step = "role"
  /\ \/ h.content.maintainer /\ StoreOrCreate(r, h)
     \/ /\ ~h.content.maintainer
        /\ handler' = [handler EXCEPT ![r] = Answered("forbidden", Absent)]
        /\ UNCHANGED <<clock, kv, records, wins, restarts, ledgerVars>>

(* Mutant: the record is written without looking. *)
putAlways(r) ==
  LET h == handler[r] IN
  /\ h.step = "put"
  /\ handler' = [handler EXCEPT ![r].step = "admit"]
  /\ records' = [records EXCEPT ![h.content.key] =
                   [payload |-> h.content.payload, campaign |-> r,
                    expiresAt |-> clock + KeyTtl]]
  /\ wins' = wins \cup {[key |-> h.content.key, campaign |-> r, at |-> clock,
                         stored |-> TRUE]}
  /\ UNCHANGED <<clock, kv, restarts, ledgerVars>>

(* putIfAbsent: both stores check and store in one step.  The in-memory one *)
(* answers with the record it found, the KV one has to read it again.       *)
putIfAbsent(r) ==
  LET h == handler[r]
      k == h.content.key
  IN /\ h.step = "put"
     /\ IF live(k)
        THEN /\ handler' = [handler EXCEPT ![r] = IF kv THEN [h EXCEPT !.step = "reread"]
                                                  ELSE replayOrReject(h, records[k])]
             /\ UNCHANGED <<records, wins>>
        ELSE /\ handler' = [handler EXCEPT ![r].step = "admit"]
             /\ records' = [records EXCEPT ![k] =
                              [payload |-> h.content.payload, campaign |-> r,
                               expiresAt |-> clock + KeyTtl]]
             /\ wins' = wins \cup {[key |-> k, campaign |-> r, at |-> clock, stored |-> TRUE]}
     /\ UNCHANGED <<clock, kv, restarts, ledgerVars>>

(* A record that expired meanwhile makes the caller a winner that stored    *)
(* nothing.                                                                 *)
Reread(r) ==
  LET h == handler[r]
      k == h.content.key
  IN /\ h.step = "reread"
     /\ IF live(k)
        THEN /\ handler' = [handler EXCEPT ![r] = replayOrReject(h, records[k])]
             /\ UNCHANGED wins
        ELSE /\ handler' = [handler EXCEPT ![r].step = "admit"]
             /\ wins' = wins \cup {[key |-> k, campaign |-> r, at |-> clock, stored |-> FALSE]}
     /\ UNCHANGED <<clock, kv, records, restarts, ledgerVars>>

(* Mutant: the quota is checked again, after the record is out. *)
AdmitRechecked(r) ==
  /\ handler[r].step = "admit"
  /\ \/ checkAdmission(usage(clock), Asked(r)) /\ Created(r, handler[r])
     \/ /\ ~checkAdmission(usage(clock), Asked(r))
        /\ handler' = [handler EXCEPT ![r] = Answered("exceeded", Absent)]
        /\ UNCHANGED <<clock, kv, records, wins, restarts, ledgerVars>>

Admit(r) == handler[r].step = "admit" /\ Created(r, handler[r])

------------------------------------------------------------------------------
(* POST /api/capacity/usage: reports may be repeated, late or out of order. *)

(* Mutant: a late running report reopens a finished lease. *)
ReportedAnew(lease, report, at) ==
  [lease EXCEPT
     !.used = [r \in Daily |-> Larger(lease.used[r], report.used[r])],
     !.finishedAt = IF report.finished THEN at ELSE Absent,
     !.expiresAt = at + LeaseTtl[lease.class]]

Reported(lease, report, at) ==
  [lease EXCEPT
     !.used = [r \in Daily |-> Larger(lease.used[r], report.used[r])],
     !.finishedAt = IF @ = Absent /\ report.finished THEN at ELSE @,
     !.expiresAt = IF lease.finishedAt = Absent /\ ~report.finished
                   THEN at + LeaseTtl[lease.class] ELSE @]

Report(c, report) ==
  LET after == Reported(leases[c], report, clock)
      rises == \E r \in Resources : Charge(after, r, clock) > Charge(leases[c], r, clock)
  IN /\ c \in Leased(leases)
     /\ leases' = [leases EXCEPT ![c] = after]
     /\ storage' = Given(report.storage, storage)
     /\ unchecked' = IF rises THEN unchecked \cup {c} ELSE unchecked
     /\ handler' = IF rises THEN Outdated(handler) ELSE handler
     /\ UNCHANGED <<clock, kv, records, registry, audit, wins, restarts>>

------------------------------------------------------------------------------

Tick == /\ clock < Horizon
        /\ clock' = clock + 1
        /\ UNCHANGED <<kv, records, handler, wins, restarts, ledgerVars>>

(* The process dies: what is in memory is gone, the audit log of a server    *)
(* included; only records in the KV store stay.                             *)
Restart ==
  /\ restarts < MaxRestarts
  /\ restarts' = restarts + 1
  /\ records' = IF kv THEN records ELSE [k \in Keys |-> Absent]
  /\ leases' = [c \in Ids |-> Absent]
  /\ storage' = 0 /\ registry' = << >> /\ audit' = {} /\ unchecked' = {}
  /\ handler' = [r \in Requests |->
                   IF handler[r].step \in {"idle", "done"} THEN handler[r]
                   ELSE Answered("lost", Absent)]
  /\ UNCHANGED <<clock, kv, wins>>

Done == /\ clock = Horizon
        /\ \A r \in Requests : handler[r].step = "done"
        /\ UNCHANGED vars

Handle(r) == \/ Decide(r) \/ CheckRole(r) \/ putIfAbsent(r)
             \/ Reread(r) \/ Admit(r)

Next == \/ \E r \in Requests : (\E content \in Contents : Arrive(r, content)) \/ Handle(r)
        \/ \E c \in Ids, report \in Reports : Report(c, report)
        \/ Tick
        \/ Restart
        \/ Done

Spec == Init /\ [][Next]_vars

------------------------------------------------------------------------------
TypeOK ==
  /\ clock \in 0 .. Horizon
  /\ kv \in BOOLEAN
  /\ records \in [Keys -> Record \cup {Absent}]
  /\ leases \in [Ids -> Lease \cup {Absent}]
  /\ storage \in Nat
  /\ registry \in Seq([campaign : Ids, createdAt : Nat])
  /\ Len(registry) <= MaxStored
  /\ audit \subseteq Ids \X {"window", "quota"}
  /\ handler \in [Requests -> Handler]
  /\ wins \subseteq [key : Keys, campaign : Requests, at : 0 .. Horizon, stored : BOOLEAN]
  /\ unchecked \subseteq Ids
  /\ restarts \in 0 .. MaxRestarts

(* What a handler knows by the step it is at: a request past its decision   *)
(* is well formed, and only one with a key stores a record.                 *)
HandlerInv ==
  \A r \in Requests :
    LET h == handler[r] IN
    /\ h.step \in {"decide", "role", "put", "reread", "admit"} => h.content \in Contents
    /\ h.step \in {"role", "put", "reread", "admit"} => isValid(Body[h.content.payload])
    /\ h.step \in {"put", "reread", "admit"} => h.content.key \in Keys
    /\ h.step # "done" => h.answer = Absent

(* Retries are safe (route.ts, "make retries safe"): the records of a key   *)
(* live one after the other, whoever races, unless a restart lost one from  *)
(* memory; a campaign created without a record of its own comes after the   *)
(* whole life of another's; a replay names a campaign that won the key.     *)
OneCampaignPerKey ==
  /\ \A v, w \in wins :
       /\ v.stored /\ w.stored /\ v.key = w.key /\ v.campaign # w.campaign
       /\ v.at <= w.at
       => w.at - v.at >= KeyTtl \/ (~kv /\ restarts > 0)
  /\ \A w \in wins :
       ~w.stored => \E v \in wins : v.stored /\ v.key = w.key /\ w.at - v.at >= KeyTtl
  /\ \A r \in Requests :
       handler[r].answer = "replayed" =>
         \E w \in wins : w.key = handler[r].content.key /\ w.campaign = handler[r].campaign

(* Why that holds: a record was won and lives exactly KeyTtl from then; a   *)
(* stored win is over, or the key's record lives at least as long, unless   *)
(* it was lost from memory; and a handler that found a record in the KV     *)
(* store finds the key again.                                               *)
RecordInv ==
  /\ \A w \in wins : w.at <= clock
  /\ \A k \in Keys : records[k] # Absent =>
       \E w \in wins : /\ w.stored /\ w.key = k
                       /\ w.campaign = records[k].campaign
                       /\ records[k].expiresAt = w.at + KeyTtl
  /\ \A v \in wins : v.stored =>
       \/ v.at + KeyTtl <= clock
       \/ records[v.key] # Absent /\ v.at + KeyTtl <= records[v.key].expiresAt
       \/ ~kv /\ restarts > 0
  /\ \A r \in Requests :
       handler[r].step = "reread" => kv /\ records[handler[r].content.key] # Absent

(* The charge of the campaigns of at most this class's share, not counting  *)
(* what no check saw: a campaign let in by an override or on a check that   *)
(* another admission or a report had overtaken, and one whose charge a      *)
(* report raised, a lapsed lease that it renewed included.                  *)
CheckedCharge(resource, class) ==
  LET counted == {c \in Leased(leases) \ unchecked :
                    effectiveLimit(Limits[resource], leases[c].class)
                      <= effectiveLimit(Limits[resource], class)}
  IN Total([c \in counted |-> Charge(leases[c], resource, clock)])

(* A check that nothing overtook is worth something: the campaigns that     *)
(* were let in on one and charge what was checked take together no more     *)
(* than the share of their class, however long the store took to answer     *)
(* between the check and the charge, whatever else is in the ledger, and    *)
(* as days end, leases lapse and the history is pruned (quotas.ts,          *)
(* usage-ledger.ts).  Two requests that are checked before either of them   *)
(* is charged do exceed a share (route.ts 105-158): by no more, this says,  *)
(* than what the overtaken ones and the other uncounted ones charge.        *)
QuotaKept ==
  \A r \in Resources, class \in Classes :
    Limits[r] # Unlimited => CheckedCharge(r, class) <= effectiveLimit(Limits[r], class)

(* Why that holds: no lease is of a day to come, a handler that asks for    *)
(* the maintainer's role failed its check, and a check that nothing made    *)
(* stale still passes when its campaign is charged, however long the        *)
(* idempotency store took.                                                  *)
CheckInv ==
  /\ \A c \in Leased(leases) : leases[c].day <= Day(clock)
  /\ \A r \in Requests :
       LET h == handler[r] IN
       /\ h.step = "role" => h.bypassed # "none"
       /\ h.step \in {"put", "reread", "admit"} /\ h.bypassed = "none" /\ ~h.stale
            => \A x \in Resources : ~Exceeds(x, usage(clock), Asked(r))

(* A campaign is admitted in this step, under this id. *)
AdmittedAs(id) ==
  \E r \in Requests : /\ handler[r].answer # "created" /\ handler'[r].answer = "created"
                      /\ campaignId(r) = id

(* A campaign whose final report was taken holds no workers again and its   *)
(* counters do not go back, whatever report comes late or twice             *)
(* (usage-ledger.ts, "Cumulative counters never move backwards").  Only an  *)
(* admission under the same id puts a new lease in its place (line 132).    *)
FinishedForGood ==
  [][\A c \in Ids :
       leases[c] # Absent /\ leases'[c] # Absent /\ ~AdmittedAs(c) =>
         /\ leases[c].finishedAt # Absent => leases'[c].finishedAt = leases[c].finishedAt
         /\ \A r \in Daily : leases'[c].used[r] >= leases[c].used[r]]_vars

(* A campaign that a client was given as the replay of its request has its  *)
(* lease or is one step from it, though the replay may come first: nothing  *)
(* can refuse it between its record and its admission.  Only a restart that *)
(* the records outlive leaves a replayed campaign that never started.       *)
ReplayedIsAdmitted ==
  \A r \in Requests :
    LET c == handler[r].campaign IN
    handler[r].answer = "replayed" =>
      handler[c].answer = "created" \/ handler[c].step = "admit" \/ restarts > 0

(* Why it does: whoever won a key is admitted or about to be. *)
WinnerInv ==
  \A w \in wins :
    \/ handler[w.campaign].answer = "created"
    \/ handler[w.campaign].step = "admit"
    \/ restarts > 0
=============================================================================
