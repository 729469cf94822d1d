---------------------- MODULE CampaignAdmission_proofs ----------------------
(***************************************************************************)
(* Proofs about campaign admission, for every set of requests, keys and    *)
(* payloads, every quota, time to live and horizon: types, retries that    *)
(* are safe, replays of campaigns that are admitted, leases that stay      *)
(* finished, and quotas that hold.                                         *)
(***************************************************************************)
EXTENDS CampaignAdmission, FiniteSetTheorems, SequenceTheorems, WellFoundedInduction, TLAPS

(* A set of numbers that is not empty has a least element. *)
LEMMA LeastElement ==
  ASSUME NEW T, T \subseteq Nat, T # {}
  PROVE  \E x \in T : \A y \in T : x <= y
<1>1. PICK x \in T : \A y \in T : ~(<<y, x>> \in OpToRel(<, Nat))
  BY NatLessThanWellFounded, WFMin
<1>2. ASSUME NEW y \in T PROVE x <= y
  <2>1. x \in Nat /\ y \in Nat
    OBVIOUS
  <2>2. ~(y < x)
    BY <1>1, <2>1 DEF OpToRel
  <2>3. QED
    BY <2>1, <2>2
<1>3. QED
  BY <1>2

RegistryEntries == [campaign : Ids, createdAt : Nat]

(* The registry has an entry that was created, then registered, first. *)
LEMMA OldestExists ==
  ASSUME NEW entries \in Seq(RegistryEntries), entries # << >>
  PROVE  \E i \in DOMAIN entries :
           /\ \A j \in DOMAIN entries : entries[i].createdAt <= entries[j].createdAt
           /\ \A j \in 1 .. i - 1 : entries[i].createdAt < entries[j].createdAt
<1> DEFINE times == {entries[i].createdAt : i \in DOMAIN entries}
<1>a. DOMAIN entries = 1 .. Len(entries) /\ Len(entries) \in Nat \ {0}
  <2>1. DOMAIN entries = 1 .. Len(entries)
    OBVIOUS
  <2>2. Len(entries) \in Nat \ {0}
    BY EmptySeq
  <2>3. QED
    BY <2>1, <2>2
<1>b. \A i \in DOMAIN entries : entries[i].createdAt \in Nat
  <2>1. \A i \in DOMAIN entries : entries[i] \in RegistryEntries
    OBVIOUS
  <2>2. \A e \in RegistryEntries : e.createdAt \in Nat
    BY DEF RegistryEntries
  <2>3. QED
    BY <2>1, <2>2
<1>0. /\ DOMAIN entries = 1 .. Len(entries) /\ Len(entries) \in Nat \ {0}
      /\ \A i \in DOMAIN entries : entries[i].createdAt \in Nat
  BY <1>a, <1>b
<1>1. times \subseteq Nat /\ times # {}
  <2>1. 1 \in DOMAIN entries
    BY <1>0
  <2>2. QED
    BY <1>0, <2>1
<1>2. PICK first \in times : \A t \in times : first <= t
  BY <1>1, LeastElement
<1> DEFINE places == {i \in DOMAIN entries : entries[i].createdAt = first}
<1>3. places \subseteq Nat /\ places # {}
  BY <1>0, <1>2
<1>4. PICK i \in places : \A j \in places : i <= j
  BY <1>3, LeastElement
<1>5. \A j \in DOMAIN entries : entries[i].createdAt <= entries[j].createdAt
  BY <1>2, <1>4
<1>6. ASSUME NEW j \in 1 .. i - 1
      PROVE  entries[i].createdAt < entries[j].createdAt
  <2>1. i \in DOMAIN entries /\ j \in DOMAIN entries /\ ~(i <= j)
    BY <1>0, <1>4
  <2>2. j \notin places
    BY <1>4, <2>1
  <2>3. entries[j].createdAt # first /\ entries[i].createdAt = first
    BY <1>4, <2>1, <2>2
  <2>4. QED
    BY <1>0, <1>5, <2>1, <2>3
<1>7. QED
  BY <1>4, <1>5, <1>6

(* Adding a campaign keeps the registry within its cap. *)
LEMMA RegistryCapped ==
  ASSUME NEW entries \in Seq(RegistryEntries), Len(entries) <= MaxStored,
         NEW entry \in RegistryEntries
  PROVE  /\ evictOldestCampaignIfNeeded(Append(entries, entry)) \in Seq(RegistryEntries)
         /\ Len(evictOldestCampaignIfNeeded(Append(entries, entry))) <= MaxStored
<1> DEFINE longer == Append(entries, entry)
<1> USE AdmissionAssumption
<1>1. /\ longer \in Seq(RegistryEntries)
      /\ Len(longer) = Len(entries) + 1
      /\ Len(entries) \in Nat
  OBVIOUS
<1>2. CASE Len(longer) <= MaxStored
  BY <1>1, <1>2 DEF evictOldestCampaignIfNeeded
<1>3. CASE ~(Len(longer) <= MaxStored)
  <2> DEFINE isOldest(i) ==
               /\ \A j \in DOMAIN longer : longer[i].createdAt <= longer[j].createdAt
               /\ \A j \in 1 .. i - 1 : longer[i].createdAt < longer[j].createdAt
             oldest == CHOOSE i \in DOMAIN longer : isOldest(i)
             before == SubSeq(longer, 1, oldest - 1)
             after  == SubSeq(longer, oldest + 1, Len(longer))
  <2>1. longer # << >>
    BY <1>1
  <2>2. \E i \in DOMAIN longer : isOldest(i)
    BY <1>1, <2>1, OldestExists
  <2>3. oldest \in DOMAIN longer
    <3> HIDE DEF isOldest
    <3>1. QED
      BY <2>2
  <2>4. evictOldestCampaignIfNeeded(longer) = before \o after
    BY <1>3 DEF evictOldestCampaignIfNeeded
  <2> HIDE DEF oldest, longer
  <2>5. oldest \in 1 .. Len(longer) /\ \A i \in 1 .. Len(longer) : longer[i] \in RegistryEntries
    BY <1>1, <2>3
  <2>6. before \in Seq(RegistryEntries) /\ Len(before) = oldest - 1
    BY <1>1, <2>5, SubSeqProperties
  <2>7. after \in Seq(RegistryEntries) /\ Len(after) = Len(longer) - oldest
    BY <1>1, <2>5, SubSeqProperties
  <2> HIDE DEF before, after
  <2>8. before \o after \in Seq(RegistryEntries) /\ Len(before \o after) = Len(longer) - 1
    BY <1>1, <2>5, <2>6, <2>7, ConcatProperties
  <2>9. Len(before \o after) <= MaxStored
    BY <1>1, <2>8
  <2>10. QED
    BY <2>4, <2>8, <2>9 DEF longer
<1>4. QED
  BY <1>2, <1>3

(* So does registering one, whether its id is known or not. *)
LEMMA RegisterCapped ==
  ASSUME NEW entries \in Seq(RegistryEntries), Len(entries) <= MaxStored,
         NEW id \in Ids, NEW at \in Nat
  PROVE  /\ registerCampaign(entries, id, at) \in Seq(RegistryEntries)
         /\ Len(registerCampaign(entries, id, at)) <= MaxStored
<1>1. [campaign |-> id, createdAt |-> at] \in RegistryEntries
  BY DEF RegistryEntries
<1>2. QED
  BY <1>1, RegistryCapped DEF registerCampaign

(* A campaign has an id and a time of creation, its own or the body's. *)
LEMMA CampaignFields ==
  ASSUME NEW r \in Requests, handler[r].content \in Contents, NEW h \in Handler
  PROVE  campaignId(r) \in Ids /\ createdAt(r, h) \in Nat
<1>1. handler[r].content.payload \in Payloads
  BY AdmissionAssumption
<1>2. h.now \in Nat
  BY AdmissionAssumption DEF Handler
<1>3. QED
  BY <1>1, <1>2, AdmissionAssumption DEF campaignId, createdAt, Given
----------------------------------------------------------------------------
(* The data of a lease. *)

LEMMA DayInNat ==
  ASSUME NEW at \in Nat
  PROVE  Day(at) \in Nat
  BY AdmissionAssumption DEF Day

(* A well-formed body asks for counts. *)
LEMMA AskedIsCounted ==
  ASSUME NEW body, isValid(body)
  PROVE  /\ deriveCampaignRequest(body).class \in Classes
         /\ deriveCampaignRequest(body).asks \in [Resources -> Nat]
<1>1. /\ body.workers = Absent \/ body.workers \in Nat
      /\ body.parallelism = Absent \/ body.parallelism \in Nat
      /\ body.seeds = Absent \/ body.seeds \in Nat
      /\ body.rpcCalls = Absent \/ body.rpcCalls \in Nat
      /\ Class(body) \in Classes
  BY QuotaAssumption DEF isValid, readCount, Given
<1>2. DefaultSeeds[Class(body)] \in Nat
  BY <1>1, QuotaAssumption
<1>3. AtLeastOne(Given(body.workers, Given(body.parallelism, 1))) \in Nat
  BY <1>1 DEF AtLeastOne, Given
<1>4. /\ Given(body.seeds, DefaultSeeds[Class(body)]) \in Nat
      /\ Given(body.rpcCalls, 0) \in Nat
  BY <1>1, <1>2 DEF Given
<1>5. QED
  BY <1>1, <1>3, <1>4 DEF deriveCampaignRequest

LEMMA NewLeaseIsLease ==
  ASSUME NEW request, request.class \in Classes, request.asks \in [Resources -> Nat],
         NEW at \in Nat
  PROVE  NewLease(request, at) \in Lease
<1>1. at + LeaseTtl[request.class] \in Nat
  BY AdmissionAssumption
<1>2. [r \in Daily |-> 0] \in [Daily -> Nat]
  OBVIOUS
<1>3. QED
  BY <1>1, <1>2, DayInNat DEF NewLease, Lease

(* A report keeps a lease a lease, finished if it was, and its counters    *)
(* where they were or higher.                                              *)
LEMMA ReportedIsLease ==
  ASSUME NEW lease \in Lease, NEW report \in Reports, NEW at \in 0 .. Horizon
  PROVE  /\ Reported(lease, report, at) \in Lease
         /\ lease.finishedAt # Absent
              => Reported(lease, report, at).finishedAt = lease.finishedAt
         /\ \A r \in Daily : Reported(lease, report, at).used[r] >= lease.used[r]
<1> USE AdmissionAssumption
<1>1. report.used \in [Daily -> Nat] /\ report.finished \in BOOLEAN
  OBVIOUS
<1>2. /\ lease.used \in [Daily -> Nat]
      /\ lease.class \in Classes
      /\ lease.finishedAt \in 0 .. Horizon \cup {Absent}
      /\ lease.expiresAt \in Nat
  BY DEF Lease
<1> DEFINE used == [r \in Daily |-> Larger(lease.used[r], report.used[r])]
           finishedAt == IF lease.finishedAt = Absent /\ report.finished THEN at
                         ELSE lease.finishedAt
           expiresAt == IF lease.finishedAt = Absent /\ ~report.finished
                        THEN at + LeaseTtl[lease.class] ELSE lease.expiresAt
<1>3. used \in [Daily -> Nat] /\ \A r \in Daily : used[r] >= lease.used[r]
  BY <1>1, <1>2 DEF Larger
<1>4. finishedAt \in 0 .. Horizon \cup {Absent} /\ expiresAt \in Nat
  BY <1>1, <1>2
<1>5. Reported(lease, report, at)
        = [lease EXCEPT !.used = used, !.finishedAt = finishedAt, !.expiresAt = expiresAt]
  BY DEF Reported
<1> HIDE DEF used, finishedAt, expiresAt
<1>6. /\ Reported(lease, report, at) \in Lease
      /\ Reported(lease, report, at).used = used
      /\ Reported(lease, report, at).finishedAt = finishedAt
  BY <1>3, <1>4, <1>5 DEF Lease
<1>7. QED
  BY <1>3, <1>6 DEF finishedAt
----------------------------------------------------------------------------
(* The steps, by what they do to the handlers. *)

Halted(h) == \E answer \in Answers \ {"created", "replayed"} : h = Answered(answer, Absent)

Replayed(h) ==
  \E content \in Contents :
    /\ content.key \in Keys /\ live(content.key)
    /\ h = [Answered("replayed", records[content.key].campaign) EXCEPT !.content = content]

InProgress(h) ==
  /\ h \in Handler
  /\ h.step \in {"decide", "role", "put", "reread"}
  /\ h.answer = Absent
  /\ h.content \in Contents
  /\ h.step # "decide" => isValid(Body[h.content.payload])
  /\ h.step \in {"put", "reread"} => h.content.key \in Keys
  /\ h.step = "reread" => kv /\ live(h.content.key)

(* A step that changes one handler and nothing else. *)
Move(r) ==
  /\ handler[r].step \notin {"admit", "done"}
  /\ \E h : /\ Halted(h) \/ Replayed(h) \/ InProgress(h)
            /\ handler' = [handler EXCEPT ![r] = h]
  /\ UNCHANGED <<clock, kv, records, wins, restarts, ledgerVars>>

(* The record of a key is won, and stored. *)
Win(r) ==
  /\ handler[r].step = "put"
  /\ ~live(handler[r].content.key)
  /\ handler' = [handler EXCEPT ![r].step = "admit"]
  /\ records' = [records EXCEPT ![handler[r].content.key] =
                   [payload |-> handler[r].content.payload, campaign |-> r,
                    expiresAt |-> clock + KeyTtl]]
  /\ wins' = wins \cup {[key |-> handler[r].content.key, campaign |-> r, at |-> clock,
                         stored |-> TRUE]}
  /\ UNCHANGED <<clock, kv, restarts, ledgerVars>>

(* It is won and not stored. *)
WinUnstored(r) ==
  /\ handler[r].step = "reread"
  /\ ~live(handler[r].content.key)
  /\ handler' = [handler EXCEPT ![r].step = "admit"]
  /\ wins' = wins \cup {[key |-> handler[r].content.key, campaign |-> r, at |-> clock,
                         stored |-> FALSE]}
  /\ UNCHANGED <<clock, kv, records, restarts, ledgerVars>>

(* A campaign is created, with or without a key. *)
Creation(r) ==
  /\ handler[r].step \in {"decide", "role", "admit"}
  /\ handler[r].content \in Contents
  /\ isValid(Body[handler[r].content.payload])
  /\ \E h \in Handler : Created(r, h)

(* A handler with one field changed is a handler. *)
LEMMA HandlerWrites ==
  ASSUME NEW h \in Handler, NEW step \in Steps
  PROVE  /\ [h EXCEPT !.step = step] \in Handler
         /\ [h EXCEPT !.step = step].step = step
         /\ [h EXCEPT !.step = step].content = h.content
         /\ [h EXCEPT !.step = step].answer = h.answer
         /\ [h EXCEPT !.step = step].campaign = h.campaign
         /\ [h EXCEPT !.stale = TRUE] \in Handler
         /\ [h EXCEPT !.stale = TRUE].step = h.step
         /\ [h EXCEPT !.stale = TRUE].content = h.content
         /\ [h EXCEPT !.stale = TRUE].answer = h.answer
         /\ [h EXCEPT !.stale = TRUE].campaign = h.campaign
  BY DEF Handler

(* The answers a handler may end with. *)
LEMMA AnsweredFields ==
  ASSUME NEW answer \in Answers, NEW campaign \in Requests \cup {Absent}
  PROVE  /\ Answered(answer, campaign) \in Handler
         /\ Answered(answer, campaign).step = "done"
         /\ Answered(answer, campaign).answer = answer
         /\ Answered(answer, campaign).campaign = campaign
         /\ \A content \in Contents :
              LET h == [Answered(answer, campaign) EXCEPT !.content = content] IN
              /\ h \in Handler
              /\ h.step = "done" /\ h.answer = answer /\ h.campaign = campaign
              /\ h.content = content
<1>1. 0 \in 0 .. Horizon
  BY AdmissionAssumption
<1>2. QED
  BY <1>1 DEF Answered, idle, Handler, Steps, Answers

(* What a handler whose key has a live record comes to. *)
LEMMA ReplayOrReject ==
  ASSUME TypeOK, NEW h \in Handler, h.content \in Contents, h.content.key \in Keys,
         live(h.content.key)
  PROVE  LET h2 == replayOrReject(h, records[h.content.key]) IN Halted(h2) \/ Replayed(h2)
<1>1. CASE records[h.content.key].payload = h.content.payload
  BY <1>1 DEF replayOrReject, Replayed
<1>2. CASE records[h.content.key].payload # h.content.payload
  BY <1>2 DEF replayOrReject, Halted, Answers
<1>3. QED
  BY <1>1, <1>2

LEMMA ContentFields ==
  ASSUME NEW content \in Contents
  PROVE  /\ content.key \in Keys \cup {NoKey}
         /\ content.payload \in Payloads
         /\ content.override \in {"none", "reason", "unusable"}
  BY AdmissionAssumption

(* With a key a decided handler goes on to store it; without one the       *)
(* campaign is created at once.                                            *)
LEMMA StoreOrCreateCases ==
  ASSUME TypeOK, HandlerInv, NEW r \in Requests, NEW h \in Handler, StoreOrCreate(r, h),
         handler[r].step \in {"decide", "role"},
         h.answer = Absent, h.content = handler[r].content, h.content \in Contents,
         isValid(Body[h.content.payload])
  PROVE  Move(r) \/ Creation(r)
<1>1. CASE h.content.key = NoKey
  BY <1>1 DEF StoreOrCreate, Creation
<1>2. CASE h.content.key # NoKey
  <2>1. InProgress([h EXCEPT !.step = "put"])
    BY <1>2, HandlerWrites, ContentFields DEF InProgress, Steps
  <2>2. QED
    BY <1>2, <2>1 DEF StoreOrCreate, Move
<1>3. QED
  BY <1>1, <1>2

LEMMA DecideCases ==
  ASSUME TypeOK, HandlerInv, NEW r \in Requests, Decide(r)
  PROVE  Move(r) \/ Creation(r)
<1> DEFINE h == handler[r]
           malformed == ~isValid(Body[h.content.payload]) \/ h.content.override = "unusable"
           verdict == evaluateCampaignAdmission(usage(clock), Asked(r), clock)
           decided == [h EXCEPT !.now = clock,
                                !.bypassed = IF verdict = "ok" THEN "none" ELSE verdict]
<1>1. /\ h \in Handler /\ h.step = "decide" /\ h.content \in Contents /\ h.answer = Absent
      /\ clock \in 0 .. Horizon
  BY DEF Decide, TypeOK, HandlerInv
<1>2. verdict \in {"ok", "window", "quota"}
  BY DEF evaluateCampaignAdmission
<1>3. /\ decided \in Handler
      /\ decided.step = "decide" /\ decided.content = h.content /\ decided.answer = Absent
  <2> HIDE DEF verdict
  <2>1. QED
    BY <1>1, <1>2 DEF Handler
<1>4. \/ malformed /\ handler' = [handler EXCEPT ![r] = Answered("invalid", Absent)]
         /\ UNCHANGED <<clock, kv, records, wins, restarts, ledgerVars>>
      \/ ~malformed /\ StoreOrCreate(r, decided)
      \/ ~malformed
         /\ handler' = [handler EXCEPT ![r] =
              Answered(IF verdict = "window" THEN "closed" ELSE "exceeded", Absent)]
         /\ UNCHANGED <<clock, kv, records, wins, restarts, ledgerVars>>
      \/ ~malformed /\ handler' = [handler EXCEPT ![r] = [decided EXCEPT !.step = "role"]]
         /\ UNCHANGED <<clock, kv, records, wins, restarts, ledgerVars>>
  BY DEF Decide
<1> HIDE DEF verdict, decided
<1>5. ASSUME NEW answer \in {"invalid", "closed", "exceeded"},
             handler' = [handler EXCEPT ![r] = Answered(answer, Absent)],
             UNCHANGED <<clock, kv, records, wins, restarts, ledgerVars>>
      PROVE  Move(r)
  <2>1. Halted(Answered(answer, Absent))
    BY DEF Halted, Answers
  <2>2. QED
    BY <1>1, <1>5, <2>1 DEF Move
<1>6. ASSUME ~malformed, StoreOrCreate(r, decided)
      PROVE  Move(r) \/ Creation(r)
  BY <1>1, <1>3, <1>6, StoreOrCreateCases
<1>7. ASSUME ~malformed, handler' = [handler EXCEPT ![r] = [decided EXCEPT !.step = "role"]],
             UNCHANGED <<clock, kv, records, wins, restarts, ledgerVars>>
      PROVE  Move(r)
  <2> DEFINE asking == [decided EXCEPT !.step = "role"]
  <2>1. /\ asking \in Handler /\ asking.step = "role"
        /\ asking.content = h.content /\ asking.answer = Absent
    <3>1. "role" \in Steps
      BY DEF Steps
    <3>2. QED
      BY <1>3, <3>1, HandlerWrites
  <2>2. isValid(Body[h.content.payload])
    BY <1>7
  <2> HIDE DEF asking, h
  <2>3. InProgress(asking)
    BY <1>1, <2>1, <2>2 DEF InProgress
  <2>4. QED
    BY <1>1, <1>7, <2>3 DEF Move, asking, h
<1>8. QED
  BY <1>4, <1>5, <1>6, <1>7

LEMMA HandleCases ==
  ASSUME TypeOK, HandlerInv, NEW r \in Requests, Handle(r)
  PROVE  Move(r) \/ Win(r) \/ WinUnstored(r) \/ Creation(r)
<1> DEFINE h == handler[r]
<1>1. h \in Handler
  BY DEF TypeOK
<1>2. CASE Decide(r)
  BY <1>2, DecideCases
<1>3. CASE CheckRole(r)
  <2>1. /\ h.step = "role" /\ h.content \in Contents /\ h.answer = Absent
        /\ isValid(Body[h.content.payload])
    BY <1>3 DEF CheckRole, HandlerInv
  <2>2. CASE StoreOrCreate(r, h)
    BY <1>1, <2>1, <2>2, StoreOrCreateCases
  <2>3. CASE ~StoreOrCreate(r, h)
    <3>1. Halted(Answered("forbidden", Absent))
      BY DEF Halted, Answers
    <3>2. QED
      BY <1>3, <2>1, <2>3, <3>1 DEF CheckRole, Move
  <2>4. QED
    BY <2>2, <2>3
<1>4. CASE putIfAbsent(r)
  <2>1. /\ h.step = "put" /\ h.content \in Contents /\ h.answer = Absent
        /\ isValid(Body[h.content.payload]) /\ h.content.key \in Keys
    BY <1>4 DEF putIfAbsent, HandlerInv
  <2>2. CASE live(h.content.key)
    <3>1. CASE kv
      <4>1. InProgress([h EXCEPT !.step = "reread"])
        BY <1>1, <2>1, <2>2, <3>1, HandlerWrites DEF InProgress, Steps
      <4>2. QED
        BY <1>4, <2>1, <2>2, <3>1, <4>1 DEF putIfAbsent, Move
    <3>2. CASE ~kv
      <4>1. /\ Halted(replayOrReject(h, records[h.content.key]))
               \/ Replayed(replayOrReject(h, records[h.content.key]))
        BY <1>1, <2>1, <2>2, ReplayOrReject
      <4>2. QED
        BY <1>4, <2>1, <2>2, <3>2, <4>1 DEF putIfAbsent, Move
    <3>3. QED
      BY <3>1, <3>2
  <2>3. CASE ~live(h.content.key)
    BY <1>4, <2>1, <2>3 DEF putIfAbsent, Win
  <2>4. QED
    BY <2>2, <2>3
<1>5. CASE Reread(r)
  <2>1. h.step = "reread" /\ h.content \in Contents /\ h.content.key \in Keys
    BY <1>5 DEF Reread, HandlerInv
  <2>2. CASE live(h.content.key)
    <3>1. /\ Halted(replayOrReject(h, records[h.content.key]))
             \/ Replayed(replayOrReject(h, records[h.content.key]))
      BY <1>1, <2>1, <2>2, ReplayOrReject
    <3>2. QED
      BY <1>5, <2>1, <2>2, <3>1 DEF Reread, Move
  <2>3. CASE ~live(h.content.key)
    BY <1>5, <2>1, <2>3 DEF Reread, WinUnstored
  <2>4. QED
    BY <2>2, <2>3
<1>6. CASE Admit(r)
  BY <1>1, <1>6 DEF Admit, Creation, HandlerInv
<1>7. QED
  BY <1>2, <1>3, <1>4, <1>5, <1>6 DEF Handle

LEMMA StepCases ==
  ASSUME TypeOK, HandlerInv, [Next]_vars
  PROVE  \/ \E r \in Requests : Move(r)
         \/ \E r \in Requests : Win(r)
         \/ \E r \in Requests : WinUnstored(r)
         \/ \E r \in Requests : Creation(r)
         \/ \E c \in Ids, report \in Reports : Report(c, report)
         \/ Tick
         \/ Restart
         \/ UNCHANGED vars
<1>1. ASSUME NEW r \in Requests, NEW content \in Contents, Arrive(r, content)
      PROVE  Move(r)
  <2> DEFINE h == [idle EXCEPT !.content = content, !.step = "decide"]
  <2>1. /\ h \in Handler /\ h.step = "decide" /\ h.content = content /\ h.answer = Absent
    <3>1. 0 \in 0 .. Horizon
      BY AdmissionAssumption
    <3>2. QED
      BY <3>1 DEF idle, Handler, Steps
  <2>2. InProgress(h)
    BY <2>1 DEF InProgress
  <2>3. handler' = [handler EXCEPT ![r] =
                      IF content.key # NoKey /\ live(content.key)
                      THEN replayOrReject(h, records[content.key]) ELSE h]
    BY <1>1 DEF Arrive
  <2> HIDE DEF h
  <2>4. CASE content.key # NoKey /\ live(content.key)
    <3>1. content.key \in Keys
      BY <2>4, ContentFields
    <3>2. /\ Halted(replayOrReject(h, records[content.key]))
             \/ Replayed(replayOrReject(h, records[content.key]))
      BY <2>1, <2>4, <3>1, ReplayOrReject
    <3>3. QED
      BY <1>1, <2>3, <2>4, <3>2 DEF Arrive, Move
  <2>5. CASE ~(content.key # NoKey /\ live(content.key))
    BY <1>1, <2>2, <2>3, <2>5 DEF Arrive, Move
  <2>6. QED
    BY <2>4, <2>5
<1>2. QED
  BY <1>1, HandleCases DEF Next, Done
----------------------------------------------------------------------------

(* What HandlerInv says of one handler. *)
Knows(h) ==
  /\ h.step \in {"decide", "role", "put", "reread", "admit"} => h.content \in Contents
  /\ h.step \in {"role", "put", "reread", "admit"} => isValid(Body[h.content.payload])
  /\ h.step \in {"put", "reread", "admit"} => h.content.key \in Keys
  /\ h.step # "done" => h.answer = Absent

LEMMA LiveRecord ==
  ASSUME TypeOK, NEW k \in Keys, records[k] # Absent
  PROVE  /\ records[k] \in Record
         /\ records[k].campaign \in Requests
         /\ records[k].expiresAt \in Nat
  BY DEF TypeOK, Record

LEMMA HaltedFields ==
  ASSUME NEW h, Halted(h)
  PROVE  /\ h \in Handler /\ h.step = "done"
         /\ h.answer \in Answers \ {"created", "replayed"}
  BY AnsweredFields DEF Halted

LEMMA ReplayedFields ==
  ASSUME TypeOK, NEW h, Replayed(h)
  PROVE  /\ h \in Handler /\ h.step = "done" /\ h.answer = "replayed"
         /\ h.content \in Contents /\ h.content.key \in Keys /\ live(h.content.key)
         /\ h.campaign = records[h.content.key].campaign
         /\ h.campaign \in Requests
<1>1. PICK content \in Contents :
        /\ content.key \in Keys /\ live(content.key)
        /\ h = [Answered("replayed", records[content.key].campaign) EXCEPT !.content = content]
  BY DEF Replayed
<1>2. records[content.key].campaign \in Requests
  BY <1>1, LiveRecord DEF live
<1>3. "replayed" \in Answers
  BY DEF Answers
<1>4. /\ h \in Handler /\ h.step = "done" /\ h.answer = "replayed"
      /\ h.content = content /\ h.campaign = records[content.key].campaign
  BY <1>1, <1>2, <1>3, AnsweredFields
<1>5. QED
  BY <1>1, <1>2, <1>4

(* Wherever a handler moves to, it is a handler that knows what it should. *)
LEMMA MovedKnows ==
  ASSUME TypeOK, NEW h, Halted(h) \/ Replayed(h) \/ InProgress(h)
  PROVE  h \in Handler /\ Knows(h)
<1>1. CASE Halted(h)
  BY <1>1, HaltedFields DEF Knows
<1>2. CASE Replayed(h)
  BY <1>2, ReplayedFields DEF Knows
<1>3. CASE InProgress(h)
  BY <1>3 DEF InProgress, Knows
<1>4. QED
  BY <1>1, <1>2, <1>3

(* A risen usage makes checks stale and changes nothing else. *)
LEMMA OutdatedFields ==
  ASSUME TypeOK, NEW r \in Requests
  PROVE  /\ Outdated(handler)[r] \in Handler
         /\ Outdated(handler)[r].step = handler[r].step
         /\ Outdated(handler)[r].content = handler[r].content
         /\ Outdated(handler)[r].answer = handler[r].answer
         /\ Outdated(handler)[r].campaign = handler[r].campaign
<1>1. handler[r] \in Handler
  BY DEF TypeOK
<1>2. "idle" \in Steps
  BY DEF Steps
<1>3. QED
  BY <1>1, <1>2, HandlerWrites DEF Outdated

(* A winner goes on to be admitted. *)
LEMMA WinnerFields ==
  ASSUME TypeOK, HandlerInv, NEW r \in Requests, Win(r) \/ WinUnstored(r)
  PROVE  /\ handler' \in [Requests -> Handler]
         /\ handler'[r].step = "admit"
         /\ handler'[r].content = handler[r].content
         /\ handler'[r].answer = Absent
         /\ handler[r].content \in Contents
         /\ handler[r].content.key \in Keys
         /\ handler[r].content.payload \in Payloads
         /\ isValid(Body[handler[r].content.payload])
         /\ \A q \in Requests : q # r => handler'[q] = handler[q]
<1>1. handler \in [Requests -> Handler] /\ handler[r] \in Handler /\ "admit" \in Steps
  BY DEF TypeOK, Steps
<1>2. handler[r].step \in {"put", "reread"}
      /\ handler' = [handler EXCEPT ![r] = [handler[r] EXCEPT !.step = "admit"]]
  BY <1>1 DEF Win, WinUnstored
<1>3. Knows(handler[r])
  BY DEF HandlerInv, Knows
<1>4. /\ [handler[r] EXCEPT !.step = "admit"] \in Handler
      /\ [handler[r] EXCEPT !.step = "admit"].step = "admit"
      /\ [handler[r] EXCEPT !.step = "admit"].content = handler[r].content
      /\ [handler[r] EXCEPT !.step = "admit"].answer = handler[r].answer
  BY <1>1, HandlerWrites
<1>5. /\ handler[r].answer = Absent
      /\ handler[r].content \in Contents
      /\ handler[r].content.key \in Keys
      /\ isValid(Body[handler[r].content.payload])
  BY <1>2, <1>3 DEF Knows
<1>6. handler[r].content.payload \in Payloads
  BY <1>5, ContentFields
<1>7. handler'[r] = [handler[r] EXCEPT !.step = "admit"]
      /\ \A q \in Requests : q # r => handler'[q] = handler[q]
  BY <1>1, <1>2
<1>8. handler' \in [Requests -> Handler]
  BY <1>1, <1>2, <1>4
<1>9. QED
  BY <1>4, <1>5, <1>6, <1>7, <1>8

(* The handlers after a campaign was created. *)
LEMMA CreationFields ==
  ASSUME TypeOK, HandlerInv, NEW r \in Requests, Creation(r)
  PROVE  /\ handler' \in [Requests -> Handler]
         /\ handler'[r].step = "done" /\ handler'[r].answer = "created"
         /\ handler[r].answer # "created"
         /\ \A q \in Requests : q # r =>
              /\ handler'[q].step = handler[q].step
              /\ handler'[q].content = handler[q].content
              /\ handler'[q].answer = handler[q].answer
              /\ handler'[q].campaign = handler[q].campaign
<1> DEFINE h == [Answered("created", r) EXCEPT !.content = handler[r].content]
<1>1. handler' = [Outdated(handler) EXCEPT ![r] = h]
  BY DEF Creation, Created
<1>2. "created" \in Answers /\ r \in Requests \cup {Absent}
  BY DEF Answers
<1>3. h \in Handler /\ h.step = "done" /\ h.answer = "created"
  BY <1>2, AnsweredFields DEF Creation
<1>a. handler[r].answer # "created"
  BY AbsentAssumption DEF Creation, HandlerInv, Answers
<1> HIDE DEF h
<1>4. Outdated(handler) \in [Requests -> Handler]
  <2>1. Outdated(handler) = [q \in Requests |-> Outdated(handler)[q]]
    BY DEF Outdated
  <2>2. QED
    BY <2>1, OutdatedFields
<1>5. QED
  BY <1>1, <1>3, <1>4, <1>a, OutdatedFields

(* The leases after one. *)
LEMMA CreationLeases ==
  ASSUME TypeOK, NEW r \in Requests, Creation(r)
  PROVE  /\ leases' \in [Ids -> Lease \cup {Absent}]
         /\ \A c \in Ids : c # campaignId(r) => leases'[c] \in {leases[c], Absent}
<1>1. clock \in Nat /\ leases \in [Ids -> Lease \cup {Absent}]
  BY AdmissionAssumption DEF TypeOK
<1>2. leases' = [Pruned(leases, clock) EXCEPT ![campaignId(r)] = NewLease(Asked(r), clock)]
  BY DEF Creation, Created
<1>3. NewLease(Asked(r), clock) \in Lease
  <2>1. /\ Asked(r).class \in Classes
        /\ Asked(r).asks \in [Resources -> Nat]
    BY AskedIsCounted DEF Creation, Asked
  <2>2. QED
    BY <1>1, <2>1, NewLeaseIsLease
<1>4. /\ Pruned(leases, clock) \in [Ids -> Lease \cup {Absent}]
      /\ \A c \in Ids : Pruned(leases, clock)[c] \in {leases[c], Absent}
  BY <1>1 DEF Pruned
<1>5. QED
  BY <1>2, <1>3, <1>4

(* The variables keep their types, and the handlers know what they should. *)
LEMMA TypeStep ==
  ASSUME TypeOK, HandlerInv, [Next]_vars
  PROVE  TypeOK' /\ HandlerInv'
<1> USE AdmissionAssumption
<1>0. \A r \in Requests : Knows(handler[r])
  BY DEF HandlerInv, Knows
<1>a. ASSUME \A r \in Requests : Knows(handler[r])'
      PROVE  HandlerInv'
  BY <1>a DEF HandlerInv, Knows
<1>1. ASSUME NEW r \in Requests, Move(r) PROVE TypeOK' /\ HandlerInv'
  <2>1. PICK h : /\ Halted(h) \/ Replayed(h) \/ InProgress(h)
                 /\ handler' = [handler EXCEPT ![r] = h]
    BY <1>1 DEF Move
  <2>2. h \in Handler /\ Knows(h)
    BY <2>1, MovedKnows
  <2>3. TypeOK'
    BY <1>1, <2>1, <2>2 DEF Move, TypeOK, ledgerVars
  <2>4. \A q \in Requests : handler'[q] = IF q = r THEN h ELSE handler[q]
    BY <2>1 DEF TypeOK
  <2>5. HandlerInv'
    BY <1>0, <1>a, <2>2, <2>4 DEF Knows
  <2>6. QED
    BY <2>3, <2>5
<1>2. ASSUME NEW r \in Requests, Win(r) \/ WinUnstored(r) PROVE TypeOK' /\ HandlerInv'
  <2>1. HandlerInv'
    BY <1>0, <1>2, <1>a, WinnerFields DEF Knows
  <2>2. records' \in [Keys -> Record \cup {Absent}]
    <3>1. CASE Win(r)
      <4>1. clock + KeyTtl \in Nat
        BY DEF TypeOK
      <4>2. [payload |-> handler[r].content.payload, campaign |-> r,
             expiresAt |-> clock + KeyTtl] \in Record
        BY <1>2, <4>1, WinnerFields DEF Record
      <4>3. QED
        BY <3>1, <4>2 DEF Win, TypeOK
    <3>2. CASE WinUnstored(r)
      BY <3>2 DEF WinUnstored, TypeOK
    <3>3. QED
      BY <1>2, <3>1, <3>2
  <2>3. wins' \subseteq [key : Keys, campaign : Requests, at : 0 .. Horizon, stored : BOOLEAN]
    <3>1. ASSUME NEW stored \in BOOLEAN
          PROVE  [key |-> handler[r].content.key, campaign |-> r, at |-> clock,
                  stored |-> stored]
                   \in [key : Keys, campaign : Requests, at : 0 .. Horizon, stored : BOOLEAN]
      BY <1>2, WinnerFields DEF TypeOK
    <3>2. wins \subseteq [key : Keys, campaign : Requests, at : 0 .. Horizon, stored : BOOLEAN]
      BY DEF TypeOK
    <3>3. QED
      BY <1>2, <3>1, <3>2 DEF Win, WinUnstored
  <2>4. UNCHANGED <<clock, kv, restarts, ledgerVars>>
    BY <1>2 DEF Win, WinUnstored
  <2>5. TypeOK'
    BY <1>2, <2>2, <2>3, <2>4, WinnerFields DEF TypeOK, ledgerVars
  <2>6. QED
    BY <2>1, <2>5
<1>3. ASSUME NEW r \in Requests, Creation(r) PROVE TypeOK' /\ HandlerInv'
  <2>1. HandlerInv'
    <3>1. ASSUME NEW q \in Requests PROVE Knows(handler[q])'
      BY <1>0, <1>3, CreationFields DEF Knows
    <3>2. QED
      BY <1>a, <3>1
  <2>2. PICK h \in Handler : Created(r, h)
    BY <1>3 DEF Creation
  <2>3. registry' \in Seq(RegistryEntries) /\ Len(registry') <= MaxStored
    <3>1. campaignId(r) \in Ids /\ createdAt(r, h) \in Nat
      BY <1>3, CampaignFields DEF Creation
    <3>2. registry \in Seq(RegistryEntries) /\ Len(registry) <= MaxStored
      BY DEF TypeOK, RegistryEntries
    <3>3. QED
      BY <2>2, <3>1, <3>2, RegisterCapped DEF Created
  <2>a. campaignId(r) \in Ids
    BY <1>3, <2>2, CampaignFields DEF Creation
  <2>4. audit' \subseteq Ids \X {"window", "quota"}
    BY <2>2, <2>a DEF Created, TypeOK, Handler
  <2>5. unchecked' \subseteq Ids
    BY <2>2, <2>a DEF Created, TypeOK
  <2>6. /\ handler' \in [Requests -> Handler]
        /\ leases' \in [Ids -> Lease \cup {Absent}]
    BY <1>3, CreationFields, CreationLeases
  <2>7. UNCHANGED <<clock, kv, records, storage, wins, restarts>>
    BY <2>2 DEF Created
  <2>8. TypeOK'
    BY <2>3, <2>4, <2>5, <2>6, <2>7 DEF TypeOK, RegistryEntries
  <2>9. QED
    BY <2>1, <2>8
<1>4. ASSUME NEW c \in Ids, NEW report \in Reports, Report(c, report)
      PROVE  TypeOK' /\ HandlerInv'
  <2>1. /\ handler' \in [Requests -> Handler]
        /\ \A q \in Requests : /\ handler'[q].step = handler[q].step
                               /\ handler'[q].content = handler[q].content
                               /\ handler'[q].answer = handler[q].answer
    <3>1. handler' = handler \/ handler' = Outdated(handler)
      BY <1>4 DEF Report
    <3>2. Outdated(handler) = [q \in Requests |-> Outdated(handler)[q]]
      BY DEF Outdated
    <3>3. Outdated(handler) \in [Requests -> Handler]
      BY <3>2, OutdatedFields
    <3>4. QED
      BY <3>1, <3>3, OutdatedFields DEF TypeOK
  <2>2. HandlerInv'
    BY <1>0, <1>a, <2>1 DEF Knows
  <2>3. leases' \in [Ids -> Lease \cup {Absent}]
    <3>1. leases[c] \in Lease /\ clock \in 0 .. Horizon
      BY <1>4 DEF Report, Leased, TypeOK
    <3>2. Reported(leases[c], report, clock) \in Lease
      BY <3>1, ReportedIsLease
    <3>3. leases' = [leases EXCEPT ![c] = Reported(leases[c], report, clock)]
      BY <1>4 DEF Report
    <3>4. QED
      BY <3>2, <3>3 DEF TypeOK
  <2>4. storage' \in Nat
    <3>1. report.storage \in Nat \cup {Absent}
      OBVIOUS
    <3>2. QED
      BY <1>4, <3>1 DEF Report, Given, TypeOK
  <2>5. unchecked' \subseteq Ids /\ UNCHANGED <<clock, kv, records, registry, audit, wins, restarts>>
    BY <1>4 DEF Report, TypeOK
  <2>6. TypeOK'
    BY <2>1, <2>3, <2>4, <2>5 DEF TypeOK
  <2>7. QED
    BY <2>2, <2>6
<1>5. CASE Tick
  <2>1. TypeOK'
    BY <1>5 DEF Tick, TypeOK, ledgerVars
  <2>2. HandlerInv'
    BY <1>0, <1>5, <1>a DEF Tick, Knows
  <2>3. QED
    BY <2>1, <2>2
<1>6. CASE Restart
  <2>1. /\ Answered("lost", Absent) \in Handler
        /\ Answered("lost", Absent).step = "done"
    BY AnsweredFields DEF Answers
  <2>2. handler' = [r \in Requests |->
                      IF handler[r].step \in {"idle", "done"} THEN handler[r]
                      ELSE Answered("lost", Absent)]
    BY <1>6 DEF Restart
  <2>3. handler' \in [Requests -> Handler]
    BY <2>1, <2>2 DEF TypeOK
  <2>4. HandlerInv'
    <3>1. ASSUME NEW r \in Requests PROVE Knows(handler[r])'
      BY <1>0, <2>1, <2>2 DEF Knows
    <3>2. QED
      BY <1>a, <3>1
  <2>5. /\ records' \in [Keys -> Record \cup {Absent}]
        /\ leases' \in [Ids -> Lease \cup {Absent}]
        /\ restarts' \in 0 .. MaxRestarts
    BY <1>6 DEF Restart, TypeOK
  <2>6. /\ storage' = 0 /\ registry' = << >> /\ audit' = {} /\ unchecked' = {}
        /\ UNCHANGED <<clock, kv, wins>>
    BY <1>6 DEF Restart
  <2>7. << >> \in Seq(RegistryEntries) /\ Len(<< >>) <= MaxStored
    BY EmptySeq
  <2>8. TypeOK'
    BY <2>3, <2>5, <2>6, <2>7 DEF TypeOK, RegistryEntries
  <2>9. QED
    BY <2>4, <2>8
<1>7. CASE UNCHANGED vars
  <2>1. TypeOK'
    BY <1>7 DEF vars, TypeOK
  <2>2. HandlerInv'
    BY <1>0, <1>7, <1>a DEF vars, Knows
  <2>3. QED
    BY <2>1, <2>2
<1>8. QED
  BY <1>1, <1>2, <1>3, <1>4, <1>5, <1>6, <1>7, StepCases

(* Every handler is at a step whose input it has. *)
THEOREM HandlersKnow == Spec => [](TypeOK /\ HandlerInv)
<1>1. Init => TypeOK /\ HandlerInv
  <2>1. idle \in Handler /\ idle.step = "idle" /\ idle.answer = Absent
    <3>1. 0 \in 0 .. Horizon
      BY AdmissionAssumption
    <3>2. QED
      BY <3>1 DEF idle, Handler, Steps
  <2>2. << >> \in Seq(RegistryEntries) /\ Len(<< >>) <= MaxStored
    BY EmptySeq, AdmissionAssumption
  <2>3. Init => TypeOK
    BY <2>1, <2>2, AdmissionAssumption DEF Init, TypeOK, RegistryEntries
  <2>4. Init => HandlerInv
    BY <2>1 DEF Init, HandlerInv
  <2>5. QED
    BY <2>3, <2>4
<1>2. TypeOK /\ HandlerInv /\ [Next]_vars => TypeOK' /\ HandlerInv'
  BY TypeStep
<1>3. QED
  BY <1>1, <1>2, PTL DEF Spec

(* The variables keep their types in every reachable state. *)
THEOREM TypeCorrect == Spec => []TypeOK
  BY HandlersKnow, PTL
----------------------------------------------------------------------------
(* Retries are safe. *)

(* How a handler comes to a replay or to reading the store again, and that *)
(* only a restart takes a winner off its way.                              *)
LEMMA HandlerEffect ==
  ASSUME TypeOK, HandlerInv, [Next]_vars, NEW q \in Requests
  PROVE  /\ handler'[q].answer = "replayed" =>
              \/ /\ handler[q].answer = "replayed"
                 /\ handler'[q].content = handler[q].content
                 /\ handler'[q].campaign = handler[q].campaign
              \/ /\ handler'[q].content.key \in Keys
                 /\ live(handler'[q].content.key)
                 /\ handler'[q].campaign = records[handler'[q].content.key].campaign
         /\ handler'[q].step = "reread" =>
              \/ handler[q].step = "reread" /\ handler'[q].content = handler[q].content
              \/ /\ kv /\ handler'[q].content.key \in Keys
                 /\ live(handler'[q].content.key)
         /\ handler'[q].step = "reread" => ~Restart
         /\ handler[q].step = "admit" =>
              handler'[q].step = "admit" \/ handler'[q].answer = "created" \/ Restart
         /\ handler[q].answer = "created" => handler'[q].answer = "created"
<1> DEFINE Kept == /\ handler'[q].step = handler[q].step
                   /\ handler'[q].content = handler[q].content
                   /\ handler'[q].answer = handler[q].answer
                   /\ handler'[q].campaign = handler[q].campaign
<1>0. handler \in [Requests -> Handler]
  BY DEF TypeOK
<1>a. ASSUME handler[q].answer = "created" PROVE handler[q].step = "done"
  BY <1>a, AbsentAssumption DEF HandlerInv, Answers
<1>1. ASSUME NEW r \in Requests, Move(r), q = r
      PROVE  /\ handler[q].step # "admit" /\ handler[q].answer # "created"
             /\ Halted(handler'[q]) \/ Replayed(handler'[q]) \/ InProgress(handler'[q])
  <2>1. handler[q].step \notin {"admit", "done"}
    BY <1>1 DEF Move
  <2>2. QED
    BY <1>0, <1>1, <1>a, <2>1 DEF Move
<1>2. ASSUME NEW r \in Requests, Move(r), q # r PROVE Kept
  BY <1>0, <1>2 DEF Move
<1>3. ASSUME NEW r \in Requests, Win(r) \/ WinUnstored(r), q # r PROVE Kept
  BY <1>3, WinnerFields
<1>4. ASSUME NEW r \in Requests, Win(r) \/ WinUnstored(r), q = r
      PROVE  /\ handler'[q].step = "admit" /\ handler'[q].answer = Absent
             /\ handler[q].answer # "created"
  BY <1>4, <1>a, WinnerFields DEF Win, WinUnstored
<1>5. ASSUME NEW r \in Requests, Creation(r), q # r PROVE Kept
  BY <1>5, CreationFields
<1>6. ASSUME NEW r \in Requests, Creation(r), q = r
      PROVE  handler'[q].step = "done" /\ handler'[q].answer = "created"
  BY <1>6, CreationFields
<1>7. ASSUME NEW c \in Ids, NEW report \in Reports, Report(c, report) PROVE Kept
  BY <1>7, OutdatedFields DEF Report
<1>8. ASSUME Tick \/ UNCHANGED vars PROVE Kept
  BY <1>8 DEF Tick, vars
<1>9. ASSUME Restart
      PROVE  \/ Kept /\ handler[q].step \in {"idle", "done"}
             \/ /\ handler'[q].step = "done" /\ handler'[q].answer = "lost"
                /\ handler[q].step # "done"
  <2>1. /\ Answered("lost", Absent).step = "done"
        /\ Answered("lost", Absent).answer = "lost"
    BY AnsweredFields DEF Answers
  <2>2. QED
    BY <1>9, <2>1 DEF Restart
<1>10. ASSUME Halted(handler'[q])
       PROVE  handler'[q].step = "done" /\ handler'[q].answer # "replayed"
  BY <1>10, HaltedFields
<1>11. ASSUME Replayed(handler'[q])
       PROVE  /\ handler'[q].step = "done"
              /\ handler'[q].content.key \in Keys
              /\ live(handler'[q].content.key)
              /\ handler'[q].campaign = records[handler'[q].content.key].campaign
  BY <1>11, ReplayedFields
<1>12. ASSUME InProgress(handler'[q])
       PROVE  /\ handler'[q].answer # "replayed"
              /\ handler'[q].step = "reread" =>
                   /\ kv /\ handler'[q].content.key \in Keys
                   /\ live(handler'[q].content.key)
  BY <1>12, AbsentAssumption DEF InProgress, Answers
<1>13. Absent # "replayed"
  BY AbsentAssumption DEF Answers
<1>14. \/ Kept /\ (Restart => handler[q].step \in {"idle", "done"})
       \/ \E r \in Requests : Move(r) /\ q = r
       \/ \E r \in Requests : (Win(r) \/ WinUnstored(r)) /\ q = r
       \/ \E r \in Requests : Creation(r) /\ q = r
       \/ Restart /\ ~Kept
  <2>1. CASE Restart
    BY <1>9, <2>1
  <2>2. CASE ~Restart
    <3> HIDE DEF Kept
    <3>1. QED
      BY <1>2, <1>3, <1>5, <1>7, <1>8, <2>2, StepCases
  <2>3. QED
    BY <2>1, <2>2
<1>15. ASSUME NEW r \in Requests, Move(r) PROVE ~Restart
  <2>1. Move(r) => restarts' = restarts
    BY DEF Move
  <2>2. restarts \in Nat
    BY AdmissionAssumption DEF TypeOK
  <2>3. QED
    BY <1>15, <2>1, <2>2 DEF Restart
<1>16. CASE Kept /\ (Restart => handler[q].step \in {"idle", "done"})
  BY <1>16
<1>17. CASE \E r \in Requests : Move(r) /\ q = r
  BY <1>1, <1>10, <1>11, <1>12, <1>15, <1>17
<1>18. CASE \E r \in Requests : (Win(r) \/ WinUnstored(r)) /\ q = r
  BY <1>4, <1>13, <1>18
<1>19. CASE \E r \in Requests : Creation(r) /\ q = r
  BY <1>6, <1>19
<1>20. CASE Restart /\ ~Kept
  BY <1>9, <1>20, <1>a
<1>21. QED
  BY <1>14, <1>16, <1>17, <1>18, <1>19, <1>20

(* What a step does to the clock, the records and the wins. *)
LEMMA StoreEffect ==
  ASSUME TypeOK, HandlerInv, [Next]_vars
  PROVE  /\ kv' = kv
         /\ clock \in Nat /\ clock' \in Nat /\ clock <= clock'
         /\ restarts \in Nat /\ restarts' \in Nat /\ restarts <= restarts'
         /\ \/ UNCHANGED <<records, wins>>
            \/ /\ Restart /\ wins' = wins /\ restarts' > 0
               /\ kv => records' = records
               /\ ~kv => \A k \in Keys : records'[k] = Absent
            \/ \E r \in Requests : Win(r) /\ clock' = clock
            \/ \E r \in Requests : WinUnstored(r) /\ records' = records /\ clock' = clock
<1>0. clock \in Nat /\ restarts \in Nat
  BY AdmissionAssumption DEF TypeOK
<1>1. ASSUME NEW r \in Requests, Move(r) PROVE UNCHANGED <<kv, clock, restarts, records, wins>>
  BY <1>1 DEF Move
<1>2. ASSUME NEW r \in Requests, Win(r) PROVE UNCHANGED <<kv, clock, restarts>>
  BY <1>2 DEF Win
<1>3. ASSUME NEW r \in Requests, WinUnstored(r) PROVE UNCHANGED <<kv, clock, restarts, records>>
  BY <1>3 DEF WinUnstored
<1>4. ASSUME NEW r \in Requests, Creation(r)
      PROVE  UNCHANGED <<kv, clock, restarts, records, wins>>
  BY <1>4 DEF Creation, Created
<1>5. ASSUME NEW c \in Ids, NEW report \in Reports, Report(c, report)
      PROVE  UNCHANGED <<kv, clock, restarts, records, wins>>
  BY <1>5 DEF Report
<1>6. ASSUME Tick PROVE clock' = clock + 1 /\ UNCHANGED <<kv, restarts, records, wins>>
  BY <1>6 DEF Tick
<1>7. ASSUME Restart
      PROVE  /\ UNCHANGED <<kv, clock, wins>> /\ restarts' = restarts + 1
             /\ kv => records' = records
             /\ ~kv => \A k \in Keys : records'[k] = Absent
  BY <1>7 DEF Restart
<1>8. ASSUME UNCHANGED vars PROVE UNCHANGED <<kv, clock, restarts, records, wins>>
  BY <1>8 DEF vars
<1>9. QED
  BY <1>0, <1>1, <1>2, <1>3, <1>4, <1>5, <1>6, <1>7, <1>8, StepCases

(* A key whose record is not live has no stored win that still counts. *)
LEMMA DeadKey ==
  ASSUME TypeOK, RecordInv, NEW k \in Keys, ~live(k), NEW v \in wins, v.stored, v.key = k
  PROVE  v.at + KeyTtl <= clock \/ (~kv /\ restarts > 0)
<1>1. v.at \in Nat /\ clock \in Nat /\ KeyTtl \in Nat
  BY AdmissionAssumption DEF TypeOK
<1>2. records[k] # Absent => records[k].expiresAt \in Nat /\ records[k].expiresAt <= clock
  BY <1>1, LiveRecord DEF live
<1>3. QED
  BY <1>1, <1>2 DEF RecordInv

LEMMA WinTypes ==
  ASSUME TypeOK, NEW w \in wins
  PROVE  w.key \in Keys /\ w.campaign \in Requests /\ w.at \in Nat /\ w.stored \in BOOLEAN
  BY AdmissionAssumption DEF TypeOK

LEMMA RecordStep ==
  ASSUME TypeOK, HandlerInv, RecordInv, TypeOK', [Next]_vars
  PROVE  RecordInv'
<1>0. KeyTtl \in Nat
  BY AdmissionAssumption
<1>1. /\ \A w \in wins : w.at <= clock
      /\ \A k \in Keys : records[k] # Absent =>
           \E w \in wins : /\ w.stored /\ w.key = k
                           /\ w.campaign = records[k].campaign
                           /\ records[k].expiresAt = w.at + KeyTtl
      /\ \A v \in wins : v.stored =>
           \/ v.at + KeyTtl <= clock
           \/ records[v.key] # Absent /\ v.at + KeyTtl <= records[v.key].expiresAt
           \/ ~kv /\ restarts > 0
      /\ \A r \in Requests :
           handler[r].step = "reread" => kv /\ records[handler[r].content.key] # Absent
  BY DEF RecordInv
<1>2. /\ kv' = kv
      /\ clock \in Nat /\ clock' \in Nat /\ clock <= clock'
      /\ restarts \in Nat /\ restarts' \in Nat /\ restarts <= restarts'
  BY StoreEffect
<1>3. CASE UNCHANGED <<records, wins>>
  <2>1. ASSUME NEW q \in Requests, handler'[q].step = "reread"
        PROVE  kv' /\ records'[handler'[q].content.key] # Absent
    BY <1>1, <1>2, <1>3, <2>1, HandlerEffect DEF live
  <2>2. \A w \in wins' : w.at <= clock'
    BY <1>1, <1>2, <1>3, WinTypes
  <2>3. \A v \in wins' : v.stored =>
          \/ v.at + KeyTtl <= clock'
          \/ records'[v.key] # Absent /\ v.at + KeyTtl <= records'[v.key].expiresAt
          \/ ~kv' /\ restarts' > 0
    BY <1>0, <1>1, <1>2, <1>3, WinTypes
  <2>4. QED
    BY <1>1, <1>3, <2>1, <2>2, <2>3 DEF RecordInv
<1>4. CASE /\ Restart /\ wins' = wins /\ restarts' > 0
           /\ kv => records' = records
           /\ ~kv => \A k \in Keys : records'[k] = Absent
  <2>1. \A q \in Requests : handler'[q].step # "reread"
    BY <1>4, HandlerEffect
  <2>2. \A w \in wins' : w.at <= clock'
    BY <1>1, <1>2, <1>4, WinTypes
  <2>3. \A v \in wins' : v.stored =>
          \/ v.at + KeyTtl <= clock'
          \/ records'[v.key] # Absent /\ v.at + KeyTtl <= records'[v.key].expiresAt
          \/ ~kv' /\ restarts' > 0
    BY <1>0, <1>1, <1>2, <1>4, WinTypes
  <2>4. \A k \in Keys : records'[k] # Absent => records' = records
    BY <1>4
  <2>5. QED
    BY <1>1, <1>4, <2>1, <2>2, <2>3, <2>4 DEF RecordInv
<1>5. ASSUME NEW r \in Requests, Win(r), clock' = clock PROVE RecordInv'
  <2> DEFINE k == handler[r].content.key
             win == [key |-> k, campaign |-> r, at |-> clock, stored |-> TRUE]
  <2>1. k \in Keys /\ ~live(k)
    BY <1>5, WinnerFields DEF Win
  <2>2. /\ wins' = wins \cup {win}
        /\ records'[k] = [payload |-> handler[r].content.payload, campaign |-> r,
                          expiresAt |-> clock + KeyTtl]
        /\ \A j \in Keys : j # k => records'[j] = records[j]
    BY <1>5, <2>1 DEF Win, TypeOK
  <2>3. records'[k] \in Record
    <3>1. handler[r].content.payload \in Payloads /\ clock + KeyTtl \in Nat
      BY <1>0, <1>2, <1>5, WinnerFields
    <3>2. QED
      BY <2>2, <3>1 DEF Record
  <2>4. /\ records'[k] # Absent
        /\ records'[k].campaign = r
        /\ records'[k].expiresAt = clock + KeyTtl
    BY <2>2, <2>3, AbsentAssumption
  <2>5. win \in wins' /\ win.stored /\ win.key = k /\ win.campaign = r /\ win.at = clock
    BY <2>2
  <2> HIDE DEF k, win
  <2>6. \A w \in wins' : w.at <= clock'
    BY <1>1, <1>2, <1>5, <2>2, <2>5, WinTypes
  <2>7. ASSUME NEW j \in Keys, records'[j] # Absent
        PROVE  \E w \in wins' : /\ w.stored /\ w.key = j
                                /\ w.campaign = records'[j].campaign
                                /\ records'[j].expiresAt = w.at + KeyTtl
    <3>1. CASE j = k
      BY <2>4, <2>5, <3>1
    <3>2. CASE j # k
      BY <1>1, <2>2, <2>7, <3>2
    <3>3. QED
      BY <3>1, <3>2
  <2>8. ASSUME NEW v \in wins', v.stored
        PROVE  \/ v.at + KeyTtl <= clock'
               \/ records'[v.key] # Absent /\ v.at + KeyTtl <= records'[v.key].expiresAt
               \/ ~kv' /\ restarts' > 0
    <3>1. CASE v = win
      BY <1>0, <1>2, <2>4, <2>5, <3>1
    <3>2. CASE v \in wins /\ v.key = k
      <4>1. v.at + KeyTtl <= clock \/ (~kv /\ restarts > 0)
        BY <2>1, <2>8, <3>2, DeadKey
      <4>2. QED
        BY <1>2, <1>5, <4>1
    <3>3. CASE v \in wins /\ v.key # k
      <4>1. records'[v.key] = records[v.key] /\ v.at \in Nat
        BY <2>2, <3>3, WinTypes
      <4>2. QED
        BY <1>1, <1>2, <1>5, <2>8, <3>3, <4>1
    <3>4. QED
      BY <2>2, <3>1, <3>2, <3>3
  <2>9. ASSUME NEW q \in Requests, handler'[q].step = "reread"
        PROVE  kv' /\ records'[handler'[q].content.key] # Absent
    <3>1. q # r /\ handler'[q] = handler[q]
      BY <1>5, <2>9, WinnerFields
    <3>2. kv /\ records[handler[q].content.key] # Absent /\ handler[q].content.key \in Keys
      BY <1>1, <2>9, <3>1 DEF HandlerInv
    <3>3. QED
      BY <1>2, <2>2, <2>4, <3>1, <3>2
  <2>10. QED
    BY <2>6, <2>7, <2>8, <2>9 DEF RecordInv
<1>6. ASSUME NEW r \in Requests, WinUnstored(r), records' = records, clock' = clock
      PROVE  RecordInv'
  <2> DEFINE win == [key |-> handler[r].content.key, campaign |-> r, at |-> clock,
                     stored |-> FALSE]
  <2>1. wins' = wins \cup {win} /\ win.at = clock /\ ~win.stored
    BY <1>6 DEF WinUnstored
  <2> HIDE DEF win
  <2>2. \A w \in wins' : w.at <= clock'
    BY <1>1, <1>2, <1>6, <2>1, WinTypes
  <2>3. ASSUME NEW v \in wins', v.stored
        PROVE  \/ v.at + KeyTtl <= clock'
               \/ records'[v.key] # Absent /\ v.at + KeyTtl <= records'[v.key].expiresAt
               \/ ~kv' /\ restarts' > 0
    <3>1. v \in wins
      BY <2>1, <2>3
    <3>2. QED
      BY <1>1, <1>2, <1>6, <2>3, <3>1
  <2>4. ASSUME NEW q \in Requests, handler'[q].step = "reread"
        PROVE  kv' /\ records'[handler'[q].content.key] # Absent
    <3>1. q # r /\ handler'[q] = handler[q]
      BY <1>6, <2>4, WinnerFields
    <3>2. QED
      BY <1>1, <1>2, <1>6, <2>4, <3>1
  <2>5. \A j \in Keys : records'[j] # Absent =>
          \E w \in wins' : /\ w.stored /\ w.key = j
                           /\ w.campaign = records'[j].campaign
                           /\ records'[j].expiresAt = w.at + KeyTtl
    BY <1>1, <1>6, <2>1
  <2>6. QED
    BY <2>2, <2>3, <2>4, <2>5 DEF RecordInv
<1>7. QED
  BY <1>3, <1>4, <1>5, <1>6, StoreEffect

(* A record in the store was won by the campaign it names. *)
LEMMA RecordIsWon ==
  ASSUME TypeOK, RecordInv, NEW k \in Keys, records[k] # Absent
  PROVE  \E w \in wins : /\ w.stored /\ w.key = k
                         /\ w.campaign = records[k].campaign
                         /\ records[k].expiresAt = w.at + KeyTtl
  BY DEF RecordInv

LEMMA OneCampaignStep ==
  ASSUME TypeOK, HandlerInv, RecordInv, OneCampaignPerKey, TypeOK', [Next]_vars
  PROVE  OneCampaignPerKey'
<1> DEFINE Apart(v, w) == /\ v.stored /\ w.stored /\ v.key = w.key
                          /\ v.campaign # w.campaign /\ v.at <= w.at
                          => w.at - v.at >= KeyTtl \/ (~kv /\ restarts > 0)
           Covered(w) == \E v \in wins : v.stored /\ v.key = w.key /\ w.at - v.at >= KeyTtl
           ApartNext(v, w) == /\ v.stored /\ w.stored /\ v.key = w.key
                              /\ v.campaign # w.campaign /\ v.at <= w.at
                              => w.at - v.at >= KeyTtl \/ (~kv' /\ restarts' > 0)
           CoveredNext(w) == \E v \in wins' :
                               v.stored /\ v.key = w.key /\ w.at - v.at >= KeyTtl
<1>0. KeyTtl \in Nat /\ KeyTtl > 0
  BY AdmissionAssumption
<1>1. /\ \A v, w \in wins : Apart(v, w)
      /\ \A w \in wins : ~w.stored => Covered(w)
      /\ \A r \in Requests : handler[r].answer = "replayed" =>
           \E w \in wins : w.key = handler[r].content.key /\ w.campaign = handler[r].campaign
  BY DEF OneCampaignPerKey
<1>2. /\ kv' = kv
      /\ clock \in Nat /\ clock' \in Nat /\ clock <= clock'
      /\ restarts \in Nat /\ restarts' \in Nat /\ restarts <= restarts'
  BY StoreEffect
<1>3. wins \subseteq wins'
  BY StoreEffect DEF Win, WinUnstored
<1>4. ASSUME NEW q \in Requests, handler'[q].answer = "replayed"
      PROVE  \E w \in wins' : w.key = handler'[q].content.key /\ w.campaign = handler'[q].campaign
  <2>1. CASE /\ handler[q].answer = "replayed"
             /\ handler'[q].content = handler[q].content
             /\ handler'[q].campaign = handler[q].campaign
    BY <1>1, <1>3, <2>1
  <2>2. CASE /\ handler'[q].content.key \in Keys
             /\ live(handler'[q].content.key)
             /\ handler'[q].campaign = records[handler'[q].content.key].campaign
    BY <1>3, <2>2, RecordIsWon DEF live
  <2>3. QED
    BY <1>4, <2>1, <2>2, HandlerEffect
<1>5. ASSUME NEW v \in wins, NEW w \in wins PROVE ApartNext(v, w)
  BY <1>1, <1>2, <1>5
<1>6. ASSUME NEW w \in wins, ~w.stored PROVE CoveredNext(w)
  BY <1>1, <1>3, <1>6
<1>7. ASSUME \A v, w \in wins' : ApartNext(v, w),
             \A w \in wins' : ~w.stored => CoveredNext(w)
      PROVE  OneCampaignPerKey'
  BY <1>4, <1>7 DEF OneCampaignPerKey
<1>8. CASE wins' = wins
  <2> HIDE DEF ApartNext, CoveredNext
  <2>1. QED
    BY <1>5, <1>6, <1>7, <1>8
<1>9. ASSUME NEW r \in Requests, Win(r), clock' = clock PROVE OneCampaignPerKey'
  <2> DEFINE k == handler[r].content.key
             win == [key |-> k, campaign |-> r, at |-> clock, stored |-> TRUE]
  <2>1. k \in Keys /\ ~live(k) /\ wins' = wins \cup {win}
    BY <1>9, WinnerFields DEF Win
  <2>2. win.stored /\ win.key = k /\ win.at = clock
    OBVIOUS
  <2> HIDE DEF k, win
  <2>3. ASSUME NEW v \in wins PROVE ApartNext(v, win) /\ ApartNext(win, v)
    <3>1. v.at \in Nat /\ v.at <= clock
      BY WinTypes DEF RecordInv
    <3>2. v.stored /\ v.key = k => v.at + KeyTtl <= clock \/ (~kv /\ restarts > 0)
      BY <2>1, DeadKey
    <3>3. (~kv /\ restarts > 0) => (~kv' /\ restarts' > 0)
      BY <1>2
    <3>4. ApartNext(v, win)
      BY <1>0, <1>2, <2>2, <3>1, <3>2, <3>3
    <3>5. ApartNext(win, v)
      BY <1>0, <1>2, <2>2, <3>1, <3>2, <3>3
    <3>6. QED
      BY <3>4, <3>5
  <2>4. ApartNext(win, win)
    OBVIOUS
  <2>5. \A w \in wins' : ~w.stored => CoveredNext(w)
    <3> HIDE DEF CoveredNext
    <3>1. QED
      BY <1>6, <2>1, <2>2
  <2>6. \A v, w \in wins' : ApartNext(v, w)
    <3> HIDE DEF ApartNext
    <3>1. QED
      BY <1>5, <2>1, <2>3, <2>4
  <2>7. QED
    BY <1>7, <2>5, <2>6
<1>10. ASSUME NEW r \in Requests, WinUnstored(r) PROVE OneCampaignPerKey'
  <2> DEFINE k == handler[r].content.key
             win == [key |-> k, campaign |-> r, at |-> clock, stored |-> FALSE]
  <2>1. k \in Keys /\ ~live(k) /\ wins' = wins \cup {win}
    BY <1>10, WinnerFields DEF WinUnstored
  <2>2. ~win.stored /\ win.key = k /\ win.at = clock
    OBVIOUS
  <2>3. records[k] # Absent
    BY <1>10 DEF WinUnstored, RecordInv
  <2> HIDE DEF k, win
  <2>4. PICK v \in wins : v.stored /\ v.key = k /\ records[k].expiresAt = v.at + KeyTtl
    BY <2>1, <2>3, RecordIsWon
  <2>5. records[k].expiresAt \in Nat /\ records[k].expiresAt <= clock
    BY <1>2, <2>1, <2>3, LiveRecord DEF live
  <2>6. win.at - v.at >= KeyTtl
    BY <1>0, <1>2, <2>2, <2>4, <2>5, WinTypes
  <2>7. CoveredNext(win)
    BY <1>3, <2>2, <2>4, <2>6
  <2>8. \A w \in wins' : ~w.stored => CoveredNext(w)
    <3> HIDE DEF CoveredNext
    <3>1. QED
      BY <1>6, <2>1, <2>7
  <2>9. \A v1, w1 \in wins' : ApartNext(v1, w1)
    <3>1. ASSUME NEW v1 \in wins', NEW w1 \in wins', v1 = win \/ w1 = win
          PROVE  ApartNext(v1, w1)
      BY <2>2, <3>1
    <3> HIDE DEF ApartNext
    <3>2. QED
      BY <1>5, <2>1, <3>1
  <2>10. QED
    BY <1>7, <2>8, <2>9
<1>11. QED
  BY <1>8, <1>9, <1>10, StoreEffect

(* Every record was won, and every stored win is over or still kept. *)
THEOREM RecordsAreWon == Spec => []RecordInv
<1>1. Init => RecordInv
  <2>1. idle.step = "idle"
    BY DEF idle
  <2>2. QED
    BY <2>1 DEF Init, RecordInv
<1>2. TypeOK /\ HandlerInv /\ RecordInv /\ TypeOK' /\ [Next]_vars => RecordInv'
  BY RecordStep
<1>3. QED
  BY <1>1, <1>2, HandlersKnow, PTL DEF Spec

(* Retries are safe: within the life of a key's record no second campaign  *)
(* is created for the key, whatever races putIfAbsent, and a replay names  *)
(* a campaign that won the key (route.ts, idempotency-store.ts).           *)
THEOREM RetriesAreSafe == Spec => []OneCampaignPerKey
<1>1. Init => OneCampaignPerKey
  <2>1. idle.answer # "replayed"
    BY AbsentAssumption DEF idle, Answers
  <2>2. QED
    BY <2>1 DEF Init, OneCampaignPerKey
<1>2. TypeOK /\ HandlerInv /\ RecordInv /\ OneCampaignPerKey /\ TypeOK' /\ [Next]_vars
        => OneCampaignPerKey'
  BY OneCampaignStep
<1>3. QED
  BY <1>1, <1>2, HandlersKnow, RecordsAreWon, PTL DEF Spec
----------------------------------------------------------------------------
(* Leases belong to their campaigns. *)

(* What a step does to a lease: it leaves it, drops it, takes a report on  *)
(* it, or is the creation of a campaign of this id.                        *)
LEMMA LeaseEffect ==
  ASSUME TypeOK, HandlerInv, [Next]_vars, NEW c \in Ids, leases'[c] # Absent
  PROVE  \/ leases'[c] = leases[c]
         \/ \E r \in Requests : Creation(r) /\ campaignId(r) = c
         \/ /\ leases[c] \in Lease
            /\ \E report \in Reports : leases'[c] = Reported(leases[c], report, clock)
<1>0. leases \in [Ids -> Lease \cup {Absent}]
  BY DEF TypeOK
<1>1. ASSUME NEW r \in Requests, Move(r) \/ Win(r) \/ WinUnstored(r) PROVE leases' = leases
  BY <1>1 DEF Move, Win, WinUnstored, ledgerVars
<1>2. ASSUME NEW r \in Requests, Creation(r)
      PROVE  campaignId(r) = c \/ leases'[c] = leases[c]
  BY <1>2, CreationLeases
<1>3. ASSUME NEW d \in Ids, NEW report \in Reports, Report(d, report)
      PROVE  \/ leases'[c] = leases[c]
             \/ leases[c] \in Lease /\ leases'[c] = Reported(leases[c], report, clock)
  <2>1. leases' = [leases EXCEPT ![d] = Reported(leases[d], report, clock)] /\ leases[d] # Absent
    BY <1>3 DEF Report, Leased
  <2>2. QED
    BY <1>0, <2>1
<1>4. ASSUME Restart PROVE FALSE
  BY <1>4 DEF Restart
<1>5. ASSUME Tick \/ UNCHANGED vars PROVE leases' = leases
  BY <1>5 DEF Tick, vars, ledgerVars
<1>6. QED
  BY <1>1, <1>2, <1>3, <1>4, <1>5, StepCases

LEMMA WinnerStep ==
  ASSUME TypeOK, HandlerInv, WinnerInv, [Next]_vars
  PROVE  WinnerInv'
<1>1. restarts \in Nat /\ restarts' \in Nat /\ restarts <= restarts' /\ (Restart => restarts' > 0)
  <2>1. Restart => restarts' = restarts + 1
    BY DEF Restart
  <2>2. QED
    BY <2>1, StoreEffect
<1>2. ASSUME NEW w \in wins
      PROVE  \/ handler'[w.campaign].answer = "created"
             \/ handler'[w.campaign].step = "admit"
             \/ restarts' > 0
  <2>1. w.campaign \in Requests
    BY WinTypes
  <2>2. restarts > 0 => restarts' > 0
    BY <1>1
  <2>3. QED
    BY <1>1, <2>1, <2>2, HandlerEffect DEF WinnerInv
<1>3. ASSUME NEW w \in wins', w \notin wins
      PROVE  handler'[w.campaign].step = "admit"
  <2>1. PICK r \in Requests : Win(r) \/ WinUnstored(r)
    BY <1>3, StoreEffect
  <2>2. w.campaign = r
    BY <1>3, <2>1 DEF Win, WinUnstored
  <2>3. QED
    BY <2>1, <2>2, WinnerFields
<1>4. QED
  BY <1>2, <1>3 DEF WinnerInv

(* Whoever won a key is admitted or about to be: nothing between           *)
(* putIfAbsent and the ledger's admit refuses a campaign (route.ts).       *)
THEOREM WinnersAreAdmitted == Spec => []WinnerInv
<1>1. Init => WinnerInv
  BY DEF Init, WinnerInv
<1>2. TypeOK /\ HandlerInv /\ WinnerInv /\ [Next]_vars => WinnerInv'
  BY WinnerStep
<1>3. QED
  BY <1>1, <1>2, HandlersKnow, PTL DEF Spec

(* A campaign given to a client as the replay of its request is created or *)
(* one step from it, unless a restart came in between.                     *)
THEOREM ReplaysAreAdmitted == Spec => []ReplayedIsAdmitted
<1>1. OneCampaignPerKey /\ WinnerInv => ReplayedIsAdmitted
  BY DEF OneCampaignPerKey, WinnerInv, ReplayedIsAdmitted
<1>2. QED
  BY <1>1, RetriesAreSafe, WinnersAreAdmitted, PTL

(* A final report is final and the counters of a lease never go back,      *)
(* whatever reports come late or twice; only an admission under the same   *)
(* id replaces a lease (usage-ledger.ts).                                  *)
THEOREM FinishedStaysFinished == Spec => FinishedForGood
<1> DEFINE Kept(c) == leases[c] # Absent /\ leases'[c] # Absent /\ ~AdmittedAs(c) =>
             /\ leases[c].finishedAt # Absent => leases'[c].finishedAt = leases[c].finishedAt
             /\ \A r \in Daily : leases'[c].used[r] >= leases[c].used[r]
<1>1. ASSUME TypeOK, HandlerInv, [Next]_vars, NEW c \in Ids PROVE Kept(c)
  <2> SUFFICES ASSUME leases[c] # Absent, leases'[c] # Absent, ~AdmittedAs(c)
               PROVE  /\ leases[c].finishedAt # Absent
                           => leases'[c].finishedAt = leases[c].finishedAt
                      /\ \A r \in Daily : leases'[c].used[r] >= leases[c].used[r]
    OBVIOUS
  <2>1. leases[c] \in Lease /\ leases[c].used \in [Daily -> Nat] /\ clock \in 0 .. Horizon
    BY <1>1 DEF TypeOK, Lease
  <2>2. CASE leases'[c] = leases[c]
    BY <2>1, <2>2
  <2>3. ASSUME NEW r \in Requests, Creation(r), campaignId(r) = c PROVE FALSE
    BY <1>1, <2>3, CreationFields DEF AdmittedAs
  <2>4. ASSUME NEW report \in Reports, leases'[c] = Reported(leases[c], report, clock)
        PROVE  /\ leases[c].finishedAt # Absent
                    => leases'[c].finishedAt = leases[c].finishedAt
               /\ \A r \in Daily : leases'[c].used[r] >= leases[c].used[r]
    BY <2>1, <2>4, ReportedIsLease
  <2>5. QED
    BY <1>1, <2>2, <2>3, <2>4, LeaseEffect
<1>2. TypeOK /\ HandlerInv /\ [Next]_vars => [\A c \in Ids : Kept(c)]_vars
  BY <1>1
<1>3. QED
  BY <1>2, HandlersKnow, PTL DEF Spec, FinishedForGood
----------------------------------------------------------------------------
(* Quotas: what was admitted on a check stays within the share it was      *)
(* checked against.                                                        *)

(* The units that charges stand for. *)
Units(charges) == UNION {{c} \X (1 .. charges[c]) : c \in DOMAIN charges}

LEMMA UnitsMembers ==
  ASSUME NEW f
  PROVE  \A u : u \in Units(f) <=> \E c \in DOMAIN f : \E i \in 1 .. f[c] : u = <<c, i>>
  BY DEF Units

LEMMA BlockSize ==
  ASSUME NEW x, NEW n \in Nat
  PROVE  IsFiniteSet({x} \X (1 .. n)) /\ Cardinality({x} \X (1 .. n)) = n
<1> DEFINE S == {x}
           T == 1 .. n
<1>1. IsFiniteSet(S) /\ Cardinality(S) = 1
  BY FS_Singleton
<1>2. IsFiniteSet(T) /\ Cardinality(T) = n
  BY FS_Interval
<1> HIDE DEF S, T
<1>3. IsFiniteSet(S \X T) /\ Cardinality(S \X T) = Cardinality(S) * Cardinality(T)
  BY <1>1, <1>2, FS_Product, Zenon
<1>4. QED
  BY <1>1, <1>2, <1>3 DEF S, T

LEMMA UnitsFinite ==
  ASSUME NEW f, IsFiniteSet(DOMAIN f), \A c \in DOMAIN f : f[c] \in Nat
  PROVE  IsFiniteSet(Units(f)) /\ Total(f) = Cardinality(Units(f)) /\ Total(f) \in Nat
<1> DEFINE block == [c \in DOMAIN f |-> {c} \X (1 .. f[c])]
           blocks == {{c} \X (1 .. f[c]) : c \in DOMAIN f}
<1>1. block \in Surjection(DOMAIN f, blocks)
  BY DEF Surjection
<1>2. IsFiniteSet(blocks)
  BY <1>1, FS_Surjection
<1>3. ASSUME NEW c \in DOMAIN f PROVE IsFiniteSet({c} \X (1 .. f[c]))
  BY <1>3, BlockSize
<1>4. IsFiniteSet(UNION blocks)
  BY <1>2, <1>3, FS_UNION
<1>5. Cardinality(UNION blocks) \in Nat
  BY <1>4, FS_CardinalityType
<1>6. QED
  BY <1>4, <1>5 DEF Units, Total

(* Fewer and smaller charges come to less. *)
LEMMA TotalFalls ==
  ASSUME NEW f, IsFiniteSet(DOMAIN f), \A c \in DOMAIN f : f[c] \in Nat,
         NEW g, \A c \in DOMAIN g : c \in DOMAIN f /\ g[c] \in Nat /\ g[c] <= f[c]
  PROVE  Total(g) \in Nat /\ Total(g) <= Total(f)
<1>1. DOMAIN g \subseteq DOMAIN f
  OBVIOUS
<1>2. IsFiniteSet(DOMAIN g)
  BY <1>1, FS_Subset
<1>3. Units(g) \subseteq Units(f)
  <2>1. ASSUME NEW c \in DOMAIN g, NEW i \in 1 .. g[c]
        PROVE  c \in DOMAIN f /\ i \in 1 .. f[c]
    <3>1. c \in DOMAIN f /\ g[c] \in Nat /\ f[c] \in Nat /\ g[c] <= f[c]
      OBVIOUS
    <3>2. QED
      BY <3>1
  <2>2. QED
    BY <2>1, UnitsMembers
<1>4. QED
  BY <1>2, <1>3, UnitsFinite, FS_Subset

(* One more charge adds no more than itself. *)
LEMMA TotalRises ==
  ASSUME NEW f, IsFiniteSet(DOMAIN f), \A c \in DOMAIN f : f[c] \in Nat,
         NEW x, NEW n \in Nat,
         NEW g, \A c \in DOMAIN g : c # x => c \in DOMAIN f /\ g[c] \in Nat /\ g[c] <= f[c],
         x \in DOMAIN g => g[x] = n
  PROVE  Total(g) \in Nat /\ Total(f) \in Nat /\ Total(g) <= Total(f) + n
<1> DEFINE new == {x} \X (1 .. n)
<1>1. IsFiniteSet(new) /\ Cardinality(new) = n
  BY BlockSize
<1>2. IsFiniteSet(DOMAIN f \cup {x})
  BY FS_Singleton, FS_Union
<1>3. DOMAIN g \subseteq DOMAIN f \cup {x}
  OBVIOUS
<1>4. IsFiniteSet(DOMAIN g) /\ \A c \in DOMAIN g : g[c] \in Nat
  BY <1>2, <1>3, FS_Subset
<1>5. Units(g) \subseteq Units(f) \cup new
  <2>1. ASSUME NEW c \in DOMAIN g, NEW i \in 1 .. g[c]
        PROVE  <<c, i>> \in Units(f) \cup new
    <3>1. CASE c = x
      BY <3>1
    <3>2. CASE c # x
      <4>0. c \in DOMAIN f /\ g[c] \in Nat /\ f[c] \in Nat /\ g[c] <= f[c]
        BY <3>2
      <4>1. c \in DOMAIN f /\ i \in 1 .. f[c]
        BY <4>0
      <4>2. QED
        BY <4>1, UnitsMembers
    <3>3. QED
      BY <3>1, <3>2
  <2>2. QED
    BY <2>1, UnitsMembers
<1>6. /\ IsFiniteSet(Units(f)) /\ Total(f) = Cardinality(Units(f)) /\ Total(f) \in Nat
      /\ Total(g) = Cardinality(Units(g)) /\ Total(g) \in Nat
  BY <1>4, UnitsFinite
<1> HIDE DEF new
<1>7. /\ IsFiniteSet(Units(f) \cup new)
      /\ Cardinality(Units(f) \cup new)
           = Cardinality(Units(f)) + Cardinality(new) - Cardinality(Units(f) \cap new)
  BY <1>1, <1>6, FS_Union
<1>8. Cardinality(Units(f) \cap new) \in Nat
  <2>1. IsFiniteSet(Units(f) \cap new)
    BY <1>6, FS_Subset
  <2>2. QED
    BY <2>1, FS_CardinalityType
<1>9. Cardinality(Units(g)) <= Cardinality(Units(f) \cup new)
  BY <1>5, <1>7, FS_Subset
<1>10. QED
  BY <1>1, <1>6, <1>7, <1>8, <1>9

(* Days do not go back. *)
LEMMA DayGrows ==
  ASSUME NEW at \in Nat
  PROVE  Day(at) <= Day(at + 1)
<1> DEFINE q == at \div DayLength
           p == (at + 1) \div DayLength
<1>0. DayLength \in Nat /\ DayLength > 0
  BY AdmissionAssumption
<1>1. q \in Int /\ q * DayLength <= at
  BY <1>0
<1>2. p \in Int /\ at + 1 < (p + 1) * DayLength
  BY <1>0
<1> HIDE DEF q, p
<1>3. ASSUME q > p PROVE FALSE
  <2>1. q >= p + 1
    BY <1>1, <1>2, <1>3
  <2>2. PICK k \in Nat : q = p + 1 + k
    BY <1>1, <1>2, <2>1
  <2>3. q * DayLength = (p + 1) * DayLength + k * DayLength
    BY <1>0, <1>2, <2>2
  <2>4. k * DayLength \in Nat /\ q * DayLength \in Int /\ (p + 1) * DayLength \in Int
    BY <1>0, <1>1, <1>2
  <2>5. QED
    BY <1>1, <1>2, <2>3, <2>4
<1>4. QED
  BY <1>1, <1>2, <1>3 DEF Day, q, p

LEMMA LeaseFields ==
  ASSUME NEW lease \in Lease
  PROVE  /\ lease.class \in Classes
         /\ lease.day \in Nat /\ lease.expiresAt \in Nat
         /\ \A x \in Resources : lease.asks[x] \in Nat
         /\ \A x \in Resources : x # "workers" => lease.used[x] \in Nat
  BY DEF Lease, Resources

LEMMA ChargeInNat ==
  ASSUME NEW lease \in Lease, NEW x \in Resources, NEW at \in Nat
  PROVE  Charge(lease, x, at) \in Nat
  BY LeaseFields DEF Charge, Larger

(* Time only takes from what a lease counts for. *)
LEMMA ChargeFalls ==
  ASSUME NEW lease \in Lease, NEW x \in Resources, NEW at \in Nat, lease.day <= Day(at)
  PROVE  /\ Charge(lease, x, at + 1) <= Charge(lease, x, at)
         /\ lease.day <= Day(at + 1)
<1>1. isActive(lease, at + 1) => isActive(lease, at)
  BY LeaseFields DEF isActive
<1>2. Day(at) \in Nat /\ Day(at + 1) \in Nat /\ Day(at) <= Day(at + 1)
  BY DayGrows, DayInNat
<1>3. lease.day = Day(at + 1) => lease.day = Day(at)
  BY <1>2, LeaseFields
<1>4. Charge(lease, x, at + 1) <= Charge(lease, x, at)
  <2>1. CASE x = "workers"
    BY <1>1, <2>1, LeaseFields DEF Charge
  <2>2. CASE x # "workers"
    <3> DEFINE ask == lease.asks[x]
               used == lease.used[x]
    <3>1. ask \in Nat /\ used \in Nat
      BY <2>2, LeaseFields
    <3>2. ASSUME NEW t
          PROVE  Charge(lease, x, t) = IF lease.day # Day(t) THEN 0
                                       ELSE IF isActive(lease, t) THEN Larger(ask, used)
                                       ELSE used
      BY <2>2 DEF Charge
    <3> HIDE DEF ask, used
    <3>3. Larger(ask, used) \in Nat /\ used <= Larger(ask, used)
      BY <3>1 DEF Larger
    <3>4. QED
      BY <1>1, <1>3, <3>1, <3>2, <3>3
  <2>3. QED
    BY <2>1, <2>2
<1>5. QED
  BY <1>2, <1>4, LeaseFields

(* A new lease counts for what was asked. *)
LEMMA NewLeaseCharge ==
  ASSUME NEW request, request.class \in Classes, request.asks \in [Resources -> Nat],
         NEW at \in Nat, NEW x \in Resources
  PROVE  /\ Charge(NewLease(request, at), x, at) = request.asks[x]
         /\ NewLease(request, at).class = request.class
         /\ NewLease(request, at).day = Day(at)
<1> DEFINE lease == NewLease(request, at)
<1>1. /\ lease.class = request.class /\ lease.asks = request.asks
      /\ lease.used = [r \in Daily |-> 0] /\ lease.day = Day(at)
      /\ lease.expiresAt = at + LeaseTtl[request.class] /\ lease.finishedAt = Absent
  BY DEF NewLease
<1>2. LeaseTtl[request.class] \in Nat \ {0} /\ request.asks[x] \in Nat
  BY AdmissionAssumption
<1> HIDE DEF lease
<1>3. isActive(lease, at)
  BY <1>1, <1>2 DEF isActive
<1>4. x # "workers" => lease.used[x] = 0
  BY <1>1 DEF Resources
<1>5. Charge(lease, x, at) = request.asks[x]
  BY <1>1, <1>2, <1>3, <1>4 DEF Charge, Larger
<1>6. QED
  BY <1>1, <1>5 DEF lease

(* Every class has a share of a limit, and it is a number. *)
LEMMA ShareInNat ==
  ASSUME NEW x \in Resources, Limits[x] # Unlimited, NEW class \in Classes
  PROVE  effectiveLimit(Limits[x], class) \in Nat
<1>1. Limits[x] \in Nat
  BY QuotaAssumption
<1>2. Headroom[class] \in {0, 1000, 2500}
  BY DEF Headroom, Classes
<1>3. ASSUME NEW n \in Nat, NEW b \in {0, 1000, 2500} PROVE n - (n * b) \div 10000 \in Nat
  OBVIOUS
<1>4. QED
  BY <1>1, <1>2, <1>3 DEF effectiveLimit

(* What a handler that holds a check may rely on: CheckInv, of one handler. *)
Fits(request) == \A x \in Resources : ~Exceeds(x, usage(clock), request)

Checked(h) ==
  /\ h.step = "role" => h.bypassed # "none"
  /\ h.step \in {"put", "reread", "admit"} /\ h.bypassed = "none" /\ ~h.stale
       => Fits(deriveCampaignRequest(Body[h.content.payload]))

(* A handler goes on, its check in hand. *)
Carried(r) ==
  /\ \E h : Checked(h) /\ handler' = [handler EXCEPT ![r] = h]
  /\ UNCHANGED <<clock, ledgerVars>>

(* A campaign is charged for, on a check that passes unless it says so. *)
Charged(r) ==
  /\ handler[r].content \in Contents
  /\ isValid(Body[handler[r].content.payload])
  /\ \E h \in Handler : /\ Created(r, h)
                        /\ h.bypassed = "none" /\ ~h.stale => Fits(Asked(r))

LEMMA CheckInvParts ==
  /\ CheckInv <=> /\ \A c \in Leased(leases) : leases[c].day <= Day(clock)
                  /\ \A r \in Requests : Checked(handler[r])
  BY DEF CheckInv, Checked, Fits, Asked

LEMMA CheckFields ==
  ASSUME NEW h \in Handler, NEW step
  PROVE  /\ [h EXCEPT !.step = step].step = step
         /\ [h EXCEPT !.step = step].content = h.content
         /\ [h EXCEPT !.step = step].bypassed = h.bypassed
         /\ [h EXCEPT !.step = step].stale = h.stale
  BY DEF Handler

(* An answer holds no check. *)
LEMMA AnswerChecked ==
  /\ \A answer, campaign : Checked(Answered(answer, campaign))
  /\ \A h, record : Checked(replayOrReject(h, record))
<1>1. ASSUME NEW answer, NEW campaign
      PROVE  /\ Answered(answer, campaign).step = "done"
             /\ \A content : [Answered(answer, campaign) EXCEPT !.content = content].step = "done"
  BY DEF Answered, idle
<1>2. \A h : h.step = "done" => Checked(h)
  BY DEF Checked
<1>3. ASSUME NEW h, NEW record PROVE Checked(replayOrReject(h, record))
  <2>1. replayOrReject(h, record).step = "done"
    BY <1>1 DEF replayOrReject
  <2>2. QED
    BY <1>2, <2>1
<1>4. QED
  BY <1>1, <1>2, <1>3

LEMMA StoreOrCreateChecks ==
  ASSUME NEW r \in Requests, NEW h \in Handler, StoreOrCreate(r, h),
         h.content = handler[r].content, h.content \in Contents,
         isValid(Body[h.content.payload]),
         h.bypassed = "none" /\ ~h.stale => Fits(Asked(r))
  PROVE  Carried(r) \/ Charged(r)
<1>1. CASE h.content.key = NoKey
  BY <1>1 DEF StoreOrCreate, Charged
<1>2. CASE h.content.key # NoKey
  <2>1. Checked([h EXCEPT !.step = "put"])
    BY CheckFields DEF Checked, Asked
  <2>2. QED
    BY <1>2, <2>1 DEF StoreOrCreate, Carried
<1>3. QED
  BY <1>1, <1>2

LEMMA DecideChecks ==
  ASSUME TypeOK, HandlerInv, NEW r \in Requests, Decide(r)
  PROVE  Carried(r) \/ Charged(r)
<1> DEFINE h == handler[r]
           malformed == ~isValid(Body[h.content.payload]) \/ h.content.override = "unusable"
           verdict == evaluateCampaignAdmission(usage(clock), Asked(r), clock)
           decided == [h EXCEPT !.now = clock,
                                !.bypassed = IF verdict = "ok" THEN "none" ELSE verdict]
<1>1. h \in Handler /\ clock \in 0 .. Horizon /\ h.content \in Contents
  BY DEF TypeOK, HandlerInv, Decide
<1>2. /\ verdict \in {"ok", "window", "quota"}
      /\ verdict = "ok" => Fits(Asked(r))
  BY DEF evaluateCampaignAdmission, checkAdmission, Fits
<1>3. \/ /\ handler' = [handler EXCEPT ![r] = Answered("invalid", Absent)]
         /\ UNCHANGED <<clock, kv, records, wins, restarts, ledgerVars>>
      \/ ~malformed /\ verdict = "ok" /\ StoreOrCreate(r, decided)
      \/ /\ handler' = [handler EXCEPT ![r] =
              Answered(IF verdict = "window" THEN "closed" ELSE "exceeded", Absent)]
         /\ UNCHANGED <<clock, kv, records, wins, restarts, ledgerVars>>
      \/ /\ verdict # "ok" /\ handler' = [handler EXCEPT ![r] = [decided EXCEPT !.step = "role"]]
         /\ UNCHANGED <<clock, kv, records, wins, restarts, ledgerVars>>
  BY DEF Decide
<1> HIDE DEF verdict
<1>4. /\ decided \in Handler /\ decided.content = h.content
      /\ decided.bypassed = IF verdict = "ok" THEN "none" ELSE verdict
  BY <1>1, <1>2 DEF Handler
<1> HIDE DEF decided
<1>5. ASSUME NEW answer, handler' = [handler EXCEPT ![r] = Answered(answer, Absent)],
             UNCHANGED <<clock, kv, records, wins, restarts, ledgerVars>>
      PROVE  Carried(r)
  BY <1>5, AnswerChecked DEF Carried
<1>6. ASSUME ~malformed, verdict = "ok", StoreOrCreate(r, decided)
      PROVE  Carried(r) \/ Charged(r)
  BY <1>1, <1>2, <1>4, <1>6, StoreOrCreateChecks
<1>7. ASSUME verdict # "ok", handler' = [handler EXCEPT ![r] = [decided EXCEPT !.step = "role"]],
             UNCHANGED <<clock, kv, records, wins, restarts, ledgerVars>>
      PROVE  Carried(r)
  <2>1. Checked([decided EXCEPT !.step = "role"])
    BY <1>2, <1>4, <1>7, CheckFields DEF Checked
  <2>2. QED
    BY <1>7, <2>1 DEF Carried
<1>8. QED
  BY <1>3, <1>5, <1>6, <1>7

(* Every step of a handler carries its check or charges on it. *)
LEMMA HandleChecks ==
  ASSUME TypeOK, HandlerInv, CheckInv, NEW r \in Requests,
         Handle(r) \/ \E content \in Contents : Arrive(r, content)
  PROVE  Carried(r) \/ Charged(r)
<1> DEFINE h == handler[r]
<1>1. h \in Handler /\ Checked(h)
  BY CheckInvParts DEF TypeOK
<1>2. CASE Decide(r)
  BY <1>2, DecideChecks
<1>3. CASE CheckRole(r)
  <2>1. /\ h.step = "role" /\ h.bypassed # "none"
        /\ h.content \in Contents /\ isValid(Body[h.content.payload])
    BY <1>1, <1>3 DEF CheckRole, Checked, HandlerInv
  <2>2. CASE StoreOrCreate(r, h)
    BY <1>1, <2>1, <2>2, StoreOrCreateChecks
  <2>3. CASE ~StoreOrCreate(r, h)
    BY <1>3, <2>3, AnswerChecked DEF CheckRole, Carried
  <2>4. QED
    BY <2>2, <2>3
<1>4. ASSUME NEW step \in {"reread", "admit"}, h.step \in {"put", "reread"}
      PROVE  Checked([h EXCEPT !.step = step])
  BY <1>1, <1>4, CheckFields DEF Checked
<1>5. CASE putIfAbsent(r)
  <2>1. h.step = "put"
    BY <1>5 DEF putIfAbsent
  <2>2. \/ handler' = [handler EXCEPT ![r] = [h EXCEPT !.step = "reread"]]
        \/ handler' = [handler EXCEPT ![r] = replayOrReject(h, records[h.content.key])]
        \/ handler' = [handler EXCEPT ![r] = [h EXCEPT !.step = "admit"]]
    BY <1>5 DEF putIfAbsent
  <2>3. UNCHANGED <<clock, ledgerVars>>
    BY <1>5 DEF putIfAbsent
  <2>4. QED
    BY <1>4, <2>1, <2>2, <2>3, AnswerChecked DEF Carried
<1>6. CASE Reread(r)
  <2>1. h.step = "reread"
    BY <1>6 DEF Reread
  <2>2. \/ handler' = [handler EXCEPT ![r] = replayOrReject(h, records[h.content.key])]
        \/ handler' = [handler EXCEPT ![r] = [h EXCEPT !.step = "admit"]]
    BY <1>6 DEF Reread
  <2>3. UNCHANGED <<clock, ledgerVars>>
    BY <1>6 DEF Reread
  <2>4. QED
    BY <1>4, <2>1, <2>2, <2>3, AnswerChecked DEF Carried
<1>7. CASE Admit(r)
  <2>1. /\ h.step = "admit" /\ Created(r, h)
        /\ h.content \in Contents /\ isValid(Body[h.content.payload])
    BY <1>7 DEF Admit, HandlerInv
  <2>2. h.bypassed = "none" /\ ~h.stale => Fits(Asked(r))
    BY <1>1, <2>1 DEF Checked, Asked
  <2>3. QED
    BY <1>1, <2>1, <2>2 DEF Charged
<1>8. ASSUME NEW content \in Contents, Arrive(r, content) PROVE Carried(r)
  <2> DEFINE h0 == [idle EXCEPT !.content = content, !.step = "decide"]
  <2>1. Checked(h0)
    BY DEF Checked, idle
  <2>2. handler' = [handler EXCEPT ![r] =
                      IF content.key # NoKey /\ live(content.key)
                      THEN replayOrReject(h0, records[content.key]) ELSE h0]
        /\ UNCHANGED <<clock, ledgerVars>>
    BY <1>8 DEF Arrive
  <2> HIDE DEF h0
  <2>3. QED
    BY <2>1, <2>2, AnswerChecked DEF Carried
<1>9. QED
  BY <1>2, <1>3, <1>5, <1>6, <1>7, <1>8 DEF Handle

(* A step leaves a campaign its lease, to count for no more than it did. *)
Falls(c) ==
  /\ leases[c] # Absent
  /\ leases'[c].class = leases[c].class
  /\ \A x \in Resources : Charge(leases'[c], x, clock') <= Charge(leases[c], x, clock)

LEMMA LedgerTypes ==
  ASSUME NEW ls \in [Ids -> Lease \cup {Absent}], NEW at \in 0 .. Horizon
  PROVE  /\ at \in Nat /\ IsFiniteSet(Leased(ls))
         /\ \A c \in Leased(ls) :
              /\ c \in Ids /\ ls[c] \in Lease
              /\ \A x \in Resources : Charge(ls[c], x, at) \in Nat
<1>1. at \in Nat
  BY AdmissionAssumption
<1>2. IsFiniteSet(Leased(ls))
  BY AdmissionAssumption, FS_Subset DEF Leased
<1>3. ASSUME NEW c \in Leased(ls) PROVE c \in Ids /\ ls[c] \in Lease
  BY <1>3 DEF Leased
<1>4. QED
  BY <1>1, <1>2, <1>3, ChargeInNat

LEMMA UsageOf ==
  ASSUME NEW x \in Resources
  PROVE  /\ usage(clock)[x] = Total([c \in Leased(leases) |-> Charge(leases[c], x, clock)])
         /\ (usage(clock)[x])'
              = Total([c \in Leased(leases') |-> Charge(leases'[c], x, clock')])
<1>1. x # "storage"
  BY QuotaAssumption DEF Resources
<1>2. QED
  BY <1>1 DEF usage

(* When no lease counts for more, what fitted still fits. *)
LEMMA FitsStays ==
  ASSUME TypeOK, TypeOK', \A c \in Leased(leases') : Falls(c),
         NEW request, request.class \in Classes, request.asks \in [Resources -> Nat],
         Fits(request)
  PROVE  Fits(request)'
<1> DEFINE before(x) == [c \in Leased(leases) |-> Charge(leases[c], x, clock)]
           after(x) == [c \in Leased(leases') |-> Charge(leases'[c], x, clock')]
<1>1. ASSUME NEW x \in Resources
      PROVE  /\ usage(clock)[x] \in Nat /\ (usage(clock)[x])' \in Nat
             /\ (usage(clock)[x])' <= usage(clock)[x]
  <2>1. /\ IsFiniteSet(Leased(leases))
        /\ \A c \in Leased(leases) : Charge(leases[c], x, clock) \in Nat
    BY LedgerTypes DEF TypeOK
  <2>2. \A c \in Leased(leases') : c \in Ids /\ Charge(leases'[c], x, clock') \in Nat
    BY LedgerTypes DEF TypeOK
  <2>3. \A c \in Leased(leases') : /\ c \in Leased(leases)
                                   /\ Charge(leases'[c], x, clock') <= Charge(leases[c], x, clock)
    BY <2>2 DEF Falls, Leased
  <2>4. Total(after(x)) \in Nat /\ Total(after(x)) <= Total(before(x)) /\ Total(before(x)) \in Nat
    <3>1. /\ DOMAIN before(x) = Leased(leases) /\ DOMAIN after(x) = Leased(leases')
          /\ \A c \in DOMAIN before(x) : before(x)[c] \in Nat
          /\ \A c \in DOMAIN after(x) : /\ c \in DOMAIN before(x) /\ after(x)[c] \in Nat
                                        /\ after(x)[c] <= before(x)[c]
      BY <2>1, <2>2, <2>3
    <3> HIDE DEF before, after
    <3>2. QED
      BY <2>1, <3>1, TotalFalls, UnitsFinite
  <2>5. usage(clock)[x] = Total(before(x)) /\ (usage(clock)[x])' = Total(after(x))
    BY UsageOf
  <2>6. QED
    BY <2>4, <2>5
<1>2. ASSUME NEW x \in Resources, Limits[x] # Unlimited
      PROVE  /\ effectiveLimit(Limits[x], request.class) \in Nat
             /\ request.asks[x] \in Nat
  BY <1>2, ShareInNat
<1>3. ASSUME NEW x \in Resources PROVE ~Exceeds(x, usage(clock), request)'
  <2>1. ~Exceeds(x, usage(clock), request)
    BY DEF Fits
  <2>2. QED
    BY <1>1, <1>2, <2>1 DEF Exceeds
<1>4. QED
  BY <1>3 DEF Fits

(* The campaigns that CheckedCharge counts. *)
Counted(ls, out, x, class) ==
  {c \in Leased(ls) \ out :
     effectiveLimit(Limits[x], ls[c].class) <= effectiveLimit(Limits[x], class)}

LEMMA CheckedChargeOf ==
  ASSUME NEW x, NEW class
  PROVE  /\ CheckedCharge(x, class)
              = Total([c \in Counted(leases, unchecked, x, class) |-> Charge(leases[c], x, clock)])
         /\ CheckedCharge(x, class)'
              = Total([c \in Counted(leases', unchecked', x, class) |->
                         Charge(leases'[c], x, clock')])
  BY DEF CheckedCharge, Counted

(* When no counted lease is new or counts for more, the quota is kept.     *)
LEMMA QuotaFalls ==
  ASSUME TypeOK, TypeOK', QuotaKept,
         NEW x \in Resources, NEW class \in Classes, Limits[x] # Unlimited,
         \A c \in Counted(leases', unchecked', x, class) : c \notin unchecked /\ Falls(c)
  PROVE  CheckedCharge(x, class)' <= effectiveLimit(Limits[x], class)
<1> DEFINE f == [c \in Counted(leases, unchecked, x, class) |-> Charge(leases[c], x, clock)]
           g == [c \in Counted(leases', unchecked', x, class) |-> Charge(leases'[c], x, clock')]
<1>1. /\ IsFiniteSet(Leased(leases))
      /\ \A c \in Leased(leases) : Charge(leases[c], x, clock) \in Nat
      /\ \A c \in Leased(leases') : c \in Ids /\ Charge(leases'[c], x, clock') \in Nat
  BY LedgerTypes DEF TypeOK
<1>2. ASSUME NEW c \in Counted(leases', unchecked', x, class)
      PROVE  /\ c \in Counted(leases, unchecked, x, class)
             /\ Charge(leases'[c], x, clock') <= Charge(leases[c], x, clock)
  <2>1. c \in Ids /\ c \notin unchecked /\ Falls(c)
    BY <1>1, <1>2 DEF Counted
  <2>2. QED
    BY <1>2, <2>1 DEF Counted, Falls, Leased
<1>3. /\ IsFiniteSet(DOMAIN f) /\ \A c \in DOMAIN f : f[c] \in Nat
  <2>1. DOMAIN f \subseteq Leased(leases)
    BY DEF Counted
  <2>2. IsFiniteSet(DOMAIN f)
    BY <1>1, <2>1, FS_Subset
  <2>3. QED
    BY <1>1, <2>1, <2>2
<1>4. \A c \in DOMAIN g : c \in DOMAIN f /\ g[c] \in Nat /\ g[c] <= f[c]
  BY <1>1, <1>2 DEF Counted
<1>5. CheckedCharge(x, class) = Total(f) /\ CheckedCharge(x, class)' = Total(g)
  BY CheckedChargeOf
<1> HIDE DEF f, g
<1>6. Total(g) \in Nat /\ Total(f) \in Nat /\ Total(g) <= Total(f)
  BY <1>3, <1>4, TotalFalls, UnitsFinite
<1>7. CheckedCharge(x, class) <= effectiveLimit(Limits[x], class)
  BY DEF QuotaKept
<1>8. QED
  BY <1>5, <1>6, <1>7, ShareInNat

(* What a campaign's creation does to the ledger. *)
LEMMA ChargedLedger ==
  ASSUME TypeOK, NEW r \in Requests, Charged(r)
  PROVE  /\ clock' = clock
         /\ campaignId(r) \in Ids
         /\ unchecked \ {campaignId(r)} \subseteq unchecked'
         /\ leases'[campaignId(r)] = NewLease(Asked(r), clock)
         /\ Asked(r).class \in Classes /\ Asked(r).asks \in [Resources -> Nat]
         /\ \A c \in Ids : c # campaignId(r) => leases'[c] \in {leases[c], Absent}
         /\ campaignId(r) \in unchecked' \/ Fits(Asked(r))
         /\ handler' = [Outdated(handler) EXCEPT ![r] =
                          [Answered("created", r) EXCEPT !.content = handler[r].content]]
<1>1. PICK h \in Handler : /\ Created(r, h)
                           /\ h.bypassed = "none" /\ ~h.stale => Fits(Asked(r))
  BY DEF Charged
<1>2. /\ Asked(r).class \in Classes /\ Asked(r).asks \in [Resources -> Nat]
  BY AskedIsCounted DEF Charged, Asked
<1>3. leases' = [Pruned(leases, clock) EXCEPT ![campaignId(r)] = NewLease(Asked(r), clock)]
  BY <1>1 DEF Created
<1>4. /\ unchecked \ {campaignId(r)} \subseteq unchecked'
      /\ campaignId(r) \in unchecked' \/ Fits(Asked(r))
  BY <1>1 DEF Created
<1>5. /\ handler' = [Outdated(handler) EXCEPT ![r] =
                       [Answered("created", r) EXCEPT !.content = handler[r].content]]
      /\ clock' = clock
  BY <1>1 DEF Created
<1>6. campaignId(r) \in Ids
  BY <1>1, CampaignFields DEF Charged
<1>7. /\ leases'[campaignId(r)] = NewLease(Asked(r), clock)
      /\ \A c \in Ids : c # campaignId(r) => leases'[c] \in {leases[c], Absent}
  BY <1>3, <1>6 DEF Pruned
<1>8. QED
  BY <1>2, <1>4, <1>5, <1>6, <1>7

(* A campaign charged on a check that passes takes no more than its share. *)
LEMMA QuotaCharged ==
  ASSUME TypeOK, TypeOK', QuotaKept, NEW r \in Requests, Charged(r)
  PROVE  QuotaKept'
<1> DEFINE asked == Asked(r)
           id == campaignId(r)
<1>1. /\ clock' = clock /\ unchecked \ {id} \subseteq unchecked' /\ id \in Ids
      /\ leases'[id] = NewLease(asked, clock)
      /\ asked.class \in Classes /\ asked.asks \in [Resources -> Nat]
      /\ \A c \in Ids : c # id => leases'[c] \in {leases[c], Absent}
      /\ id \in unchecked' \/ Fits(asked)
  BY ChargedLedger
<1> HIDE DEF asked, id
<1>2. clock \in Nat /\ clock \in 0 .. Horizon /\ leases \in [Ids -> Lease \cup {Absent}]
  BY AdmissionAssumption DEF TypeOK
<1>3. ASSUME NEW c \in Leased(leases'), c # id PROVE c \in Leased(leases) /\ Falls(c)
  <2>1. c \in Ids /\ leases'[c] # Absent
    BY <1>3 DEF Leased
  <2>2. leases'[c] = leases[c]
    BY <1>1, <1>3, <2>1
  <2>3. \A x \in Resources : Charge(leases[c], x, clock) \in Nat
    BY <1>2, <2>1, <2>2, LedgerTypes DEF Leased
  <2>4. QED
    BY <1>1, <2>1, <2>2, <2>3 DEF Falls, Leased
<1>4. ASSUME NEW x \in Resources, NEW class \in Classes, Limits[x] # Unlimited
      PROVE  CheckedCharge(x, class)' <= effectiveLimit(Limits[x], class)
  <2> DEFINE counted == Counted(leases', unchecked', x, class)
  <2>1. CASE id \notin counted
    <3>1. \A c \in counted : c \notin unchecked /\ Falls(c)
      BY <1>1, <1>3, <2>1 DEF Counted
    <3>2. QED
      BY <1>4, <3>1, QuotaFalls
  <2>2. CASE id \in counted
    <3> DEFINE f == [c \in Leased(leases) |-> Charge(leases[c], x, clock)]
               g == [c \in counted |-> Charge(leases'[c], x, clock')]
    <3>1. /\ IsFiniteSet(DOMAIN f) /\ \A c \in DOMAIN f : f[c] \in Nat
      BY <1>2, LedgerTypes
    <3>2. \A c \in DOMAIN g : c # id => c \in DOMAIN f /\ g[c] \in Nat /\ g[c] <= f[c]
      <4>1. \A c \in Leased(leases') : Charge(leases'[c], x, clock') \in Nat
        BY LedgerTypes DEF TypeOK
      <4>2. QED
        BY <1>3, <4>1 DEF Counted, Falls
    <3>3. g[id] = asked.asks[x] /\ leases'[id].class = asked.class /\ asked.asks[x] \in Nat
      BY <1>1, <1>2, <2>2, NewLeaseCharge
    <3>4. usage(clock)[x] = Total(f) /\ CheckedCharge(x, class)' = Total(g)
      BY UsageOf, CheckedChargeOf
    <3>5. /\ effectiveLimit(Limits[x], asked.class) <= effectiveLimit(Limits[x], class)
          /\ Fits(asked)
      BY <1>1, <2>2, <3>3 DEF Counted
    <3>6. /\ effectiveLimit(Limits[x], asked.class) \in Nat
          /\ effectiveLimit(Limits[x], class) \in Nat
      BY <1>1, <1>4, ShareInNat
    <3> HIDE DEF f, g, counted
    <3>7. Total(g) \in Nat /\ Total(f) \in Nat /\ Total(g) <= Total(f) + asked.asks[x]
      BY <3>1, <3>2, <3>3, TotalRises
    <3>8. ~(Total(f) + asked.asks[x] > effectiveLimit(Limits[x], asked.class))
      BY <1>4, <3>4, <3>5 DEF Fits, Exceeds
    <3>9. QED
      BY <3>3, <3>4, <3>5, <3>6, <3>7, <3>8
  <2>3. QED
    BY <2>1, <2>2
<1>5. QED
  BY <1>4 DEF QuotaKept

LEMMA ReportedKeeps ==
  ASSUME NEW lease \in Lease, NEW report, NEW at
  PROVE  /\ Reported(lease, report, at).class = lease.class
         /\ Reported(lease, report, at).day = lease.day
  BY DEF Reported, Lease

(* What a report does to the ledger. *)
LEMMA ReportLedger ==
  ASSUME TypeOK, TypeOK', NEW c \in Ids, NEW report \in Reports, Report(c, report)
  PROVE  /\ clock' = clock
         /\ Leased(leases') = Leased(leases)
         /\ \A q \in Leased(leases') : leases'[q].day = leases[q].day
         /\ \A q \in Leased(leases') : q # c => Falls(q)
         /\ \/ Falls(c) /\ handler' = handler /\ unchecked' = unchecked
            \/ handler' = Outdated(handler) /\ unchecked' = unchecked \cup {c}
<1> DEFINE after == Reported(leases[c], report, clock)
           rises == \E x \in Resources : Charge(after, x, clock) > Charge(leases[c], x, clock)
<1>1. /\ leases \in [Ids -> Lease \cup {Absent}] /\ clock \in 0 .. Horizon
      /\ c \in Leased(leases) /\ leases[c] \in Lease /\ leases[c] # Absent
  BY DEF TypeOK, Report, Leased
<1>2. /\ after \in Lease /\ after # Absent
      /\ after.class = leases[c].class /\ after.day = leases[c].day
  <2>1. after \in Lease
    BY <1>1, ReportedIsLease
  <2>2. QED
    BY <1>1, <2>1, AbsentAssumption, ReportedKeeps
<1>3. /\ leases' = [leases EXCEPT ![c] = after] /\ clock' = clock
      /\ unchecked' = IF rises THEN unchecked \cup {c} ELSE unchecked
      /\ handler' = IF rises THEN Outdated(handler) ELSE handler
  BY DEF Report
<1>4. \A x \in Resources : /\ Charge(after, x, clock) \in Nat
                           /\ Charge(leases[c], x, clock) \in Nat
  <2>1. clock \in Nat
    BY <1>1, AdmissionAssumption
  <2>2. QED
    BY <1>1, <1>2, <2>1, ChargeInNat
<1> HIDE DEF after
<1>5. leases'[c] = after /\ \A q \in Ids : q # c => leases'[q] = leases[q]
  BY <1>1, <1>3
<1>6. Leased(leases') = Leased(leases)
  BY <1>1, <1>2, <1>5 DEF Leased
<1>7. \A q \in Leased(leases') : leases'[q].day = leases[q].day
  BY <1>2, <1>5 DEF Leased
<1>8. ASSUME NEW q \in Leased(leases'), q # c PROVE Falls(q)
  <2>1. q \in Ids /\ leases'[q] = leases[q] /\ leases[q] # Absent
    BY <1>5, <1>6, <1>8 DEF Leased
  <2>2. \A x \in Resources : Charge(leases[q], x, clock) \in Nat
    BY <1>1, <1>6, <1>8, LedgerTypes
  <2>3. QED
    BY <1>3, <2>1, <2>2 DEF Falls
<1>9. CASE rises
  BY <1>3, <1>6, <1>7, <1>8, <1>9
<1>10. CASE ~rises
  <2>1. Falls(c)
    BY <1>1, <1>2, <1>3, <1>4, <1>5, <1>10 DEF Falls
  <2>2. QED
    BY <1>3, <1>6, <1>7, <1>8, <1>10, <2>1
<1>11. QED
  BY <1>9, <1>10

(* A stale check needs nothing. *)
LEMMA OutdatedChecked ==
  ASSUME TypeOK, NEW q \in Requests, Checked(handler[q]), handler'[q] = Outdated(handler)[q]
  PROVE  Checked(handler[q])'
<1>1. handler[q] \in Handler
  BY DEF TypeOK
<1>2. CASE handler[q].step \in {"role", "put", "reread", "admit"}
  <2>1. handler'[q] = [handler[q] EXCEPT !.stale = TRUE]
    BY <1>2 DEF Outdated
  <2>2. /\ handler'[q].step = handler[q].step /\ handler'[q].stale
        /\ handler'[q].bypassed = handler[q].bypassed
    BY <1>1, <2>1 DEF Handler
  <2>3. QED
    BY <2>2 DEF Checked
<1>3. CASE handler[q].step \notin {"role", "put", "reread", "admit"}
  <2>1. handler'[q].step = handler[q].step
    BY <1>3 DEF Outdated
  <2>2. QED
    BY <1>3, <2>1 DEF Checked
<1>4. QED
  BY <1>2, <1>3

(* A check that nothing rose against keeps. *)
LEMMA CheckedStays ==
  ASSUME TypeOK, TypeOK', HandlerInv, NEW q \in Requests, Checked(handler[q]),
         handler'[q] = handler[q], \A c \in Leased(leases') : Falls(c)
  PROVE  Checked(handler[q])'
<1> DEFINE request == deriveCampaignRequest(Body[handler[q].content.payload])
<1>1. CASE handler[q].step \in {"put", "reread", "admit"}
  <2>1. request.class \in Classes /\ request.asks \in [Resources -> Nat]
    BY <1>1, AskedIsCounted DEF HandlerInv
  <2>2. Fits(request) => Fits(deriveCampaignRequest(Body[handler[q].content.payload]))'
    <3>1. PICK body : body = Body[handler[q].content.payload]
      OBVIOUS
    <3>2. Fits(deriveCampaignRequest(body)) => Fits(deriveCampaignRequest(body))'
      BY <2>1, <3>1, FitsStays
    <3>3. QED
      BY <3>1, <3>2
  <2>3. QED
    BY <1>1, <2>2 DEF Checked
<1>2. CASE handler[q].step \notin {"put", "reread", "admit"}
  BY <1>2 DEF Checked
<1>3. QED
  BY <1>1, <1>2

LEMMA CheckStep ==
  ASSUME TypeOK, HandlerInv, CheckInv, QuotaKept, TypeOK', [Next]_vars
  PROVE  CheckInv' /\ QuotaKept'
<1>1. /\ \A c \in Leased(leases) : leases[c].day <= Day(clock)
      /\ \A q \in Requests : Checked(handler[q])
  BY CheckInvParts
<1>2. ASSUME \A c \in Leased(leases') : leases'[c].day <= Day(clock'),
             \A q \in Requests : Checked(handler[q])'
      PROVE  CheckInv'
  BY <1>2 DEF CheckInv, Checked, Fits, Asked
<1>3. ASSUME \A c \in Leased(leases') \ unchecked' : c \notin unchecked /\ Falls(c)
      PROVE  QuotaKept'
  <2>1. ASSUME NEW x \in Resources, NEW class \in Classes, Limits[x] # Unlimited
        PROVE  CheckedCharge(x, class)' <= effectiveLimit(Limits[x], class)
    <3>1. \A c \in Counted(leases', unchecked', x, class) : c \notin unchecked /\ Falls(c)
      BY <1>3 DEF Counted
    <3>2. QED
      BY <2>1, <3>1, QuotaFalls
  <2>2. QED
    BY <2>1 DEF QuotaKept
<1>4. /\ clock \in Nat /\ clock \in 0 .. Horizon /\ handler \in [Requests -> Handler]
      /\ leases \in [Ids -> Lease \cup {Absent}]
  BY AdmissionAssumption DEF TypeOK
<1>5. ASSUME leases' = leases, clock' = clock
      PROVE  /\ \A c \in Leased(leases') : Falls(c)
             /\ \A c \in Leased(leases') : leases'[c].day <= Day(clock')
  <2>1. \A c \in Leased(leases) : \A x \in Resources : Charge(leases[c], x, clock) \in Nat
    BY <1>4, LedgerTypes
  <2>2. QED
    BY <1>1, <1>5, <2>1 DEF Falls, Leased
<1>6. ASSUME NEW r \in Requests, Carried(r) PROVE CheckInv' /\ QuotaKept'
  <2>1. PICK h : Checked(h) /\ handler' = [handler EXCEPT ![r] = h]
    BY <1>6 DEF Carried
  <2>2. leases' = leases /\ clock' = clock /\ unchecked' = unchecked /\ storage' = storage
    BY <1>6 DEF Carried, ledgerVars
  <2>3. QuotaKept'
    BY <1>3, <1>5, <2>2
  <2>4. ASSUME NEW q \in Requests PROVE Checked(handler[q])'
    <3>1. CASE q = r
      <4>1. handler'[q] = h
        BY <1>4, <2>1, <3>1
      <4>2. Checked(h)'
        BY <2>1, <2>2 DEF Checked, Fits, usage, Exceeds
      <4>3. QED
        BY <4>1, <4>2 DEF Checked
    <3>2. CASE q # r
      <4>1. handler'[q] = handler[q]
        BY <1>4, <2>1, <3>2
      <4>2. QED
        BY <1>1, <1>5, <2>2, <4>1, CheckedStays
    <3>3. QED
      BY <3>1, <3>2
  <2>5. QED
    BY <1>2, <1>5, <2>2, <2>3, <2>4
<1>7. ASSUME NEW r \in Requests, Charged(r) PROVE CheckInv' /\ QuotaKept'
  <2>1. QuotaKept'
    BY <1>7, QuotaCharged
  <2>2. /\ clock' = clock /\ leases'[campaignId(r)] = NewLease(Asked(r), clock)
        /\ Asked(r).class \in Classes /\ Asked(r).asks \in [Resources -> Nat]
        /\ \A c \in Ids : c # campaignId(r) => leases'[c] \in {leases[c], Absent}
        /\ handler' = [Outdated(handler) EXCEPT ![r] =
                         [Answered("created", r) EXCEPT !.content = handler[r].content]]
    BY <1>7, ChargedLedger
  <2>3. leases'[campaignId(r)].day = Day(clock) /\ Day(clock) \in Nat
    BY <1>4, <2>2, DayInNat DEF NewLease
  <2>4. ASSUME NEW c \in Leased(leases') PROVE leases'[c].day <= Day(clock')
    <3>1. CASE c = campaignId(r)
      BY <2>2, <2>3, <3>1
    <3>2. CASE c # campaignId(r)
      BY <1>1, <2>2, <2>4, <3>2 DEF Leased
    <3>3. QED
      BY <3>1, <3>2
  <2>5. ASSUME NEW q \in Requests PROVE Checked(handler[q])'
    <3>0. DOMAIN Outdated(handler) = Requests
      BY DEF Outdated
    <3>1. CASE q = r
      <4>1. handler'[q] = [Answered("created", r) EXCEPT !.content = handler[r].content]
        BY <2>2, <3>0, <3>1
      <4>2. handler'[q].step = "done"
        BY <4>1 DEF Answered, idle
      <4>3. QED
        BY <4>2 DEF Checked
    <3>2. CASE q # r
      <4>1. handler'[q] = Outdated(handler)[q]
        BY <2>2, <3>0, <3>2
      <4>2. QED
        BY <1>1, <4>1, OutdatedChecked
    <3>3. QED
      BY <3>1, <3>2
  <2>6. QED
    BY <1>2, <2>1, <2>4, <2>5
<1>8. ASSUME NEW c \in Ids, NEW report \in Reports, Report(c, report)
      PROVE  CheckInv' /\ QuotaKept'
  <2>1. /\ clock' = clock /\ Leased(leases') = Leased(leases)
        /\ \A q \in Leased(leases') : leases'[q].day = leases[q].day
        /\ \A q \in Leased(leases') : q # c => Falls(q)
        /\ \/ Falls(c) /\ handler' = handler /\ unchecked' = unchecked
           \/ handler' = Outdated(handler) /\ unchecked' = unchecked \cup {c}
    BY <1>8, ReportLedger
  <2>2. \A q \in Leased(leases') : leases'[q].day <= Day(clock')
    BY <1>1, <2>1
  <2>3. QuotaKept'
    BY <1>3, <2>1
  <2>4. ASSUME NEW q \in Requests PROVE Checked(handler[q])'
    <3>1. CASE Falls(c) /\ handler' = handler
      BY <1>1, <2>1, <3>1, CheckedStays
    <3>2. CASE handler' = Outdated(handler)
      BY <1>1, <3>2, OutdatedChecked
    <3>3. QED
      BY <2>1, <3>1, <3>2
  <2>5. QED
    BY <1>2, <2>2, <2>3, <2>4
<1>9. CASE Tick
  <2>1. clock' = clock + 1 /\ leases' = leases /\ handler' = handler /\ unchecked' = unchecked
    BY <1>9 DEF Tick, ledgerVars
  <2>2. ASSUME NEW c \in Leased(leases) PROVE Falls(c) /\ leases'[c].day <= Day(clock')
    <3>1. leases[c] \in Lease /\ leases[c].day <= Day(clock) /\ leases[c] # Absent
      BY <1>1, <1>4, <2>2 DEF Leased
    <3>2. \A x \in Resources : /\ Charge(leases[c], x, clock + 1) <= Charge(leases[c], x, clock)
                               /\ leases[c].day <= Day(clock + 1)
      BY <1>4, <3>1, ChargeFalls
    <3>3. "workers" \in Resources
      BY DEF Resources
    <3>4. QED
      BY <2>1, <3>1, <3>2, <3>3 DEF Falls
  <2>3. QED
    BY <1>1, <1>2, <1>3, <2>1, <2>2, CheckedStays
<1>10. CASE Restart
  <2>1. /\ Leased(leases') = {}
        /\ handler' = [r \in Requests |->
                         IF handler[r].step \in {"idle", "done"} THEN handler[r]
                         ELSE Answered("lost", Absent)]
    BY <1>10 DEF Restart, Leased
  <2>2. Answered("lost", Absent).step = "done"
    BY DEF Answered, idle
  <2>3. \A q \in Requests : handler'[q].step \in {"idle", "done"}
    BY <2>1, <2>2
  <2>4. \A q \in Requests : Checked(handler[q])'
    BY <2>3 DEF Checked
  <2>5. QED
    BY <1>2, <1>3, <2>1, <2>4
<1>11. CASE UNCHANGED vars
  <2>1. leases' = leases /\ clock' = clock /\ unchecked' = unchecked /\ handler' = handler
    BY <1>11 DEF vars
  <2>2. QED
    BY <1>1, <1>2, <1>3, <1>5, <2>1, CheckedStays
<1>12. QED
  BY <1>6, <1>7, <1>8, <1>9, <1>10, <1>11, HandleChecks DEF Next, Done

(* A check that passed still passes when its campaign is charged, unless   *)
(* the usage rose in between and the model marked it stale: the await of   *)
(* the idempotency store in route.ts loses no check by itself.             *)
THEOREM ChecksKeep == Spec => [](CheckInv /\ QuotaKept)
<1>1. Init => CheckInv /\ QuotaKept
  <2> SUFFICES ASSUME Init PROVE CheckInv /\ QuotaKept
    OBVIOUS
  <2>1. Leased(leases) = {}
    BY DEF Init, Leased
  <2>2. \A q \in Requests : handler[q].step = "idle"
    BY DEF Init, idle
  <2>3. CheckInv
    BY <2>1, <2>2 DEF CheckInv
  <2>4. ASSUME NEW x \in Resources, NEW class \in Classes, Limits[x] # Unlimited
        PROVE  CheckedCharge(x, class) <= effectiveLimit(Limits[x], class)
    <3>1. Counted(leases, unchecked, x, class) = {}
      BY <2>1 DEF Counted
    <3> DEFINE f == [c \in {} |-> Charge(leases[c], x, clock)]
    <3>2. CheckedCharge(x, class) = Total(f)
      BY <3>1, CheckedChargeOf
    <3>3. Total(f) = 0
      <4>1. UNION {{c} \X (1 .. f[c]) : c \in DOMAIN f} = {}
        OBVIOUS
      <4>2. QED
        BY <4>1, FS_EmptySet DEF Total
    <3>4. QED
      BY <2>4, <3>2, <3>3, ShareInNat
  <2>5. QED
    BY <2>3, <2>4 DEF QuotaKept
<1>2. TypeOK /\ HandlerInv /\ CheckInv /\ QuotaKept /\ TypeOK' /\ [Next]_vars
        => CheckInv' /\ QuotaKept'
  BY CheckStep
<1>3. QED
  BY <1>1, <1>2, HandlersKnow, PTL DEF Spec

(* What was admitted on a check that nothing overtook, and charges what    *)
(* was checked, takes together no more of a resource than the share of its *)
(* class (quotas.ts, usage-ledger.ts), for every limit, class, time to     *)
(* live, length of the day and history.  Of campaigns whose check was      *)
(* overtaken it says nothing: two that race can exceed the share.          *)
THEOREM QuotasHold == Spec => []QuotaKept
  BY ChecksKeep, PTL
=============================================================================
