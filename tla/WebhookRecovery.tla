-------------------------- MODULE WebhookRecovery --------------------------
(***************************************************************************)
(* The path of a webhook delivery through its three stores: the delivery   *)
(* worker (lib/webhook-delivery-worker.ts), the retry queue and the        *)
(* dead-letter queue, as lib/webhook-recovery.ts, api/webhooks/_recovery   *)
(* and api/webhooks/retry connect them, over lib/webhook-store.ts.         *)
(*                                                                         *)
(* One event loop executes everything.  A recovery pass runs due retry     *)
(* jobs, then a drain, and then writes what it saw into the delivery       *)
(* history.  Each store is a file of its own that is rewritten in place.   *)
(***************************************************************************)
EXTENDS Integers, FiniteSets

CONSTANTS
  Deliveries, Targets, TargetOf,
  Passes,                                     \* recovery passes that may overlap
  Budgets, PerTargetConcurrency, MaxJobsPerTick, LeaseTime, DeliveryTimeout,
  BackoffBase, BackoffMax,
  Concurrency, PerTarget, MaxEntries, ParkAfterRounds,
  DrainBackoffBase, DrainBackoffMax,
  MaxSchedules, MaxAdds, MaxCrashes,          \* bounds of the queues' modules
  Loads,               \* bound: what one behaviour may be made of (see load)
  NoJob, NoEntry

VARIABLES
  queue,     \* the worker's stored queue, which its list in memory repeats
  inHand,    \* the delivery the worker removed from it and is sending
  active,    \* the worker is started
  offered,   \* deliveries ever enqueued; bound: each one once
  jobs, attempts, schedules,                  \* the retry queue
  entries, drains, replays, accepted, adds, evicted,   \* the dead-letter queue
  pass,      \* per recovery pass: its phase, its outcomes, its first listing
  history,   \* what the dashboard shows, in memory
  posted,    \* deliveries a receiver accepted from the worker or a retry
  crashes,   \* counts process deaths, up to MaxCrashes
  load       \* bound: deliveries, passes, scheduled jobs and deaths of a behaviour

workerVars == <<queue, inHand, active, offered, load>>
retryVars == <<jobs, attempts, schedules>>
dlqVars == <<entries, drains, replays, accepted, adds, evicted>>
vars == <<workerVars, retryVars, dlqVars, pass, history, posted, crashes>>

ASSUME RecoveryAssumption ==
  /\ Budgets \subseteq Nat \ {0}
  /\ LeaseTime \in Nat \ {0}
  /\ DeliveryTimeout \in Nat
  /\ BackoffMax \in Nat /\ DrainBackoffMax \in Nat
  /\ MaxSchedules \in Nat /\ MaxAdds \in Nat /\ MaxCrashes \in Nat

ASSUME LoadsAssumption ==
  Loads \subseteq [deliveries : SUBSET Deliveries, passes : SUBSET Passes,
                  schedules : 0 .. MaxSchedules, deaths : 0 .. MaxCrashes]

Present == {d \in Deliveries : entries[d] # NoEntry}

Queue == INSTANCE WebhookRetryQueue WITH Ticks <- Passes, deadLetters <- Present

Dlq == INSTANCE WebhookDlq WITH
  Entries <- Deliveries, Hosts <- Targets, HostOf <- TargetOf, Drains <- Passes

(* NoJob and NoEntry stand for the absence of a job and of a dead letter. *)
ASSUME AbsenceAssumption == NoJob \notin Queue!Job /\ NoEntry \notin Dlq!Entry

----------------------------------------------------------------------------

Outcomes == {"none", "delivered", "retry-scheduled", "dead-lettered"}

NoOutcomes == [d \in Deliveries |-> "none"]

IdlePass == [phase |-> "idle", before |-> {}, outcomes |-> NoOutcomes]

FixtureHistory == [d \in Deliveries |-> "failed"]

TypeOK ==
  /\ Queue!TypeOK
  /\ Dlq!TypeOK
  /\ queue \subseteq Deliveries
  /\ inHand \subseteq Deliveries
  /\ active \in BOOLEAN
  /\ offered \subseteq Deliveries
  /\ pass \in [Passes -> [phase    : {"idle", "retrying", "draining"},
                          before   : SUBSET Deliveries,
                          outcomes : [Deliveries -> Outcomes]]]
  /\ history \in [Deliveries -> {"failed", "queued", "delivered", "parked"}]
  /\ posted \subseteq Deliveries
  /\ load \in Loads

Init ==
  /\ Dlq!Init
  /\ Queue!Init
  /\ queue = {} /\ inHand = {} /\ active = FALSE /\ offered = {}
  /\ pass = [p \in Passes |-> IdlePass]
  /\ history = FixtureHistory
  /\ posted = {}
  /\ load \in Loads

(* The promises a pass waits for have settled: it goes on at once. *)
RetriesSettled(p) ==
  pass[p].phase = "retrying" /\ \A a \in attempts : a.tick # p

EventLoopFree == Dlq!EventLoopFree /\ \A p \in Passes : ~RetriesSettled(p)

----------------------------------------------------------------------------
(* The delivery worker. *)

Enqueue(d) ==
  /\ EventLoopFree
  /\ d \in load.deliveries \ offered
  /\ offered' = offered \cup {d}
  /\ queue' = queue \cup {d}
  /\ UNCHANGED <<inHand, active, load, retryVars, dlqVars, pass, history,
                 posted, crashes>>

(* start() reads the stored queue again; stop() lets the delivery in hand  *)
(* finish.                                                                 *)
SetActive(on) ==
  /\ EventLoopFree
  /\ active # on
  /\ active' = on
  /\ UNCHANGED <<queue, inHand, offered, load, retryVars, dlqVars, pass, history,
                 posted, crashes>>

(* One turn of processQueue; drain() is single-flight. *)
TakeNext(d) ==
  /\ EventLoopFree
  /\ active /\ inHand = {} /\ d \in queue
  /\ queue' = queue \ {d}
  /\ inHand' = {d}
  /\ UNCHANGED <<active, offered, load, retryVars, dlqVars, pass, history, posted,
                 crashes>>

(* deliverWithRetries after its only request, as a retry queue is there to *)
(* take over.  A failed request may have arrived all the same.             *)
WorkerDelivered(d) ==
  /\ EventLoopFree
  /\ d \in inHand
  /\ inHand' = {}
  /\ posted' = posted \cup {d}
  /\ UNCHANGED <<queue, active, offered, load, retryVars, dlqVars, pass, history,
                 crashes>>

WorkerFailed(d, retryable, arrived) ==
  /\ EventLoopFree
  /\ d \in inHand
  /\ inHand' = {}
  /\ posted' = IF arrived THEN posted \cup {d} ELSE posted
  /\ \E maxAttempts \in Budgets :
       IF retryable /\ maxAttempts > 1
         THEN /\ schedules < load.schedules
              /\ UNCHANGED <<dlqVars, crashes>>
              /\ Queue!Schedule(d, 1, maxAttempts, FALSE)
         ELSE /\ Dlq!Add(d, IF maxAttempts = 1 THEN "retries-exhausted"
                            ELSE "non-retryable")
              /\ UNCHANGED retryVars
  /\ UNCHANGED <<queue, active, offered, load, pass, history>>

----------------------------------------------------------------------------
(* A recovery pass. *)

NothingClaimable ==
  \A d \in Deliveries : Queue!isDue(d) => Queue!Saturated({}, TargetOf[d])

(* runRetryTick up to the deliveries it starts.  *)
BeginPass(p) ==
  /\ EventLoopFree
  /\ p \in load.passes /\ pass[p].phase = "idle"
  /\ pass' = [pass EXCEPT ![p].phase = "retrying"]
  /\ UNCHANGED <<workerVars, dlqVars, history, posted>>
  /\ Queue!RunTick(p)

(* A pass that claims no job is at its drain at once; if nothing is due    *)
(* there either, it changes nothing.                                       *)
BeginPassAtDrain(p) ==
  /\ EventLoopFree
  /\ p \in load.passes /\ pass[p].phase = "idle"
  /\ NothingClaimable
  /\ pass' = [pass EXCEPT ![p].phase = "draining", ![p].before = Present]
  /\ Dlq!StartDrain(p)
  /\ UNCHANGED <<workerVars, retryVars, history, posted>>

Note(a, outcome) == pass' = [pass EXCEPT ![a.tick].outcomes[a.id] = outcome]

RetryDelivered(a) ==
  /\ EventLoopFree
  /\ posted' = posted \cup {a.id}
  /\ Note(a, "delivered")
  /\ UNCHANGED <<workerVars, dlqVars, history>>
  /\ Queue!AttemptDelivered(a)

RetryRescheduled(a, arrived) ==
  /\ EventLoopFree
  /\ posted' = IF arrived THEN posted \cup {a.id} ELSE posted
  /\ Note(a, "retry-scheduled")
  /\ UNCHANGED <<workerVars, dlqVars, history>>
  /\ Queue!AttemptRetryScheduled(a)

RetryDeadLettered(a, retryable, arrived) ==
  /\ posted' = IF arrived THEN posted \cup {a.id} ELSE posted
  /\ Note(a, "dead-lettered")
  /\ Dlq!Add(a.id, IF retryable THEN "retries-exhausted" ELSE "non-retryable")
  /\ Queue!AttemptDeadLettered(a, retryable)
  /\ EventLoopFree
  /\ UNCHANGED <<workerVars, history>>

(* Mutant: what was parked counts as drained. *)
ReportedLoosely(p, drained, parked) ==
  [d \in Deliveries |-> IF d \in drained \cup parked THEN "delivered" ELSE history[d]]

(* applyRecoveryResult: an outcome of the pass's own retries goes before   *)
(* what its drain did to the same delivery.                                *)
Reported(p, drained, parked) ==
  [d \in Deliveries |->
     CASE pass[p].outcomes[d] = "delivered"       -> "delivered"
       [] pass[p].outcomes[d] = "retry-scheduled" -> "queued"
       [] pass[p].outcomes[d] = "dead-lettered"   -> "failed"
       [] OTHER -> IF d \in drained THEN "delivered"
                   ELSE IF d \in parked THEN "parked" ELSE history[d]]

EnterDrain(p) ==
  /\ RetriesSettled(p)
  /\ pass' = [pass EXCEPT ![p].phase = "draining", ![p].before = Present]
  /\ Dlq!StartDrain(p)
  /\ UNCHANGED <<workerVars, retryVars, history, posted>>

(* With nothing due the drain returns without an await. *)
EndPassEarly(p) ==
  /\ RetriesSettled(p)
  /\ \A d \in Deliveries : ~Dlq!isDue(d)
  /\ history' = Reported(p, {}, {})
  /\ pass' = [pass EXCEPT ![p] = IdlePass]
  /\ UNCHANGED <<workerVars, retryVars, dlqVars, posted, crashes>>

NextSlice(p) ==
  /\ Dlq!NextSlice(p)
  /\ UNCHANGED <<workerVars, retryVars, pass, history, posted>>

(* Mutant: the pass is never over. *)
EndPassStuck(p) ==
  /\ Dlq!FinishDrain(p)
  /\ UNCHANGED <<workerVars, retryVars, pass, history, posted>>

(* The drained ids are those of the first listing that the second lacks,   *)
(* whoever removed them meanwhile.                                         *)
EndPass(p) ==
  /\ Dlq!FinishDrain(p)
  /\ LET parked == {d \in drains[p].failed \cap Present : Dlq!RoundsSpent(entries[d])}
     IN  history' = Reported(p, pass[p].before \ Present', parked \cap pass[p].before)
  /\ pass' = [pass EXCEPT ![p] = IdlePass]
  /\ UNCHANGED <<workerVars, retryVars, posted>>

ReplaySettles(r) ==
  /\ Dlq!ReplaySettles(r)
  /\ \A p \in Passes : ~RetriesSettled(p)
  /\ UNCHANGED <<workerVars, retryVars, pass, history, posted>>

(* Mutant: the dead letter is evicted and nothing is scheduled. *)
ManualRetryEvictOnly(d, maxAttempts) ==
  /\ Dlq!Evict(d)
  /\ \A p \in Passes : ~RetriesSettled(p)
  /\ history' = [history EXCEPT ![d] = "queued"]
  /\ UNCHANGED <<workerVars, retryVars, pass, posted>>

(* POST /api/webhooks/retry: evict the dead letter, schedule a fresh job. *)
ManualRetry(d, maxAttempts) ==
  /\ EventLoopFree
  /\ IF d \in Present THEN Dlq!Evict(d) ELSE UNCHANGED <<dlqVars, crashes>>
  /\ jobs' = IF Queue!isLeased(d) THEN jobs
             ELSE [jobs EXCEPT ![d] = [attempt |-> 0, maxAttempts |-> maxAttempts,
                     status |-> "pending", wait |-> 0, lease |-> 0]]
  /\ d \in load.deliveries /\ schedules < load.schedules
  /\ schedules' = schedules + 1
  /\ history' = [history EXCEPT ![d] = "queued"]
  /\ UNCHANGED <<workerVars, attempts, pass, posted>>

Elapse ==
  /\ Dlq!Elapse
  /\ Queue!Elapse
  /\ \A p \in Passes : ~RetriesSettled(p)
  /\ UNCHANGED <<workerVars, pass, history, posted>>

----------------------------------------------------------------------------
(* Process deaths.  Everything in memory is gone, the stores are read      *)
(* again, and requests on their way may or may not arrive.                 *)

Die ==
  /\ crashes < load.deaths
  /\ crashes' = crashes + 1
  /\ inHand' = {} /\ active' = FALSE
  /\ attempts' = {}
  /\ drains' = [p \in Passes |-> Dlq!Idle]
  /\ replays' = {}
  /\ \E late \in SUBSET (inHand \cup {a.id : a \in attempts}) : posted' = posted \cup late
  /\ \E late \in SUBSET replays :
       accepted' = accepted \cup {Dlq!deriveReplayKey(r) : r \in late}
  /\ pass' = [p \in Passes |-> IdlePass]
  /\ history' = FixtureHistory
  /\ UNCHANGED <<offered, load, schedules, adds, evicted>>

Crash == Die /\ UNCHANGED <<queue, jobs, entries>>

NoJobs == [d \in Deliveries |-> NoJob]

NoEntries == [d \in Deliveries |-> NoEntry]

(* The calls that rewrite a file: enqueue and the worker's next turn; a    *)
(* hand-over, a manual retry, a claim and the result of an attempt; those  *)
(* that add, replay, drain or evict a dead letter.                         *)
Saving(file) ==
  \/ /\ file = "queue"
     /\ load.deliveries \ offered # {} \/ (active /\ inHand = {} /\ queue # {})
  \/ /\ file = "retries"
     /\ \/ inHand # {} \/ attempts # {}
        \/ schedules < load.schedules
        \/ \E d \in Deliveries : Queue!isDue(d)
  \/ file = "dead letters" /\ (inHand # {} \/ attempts # {} \/ Present # {})

(* ... while a store was being rewritten: writeJson truncates the file in  *)
(* place and readJson takes what it cannot parse for an empty list.        *)
CrashInSave(file) ==
  /\ Saving(file)
  /\ Die
  /\ queue' = IF file = "queue" THEN {} ELSE queue
  /\ jobs' = IF file = "retries" THEN NoJobs ELSE jobs
  /\ entries' = IF file = "dead letters" THEN NoEntries ELSE entries

(* ... after a job was removed, before or while its dead letter was saved. *)
CrashInHandOver(a, torn) ==
  /\ Die
  /\ jobs' = [jobs EXCEPT ![a.id] = NoJob]
  /\ entries' = IF torn THEN NoEntries ELSE entries
  /\ UNCHANGED queue

(* ... after a dead letter was evicted, before or while its job was saved. *)
CrashInManualRetry(d, torn) ==
  /\ d \in Present
  /\ Die
  /\ entries' = [entries EXCEPT ![d] = NoEntry]
  /\ jobs' = IF torn THEN NoJobs ELSE jobs
  /\ UNCHANGED queue

----------------------------------------------------------------------------

AttemptSettles(a) ==
  \/ RetryDelivered(a)
  \/ \E arrived \in BOOLEAN :
       \/ RetryRescheduled(a, arrived)
       \/ \E retryable \in BOOLEAN : RetryDeadLettered(a, retryable, arrived)

WorkerSettles(d) ==
  \/ WorkerDelivered(d)
  \/ \E retryable, arrived \in BOOLEAN : WorkerFailed(d, retryable, arrived)

Resume(p) == EnterDrain(p) \/ EndPassEarly(p) \/ NextSlice(p) \/ EndPass(p)

Next ==
  \/ \E d \in Deliveries :
       \/ Enqueue(d) \/ TakeNext(d) \/ WorkerSettles(d)
       \/ \E maxAttempts \in Budgets : ManualRetry(d, maxAttempts)
       \/ \E torn \in BOOLEAN : CrashInManualRetry(d, torn)
  \/ \E on \in BOOLEAN : SetActive(on)
  \/ \E p \in Passes : BeginPass(p) \/ BeginPassAtDrain(p) \/ Resume(p)
  \/ \E a \in attempts :
       AttemptSettles(a) \/ \E torn \in BOOLEAN : CrashInHandOver(a, torn)
  \/ \E r \in replays : ReplaySettles(r)
  \/ Crash
  \/ \E file \in {"queue", "retries", "dead letters"} : CrashInSave(file)
  \/ Elapse

Spec == Init /\ [][Next]_vars

(* The recovery endpoint keeps being called, requests are answered or      *)
(* aborted, settled promises are resumed, and time passes.                 *)
Fairness ==
  /\ WF_vars(\E p \in Passes : BeginPass(p) \/ BeginPassAtDrain(p))
  /\ WF_vars(\E p \in Passes : Resume(p))
  /\ WF_vars(\E a \in attempts : AttemptSettles(a))
  /\ WF_vars(\E r \in replays : ReplaySettles(r))
  /\ WF_vars(Elapse)

FairSpec == Spec /\ Fairness

----------------------------------------------------------------------------
(* Properties. *)

Queued == {d \in Deliveries : jobs[d] # NoJob}

(* Deliveries that some store or some call still answers for, and those    *)
(* that a receiver has accepted.                                           *)
Held == queue \cup inHand \cup Queued \cup Present

Received == posted \cup {k[1] : k \in accepted}

Contract == INSTANCE DeliveryContract WITH
  queued <- queue, retrying <- Queued, dead <- Present, hand <- inHand,
  received <- Received, deaths <- crashes

(* The pipeline as a whole keeps the contract: whatever the worker, the    *)
(* passes and manual retries do to one delivery at the same time, one that *)
(* was taken over is let go only because a receiver has accepted it ("if   *)
(* the retry fails too, it is dead-lettered afresh", api/webhooks/retry/   *)
(* route.ts 39-40), or in a death, and a death takes no more than what the *)
(* worker had in hand, one delivery between two files, and the one file    *)
(* that was being rewritten (webhook-delivery-worker.ts 330, webhook-      *)
(* retry-queue.ts 352, webhook-store.ts 434-437).                          *)
KeepsContract == Contract!Spec

(* "All mutations are write-through to a JSON file so queued deliveries    *)
(* survive process restarts" (webhook-store.ts 12-14): what was enqueued   *)
(* is held or was received, whatever died in between.  The code does not   *)
(* keep this: each loss that the contract allows a death contradicts it.   *)
SurvivesRestart == offered \subseteq Held \cup Received

(* Why it does: the worker sends one delivery at a time, and whatever a    *)
(* pass is sending is still held by a store or has been received, even     *)
(* when another pass or a manual retry moved it on meanwhile.              *)
InFlightAccounted ==
  /\ \A d, e \in inHand : d = e
  /\ \A a \in attempts : a.id \in Held \cup Received
  /\ \A r \in replays : r.id \in Held \cup Received

(* "Request ids of DLQ entries delivered by this drain" (webhook-          *)
(* recovery.ts 36): the dashboard shows a delivery as delivered only if a  *)
(* receiver accepted it, unless a manual retry took its dead letter away   *)
(* while a drain was running (lines 97-106), which looks the same to it.   *)
DeliveredIsReceived ==
  \A d \in Deliveries : history[d] = "delivered" => d \in Received \cup evicted

(* What that rests on: an outcome "delivered" that a pass has noted was a  *)
(* receiver's answer, and what a pass saw in its first listing is still    *)
(* there, was received, or was taken over by a manual retry.               *)
ListingInv ==
  \A p \in Passes :
    /\ \A d \in Deliveries : pass[p].outcomes[d] = "delivered" => d \in posted
    /\ pass[p].before \subseteq Present \cup Received \cup evicted

(* Every job and every dead letter that a drain may replay is eventually   *)
(* delivered, parked, or found not worth a retry, however passes, manual   *)
(* retries and deaths interleave.                                          *)
Recovers ==
  \A d \in Deliveries :
    (d \in Queued \/ Dlq!Drainable(d)) ~> ~(d \in Queued \/ Dlq!Drainable(d))
============================================================================
