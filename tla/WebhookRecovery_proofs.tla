----------------------- MODULE WebhookRecovery_proofs -----------------------
(***************************************************************************)
(* Proofs about the delivery pipeline: for every set of deliveries and     *)
(* overlapping passes, every budget, cap, lease and backoff, it implements *)
(* DeliveryContract, and the dashboard tells the truth about deliveries.   *)
(*                                                                         *)
(* First, what each operation of the two queues does to the sets Queued    *)
(* and Present; then the steps of the pipeline, in these terms.            *)
(***************************************************************************)
EXTENDS WebhookRecovery, TLAPS

Jobs == [Deliveries -> Queue!Job \cup {NoJob}]

DeadLetters == [Deliveries -> Dlq!Entry \cup {NoEntry}]

DrainCalls == [Passes -> Dlq!Drain]

(* The parts of TypeOK that the queues' operations are about. *)
LEMMA QueueTypes ==
  ASSUME TypeOK
  PROVE  /\ jobs \in Jobs
         /\ attempts \subseteq Queue!Attempt
         /\ schedules \in 0 .. MaxSchedules
         /\ crashes \in 0 .. MaxCrashes
         /\ entries \in DeadLetters
         /\ drains \in DrainCalls
         /\ replays \subseteq Dlq!Replay
         /\ accepted \subseteq Deliveries \X Nat
         /\ adds \in [Deliveries -> 0 .. MaxAdds]
         /\ evicted \subseteq Deliveries
  BY DEF TypeOK, Queue!TypeOK, Dlq!TypeOK, Jobs, DeadLetters, DrainCalls

(* A delivery is in Queued or Present exactly if its slot holds a record. *)
LEMMA Slots ==
  /\ \A d \in Deliveries : jobs \in Jobs => (d \in Queued <=> jobs[d] \in Queue!Job)
  /\ \A d \in Deliveries : entries \in DeadLetters => (d \in Present <=> entries[d] \in Dlq!Entry)
  BY AbsenceAssumption DEF Jobs, DeadLetters, Queued, Present
----------------------------------------------------------------------------
(* The retry queue. *)

(* schedule() leaves the delivery with a job. *)
LEMMA ScheduleEffect ==
  ASSUME TypeOK, NEW d \in Deliveries, NEW budget \in Nat,
         Queue!Schedule(d, 1, budget, FALSE)
  PROVE  /\ jobs' \in Jobs
         /\ Queued' = Queued \cup {d}
         /\ attempts' = attempts
         /\ schedules' = schedules + 1
<1>1. PICK wait \in Queue!computeBackoff(1) :
        jobs' = IF Queue!isLeased(d) THEN jobs
                ELSE [jobs EXCEPT ![d] =
                  [attempt |-> 1, maxAttempts |-> IF budget >= 1 + 1 THEN budget ELSE 1 + 1,
                   status |-> "pending", wait |-> wait, lease |-> 0]]
  BY DEF Queue!Schedule
<1>2. wait \in 0 .. BackoffMax /\ 0 \in 0 .. LeaseTime
  BY RecoveryAssumption DEF Queue!computeBackoff, Queue!computeBackoffMs
<1>3. [attempt |-> 1, maxAttempts |-> IF budget >= 1 + 1 THEN budget ELSE 1 + 1,
       status |-> "pending", wait |-> wait, lease |-> 0] \in Queue!Job
  BY <1>2 DEF Queue!Job
<1>4. jobs \in Jobs
  BY QueueTypes
<1>5. jobs' \in Jobs
  BY <1>1, <1>3, <1>4 DEF Jobs
<1>6. Queued' = Queued \cup {d}
  BY <1>1, <1>3, <1>4, AbsenceAssumption
     DEF Jobs, Queued, Queue!isLeased, Queue!Queued
<1>7. QED
  BY <1>5, <1>6 DEF Queue!Schedule

(* Putting a delivery's first attempt back to the start leaves it a job. *)
LEMMA FreshJob ==
  ASSUME NEW budget \in Nat
  PROVE  [attempt |-> 0, maxAttempts |-> budget, status |-> "pending",
          wait |-> 0, lease |-> 0] \in Queue!Job
  BY RecoveryAssumption DEF Queue!Job

(* A tick claims jobs; it neither adds nor removes one. *)
LEMMA TickEffect ==
  ASSUME TypeOK, NEW p \in Passes, Queue!RunTick(p)
  PROVE  /\ jobs' \in Jobs
         /\ Queued' = Queued
         /\ attempts' \subseteq Queue!Attempt
         /\ \A a \in attempts' : a \in attempts \/ a.id \in Queued
         /\ UNCHANGED <<schedules, crashes>>
<1>1. PICK claims \in SUBSET Deliveries :
        /\ Queue!Claimable(claims)
        /\ jobs' = [d \in Deliveries |->
                      IF d \in claims THEN Queue!Claimed(jobs[d]) ELSE jobs[d]]
        /\ attempts' = attempts \cup
             {[tick |-> p, id |-> d, attempt |-> jobs[d].attempt + 1,
               maxAttempts |-> jobs[d].maxAttempts, age |-> 0] : d \in claims}
  BY DEF Queue!RunTick
<1>2. jobs \in Jobs /\ attempts \subseteq Queue!Attempt
  BY QueueTypes
<1>3. \A d \in claims : d \in Queued
  BY <1>1 DEF Queue!Claimable, Queue!isDue, Queue!Queued, Queued
<1>4. \A d \in claims : jobs[d] \in Queue!Job
  BY <1>2, <1>3, Slots
<1>5. ASSUME NEW job \in Queue!Job
      PROVE  Queue!Claimed(job) \in Queue!Job
  <2>1. job.attempt + 1 \in Nat /\ LeaseTime \in 0 .. LeaseTime
    BY RecoveryAssumption DEF Queue!Job
  <2>2. QED
    BY <2>1 DEF Queue!Claimed, Queue!Job
<1>6. \A d \in claims : jobs'[d] \in Queue!Job
  BY <1>1, <1>4, <1>5
<1>7. jobs' \in Jobs
  BY <1>1, <1>2, <1>4, <1>5 DEF Jobs
<1>8. Queued' = Queued
  BY <1>1, <1>3, <1>6, AbsenceAssumption DEF Queued
<1>9. attempts' \subseteq Queue!Attempt
  BY <1>1, <1>2, <1>4, RecoveryAssumption DEF Queue!Attempt, Queue!Job
<1>10. \A a \in attempts' : a \in attempts \/ a.id \in Queued
  BY <1>1, <1>3
<1>11. QED
  BY <1>7, <1>8, <1>9, <1>10 DEF Queue!RunTick

(* A delivered or a dead-lettered attempt removes the job, if it is there. *)
LEMMA RemoveEffect ==
  ASSUME TypeOK, NEW d \in Deliveries, Queue!Remove(d)
  PROVE  /\ jobs' \in Jobs
         /\ Queued' = Queued \ {d}
<1>1. jobs \in Jobs
  BY QueueTypes
<1>2. QED
  BY <1>1 DEF Queue!Remove, Jobs, Queued

(* A failed attempt that is retried neither adds nor removes a job. *)
LEMMA RescheduleEffect ==
  ASSUME TypeOK, NEW a \in attempts, Queue!AttemptRetryScheduled(a)
  PROVE  /\ jobs' \in Jobs
         /\ Queued' = Queued
<1>1. PICK wait \in Queue!computeBackoff(a.attempt) :
        Queue!Replace(a.id, Queue!Rescheduled(a, wait))
  BY DEF Queue!AttemptRetryScheduled
<1>2. wait \in 0 .. BackoffMax /\ 0 \in 0 .. LeaseTime
  BY RecoveryAssumption DEF Queue!computeBackoff, Queue!computeBackoffMs
<1>3. jobs \in Jobs /\ a \in Queue!Attempt
  BY QueueTypes
<1>4. Queue!Rescheduled(a, wait) \in Queue!Job /\ a.id \in Deliveries
  BY <1>2, <1>3 DEF Queue!Rescheduled, Queue!Job, Queue!Attempt
<1>5. jobs' = [jobs EXCEPT ![a.id] =
                 IF jobs[a.id] # NoJob THEN Queue!Rescheduled(a, wait) ELSE NoJob]
  BY <1>1 DEF Queue!Replace, Queue!Queued
<1>6. QED
  BY <1>3, <1>4, <1>5, AbsenceAssumption DEF Jobs, Queued

(* Time passing neither adds nor removes a job, and every call stays one   *)
(* for the same delivery.                                                  *)
LEMMA QueueElapseEffect ==
  ASSUME TypeOK, Queue!Elapse
  PROVE  /\ jobs' \in Jobs
         /\ Queued' = Queued
         /\ attempts' \subseteq Queue!Attempt
         /\ \A b \in attempts' : \E a \in attempts : b.id = a.id
<1> USE RecoveryAssumption
<1>1. jobs \in Jobs /\ attempts \subseteq Queue!Attempt
  BY QueueTypes
<1>2. ASSUME NEW job \in Queue!Job
      PROVE  [job EXCEPT !.wait = Queue!Less(@), !.lease = Queue!Less(@)] \in Queue!Job
  <2>1. /\ Queue!Less(job.wait) \in 0 .. BackoffMax
        /\ Queue!Less(job.lease) \in 0 .. LeaseTime
    BY DEF Queue!Less, Queue!Job
  <2>2. QED
    BY <2>1 DEF Queue!Job
<1>3. ASSUME NEW d \in Deliveries
      PROVE  IF d \in Queued THEN jobs'[d] \in Queue!Job ELSE jobs'[d] = NoJob
  BY <1>1, <1>2, Slots DEF Queue!Elapse, Queue!Queued, Queued
<1>4. jobs' \in Jobs
  <2>1. jobs' = [d \in Deliveries |-> jobs'[d]]
    BY DEF Queue!Elapse
  <2>2. \A d \in Deliveries : jobs'[d] \in Queue!Job \cup {NoJob}
    BY <1>3
  <2>3. QED
    BY <2>1, <2>2 DEF Jobs
<1>5. Queued' = Queued
  BY <1>3, AbsenceAssumption DEF Queued
<1>6. ASSUME NEW a \in attempts
      PROVE  Queue!Older(a) \in Queue!Attempt /\ Queue!Older(a).id = a.id
  <2>1. a \in Queue!Attempt /\ a.age < DeliveryTimeout
    BY <1>1 DEF Queue!Elapse
  <2>2. a.age + 1 \in 0 .. DeliveryTimeout
    BY <2>1 DEF Queue!Attempt
  <2>3. QED
    BY <2>1, <2>2 DEF Queue!Older, Queue!Attempt
<1>7. QED
  BY <1>4, <1>5, <1>6 DEF Queue!Elapse
----------------------------------------------------------------------------
(* The dead-letter queue. *)

AcceptedIds == {k[1] : k \in accepted}

(* add() leaves the delivery with a dead letter. *)
LEMMA AddEffect ==
  ASSUME TypeOK, NEW d \in Deliveries,
         NEW reason \in {"retries-exhausted", "non-retryable"}, Dlq!Add(d, reason)
  PROVE  /\ entries' \in DeadLetters
         /\ Present' = Present \cup {d}
         /\ adds' \in [Deliveries -> 0 .. MaxAdds]
         /\ UNCHANGED <<drains, replays, accepted, evicted, crashes>>
<1>1. /\ entries \in DeadLetters
      /\ adds \in [Deliveries -> 0 .. MaxAdds]
  BY QueueTypes
<1>2. adds[d] + 1 \in 1 .. MaxAdds /\ 0 \in 0 .. DrainBackoffMax
  BY <1>1, RecoveryAssumption DEF Dlq!Add
<1>3. [reason |-> reason, status |-> "pending", wait |-> 0, replayAttempts |-> 0,
       timeline |-> adds[d] + 1] \in Dlq!Entry
  BY <1>2 DEF Dlq!Entry
<1>4. entries' \in DeadLetters /\ Present' = Present \cup {d}
  BY <1>1, <1>3, AbsenceAssumption DEF Dlq!Add, DeadLetters, Present
<1>5. adds' \in [Deliveries -> 0 .. MaxAdds]
  BY <1>1, <1>2 DEF Dlq!Add
<1>6. QED
  BY <1>4, <1>5 DEF Dlq!Add

(* evict() removes it. *)
LEMMA EvictEffect ==
  ASSUME TypeOK, NEW d \in Deliveries, Dlq!Evict(d)
  PROVE  /\ entries' \in DeadLetters
         /\ Present' = Present \ {d}
         /\ evicted' = evicted \cup {d}
         /\ UNCHANGED <<drains, replays, accepted, adds, crashes>>
<1>1. entries \in DeadLetters
  BY QueueTypes
<1>2. QED
  BY <1>1 DEF Dlq!Evict, DeadLetters, Present

(* A slice starts replays of dead letters that are there. *)
LEMMA SliceEffect ==
  ASSUME TypeOK, NEW p \in Passes, NEW todo \in SUBSET Deliveries,
         NEW failed \in SUBSET Deliveries, Dlq!BeginSlice(p, todo, failed)
  PROVE  /\ drains' \in DrainCalls
         /\ replays' \subseteq Dlq!Replay
         /\ \A r \in replays' : r \in replays \/ r.id \in Present
<1>1. PICK slice \in SUBSET todo :
        /\ replays' = replays \cup Dlq!replay(p, slice)
        /\ drains' = [drains EXCEPT ![p] =
             [active |-> TRUE, todo |-> todo \ slice, failed |-> failed]]
  BY DEF Dlq!BeginSlice, Dlq!Slices
<1>2. entries \in DeadLetters /\ replays \subseteq Dlq!Replay /\ drains \in DrainCalls
  BY QueueTypes
<1>3. [active |-> TRUE, todo |-> todo \ slice, failed |-> failed] \in Dlq!Drain
  BY DEF Dlq!Drain
<1>4. drains' \in DrainCalls
  BY <1>1, <1>2, <1>3 DEF DrainCalls
<1>5. ASSUME NEW r \in Dlq!replay(p, slice)
      PROVE  r \in Dlq!Replay /\ r.id \in Present
  <2>1. PICK d \in slice : /\ entries[d] # NoEntry
                           /\ r = [drain |-> p, id |-> d, entry |-> entries[d]]
    BY DEF Dlq!replay, Dlq!Present
  <2>2. d \in Present /\ entries[d] \in Dlq!Entry
    BY <1>2, <2>1 DEF Present, DeadLetters
  <2>3. QED
    BY <2>1, <2>2 DEF Dlq!Replay
<1>6. QED
  BY <1>1, <1>2, <1>4, <1>5

LEMMA StartEffect ==
  ASSUME TypeOK, NEW p \in Passes, Dlq!StartDrain(p) \/ Dlq!NextSlice(p)
  PROVE  /\ drains' \in DrainCalls
         /\ replays' \subseteq Dlq!Replay
         /\ \A r \in replays' : r \in replays \/ r.id \in Present
         /\ UNCHANGED <<entries, accepted, adds, evicted, crashes>>
<1>1. \E todo, failed \in SUBSET Deliveries : Dlq!BeginSlice(p, todo, failed)
  <2>1. drains[p].todo \in SUBSET Deliveries /\ drains[p].failed \in SUBSET Deliveries
    BY QueueTypes DEF DrainCalls, Dlq!Drain
  <2>2. QED
    BY <2>1 DEF Dlq!StartDrain, Dlq!NextSlice
<1>2. QED
  BY <1>1, SliceEffect DEF Dlq!StartDrain, Dlq!NextSlice

(* The end of a drain parks and pushes out; it removes nothing. *)
LEMMA FinishEffect ==
  ASSUME TypeOK, NEW p \in Passes, Dlq!FinishDrain(p)
  PROVE  /\ entries' \in DeadLetters
         /\ Present' = Present
         /\ drains' \in DrainCalls
         /\ UNCHANGED <<replays, accepted, adds, evicted, crashes>>
<1>1. PICK delay \in [drains[p].failed -> 0 .. DrainBackoffMax] :
        entries' = [d \in Deliveries |->
          IF d \in drains[p].failed /\ Dlq!Present(d)
            THEN IF Dlq!RoundsSpent(entries[d]) THEN Dlq!Park(entries[d])
                 ELSE [entries[d] EXCEPT !.wait = delay[d]]
            ELSE entries[d]]
  BY DEF Dlq!FinishDrain
<1>2. entries \in DeadLetters /\ drains \in DrainCalls
  BY QueueTypes
<1>3. ASSUME NEW e \in Dlq!Entry, NEW wait \in 0 .. DrainBackoffMax
      PROVE  Dlq!Park(e) \in Dlq!Entry /\ [e EXCEPT !.wait = wait] \in Dlq!Entry
  <2>1. 0 \in 0 .. DrainBackoffMax
    BY RecoveryAssumption
  <2>2. QED
    BY <2>1 DEF Dlq!Park, Dlq!Entry
<1>4. ASSUME NEW d \in Deliveries
      PROVE  IF d \in Present THEN entries'[d] \in Dlq!Entry ELSE entries'[d] = NoEntry
  <2>1. CASE d \in Present /\ d \in drains[p].failed
    <3>1. entries[d] \in Dlq!Entry /\ delay[d] \in 0 .. DrainBackoffMax
      BY <1>2, <2>1, Slots
    <3>2. QED
      BY <1>1, <1>3, <2>1, <3>1
  <2>2. CASE d \notin Present \/ d \notin drains[p].failed
    BY <1>1, <1>2, <2>2, Slots DEF Present, Dlq!Present
  <2>3. QED
    BY <2>1, <2>2
<1>5. entries' \in DeadLetters
  <2>1. entries' = [d \in Deliveries |-> entries'[d]]
    BY <1>1
  <2>2. QED
    BY <1>4, <2>1 DEF DeadLetters
<1>6. Present' = Present
  BY <1>4, AbsenceAssumption DEF Present
<1>7. drains' \in DrainCalls
  BY <1>2 DEF Dlq!FinishDrain, DrainCalls, Dlq!Idle, Dlq!Drain
<1>8. QED
  BY <1>5, <1>6, <1>7 DEF Dlq!FinishDrain

(* The key of a replay names the delivery. *)
LEMMA KeyOfReplay ==
  ASSUME TypeOK, NEW r \in replays
  PROVE  /\ r.id \in Deliveries
         /\ r.drain \in Passes
         /\ r.entry \in Dlq!Entry
         /\ Dlq!deriveReplayKey(r) \in Deliveries \X Nat
         /\ Dlq!deriveReplayKey(r)[1] = r.id
<1>1. r \in Dlq!Replay
  BY QueueTypes
<1>2. QED
  BY <1>1 DEF Dlq!Replay, Dlq!Entry, Dlq!deriveReplayKey

(* A delivered replay removes the dead letter and was accepted. *)
LEMMA ReplayDeliveredEffect ==
  ASSUME TypeOK, NEW r \in replays, Dlq!ReplayDelivered(r)
  PROVE  /\ entries' \in DeadLetters
         /\ Present' = Present \ {r.id}
         /\ accepted' \subseteq Deliveries \X Nat
         /\ AcceptedIds' = AcceptedIds \cup {r.id}
         /\ replays' = replays \ {r}
         /\ UNCHANGED <<drains, adds, evicted, crashes>>
<1>1. entries \in DeadLetters /\ accepted \subseteq Deliveries \X Nat
  BY QueueTypes
<1>2. entries' \in DeadLetters /\ Present' = Present \ {r.id}
  BY <1>1, KeyOfReplay DEF Dlq!ReplayDelivered, DeadLetters, Present
<1>3. /\ accepted' \subseteq Deliveries \X Nat
      /\ AcceptedIds' = AcceptedIds \cup {r.id}
  BY <1>1, KeyOfReplay DEF Dlq!ReplayDelivered, AcceptedIds
<1>4. QED
  BY <1>2, <1>3 DEF Dlq!ReplayDelivered

(* A failed one neither adds nor removes a dead letter. *)
LEMMA ReplayFailedEffect ==
  ASSUME TypeOK, NEW r \in replays, NEW got \in BOOLEAN, Dlq!ReplayFailed(r, got)
  PROVE  /\ entries' \in DeadLetters
         /\ Present' = Present
         /\ drains' \in DrainCalls
         /\ accepted' \subseteq Deliveries \X Nat
         /\ AcceptedIds' = IF got THEN AcceptedIds \cup {r.id} ELSE AcceptedIds
         /\ replays' = replays \ {r}
         /\ UNCHANGED <<adds, evicted, crashes>>
<1>1. /\ entries \in DeadLetters
      /\ accepted \subseteq Deliveries \X Nat
      /\ drains \in DrainCalls
  BY QueueTypes
<1>2. [r.entry EXCEPT !.replayAttempts = @ + 1] \in Dlq!Entry
  BY KeyOfReplay DEF Dlq!Entry
<1>3. entries' \in DeadLetters /\ Present' = Present
  BY <1>1, <1>2, KeyOfReplay, AbsenceAssumption
     DEF Dlq!ReplayFailed, Dlq!WriteBack, Dlq!Present, DeadLetters, Present
<1>4. drains' \in DrainCalls
  BY <1>1, KeyOfReplay DEF Dlq!ReplayFailed, DrainCalls, Dlq!Drain
<1>5. /\ accepted' \subseteq Deliveries \X Nat
      /\ AcceptedIds' = IF got THEN AcceptedIds \cup {r.id} ELSE AcceptedIds
  BY <1>1, KeyOfReplay DEF Dlq!ReplayFailed, AcceptedIds
<1>6. QED
  BY <1>3, <1>4, <1>5 DEF Dlq!ReplayFailed

(* Time passing neither adds nor removes a dead letter. *)
LEMMA DlqElapseEffect ==
  ASSUME TypeOK, Dlq!Elapse
  PROVE  /\ entries' \in DeadLetters
         /\ Present' = Present
         /\ UNCHANGED <<drains, replays, accepted, adds, evicted, crashes>>
<1>1. entries \in DeadLetters
  BY QueueTypes
<1>2. ASSUME NEW e \in Dlq!Entry
      PROVE  [e EXCEPT !.wait = Dlq!Less(@)] \in Dlq!Entry
  <2>1. Dlq!Less(e.wait) \in 0 .. DrainBackoffMax
    BY RecoveryAssumption DEF Dlq!Less, Dlq!Entry
  <2>2. QED
    BY <2>1 DEF Dlq!Entry
<1>3. ASSUME NEW d \in Deliveries
      PROVE  IF d \in Present THEN entries'[d] \in Dlq!Entry ELSE entries'[d] = NoEntry
  BY <1>1, <1>2, Slots DEF Dlq!Elapse, Dlq!Present, Present
<1>4. entries' \in DeadLetters
  <2>1. entries' = [d \in Deliveries |-> entries'[d]]
    BY DEF Dlq!Elapse
  <2>2. QED
    BY <1>3, <2>1 DEF DeadLetters
<1>5. Present' = Present
  BY <1>3, AbsenceAssumption DEF Present
<1>6. QED
  BY <1>4, <1>5 DEF Dlq!Elapse
----------------------------------------------------------------------------
(* The pipeline. *)

Death ==
  \/ Crash
  \/ \E a \in attempts, torn \in BOOLEAN : CrashInHandOver(a, torn)
  \/ \E d \in Deliveries, torn \in BOOLEAN : CrashInManualRetry(d, torn)
  \/ \E file \in {"queue", "retries", "dead letters"} : CrashInSave(file)

(* A step of a pass that starts a slice of replays. *)
SliceStep(p) == BeginPassAtDrain(p) \/ EnterDrain(p) \/ NextSlice(p)

(* The steps of Next, with the bound variables typed. *)
LEMMA StepCases ==
  ASSUME [Next]_vars
  PROVE  \/ \E d \in Deliveries : Enqueue(d)
         \/ \E on \in BOOLEAN : SetActive(on)
         \/ \E d \in Deliveries : TakeNext(d)
         \/ \E d \in Deliveries : WorkerDelivered(d)
         \/ \E d \in Deliveries, retryable, arrived \in BOOLEAN :
              WorkerFailed(d, retryable, arrived)
         \/ \E p \in Passes : BeginPass(p)
         \/ \E p \in Passes : SliceStep(p)
         \/ \E p \in Passes : EndPassEarly(p)
         \/ \E p \in Passes : EndPass(p)
         \/ \E a \in attempts : RetryDelivered(a)
         \/ \E a \in attempts, arrived \in BOOLEAN : RetryRescheduled(a, arrived)
         \/ \E a \in attempts, retryable, arrived \in BOOLEAN :
              RetryDeadLettered(a, retryable, arrived)
         \/ \E r \in replays : Dlq!ReplayDelivered(r) /\ ReplaySettles(r)
         \/ \E r \in replays, got \in BOOLEAN :
              Dlq!ReplayFailed(r, got) /\ ReplaySettles(r)
         \/ \E d \in Deliveries, maxAttempts \in Budgets : ManualRetry(d, maxAttempts)
         \/ Death
         \/ Elapse
         \/ UNCHANGED vars
<1>1. ASSUME NEW r \in replays, ReplaySettles(r)
      PROVE  \/ Dlq!ReplayDelivered(r)
             \/ \E got \in BOOLEAN : Dlq!ReplayFailed(r, got)
  BY <1>1 DEF ReplaySettles, Dlq!ReplaySettles
<1>2. ASSUME NEW p \in Passes, Resume(p)
      PROVE  SliceStep(p) \/ EndPassEarly(p) \/ EndPass(p)
  BY <1>2 DEF Resume, SliceStep
<1>3. QED
  BY <1>1, <1>2 DEF Next, WorkerSettles, AttemptSettles, Death, SliceStep

(* Calls that a pass awaits name a pass and a delivery. *)
LEMMA AttemptNames ==
  ASSUME TypeOK, NEW a \in attempts
  PROVE  a.id \in Deliveries /\ a.tick \in Passes
<1>1. a \in Queue!Attempt
  BY QueueTypes
<1>2. QED
  BY <1>1 DEF Queue!Attempt

(* The delivery of a manual retry has a job afterwards and no dead letter. *)
LEMMA ManualRetryEffect ==
  ASSUME TypeOK, NEW d \in Deliveries, NEW maxAttempts \in Budgets,
         ManualRetry(d, maxAttempts)
  PROVE  /\ jobs' \in Jobs
         /\ Queued' = Queued \cup {d}
         /\ entries' \in DeadLetters
         /\ Present' = Present \ {d}
         /\ evicted \subseteq evicted'
         /\ evicted' \subseteq Deliveries
         /\ d \in Present => d \in evicted'
         /\ schedules' \in 0 .. MaxSchedules
         /\ UNCHANGED <<workerVars, attempts, drains, replays, accepted, adds,
                        crashes, pass, posted>>
<1>1. jobs \in Jobs /\ schedules \in 0 .. MaxSchedules /\ evicted \subseteq Deliveries
  BY QueueTypes
<1>2. [attempt |-> 0, maxAttempts |-> maxAttempts, status |-> "pending",
       wait |-> 0, lease |-> 0] \in Queue!Job
  BY FreshJob, RecoveryAssumption
<1>3. jobs' \in Jobs
  BY <1>1, <1>2 DEF ManualRetry, Jobs
<1>4. Queued' = Queued \cup {d}
  BY <1>1, <1>2, AbsenceAssumption
     DEF ManualRetry, Jobs, Queued, Queue!isLeased, Queue!Queued
<1>5. /\ entries' \in DeadLetters
      /\ Present' = Present \ {d}
      /\ evicted \subseteq evicted'
      /\ evicted' \subseteq Deliveries
      /\ d \in Present => d \in evicted'
      /\ UNCHANGED <<drains, replays, accepted, adds, crashes>>
  <2>1. CASE d \in Present
    BY <2>1, <1>1, EvictEffect DEF ManualRetry
  <2>2. CASE d \notin Present
    BY <2>2, QueueTypes DEF ManualRetry, dlqVars, Present
  <2>3. QED
    BY <2>1, <2>2
<1>6. schedules' \in 0 .. MaxSchedules
  BY <1>1, LoadsAssumption, RecoveryAssumption DEF ManualRetry, TypeOK
<1>7. QED
  BY <1>3, <1>4, <1>5, <1>6 DEF ManualRetry

(* What a death leaves of the three files: all of them, but one delivery   *)
(* between two files and one file that was being rewritten.                *)
FilesLeft(moving, torn) ==
  /\ queue' \in Contract!Left(queue, {}, torn = "queue")
  /\ Queued' \in Contract!Left(Queued, moving, torn = "retries")
  /\ Present' \in Contract!Left(Present, moving, torn = "dead letters")

Movings == {{}} \cup {{d} : d \in Deliveries}

Torns == {"none", "queue", "retries", "dead letters"}

(* A death loses what was in memory, and of the files no more than that. *)
LEMMA DeathEffect ==
  ASSUME TypeOK, Death
  PROVE  /\ Die
         /\ jobs' \in Jobs
         /\ Queued' \subseteq Queued
         /\ entries' \in DeadLetters
         /\ Present' \subseteq Present
         /\ queue' \subseteq queue
         /\ \E moving \in Movings, torn \in Torns : FilesLeft(moving, torn)
<1>1. jobs \in Jobs /\ entries \in DeadLetters
  BY QueueTypes
<1>2. /\ \A d \in Deliveries : [jobs EXCEPT ![d] = NoJob] \in Jobs
      /\ \A d \in Deliveries : [entries EXCEPT ![d] = NoEntry] \in DeadLetters
      /\ NoJobs \in Jobs /\ NoEntries \in DeadLetters
  BY <1>1 DEF Jobs, DeadLetters, NoJobs, NoEntries
<1>3. /\ jobs' = jobs => Queued' = Queued
      /\ jobs' = NoJobs => Queued' = {}
      /\ \A d \in Deliveries : jobs' = [jobs EXCEPT ![d] = NoJob] => Queued' = Queued \ {d}
  BY <1>1 DEF Queued, Jobs, NoJobs
<1>4. /\ entries' = entries => Present' = Present
      /\ entries' = NoEntries => Present' = {}
      /\ \A d \in Deliveries :
           entries' = [entries EXCEPT ![d] = NoEntry] => Present' = Present \ {d}
  BY <1>1 DEF Present, DeadLetters, NoEntries
<1>5. ASSUME NEW moving \in Movings, NEW torn \in Torns, FilesLeft(moving, torn)
      PROVE  Queued' \subseteq Queued /\ Present' \subseteq Present /\ queue' \subseteq queue
  BY <1>5 DEF FilesLeft, Contract!Left
<1>6. SUFFICES /\ Die
               /\ jobs' \in Jobs /\ entries' \in DeadLetters
               /\ \E moving \in Movings, torn \in Torns : FilesLeft(moving, torn)
  BY <1>5
<1>7. CASE Crash
  <2>1. FilesLeft({}, "none")
    BY <1>3, <1>4, <1>7 DEF Crash, FilesLeft, Contract!Left
  <2>2. QED
    BY <1>1, <1>7, <2>1 DEF Crash, Movings, Torns
<1>8. ASSUME NEW a \in attempts, NEW torn \in BOOLEAN, CrashInHandOver(a, torn)
      PROVE  /\ Die
             /\ jobs' \in Jobs /\ entries' \in DeadLetters
             /\ \E moving \in Movings, t \in Torns : FilesLeft(moving, t)
  <2>1. a.id \in Deliveries
    BY AttemptNames
  <2>2. Queued' = Queued \ {a.id} /\ Present' \in {Present, IF torn THEN {} ELSE Present}
    BY <1>3, <1>4, <1>8, <2>1 DEF CrashInHandOver
  <2>3. FilesLeft({a.id}, IF torn THEN "dead letters" ELSE "none")
    BY <1>8, <2>2 DEF CrashInHandOver, FilesLeft, Contract!Left
  <2>4. {a.id} \in Movings /\ (IF torn THEN "dead letters" ELSE "none") \in Torns
    BY <2>1 DEF Movings, Torns
  <2>5. QED
    BY <1>1, <1>2, <1>8, <2>1, <2>3, <2>4 DEF CrashInHandOver
<1>9. ASSUME NEW d \in Deliveries, NEW torn \in BOOLEAN, CrashInManualRetry(d, torn)
      PROVE  /\ Die
             /\ jobs' \in Jobs /\ entries' \in DeadLetters
             /\ \E moving \in Movings, t \in Torns : FilesLeft(moving, t)
  <2>1. Present' = Present \ {d} /\ Queued' \in {Queued, IF torn THEN {} ELSE Queued}
    BY <1>3, <1>4, <1>9 DEF CrashInManualRetry
  <2>2. FilesLeft({d}, IF torn THEN "retries" ELSE "none")
    BY <1>9, <2>1 DEF CrashInManualRetry, FilesLeft, Contract!Left
  <2>3. {d} \in Movings /\ (IF torn THEN "retries" ELSE "none") \in Torns
    BY DEF Movings, Torns
  <2>4. QED
    BY <1>1, <1>2, <1>9, <2>2, <2>3 DEF CrashInManualRetry
<1>10. ASSUME NEW file \in {"queue", "retries", "dead letters"}, CrashInSave(file)
       PROVE  /\ Die
              /\ jobs' \in Jobs /\ entries' \in DeadLetters
              /\ \E moving \in Movings, torn \in Torns : FilesLeft(moving, torn)
  <2>1. FilesLeft({}, file)
    BY <1>3, <1>4, <1>10 DEF CrashInSave, FilesLeft, Contract!Left
  <2>2. {} \in Movings /\ file \in Torns
    BY DEF Movings, Torns
  <2>3. QED
    BY <1>1, <1>2, <1>10, <2>1, <2>2 DEF CrashInSave
<1>11. QED
  BY <1>7, <1>8, <1>9, <1>10 DEF Death
----------------------------------------------------------------------------

PassRecords == [phase    : {"idle", "retrying", "draining"},
                before   : SUBSET Deliveries,
                outcomes : [Deliveries -> Outcomes]]

Histories == [Deliveries -> {"failed", "queued", "delivered", "parked"}]

(* TypeOK, part by part: the pipeline's own variables and the queues'. *)
OwnTypes ==
  /\ queue \subseteq Deliveries
  /\ inHand \subseteq Deliveries
  /\ active \in BOOLEAN
  /\ offered \subseteq Deliveries
  /\ pass \in [Passes -> PassRecords]
  /\ history \in Histories
  /\ posted \subseteq Deliveries
  /\ load \in Loads

RetryTypes ==
  /\ jobs \in Jobs
  /\ attempts \subseteq Queue!Attempt
  /\ schedules \in 0 .. MaxSchedules
  /\ crashes \in 0 .. MaxCrashes

DlqTypes ==
  /\ entries \in DeadLetters
  /\ drains \in DrainCalls
  /\ replays \subseteq Dlq!Replay
  /\ accepted \subseteq Deliveries \X Nat
  /\ adds \in [Deliveries -> 0 .. MaxAdds]
  /\ evicted \subseteq Deliveries

LEMMA TypeParts ==
  /\ TypeOK <=> OwnTypes /\ RetryTypes /\ DlqTypes
  /\ OwnTypes' /\ RetryTypes' /\ DlqTypes' => TypeOK'
  BY DEF TypeOK, OwnTypes, RetryTypes, DlqTypes, Queue!TypeOK, Dlq!TypeOK, Jobs,
         DeadLetters, DrainCalls, PassRecords, Histories, Present

(* The records that a pass writes are pass records. *)
LEMMA PassWrites ==
  ASSUME TypeOK, NEW p \in Passes
  PROVE  /\ IdlePass \in PassRecords
         /\ \A d \in Deliveries, outcome \in Outcomes :
              [pass EXCEPT ![p].outcomes[d] = outcome] \in [Passes -> PassRecords]
         /\ [pass EXCEPT ![p].phase = "retrying"] \in [Passes -> PassRecords]
         /\ [pass EXCEPT ![p].phase = "draining", ![p].before = Present]
              \in [Passes -> PassRecords]
         /\ [pass EXCEPT ![p] = IdlePass] \in [Passes -> PassRecords]
         /\ \A drained, parked : Reported(p, drained, parked) \in Histories
<1>1. pass \in [Passes -> PassRecords] /\ history \in Histories
  BY TypeParts DEF OwnTypes
<1>2. IdlePass \in PassRecords
  BY DEF IdlePass, NoOutcomes, Outcomes, PassRecords
<1>3. ASSUME NEW d \in Deliveries, NEW outcome \in Outcomes
      PROVE  [pass EXCEPT ![p].outcomes[d] = outcome] \in [Passes -> PassRecords]
  BY <1>1 DEF PassRecords
<1>4. [pass EXCEPT ![p].phase = "retrying"] \in [Passes -> PassRecords]
  BY <1>1 DEF PassRecords
<1>5. [pass EXCEPT ![p].phase = "draining", ![p].before = Present]
        \in [Passes -> PassRecords]
  BY <1>1 DEF PassRecords, Present
<1>6. ASSUME NEW drained, NEW parked
      PROVE  Reported(p, drained, parked) \in Histories
  BY <1>1 DEF Reported, Histories
<1>7. QED
  BY <1>1, <1>2, <1>3, <1>4, <1>5, <1>6

(* The variables keep their types in every reachable state. *)
THEOREM TypeCorrect == Spec => []TypeOK
<1>1. Init => TypeOK
  <2>1. IdlePass \in PassRecords /\ FixtureHistory \in Histories
    BY DEF IdlePass, NoOutcomes, Outcomes, PassRecords, FixtureHistory, Histories
  <2>2. Dlq!Idle \in Dlq!Drain
    BY DEF Dlq!Idle, Dlq!Drain
  <2>3. Init => OwnTypes
    BY <2>1 DEF Init, OwnTypes
  <2>4. Init => RetryTypes
    BY RecoveryAssumption DEF Init, Queue!Init, RetryTypes, Jobs
  <2>5. Init => DlqTypes
    BY <2>2, RecoveryAssumption DEF Init, Dlq!Init, DlqTypes, DeadLetters, DrainCalls
  <2>6. QED
    BY <2>3, <2>4, <2>5, TypeParts
<1>2. TypeOK /\ [Next]_vars => TypeOK'
  <2> SUFFICES ASSUME TypeOK, [Next]_vars PROVE TypeOK'
    OBVIOUS
  <2>0. OwnTypes /\ RetryTypes /\ DlqTypes
    BY TypeParts
  <2>a. /\ load.deliveries \in SUBSET Deliveries
        /\ load.schedules \in 0 .. MaxSchedules
        /\ load.deaths \in 0 .. MaxCrashes
    BY <2>0, LoadsAssumption DEF OwnTypes
  <2>b. /\ UNCHANGED retryVars /\ crashes' = crashes => RetryTypes'
        /\ UNCHANGED dlqVars => DlqTypes'
        /\ UNCHANGED <<workerVars, pass, history, posted>> => OwnTypes'
    BY <2>0 DEF RetryTypes, DlqTypes, OwnTypes, retryVars, dlqVars, workerVars
  <2>1. ASSUME NEW d \in Deliveries, Enqueue(d) \/ TakeNext(d) \/ WorkerDelivered(d)
        PROVE  TypeOK'
    <3>1. OwnTypes'
      BY <2>0, <2>1 DEF OwnTypes, Enqueue, TakeNext, WorkerDelivered
    <3>2. QED
      BY <2>1, <2>b, <3>1, TypeParts DEF Enqueue, TakeNext, WorkerDelivered
  <2>2. ASSUME NEW on \in BOOLEAN, SetActive(on) PROVE TypeOK'
    <3>1. OwnTypes'
      BY <2>0, <2>2 DEF OwnTypes, SetActive
    <3>2. QED
      BY <2>2, <2>b, <3>1, TypeParts DEF SetActive
  <2>3. ASSUME NEW d \in Deliveries, NEW retryable \in BOOLEAN, NEW arrived \in BOOLEAN,
               WorkerFailed(d, retryable, arrived)
        PROVE  TypeOK'
    <3>1. OwnTypes'
      BY <2>0, <2>3 DEF OwnTypes, WorkerFailed
    <3>2. ASSUME NEW maxAttempts \in Budgets, schedules < load.schedules,
                 UNCHANGED <<dlqVars, crashes>>, Queue!Schedule(d, 1, maxAttempts, FALSE)
          PROVE  TypeOK'
      <4>1. crashes' = crashes /\ DlqTypes'
        BY <2>b, <3>2
      <4>2. /\ jobs' \in Jobs
            /\ attempts' = attempts
            /\ schedules' = schedules + 1
        BY <3>2, ScheduleEffect, RecoveryAssumption
      <4>3. RetryTypes'
        BY <2>0, <2>a, <3>2, <4>1, <4>2, RecoveryAssumption DEF RetryTypes
      <4>4. QED
        BY <3>1, <4>1, <4>3, TypeParts
    <3>3. ASSUME NEW reason \in {"retries-exhausted", "non-retryable"},
                 Dlq!Add(d, reason), UNCHANGED retryVars
          PROVE  TypeOK'
      <4>1. DlqTypes' /\ crashes' = crashes
        BY <2>0, <3>3, AddEffect DEF DlqTypes
      <4>2. QED
        BY <2>b, <3>1, <3>3, <4>1, TypeParts
    <3>4. QED
      BY <2>3, <3>2, <3>3 DEF WorkerFailed
  <2>4. ASSUME NEW p \in Passes, BeginPass(p) PROVE TypeOK'
    <3>1. OwnTypes'
      BY <2>0, <2>4, PassWrites DEF OwnTypes, BeginPass, workerVars
    <3>2. RetryTypes'
      BY <2>0, <2>4, TickEffect DEF RetryTypes, BeginPass
    <3>3. QED
      BY <2>4, <2>b, <3>1, <3>2, TypeParts DEF BeginPass
  <2>5. ASSUME NEW p \in Passes, SliceStep(p) PROVE TypeOK'
    <3>1. OwnTypes'
      BY <2>0, <2>5, PassWrites
         DEF OwnTypes, SliceStep, BeginPassAtDrain, EnterDrain, NextSlice, workerVars
    <3>2. DlqTypes' /\ crashes' = crashes
      BY <2>0, <2>5, StartEffect
         DEF DlqTypes, SliceStep, BeginPassAtDrain, EnterDrain, NextSlice
    <3>3. QED
      BY <2>5, <2>b, <3>1, <3>2, TypeParts
         DEF SliceStep, BeginPassAtDrain, EnterDrain, NextSlice
  <2>6. ASSUME NEW p \in Passes, EndPassEarly(p) PROVE TypeOK'
    <3>1. OwnTypes'
      BY <2>0, <2>6, PassWrites DEF OwnTypes, EndPassEarly, workerVars
    <3>2. QED
      BY <2>6, <2>b, <3>1, TypeParts DEF EndPassEarly
  <2>7. ASSUME NEW p \in Passes, EndPass(p) PROVE TypeOK'
    <3>1. OwnTypes'
      BY <2>0, <2>7, PassWrites DEF OwnTypes, EndPass, workerVars
    <3>2. DlqTypes' /\ crashes' = crashes
      BY <2>0, <2>7, FinishEffect DEF DlqTypes, EndPass
    <3>3. QED
      BY <2>7, <2>b, <3>1, <3>2, TypeParts DEF EndPass
  <2>8. ASSUME NEW a \in attempts, NEW outcome \in Outcomes, Note(a, outcome),
               posted' \subseteq posted \cup {a.id}, UNCHANGED <<workerVars, history>>
        PROVE  OwnTypes'
    <3>1. pass' \in [Passes -> PassRecords] /\ posted' \subseteq Deliveries
      BY <2>0, <2>8, AttemptNames, PassWrites DEF OwnTypes, Note
    <3>2. QED
      BY <2>0, <2>8, <3>1 DEF OwnTypes, workerVars
  <2>9. ASSUME NEW a \in attempts, RetryDelivered(a) PROVE TypeOK'
    <3>1. OwnTypes'
      BY <2>8, <2>9 DEF RetryDelivered, Outcomes
    <3>2. RetryTypes'
      BY <2>0, <2>9, RemoveEffect, AttemptNames
         DEF RetryTypes, RetryDelivered, Queue!AttemptDelivered
    <3>3. QED
      BY <2>9, <2>b, <3>1, <3>2, TypeParts DEF RetryDelivered
  <2>10. ASSUME NEW a \in attempts, NEW arrived \in BOOLEAN, RetryRescheduled(a, arrived)
         PROVE  TypeOK'
    <3>1. OwnTypes'
      BY <2>8, <2>10 DEF RetryRescheduled, Outcomes
    <3>2. RetryTypes'
      BY <2>0, <2>10, RescheduleEffect
         DEF RetryTypes, RetryRescheduled, Queue!AttemptRetryScheduled
    <3>3. QED
      BY <2>10, <2>b, <3>1, <3>2, TypeParts DEF RetryRescheduled
  <2>11. ASSUME NEW a \in attempts, NEW retryable \in BOOLEAN, NEW arrived \in BOOLEAN,
                RetryDeadLettered(a, retryable, arrived)
         PROVE  TypeOK'
    <3>1. OwnTypes'
      BY <2>8, <2>11 DEF RetryDeadLettered, Outcomes
    <3>2. RetryTypes'
      BY <2>0, <2>11, RemoveEffect, AttemptNames
         DEF RetryTypes, RetryDeadLettered, Queue!AttemptDeadLettered
    <3>3. DlqTypes'
      BY <2>0, <2>11, AddEffect, AttemptNames DEF DlqTypes, RetryDeadLettered
    <3>4. QED
      BY <3>1, <3>2, <3>3, TypeParts
  <2>12. ASSUME NEW r \in replays, Dlq!ReplayDelivered(r), ReplaySettles(r) PROVE TypeOK'
    <3>1. DlqTypes' /\ crashes' = crashes
      BY <2>0, <2>12, ReplayDeliveredEffect DEF DlqTypes
    <3>2. QED
      BY <2>12, <2>b, <3>1, TypeParts DEF ReplaySettles
  <2>13. ASSUME NEW r \in replays, NEW got \in BOOLEAN, Dlq!ReplayFailed(r, got),
                ReplaySettles(r)
         PROVE  TypeOK'
    <3>1. DlqTypes' /\ crashes' = crashes
      BY <2>0, <2>13, ReplayFailedEffect DEF DlqTypes
    <3>2. QED
      BY <2>13, <2>b, <3>1, TypeParts DEF ReplaySettles
  <2>14. ASSUME NEW d \in Deliveries, NEW maxAttempts \in Budgets, ManualRetry(d, maxAttempts)
         PROVE  TypeOK'
    <3>1. history' \in Histories
      BY <2>0, <2>14 DEF ManualRetry, OwnTypes, Histories
    <3>2. OwnTypes' /\ RetryTypes' /\ DlqTypes'
      BY <2>0, <2>14, <3>1, ManualRetryEffect DEF OwnTypes, RetryTypes, DlqTypes, workerVars
    <3>3. QED
      BY <3>2, TypeParts
  <2>15. CASE Death
    <3>1. Die /\ jobs' \in Jobs /\ entries' \in DeadLetters /\ queue' \subseteq queue
      BY <2>15, DeathEffect
    <3>2. IdlePass \in PassRecords /\ FixtureHistory \in Histories /\ Dlq!Idle \in Dlq!Drain
      BY DEF IdlePass, NoOutcomes, Outcomes, PassRecords, FixtureHistory, Histories,
             Dlq!Idle, Dlq!Drain
    <3>3. posted' \subseteq Deliveries
      BY <2>0, <3>1, AttemptNames DEF Die, OwnTypes
    <3>4. accepted' \subseteq Deliveries \X Nat
      BY <2>0, <3>1, KeyOfReplay DEF Die, DlqTypes
    <3>5. OwnTypes'
      BY <2>0, <3>1, <3>2, <3>3 DEF Die, OwnTypes
    <3>6. RetryTypes'
      BY <2>0, <2>a, <3>1, RecoveryAssumption DEF Die, RetryTypes
    <3>7. DlqTypes'
      BY <2>0, <3>1, <3>2, <3>4 DEF Die, DlqTypes, DrainCalls
    <3>8. QED
      BY <3>5, <3>6, <3>7, TypeParts
  <2>16. CASE Elapse
    <3>1. RetryTypes' /\ DlqTypes'
      BY <2>0, <2>16, QueueElapseEffect, DlqElapseEffect
         DEF Elapse, RetryTypes, DlqTypes, Queue!Elapse
    <3>2. QED
      BY <2>16, <2>b, <3>1, TypeParts DEF Elapse
  <2>17. CASE UNCHANGED vars
    BY <2>17, <2>b, TypeParts DEF vars
  <2>18. QED
    BY <2>1, <2>2, <2>3, <2>4, <2>5, <2>6, <2>7, <2>9, <2>10, <2>11, <2>12, <2>13,
       <2>14, <2>15, <2>16, <2>17, StepCases
<1>3. QED
  BY <1>1, <1>2, PTL DEF Spec
----------------------------------------------------------------------------
(* The pipeline implements the contract. *)

Accounted == Held \cup Received

(* What is sent stays accounted for as long as nothing is dropped and only *)
(* what is accounted for is sent.                                          *)
LEMMA AccountedKept ==
  ASSUME InFlightAccounted,
         Accounted \subseteq Accounted',
         \A d, e \in inHand' : d = e,
         \A a \in attempts' : a.id \in Accounted,
         \A r \in replays' : r.id \in Accounted
  PROVE  InFlightAccounted'
  BY DEF InFlightAccounted, Accounted

LEMMA HeldIsHeld == Contract!held = Held /\ Contract!held' = Held'
  BY DEF Contract!held, Held

(* The steps of the contract drop nothing that is not received. *)
LEMMA ContractKeeps ==
  ASSUME NEW d \in Deliveries, Contract!Take(d) \/ Contract!Receive(d)
  PROVE  Accounted \subseteq Accounted' /\ Contract!Next
<1>1. Contract!Next
  BY DEF Contract!Next
<1>2. Held \ {d} \subseteq Held'
  BY DEF Contract!Take, Contract!Receive, Contract!Only, Held
<1>3. CASE Contract!Take(d)
  BY <1>1, <1>2, <1>3, HeldIsHeld DEF Contract!Take, Accounted
<1>4. CASE Contract!Receive(d)
  BY <1>1, <1>2, <1>4 DEF Contract!Receive, Accounted
<1>5. QED
  BY <1>3, <1>4

LEMMA ReceivedIds == Received = posted \cup AcceptedIds /\ Received' = posted' \cup AcceptedIds'
  BY DEF Received, AcceptedIds

(* Every step of the pipeline is a step of the contract or changes nothing *)
(* of it, and keeps what is being sent accounted for.                      *)
LEMMA ContractStep ==
  ASSUME TypeOK, InFlightAccounted, [Next]_vars
  PROVE  [Contract!Next]_(Contract!vars) /\ InFlightAccounted'
<1>0. /\ \A d, e \in inHand : d = e
      /\ \A a \in attempts : a.id \in Accounted
      /\ \A r \in replays : r.id \in Accounted
      /\ Queued \subseteq Accounted /\ Present \subseteq Accounted
  BY DEF InFlightAccounted, Accounted, Held
<1>a. /\ jobs' = jobs => Queued' = Queued
      /\ entries' = entries => Present' = Present
      /\ accepted' = accepted => AcceptedIds' = AcceptedIds
  BY DEF Queued, Present, AcceptedIds
<1>b. /\ UNCHANGED retryVars => /\ Queued' = Queued /\ UNCHANGED <<jobs, attempts>>
      /\ UNCHANGED dlqVars => /\ Present' = Present /\ AcceptedIds' = AcceptedIds
                              /\ UNCHANGED <<entries, replays, accepted>>
      /\ UNCHANGED workerVars => UNCHANGED <<queue, inHand>>
  BY <1>a DEF retryVars, dlqVars, workerVars
(* How the contract's variables follow from the pipeline's. *)
<1>c. ASSUME UNCHANGED <<queue, inHand, Queued, Present, Received, crashes>>
      PROVE  [Contract!Next]_(Contract!vars) /\ Accounted \subseteq Accounted'
  BY <1>c DEF Contract!vars, Accounted, Held
<1>1. ASSUME NEW d \in Deliveries, Enqueue(d)
      PROVE  [Contract!Next]_(Contract!vars) /\ InFlightAccounted'
  <2>1. Contract!Only(d) /\ d \in Held' /\ UNCHANGED <<Received, crashes>>
    BY <1>1, <1>b, ReceivedIds DEF Enqueue, Held, Contract!Only
  <2>2. Contract!Take(d)
    BY <2>1, HeldIsHeld DEF Contract!Take
  <2>3. QED
    BY <1>0, <1>1, <1>b, <2>2, ContractKeeps, AccountedKept DEF Enqueue
<1>2. ASSUME NEW on \in BOOLEAN, SetActive(on)
      PROVE  [Contract!Next]_(Contract!vars) /\ InFlightAccounted'
  <2>1. UNCHANGED <<queue, inHand, Queued, Present, Received, crashes>>
    BY <1>2, <1>b, ReceivedIds DEF SetActive
  <2>2. QED
    BY <1>0, <1>2, <1>b, <1>c, <2>1, AccountedKept DEF SetActive
<1>3. ASSUME NEW d \in Deliveries, TakeNext(d)
      PROVE  [Contract!Next]_(Contract!vars) /\ InFlightAccounted'
  <2>1. Contract!Only(d) /\ d \in Held' /\ UNCHANGED <<Received, crashes>>
    BY <1>3, <1>b, ReceivedIds DEF TakeNext, Held, Contract!Only
  <2>2. Contract!Take(d)
    BY <2>1, HeldIsHeld DEF Contract!Take
  <2>3. QED
    BY <1>0, <1>3, <1>b, <2>2, ContractKeeps, AccountedKept DEF TakeNext
<1>4. ASSUME NEW d \in Deliveries, WorkerDelivered(d)
      PROVE  [Contract!Next]_(Contract!vars) /\ InFlightAccounted'
  <2>1. inHand = {d} /\ inHand' = {}
    BY <1>0, <1>4 DEF WorkerDelivered
  <2>2. /\ d \in Held
        /\ Contract!Only(d)
        /\ Received' = Received \cup {d}
        /\ crashes' = crashes
    BY <1>4, <1>b, <2>1, ReceivedIds DEF WorkerDelivered, Held, Contract!Only
  <2>3. Contract!Receive(d)
    BY <2>2, HeldIsHeld DEF Contract!Receive
  <2>4. QED
    BY <1>0, <1>4, <1>b, <2>1, <2>3, ContractKeeps, AccountedKept DEF WorkerDelivered
<1>5. ASSUME NEW d \in Deliveries, NEW retryable \in BOOLEAN, NEW arrived \in BOOLEAN,
             WorkerFailed(d, retryable, arrived)
      PROVE  [Contract!Next]_(Contract!vars) /\ InFlightAccounted'
  <2>1. inHand = {d} /\ inHand' = {}
    BY <1>0, <1>5 DEF WorkerFailed
  <2>2. /\ \/ Queued' = Queued \cup {d} /\ Present' = Present
           \/ Queued' = Queued /\ Present' = Present \cup {d}
        /\ UNCHANGED <<attempts, replays, accepted, crashes>>
    <3>1. ASSUME NEW maxAttempts \in Budgets, UNCHANGED <<dlqVars, crashes>>,
                 Queue!Schedule(d, 1, maxAttempts, FALSE)
          PROVE  /\ Queued' = Queued \cup {d} /\ Present' = Present
                 /\ UNCHANGED <<attempts, replays, accepted, crashes>>
      BY <1>b, <3>1, ScheduleEffect, RecoveryAssumption
    <3>2. ASSUME NEW reason \in {"retries-exhausted", "non-retryable"},
                 Dlq!Add(d, reason), UNCHANGED retryVars
          PROVE  /\ Queued' = Queued /\ Present' = Present \cup {d}
                 /\ UNCHANGED <<attempts, replays, accepted, crashes>>
      BY <1>b, <3>2, AddEffect
    <3>3. QED
      BY <1>5, <3>1, <3>2 DEF WorkerFailed
  <2>3. /\ d \in Held /\ d \in Held'
        /\ Contract!Only(d)
        /\ Received' = IF arrived THEN Received \cup {d} ELSE Received
    BY <1>5, <1>a, <2>1, <2>2, ReceivedIds DEF WorkerFailed, Held, Contract!Only
  <2>4. CASE arrived
    <3>1. Contract!Receive(d)
      BY <2>2, <2>3, <2>4, HeldIsHeld DEF Contract!Receive
    <3>2. QED
      BY <1>0, <2>1, <2>2, <3>1, ContractKeeps, AccountedKept
  <2>5. CASE ~arrived
    <3>1. Contract!Take(d)
      BY <2>2, <2>3, <2>5, HeldIsHeld DEF Contract!Take
    <3>2. QED
      BY <1>0, <2>1, <2>2, <3>1, ContractKeeps, AccountedKept
  <2>6. QED
    BY <2>4, <2>5
<1>6. ASSUME NEW p \in Passes, BeginPass(p)
      PROVE  [Contract!Next]_(Contract!vars) /\ InFlightAccounted'
  <2>1. /\ Queued' = Queued
        /\ \A a \in attempts' : a \in attempts \/ a.id \in Queued
        /\ UNCHANGED <<queue, inHand, replays, accepted, crashes, posted>>
        /\ Present' = Present
    BY <1>6, <1>b, TickEffect DEF BeginPass
  <2>2. UNCHANGED <<queue, inHand, Queued, Present, Received, crashes>>
    BY <1>a, <2>1, ReceivedIds
  <2>3. QED
    BY <1>0, <1>c, <2>1, <2>2, AccountedKept
<1>7. ASSUME NEW p \in Passes, SliceStep(p)
      PROVE  [Contract!Next]_(Contract!vars) /\ InFlightAccounted'
  <2>1. /\ \A r \in replays' : r \in replays \/ r.id \in Present
        /\ UNCHANGED <<entries, accepted, crashes>>
    BY <1>7, StartEffect DEF SliceStep, BeginPassAtDrain, EnterDrain, NextSlice
  <2>2. UNCHANGED <<queue, inHand, jobs, attempts, posted>>
    BY <1>7, <1>b DEF SliceStep, BeginPassAtDrain, EnterDrain, NextSlice
  <2>3. UNCHANGED <<queue, inHand, Queued, Present, Received, crashes>>
    BY <1>a, <2>1, <2>2, ReceivedIds
  <2>4. QED
    BY <1>0, <1>c, <2>1, <2>2, <2>3, AccountedKept
<1>8. ASSUME NEW p \in Passes, EndPassEarly(p)
      PROVE  [Contract!Next]_(Contract!vars) /\ InFlightAccounted'
  <2>1. UNCHANGED <<queue, inHand, Queued, Present, Received, crashes>>
    BY <1>8, <1>b, ReceivedIds DEF EndPassEarly
  <2>2. QED
    BY <1>0, <1>8, <1>b, <1>c, <2>1, AccountedKept DEF EndPassEarly
<1>9. ASSUME NEW p \in Passes, EndPass(p)
      PROVE  [Contract!Next]_(Contract!vars) /\ InFlightAccounted'
  <2>1. /\ Present' = Present
        /\ UNCHANGED <<queue, inHand, jobs, attempts, replays, accepted, crashes, posted>>
    BY <1>9, <1>b, FinishEffect DEF EndPass
  <2>2. UNCHANGED <<queue, inHand, Queued, Present, Received, crashes>>
    BY <1>a, <2>1, ReceivedIds
  <2>3. QED
    BY <1>0, <1>c, <2>1, <2>2, AccountedKept
<1>10. ASSUME NEW a \in attempts, RetryDelivered(a)
       PROVE  [Contract!Next]_(Contract!vars) /\ InFlightAccounted'
  <2>1. /\ a.id \in Deliveries
        /\ Queued' = Queued \ {a.id}
        /\ attempts' \subseteq attempts
        /\ UNCHANGED <<queue, inHand, entries, replays, accepted, crashes>>
        /\ posted' = posted \cup {a.id}
    BY <1>10, <1>b, RemoveEffect, AttemptNames DEF RetryDelivered, Queue!AttemptDelivered
  <2>2. Contract!Only(a.id) /\ Received' = Received \cup {a.id}
    BY <1>a, <2>1, ReceivedIds DEF Contract!Only
  <2>3. Contract!Receive(a.id)
    BY <1>0, <2>1, <2>2, HeldIsHeld DEF Contract!Receive, Accounted
  <2>4. QED
    BY <1>0, <2>1, <2>3, ContractKeeps, AccountedKept
<1>11. ASSUME NEW a \in attempts, NEW arrived \in BOOLEAN, RetryRescheduled(a, arrived)
       PROVE  [Contract!Next]_(Contract!vars) /\ InFlightAccounted'
  <2>1. /\ a.id \in Deliveries
        /\ Queued' = Queued
        /\ attempts' \subseteq attempts
        /\ UNCHANGED <<queue, inHand, entries, replays, accepted, crashes>>
        /\ posted' = IF arrived THEN posted \cup {a.id} ELSE posted
    BY <1>11, <1>b, RescheduleEffect, AttemptNames
       DEF RetryRescheduled, Queue!AttemptRetryScheduled
  <2>2. /\ UNCHANGED <<queue, inHand, Queued, Present, crashes>>
        /\ Received' = IF arrived THEN Received \cup {a.id} ELSE Received
    BY <1>a, <2>1, ReceivedIds
  <2>3. CASE arrived
    <3>1. Contract!Receive(a.id)
      BY <1>0, <2>1, <2>2, <2>3, HeldIsHeld DEF Contract!Receive, Contract!Only, Accounted
    <3>2. QED
      BY <1>0, <2>1, <3>1, ContractKeeps, AccountedKept
  <2>4. CASE ~arrived
    BY <1>0, <1>c, <2>1, <2>2, <2>4, AccountedKept
  <2>5. QED
    BY <2>3, <2>4
<1>12. ASSUME NEW a \in attempts, NEW retryable \in BOOLEAN, NEW arrived \in BOOLEAN,
              RetryDeadLettered(a, retryable, arrived)
       PROVE  [Contract!Next]_(Contract!vars) /\ InFlightAccounted'
  <2>1. /\ a.id \in Deliveries
        /\ Queued' = Queued \ {a.id}
        /\ Present' = Present \cup {a.id}
        /\ attempts' \subseteq attempts
        /\ UNCHANGED <<queue, inHand, replays, accepted, crashes>>
        /\ posted' = IF arrived THEN posted \cup {a.id} ELSE posted
    BY <1>12, <1>b, RemoveEffect, AddEffect, AttemptNames
       DEF RetryDeadLettered, Queue!AttemptDeadLettered
  <2>2. /\ Contract!Only(a.id) /\ a.id \in Held'
        /\ Received' = IF arrived THEN Received \cup {a.id} ELSE Received
    BY <1>a, <2>1, ReceivedIds DEF Held, Contract!Only
  <2>3. CASE arrived /\ a.id \in Held
    <3>1. Contract!Receive(a.id)
      BY <2>1, <2>2, <2>3, HeldIsHeld DEF Contract!Receive
    <3>2. QED
      BY <1>0, <2>1, <3>1, ContractKeeps, AccountedKept
  <2>4. CASE ~arrived \/ a.id \in Received
    <3>1. Contract!Take(a.id)
      BY <2>1, <2>2, <2>4, HeldIsHeld DEF Contract!Take
    <3>2. QED
      BY <1>0, <2>1, <3>1, ContractKeeps, AccountedKept
  <2>5. QED
    BY <1>0, <2>3, <2>4 DEF Accounted
<1>13. ASSUME NEW r \in replays, Dlq!ReplayDelivered(r), ReplaySettles(r)
       PROVE  [Contract!Next]_(Contract!vars) /\ InFlightAccounted'
  <2>1. /\ r.id \in Deliveries
        /\ Present' = Present \ {r.id}
        /\ AcceptedIds' = AcceptedIds \cup {r.id}
        /\ replays' \subseteq replays
        /\ UNCHANGED <<queue, inHand, jobs, attempts, posted, crashes>>
    BY <1>13, <1>b, ReplayDeliveredEffect, KeyOfReplay DEF ReplaySettles
  <2>2. Contract!Only(r.id) /\ Received' = Received \cup {r.id}
    BY <1>a, <2>1, ReceivedIds DEF Contract!Only
  <2>3. Contract!Receive(r.id)
    BY <1>0, <2>1, <2>2, HeldIsHeld DEF Contract!Receive, Accounted
  <2>4. QED
    BY <1>0, <2>1, <2>3, ContractKeeps, AccountedKept
<1>14. ASSUME NEW r \in replays, NEW got \in BOOLEAN, Dlq!ReplayFailed(r, got),
              ReplaySettles(r)
       PROVE  [Contract!Next]_(Contract!vars) /\ InFlightAccounted'
  <2>1. /\ r.id \in Deliveries
        /\ Present' = Present
        /\ AcceptedIds' = IF got THEN AcceptedIds \cup {r.id} ELSE AcceptedIds
        /\ replays' \subseteq replays
        /\ UNCHANGED <<queue, inHand, jobs, attempts, posted, crashes>>
    BY <1>14, <1>b, ReplayFailedEffect, KeyOfReplay DEF ReplaySettles
  <2>2. /\ UNCHANGED <<queue, inHand, Queued, Present, crashes>>
        /\ Received' = IF got THEN Received \cup {r.id} ELSE Received
    BY <1>a, <2>1, ReceivedIds
  <2>3. CASE got
    <3>1. Contract!Receive(r.id)
      BY <1>0, <2>1, <2>2, <2>3, HeldIsHeld DEF Contract!Receive, Contract!Only, Accounted
    <3>2. QED
      BY <1>0, <2>1, <3>1, ContractKeeps, AccountedKept
  <2>4. CASE ~got
    BY <1>0, <1>c, <2>1, <2>2, <2>4, AccountedKept
  <2>5. QED
    BY <2>3, <2>4
<1>15. ASSUME NEW d \in Deliveries, NEW maxAttempts \in Budgets, ManualRetry(d, maxAttempts)
       PROVE  [Contract!Next]_(Contract!vars) /\ InFlightAccounted'
  <2>1. /\ Queued' = Queued \cup {d}
        /\ Present' = Present \ {d}
        /\ UNCHANGED <<queue, inHand, attempts, replays, accepted, crashes, posted>>
    BY <1>15, <1>b, ManualRetryEffect
  <2>2. Contract!Only(d) /\ d \in Held' /\ Received' = Received
    BY <1>a, <2>1, ReceivedIds DEF Held, Contract!Only
  <2>3. Contract!Take(d)
    BY <2>1, <2>2, HeldIsHeld DEF Contract!Take
  <2>4. QED
    BY <1>0, <2>1, <2>3, ContractKeeps, AccountedKept
<1>16. CASE Death
  <2>1. Die /\ \E moving \in Movings, torn \in Torns : FilesLeft(moving, torn)
    BY <1>16, DeathEffect
  <2>2. inHand' = {} /\ attempts' = {} /\ replays' = {} /\ crashes' = crashes + 1
    BY <2>1 DEF Die
  <2>4. PICK late \in SUBSET (inHand \cup {a.id : a \in attempts}) : posted' = posted \cup late
    BY <2>1 DEF Die
  <2>5. PICK got \in SUBSET replays :
          accepted' = accepted \cup {Dlq!deriveReplayKey(r) : r \in got}
    BY <2>1 DEF Die
  <2>6. AcceptedIds' = AcceptedIds \cup {r.id : r \in got}
    <3>1. \A r \in got : Dlq!deriveReplayKey(r)[1] = r.id
      BY KeyOfReplay
    <3>2. QED
      BY <2>5, <3>1 DEF AcceptedIds
  <2>7. Received \subseteq Received' /\ Received' \subseteq Accounted
    BY <1>0, <2>4, <2>6, ReceivedIds DEF Accounted, Held
  <2>8. /\ Received' = Received \cup (Received' \ Received)
        /\ Received' \ Received \in SUBSET Contract!held
    BY <2>7, HeldIsHeld DEF Accounted
  <2>9. Contract!Die
    BY <2>1, <2>2, <2>8 DEF Contract!Die, FilesLeft, Movings, Torns
  <2>10. InFlightAccounted'
    BY <2>2 DEF InFlightAccounted
  <2>11. QED
    BY <2>9, <2>10 DEF Contract!Next
<1>17. CASE Elapse
  <2>1. /\ Queued' = Queued /\ Present' = Present
        /\ \A b \in attempts' : \E a \in attempts : b.id = a.id
        /\ UNCHANGED <<replays, accepted, crashes, queue, inHand, posted>>
    BY <1>17, <1>b, QueueElapseEffect, DlqElapseEffect DEF Elapse
  <2>2. UNCHANGED <<queue, inHand, Queued, Present, Received, crashes>>
    BY <1>a, <2>1, ReceivedIds
  <2>3. \A b \in attempts' : b.id \in Accounted
    BY <1>0, <2>1
  <2>4. QED
    BY <1>0, <1>c, <2>1, <2>2, <2>3, AccountedKept
<1>18. CASE UNCHANGED vars
  <2>1. UNCHANGED <<queue, inHand, jobs, attempts, entries, replays, accepted, posted, crashes>>
    BY <1>18, <1>b DEF vars
  <2>2. UNCHANGED <<queue, inHand, Queued, Present, Received, crashes>>
    BY <1>a, <2>1, ReceivedIds
  <2>3. QED
    BY <1>0, <1>c, <2>1, <2>2, AccountedKept
<1>19. QED
  BY <1>1, <1>2, <1>3, <1>4, <1>5, <1>6, <1>7, <1>8, <1>9, <1>10, <1>11, <1>12, <1>13,
     <1>14, <1>15, <1>16, <1>17, <1>18, StepCases

(* Whatever is being sent is held by a store or has been received. *)
THEOREM SentIsAccounted == Spec => []InFlightAccounted
<1>1. Init => InFlightAccounted
  BY DEF Init, Queue!Init, Dlq!Init, InFlightAccounted
<1>2. TypeOK /\ InFlightAccounted /\ [Next]_vars => InFlightAccounted'
  BY ContractStep
<1>3. QED
  BY <1>1, <1>2, TypeCorrect, PTL DEF Spec

(* The worker, the retry queue, the dead-letter queue, the passes and the  *)
(* manual retries together implement DeliveryContract: a delivery they     *)
(* took over is let go only because a receiver accepted it, or in a death, *)
(* and a death takes what was in hand, one delivery between two files, and *)
(* what the file that was being rewritten held; nothing else.              *)
THEOREM Refinement == Spec => KeepsContract
<1>1. Init => Contract!Init
  BY DEF Init, Queue!Init, Dlq!Init, Contract!Init, Contract!held, Received, Queued, Present
<1>2. TypeOK /\ InFlightAccounted /\ [Next]_vars => [Contract!Next]_(Contract!vars)
  BY ContractStep
<1>3. QED
  BY <1>1, <1>2, TypeCorrect, SentIsAccounted, PTL DEF Spec, KeepsContract, Contract!Spec
----------------------------------------------------------------------------
(* What the dashboard shows. *)

(* Received and evicted only grow, whatever happens to the stores. *)
LEMMA ReceivedGrows ==
  ASSUME TypeOK, [Next]_vars
  PROVE  posted \subseteq posted' /\ Received \subseteq Received' /\ evicted \subseteq evicted'
<1>1. posted \subseteq posted' /\ accepted \subseteq accepted' /\ evicted \subseteq evicted'
  <2>1. ASSUME NEW d \in Deliveries, NEW retryable \in BOOLEAN, NEW arrived \in BOOLEAN,
               WorkerFailed(d, retryable, arrived)
        PROVE  /\ posted \subseteq posted'
               /\ UNCHANGED <<accepted, evicted>>
    <3>1. UNCHANGED dlqVars
            \/ \E reason \in {"retries-exhausted", "non-retryable"} : Dlq!Add(d, reason)
      BY <2>1 DEF WorkerFailed
    <3>2. UNCHANGED <<accepted, evicted>>
      BY <3>1, AddEffect DEF dlqVars
    <3>3. QED
      BY <2>1, <3>2 DEF WorkerFailed
  <2>2. ASSUME NEW d \in Deliveries, Enqueue(d) \/ TakeNext(d) \/ WorkerDelivered(d)
        PROVE  posted \subseteq posted' /\ UNCHANGED <<accepted, evicted>>
    BY <2>2 DEF Enqueue, TakeNext, WorkerDelivered, dlqVars
  <2>3. ASSUME NEW on \in BOOLEAN, SetActive(on)
        PROVE  UNCHANGED <<posted, accepted, evicted>>
    BY <2>3 DEF SetActive, dlqVars
  <2>4. ASSUME NEW p \in Passes, BeginPass(p) \/ EndPassEarly(p)
        PROVE  UNCHANGED <<posted, accepted, evicted>>
    BY <2>4 DEF BeginPass, EndPassEarly, dlqVars
  <2>5. ASSUME NEW p \in Passes, SliceStep(p)
        PROVE  UNCHANGED <<posted, accepted, evicted>>
    BY <2>5, StartEffect DEF SliceStep, BeginPassAtDrain, EnterDrain, NextSlice
  <2>6. ASSUME NEW p \in Passes, EndPass(p)
        PROVE  UNCHANGED <<posted, accepted, evicted>>
    BY <2>6, FinishEffect DEF EndPass
  <2>7. ASSUME NEW a \in attempts,
               RetryDelivered(a) \/ \E arrived \in BOOLEAN : RetryRescheduled(a, arrived)
        PROVE  posted \subseteq posted' /\ UNCHANGED <<accepted, evicted>>
    BY <2>7 DEF RetryDelivered, RetryRescheduled, dlqVars
  <2>8. ASSUME NEW a \in attempts, NEW retryable \in BOOLEAN, NEW arrived \in BOOLEAN,
               RetryDeadLettered(a, retryable, arrived)
        PROVE  posted \subseteq posted' /\ UNCHANGED <<accepted, evicted>>
    BY <2>8, AddEffect, AttemptNames DEF RetryDeadLettered
  <2>9. ASSUME NEW r \in replays, Dlq!ReplayDelivered(r), ReplaySettles(r)
        PROVE  accepted \subseteq accepted' /\ UNCHANGED <<posted, evicted>>
    BY <2>9 DEF ReplaySettles, Dlq!ReplayDelivered
  <2>10. ASSUME NEW r \in replays, NEW got \in BOOLEAN, Dlq!ReplayFailed(r, got),
                ReplaySettles(r)
         PROVE  accepted \subseteq accepted' /\ UNCHANGED <<posted, evicted>>
    BY <2>10 DEF ReplaySettles, Dlq!ReplayFailed
  <2>11. ASSUME NEW d \in Deliveries, NEW maxAttempts \in Budgets, ManualRetry(d, maxAttempts)
         PROVE  evicted \subseteq evicted' /\ UNCHANGED <<posted, accepted>>
    BY <2>11, ManualRetryEffect
  <2>12. ASSUME Death
         PROVE  posted \subseteq posted' /\ accepted \subseteq accepted' /\ evicted' = evicted
    BY <2>12, DeathEffect DEF Die
  <2>13. ASSUME Elapse PROVE UNCHANGED <<posted, accepted, evicted>>
    BY <2>13, DlqElapseEffect DEF Elapse
  <2>14. ASSUME UNCHANGED vars PROVE UNCHANGED <<posted, accepted, evicted>>
    BY <2>14 DEF vars, dlqVars
  <2>15. QED
    BY <2>1, <2>2, <2>3, <2>4, <2>5, <2>6, <2>7, <2>8, <2>9, <2>10, <2>11, <2>12,
       <2>13, <2>14, StepCases
<1>2. QED
  BY <1>1 DEF Received

(* Unless the process dies, a dead letter leaves the list only because it  *)
(* was received or evicted.                                                *)
LEMMA ListedOrSettled ==
  ASSUME TypeOK, [Next]_vars, ~Death
  PROVE  Present \subseteq Present' \cup Received' \cup evicted'
<1>1. ASSUME UNCHANGED dlqVars PROVE Present' = Present
  BY <1>1 DEF dlqVars, Present
<1>2. ASSUME NEW d \in Deliveries, NEW retryable \in BOOLEAN, NEW arrived \in BOOLEAN,
             WorkerFailed(d, retryable, arrived)
      PROVE  Present \subseteq Present'
  <2>1. UNCHANGED dlqVars
          \/ \E reason \in {"retries-exhausted", "non-retryable"} : Dlq!Add(d, reason)
    BY <1>2 DEF WorkerFailed
  <2>2. QED
    BY <1>1, <2>1, AddEffect
<1>3. ASSUME NEW p \in Passes, SliceStep(p) \/ EndPass(p)
      PROVE  Present' = Present
  <2>1. Dlq!StartDrain(p) \/ Dlq!NextSlice(p) \/ Dlq!FinishDrain(p)
    BY <1>3 DEF SliceStep, BeginPassAtDrain, EnterDrain, NextSlice, EndPass
  <2>2. QED
    BY <2>1, StartEffect, FinishEffect DEF Present
<1>4. ASSUME NEW a \in attempts, NEW retryable \in BOOLEAN, NEW arrived \in BOOLEAN,
             RetryDeadLettered(a, retryable, arrived)
      PROVE  Present \subseteq Present'
  BY <1>4, AddEffect, AttemptNames DEF RetryDeadLettered
<1>5. ASSUME NEW r \in replays, Dlq!ReplayDelivered(r)
      PROVE  Present \subseteq Present' \cup Received'
  BY <1>5, ReplayDeliveredEffect, ReceivedIds
<1>6. ASSUME NEW r \in replays, NEW got \in BOOLEAN, Dlq!ReplayFailed(r, got)
      PROVE  Present' = Present
  BY <1>6, ReplayFailedEffect
<1>7. ASSUME NEW d \in Deliveries, NEW maxAttempts \in Budgets, ManualRetry(d, maxAttempts)
      PROVE  Present \subseteq Present' \cup evicted'
  BY <1>7, ManualRetryEffect
<1>8. ASSUME Elapse PROVE Present' = Present
  BY <1>8, DlqElapseEffect DEF Elapse
<1>9. ASSUME \/ \E d \in Deliveries : Enqueue(d) \/ TakeNext(d) \/ WorkerDelivered(d)
             \/ \E on \in BOOLEAN : SetActive(on)
             \/ \E p \in Passes : BeginPass(p) \/ EndPassEarly(p)
             \/ \E a \in attempts : RetryDelivered(a)
             \/ \E a \in attempts, arrived \in BOOLEAN : RetryRescheduled(a, arrived)
             \/ UNCHANGED vars
      PROVE  UNCHANGED dlqVars
  BY <1>9 DEF Enqueue, TakeNext, WorkerDelivered, SetActive, BeginPass, EndPassEarly,
              RetryDelivered, RetryRescheduled, vars
<1>10. QED
  BY <1>1, <1>2, <1>3, <1>4, <1>5, <1>6, <1>7, <1>8, <1>9, StepCases

(* What a step does to the passes' notes: it starts one, notes an outcome  *)
(* of an attempt, lists the dead letters, or ends it.                      *)
LEMMA PassSteps ==
  ASSUME TypeOK, [Next]_vars
  PROVE  \/ UNCHANGED <<pass, history>>
         \/ /\ pass' = [p \in Passes |-> IdlePass]
            /\ history' = FixtureHistory
         \/ /\ \E p \in Passes :
                 \/ pass' = [pass EXCEPT ![p].phase = "retrying"]
                 \/ pass' = [pass EXCEPT ![p].phase = "draining", ![p].before = Present]
            /\ history' = history
         \/ /\ \E a \in attempts, outcome \in Outcomes :
                 /\ pass' = [pass EXCEPT ![a.tick].outcomes[a.id] = outcome]
                 /\ outcome = "delivered" => a.id \in posted'
            /\ history' = history
         \/ \E p \in Passes :
              /\ pass' = [pass EXCEPT ![p] = IdlePass]
              /\ \E drained \in SUBSET (pass[p].before \ Present') :
                   \E parked : history' = Reported(p, drained, parked)
         \/ /\ \E d \in Deliveries : history' = [history EXCEPT ![d] = "queued"]
            /\ pass' = pass
<1>1. ASSUME \/ \E d \in Deliveries : Enqueue(d) \/ TakeNext(d) \/ WorkerDelivered(d)
             \/ \E d \in Deliveries, retryable, arrived \in BOOLEAN :
                  WorkerFailed(d, retryable, arrived)
             \/ \E on \in BOOLEAN : SetActive(on)
             \/ \E r \in replays : ReplaySettles(r)
             \/ Elapse
             \/ UNCHANGED vars
      PROVE  UNCHANGED <<pass, history>>
  BY <1>1 DEF Enqueue, TakeNext, WorkerDelivered, WorkerFailed, SetActive,
              ReplaySettles, Elapse, vars
<1>2. ASSUME NEW p \in Passes, BeginPass(p)
      PROVE  pass' = [pass EXCEPT ![p].phase = "retrying"] /\ history' = history
  BY <1>2 DEF BeginPass
<1>3. ASSUME NEW p \in Passes, SliceStep(p)
      PROVE  /\ \/ pass' = pass
                \/ pass' = [pass EXCEPT ![p].phase = "draining", ![p].before = Present]
             /\ history' = history
  BY <1>3 DEF SliceStep, BeginPassAtDrain, EnterDrain, NextSlice
<1>4. ASSUME NEW p \in Passes, EndPassEarly(p) \/ EndPass(p)
      PROVE  /\ pass' = [pass EXCEPT ![p] = IdlePass]
             /\ \E drained \in SUBSET (pass[p].before \ Present') :
                  \E parked : history' = Reported(p, drained, parked)
  BY <1>4 DEF EndPassEarly, EndPass
<1>5. ASSUME NEW a \in attempts,
             \/ RetryDelivered(a)
             \/ \E arrived \in BOOLEAN : RetryRescheduled(a, arrived)
             \/ \E retryable, arrived \in BOOLEAN : RetryDeadLettered(a, retryable, arrived)
      PROVE  /\ \E outcome \in Outcomes :
                  /\ pass' = [pass EXCEPT ![a.tick].outcomes[a.id] = outcome]
                  /\ outcome = "delivered" => a.id \in posted'
             /\ history' = history
  BY <1>5 DEF RetryDelivered, RetryRescheduled, RetryDeadLettered, Note, Outcomes
<1>6. ASSUME NEW d \in Deliveries, NEW maxAttempts \in Budgets, ManualRetry(d, maxAttempts)
      PROVE  history' = [history EXCEPT ![d] = "queued"] /\ pass' = pass
  BY <1>6 DEF ManualRetry
<1>7. ASSUME Death
      PROVE  pass' = [p \in Passes |-> IdlePass] /\ history' = FixtureHistory
  BY <1>7, DeathEffect DEF Die
<1>8. QED
  BY <1>1, <1>2, <1>3, <1>4, <1>5, <1>6, <1>7, StepCases

(* Every step keeps the notes of the passes and the dashboard true. *)
LEMMA HistoryStep ==
  ASSUME TypeOK, TypeOK', ListingInv, DeliveredIsReceived, [Next]_vars
  PROVE  ListingInv' /\ DeliveredIsReceived'
<1>0. /\ pass \in [Passes -> PassRecords]
      /\ history \in Histories
      /\ \A p \in Passes : /\ pass[p].before \subseteq Deliveries
                           /\ pass[p].outcomes \in [Deliveries -> Outcomes]
  BY TypeParts DEF OwnTypes, PassRecords
<1>1. posted \subseteq posted' /\ Received \subseteq Received' /\ evicted \subseteq evicted'
  BY ReceivedGrows
<1>2. posted \subseteq Received /\ posted' \subseteq Received'
  BY DEF Received
<1>3. \A p \in Passes : /\ \A d \in Deliveries : pass[p].outcomes[d] = "delivered" => d \in posted'
                        /\ pass[p].before \subseteq Present \cup Received' \cup evicted'
  BY <1>1 DEF ListingInv
<1>4. IdlePass.before = {} /\ IdlePass.outcomes = [d \in Deliveries |-> "none"]
  BY DEF IdlePass, NoOutcomes
<1>5. CASE pass' = [p \in Passes |-> IdlePass] /\ history' = FixtureHistory
  <2>1. ListingInv'
    BY <1>4, <1>5 DEF ListingInv
  <2>2. DeliveredIsReceived'
    BY <1>5 DEF FixtureHistory, DeliveredIsReceived
  <2>3. QED
    BY <2>1, <2>2
<1>6. CASE ~Death
  <2>0. \A p \in Passes : pass[p].before \subseteq Present' \cup Received' \cup evicted'
    BY <1>3, <1>6, ListedOrSettled
  <2>a. Present \subseteq Present' \cup Received' \cup evicted'
    BY <1>6, ListedOrSettled
  <2>1. ASSUME NEW p \in Passes, NEW record \in PassRecords,
               pass' = [pass EXCEPT ![p] = record],
               \A d \in Deliveries : record.outcomes[d] = "delivered" => d \in posted',
               record.before \subseteq Present' \cup Received' \cup evicted'
        PROVE  ListingInv'
    <3>1. \A q \in Passes : pass'[q] = IF q = p THEN record ELSE pass[q]
      BY <1>0, <2>1
    <3>2. QED
      BY <1>3, <2>0, <2>1, <3>1 DEF ListingInv
  <2>2. ASSUME history' = history PROVE DeliveredIsReceived'
    BY <1>1, <2>2 DEF DeliveredIsReceived
  <2>3. CASE UNCHANGED <<pass, history>>
    BY <1>3, <2>0, <2>2, <2>3 DEF ListingInv
  <2>4. ASSUME NEW p \in Passes, pass' = [pass EXCEPT ![p].phase = "retrying"]
        PROVE  ListingInv'
    <3>1. /\ [pass[p] EXCEPT !.phase = "retrying"] \in PassRecords
          /\ [pass[p] EXCEPT !.phase = "retrying"].before = pass[p].before
          /\ [pass[p] EXCEPT !.phase = "retrying"].outcomes = pass[p].outcomes
      BY <1>0 DEF PassRecords
    <3>2. QED
      BY <1>3, <2>0, <2>1, <2>4, <3>1
  <2>5. ASSUME NEW p \in Passes,
               pass' = [pass EXCEPT ![p].phase = "draining", ![p].before = Present]
        PROVE  ListingInv'
    <3> DEFINE record == [pass[p] EXCEPT !.phase = "draining", !.before = Present]
    <3>1. record \in PassRecords /\ record.before = Present /\ record.outcomes = pass[p].outcomes
      BY <1>0 DEF PassRecords, Present
    <3>2. pass' = [pass EXCEPT ![p] = record]
      BY <1>0, <2>5
    <3>3. QED
      BY <1>3, <2>1, <2>a, <3>1, <3>2
  <2>6. ASSUME NEW a \in attempts, NEW outcome \in Outcomes,
               pass' = [pass EXCEPT ![a.tick].outcomes[a.id] = outcome],
               outcome = "delivered" => a.id \in posted'
        PROVE  ListingInv'
    <3> DEFINE record == [pass[a.tick] EXCEPT !.outcomes[a.id] = outcome]
    <3>1. a.tick \in Passes /\ a.id \in Deliveries
      BY AttemptNames
    <3>2. /\ record \in PassRecords
          /\ record.before = pass[a.tick].before
          /\ \A d \in Deliveries :
               record.outcomes[d] = IF d = a.id THEN outcome ELSE pass[a.tick].outcomes[d]
      BY <1>0, <3>1 DEF PassRecords
    <3>3. pass' = [pass EXCEPT ![a.tick] = record]
      BY <1>0, <2>6, <3>1
    <3> HIDE DEF record
    <3>4. /\ \A d \in Deliveries : record.outcomes[d] = "delivered" => d \in posted'
          /\ record.before \subseteq Present' \cup Received' \cup evicted'
      BY <1>3, <2>0, <2>6, <3>1, <3>2
    <3>5. QED
      BY <2>1, <3>1, <3>2, <3>3, <3>4
  <2>7. ASSUME NEW p \in Passes, NEW drained \in SUBSET (pass[p].before \ Present'),
               NEW parked, pass' = [pass EXCEPT ![p] = IdlePass],
               history' = Reported(p, drained, parked)
        PROVE  ListingInv' /\ DeliveredIsReceived'
    <3>1. ListingInv'
      BY <1>4, <2>1, <2>7, PassWrites
    <3>2. drained \subseteq Received' \cup evicted'
      BY <2>0
    <3>3. ASSUME NEW d \in Deliveries, history'[d] = "delivered"
          PROVE  d \in Received' \cup evicted'
      <4>1. \/ pass[p].outcomes[d] = "delivered"
            \/ d \in drained
            \/ history[d] = "delivered"
        BY <2>7, <3>3 DEF Reported
      <4>2. QED
        BY <1>1, <1>2, <1>3, <3>2, <4>1 DEF DeliveredIsReceived
    <3>4. QED
      BY <3>1, <3>3 DEF DeliveredIsReceived
  <2>8. ASSUME NEW d \in Deliveries, history' = [history EXCEPT ![d] = "queued"],
               pass' = pass
        PROVE  ListingInv' /\ DeliveredIsReceived'
    <3>1. \A e \in Deliveries : history'[e] = IF e = d THEN "queued" ELSE history[e]
      BY <1>0, <2>8 DEF Histories
    <3>2. DeliveredIsReceived'
      BY <1>1, <3>1 DEF DeliveredIsReceived
    <3>3. QED
      BY <1>3, <2>0, <2>8, <3>2 DEF ListingInv
  <2>9. QED
    BY <1>5, <2>2, <2>3, <2>4, <2>5, <2>6, <2>7, <2>8, PassSteps
<1>7. CASE Death
  <2>1. pass' = [p \in Passes |-> IdlePass] /\ history' = FixtureHistory
    BY <1>7, DeathEffect DEF Die
  <2>2. QED
    BY <1>5, <2>1
<1>8. QED
  BY <1>6, <1>7

(* A delivery is shown as delivered only if a receiver accepted it, unless *)
(* a manual retry took its dead letter away.                               *)
THEOREM ShownIsReceived == Spec => []DeliveredIsReceived
<1>1. Init => ListingInv /\ DeliveredIsReceived
  <2>1. Init => ListingInv
    BY DEF Init, ListingInv, IdlePass, NoOutcomes
  <2>2. Init => DeliveredIsReceived
    BY DEF Init, DeliveredIsReceived, FixtureHistory
  <2>3. QED
    BY <2>1, <2>2
<1>2. TypeOK /\ TypeOK' /\ ListingInv /\ DeliveredIsReceived /\ [Next]_vars
        => ListingInv' /\ DeliveredIsReceived'
  BY HistoryStep
<1>3. QED
  BY <1>1, <1>2, TypeCorrect, PTL DEF Spec
=============================================================================
