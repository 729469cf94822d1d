------------------------- MODULE WebhookRetryQueue -------------------------
(***************************************************************************)
(* The durable webhook retry queue, lib/webhook-retry-queue.ts.            *)
(*                                                                         *)
(* `jobs' is the persisted job list (one job per delivery id), `attempts'  *)
(* the deliver() promises that recovery ticks await in memory: each one    *)
(* closes over the copy of the job that its tick claimed.  runTick claims  *)
(* and saves in one synchronous step; every attempt settles in a step of   *)
(* its own, after the await, against whatever the list holds by then.      *)
(*                                                                         *)
(* Wall-clock times are kept as the time that is left: `wait' until        *)
(* nextAttemptAt (0: due) and `lease' until leaseExpiresAt (0: lapsed or   *)
(* absent), so that the clock needs no bound.  Time is in units, not ms.   *)
(***************************************************************************)
EXTENDS Integers, FiniteSets, RetryBackoff

CONSTANTS
  Deliveries,            \* webhook delivery ids
  Targets,               \* receiver hosts
  TargetOf,              \* the receiver host of each delivery
  Ticks,                 \* recovery ticks that may overlap
  Budgets,               \* values of maxAttempts that a request carries
  PerTargetConcurrency,
  MaxJobsPerTick,
  LeaseTime,             \* WEBHOOK_RETRY_LEASE_MS
  DeliveryTimeout,       \* the abort timer of one deliver() call
  BackoffBase,           \* WEBHOOK_RETRY_BACKOFF_BASE_MS
  BackoffMax,            \* WEBHOOK_RETRY_BACKOFF_MAX_MS
  MaxSchedules,          \* bound: calls of schedule()
  MaxCrashes,            \* bound: process deaths
  NoJob                  \* no job with this id in the list

ASSUME RetryQueueAssumption ==
  /\ IsFiniteSet(Deliveries)
  /\ TargetOf \in [Deliveries -> Targets]
  /\ Budgets \subseteq Nat \ {0}
  /\ PerTargetConcurrency \in Nat \ {0}
  /\ MaxJobsPerTick \in Nat \ {0}
  /\ LeaseTime \in Nat \ {0}
  /\ DeliveryTimeout \in Nat
  /\ BackoffBase \in Nat
  /\ BackoffMax \in Nat
  /\ MaxSchedules \in Nat
  /\ MaxCrashes \in Nat

VARIABLES
  jobs,         \* the persisted retry jobs, by delivery id
  attempts,     \* in-flight deliver() calls
  deadLetters,  \* deliveries handed to onDeadLetter that still sit there
  schedules,    \* counts schedule() calls, up to MaxSchedules
  crashes       \* counts process deaths, up to MaxCrashes

vars == <<jobs, attempts, deadLetters, schedules, crashes>>

----------------------------------------------------------------------------

Job == [attempt     : Nat,
        maxAttempts : Nat,
        status      : {"pending", "in-flight"},
        wait        : 0 .. BackoffMax,
        lease       : 0 .. LeaseTime]

Attempt == [tick        : Ticks,
            id          : Deliveries,
            attempt     : Nat,
            maxAttempts : Nat,
            age         : 0 .. DeliveryTimeout]

(* NoJob is not a job; it stands for the absence of one. *)
ASSUME NoJobAssumption == NoJob \notin Job

TypeOK ==
  /\ jobs \in [Deliveries -> Job \cup {NoJob}]
  /\ attempts \subseteq Attempt
  /\ deadLetters \subseteq Deliveries
  /\ schedules \in 0 .. MaxSchedules
  /\ crashes \in 0 .. MaxCrashes

Init ==
  /\ jobs = [d \in Deliveries |-> NoJob]
  /\ attempts = {}
  /\ deadLetters = {}
  /\ schedules = 0
  /\ crashes = 0

----------------------------------------------------------------------------
(* Helpers of the queue. *)

Queued(d) == jobs[d] # NoJob

(* Mutant: the expiry of the lease is not looked at. *)
isLeasedForever(d) == Queued(d) /\ jobs[d].status = "in-flight"

(* A lease protects a claimed job until it lapses. *)
isLeased(d) ==
  /\ Queued(d)
  /\ jobs[d].status = "in-flight"
  /\ jobs[d].lease > 0

isDue(d) == Queued(d) /\ ~isLeased(d) /\ jobs[d].wait = 0

LeasedOn(target) == {d \in Deliveries : isLeased(d) /\ TargetOf[d] = target}

(* The delays of the retry queue's backoff policy. *)
computeBackoff(attempt) == computeBackoffMs(attempt, BackoffBase, BackoffMax)

(* runTick walks the due jobs in the order of nextAttemptAt and claims     *)
(* what the caps allow.  Overdue jobs are not told apart by how long they  *)
(* have been due, so any order is possible: a due job is passed over only  *)
(* because its target is saturated or the tick is full.                    *)
OnTarget(claims, target) == {d \in claims : TargetOf[d] = target}

Saturated(claims, target) ==
  Cardinality(LeasedOn(target)) + Cardinality(OnTarget(claims, target))
    >= PerTargetConcurrency

(* Mutant: the cap counts this tick's claims only. *)
ClaimablePerTick(claims) ==
  /\ claims # {}
  /\ \A d \in claims : isDue(d)
  /\ Cardinality(claims) <= MaxJobsPerTick
  /\ \A target \in Targets :
       Cardinality(OnTarget(claims, target)) <= PerTargetConcurrency

Claimable(claims) ==
  /\ claims # {}
  /\ \A d \in claims : isDue(d)
  /\ Cardinality(claims) <= MaxJobsPerTick
  /\ \A target \in Targets :
       OnTarget(claims, target) # {} =>
         Cardinality(LeasedOn(target)) + Cardinality(OnTarget(claims, target))
           <= PerTargetConcurrency
  /\ \A d \in Deliveries \ claims :
       isDue(d) => \/ Saturated(claims, TargetOf[d])
                   \/ Cardinality(claims) = MaxJobsPerTick

Remove(d) == jobs' = [jobs EXCEPT ![d] = NoJob]

(* replace() maps over the list: a job that is no longer there stays away. *)
Replace(d, job) == jobs' = [jobs EXCEPT ![d] = IF Queued(d) THEN job ELSE NoJob]

----------------------------------------------------------------------------
(* Operations. *)

(* Mutant: schedule() replaces a job whose attempt is in flight. *)
ScheduleOverLease(d, attemptsMade, budget, immediate) ==
  /\ schedules < MaxSchedules
  /\ jobs' = [jobs EXCEPT ![d] =
       [attempt |-> attemptsMade, maxAttempts |-> budget, status |-> "pending",
        wait |-> 0, lease |-> 0]]
  /\ schedules' = schedules + 1
  /\ UNCHANGED <<attempts, deadLetters, crashes>>

(* schedule(): a leased job is left alone, anything else is replaced. *)
Schedule(d, attemptsMade, budget, immediate) ==
  /\ schedules < MaxSchedules
  /\ \E wait \in IF immediate THEN {0} ELSE computeBackoff(attemptsMade) :
       jobs' = IF isLeased(d) THEN jobs
               ELSE [jobs EXCEPT ![d] =
                      [attempt     |-> attemptsMade,
                       maxAttempts |-> IF budget >= attemptsMade + 1
                                         THEN budget ELSE attemptsMade + 1,
                       status      |-> "pending",
                       wait        |-> wait,
                       lease       |-> 0]]
  /\ schedules' = schedules + 1
  /\ UNCHANGED <<attempts, deadLetters, crashes>>

(* The synchronous part of runTick: claim due jobs, save, start attempts.  *)
(* A claim consumes the attempt and writes the lease.                      *)
Claimed(job) == [job EXCEPT !.status  = "in-flight",
                            !.attempt = @ + 1,
                            !.lease   = LeaseTime]

RunTick(t) ==
  /\ \A a \in attempts : a.tick # t      \* its Promise.all has settled
  /\ \E claims \in SUBSET Deliveries :
       /\ Claimable(claims)
       /\ jobs' = [d \in Deliveries |->
                     IF d \in claims THEN Claimed(jobs[d]) ELSE jobs[d]]
       /\ attempts' = attempts \cup
            {[tick |-> t, id |-> d, attempt |-> jobs[d].attempt + 1,
              maxAttempts |-> jobs[d].maxAttempts, age |-> 0] : d \in claims}
  /\ UNCHANGED <<deadLetters, schedules, crashes>>

(* attempt() after the await, one action per outcome. *)
AttemptDelivered(a) ==
  /\ a \in attempts
  /\ attempts' = attempts \ {a}
  /\ Remove(a.id)
  /\ UNCHANGED <<deadLetters, schedules, crashes>>

(* A retryable failure below the budget puts the claimed copy back.        *)
Rescheduled(a, wait) ==
  [attempt |-> a.attempt, maxAttempts |-> a.maxAttempts,
   status |-> "pending", wait |-> wait, lease |-> 0]

(* Mutant: one attempt too many before dead-lettering. *)
AttemptRetryScheduledAtBudget(a) ==
  /\ a \in attempts
  /\ a.attempt <= a.maxAttempts
  /\ attempts' = attempts \ {a}
  /\ \E wait \in computeBackoff(a.attempt) : Replace(a.id, Rescheduled(a, wait))
  /\ UNCHANGED <<deadLetters, schedules, crashes>>

AttemptRetryScheduled(a) ==
  /\ a \in attempts
  /\ a.attempt < a.maxAttempts
  /\ attempts' = attempts \ {a}
  /\ \E wait \in computeBackoff(a.attempt) : Replace(a.id, Rescheduled(a, wait))
  /\ UNCHANGED <<deadLetters, schedules, crashes>>

(* A non-retryable failure, or a retryable one with the budget spent. *)
AttemptDeadLettered(a, retryable) ==
  /\ a \in attempts
  /\ retryable => a.attempt >= a.maxAttempts
  /\ attempts' = attempts \ {a}
  /\ Remove(a.id)
  /\ deadLetters' = deadLetters \cup {a.id}
  /\ UNCHANGED <<schedules, crashes>>

(* The dead-letter queue drops an entry: replayed, or evicted. *)
DeadLetterTaken(d) ==
  /\ d \in deadLetters
  /\ deadLetters' = deadLetters \ {d}
  /\ UNCHANGED <<jobs, attempts, schedules, crashes>>

(* The process dies: awaited attempts are gone, the saved jobs are not,    *)
(* unless it dies while it rewrites their file: writeJson truncates it in  *)
(* place and readJson takes what it cannot parse for an empty list.        *)
Crash ==
  /\ crashes < MaxCrashes
  /\ attempts' = {}
  /\ crashes' = crashes + 1
  /\ jobs' \in {jobs, [d \in Deliveries |-> NoJob]}
  /\ UNCHANGED <<deadLetters, schedules>>

(* One unit of time passes.  The abort timer ends every deliver() call     *)
(* within DeliveryTimeout, so time waits for an attempt that is due.       *)
Less(n) == IF n > 0 THEN n - 1 ELSE 0

Older(a) == [a EXCEPT !.age = @ + 1]

Elapse ==
  /\ \A a \in attempts : a.age < DeliveryTimeout
  /\ jobs' = [d \in Deliveries |->
                IF Queued(d) THEN [jobs[d] EXCEPT !.wait = Less(@), !.lease = Less(@)]
                ELSE NoJob]
  /\ attempts' = {Older(a) : a \in attempts}
  /\ UNCHANGED <<deadLetters, schedules, crashes>>

AttemptSettles(a) ==
  \/ AttemptDelivered(a)
  \/ AttemptRetryScheduled(a)
  \/ \E retryable \in BOOLEAN : AttemptDeadLettered(a, retryable)

(* The delivery worker hands over a failed delivery after an attempt of    *)
(* its own; a manual retry starts from zero at the next tick.              *)
ScheduleFromWorker(d) ==
  \E budget \in Budgets : \E made \in 1 .. budget - 1 :
    Schedule(d, made, budget, FALSE)

ScheduleManually(d) == \E budget \in Budgets : Schedule(d, 0, budget, TRUE)

Next ==
  \/ \E d \in Deliveries :
       ScheduleFromWorker(d) \/ ScheduleManually(d) \/ DeadLetterTaken(d)
  \/ \E t \in Ticks : RunTick(t)
  \/ \E a \in attempts : AttemptSettles(a)
  \/ Crash
  \/ Elapse

Spec == Init /\ [][Next]_vars

(* The recovery endpoint keeps being called, fetch and the abort timer     *)
(* settle every attempt, and time passes.                                  *)
Fairness ==
  /\ WF_vars(\E t \in Ticks : RunTick(t))
  /\ WF_vars(\E a \in attempts : AttemptSettles(a))
  /\ WF_vars(Elapse)

FairSpec == Spec /\ Fairness

----------------------------------------------------------------------------
(* Properties. *)

(* The default configuration: an attempt is over before its lease lapses.  *)
TimelyDelivery == DeliveryTimeout < LeaseTime

(* Every in-flight deliver() call still owns its job: the job is there,    *)
(* leased, and at the attempt number the call was claimed for, with as     *)
(* much lease left as the call has not used.  So the write after the await *)
(* (lines 323-359) never lands on a job that moved on meanwhile.           *)
AttemptOwnsLease ==
  \A a \in attempts :
    /\ isLeased(a.id)
    /\ jobs[a.id].attempt = a.attempt
    /\ jobs[a.id].maxAttempts = a.maxAttempts
    /\ jobs[a.id].lease = LeaseTime - a.age

(* One delivery is never posted by two ticks at the same time, however     *)
(* ticks overlap, crash and are restarted (lines 266-268).                 *)
OneAttemptPerDelivery == \A a, b \in attempts : a.id = b.id => a = b

(* "At most perTargetConcurrency in-flight attempts per receiver host,     *)
(* across overlapping ticks" (lines 14-15), for the calls themselves and   *)
(* not only for what one tick counts.                                      *)
TargetCap ==
  \A target \in Targets :
    Cardinality({a \in attempts : TargetOf[a.id] = target}) <= PerTargetConcurrency

(* Leased jobs on one host stay within the cap, whatever the timeouts.     *)
LeaseCap ==
  \A target \in Targets : Cardinality(LeasedOn(target)) <= PerTargetConcurrency

(* How far the attempt budget can be overrun: by one attempt for each time *)
(* the process died (runTick reclaims a lapsed job without looking at      *)
(* maxAttempts, lines 281-301), and never without a crash.                 *)
OverrunBoundedByCrashes ==
  \A d \in Deliveries :
    Queued(d) => jobs[d].attempt <= jobs[d].maxAttempts + crashes

(* What makes that bound inductive: a pending job has an attempt left, and *)
(* a claimed job without a deliver() call behind it lost it in a crash.    *)
BudgetInv ==
  \A d \in Deliveries : Queued(d) =>
    /\ jobs[d].status = "pending" => jobs[d].attempt < jobs[d].maxAttempts
    /\ jobs[d].attempt <= jobs[d].maxAttempts + crashes
    /\ \/ jobs[d].status = "pending"
       \/ \E a \in attempts : a.id = d
       \/ jobs[d].attempt < jobs[d].maxAttempts + crashes

(* Every scheduled retry is settled: delivered or dead-lettered, even when *)
(* ticks die holding its claim.                                            *)
RetrySettles == \A d \in Deliveries : Queued(d) ~> ~Queued(d)
============================================================================
