---------------------- MODULE WebhookRetryQueue_proofs ----------------------
(***************************************************************************)
(* Proofs about the retry queue for every set of deliveries, hosts and     *)
(* ticks, every budget, cap, lease and backoff.                            *)
(***************************************************************************)
EXTENDS WebhookRetryQueue, FiniteSetTheorems, TLAPS

(* A drawn delay stays within the longest one, whatever the attempt. *)
LEMMA BackoffBounded ==
  ASSUME NEW n, NEW delay \in computeBackoff(n)
  PROVE  delay \in 0 .. BackoffMax
  BY DEF computeBackoff, computeBackoffMs

(* Counting time down keeps it inside its range. *)
LEMMA LessBounded ==
  ASSUME NEW m \in Nat, NEW n \in 0 .. m
  PROVE  Less(n) \in 0 .. m
  BY DEF Less

(* A queued delivery has a well-formed job. *)
LEMMA QueuedIsJob ==
  ASSUME TypeOK, NEW d \in Deliveries, Queued(d)
  PROVE  jobs[d] \in Job
  BY DEF TypeOK, Queued

(* Claiming a job yields a job. *)
LEMMA ClaimedIsJob ==
  ASSUME NEW job \in Job
  PROVE  /\ Claimed(job) \in Job
         /\ Claimed(job).attempt = job.attempt + 1
         /\ Claimed(job).maxAttempts = job.maxAttempts
         /\ Claimed(job).status = "in-flight"
         /\ Claimed(job).lease = LeaseTime
<1>1. job.attempt + 1 \in Nat /\ LeaseTime \in 0 .. LeaseTime
  BY RetryQueueAssumption DEF Job
<1>2. QED
  BY <1>1 DEF Claimed, Job

(* An attempt that may still wait is an attempt one unit of time later. *)
LEMMA OlderIsAttempt ==
  ASSUME NEW a \in Attempt, a.age < DeliveryTimeout
  PROVE  /\ Older(a) \in Attempt
         /\ Older(a).age = a.age + 1
         /\ Older(a).id = a.id
         /\ Older(a).attempt = a.attempt
         /\ Older(a).maxAttempts = a.maxAttempts
<1>1. a.age + 1 \in 0 .. DeliveryTimeout
  BY RetryQueueAssumption DEF Attempt
<1>2. QED
  BY <1>1 DEF Older, Attempt

(* The variables keep their types in every reachable state. *)
THEOREM TypeCorrect == Spec => []TypeOK
<1> USE RetryQueueAssumption
<1>1. Init => TypeOK
  BY DEF Init, TypeOK
<1>2. TypeOK /\ [Next]_vars => TypeOK'
  <2> SUFFICES ASSUME TypeOK, [Next]_vars PROVE TypeOK'
    OBVIOUS
  <2>1. ASSUME NEW d \in Deliveries, NEW made \in Nat, NEW budget \in Nat,
               NEW immediate \in BOOLEAN, Schedule(d, made, budget, immediate)
        PROVE  TypeOK'
    <3>1. PICK wait \in IF immediate THEN {0} ELSE computeBackoff(made) :
            jobs' = IF isLeased(d) THEN jobs
                    ELSE [jobs EXCEPT ![d] =
                      [attempt |-> made,
                       maxAttempts |-> IF budget >= made + 1 THEN budget ELSE made + 1,
                       status |-> "pending", wait |-> wait, lease |-> 0]]
      BY <2>1 DEF Schedule
    <3>2. wait \in 0 .. BackoffMax
      BY BackoffBounded
    <3>3. jobs' \in [Deliveries -> Job \cup {NoJob}]
      BY <3>1, <3>2 DEF TypeOK, Job
    <3>4. QED
      BY <2>1, <3>3 DEF Schedule, TypeOK
  <2>2. ASSUME NEW t \in Ticks, RunTick(t)
        PROVE  TypeOK'
    <3>1. PICK claims \in SUBSET Deliveries :
            /\ Claimable(claims)
            /\ jobs' = [d \in Deliveries |->
                          IF d \in claims THEN Claimed(jobs[d]) ELSE jobs[d]]
            /\ attempts' = attempts \cup
                 {[tick |-> t, id |-> d, attempt |-> jobs[d].attempt + 1,
                   maxAttempts |-> jobs[d].maxAttempts, age |-> 0] : d \in claims}
      BY <2>2 DEF RunTick
    <3>2. \A d \in claims : jobs[d] \in Job
      BY <3>1, QueuedIsJob DEF Claimable, isDue
    <3>3. \A d \in claims : Claimed(jobs[d]) \in Job
      BY <3>2, ClaimedIsJob
    <3>4. jobs' \in [Deliveries -> Job \cup {NoJob}]
      BY <3>1, <3>3 DEF TypeOK
    <3>5. attempts' \subseteq Attempt
      BY <3>1, <3>2 DEF TypeOK, Attempt, Job
    <3>6. QED
      BY <2>2, <3>4, <3>5 DEF RunTick, TypeOK
  <2>3. ASSUME NEW a \in attempts, AttemptSettles(a)
        PROVE  TypeOK'
    <3>1. a \in Attempt
      BY DEF TypeOK
    <3>2. CASE AttemptDelivered(a)
      BY <3>1, <3>2 DEF AttemptDelivered, Remove, TypeOK
    <3>3. CASE AttemptRetryScheduled(a)
      <4>1. PICK wait \in computeBackoff(a.attempt) : Replace(a.id, Rescheduled(a, wait))
        BY <3>3 DEF AttemptRetryScheduled
      <4>2. wait \in 0 .. BackoffMax
        BY BackoffBounded
      <4>3. Rescheduled(a, wait) \in Job
        BY <3>1, <4>2 DEF Rescheduled, Job, Attempt
      <4>4. jobs' \in [Deliveries -> Job \cup {NoJob}]
        BY <4>1, <4>3 DEF Replace, TypeOK
      <4>5. QED
        BY <3>3, <4>4 DEF AttemptRetryScheduled, TypeOK
    <3>4. CASE \E retryable \in BOOLEAN : AttemptDeadLettered(a, retryable)
      BY <3>1, <3>4 DEF AttemptDeadLettered, Remove, TypeOK, Attempt
    <3>5. QED
      BY <2>3, <3>2, <3>3, <3>4 DEF AttemptSettles
  <2>4. ASSUME NEW d \in Deliveries, DeadLetterTaken(d)
        PROVE  TypeOK'
    BY <2>4 DEF DeadLetterTaken, TypeOK
  <2>5. CASE Crash
    BY <2>5 DEF Crash, TypeOK
  <2>6. CASE Elapse
    <3>1. ASSUME NEW d \in Deliveries, Queued(d)
          PROVE  [jobs[d] EXCEPT !.wait = Less(@), !.lease = Less(@)] \in Job
      <4>1. jobs[d] \in Job
        BY <3>1, QueuedIsJob
      <4>2. Less(jobs[d].wait) \in 0 .. BackoffMax /\ Less(jobs[d].lease) \in 0 .. LeaseTime
        BY <4>1, LessBounded DEF Job
      <4>3. QED
        BY <4>1, <4>2 DEF Job
    <3>2. jobs' \in [Deliveries -> Job \cup {NoJob}]
      BY <2>6, <3>1 DEF Elapse
    <3>3. attempts' \subseteq Attempt
      BY <2>6, OlderIsAttempt DEF Elapse, TypeOK
    <3>4. QED
      BY <2>6, <3>2, <3>3 DEF Elapse, TypeOK
  <2>7. CASE UNCHANGED vars
    BY <2>7 DEF vars, TypeOK
  <2>8. ASSUME NEW d \in Deliveries, ScheduleFromWorker(d) \/ ScheduleManually(d)
        PROVE  TypeOK'
    <3>1. CASE ScheduleFromWorker(d)
      <4>1. PICK budget \in Budgets : \E made \in 1 .. budget - 1 :
                                       Schedule(d, made, budget, FALSE)
        BY <3>1 DEF ScheduleFromWorker
      <4>2. PICK made \in 1 .. budget - 1 : Schedule(d, made, budget, FALSE)
        BY <4>1
      <4>3. budget \in Nat /\ made \in Nat
        OBVIOUS
      <4>4. QED
        BY <2>1, <4>2, <4>3
    <3>2. CASE ScheduleManually(d)
      <4>1. PICK budget \in Nat : Schedule(d, 0, budget, TRUE)
        BY <3>2 DEF ScheduleManually
      <4>2. QED
        BY <2>1, <4>1
    <3>3. QED
      BY <2>8, <3>1, <3>2
  <2>9. QED
    BY <2>2, <2>3, <2>4, <2>5, <2>6, <2>7, <2>8 DEF Next
<1>3. QED
  BY <1>1, <1>2, PTL DEF Spec

----------------------------------------------------------------------------

(* The moves a step can make, with the parameters of schedule() typed. *)
LEMMA StepCases ==
  ASSUME [Next]_vars
  PROVE  \/ \E d \in Deliveries, made \in Nat, budget \in Nat, immediate \in BOOLEAN :
              Schedule(d, made, budget, immediate)
         \/ \E t \in Ticks : RunTick(t)
         \/ \E a \in attempts : AttemptSettles(a)
         \/ \E d \in Deliveries : DeadLetterTaken(d)
         \/ Crash
         \/ Elapse
         \/ UNCHANGED vars
<1>1. ASSUME NEW d \in Deliveries, ScheduleFromWorker(d)
      PROVE  \E made \in Nat, budget \in Nat, immediate \in BOOLEAN :
               Schedule(d, made, budget, immediate)
  <2>1. PICK budget \in Budgets : \E made \in 1 .. budget - 1 :
                                   Schedule(d, made, budget, FALSE)
    BY <1>1 DEF ScheduleFromWorker
  <2>2. PICK made \in 1 .. budget - 1 : Schedule(d, made, budget, FALSE)
    BY <2>1
  <2>3. budget \in Nat /\ made \in Nat
    BY RetryQueueAssumption
  <2>4. QED
    BY <2>2, <2>3
<1>2. ASSUME NEW d \in Deliveries, ScheduleManually(d)
      PROVE  \E made \in Nat, budget \in Nat, immediate \in BOOLEAN :
               Schedule(d, made, budget, immediate)
  <2>1. PICK budget \in Budgets : Schedule(d, 0, budget, TRUE)
    BY <1>2 DEF ScheduleManually
  <2>2. budget \in Nat /\ 0 \in Nat
    BY RetryQueueAssumption
  <2>3. QED
    BY <2>1, <2>2
<1>3. QED
  BY <1>1, <1>2 DEF Next

(* schedule() leaves a leased job alone and otherwise writes a pending one *)
(* that has an attempt left.                                               *)
LEMMA ScheduleEffect ==
  ASSUME TypeOK, NEW d \in Deliveries, NEW made \in Nat, NEW budget \in Nat,
         NEW immediate \in BOOLEAN, Schedule(d, made, budget, immediate)
  PROVE  /\ UNCHANGED <<attempts, crashes>>
         /\ \A e \in Deliveries : e # d => jobs'[e] = jobs[e]
         /\ isLeased(d) => jobs'[d] = jobs[d]
         /\ ~isLeased(d) => /\ jobs'[d].status = "pending"
                            /\ jobs'[d].attempt < jobs'[d].maxAttempts
<1>1. PICK wait \in IF immediate THEN {0} ELSE computeBackoff(made) :
        jobs' = IF isLeased(d) THEN jobs
                ELSE [jobs EXCEPT ![d] =
                  [attempt |-> made,
                   maxAttempts |-> IF budget >= made + 1 THEN budget ELSE made + 1,
                   status |-> "pending", wait |-> wait, lease |-> 0]]
  BY DEF Schedule
<1>2. QED
  BY <1>1 DEF TypeOK, Schedule

(* A tick claims due jobs only and starts one attempt for each of them. *)
LEMMA RunTickEffect ==
  ASSUME TypeOK, NEW t \in Ticks, RunTick(t)
  PROVE  \E claims \in SUBSET Deliveries :
           /\ Claimable(claims)
           /\ \A d \in claims : /\ isDue(d)
                                /\ jobs[d] \in Job
                                /\ jobs'[d] = Claimed(jobs[d])
           /\ \A d \in Deliveries \ claims : jobs'[d] = jobs[d]
           /\ attempts' = attempts \cup
                {[tick |-> t, id |-> d, attempt |-> jobs[d].attempt + 1,
                  maxAttempts |-> jobs[d].maxAttempts, age |-> 0] : d \in claims}
           /\ UNCHANGED crashes
<1>1. PICK claims \in SUBSET Deliveries :
        /\ Claimable(claims)
        /\ jobs' = [d \in Deliveries |->
                      IF d \in claims THEN Claimed(jobs[d]) ELSE jobs[d]]
        /\ attempts' = attempts \cup
             {[tick |-> t, id |-> d, attempt |-> jobs[d].attempt + 1,
               maxAttempts |-> jobs[d].maxAttempts, age |-> 0] : d \in claims}
  BY DEF RunTick
<1>2. \A d \in claims : isDue(d) /\ jobs[d] \in Job
  BY <1>1, QueuedIsJob DEF Claimable, isDue
<1>3. UNCHANGED crashes
  BY DEF RunTick
<1>4. QED
  BY <1>1, <1>2, <1>3

(* An attempt that settles leaves nothing behind but its own job: gone, or *)
(* pending with an attempt left.                                           *)
LEMMA SettleEffect ==
  ASSUME TypeOK, NEW a \in attempts, AttemptSettles(a)
  PROVE  /\ attempts' = attempts \ {a}
         /\ UNCHANGED crashes
         /\ a.id \in Deliveries
         /\ \A e \in Deliveries : e # a.id => jobs'[e] = jobs[e]
         /\ \/ jobs'[a.id] = NoJob
            \/ /\ jobs'[a.id].status = "pending"
               /\ jobs'[a.id].attempt < jobs'[a.id].maxAttempts
<1>1. a \in Attempt
  BY DEF TypeOK
<1>2. CASE AttemptDelivered(a)
  BY <1>1, <1>2 DEF AttemptDelivered, Remove, TypeOK, Attempt
<1>3. CASE AttemptRetryScheduled(a)
  <2>1. PICK wait \in computeBackoff(a.attempt) : Replace(a.id, Rescheduled(a, wait))
    BY <1>3 DEF AttemptRetryScheduled
  <2>2. QED
    BY <1>1, <1>3, <2>1 DEF AttemptRetryScheduled, Replace, Rescheduled, TypeOK, Attempt
<1>4. CASE \E retryable \in BOOLEAN : AttemptDeadLettered(a, retryable)
  BY <1>1, <1>4 DEF AttemptDeadLettered, Remove, TypeOK, Attempt
<1>5. QED
  BY <1>2, <1>3, <1>4 DEF AttemptSettles

(* Time only shortens leases and ages attempts. *)
LEMMA ElapseEffect ==
  ASSUME TypeOK, Elapse
  PROVE  /\ attempts' = {Older(a) : a \in attempts}
         /\ \A a \in attempts : a.age < DeliveryTimeout
         /\ UNCHANGED crashes
         /\ \A d \in Deliveries :
              /\ ~Queued(d) => jobs'[d] = NoJob
              /\ Queued(d) => /\ jobs'[d] \in Job
                              /\ jobs'[d].attempt = jobs[d].attempt
                              /\ jobs'[d].maxAttempts = jobs[d].maxAttempts
                              /\ jobs'[d].status = jobs[d].status
                              /\ jobs'[d].lease = Less(jobs[d].lease)
<1>1. ASSUME NEW d \in Deliveries, Queued(d)
      PROVE  /\ jobs'[d] \in Job
             /\ jobs'[d].attempt = jobs[d].attempt
             /\ jobs'[d].maxAttempts = jobs[d].maxAttempts
             /\ jobs'[d].status = jobs[d].status
             /\ jobs'[d].lease = Less(jobs[d].lease)
  <2>1. jobs[d] \in Job
    BY <1>1, QueuedIsJob
  <2>2. Less(jobs[d].wait) \in 0 .. BackoffMax /\ Less(jobs[d].lease) \in 0 .. LeaseTime
    BY <2>1, LessBounded, RetryQueueAssumption DEF Job
  <2>3. jobs'[d] = [jobs[d] EXCEPT !.wait = Less(@), !.lease = Less(@)]
    BY <1>1 DEF Elapse
  <2>4. QED
    BY <2>1, <2>2, <2>3 DEF Job
<1>2. QED
  BY <1>1 DEF Elapse

----------------------------------------------------------------------------

(* Ownership: an attempt in flight holds the lease of its job, and no two  *)
(* attempts hold the same one.                                             *)
Ownership == AttemptOwnsLease /\ OneAttemptPerDelivery

LEMMA OwnershipStep ==
  ASSUME TimelyDelivery, TypeOK, TypeOK', Ownership, [Next]_vars
  PROVE  Ownership'
<1> USE RetryQueueAssumption, NoJobAssumption DEF Ownership
<1>0. \A a \in attempts : a.id \in Deliveries
  BY DEF TypeOK, Attempt
<1>1. ASSUME NEW d \in Deliveries, NEW made \in Nat, NEW budget \in Nat,
             NEW immediate \in BOOLEAN, Schedule(d, made, budget, immediate)
      PROVE  Ownership'
  <2>1. \A a \in attempts : jobs'[a.id] = jobs[a.id]
    BY <1>0, <1>1, ScheduleEffect DEF AttemptOwnsLease
  <2>2. UNCHANGED attempts
    BY <1>1, ScheduleEffect
  <2>3. QED
    BY <2>1, <2>2 DEF AttemptOwnsLease, OneAttemptPerDelivery, isLeased, Queued
<1>2. ASSUME NEW t \in Ticks, RunTick(t)
      PROVE  Ownership'
  <2>1. PICK claims \in SUBSET Deliveries :
          /\ \A d \in claims : /\ isDue(d)
                               /\ jobs[d] \in Job
                               /\ jobs'[d] = Claimed(jobs[d])
          /\ \A d \in Deliveries \ claims : jobs'[d] = jobs[d]
          /\ attempts' = attempts \cup
               {[tick |-> t, id |-> d, attempt |-> jobs[d].attempt + 1,
                 maxAttempts |-> jobs[d].maxAttempts, age |-> 0] : d \in claims}
    BY <1>2, RunTickEffect
  <2>2. \A a \in attempts : a.id \notin claims
    BY <2>1 DEF AttemptOwnsLease, isDue
  <2>3. ASSUME NEW a \in attempts
        PROVE  jobs'[a.id] = jobs[a.id]
    BY <1>0, <2>1, <2>2
  <2>4. ASSUME NEW d \in claims
        PROVE  /\ jobs'[d] # NoJob
               /\ jobs'[d].status = "in-flight"
               /\ jobs'[d].lease = LeaseTime
               /\ jobs'[d].attempt = jobs[d].attempt + 1
               /\ jobs'[d].maxAttempts = jobs[d].maxAttempts
    BY <2>1, ClaimedIsJob
  <2>5. AttemptOwnsLease'
    BY <2>1, <2>3, <2>4 DEF AttemptOwnsLease, isLeased, Queued
  <2>6. OneAttemptPerDelivery'
    BY <2>1, <2>2 DEF OneAttemptPerDelivery
  <2>7. QED
    BY <2>5, <2>6
<1>3. ASSUME NEW a \in attempts, AttemptSettles(a)
      PROVE  Ownership'
  <2>1. attempts' = attempts \ {a}
    BY <1>3, SettleEffect
  <2>2. \A b \in attempts' : b.id # a.id
    BY <2>1 DEF OneAttemptPerDelivery
  <2>3. \A b \in attempts' : jobs'[b.id] = jobs[b.id]
    BY <1>0, <1>3, <2>1, <2>2, SettleEffect
  <2>4. QED
    BY <2>1, <2>3 DEF AttemptOwnsLease, OneAttemptPerDelivery, isLeased, Queued
<1>4. ASSUME NEW d \in Deliveries, DeadLetterTaken(d)
      PROVE  Ownership'
  BY <1>4 DEF DeadLetterTaken, AttemptOwnsLease, OneAttemptPerDelivery, isLeased, Queued
<1>5. CASE Crash
  BY <1>5 DEF Crash, AttemptOwnsLease, OneAttemptPerDelivery
<1>6. CASE Elapse
  <2>1. attempts' = {Older(a) : a \in attempts}
    BY <1>6, ElapseEffect
  <2>2. ASSUME NEW a \in attempts
        PROVE  /\ isLeased(a.id)'
               /\ jobs'[a.id].attempt = Older(a).attempt
               /\ jobs'[a.id].maxAttempts = Older(a).maxAttempts
               /\ jobs'[a.id].lease = LeaseTime - Older(a).age
    <3>1. a \in Attempt /\ a.id \in Deliveries /\ a.age < DeliveryTimeout
      BY <1>0, <1>6, ElapseEffect DEF TypeOK
    <3>2. /\ Queued(a.id)
          /\ jobs[a.id].status = "in-flight"
          /\ jobs[a.id].attempt = a.attempt
          /\ jobs[a.id].maxAttempts = a.maxAttempts
          /\ jobs[a.id].lease = LeaseTime - a.age
      BY DEF AttemptOwnsLease, isLeased
    <3>3. /\ jobs'[a.id] \in Job
          /\ jobs'[a.id].attempt = a.attempt
          /\ jobs'[a.id].maxAttempts = a.maxAttempts
          /\ jobs'[a.id].status = "in-flight"
          /\ jobs'[a.id].lease = Less(LeaseTime - a.age)
      BY <1>6, <3>1, <3>2, ElapseEffect
    <3>4. /\ Less(LeaseTime - a.age) = LeaseTime - (a.age + 1)
          /\ LeaseTime - (a.age + 1) > 0
      BY <3>1 DEF Less, Attempt, TimelyDelivery
    <3>5. QED
      BY <3>1, <3>3, <3>4, OlderIsAttempt DEF isLeased, Queued
  <2>3. \A a \in attempts : Older(a).id = a.id
    BY <1>6, ElapseEffect, OlderIsAttempt DEF TypeOK
  <2>4. AttemptOwnsLease'
    BY <2>1, <2>2, <2>3 DEF AttemptOwnsLease
  <2>5. OneAttemptPerDelivery'
    BY <2>1, <2>3 DEF OneAttemptPerDelivery
  <2>6. QED
    BY <2>4, <2>5
<1>7. CASE UNCHANGED vars
  BY <1>7 DEF vars, AttemptOwnsLease, OneAttemptPerDelivery, isLeased, Queued
<1>8. QED
  BY <1>1, <1>2, <1>3, <1>4, <1>5, <1>6, <1>7, StepCases

(* With the default timing every attempt in flight owns the lease of its   *)
(* job, so what attempt() writes after its await is never stale.           *)
THEOREM LeaseOwnership ==
  ASSUME TimelyDelivery
  PROVE  Spec => []AttemptOwnsLease
<1>1. Init => Ownership
  BY DEF Init, Ownership, AttemptOwnsLease, OneAttemptPerDelivery
<1>2. TypeOK /\ TypeOK' /\ Ownership /\ [Next]_vars => Ownership'
  BY OwnershipStep
<1>3. Ownership => AttemptOwnsLease
  BY DEF Ownership
<1>4. QED
  BY <1>1, <1>2, <1>3, TypeCorrect, PTL DEF Spec

(* With the default timing no delivery is posted twice at the same time,   *)
(* for any number of overlapping ticks and crashes.                        *)
THEOREM NoConcurrentDuplicate ==
  ASSUME TimelyDelivery
  PROVE  Spec => []OneAttemptPerDelivery
<1>1. Init => Ownership
  BY DEF Init, Ownership, AttemptOwnsLease, OneAttemptPerDelivery
<1>2. TypeOK /\ TypeOK' /\ Ownership /\ [Next]_vars => Ownership'
  BY OwnershipStep
<1>3. Ownership => OneAttemptPerDelivery
  BY DEF Ownership
<1>4. QED
  BY <1>1, <1>2, <1>3, TypeCorrect, PTL DEF Spec

----------------------------------------------------------------------------

LEMMA BudgetStep ==
  ASSUME TypeOK, TypeOK', Ownership, BudgetInv, [Next]_vars
  PROVE  BudgetInv'
<1> USE RetryQueueAssumption, NoJobAssumption DEF Ownership
<1>0. /\ \A a \in attempts : a.id \in Deliveries
      /\ crashes \in Nat /\ crashes' \in Nat
      /\ \A d \in Deliveries : Queued(d) => jobs[d] \in Job
      /\ \A d \in Deliveries : Queued(d)' => jobs'[d] \in Job
  BY DEF TypeOK, Attempt, Queued
<1>1. ASSUME NEW d \in Deliveries, NEW made \in Nat, NEW budget \in Nat,
             NEW immediate \in BOOLEAN, Schedule(d, made, budget, immediate)
      PROVE  BudgetInv'
  <2>1. UNCHANGED <<attempts, crashes>>
    BY <1>1, ScheduleEffect
  <2>2. ASSUME NEW e \in Deliveries
        PROVE  \/ jobs'[e] = jobs[e]
               \/ /\ jobs'[e].status = "pending"
                  /\ jobs'[e].attempt < jobs'[e].maxAttempts
    BY <1>1, ScheduleEffect
  <2>3. QED
    BY <1>0, <2>1, <2>2 DEF BudgetInv, Queued, Job
<1>2. ASSUME NEW t \in Ticks, RunTick(t)
      PROVE  BudgetInv'
  <2>1. PICK claims \in SUBSET Deliveries :
          /\ \A d \in claims : /\ isDue(d)
                               /\ jobs[d] \in Job
                               /\ jobs'[d] = Claimed(jobs[d])
          /\ \A d \in Deliveries \ claims : jobs'[d] = jobs[d]
          /\ attempts' = attempts \cup
               {[tick |-> t, id |-> d, attempt |-> jobs[d].attempt + 1,
                 maxAttempts |-> jobs[d].maxAttempts, age |-> 0] : d \in claims}
          /\ UNCHANGED crashes
    BY <1>2, RunTickEffect
  <2>2. ASSUME NEW d \in claims
        PROVE  jobs[d].attempt < jobs[d].maxAttempts + crashes
    <3>1. ~ \E a \in attempts : a.id = d
      BY <2>1 DEF AttemptOwnsLease, isDue
    <3>2. /\ jobs[d].attempt \in Nat
          /\ jobs[d].maxAttempts \in Nat
          /\ jobs[d].status \in {"pending", "in-flight"}
      BY <2>1 DEF Job
    <3>3. d \in Deliveries /\ Queued(d)
      BY <2>1 DEF isDue
    <3>4. crashes \in Nat
      BY <1>0
    <3>5. \/ jobs[d].attempt < jobs[d].maxAttempts
          \/ jobs[d].attempt < jobs[d].maxAttempts + crashes
      BY <3>1, <3>3 DEF BudgetInv
    <3>6. QED
      BY <3>2, <3>4, <3>5
  <2>3. ASSUME NEW d \in claims
        PROVE  /\ \E a \in attempts' : a.id = d
               /\ jobs'[d].status = "in-flight"
               /\ jobs'[d].attempt <= jobs'[d].maxAttempts + crashes'
    <3> DEFINE call == [tick |-> t, id |-> d, attempt |-> jobs[d].attempt + 1,
                        maxAttempts |-> jobs[d].maxAttempts, age |-> 0]
    <3>0. call \in attempts'
      BY <2>1
    <3>a. call.id = d
      OBVIOUS
    <3> HIDE DEF call
    <3>1. \E a \in attempts' : a.id = d
      BY <3>0, <3>a
    <3>2. /\ jobs'[d].attempt = jobs[d].attempt + 1
          /\ jobs'[d].maxAttempts = jobs[d].maxAttempts
          /\ jobs'[d].status = "in-flight"
      BY <2>1, ClaimedIsJob
    <3>3. QED
      BY <1>0, <2>1, <2>2, <3>1, <3>2 DEF Job
  <2>4. QED
    BY <2>1, <2>3 DEF BudgetInv, Queued
<1>3. ASSUME NEW a \in attempts, AttemptSettles(a)
      PROVE  BudgetInv'
  <2>1. attempts' = attempts \ {a} /\ UNCHANGED crashes
    BY <1>3, SettleEffect
  <2>2. ASSUME NEW e \in Deliveries
        PROVE  \/ jobs'[e] = jobs[e] /\ e # a.id
               \/ jobs'[e] = NoJob
               \/ /\ jobs'[e].status = "pending"
                  /\ jobs'[e].attempt < jobs'[e].maxAttempts
    BY <1>3, SettleEffect
  <2>3. QED
    BY <1>0, <2>1, <2>2 DEF BudgetInv, Queued, Job
<1>4. ASSUME NEW d \in Deliveries, DeadLetterTaken(d)
      PROVE  BudgetInv'
  BY <1>4 DEF DeadLetterTaken, BudgetInv, Queued
<1>5. CASE Crash
  BY <1>0, <1>5 DEF Crash, BudgetInv, Queued, Job
<1>6. CASE Elapse
  <2>1. attempts' = {Older(a) : a \in attempts} /\ UNCHANGED crashes
    BY <1>6, ElapseEffect
  <2>2. \A a \in attempts : Older(a).id = a.id
    BY <1>6, ElapseEffect, OlderIsAttempt DEF TypeOK
  <2>3. \A d \in Deliveries :
          (\E a \in attempts : a.id = d) => \E a \in attempts' : a.id = d
    BY <2>1, <2>2
  <2>4. \A d \in Deliveries : Queued(d)' =>
          /\ Queued(d)
          /\ jobs'[d].attempt = jobs[d].attempt
          /\ jobs'[d].maxAttempts = jobs[d].maxAttempts
          /\ jobs'[d].status = jobs[d].status
    BY <1>6, ElapseEffect DEF Queued
  <2>5. QED
    BY <2>1, <2>3, <2>4 DEF BudgetInv
<1>7. CASE UNCHANGED vars
  BY <1>7 DEF vars, BudgetInv, Queued
<1>8. QED
  BY <1>1, <1>2, <1>3, <1>4, <1>5, <1>6, <1>7, StepCases

(* With the default timing a delivery overruns its attempt budget by at    *)
(* most one attempt per crash of the process, and not at all without one.  *)
THEOREM OverrunBound ==
  ASSUME TimelyDelivery
  PROVE  Spec => []OverrunBoundedByCrashes
<1>1. Init => Ownership /\ BudgetInv
  BY DEF Init, Ownership, AttemptOwnsLease, OneAttemptPerDelivery, BudgetInv, Queued
<1>2. TypeOK /\ TypeOK' /\ Ownership /\ BudgetInv /\ [Next]_vars
        => Ownership' /\ BudgetInv'
  BY OwnershipStep, BudgetStep
<1>3. BudgetInv => OverrunBoundedByCrashes
  BY DEF BudgetInv, OverrunBoundedByCrashes
<1>4. QED
  BY <1>1, <1>2, <1>3, TypeCorrect, PTL DEF Spec

----------------------------------------------------------------------------

(* A step other than a claim leases no job that was not leased before. *)
LEMMA LeasesOnlyShrink ==
  ASSUME TypeOK, TypeOK', [Next]_vars, ~ \E t \in Ticks : RunTick(t)
  PROVE  \A d \in Deliveries : isLeased(d)' => isLeased(d)
<1> USE RetryQueueAssumption, NoJobAssumption
<1>1. ASSUME NEW d \in Deliveries, NEW made \in Nat, NEW budget \in Nat,
             NEW immediate \in BOOLEAN, Schedule(d, made, budget, immediate)
      PROVE  \A e \in Deliveries : isLeased(e)' => isLeased(e)
  BY <1>1, ScheduleEffect DEF isLeased, Queued
<1>2. ASSUME NEW a \in attempts, AttemptSettles(a)
      PROVE  \A e \in Deliveries : isLeased(e)' => isLeased(e)
  BY <1>2, SettleEffect DEF isLeased, Queued
<1>3. ASSUME NEW d \in Deliveries, DeadLetterTaken(d)
      PROVE  \A e \in Deliveries : isLeased(e)' => isLeased(e)
  BY <1>3 DEF DeadLetterTaken, isLeased, Queued
<1>4. CASE Crash
  BY <1>4 DEF Crash, isLeased, Queued
<1>5. CASE Elapse
  <2>1. \A d \in Deliveries : Queued(d) => jobs[d].lease \in Nat
    BY QueuedIsJob DEF Job
  <2>2. QED
    BY <1>5, <2>1, ElapseEffect DEF isLeased, Queued, Less
<1>6. CASE UNCHANGED vars
  BY <1>6 DEF vars, isLeased, Queued
<1>7. QED
  BY <1>1, <1>2, <1>3, <1>4, <1>5, <1>6, StepCases

LEMMA LeaseCapStep ==
  ASSUME TypeOK, TypeOK', LeaseCap, [Next]_vars
  PROVE  LeaseCap'
<1> USE RetryQueueAssumption, NoJobAssumption
<1> SUFFICES ASSUME NEW target \in Targets
             PROVE  Cardinality(LeasedOn(target)') <= PerTargetConcurrency
  BY DEF LeaseCap
<1>1. /\ IsFiniteSet(LeasedOn(target)) /\ Cardinality(LeasedOn(target)) \in Nat
      /\ IsFiniteSet(LeasedOn(target)') /\ Cardinality(LeasedOn(target)') \in Nat
  <2>1. LeasedOn(target) \in SUBSET Deliveries /\ LeasedOn(target)' \in SUBSET Deliveries
    BY DEF LeasedOn
  <2>2. IsFiniteSet(LeasedOn(target)) /\ IsFiniteSet(LeasedOn(target)')
    BY <2>1, FS_Subset
  <2>3. QED
    BY <2>2, FS_CardinalityType
<1>2. CASE ~ \E t \in Ticks : RunTick(t)
  <2>1. LeasedOn(target)' \in SUBSET LeasedOn(target)
    BY <1>2, LeasesOnlyShrink DEF LeasedOn
  <2>2. Cardinality(LeasedOn(target)') <= Cardinality(LeasedOn(target))
    BY <1>1, <2>1, FS_Subset
  <2>3. QED
    BY <1>1, <2>2 DEF LeaseCap
<1>3. ASSUME NEW t \in Ticks, RunTick(t)
      PROVE  Cardinality(LeasedOn(target)') <= PerTargetConcurrency
  <2>1. PICK claims \in SUBSET Deliveries :
          /\ Claimable(claims)
          /\ \A d \in claims : isDue(d) /\ jobs'[d] = Claimed(jobs[d])
          /\ \A d \in Deliveries \ claims : jobs'[d] = jobs[d]
    BY <1>3, RunTickEffect
  <2>2. LeasedOn(target)' \in SUBSET (LeasedOn(target) \cup OnTarget(claims, target))
    BY <2>1 DEF LeasedOn, OnTarget, isLeased, Queued
  <2>3. IsFiniteSet(OnTarget(claims, target)) /\ Cardinality(OnTarget(claims, target)) \in Nat
    <3>1. OnTarget(claims, target) \in SUBSET Deliveries
      BY DEF OnTarget
    <3>2. QED
      BY <3>1, FS_Subset, FS_CardinalityType
  <2>4. CASE OnTarget(claims, target) = {}
    <3>1. Cardinality(LeasedOn(target)') <= Cardinality(LeasedOn(target))
      BY <1>1, <2>2, <2>4, FS_Subset
    <3>2. QED
      BY <1>1, <3>1 DEF LeaseCap
  <2>5. CASE OnTarget(claims, target) # {}
    <3>1. LeasedOn(target) \cap OnTarget(claims, target) = {}
      BY <2>1 DEF LeasedOn, OnTarget, isDue
    <3>2. LET both == LeasedOn(target) \cup OnTarget(claims, target)
          IN  /\ IsFiniteSet(both)
              /\ Cardinality(both) = Cardinality(LeasedOn(target))
                                       + Cardinality(OnTarget(claims, target))
      BY <1>1, <2>3, <3>1, FS_Union, FS_EmptySet
    <3>3. Cardinality(LeasedOn(target)') <= Cardinality(LeasedOn(target))
                                             + Cardinality(OnTarget(claims, target))
      BY <2>2, <3>2, FS_Subset
    <3>4. Cardinality(LeasedOn(target)) + Cardinality(OnTarget(claims, target))
            <= PerTargetConcurrency
      BY <2>1, <2>5 DEF Claimable
    <3>5. QED
      BY <1>1, <2>3, <3>3, <3>4
  <2>6. QED
    BY <2>4, <2>5
<1>4. QED
  BY <1>2, <1>3

LEMMA LeaseCapInit ==
  ASSUME Init
  PROVE  LeaseCap
<1>1. \A target \in Targets : LeasedOn(target) = {}
  BY DEF Init, LeasedOn, isLeased, Queued
<1>2. QED
  BY <1>1, FS_EmptySet, RetryQueueAssumption DEF LeaseCap

(* The leases on one receiver host never exceed the cap, whatever the      *)
(* timing of deliveries.                                                   *)
THEOREM LeasesWithinCap == Spec => []LeaseCap
<1>1. Init => LeaseCap
  BY LeaseCapInit
<1>2. TypeOK /\ TypeOK' /\ LeaseCap /\ [Next]_vars => LeaseCap'
  BY LeaseCapStep
<1>3. QED
  BY <1>1, <1>2, TypeCorrect, PTL DEF Spec

(* Attempts that own their leases are no more than the leases. *)
LEMMA OwnedAttemptsWithinCap ==
  ASSUME TypeOK, Ownership, LeaseCap
  PROVE  TargetCap
<1> SUFFICES ASSUME NEW target \in Targets
             PROVE  Cardinality({a \in attempts : TargetOf[a.id] = target})
                      <= PerTargetConcurrency
  BY DEF TargetCap
<1> DEFINE here == {a \in attempts : TargetOf[a.id] = target}
           idOf == [a \in here |-> a.id]
<1>1. idOf \in [here -> LeasedOn(target)]
  BY DEF Ownership, AttemptOwnsLease, LeasedOn, TypeOK, Attempt
<1>2. \A a, b \in here : idOf[a] = idOf[b] => a = b
  BY DEF Ownership, OneAttemptPerDelivery
<1>3. idOf \in Injection(here, LeasedOn(target))
  BY <1>1, <1>2 DEF Injection, IsInjective
<1>4. IsFiniteSet(LeasedOn(target))
  <2>1. LeasedOn(target) \in SUBSET Deliveries
    BY DEF LeasedOn
  <2>2. QED
    BY <2>1, FS_Subset, RetryQueueAssumption
<1>5. /\ IsFiniteSet(here)
      /\ Cardinality(here) <= Cardinality(LeasedOn(target))
  BY <1>3, <1>4, FS_Injection
<1>6. Cardinality(here) \in Nat /\ Cardinality(LeasedOn(target)) \in Nat
  BY <1>4, <1>5, FS_CardinalityType
<1>7. Cardinality(LeasedOn(target)) <= PerTargetConcurrency
  BY DEF LeaseCap
<1>8. QED
  BY <1>5, <1>6, <1>7, RetryQueueAssumption

(* With the default timing a receiver host never has more requests in      *)
(* flight from this queue than perTargetConcurrency, across any number of  *)
(* overlapping ticks.                                                      *)
THEOREM TargetCapHolds ==
  ASSUME TimelyDelivery
  PROVE  Spec => []TargetCap
<1>1. Init => Ownership
  BY DEF Init, Ownership, AttemptOwnsLease, OneAttemptPerDelivery
<1>2. TypeOK /\ TypeOK' /\ Ownership /\ [Next]_vars => Ownership'
  BY OwnershipStep
<1>3. TypeOK /\ Ownership /\ LeaseCap => TargetCap
  BY OwnedAttemptsWithinCap
<1>4. QED
  BY <1>1, <1>2, <1>3, TypeCorrect, LeasesWithinCap, PTL DEF Spec
=============================================================================
