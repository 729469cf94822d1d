----------------------- MODULE PartitionedRun_proofs -----------------------
(***************************************************************************)
(* Proofs about the coverage map and about campaigns on one checkpoint,    *)
(* for every ring, every schedule, every assignment of seeds to slots and  *)
(* all pool sizes.                                                         *)
(***************************************************************************)
EXTENDS PartitionedRun, RingCoverage, FiniteSetTheorems, WellFoundedInduction, TLAPS

----------------------------------------------------------------------------
(* The division of the ring. *)

(* Division with remainder. *)
LEMMA DivMod ==
  ASSUME NEW m \in Nat, NEW n \in Nat \ {0}
  PROVE  /\ m \div n \in Nat
         /\ m % n \in 0 .. n - 1
         /\ m = n * (m \div n) + (m % n)
<1>1. m \div n \in Nat /\ m % n \in 0 .. n - 1
  OBVIOUS
<1>2. m = n * (m \div n) + (m % n)
  OBVIOUS
<1> QED BY <1>1, <1>2

LEMMA ProductOrder ==
  ASSUME NEW i \in Nat, NEW j \in Nat, NEW k \in Nat \ {0}, i * k < j * k
  PROVE  i < j
  OBVIOUS

LEMMA ProductMonotone ==
  ASSUME NEW i \in Nat, NEW j \in Nat, NEW k \in Nat, i <= j
  PROVE  i * k <= j * k
  OBVIOUS

(* worker_for_seed names a worker of the pool, and one whose range has the *)
(* slot, also when there are more workers than slots.                      *)
LEMMA NamedOwner ==
  ASSUME NEW n \in Nat \ {0}, NEW slot \in Slots
  PROVE  /\ workerForSlot(slot, n) \in 0 .. n - 1
         /\ slot \in Owned(workerForSlot(slot, n), n)
<1> DEFINE base  == RingSize \div n
           extra == RingSize % n
           large == base + 1
<1>1. base \in Nat /\ extra \in 0 .. n - 1 /\ RingSize = n * base + extra
  BY DivMod, RingAssumption
<1>2. slot \in Nat /\ slot < RingSize
  BY RingAssumption DEF Slots
<1>3. CASE slot < extra * large
  <2> DEFINE i == slot \div large
             r == slot % large
  <2>0. large \in Nat \ {0}
    BY <1>1
  <2>1. i \in Nat /\ r \in 0 .. large - 1 /\ slot = large * i + r
    <3> HIDE DEF large
    <3> QED BY <1>2, <2>0, DivMod
  <2> HIDE DEF i, r, base, extra
  <2>2. i * large < extra * large
    BY <1>1, <1>2, <1>3, <2>1
  <2>3. i < extra
    BY <1>1, <2>1, <2>2, ProductOrder
  <2>4. large * i = i * base + i
    BY <1>1, <2>1
  <2>5. slot >= i * base + i /\ slot < i * base + i + base + 1
    BY <1>1, <2>1, <2>4
  <2>6. slot \in Owned(i, n)
    BY <1>1, <2>1, <2>3, <2>5 DEF Owned, SlotsOf, contains, ringRangeFor, base, extra
  <2>7. workerForSlot(slot, n) = i
    BY <1>3 DEF workerForSlot, i, large, base, extra
  <2> QED BY <1>1, <2>1, <2>3, <2>6, <2>7
<1>4. CASE ~(slot < extra * large)
  <2> DEFINE rest == slot - extra * large
             i == rest \div base
             r == rest % base
  <2> HIDE DEF base, extra
  <2>1. extra * large = extra * base + extra /\ (n - extra) * base = n * base - extra * base
    BY <1>1
  <2>2. rest \in Nat /\ rest < (n - extra) * base
    BY <1>1, <1>2, <1>4, <2>1
  <2>3. base # 0
    BY <1>1, <2>2
  <2>4. i \in Nat /\ r \in 0 .. base - 1 /\ rest = base * i + r
    BY <1>1, <2>2, <2>3, DivMod
  <2> HIDE DEF i, r
  <2>5. i * base < (n - extra) * base
    BY <1>1, <2>2, <2>4
  <2>6. i < n - extra
    BY <1>1, <2>3, <2>4, <2>5, ProductOrder
  <2>7. (extra + i) * base = extra * base + base * i
    BY <1>1, <2>4
  <2>8. /\ slot >= (extra + i) * base + extra
        /\ slot < (extra + i) * base + extra + base
    BY <1>1, <1>2, <2>1, <2>4, <2>7
  <2>9. slot \in Owned(extra + i, n)
    <3> DEFINE w == extra + i
    <3>1. w \in Nat /\ w >= extra
      BY <1>1, <2>4
    <3> HIDE DEF w
    <3>2. slot >= w * base + extra /\ slot < w * base + extra + base
      BY <2>8 DEF w
    <3>3. slot \in Owned(w, n)
      BY <1>1, <3>1, <3>2 DEF Owned, SlotsOf, contains, ringRangeFor, base, extra
    <3> QED BY <3>3 DEF w
  <2>10. workerForSlot(slot, n) = extra + i
    BY <1>4, <2>3 DEF workerForSlot, i, rest, large, base, extra
  <2> QED BY <1>1, <2>4, <2>6, <2>9, <2>10
<1> QED BY <1>3, <1>4

(* "the returned ranges are pairwise disjoint and cover exactly            *)
(* 0..RING_SIZE" (worker_partition.rs 498-501), the second half: every     *)
(* slot belongs to a worker of the pool.                                   *)
THEOREM EverySlotOwned ==
  ASSUME NEW n \in Nat \ {0}, NEW slot \in Slots
  PROVE  \E i \in 0 .. n - 1 : slot \in Owned(i, n)
  BY NamedOwner

(* The first half: a slot belongs to no two workers of a pool. *)
THEOREM OneOwner ==
  ASSUME NEW n \in Nat \ {0}, NEW i \in 0 .. n - 1, NEW j \in 0 .. n - 1,
         NEW slot \in Owned(i, n) \cap Owned(j, n)
  PROVE  i = j
<1> DEFINE base  == RingSize \div n
           extra == RingSize % n
           start(w) == w * base + IF w <= extra THEN w ELSE extra
           end(w) == start(w) + base + IF w < extra THEN 1 ELSE 0
<1>1. base \in Nat /\ extra \in 0 .. n - 1
  BY DivMod, RingAssumption
<1>2. \A w \in {i, j} : slot \in Int /\ start(w) <= slot /\ slot < end(w)
  BY <1>1, RingAssumption DEF Owned, SlotsOf, Slots, contains, ringRangeFor
<1>3. ASSUME NEW v \in 0 .. n - 1, NEW w \in 0 .. n - 1, v < w
      PROVE  end(v) <= start(w)
  <2> HIDE DEF base, extra
  <2>1. (v + 1) * base <= w * base
    BY <1>1, <1>3, ProductMonotone
  <2>2. (v + 1) * base = v * base + base
    BY <1>1
  <2> QED BY <1>1, <1>3, <2>1, <2>2
<1>4. ASSUME NEW w \in 0 .. n - 1 PROVE start(w) \in Int /\ end(w) \in Int
  <2> HIDE DEF base, extra
  <2> QED BY <1>1
<1> HIDE DEF start, end
<1> QED BY <1>2, <1>3, <1>4

(* The two computations of the code agree, for every ring and every pool:  *)
(* the worker that worker_for_seed names for a slot is the one whose       *)
(* ring_range_for has the slot (worker_partition.rs 498-501, 620-623).     *)
THEOREM RangesAgreeWithOwners ==
  ASSUME NEW n \in Nat \ {0}, NEW i \in 0 .. n - 1
  PROVE  SlotsOf(ringRangeFor(i, n)) = {slot \in Slots : workerForSlot(slot, n) = i}
<1>1. ASSUME NEW slot \in Slots
      PROVE  slot \in Owned(i, n) <=> workerForSlot(slot, n) = i
  <2>1. workerForSlot(slot, n) \in 0 .. n - 1 /\ slot \in Owned(workerForSlot(slot, n), n)
    BY NamedOwner
  <2>2. slot \in Owned(i, n) => workerForSlot(slot, n) = i
    BY <2>1, OneOwner
  <2> QED BY <2>1, <2>2
<1> QED BY <1>1 DEF Owned, SlotsOf

----------------------------------------------------------------------------
(* Types. *)

LEMMA StepCases ==
  ASSUME [Next]_vars
  PROVE  \/ \E p \in Processes, w \in WorkerPartition : Resume(p, w)
         \/ \E p \in Processes : Step(p)
         \/ \E p \in Processes : Save(p)
         \/ \E p \in Processes : Crash(p)
         \/ Cancel
         \/ UNCHANGED vars
  BY DEF Next

LEMMA SeedsAre ==
  \A s : s \in Seeds <=> s \in Nat /\ s < TotalSeeds
  BY RunAssumption DEF Seeds

LEMMA NotRunningIsRun == NotRunning \in Run
  BY RunAssumption DEF NotRunning, Run, Drivers, Statuses

LEMMA TypeInit ==
  ASSUME Init
  PROVE  TypeOK
<1>1. NewCheckpoint \in Checkpoint
  BY RunAssumption DEF NewCheckpoint, Checkpoint
<1>2. RunTypeOK
  <2>1. run \in [Processes -> Run] /\ checkpoint \in [Processes -> Checkpoint]
    BY <1>1, NotRunningIsRun DEF Init, RunInit
  <2>2. executed \in [Seeds -> 0 .. MaxExecutions]
    BY RunAssumption DEF Init, RunInit
  <2> QED BY <2>1, <2>2 DEF Init, RunInit, RunTypeOK
<1>3. worker \in [Processes -> Worker]
  BY DEF Init, Worker
<1> QED BY <1>1, <1>2, <1>3, PoolAssumption DEF Init, TypeOK

(* What a resume starts from, typed. *)
LEMMA RingStartTypes ==
  ASSUME RunTypeOK, NEW p \in Processes, NEW from \in Checkpoint,
         NEW owned \in SUBSET Slots, RingStart(p, from, owned)
  PROVE  run' \in [Processes -> Run] /\ checkpoint' \in [Processes -> Checkpoint]
<1>1. run' \in [Processes -> Run]
  BY RunAssumption DEF RunTypeOK, RingStart, Run, Drivers, Statuses
<1>2. checkpoint' \in [Processes -> Checkpoint]
  BY RunAssumption DEF RunTypeOK, RingStart, Checkpoint
<1> QED BY <1>1, <1>2

LEMMA WorkDoneTypes ==
  ASSUME RunTypeOK, NEW p \in Processes, NEW ran \in BOOLEAN, WorkDone(p, ran)
  PROVE  executed' \in [Seeds -> 0 .. MaxExecutions]
<1>1. ASSUME NEW s \in Seeds, executed[s] \in 0 .. MaxExecutions
      PROVE  (IF ran /\ executed[s] < MaxExecutions THEN executed[s] + 1 ELSE executed[s])
               \in 0 .. MaxExecutions
  BY <1>1, RunAssumption
<1> QED BY <1>1 DEF RunTypeOK, WorkDone

(* A driver's step keeps the types of its variables. *)
LEMMA RingStepTypes ==
  ASSUME RunTypeOK, NEW p \in Processes,
         \/ RingPass(p)
         \/ RingPassCompleted(p)
         \/ RingWork(p, TRUE)
         \/ RingFail(p, FALSE)
         \/ RingReturn(p)
  PROVE  /\ run' \in [Processes -> Run]
         /\ checkpoint' \in [Processes -> Checkpoint]
         /\ executed' \in [Seeds -> 0 .. MaxExecutions]
<1> USE RunAssumption, SeedsAre
<1>0. run[p] \in Run /\ checkpoint[p] \in Checkpoint
  BY DEF RunTypeOK
<1>a. ASSUME Iterates(p, "ring")
      PROVE  /\ run[p].cursor \in Seeds
             /\ run[p].cursor + 1 \in 0 .. TotalSeeds
             /\ SlotAt(p) \in Slots
  <2>1. run[p].cursor \in 0 .. TotalSeeds /\ run[p].cursor < TotalSeeds
    BY <1>0, <1>a DEF Iterates, Run
  <2>2. run[p].cursor \in Seeds
    BY <2>1
  <2> QED BY <2>1, <2>2 DEF SlotAt
<1>b. ASSUME AdvanceSweeping(p), Iterates(p, "ring")
      PROVE  run' \in [Processes -> Run]
  <2> DEFINE swept == IF LastIndexOfSlot(run[p].cursor)
                        THEN run[p].swept \cup {SlotAt(p)} ELSE run[p].swept
  <2>1. swept \in SUBSET Slots
    BY <1>0, <1>a, <1>b DEF Run
  <2>2. run' = [run EXCEPT ![p].cursor = run[p].cursor + 1, ![p].swept = swept]
    BY <1>b DEF AdvanceSweeping
  <2> HIDE DEF swept
  <2> QED BY <1>0, <1>a, <1>b, <2>1, <2>2 DEF RunTypeOK, Run
<1>1. CASE RingPass(p)
  <2>1. run' \in [Processes -> Run]
    BY <1>0, <1>a, <1>1 DEF RunTypeOK, RingPass, Advance, Run
  <2>2. checkpoint' \in [Processes -> Checkpoint]
    BY <1>0, <1>a, <1>1 DEF RunTypeOK, RingPass, Checkpoint
  <2> QED BY <1>1, <2>1, <2>2 DEF RingPass, RunTypeOK
<1>2. CASE RingPassCompleted(p)
  <2>1. run' \in [Processes -> Run]
    BY <1>b, <1>2 DEF RingPassCompleted
  <2>2. checkpoint' \in [Processes -> Checkpoint]
    BY <1>0, <1>a, <1>2 DEF RunTypeOK, RingPassCompleted, Checkpoint
  <2> QED BY <1>2, <2>1, <2>2 DEF RingPassCompleted, RunTypeOK
<1>3. CASE RingWork(p, TRUE)
  <2>1. run' \in [Processes -> Run]
    BY <1>b, <1>3 DEF RingWork, RingWorks
  <2>2. checkpoint' \in [Processes -> Checkpoint]
    BY <1>0, <1>a, <1>3 DEF RunTypeOK, RingWork, RingWorks, RecordSeed, Checkpoint
  <2> QED BY <1>3, <2>1, <2>2, WorkDoneTypes DEF RingWork
<1>4. CASE RingFail(p, FALSE)
  <2>1. run' \in [Processes -> Run]
    BY <1>0, <1>4 DEF RunTypeOK, RingFail, Return, Run, Statuses
  <2>2. checkpoint' \in [Processes -> Checkpoint]
    BY <1>0, <1>4 DEF RunTypeOK, RingFail, CoverSwept, Run, Checkpoint
  <2> QED BY <1>4, <2>1, <2>2, WorkDoneTypes DEF RingFail
<1>5. CASE RingReturn(p)
  <2>1. run' \in [Processes -> Run]
    BY <1>0, <1>5 DEF RunTypeOK, RingReturn, Return, Run, Statuses
  <2>2. checkpoint' \in [Processes -> Checkpoint]
    BY <1>0, <1>5 DEF RunTypeOK, RingReturn, CoverSwept, Run, Checkpoint
  <2> QED BY <1>5, <2>1, <2>2 DEF RingReturn, RunTypeOK
<1> QED BY <1>1, <1>2, <1>3, <1>4, <1>5

LEMMA TypeStep ==
  ASSUME TypeOK, CallInv, [Next]_vars
  PROVE  TypeOK'
<1>1. ASSUME NEW p \in Processes, NEW w \in WorkerPartition, Resume(p, w)
      PROVE  TypeOK'
  <2>1. Owned(w[1], w[2]) \in SUBSET Slots
    BY DEF Owned, SlotsOf
  <2>2. run' \in [Processes -> Run] /\ checkpoint' \in [Processes -> Checkpoint]
    BY <1>1, <2>1, RingStartTypes DEF TypeOK, Resume
  <2> QED BY <1>1, <2>2 DEF TypeOK, RunTypeOK, Resume, Worker
<1>2. ASSUME NEW p \in Processes, Step(p) PROVE TypeOK'
  BY <1>2, RingStepTypes DEF TypeOK, RunTypeOK, Step
<1>3. ASSUME NEW p \in Processes, Save(p) PROVE TypeOK'
  <2>1. run' \in [Processes -> Run]
    BY <1>3, NotRunningIsRun DEF TypeOK, RunTypeOK, Save
  <2>2. saved' \in Checkpoint
    BY <1>3 DEF TypeOK, RunTypeOK, Save
  <2>3. finished' \subseteq WorkerPartition
    BY <1>3 DEF TypeOK, CallInv, Save
  <2> QED BY <1>3, <2>1, <2>2, <2>3 DEF TypeOK, RunTypeOK, Save
<1>4. ASSUME NEW p \in Processes, Crash(p) PROVE TypeOK'
  <2>1. run' \in [Processes -> Run]
    BY <1>4, NotRunningIsRun DEF TypeOK, RunTypeOK, Crash, Die
  <2>2. executed' \in [Seeds -> 0 .. MaxExecutions]
    BY <1>4, WorkDoneTypes DEF TypeOK, RunTypeOK, Crash, Die
  <2> QED BY <1>4, <2>1, <2>2, PoolAssumption DEF TypeOK, RunTypeOK, Crash
<1>5. ASSUME Cancel PROVE TypeOK'
  BY <1>5 DEF TypeOK, RunTypeOK, Cancel
<1>6. ASSUME UNCHANGED vars PROVE TypeOK'
  BY <1>6 DEF TypeOK, RunTypeOK, vars
<1> QED BY <1>1, <1>2, <1>3, <1>4, <1>5, <1>6, StepCases

----------------------------------------------------------------------------
(* What the steps of a driver do, field by field. *)

LEMMA StepFrame ==
  ASSUME RunTypeOK, NEW p \in Processes,
         \/ RingPass(p)
         \/ RingPassCompleted(p)
         \/ RingWork(p, TRUE)
         \/ RingFail(p, FALSE)
         \/ RingReturn(p)
  PROVE  /\ \A q \in Processes : q # p => run'[q] = run[q] /\ checkpoint'[q] = checkpoint[q]
         /\ run[p].status = "running"
         /\ run[p].driver = "ring"
         /\ run'[p].driver = run[p].driver
         /\ run'[p].owned = run[p].owned
         /\ run'[p].pending = run[p].pending
<1> USE DEF RunTypeOK, Run, Checkpoint
<1>1. CASE RingPass(p)
  BY <1>1 DEF RingPass, Iterates, Running, Advance
<1>2. CASE RingPassCompleted(p)
  BY <1>2 DEF RingPassCompleted, Iterates, Running, AdvanceSweeping
<1>3. CASE RingWork(p, TRUE)
  BY <1>3 DEF RingWork, RingWorks, Iterates, Running, AdvanceSweeping, RecordSeed
<1>4. CASE RingFail(p, FALSE)
  BY <1>4 DEF RingFail, RingWorks, Iterates, Running, Return, CoverSwept
<1>5. CASE RingReturn(p)
  BY <1>5 DEF RingReturn, StopsHere, ReachesEnd, Running, Return, CoverSwept
<1> QED BY <1>1, <1>2, <1>3, <1>4, <1>5

LEMMA PassEffect ==
  ASSUME RunTypeOK, NEW p \in Processes, RingPass(p)
  PROVE  /\ run'[p].status = "running"
         /\ run'[p].cursor = run[p].cursor + 1
         /\ run'[p].swept = run[p].swept
         /\ RingSlot[run[p].cursor] \notin run[p].pending
         /\ checkpoint'[p].covered = checkpoint[p].covered
         /\ checkpoint'[p].completed = checkpoint[p].completed
         /\ executed' = executed
  BY DEF RunTypeOK, Run, Checkpoint, RingPass, Iterates, Running, Advance, SlotAt

LEMMA SweepingEffect ==
  ASSUME RunTypeOK, NEW p \in Processes, run[p].cursor \in Seeds, AdvanceSweeping(p)
  PROVE  /\ run'[p].status = run[p].status
         /\ run'[p].cursor = run[p].cursor + 1
         /\ \A s \in Seeds : RingSlot[s] \in run'[p].swept =>
              RingSlot[s] \in run[p].swept \/ s <= run[p].cursor
         /\ run'[p].swept \subseteq run[p].swept \cup {RingSlot[run[p].cursor]}
<1>1. /\ run'[p].status = run[p].status
      /\ run'[p].cursor = run[p].cursor + 1
      /\ run'[p].swept = IF LastIndexOfSlot(run[p].cursor)
                           THEN run[p].swept \cup {RingSlot[run[p].cursor]}
                           ELSE run[p].swept
  BY DEF RunTypeOK, Run, AdvanceSweeping, SlotAt
<1> QED BY <1>1 DEF LastIndexOfSlot

LEMMA PassCompletedEffect ==
  ASSUME RunTypeOK, NEW p \in Processes, RingPassCompleted(p)
  PROVE  /\ run[p].cursor \in checkpoint[p].completed
         /\ run[p].cursor \in Seeds
         /\ RingSlot[run[p].cursor] \in run[p].pending
         /\ AdvanceSweeping(p)
         /\ checkpoint'[p].covered = checkpoint[p].covered
         /\ checkpoint'[p].completed = checkpoint[p].completed
         /\ executed' = executed
<1>1. checkpoint[p].completed \subseteq Seeds
  BY DEF RunTypeOK, Checkpoint
<1> QED BY <1>1 DEF RunTypeOK, Checkpoint, RingPassCompleted, SlotAt

LEMMA WorksAt ==
  ASSUME RunTypeOK, NEW p \in Processes, RingWorks(p)
  PROVE  /\ run[p].cursor \in Seeds
         /\ run[p].cursor \notin checkpoint[p].completed
         /\ RingSlot[run[p].cursor] \in run[p].pending
<1>1. run[p].cursor \in 0 .. TotalSeeds /\ run[p].cursor < TotalSeeds
  BY DEF RunTypeOK, Run, RingWorks, Iterates
<1> QED BY <1>1, SeedsAre, RunAssumption DEF RingWorks, SlotAt

(* Work that succeeded counts, up to MaxExecutions. *)
LEMMA WorkDoneEffect ==
  ASSUME RunTypeOK, NEW p \in Processes, run[p].cursor \in Seeds, WorkDone(p, TRUE)
  PROVE  /\ \A s \in Seeds : s # run[p].cursor => executed'[s] = executed[s]
         /\ executed'[run[p].cursor] > 0
         /\ executed'[run[p].cursor] <= executed[run[p].cursor] + 1
         /\ \A s \in Seeds : executed'[s] >= executed[s]
<1> DEFINE c == run[p].cursor
<1>1. /\ \A s \in Seeds : s # c => executed'[s] = executed[s]
      /\ executed'[c] = IF executed[c] < MaxExecutions THEN executed[c] + 1 ELSE executed[c]
  BY DEF RunTypeOK, WorkDone
<1>2. \A s \in Seeds : executed[s] \in 0 .. MaxExecutions
  BY DEF RunTypeOK
<1> HIDE DEF c
<1>3. c \in Seeds
  BY DEF c
<1>4. executed'[c] > 0 /\ executed'[c] <= executed[c] + 1 /\ executed'[c] >= executed[c]
  BY <1>1, <1>2, <1>3, RunAssumption
<1>5. \A s \in Seeds : executed'[s] >= executed[s]
  BY <1>1, <1>2, <1>4
<1> QED BY <1>1, <1>4, <1>5 DEF c

LEMMA WorkEffect ==
  ASSUME RunTypeOK, NEW p \in Processes, RingWork(p, TRUE)
  PROVE  /\ RingWorks(p)
         /\ WorkDone(p, TRUE)
         /\ AdvanceSweeping(p)
         /\ checkpoint'[p].covered = checkpoint[p].covered
         /\ checkpoint'[p].completed = checkpoint[p].completed \cup {run[p].cursor}
  BY DEF RunTypeOK, Checkpoint, RingWork, RecordSeed

LEMMA FailEffect ==
  ASSUME RunTypeOK, NEW p \in Processes, RingFail(p, FALSE)
  PROVE  /\ run'[p].status = "failed"
         /\ checkpoint'[p].covered = checkpoint[p].covered \cup run[p].swept
         /\ checkpoint'[p].completed = checkpoint[p].completed
         /\ executed' = executed
<1>1. run'[p].status = "failed"
  BY DEF RunTypeOK, Run, RingFail, Return
<1>2. /\ checkpoint'[p].covered = checkpoint[p].covered \cup run[p].swept
      /\ checkpoint'[p].completed = checkpoint[p].completed
  BY DEF RunTypeOK, Checkpoint, RingFail, CoverSwept
<1>3. executed' = executed
  BY DEF RunTypeOK, RingFail, WorkDone
<1> QED BY <1>1, <1>2, <1>3

LEMMA ReturnEffect ==
  ASSUME RunTypeOK, NEW p \in Processes, RingReturn(p)
  PROVE  /\ \/ run'[p].status = "cancelled"
            \/ run'[p].status = "completed" /\ run[p].cursor = TotalSeeds
         /\ checkpoint'[p].covered = checkpoint[p].covered \cup run[p].swept
         /\ checkpoint'[p].completed = checkpoint[p].completed
         /\ executed' = executed
<1>1. \/ run'[p].status = "cancelled"
      \/ run'[p].status = "completed" /\ run[p].cursor = TotalSeeds
  BY DEF RunTypeOK, Run, RingReturn, Return, ReachesEnd
<1>2. /\ checkpoint'[p].covered = checkpoint[p].covered \cup run[p].swept
      /\ checkpoint'[p].completed = checkpoint[p].completed
  BY DEF RunTypeOK, Checkpoint, RingReturn, CoverSwept
<1> QED BY <1>1, <1>2 DEF RingReturn

LEMMA ResumeEffect ==
  ASSUME TypeOK, NEW p \in Processes, NEW w \in WorkerPartition, Resume(p, w)
  PROVE  /\ \A q \in Processes : q # p => run'[q] = run[q] /\ checkpoint'[q] = checkpoint[q]
         /\ \A q \in Processes : run[q].status = "idle"
         /\ run'[p].driver = "ring"
         /\ run'[p].owned = Owned(w[1], w[2])
         /\ run'[p].pending = run'[p].owned \ saved.covered
         /\ run'[p].cursor = 0
         /\ run'[p].swept = {}
         /\ run'[p].status \in {"running", "completed"}
         /\ run'[p].status = "completed" => run'[p].pending = {}
         /\ checkpoint'[p].covered = saved.covered
         /\ checkpoint'[p].completed = saved.completed
         /\ worker'[p] = w
<1>1. checkpoint'[p].covered = saved.covered /\ checkpoint'[p].completed = saved.completed
  BY DEF TypeOK, RunTypeOK, Checkpoint, Resume, RingStart
<1>2. \A q \in Processes : q # p => run'[q] = run[q] /\ checkpoint'[q] = checkpoint[q]
  BY DEF TypeOK, RunTypeOK, Resume, RingStart
<1>3. /\ run'[p].driver = "ring"
      /\ run'[p].owned = Owned(w[1], w[2])
      /\ run'[p].pending = run'[p].owned \ saved.covered
      /\ run'[p].cursor = 0
      /\ run'[p].swept = {}
      /\ run'[p].status = IF run'[p].pending = {} THEN "completed" ELSE "running"
  BY DEF TypeOK, RunTypeOK, Resume, RingStart
<1> QED BY <1>1, <1>2, <1>3 DEF TypeOK, Resume, NobodyRuns

(* A call ends: its process is idle, the others are as before. *)
LEMMA EndEffect ==
  ASSUME TypeOK, NEW p \in Processes, run' = [run EXCEPT ![p] = NotRunning]
  PROVE  /\ run'[p].status = "idle"
         /\ \A q \in Processes : q # p => run'[q] = run[q]
  BY DEF TypeOK, RunTypeOK, NotRunning

(* A process dies before or after the work on a seed that it records       *)
(* nowhere.                                                                *)
LEMMA CrashWork ==
  ASSUME TypeOK, CallInv, NEW p \in Processes, Crash(p)
  PROVE  \/ executed' = executed
         \/ WorkDone(p, TRUE) /\ RingWorks(p)
<1>1. run[p].status = "running" => run[p].driver = "ring"
  BY DEF CallInv
<1> QED BY <1>1 DEF Crash, Die, PlainWorks, Iterates, Running

----------------------------------------------------------------------------
(* One call at a time. *)

LEMMA CallStep ==
  ASSUME TypeOK, CallInv, [Next]_vars
  PROVE  CallInv'
<1>1. ASSUME NEW p \in Processes, NEW w \in WorkerPartition, Resume(p, w)
      PROVE  CallInv'
  BY <1>1, ResumeEffect DEF CallInv
<1>2. ASSUME NEW p \in Processes, Step(p) PROVE CallInv'
  <2>1. /\ \A q \in Processes : q # p => run'[q] = run[q]
        /\ run[p].status = "running"
        /\ run'[p].driver = run[p].driver
        /\ run'[p].owned = run[p].owned
    BY <1>2, StepFrame DEF TypeOK, Step
  <2> QED BY <1>2, <2>1 DEF CallInv, Step
<1>3. ASSUME NEW p \in Processes, Save(p) PROVE CallInv'
  <2>1. /\ run'[p].status = "idle"
        /\ \A q \in Processes : q # p => run'[q] = run[q]
    BY <1>3, EndEffect DEF Save
  <2> QED BY <1>3, <2>1 DEF CallInv, Save
<1>4. ASSUME NEW p \in Processes, Crash(p) PROVE CallInv'
  <2>1. /\ run'[p].status = "idle"
        /\ \A q \in Processes : q # p => run'[q] = run[q]
    BY <1>4, EndEffect DEF Crash, Die
  <2> QED BY <1>4, <2>1 DEF CallInv, Crash
<1>5. ASSUME Cancel PROVE CallInv'
  BY <1>5 DEF CallInv, Cancel
<1>6. ASSUME UNCHANGED vars PROVE CallInv'
  BY <1>6 DEF CallInv, vars
<1> QED BY <1>1, <1>2, <1>3, <1>4, <1>5, <1>6, StepCases

(* The workers and their calls keep their types: a schedule index never    *)
(* runs past the schedule, coverage is made of slots of the ring and       *)
(* records of seeds of the schedule.                                       *)
THEOREM TypeCorrect == Spec => []TypeOK
<1>1. Init => TypeOK /\ CallInv
  <2> SUFFICES ASSUME Init PROVE TypeOK /\ CallInv
    OBVIOUS
  <2>1. \A p \in Processes : run[p].status = "idle"
    BY DEF Init, RunInit, NotRunning
  <2> QED BY <2>1, TypeInit DEF CallInv
<1>2. TypeOK /\ CallInv /\ [Next]_vars => (TypeOK /\ CallInv)'
  BY TypeStep, CallStep
<1> QED BY <1>1, <1>2, PTL DEF Spec

----------------------------------------------------------------------------
(* The records never run ahead of the work. *)

(* What was executed stays executed. *)
LEMMA ExecutedStays ==
  ASSUME TypeOK, CallInv, [Next]_vars
  PROVE  \A s \in Seeds : executed[s] > 0 => executed'[s] > 0
<1>0. ASSUME NEW p \in Processes, run[p].cursor \in Seeds, WorkDone(p, TRUE)
      PROVE  \A s \in Seeds : executed[s] > 0 => executed'[s] > 0
  <2>1. \A s \in Seeds : executed[s] \in Nat /\ executed'[s] \in Nat
    <3>1. executed' \in [Seeds -> 0 .. MaxExecutions]
      BY <1>0, WorkDoneTypes DEF TypeOK
    <3> QED BY <3>1, RunAssumption DEF TypeOK, RunTypeOK
  <2>2. \A s \in Seeds : executed'[s] >= executed[s]
    BY <1>0, WorkDoneEffect DEF TypeOK
  <2> QED BY <2>1, <2>2
<1>1. ASSUME NEW p \in Processes, RingWork(p, TRUE)
      PROVE  \A s \in Seeds : executed[s] > 0 => executed'[s] > 0
  BY <1>0, <1>1, WorkEffect, WorksAt DEF TypeOK
<1>2. ASSUME NEW p \in Processes, Crash(p)
      PROVE  \A s \in Seeds : executed[s] > 0 => executed'[s] > 0
  <2>1. CASE executed' = executed
    BY <2>1
  <2>2. CASE WorkDone(p, TRUE) /\ run[p].cursor \in Seeds
    BY <1>0, <2>2
  <2> QED BY <1>2, <2>1, <2>2, CrashWork, WorksAt DEF TypeOK
<1>3. ASSUME NEW p \in Processes, Step(p)
      PROVE  \A s \in Seeds : executed[s] > 0 => executed'[s] > 0
  BY <1>1, <1>3, FailEffect DEF Step, RingPass, RingPassCompleted, RingReturn, TypeOK
<1> QED BY <1>2, <1>3, StepCases DEF Resume, Save, Cancel, vars

LEMMA SweepStep ==
  ASSUME TypeOK, CallInv, SweepInv, [Next]_vars
  PROVE  SweepInv'
<1>0. \A s \in Seeds : executed[s] > 0 => executed'[s] > 0
  BY ExecutedStays
<1>t. /\ saved.completed \subseteq Seeds
      /\ \A p \in Processes : checkpoint[p].completed \subseteq Seeds
      /\ \A p \in Processes : run[p].cursor \in Int
      /\ Seeds \subseteq Int
      /\ \A s \in Seeds : s >= 0
  BY SeedsAre DEF TypeOK, RunTypeOK, Run, Checkpoint
<1>1. ASSUME NEW p \in Processes, NEW w \in WorkerPartition, Resume(p, w)
      PROVE  SweepInv'
  <2>1. executed' = executed /\ saved' = saved
    BY <1>1 DEF Resume
  <2>2. \A s \in Seeds : RingSlot[s] \in checkpoint'[p].covered => executed[s] > 0
    BY <1>1, ResumeEffect DEF SweepInv, CoverageSound
  <2>3. \A s \in checkpoint'[p].completed : executed[s] > 0
    BY <1>1, ResumeEffect DEF SweepInv
  <2>4. \A s \in Seeds : ~(s < run'[p].cursor)
    BY <1>t, <1>1, ResumeEffect
  <2>5. run'[p].swept = {}
    BY <1>1, ResumeEffect
  <2>6. \A q \in Processes : q # p => run'[q] = run[q] /\ checkpoint'[q] = checkpoint[q]
    BY <1>1, ResumeEffect
  <2> QED BY <2>1, <2>2, <2>3, <2>4, <2>5, <2>6 DEF SweepInv, CoverageSound
<1>2. ASSUME NEW p \in Processes, Step(p) PROVE SweepInv'
  <2>1. /\ \A q \in Processes : q # p => run'[q] = run[q] /\ checkpoint'[q] = checkpoint[q]
        /\ run[p].status = "running"
        /\ run'[p].pending = run[p].pending
    BY <1>2, StepFrame DEF TypeOK, Step
  <2>2. saved' = saved
    BY <1>2 DEF Step
  <2> DEFINE Records == \A s \in checkpoint'[p].completed : executed'[s] > 0
             SweptSlots ==
               \A s \in Seeds : RingSlot[s] \in checkpoint'[p].covered => executed'[s] > 0
             Sweeps == run'[p].status = "running" =>
               /\ \A s \in Seeds :
                    /\ RingSlot[s] \in run'[p].swept => s < run'[p].cursor
                    /\ s < run'[p].cursor /\ RingSlot[s] \in run[p].pending
                         => s \in checkpoint'[p].completed
               /\ run'[p].swept \subseteq run[p].pending
  <2>3. ASSUME RingPass(p) PROVE Records /\ SweptSlots /\ Sweeps
    <3>1. Records /\ SweptSlots
      BY <2>3, PassEffect DEF SweepInv, CoverageSound, TypeOK
    <3>2. Sweeps
      BY <1>t, <2>1, <2>3, PassEffect DEF SweepInv, TypeOK
    <3> QED BY <3>1, <3>2
  <2>4. ASSUME RingPassCompleted(p) PROVE Records /\ SweptSlots /\ Sweeps
    <3>1. Records /\ SweptSlots
      BY <2>4, PassCompletedEffect DEF SweepInv, CoverageSound, TypeOK
    <3>2. Sweeps
      BY <1>t, <2>1, <2>4, PassCompletedEffect, SweepingEffect DEF SweepInv, TypeOK
    <3> QED BY <3>1, <3>2
  <2>5. ASSUME RingWork(p, TRUE) PROVE Records /\ SweptSlots /\ Sweeps
    <3>1. run[p].cursor \in Seeds /\ RingSlot[run[p].cursor] \in run[p].pending
      BY <2>5, WorkEffect, WorksAt DEF TypeOK
    <3>2. executed'[run[p].cursor] > 0
      BY <2>5, <3>1, WorkEffect, WorkDoneEffect DEF TypeOK
    <3>3. Records /\ SweptSlots
      BY <1>0, <1>t, <2>5, <3>2, WorkEffect DEF SweepInv, CoverageSound, TypeOK
    <3>4. /\ run'[p].cursor = run[p].cursor + 1
          /\ \A s \in Seeds : RingSlot[s] \in run'[p].swept =>
               RingSlot[s] \in run[p].swept \/ s <= run[p].cursor
          /\ run'[p].swept \subseteq run[p].swept \cup {RingSlot[run[p].cursor]}
      BY <2>5, <3>1, WorkEffect, SweepingEffect DEF TypeOK
    <3>5. checkpoint'[p].completed = checkpoint[p].completed \cup {run[p].cursor}
      BY <2>5, WorkEffect DEF TypeOK
    <3>6. Sweeps
      BY <1>t, <2>1, <3>1, <3>4, <3>5 DEF SweepInv
    <3> QED BY <3>3, <3>6
  <2>a. \A s \in Seeds : RingSlot[s] \in run[p].swept => executed[s] > 0
    BY <2>1 DEF SweepInv
  <2>6. ASSUME RingFail(p, FALSE) PROVE Records /\ SweptSlots /\ Sweeps
    BY <2>a, <2>6, FailEffect DEF SweepInv, CoverageSound, TypeOK
  <2>7. ASSUME RingReturn(p) PROVE Records /\ SweptSlots /\ Sweeps
    BY <2>a, <2>7, ReturnEffect DEF SweepInv, CoverageSound, TypeOK
  <2>8. Records /\ SweptSlots /\ Sweeps
    BY <1>2, <2>3, <2>4, <2>5, <2>6, <2>7 DEF Step
  <2> QED BY <1>0, <1>t, <2>1, <2>2, <2>8 DEF SweepInv, CoverageSound
<1>3. ASSUME NEW p \in Processes, Save(p) PROVE SweepInv'
  <2>1. /\ run'[p].status = "idle"
        /\ \A q \in Processes : q # p => run'[q] = run[q]
    BY <1>3, EndEffect DEF Save
  <2> QED BY <1>3, <2>1 DEF SweepInv, CoverageSound, Save
<1>4. ASSUME NEW p \in Processes, Crash(p) PROVE SweepInv'
  <2>1. /\ run'[p].status = "idle"
        /\ \A q \in Processes : q # p => run'[q] = run[q]
    BY <1>4, EndEffect DEF Crash, Die
  <2> QED BY <1>0, <1>t, <1>4, <2>1 DEF SweepInv, CoverageSound, Crash
<1>5. ASSUME Cancel PROVE SweepInv'
  BY <1>5 DEF SweepInv, CoverageSound, Cancel
<1>6. ASSUME UNCHANGED vars PROVE SweepInv'
  BY <1>6 DEF SweepInv, CoverageSound, vars
<1> QED BY <1>1, <1>2, <1>3, <1>4, <1>5, <1>6, StepCases

----------------------------------------------------------------------------
(* Nothing is executed twice but for what a death took with it. *)

LEMMA OnceStep ==
  ASSUME TypeOK, CallInv, OnceInv, [Next]_vars
  PROVE  OnceInv'
<1>t. /\ crashes \in Nat
      /\ \A s \in Seeds : executed[s] \in Nat
  BY PoolAssumption, RunAssumption DEF TypeOK, RunTypeOK
<1>1. ASSUME NEW p \in Processes, NEW w \in WorkerPartition, Resume(p, w)
      PROVE  OnceInv'
  <2>1. UNCHANGED <<executed, saved, crashes>>
    BY <1>1 DEF Resume
  <2>2. NobodyRuns
    BY <1>1 DEF Resume
  <2>3. checkpoint'[p].completed = saved.completed
    BY <1>1, ResumeEffect
  <2>4. \A q \in Processes : q # p => run'[q].status = "idle"
    BY <1>1, ResumeEffect
  <2>5. run'[p].status # "idle"
    BY <1>1, ResumeEffect
  <2> QED BY <2>1, <2>2, <2>3, <2>4, <2>5 DEF OnceInv, ExecutedOnce, NobodyRuns
<1>2. ASSUME NEW p \in Processes, Step(p) PROVE OnceInv'
  <2>1. /\ \A q \in Processes : q # p => run'[q] = run[q] /\ checkpoint'[q] = checkpoint[q]
        /\ run[p].status = "running"
    BY <1>2, StepFrame DEF TypeOK, Step
  <2>2. UNCHANGED <<saved, crashes>>
    BY <1>2 DEF Step
  <2>3. \A q \in Processes : q # p => run'[q].status = "idle"
    BY <2>1 DEF CallInv
  <2>4. \A s \in Seeds \ checkpoint[p].completed : executed[s] <= crashes
    BY <2>1 DEF OnceInv
  <2> DEFINE Once == /\ run'[p].status # "idle"
                     /\ \A s \in Seeds : executed'[s] <= 1 + crashes
                     /\ \A s \in Seeds \ checkpoint'[p].completed : executed'[s] <= crashes
  <2>5. ASSUME RingPass(p) PROVE Once
    BY <2>4, <2>5, PassEffect DEF OnceInv, ExecutedOnce, TypeOK
  <2>6. ASSUME RingPassCompleted(p) PROVE Once
    BY <2>1, <2>4, <2>6, PassCompletedEffect, SweepingEffect DEF OnceInv, ExecutedOnce, TypeOK
  <2>7. ASSUME RingWork(p, TRUE) PROVE Once
    <3>1. run[p].cursor \in Seeds /\ run[p].cursor \notin checkpoint[p].completed
      BY <2>7, WorkEffect, WorksAt DEF TypeOK
    <3>2. /\ \A s \in Seeds : s # run[p].cursor => executed'[s] = executed[s]
          /\ executed'[run[p].cursor] <= executed[run[p].cursor] + 1
      BY <2>7, <3>1, WorkEffect, WorkDoneEffect DEF TypeOK
    <3>3. executed'[run[p].cursor] \in Nat
      <4>1. executed' \in [Seeds -> 0 .. MaxExecutions]
        BY <2>7, WorkEffect, WorkDoneTypes DEF TypeOK
      <4> QED BY <3>1, <4>1, RunAssumption
    <3>4. executed'[run[p].cursor] <= 1 + crashes
      BY <1>t, <2>4, <3>1, <3>2, <3>3
    <3>5. \A s \in Seeds : executed'[s] <= 1 + crashes
      BY <3>2, <3>4 DEF OnceInv, ExecutedOnce
    <3>6. checkpoint'[p].completed = checkpoint[p].completed \cup {run[p].cursor}
      BY <2>7, WorkEffect DEF TypeOK
    <3>7. run'[p].status # "idle"
      BY <2>1, <2>7, <3>1, WorkEffect, SweepingEffect DEF TypeOK
    <3> QED BY <2>4, <3>2, <3>5, <3>6, <3>7
  <2>8. ASSUME RingFail(p, FALSE) PROVE Once
    BY <2>4, <2>8, FailEffect DEF OnceInv, ExecutedOnce, TypeOK
  <2>9. ASSUME RingReturn(p) PROVE Once
    BY <2>4, <2>9, ReturnEffect DEF OnceInv, ExecutedOnce, TypeOK
  <2>10. Once
    BY <1>2, <2>5, <2>6, <2>7, <2>8, <2>9 DEF Step
  <2> QED BY <2>2, <2>3, <2>10 DEF OnceInv, ExecutedOnce, NobodyRuns
<1>3. ASSUME NEW p \in Processes, Save(p) PROVE OnceInv'
  <2>1. /\ run'[p].status = "idle"
        /\ \A q \in Processes : q # p => run'[q] = run[q]
    BY <1>3, EndEffect DEF Save
  <2>2. \A q \in Processes : run'[q].status = "idle"
    BY <1>3, <2>1 DEF CallInv, Save
  <2>3. UNCHANGED <<executed, crashes>> /\ saved' = checkpoint[p]
    BY <1>3 DEF Save
  <2>4. \A s \in Seeds \ checkpoint[p].completed : executed[s] <= crashes
    BY <1>3 DEF OnceInv, Save
  <2> QED BY <2>2, <2>3, <2>4 DEF OnceInv, ExecutedOnce
<1>4. ASSUME NEW p \in Processes, Crash(p) PROVE OnceInv'
  <2>1. /\ run'[p].status = "idle"
        /\ \A q \in Processes : q # p => run'[q] = run[q]
        /\ run[p].status # "idle"
    BY <1>4, EndEffect DEF Crash, Die
  <2>2. \A q \in Processes : run'[q].status = "idle"
    BY <2>1 DEF CallInv
  <2>3. crashes' = crashes + 1 /\ saved' = saved
    BY <1>4 DEF Crash
  <2>4. ASSUME NEW s \in Seeds PROVE executed'[s] <= crashes + 1
    <3>1. CASE executed' = executed
      BY <3>1, <1>t DEF OnceInv, ExecutedOnce
    <3>2. CASE WorkDone(p, TRUE) /\ RingWorks(p)
      <4>1. run[p].cursor \in Seeds /\ run[p].cursor \notin checkpoint[p].completed
        BY <3>2, WorksAt DEF TypeOK
      <4>2. /\ s # run[p].cursor => executed'[s] = executed[s]
            /\ executed'[run[p].cursor] <= executed[run[p].cursor] + 1
        BY <3>2, <4>1, WorkDoneEffect DEF TypeOK
      <4>3. executed[run[p].cursor] <= crashes
        BY <2>1, <4>1 DEF OnceInv
      <4>4. executed' \in [Seeds -> 0 .. MaxExecutions]
        BY <3>2, WorkDoneTypes DEF TypeOK
      <4>5. executed'[run[p].cursor] <= crashes + 1
        BY <1>t, <4>1, <4>2, <4>3, <4>4, RunAssumption
      <4> QED BY <1>t, <4>2, <4>5 DEF OnceInv, ExecutedOnce
    <3> QED BY <1>4, <3>1, <3>2, CrashWork
  <2>5. ASSUME NEW s \in Seeds PROVE executed'[s] <= 1 + crashes'
    <3>1. executed'[s] \in Nat
      BY <1>4, TypeStep, RunAssumption DEF TypeOK, RunTypeOK, Next
    <3> QED BY <1>t, <2>3, <2>4, <3>1
  <2> QED BY <1>t, <2>2, <2>3, <2>4, <2>5 DEF OnceInv, ExecutedOnce
<1>5. ASSUME Cancel PROVE OnceInv'
  BY <1>5 DEF OnceInv, ExecutedOnce, NobodyRuns, Cancel
<1>6. ASSUME UNCHANGED vars PROVE OnceInv'
  BY <1>6 DEF OnceInv, ExecutedOnce, NobodyRuns, vars
<1> QED BY <1>1, <1>2, <1>3, <1>4, <1>5, <1>6, StepCases

----------------------------------------------------------------------------
(* A worker that completes leaves nothing of its partition. *)

LEMMA DoneStep ==
  ASSUME TypeOK, CallInv, SweepInv, DoneInv, [Next]_vars
  PROVE  DoneInv'
<1>0. \A s \in Seeds : executed[s] > 0 => executed'[s] > 0
  BY ExecutedStays
<1>1. ASSUME NEW p \in Processes, NEW w \in WorkerPartition, Resume(p, w)
      PROVE  DoneInv'
  <2>1. UNCHANGED <<executed, saved, finished>>
    BY <1>1 DEF Resume
  <2>2. \A q \in Processes : q # p => run'[q] = run[q] /\ checkpoint'[q] = checkpoint[q]
    BY <1>1, ResumeEffect
  <2>3. run'[p].owned \subseteq run'[p].pending \cup checkpoint'[p].covered
    BY <1>1, ResumeEffect
  <2>4. run'[p].status = "completed" => run'[p].owned \subseteq saved.covered
    BY <1>1, ResumeEffect
  <2>5. run'[p].status = "completed" =>
          \A s \in Seeds : RingSlot[s] \in run'[p].owned => executed[s] > 0
    BY <2>4 DEF SweepInv, CoverageSound
  <2> QED BY <2>1, <2>2, <2>3, <2>5 DEF DoneInv
<1>2. ASSUME NEW p \in Processes, Step(p) PROVE DoneInv'
  <2>1. /\ \A q \in Processes : q # p => run'[q] = run[q] /\ checkpoint'[q] = checkpoint[q]
        /\ run[p].status = "running"
        /\ run'[p].owned = run[p].owned
        /\ run'[p].pending = run[p].pending
    BY <1>2, StepFrame DEF TypeOK, Step
  <2>2. finished' = finished
    BY <1>2 DEF Step
  <2>3. run[p].owned \subseteq run[p].pending \cup checkpoint[p].covered
    BY <2>1 DEF DoneInv
  <2> DEFINE Done == /\ run'[p].owned \subseteq run'[p].pending \cup checkpoint'[p].covered
                     /\ run'[p].status = "completed" =>
                          \A s \in Seeds : RingSlot[s] \in run'[p].owned => executed'[s] > 0
  <2>4. ASSUME RingPass(p) PROVE Done
    BY <2>1, <2>3, <2>4, PassEffect DEF TypeOK
  <2>5. ASSUME RingPassCompleted(p) PROVE Done
    BY <2>1, <2>3, <2>5, PassCompletedEffect, SweepingEffect DEF TypeOK
  <2>6. ASSUME RingWork(p, TRUE) PROVE Done
    <3>1. run'[p].status = run[p].status
      BY <2>6, WorkEffect, WorksAt, SweepingEffect DEF TypeOK
    <3> QED BY <2>1, <2>3, <2>6, <3>1, WorkEffect DEF TypeOK
  <2>7. ASSUME RingFail(p, FALSE) PROVE Done
    BY <2>1, <2>3, <2>7, FailEffect DEF TypeOK
  <2>8. ASSUME RingReturn(p) PROVE Done
    <3>1. ASSUME run[p].cursor = TotalSeeds, NEW s \in Seeds, RingSlot[s] \in run[p].owned
          PROVE  executed[s] > 0
      <4>1. s < run[p].cursor
        BY <3>1, SeedsAre
      <4>2. CASE RingSlot[s] \in run[p].pending
        BY <2>1, <4>1, <4>2 DEF SweepInv
      <4>3. CASE RingSlot[s] \in checkpoint[p].covered
        BY <4>3 DEF SweepInv, CoverageSound
      <4> QED BY <2>3, <3>1, <4>2, <4>3
    <3> QED BY <2>1, <2>3, <2>8, <3>1, ReturnEffect DEF TypeOK
  <2>9. Done
    BY <1>2, <2>4, <2>5, <2>6, <2>7, <2>8 DEF Step
  <2> QED BY <1>0, <2>1, <2>2, <2>9 DEF DoneInv
<1>3. ASSUME NEW p \in Processes, Save(p) PROVE DoneInv'
  <2>1. /\ run'[p].status = "idle"
        /\ \A q \in Processes : q # p => run'[q] = run[q]
    BY <1>3, EndEffect DEF Save
  <2>2. \A w \in finished' : \A s \in Seeds :
          RingSlot[s] \in Owned(w[1], w[2]) => executed[s] > 0
    BY <1>3 DEF DoneInv, CallInv, Save
  <2> QED BY <1>3, <2>1, <2>2 DEF DoneInv, Save
<1>4. ASSUME NEW p \in Processes, Crash(p) PROVE DoneInv'
  <2>1. /\ run'[p].status = "idle"
        /\ \A q \in Processes : q # p => run'[q] = run[q]
    BY <1>4, EndEffect DEF Crash, Die
  <2> QED BY <1>0, <1>4, <2>1 DEF DoneInv, Crash
<1>5. ASSUME Cancel PROVE DoneInv'
  BY <1>5 DEF DoneInv, Cancel
<1>6. ASSUME UNCHANGED vars PROVE DoneInv'
  BY <1>6 DEF DoneInv, vars
<1> QED BY <1>1, <1>2, <1>3, <1>4, <1>5, <1>6, StepCases

----------------------------------------------------------------------------
(* The campaign's promises. *)

Inv == TypeOK /\ CallInv /\ SweepInv /\ OnceInv /\ DoneInv

LEMMA Inductive == Spec => []Inv
<1>1. Init => Inv
  <2> SUFFICES ASSUME Init PROVE Inv
    OBVIOUS
  <2>1. \A p \in Processes : run[p].status = "idle" /\ checkpoint[p] = NewCheckpoint
    BY DEF Init, RunInit, NotRunning
  <2>2. saved = NewCheckpoint /\ finished = {} /\ crashes = 0
    BY DEF Init
  <2>3. \A s \in Seeds : executed[s] = 0
    BY DEF Init, RunInit
  <2>4. CallInv /\ DoneInv
    BY <2>1, <2>2 DEF CallInv, DoneInv
  <2>5. SweepInv
    BY <2>1, <2>2 DEF SweepInv, CoverageSound, NewCheckpoint
  <2>6. OnceInv
    BY <2>1, <2>2, <2>3 DEF OnceInv, ExecutedOnce
  <2> QED BY <2>4, <2>5, <2>6, TypeInit DEF Inv
<1>2. Inv /\ [Next]_vars => Inv'
  BY TypeStep, CallStep, SweepStep, OnceStep, DoneStep DEF Inv
<1> QED BY <1>1, <1>2, PTL DEF Spec

(* A slot that a checkpoint records as covered has all its seeds executed, *)
(* whenever the sweep was cancelled, failed or died                        *)
(* (drive_run_partitioned_from_checkpoint).                                *)
THEOREM SoundCoverage == Spec => []CoverageSound
<1>1. Inv => CoverageSound
  BY DEF Inv, SweepInv
<1> QED BY <1>1, Inductive, PTL

(* No seed is executed twice but for the work that a death took with it,   *)
(* for every sequence of pool sizes.                                       *)
THEOREM NothingTwice == Spec => []ExecutedOnce
<1>1. Inv => ExecutedOnce
  BY DEF Inv, OnceInv
<1> QED BY <1>1, Inductive, PTL

(* When all workers of some pool size have completed, in whatever order    *)
(* and mixed with other pool sizes, no seed is left out.                   *)
THEOREM NothingLeftOut == Spec => []NoHole
<1>1. Inv => NoHole
  <2> SUFFICES ASSUME Inv, NEW n \in Pools,
                      \A i \in 0 .. n - 1 : <<i, n>> \in finished,
                      NEW s \in Seeds
               PROVE  executed[s] > 0
    BY DEF NoHole
  <2>1. n \in Nat \ {0} /\ RingSlot[s] \in Slots
    BY PoolAssumption, RunAssumption
  <2>2. PICK i \in 0 .. n - 1 : RingSlot[s] \in Owned(i, n)
    BY <2>1, EverySlotOwned
  <2>3. <<i, n>> \in finished /\ <<i, n>>[1] = i /\ <<i, n>>[2] = n
    BY <2>2
  <2> QED BY <2>2, <2>3 DEF Inv, DoneInv
<1> QED BY <1>1, Inductive, PTL
----------------------------------------------------------------------------
(* Induction and recursion up to a number. *)

(* A set of numbers that is not empty has a least element. *)
LEMMA LeastNumber ==
  ASSUME NEW T, T \subseteq Nat, T # {}
  PROVE  \E x \in T : \A y \in T : x <= y
<1>1. PICK x \in T : \A y \in T : ~(<<y, x>> \in OpToRel(<, Nat))
  BY NatLessThanWellFounded, WFMin
<1>2. ASSUME NEW y \in T PROVE x <= y
  <2>1. x \in Nat /\ y \in Nat
    OBVIOUS
  <2>2. ~(y < x)
    BY <1>1, <2>1 DEF OpToRel
  <2>3. QED
    BY <2>1, <2>2
<1>3. QED
  BY <1>2

(* Induction up to N, over a set. *)
LEMMA UpTo ==
  ASSUME NEW N \in Nat, NEW T, 0 \in T, \A i \in 1 .. N : i - 1 \in T => i \in T
  PROVE  \A i \in 0 .. N : i \in T
<1> DEFINE B == {i \in 0 .. N : i \notin T}
<1>1. B = {}
  <2> SUFFICES ASSUME B # {} PROVE FALSE
    OBVIOUS
  <2>1. B \subseteq Nat
    OBVIOUS
  <2>2. PICK x \in B : \A y \in B : x <= y
    BY <2>1, LeastNumber
  <2>3. x \in 1 .. N /\ x - 1 \in 0 .. N /\ ~(x <= x - 1)
    BY <2>2
  <2>4. x - 1 \notin B
    BY <2>2, <2>3
  <2>5. QED
    BY <2>2, <2>3, <2>4
<1>2. QED
  BY <1>1

(* A function can be defined by recursion up to N. *)
Recursive(N, V, base, F) == N \in Nat /\ base \in V /\ F \in [(1 .. N) \X V -> V]

Iterated(N, V, base, F, g) ==
  g \in [0 .. N -> V] /\ g[0] = base /\ \A i \in 1 .. N : g[i] = F[<<i, g[i - 1]>>]

LEMMA Recursion ==
  ASSUME NEW N, NEW V, NEW base, NEW F, Recursive(N, V, base, F)
  PROVE  \E g : Iterated(N, V, base, F, g)
<1>0. N \in Nat /\ base \in V /\ F \in [(1 .. N) \X V -> V]
  BY DEF Recursive
<1> DEFINE Defined(n, g) == g[0] = base /\ \A i \in 1 .. n : g[i] = F[<<i, g[i - 1]>>]
           T == {n \in 0 .. N : \E g \in [0 .. n -> V] : Defined(n, g)}
<1>1. 0 \in T
  <2> DEFINE g == [i \in 0 .. 0 |-> base]
  <2>1. g \in [0 .. 0 -> V] /\ g[0] = base /\ 1 .. 0 = {}
    BY <1>0
  <2> HIDE DEF g
  <2>2. Defined(0, g)
    BY <2>1
  <2>3. QED
    BY <1>0, <2>1, <2>2
<1>2. ASSUME NEW n \in 1 .. N, n - 1 \in T PROVE n \in T
  <2>1. PICK g \in [0 .. n - 1 -> V] : Defined(n - 1, g)
    BY <1>2
  <2> DEFINE h == [i \in 0 .. n |-> IF i = n THEN F[<<n, g[n - 1]>>] ELSE g[i]]
  <2>2. F[<<n, g[n - 1]>>] \in V
    <3>1. g[n - 1] \in V
      BY <1>0, <2>1
    <3>2. <<n, g[n - 1]>> \in (1 .. N) \X V
      BY <3>1
    <3>3. QED
      BY <1>0, <3>2
  <2>3. h \in [0 .. n -> V]
    BY <2>2
  <2>4. h[0] = base
    BY <2>1
  <2>5. ASSUME NEW i \in 1 .. n PROVE h[i] = F[<<i, h[i - 1]>>]
    <3>1. h[i - 1] = g[i - 1]
      OBVIOUS
    <3>2. CASE i = n
      <4>1. h[i] = F[<<n, g[n - 1]>>]
        BY <3>2
      <4> HIDE DEF h
      <4>2. QED
        BY <3>1, <3>2, <4>1
    <3>3. CASE i # n
      <4>1. i \in 1 .. n - 1 /\ h[i] = g[i]
        BY <3>3
      <4>2. QED
        BY <2>1, <3>1, <4>1
    <3>4. QED
      BY <3>2, <3>3
  <2>6. Defined(n, h)
    BY <2>4, <2>5
  <2> HIDE DEF h
  <2>7. QED
    BY <2>3, <2>6
<1>3. N \in T
  <2> HIDE DEF T
  <2>1. \A i \in 0 .. N : i \in T
    BY <1>0, <1>1, <1>2, UpTo
  <2>2. QED
    BY <1>0, <2>1
<1>4. QED
  BY <1>3 DEF Iterated
----------------------------------------------------------------------------
(* Lists of ranges. *)

Norm(l) ==
  /\ l \in Seq(RingRange)
  /\ \A i \in 1 .. Len(l) : l[i].start < l[i].end
  /\ \A i, j \in 1 .. Len(l) : i < j => l[i].end < l[j].start

Holds(l, s) == \E i \in 1 .. Len(l) : contains(l[i], s)

LEMMA RangeEnds ==
  ASSUME NEW r \in RingRange
  PROVE  r.start \in Nat /\ r.end \in Nat
  BY RingAssumption DEF RingRange

LEMMA NormEnds ==
  ASSUME NEW l, Norm(l)
  PROVE  /\ Len(l) \in Nat /\ DOMAIN l = 1 .. Len(l)
         /\ \A i \in 1 .. Len(l) : l[i] \in RingRange /\ l[i].start \in Nat /\ l[i].end \in Nat
<1>1. l \in Seq(RingRange)
  BY DEF Norm
<1>2. \A i \in 1 .. Len(l) : l[i] \in RingRange
  BY <1>1
<1>3. QED
  BY <1>1, <1>2, RangeEnds

LEMMA Appending ==
  ASSUME NEW E, NEW l \in Seq(E), NEW e \in E
  PROVE  /\ Append(l, e) \in Seq(E) /\ Len(Append(l, e)) = Len(l) + 1
         /\ DOMAIN Append(l, e) = 1 .. Len(l) + 1 /\ Len(l) \in Nat
         /\ \A i \in 1 .. Len(l) : Append(l, e)[i] = l[i]
         /\ Append(l, e)[Len(l) + 1] = e
  OBVIOUS

(* A range that is apart from those of a list has a place among them. *)
LEMMA PlaceAmong ==
  ASSUME NEW O, Norm(O), NEW M \in RingRange, M.start < M.end,
         \A k \in 1 .. Len(O) : apart(O[k], M)
  PROVE  \E k0 \in 0 .. Len(O) : /\ \A j \in 1 .. k0 : O[j].end < M.start
                                 /\ \A j \in k0 + 1 .. Len(O) : O[j].start > M.end
<1> DEFINE n == Len(O)
           T == {k \in 1 .. n : ~(O[k].end < M.start)}
<1>1. /\ n \in Nat /\ M.start \in Nat /\ M.end \in Nat
      /\ \A i \in 1 .. n : O[i].start \in Nat /\ O[i].end \in Nat
  BY NormEnds, RangeEnds
<1>2. CASE T = {}
  <2>1. n \in 0 .. n /\ \A j \in n + 1 .. n : FALSE
    BY <1>1
  <2>2. \A j \in 1 .. n : O[j].end < M.start
    BY <1>2
  <2>3. QED
    BY <2>1, <2>2
<1>3. CASE T # {}
  <2>1. T \subseteq Nat
    OBVIOUS
  <2>2. PICK x \in T : \A y \in T : x <= y
    BY <1>3, <2>1, LeastNumber
  <2>3. x \in 1 .. n /\ x - 1 \in 0 .. n /\ ~(O[x].end < M.start)
    BY <1>1, <2>2
  <2>4. \A j \in 1 .. x - 1 : O[j].end < M.start
    <3> SUFFICES ASSUME NEW j \in 1 .. x - 1 PROVE O[j].end < M.start
      OBVIOUS
    <3>1. j \in 1 .. n /\ ~(x <= j)
      BY <1>1, <2>3
    <3>2. j \notin T
      BY <2>2, <3>1
    <3>3. QED
      BY <3>1, <3>2
  <2>5. O[x].start > M.end
    BY <2>3 DEF apart
  <2>6. \A j \in (x - 1) + 1 .. n : O[j].start > M.end
    <3> SUFFICES ASSUME NEW j \in (x - 1) + 1 .. n PROVE O[j].start > M.end
      OBVIOUS
    <3>1. j \in 1 .. n /\ (j = x \/ x < j)
      BY <1>1, <2>3
    <3>2. x < j => O[x].end < O[j].start /\ O[x].start < O[x].end
      BY <2>3, <3>1 DEF Norm
    <3>3. QED
      BY <1>1, <2>3, <2>5, <3>1, <3>2
  <2>7. QED
    BY <2>3, <2>4, <2>6
<1>4. QED
  BY <1>2, <1>3

LEMMA UpToAnd ==
  ASSUME NEW a \in Nat, NEW b \in Nat, b > a
  PROVE  Cardinality(1 .. a) = a /\ Cardinality((1 .. a) \cup {b}) = a + 1
<1>1. IsFiniteSet(1 .. a) /\ Cardinality(1 .. a) = a
  <2>1. 1 \in Int /\ a \in Int
    OBVIOUS
  <2>2. IsFiniteSet(1 .. a) /\ Cardinality(1 .. a) = IF 1 > a THEN 0 ELSE a - 1 + 1
    BY <2>1, FS_Interval
  <2>3. QED
    BY <2>2
<1>2. b \notin 1 .. a
  OBVIOUS
<1>3. Cardinality((1 .. a) \cup {b}) = Cardinality(1 .. a) + 1
  BY <1>1, <1>2, FS_AddElement
<1>4. QED
  BY <1>1, <1>3

LEMMA UpToAndIs ==
  \A a, b : a \in Nat /\ b \in Nat /\ b > a =>
             Cardinality(1 .. a) = a /\ Cardinality((1 .. a) \cup {b}) = a + 1
  BY UpToAnd

(* S is the n ranges of O with one more, M, at its end, which belongs      *)
(* after the k0-th.                                                        *)
Inserts(n, O, M, k0, S) ==
  /\ M.start \in Nat /\ M.end \in Nat /\ M.start < M.end
  /\ \A i \in 1 .. n : O[i].start \in Nat /\ O[i].end \in Nat /\ O[i].start < O[i].end
  /\ \A i, j \in 1 .. n : i < j => O[i].end < O[j].start
  /\ \A j \in 1 .. k0 : O[j].end < M.start
  /\ \A j \in k0 + 1 .. n : O[j].start > M.end
  /\ DOMAIN S = 1 .. n + 1 /\ S[n + 1] = M /\ \A i \in 1 .. n : S[i] = O[i]

LEMMA SortPlaces ==
  ASSUME NEW n \in Nat, NEW O, NEW M, NEW k0 \in 0 .. n, NEW S, Inserts(n, O, M, k0, S)
  PROVE  /\ \A k \in 1 .. k0 : Place(S, k) = k
         /\ Place(S, n + 1) = k0 + 1
         /\ \A k \in k0 + 1 .. n : Place(S, k) = k + 1
<1> DEFINE Before(k) == {j \in DOMAIN S : \/ S[j].start < S[k].start
                                          \/ S[j].start = S[k].start /\ j <= k}
<1>1. /\ n \in Nat /\ M.start \in Nat /\ M.end \in Nat /\ M.start < M.end
      /\ \A i \in 1 .. n : O[i].start \in Nat /\ O[i].end \in Nat /\ O[i].start < O[i].end
      /\ \A i, j \in 1 .. n : i < j => O[i].end < O[j].start
      /\ \A j \in 1 .. k0 : O[j].end < M.start
      /\ \A j \in k0 + 1 .. n : O[j].start > M.end
  BY DEF Inserts
<1>2. DOMAIN S = 1 .. n + 1 /\ S[n + 1] = M /\ \A i \in 1 .. n : S[i] = O[i]
  BY DEF Inserts
<1>3. \A k : Place(S, k) = Cardinality(Before(k))
  BY DEF Place
<1>4. ASSUME NEW k \in 1 .. k0 PROVE Place(S, k) = k
  <2>1. k \in 1 .. n /\ k \in Nat /\ k + 1 \in Nat /\ k + 1 > k
    BY <1>1
  <2>2. ASSUME NEW j \in 1 .. n + 1 PROVE j \in Before(k) <=> j <= k
    <3>1. CASE j < k
      <4>1. j \in 1 .. n /\ O[j].end < O[k].start
        BY <1>1, <2>1, <3>1
      <4>2. QED
        BY <1>1, <1>2, <2>1, <3>1, <4>1
    <3>2. CASE j = k
      BY <1>1, <1>2, <2>1, <3>2
    <3>3. CASE j > k /\ j # n + 1
      <4>0. j \in 1 .. n /\ k < j
        BY <1>1, <2>1, <3>3
      <4>1. O[k].end < O[j].start
        BY <1>1, <2>1, <4>0
      <4>2. S[j].start > S[k].start /\ S[j].start \in Nat /\ S[k].start \in Nat
        BY <1>1, <1>2, <2>1, <4>0, <4>1
      <4>3. QED
        BY <2>1, <3>3, <4>2
    <3>4. CASE j = n + 1
      <4>1. S[j].start > S[k].start /\ S[j].start \in Nat /\ S[k].start \in Nat
        BY <1>1, <1>2, <2>1, <3>4
      <4>2. QED
        BY <1>1, <2>1, <3>4, <4>1
    <3>5. QED
      BY <2>1, <3>1, <3>2, <3>3, <3>4
  <2>3. Before(k) = 1 .. k
    <3>1. \A j \in Before(k) : j \in 1 .. n + 1
      BY <1>2
    <3> HIDE DEF Before
    <3>2. \A j \in Before(k) : j \in 1 .. k
      BY <1>1, <2>1, <2>2, <3>1
    <3>3. \A j \in 1 .. k : j \in 1 .. n + 1 /\ j \in Before(k)
      BY <1>1, <2>1, <2>2
    <3>4. QED
      BY <3>2, <3>3
  <2> HIDE DEF Before
  <2>4. QED
    BY <1>3, <2>1, <2>3, UpToAndIs
<1>5. Place(S, n + 1) = k0 + 1
  <2>1. k0 \in Nat /\ n + 1 \in Nat /\ n + 1 > k0
    BY <1>1
  <2>2. ASSUME NEW j \in 1 .. n + 1 PROVE j \in Before(n + 1) <=> j <= k0 \/ j = n + 1
    <3>1. CASE j <= k0
      <4>1. j \in 1 .. n /\ O[j].end < M.start
        BY <1>1, <3>1
      <4>2. QED
        BY <1>1, <1>2, <2>1, <3>1, <4>1
    <3>2. CASE j = n + 1
      BY <1>1, <1>2, <3>2
    <3>3. CASE j > k0 /\ j # n + 1
      <4>1. j \in 1 .. n /\ O[j].start > M.end
        BY <1>1, <3>3
      <4>2. S[j].start > S[n + 1].start /\ S[j].start \in Nat /\ S[n + 1].start \in Nat
        BY <1>1, <1>2, <4>1
      <4>3. QED
        BY <2>1, <3>3, <4>2
    <3>4. QED
      BY <2>1, <3>1, <3>2, <3>3
  <2>3. Before(n + 1) = (1 .. k0) \cup {n + 1}
    <3>1. \A j \in Before(n + 1) : j \in 1 .. n + 1
      BY <1>2
    <3> HIDE DEF Before
    <3>2. QED
      BY <1>1, <2>1, <2>2, <3>1
  <2> HIDE DEF Before
  <2>4. PICK b \in Nat : b = n + 1
    BY <2>1
  <2>5. Cardinality((1 .. k0) \cup {b}) = k0 + 1
    BY <2>1, <2>4, UpToAnd
  <2>6. Cardinality(Before(n + 1)) = k0 + 1
    BY <2>3, <2>4, <2>5
  <2>7. QED
    BY <1>3, <2>6
<1>6. ASSUME NEW k \in k0 + 1 .. n PROVE Place(S, k) = k + 1
  <2>1. k \in 1 .. n /\ k \in Nat /\ n + 1 \in Nat /\ n + 1 > k
    BY <1>1
  <2>2. ASSUME NEW j \in 1 .. n + 1 PROVE j \in Before(k) <=> j <= k \/ j = n + 1
    <3>1. CASE j < k
      <4>1. j \in 1 .. n /\ O[j].end < O[k].start
        BY <1>1, <2>1, <3>1
      <4>2. QED
        BY <1>1, <1>2, <2>1, <3>1, <4>1
    <3>2. CASE j = k
      BY <1>1, <1>2, <2>1, <3>2
    <3>3. CASE j > k /\ j # n + 1
      <4>0. j \in 1 .. n /\ k < j
        BY <1>1, <2>1, <3>3
      <4>1. O[k].end < O[j].start
        BY <1>1, <2>1, <4>0
      <4>2. S[j].start > S[k].start /\ S[j].start \in Nat /\ S[k].start \in Nat
        BY <1>1, <1>2, <2>1, <4>0, <4>1
      <4>3. QED
        BY <2>1, <3>3, <4>2
    <3>4. CASE j = n + 1
      <4>1. S[j].start < S[k].start
        BY <1>1, <1>2, <2>1, <3>4
      <4>2. QED
        BY <1>1, <1>2, <2>1, <3>4, <4>1
    <3>5. QED
      BY <2>1, <3>1, <3>2, <3>3, <3>4
  <2>3. Before(k) = (1 .. k) \cup {n + 1}
    <3>1. \A j \in Before(k) : j \in 1 .. n + 1
      BY <1>2
    <3> HIDE DEF Before
    <3>2. QED
      BY <1>1, <2>1, <2>2, <3>1
  <2> HIDE DEF Before
  <2>4. PICK b \in Nat : b = n + 1
    BY <2>1
  <2>5. Cardinality((1 .. k) \cup {b}) = k + 1
    BY <2>1, <2>4, UpToAnd
  <2>6. Cardinality(Before(k)) = k + 1
    BY <2>3, <2>4, <2>5
  <2>7. QED
    BY <1>3, <2>6
<1>7. QED
  BY <1>4, <1>5, <1>6

LEMMA SortApart ==
  ASSUME NEW O, Norm(O), NEW M \in RingRange, M.start < M.end,
         \A k \in 1 .. Len(O) : apart(O[k], M)
  PROVE  /\ Norm(sortByStart(Append(O, M)))
         /\ \A s : Holds(sortByStart(Append(O, M)), s) <=> Holds(O, s) \/ contains(M, s)
<1>1. PICK n \in Nat : n = Len(O)
  BY NormEnds
<1>2. PICK S : S = Append(O, M)
  OBVIOUS
<1>3. /\ M.start \in Nat /\ M.end \in Nat
      /\ \A i \in 1 .. n : O[i].start \in Nat /\ O[i].end \in Nat /\ O[i].start < O[i].end
      /\ \A i \in 1 .. n : O[i] \in RingRange
      /\ \A i, j \in 1 .. n : i < j => O[i].end < O[j].start
  BY <1>1, NormEnds, RangeEnds DEF Norm
<1>4. /\ DOMAIN S = 1 .. n + 1 /\ S[n + 1] = M
      /\ \A i \in 1 .. n : S[i] = O[i]
  <2>1. O \in Seq(RingRange)
    BY DEF Norm
  <2>2. QED
    BY <1>1, <1>2, <2>1, Appending
<1>5. PICK k0 \in 0 .. n : /\ \A j \in 1 .. k0 : O[j].end < M.start
                           /\ \A j \in k0 + 1 .. n : O[j].start > M.end
  BY <1>1, PlaceAmong
<1>6. /\ \A k \in 1 .. k0 : Place(S, k) = k
      /\ Place(S, n + 1) = k0 + 1
      /\ \A k \in k0 + 1 .. n : Place(S, k) = k + 1
  <2>1. Inserts(n, O, M, k0, S)
    BY <1>3, <1>4, <1>5 DEF Inserts
  <2>2. QED
    BY <2>1, SortPlaces
<1> DEFINE At(i) == IF i <= k0 THEN i ELSE IF i = k0 + 1 THEN n + 1 ELSE i - 1
           l == [i \in 1 .. n + 1 |-> S[At(i)]]
<1>7. ASSUME NEW i \in 1 .. n + 1
      PROVE  At(i) \in DOMAIN S /\ (CHOOSE k \in DOMAIN S : Place(S, k) = i) = At(i)
  <2>1. At(i) \in 1 .. n + 1 /\ Place(S, At(i)) = i
    <3>1. CASE i <= k0
      BY <1>6, <3>1
    <3>2. CASE i = k0 + 1
      BY <1>6, <3>2
    <3>3. CASE i > k0 + 1
      <4>1. i - 1 \in k0 + 1 .. n /\ At(i) = i - 1
        BY <3>3
      <4>2. Place(S, i - 1) = (i - 1) + 1
        BY <1>6, <4>1
      <4>3. QED
        BY <4>1, <4>2
    <3>4. QED
      BY <3>1, <3>2, <3>3
  <2>2. ASSUME NEW k \in 1 .. n + 1, Place(S, k) = i PROVE k = At(i)
    <3>1. CASE k <= k0
      <4>1. k \in 1 .. k0
        BY <3>1
      <4>2. i = k
        BY <1>6, <2>2, <4>1
      <4>3. QED
        BY <3>1, <4>2
    <3>2. CASE k = n + 1
      <4>1. i = k0 + 1
        BY <1>6, <2>2, <3>2
      <4>2. QED
        BY <3>2, <4>1
    <3>3. CASE k > k0 /\ k # n + 1
      <4>1. k \in k0 + 1 .. n
        BY <3>3
      <4>2. i = k + 1
        BY <1>6, <2>2, <4>1
      <4>3. QED
        BY <4>1, <4>2
    <3>4. QED
      BY <3>1, <3>2, <3>3
  <2> HIDE DEF At
  <2>3. QED
    BY <1>4, <2>1, <2>2
<1>8. sortByStart(S) = l
  <2>1. sortByStart(S)
          = [i \in 1 .. n + 1 |-> S[CHOOSE k \in DOMAIN S : Place(S, k) = i]]
    BY <1>4 DEF sortByStart
  <2> HIDE DEF At
  <2>2. ASSUME NEW i \in 1 .. n + 1
        PROVE  S[CHOOSE k \in DOMAIN S : Place(S, k) = i] = S[At(i)]
    BY <1>7
  <2>3. QED
    BY <2>1, <2>2
<1>9. ASSUME NEW i \in 1 .. n + 1
      PROVE  /\ i <= k0 => i \in 1 .. n /\ l[i] = O[i]
             /\ i = k0 + 1 => l[i] = M
             /\ i > k0 + 1 => i - 1 \in k0 + 1 .. n /\ i - 1 \in 1 .. n /\ l[i] = O[i - 1]
  <2>1. CASE i <= k0
    BY <1>4, <2>1
  <2>2. CASE i = k0 + 1
    BY <1>4, <2>2
  <2>3. CASE i > k0 + 1
    <3>1. i - 1 \in k0 + 1 .. n /\ i - 1 \in 1 .. n
      BY <2>3
    <3>2. At(i) = i - 1
      BY <2>3
    <3> HIDE DEF At
    <3>3. l[i] = S[i - 1]
      BY <3>2
    <3> HIDE DEF l
    <3>4. QED
      BY <1>4, <2>3, <3>1, <3>3
  <2>4. QED
    BY <2>1, <2>2, <2>3
<1>10. l \in Seq(RingRange) /\ Len(l) = n + 1
  <2>1. \A i \in 1 .. n + 1 : l[i] \in RingRange
    <3> HIDE DEF l
    <3>1. QED
      BY <1>3, <1>9
  <2>2. l = [i \in 1 .. n + 1 |-> l[i]]
    OBVIOUS
  <2> HIDE DEF l
  <2>3. QED
    BY <2>1, <2>2
<1> HIDE DEF l, At
<1>11. \A i \in 1 .. n + 1 : l[i].start < l[i].end
  BY <1>3, <1>9
<1>12. ASSUME NEW i \in 1 .. n + 1, NEW j \in 1 .. n + 1, i < j
       PROVE  l[i].end < l[j].start
  <2>1. CASE j <= k0
    BY <1>3, <1>9, <1>12, <2>1
  <2>2. CASE j = k0 + 1
    BY <1>5, <1>9, <1>12, <2>2
  <2>3. CASE j > k0 + 1
    <3>1. j - 1 \in k0 + 1 .. n /\ j - 1 \in 1 .. n /\ l[j] = O[j - 1]
      BY <1>9, <2>3
    <3>2. CASE i <= k0
      <4>1. l[i] = O[i] /\ i \in 1 .. n /\ i < j - 1
        BY <1>9, <2>3, <3>2
      <4>2. QED
        BY <1>3, <3>1, <4>1
    <3>3. CASE i = k0 + 1
      BY <1>5, <1>9, <3>1, <3>3
    <3>4. CASE i > k0 + 1
      <4>1. l[i] = O[i - 1] /\ i - 1 \in 1 .. n /\ i - 1 < j - 1
        BY <1>9, <1>12, <3>4
      <4>2. QED
        BY <1>3, <3>1, <4>1
    <3>5. QED
      BY <3>2, <3>3, <3>4
  <2>4. QED
    BY <2>1, <2>2, <2>3
<1>13. Norm(l)
  BY <1>10, <1>11, <1>12 DEF Norm
<1>14. ASSUME NEW s PROVE Holds(l, s) <=> Holds(O, s) \/ contains(M, s)
  <2>1. ASSUME Holds(l, s) PROVE Holds(O, s) \/ contains(M, s)
    <3>1. PICK i \in 1 .. n + 1 : contains(l[i], s)
      BY <1>10, <2>1 DEF Holds
    <3>2. CASE i = k0 + 1
      BY <1>9, <3>1, <3>2
    <3>3. CASE i # k0 + 1
      <4>1. \E j \in 1 .. n : l[i] = O[j]
        BY <1>9, <3>3
      <4>2. QED
        BY <1>1, <3>1, <4>1 DEF Holds
    <3>4. QED
      BY <3>2, <3>3
  <2>2. ASSUME contains(M, s) PROVE Holds(l, s)
    <3>1. k0 + 1 \in 1 .. n + 1 /\ l[k0 + 1] = M
      BY <1>9
    <3>2. QED
      BY <1>10, <2>2, <3>1 DEF Holds
  <2>3. ASSUME Holds(O, s) PROVE Holds(l, s)
    <3>1. PICK j \in 1 .. n : contains(O[j], s)
      BY <1>1, <2>3 DEF Holds
    <3>2. CASE j <= k0
      <4>1. j \in 1 .. n + 1 /\ l[j] = O[j]
        BY <1>9, <3>2
      <4>2. QED
        BY <1>10, <3>1, <4>1 DEF Holds
    <3>3. CASE j > k0
      <4>1. j + 1 \in 1 .. n + 1 /\ j + 1 > k0 + 1 /\ (j + 1) - 1 = j
        BY <3>3
      <4>2. l[j + 1] = O[j]
        BY <1>9, <4>1
      <4>3. QED
        BY <1>10, <3>1, <4>1, <4>2 DEF Holds
    <3>4. QED
      BY <3>2, <3>3
  <2>4. QED
    BY <2>1, <2>2, <2>3
<1>15. QED
  BY <1>2, <1>8, <1>13, <1>14
----------------------------------------------------------------------------
(* mark_range. *)

LEMMA CoalescedIs ==
  ASSUME NEW r \in RingRange, NEW s \in RingRange
  PROVE  /\ Coalesced(r, s) \in RingRange
         /\ r.start < r.end /\ s.start < s.end /\ ~apart(s, r) =>
              /\ Coalesced(r, s).start < Coalesced(r, s).end
              /\ \A x \in Int : contains(Coalesced(r, s), x) <=> contains(r, x) \/ contains(s, x)
<1>1. /\ r.start \in 0 .. RingSize /\ r.end \in 0 .. RingSize
      /\ s.start \in 0 .. RingSize /\ s.end \in 0 .. RingSize /\ RingSize \in Nat
  BY RingAssumption DEF RingRange
<1> DEFINE a == IF r.start <= s.start THEN r.start ELSE s.start
           b == IF r.end >= s.end THEN r.end ELSE s.end
<1>2. Coalesced(r, s) = [start |-> a, end |-> b]
  BY DEF Coalesced
<1>3. a \in 0 .. RingSize /\ b \in 0 .. RingSize
  BY <1>1
<1>4. r.start < r.end /\ s.start < s.end /\ ~apart(s, r) =>
        /\ a < b
        /\ \A x \in Int : x >= a /\ x < b <=> (x >= r.start /\ x < r.end)
                                              \/ (x >= s.start /\ x < s.end)
  BY <1>1 DEF apart
<1> HIDE DEF a, b
<1>5. Coalesced(r, s) \in RingRange /\ Coalesced(r, s).start = a /\ Coalesced(r, s).end = b
  BY <1>2, <1>3 DEF RingRange
<1>6. QED
  BY <1>4, <1>5 DEF contains

Accs == [merged : RingRange, out : Seq(RingRange)]

LEMMA SwallowIs ==
  ASSUME NEW acc \in Accs, NEW e \in RingRange
  PROVE  /\ Swallow(acc, e) \in Accs
         /\ apart(e, acc.merged) => /\ Swallow(acc, e).merged = acc.merged
                                    /\ Swallow(acc, e).out = Append(acc.out, e)
         /\ ~apart(e, acc.merged) => /\ Swallow(acc, e).merged = Coalesced(acc.merged, e)
                                     /\ Swallow(acc, e).out = acc.out
<1>1. acc.merged \in RingRange /\ acc.out \in Seq(RingRange)
  BY DEF Accs
<1>2. Append(acc.out, e) \in Seq(RingRange) /\ Coalesced(acc.merged, e) \in RingRange
  BY <1>1, CoalescedIs
<1>3. CASE apart(e, acc.merged)
  <2>1. Swallow(acc, e) = [acc EXCEPT !.out = Append(acc.out, e)]
    BY <1>3 DEF Swallow
  <2>2. QED
    BY <1>2, <1>3, <2>1 DEF Accs
<1>4. CASE ~apart(e, acc.merged)
  <2>1. Swallow(acc, e) = [acc EXCEPT !.merged = Coalesced(acc.merged, e)]
    BY <1>4 DEF Swallow
  <2>2. QED
    BY <1>2, <1>4, <2>1 DEF Accs
<1>5. QED
  BY <1>3, <1>4

(* The loop of mark_range, visit by visit. *)
LEMMA MarkLoop ==
  ASSUME NEW l \in Seq(RingRange), NEW r \in RingRange
  PROVE  \E pass :
           /\ pass[0] = [merged |-> r, out |-> << >>]
           /\ \A i \in 1 .. Len(l) : pass[i] = Swallow(pass[i - 1], l[i])
           /\ \A i \in 0 .. Len(l) : pass[i] \in Accs
           /\ markRange(l, r) = IF isEmpty(r) THEN l
                                ELSE sortByStart(Append(pass[Len(l)].out, pass[Len(l)].merged))
<1> DEFINE N == Len(l)
           base == [merged |-> r, out |-> << >>]
           pass == CHOOSE f : f = [i \in 0 .. N |->
                                     IF i = 0 THEN base ELSE Swallow(f[i - 1], l[i])]
           F == [q \in (1 .. N) \X Accs |-> Swallow(q[2], l[q[1]])]
<1>1. N \in Nat /\ \A i \in 1 .. N : l[i] \in RingRange
  OBVIOUS
<1>2. base \in Accs
  BY DEF Accs
<1>3. F \in [(1 .. N) \X Accs -> Accs]
  <2>1. ASSUME NEW q \in (1 .. N) \X Accs PROVE Swallow(q[2], l[q[1]]) \in Accs
    BY <1>1, SwallowIs
  <2>2. QED
    BY <2>1
<1>4. ASSUME NEW i \in 1 .. N, NEW acc \in Accs
      PROVE  F[<<i, acc>>] = Swallow(acc, l[i])
  <2>1. <<i, acc>> \in (1 .. N) \X Accs
    OBVIOUS
  <2>2. F[<<i, acc>>] = Swallow(<<i, acc>>[2], l[<<i, acc>>[1]])
    BY <2>1
  <2> HIDE DEF F
  <2>3. QED
    BY <2>2
<1>5. markRange(l, r) = IF isEmpty(r) THEN l
                        ELSE sortByStart(Append(pass[N].out, pass[N].merged))
  BY DEF markRange
<1> HIDE DEF N, base, F
<1>6. PICK g : /\ g \in [0 .. N -> Accs]
               /\ g[0] = base /\ \A i \in 1 .. N : g[i] = F[<<i, g[i - 1]>>]
  <2>1. Recursive(N, Accs, base, F)
    BY <1>1, <1>2, <1>3 DEF Recursive
  <2>2. PICK g : Iterated(N, Accs, base, F, g)
    BY <2>1, Recursion
  <2>3. QED
    BY <2>2 DEF Iterated
<1>7. g = [i \in 0 .. N |-> IF i = 0 THEN base ELSE Swallow(g[i - 1], l[i])]
  <2>1. ASSUME NEW i \in 0 .. N
        PROVE  g[i] = IF i = 0 THEN base ELSE Swallow(g[i - 1], l[i])
    <3>1. CASE i = 0
      BY <1>6, <3>1
    <3>2. CASE i # 0
      <4>1. i \in 1 .. N /\ i - 1 \in 0 .. N
        BY <1>1, <3>2
      <4>2. g[i] = F[<<i, g[i - 1]>>] /\ g[i - 1] \in Accs
        BY <1>6, <4>1
      <4>3. QED
        BY <1>4, <3>2, <4>1, <4>2
    <3>3. QED
      BY <3>1, <3>2
  <2>2. QED
    BY <1>6, <2>1
<1>8. pass = [i \in 0 .. N |-> IF i = 0 THEN base ELSE Swallow(pass[i - 1], l[i])]
  BY <1>7
<1> HIDE DEF pass
<1>9. pass[0] = base /\ \A i \in 1 .. N : pass[i] = Swallow(pass[i - 1], l[i])
  BY <1>1, <1>8
<1>10. \A i \in 0 .. N : pass[i] \in Accs
  <2> DEFINE T == {i \in 0 .. N : pass[i] \in Accs}
  <2>1. 0 \in T
    BY <1>1, <1>2, <1>9
  <2>2. ASSUME NEW i \in 1 .. N, i - 1 \in T PROVE i \in T
    <3>1. pass[i - 1] \in Accs /\ l[i] \in RingRange
      BY <1>1, <2>2
    <3>2. Swallow(pass[i - 1], l[i]) \in Accs
      BY <3>1, SwallowIs
    <3>3. QED
      BY <1>1, <1>9, <3>2
  <2> HIDE DEF T
  <2>3. \A i \in 0 .. N : i \in T
    BY <1>1, <2>1, <2>2, UpTo
  <2>4. QED
    BY <2>3 DEF T
<1>11. QED
  BY <1>5, <1>9, <1>10 DEF N, base

(* After i visits: what is out is apart from the range that grows and from *)
(* every range that is still to be visited, so it stays apart.             *)
Swallowed(l, r, i, acc) ==
  /\ acc.merged.start < acc.merged.end
  /\ Norm(acc.out)
  /\ \A k \in 1 .. Len(acc.out) : apart(acc.out[k], acc.merged)
  /\ \A k \in 1 .. Len(acc.out), j \in i + 1 .. Len(l) : acc.out[k].end < l[j].start
  /\ \A s \in Int : Holds(acc.out, s) \/ contains(acc.merged, s)
                    <=> contains(r, s) \/ \E j \in 1 .. i : contains(l[j], s)

LEMMA SwallowStep ==
  ASSUME NEW l, Norm(l), NEW r \in RingRange, NEW i \in 1 .. Len(l), NEW acc \in Accs,
         Swallowed(l, r, i - 1, acc)
  PROVE  Swallowed(l, r, i, Swallow(acc, l[i]))
<1>1. PICK e : e = l[i]
  OBVIOUS
<1>2. PICK O : O = acc.out
  OBVIOUS
<1>3. PICK M : M = acc.merged
  OBVIOUS
<1>4. PICK new : new = Swallow(acc, l[i])
  OBVIOUS
<1>5. PICK N \in Nat : N = Len(l)
  BY NormEnds
<1>6. /\ i \in 1 .. N /\ (i - 1) + 1 = i
      /\ e \in RingRange /\ e.start \in Nat /\ e.end \in Nat /\ e.start < e.end
      /\ \A j \in i + 1 .. N : e.end < l[j].start
      /\ M \in RingRange /\ M.start \in Nat /\ M.end \in Nat /\ O \in Seq(RingRange)
  <2>1. i \in 1 .. N /\ (i - 1) + 1 = i
    BY <1>5
  <2>2. e \in RingRange /\ e.start < e.end
    BY <1>1, NormEnds DEF Norm
  <2>3. \A j \in i + 1 .. N : j \in 1 .. N /\ i < j
    BY <2>1
  <2>4. \A j \in i + 1 .. N : e.end < l[j].start
    BY <1>1, <1>5, <2>1, <2>3 DEF Norm
  <2>5. M \in RingRange /\ O \in Seq(RingRange)
    BY <1>2, <1>3 DEF Accs
  <2>6. QED
    BY <2>1, <2>2, <2>4, <2>5, RangeEnds
<1>7. /\ M.start < M.end /\ Norm(O)
      /\ \A k \in 1 .. Len(O) : apart(O[k], M)
      /\ \A k \in 1 .. Len(O), j \in i .. N : O[k].end < l[j].start
      /\ \A s \in Int : Holds(O, s) \/ contains(M, s)
                        <=> contains(r, s) \/ \E j \in 1 .. i - 1 : contains(l[j], s)
  BY <1>2, <1>3, <1>5, <1>6 DEF Swallowed
<1>8. PICK n \in Nat : n = Len(O)
  BY <1>7, NormEnds
<1>9. /\ \A k \in 1 .. n : /\ O[k].end < e.start /\ O[k].start \in Nat /\ O[k].end \in Nat
                           /\ O[k].start < O[k].end
      /\ \A k, j \in 1 .. n : k < j => O[k].end < O[j].start
  <2>1. i \in i .. N
    BY <1>5, <1>6
  <2>2. \A k \in 1 .. n : O[k].end < e.start
    BY <1>1, <1>7, <1>8, <2>1
  <2>3. QED
    BY <1>7, <1>8, <2>2, NormEnds DEF Norm
<1>10. \A s \in Int : (\E j \in 1 .. i : contains(l[j], s))
                      <=> contains(e, s) \/ \E j \in 1 .. i - 1 : contains(l[j], s)
  BY <1>1, <1>6
<1>11. CASE apart(e, M)
  <2>1. new.merged = M /\ new.out = Append(O, e)
    BY <1>1, <1>2, <1>3, <1>4, <1>6, <1>11, SwallowIs
  <2>2. PICK P : P = Append(O, e)
    OBVIOUS
  <2>3. /\ P \in Seq(RingRange) /\ Len(P) = n + 1
        /\ \A k \in 1 .. n : P[k] = O[k]
        /\ P[n + 1] = e
    BY <1>6, <1>8, <2>2, Appending
  <2>4. Norm(P)
    <3>1. \A k \in 1 .. n + 1 : k \in 1 .. n \/ k = n + 1
      OBVIOUS
    <3>2. \A k \in 1 .. n + 1 : P[k].start < P[k].end
      BY <1>6, <1>9, <2>3, <3>1
    <3>3. ASSUME NEW k \in 1 .. n + 1, NEW j \in 1 .. n + 1, k < j
          PROVE  P[k].end < P[j].start
      <4>1. k \in 1 .. n
        BY <3>3
      <4>2. CASE j \in 1 .. n
        BY <1>9, <2>3, <3>3, <4>1, <4>2
      <4>3. CASE j = n + 1
        BY <1>9, <2>3, <4>1, <4>3
      <4>4. QED
        BY <3>1, <4>2, <4>3
    <3>4. QED
      BY <2>3, <3>2, <3>3 DEF Norm
  <2>5. \A k \in 1 .. Len(P) : apart(P[k], M)
    BY <1>7, <1>8, <1>11, <2>3
  <2>6. ASSUME NEW k \in 1 .. Len(P), NEW j \in i + 1 .. N PROVE P[k].end < l[j].start
    <3>1. CASE k = n + 1
      BY <1>6, <2>3, <3>1
    <3>2. CASE k \in 1 .. n
      <4>1. j \in i .. N
        BY <1>6
      <4>2. QED
        BY <1>7, <1>8, <2>3, <3>2, <4>1
    <3>3. QED
      BY <2>3, <3>1, <3>2
  <2>7. ASSUME NEW s \in Int
        PROVE  Holds(P, s) \/ contains(M, s)
               <=> contains(r, s) \/ \E j \in 1 .. i : contains(l[j], s)
    <3>1. Holds(P, s) <=> Holds(O, s) \/ contains(e, s)
      <4>1. n + 1 \in 1 .. n + 1 /\ \A k \in 1 .. n : k \in 1 .. n + 1
        OBVIOUS
      <4>2. \A k \in 1 .. n + 1 : k \in 1 .. n \/ k = n + 1
        OBVIOUS
      <4>3. QED
        BY <1>8, <2>3, <4>1, <4>2 DEF Holds
    <3>2. QED
      BY <1>7, <1>10, <3>1
  <2>8. QED
    BY <1>4, <1>5, <1>7, <2>1, <2>2, <2>4, <2>5, <2>6, <2>7 DEF Swallowed
<1>12. CASE ~apart(e, M)
  <2>1. new.merged = Coalesced(M, e) /\ new.out = O
    BY <1>1, <1>2, <1>3, <1>4, <1>6, <1>12, SwallowIs
  <2>2. PICK W : W = Coalesced(M, e)
    OBVIOUS
  <2>3. /\ W.start < W.end
        /\ \A x \in Int : contains(W, x) <=> contains(M, x) \/ contains(e, x)
    BY <1>6, <1>7, <1>12, <2>2, CoalescedIs
  <2>4. ASSUME NEW k \in 1 .. Len(O) PROVE apart(O[k], W)
    <3>1. /\ O[k].end < e.start /\ O[k].start < O[k].end
          /\ O[k].start \in Nat /\ O[k].end \in Nat
      BY <1>8, <1>9
    <3>2. O[k].end < M.start
      <4>1. O[k].end < M.start \/ O[k].start > M.end
        BY <1>7 DEF apart
      <4>2. ~(e.start > M.end)
        BY <1>12 DEF apart
      <4>3. QED
        BY <1>6, <3>1, <4>1, <4>2
    <3>3. W.start \in {M.start, e.start}
      BY <2>2 DEF Coalesced
    <3>4. QED
      BY <3>1, <3>2, <3>3 DEF apart
  <2>5. ASSUME NEW k \in 1 .. Len(O), NEW j \in i + 1 .. N PROVE O[k].end < l[j].start
    <3>1. j \in i .. N
      BY <1>6
    <3>2. QED
      BY <1>7, <3>1
  <2>6. ASSUME NEW s \in Int
        PROVE  Holds(O, s) \/ contains(W, s)
               <=> contains(r, s) \/ \E j \in 1 .. i : contains(l[j], s)
    BY <1>7, <1>10, <2>3
  <2>7. QED
    BY <1>4, <1>5, <1>7, <2>1, <2>2, <2>3, <2>4, <2>5, <2>6 DEF Swallowed
<1>13. QED
  BY <1>11, <1>12

Marks(l, r, new) ==
  /\ Norm(new)
  /\ \A s \in Int : Holds(new, s) <=> Holds(l, s) \/ contains(r, s)

LEMMA MarkRangeIs ==
  ASSUME NEW l, Norm(l), NEW r \in RingRange
  PROVE  Marks(l, r, markRange(l, r))
<1>1. l \in Seq(RingRange) /\ Len(l) \in Nat
  BY NormEnds DEF Norm
<1>2. PICK pass :
        /\ pass[0] = [merged |-> r, out |-> << >>]
        /\ \A i \in 1 .. Len(l) : pass[i] = Swallow(pass[i - 1], l[i])
        /\ \A i \in 0 .. Len(l) : pass[i] \in Accs
        /\ markRange(l, r) = IF isEmpty(r) THEN l
                             ELSE sortByStart(Append(pass[Len(l)].out, pass[Len(l)].merged))
  BY <1>1, MarkLoop
<1>3. CASE isEmpty(r)
  <2>1. \A s \in Int : ~contains(r, s)
    BY <1>3, RangeEnds DEF isEmpty, contains
  <2>2. QED
    BY <1>2, <1>3, <2>1 DEF Marks
<1>4. CASE ~isEmpty(r)
  <2> DEFINE T == {i \in 0 .. Len(l) : Swallowed(l, r, i, pass[i])}
  <2>1. 0 \in T
    <3>1. r.start < r.end
      BY <1>4, RangeEnds DEF isEmpty
    <3>2. Norm(<< >>) /\ \A s : ~Holds(<< >>, s)
      BY DEF Norm, Holds
    <3>3. pass[0].merged = r /\ pass[0].out = << >>
      BY <1>2
    <3>4. Len(<< >>) = 0 /\ 1 .. 0 = {}
      OBVIOUS
    <3>5. Swallowed(l, r, 0, pass[0])
      BY <3>1, <3>2, <3>3, <3>4 DEF Swallowed
    <3>6. QED
      BY <1>1, <3>5
  <2>2. ASSUME NEW i \in 1 .. Len(l), i - 1 \in T PROVE i \in T
    <3>1. i - 1 \in 0 .. Len(l) /\ i \in 0 .. Len(l)
      BY <1>1
    <3>2. pass[i - 1] \in Accs /\ Swallowed(l, r, i - 1, pass[i - 1])
      BY <1>2, <2>2, <3>1
    <3>3. Swallowed(l, r, i, Swallow(pass[i - 1], l[i]))
      BY <3>2, SwallowStep
    <3>4. QED
      BY <1>2, <3>1, <3>3
  <2>3. Len(l) \in T
    <3> HIDE DEF T
    <3>1. \A i \in 0 .. Len(l) : i \in T
      BY <1>1, <2>1, <2>2, UpTo
    <3>2. QED
      BY <1>1, <3>1
  <2>4. PICK acc \in Accs : acc = pass[Len(l)]
    BY <1>1, <1>2
  <2>5. Swallowed(l, r, Len(l), acc)
    BY <2>3, <2>4
  <2>6. PICK O : O = acc.out
    OBVIOUS
  <2>7. PICK M \in RingRange : M = acc.merged
    BY DEF Accs
  <2>8. /\ M.start < M.end /\ Norm(O)
        /\ \A k \in 1 .. Len(O) : apart(O[k], M)
        /\ \A s \in Int : Holds(O, s) \/ contains(M, s) <=> contains(r, s) \/ Holds(l, s)
    BY <2>5, <2>6, <2>7 DEF Swallowed, Holds
  <2>9. markRange(l, r) = sortByStart(Append(O, M))
    BY <1>2, <1>4, <2>4, <2>6, <2>7
  <2>10. /\ Norm(sortByStart(Append(O, M)))
         /\ \A s : Holds(sortByStart(Append(O, M)), s) <=> Holds(O, s) \/ contains(M, s)
    BY <2>8, SortApart
  <2>11. QED
    BY <2>8, <2>9, <2>10 DEF Marks
<1>5. QED
  BY <1>3, <1>4
----------------------------------------------------------------------------
(* union. *)

NormLists == {l \in Seq(RingRange) : Norm(l)}

(* The loop of union, merge by merge. *)
LEMMA UnionLoop ==
  ASSUME NEW l, Norm(l), NEW o \in Seq(RingRange)
  PROVE  \E pass :
           /\ pass[0] = l
           /\ \A i \in 1 .. Len(o) : pass[i] = markRange(pass[i - 1], o[i])
           /\ \A i \in 0 .. Len(o) : Norm(pass[i])
           /\ union(l, o) = pass[Len(o)]
<1> DEFINE N == Len(o)
           pass == CHOOSE f : f = [i \in 0 .. N |->
                                     IF i = 0 THEN l ELSE markRange(f[i - 1], o[i])]
           F == [q \in (1 .. N) \X NormLists |-> markRange(q[2], o[q[1]])]
<1>1. N \in Nat /\ \A i \in 1 .. N : o[i] \in RingRange
  OBVIOUS
<1>2. l \in NormLists
  BY DEF Norm, NormLists
<1>3. ASSUME NEW k \in NormLists, NEW r \in RingRange PROVE markRange(k, r) \in NormLists
  <2>1. Norm(k)
    BY DEF NormLists
  <2>2. Norm(markRange(k, r))
    BY <2>1, MarkRangeIs DEF Marks
  <2>3. QED
    BY <2>2 DEF Norm, NormLists
<1>4. F \in [(1 .. N) \X NormLists -> NormLists]
  <2>1. ASSUME NEW q \in (1 .. N) \X NormLists PROVE markRange(q[2], o[q[1]]) \in NormLists
    BY <1>1, <1>3
  <2>2. QED
    BY <2>1
<1>5. ASSUME NEW i \in 1 .. N, NEW k \in NormLists
      PROVE  F[<<i, k>>] = markRange(k, o[i])
  <2>1. <<i, k>> \in (1 .. N) \X NormLists
    OBVIOUS
  <2>2. F[<<i, k>>] = markRange(<<i, k>>[2], o[<<i, k>>[1]])
    BY <2>1
  <2> HIDE DEF F
  <2>3. QED
    BY <2>2
<1>6. union(l, o) = pass[N]
  BY DEF union
<1> HIDE DEF N, F
<1>7. PICK g : /\ g \in [0 .. N -> NormLists]
               /\ g[0] = l /\ \A i \in 1 .. N : g[i] = F[<<i, g[i - 1]>>]
  <2>1. Recursive(N, NormLists, l, F)
    BY <1>1, <1>2, <1>4 DEF Recursive
  <2>2. PICK g : Iterated(N, NormLists, l, F, g)
    BY <2>1, Recursion
  <2>3. QED
    BY <2>2 DEF Iterated
<1>8. g = [i \in 0 .. N |-> IF i = 0 THEN l ELSE markRange(g[i - 1], o[i])]
  <2>1. ASSUME NEW i \in 0 .. N
        PROVE  g[i] = IF i = 0 THEN l ELSE markRange(g[i - 1], o[i])
    <3>1. CASE i = 0
      BY <1>7, <3>1
    <3>2. CASE i # 0
      <4>1. i \in 1 .. N /\ i - 1 \in 0 .. N
        BY <1>1, <3>2
      <4>2. g[i] = F[<<i, g[i - 1]>>] /\ g[i - 1] \in NormLists
        BY <1>7, <4>1
      <4>3. QED
        BY <1>5, <3>2, <4>1, <4>2
    <3>3. QED
      BY <3>1, <3>2
  <2>2. QED
    BY <1>7, <2>1
<1>9. pass = [i \in 0 .. N |-> IF i = 0 THEN l ELSE markRange(pass[i - 1], o[i])]
  BY <1>8
<1> HIDE DEF pass
<1>10. pass[0] = l /\ \A i \in 1 .. N : pass[i] = markRange(pass[i - 1], o[i])
  BY <1>1, <1>9
<1>11. \A i \in 0 .. N : Norm(pass[i])
  <2> DEFINE T == {i \in 0 .. N : Norm(pass[i])}
  <2>1. 0 \in T
    BY <1>1, <1>10
  <2>2. ASSUME NEW i \in 1 .. N, i - 1 \in T PROVE i \in T
    <3>1. Norm(pass[i - 1]) /\ o[i] \in RingRange
      BY <1>1, <2>2
    <3>2. Norm(markRange(pass[i - 1], o[i]))
      BY <3>1, MarkRangeIs DEF Marks
    <3>3. QED
      BY <1>1, <1>10, <3>2
  <2> HIDE DEF T
  <2>3. \A i \in 0 .. N : i \in T
    BY <1>1, <2>1, <2>2, UpTo
  <2>4. QED
    BY <2>3 DEF T
<1>12. QED
  BY <1>6, <1>10, <1>11 DEF N

LEMMA UnionIs ==
  ASSUME NEW l, Norm(l), NEW o, Norm(o)
  PROVE  /\ Norm(union(l, o))
         /\ \A s \in Int : Holds(union(l, o), s) <=> Holds(l, s) \/ Holds(o, s)
<1>1. o \in Seq(RingRange) /\ Len(o) \in Nat /\ \A i \in 1 .. Len(o) : o[i] \in RingRange
  BY NormEnds DEF Norm
<1>2. PICK pass : /\ pass[0] = l
                  /\ \A i \in 1 .. Len(o) : pass[i] = markRange(pass[i - 1], o[i])
                  /\ \A i \in 0 .. Len(o) : Norm(pass[i])
                  /\ union(l, o) = pass[Len(o)]
  BY <1>1, UnionLoop
<1> DEFINE Merged(i) == \A s \in Int : Holds(pass[i], s)
                          <=> Holds(l, s) \/ \E j \in 1 .. i : contains(o[j], s)
           T == {i \in 0 .. Len(o) : Merged(i)}
<1>3. 0 \in T
  BY <1>1, <1>2
<1>4. ASSUME NEW i \in 1 .. Len(o), i - 1 \in T PROVE i \in T
  <2>1. i - 1 \in 0 .. Len(o) /\ i \in 0 .. Len(o) /\ Merged(i - 1)
    BY <1>1, <1>4
  <2>2. Norm(pass[i - 1]) /\ o[i] \in RingRange /\ pass[i] = markRange(pass[i - 1], o[i])
    BY <1>1, <1>2, <2>1
  <2>3. Marks(pass[i - 1], o[i], pass[i])
    BY <2>2, MarkRangeIs
  <2>4. ASSUME NEW s \in Int
        PROVE  (\E j \in 1 .. i : contains(o[j], s))
               <=> contains(o[i], s) \/ \E j \in 1 .. i - 1 : contains(o[j], s)
    BY <2>1
  <2>5. Merged(i)
    BY <2>1, <2>3, <2>4 DEF Marks
  <2>6. QED
    BY <2>1, <2>5
<1>5. Len(o) \in T
  <2> HIDE DEF T
  <2>1. \A i \in 0 .. Len(o) : i \in T
    BY <1>1, <1>3, <1>4, UpTo
  <2>2. QED
    BY <1>1, <2>1
<1>6. QED
  BY <1>1, <1>2, <1>5 DEF Holds
----------------------------------------------------------------------------
(* mark_slots. *)

RunAccs == [list : NormLists, start : 0 .. RingSize, end : 0 .. RingSize]

RunOf(acc) == [start |-> acc.start, end |-> acc.end]

LEMMA RunEnds ==
  ASSUME NEW acc \in RunAccs
  PROVE  /\ RunOf(acc) \in RingRange
         /\ acc.start \in Nat /\ acc.end \in Nat
         /\ Norm(acc.list)
         /\ \A s : contains(RunOf(acc), s) <=> s >= acc.start /\ s < acc.end
<1>1. acc.list \in NormLists /\ acc.start \in 0 .. RingSize /\ acc.end \in 0 .. RingSize
  BY DEF RunAccs
<1>2. RunOf(acc) \in RingRange /\ RunOf(acc).start = acc.start /\ RunOf(acc).end = acc.end
  BY <1>1 DEF RunOf, RingRange
<1>3. QED
  BY <1>1, <1>2, RingAssumption DEF NormLists, contains

LEMMA ExtendIs ==
  ASSUME NEW acc \in RunAccs, NEW slot \in Slots
  PROVE  /\ Extend(acc, slot) \in RunAccs
         /\ Extend(acc, slot).end = slot + 1
         /\ slot = acc.end => /\ Extend(acc, slot).list = acc.list
                              /\ Extend(acc, slot).start = acc.start
         /\ slot # acc.end => /\ Marks(acc.list, RunOf(acc), Extend(acc, slot).list)
                              /\ Extend(acc, slot).start = slot
<1>1. slot \in 0 .. RingSize /\ slot + 1 \in 0 .. RingSize
  BY RingAssumption DEF Slots
<1>2. CASE slot = acc.end
  <2>1. Extend(acc, slot) = [acc EXCEPT !.end = slot + 1]
    BY <1>2 DEF Extend
  <2>2. QED
    BY <1>1, <1>2, <2>1 DEF RunAccs
<1>3. CASE slot # acc.end
  <2>1. PICK new : new = markRange(acc.list, RunOf(acc))
    OBVIOUS
  <2>2. Marks(acc.list, RunOf(acc), new)
    BY <2>1, RunEnds, MarkRangeIs
  <2>3. new \in NormLists
    BY <2>2 DEF Marks, Norm, NormLists
  <2>4. Extend(acc, slot) = [list |-> new, start |-> slot, end |-> slot + 1]
    BY <1>3, <2>1 DEF Extend, RunOf
  <2>5. /\ Extend(acc, slot) \in RunAccs /\ Extend(acc, slot).end = slot + 1
        /\ Extend(acc, slot).list = new /\ Extend(acc, slot).start = slot
    BY <1>1, <2>3, <2>4 DEF RunAccs
  <2>6. QED
    BY <1>3, <2>2, <2>5
<1>4. QED
  BY <1>2, <1>3

(* One round of the loop of mark_slots. *)
SlotRound(acc, slots, n) == IF n - 1 \in slots THEN Extend(acc, n - 1) ELSE acc

LEMMA SlotRoundIs ==
  ASSUME NEW acc \in RunAccs, NEW slots, NEW n \in 1 .. RingSize
  PROVE  SlotRound(acc, slots, n) \in RunAccs
<1>1. n - 1 \in Slots
  BY RingAssumption DEF Slots
<1>2. QED
  BY <1>1, ExtendIs DEF SlotRound

LEMMA SlotLoop ==
  ASSUME NEW l, Norm(l), NEW slots
  PROVE  \E pass :
           /\ pass[0] = [list |-> l, start |-> 0, end |-> 0]
           /\ \A n \in 1 .. RingSize : pass[n] = SlotRound(pass[n - 1], slots, n)
           /\ \A n \in 0 .. RingSize : pass[n] \in RunAccs
           /\ Runs(l, slots) = pass[RingSize]
<1> DEFINE N == RingSize
           base == [list |-> l, start |-> 0, end |-> 0]
           pass == CHOOSE f : f = [n \in 0 .. N |->
                                     IF n = 0 THEN base
                                     ELSE IF n - 1 \in slots THEN Extend(f[n - 1], n - 1)
                                     ELSE f[n - 1]]
           F == [q \in (1 .. N) \X RunAccs |-> SlotRound(q[2], slots, q[1])]
<1>1. N \in Nat
  BY RingAssumption
<1>2. base \in RunAccs
  <2>1. l \in NormLists /\ 0 \in 0 .. RingSize
    BY RingAssumption DEF Norm, NormLists
  <2>2. QED
    BY <2>1 DEF RunAccs
<1>3. F \in [(1 .. N) \X RunAccs -> RunAccs]
  <2>1. ASSUME NEW q \in (1 .. N) \X RunAccs PROVE SlotRound(q[2], slots, q[1]) \in RunAccs
    BY SlotRoundIs
  <2>2. QED
    BY <2>1
<1>4. ASSUME NEW n \in 1 .. N, NEW acc \in RunAccs
      PROVE  F[<<n, acc>>] = SlotRound(acc, slots, n)
  <2>1. <<n, acc>> \in (1 .. N) \X RunAccs
    OBVIOUS
  <2>2. F[<<n, acc>>] = SlotRound(<<n, acc>>[2], slots, <<n, acc>>[1])
    BY <2>1
  <2> HIDE DEF F
  <2>3. QED
    BY <2>2
<1>5. Runs(l, slots) = pass[N]
  BY DEF Runs
<1> HIDE DEF N, base, F
<1>6. PICK g : /\ g \in [0 .. N -> RunAccs]
               /\ g[0] = base /\ \A n \in 1 .. N : g[n] = F[<<n, g[n - 1]>>]
  <2>1. Recursive(N, RunAccs, base, F)
    BY <1>1, <1>2, <1>3 DEF Recursive
  <2>2. PICK g : Iterated(N, RunAccs, base, F, g)
    BY <2>1, Recursion
  <2>3. QED
    BY <2>2 DEF Iterated
<1>7. g = [n \in 0 .. N |-> IF n = 0 THEN base
                            ELSE IF n - 1 \in slots THEN Extend(g[n - 1], n - 1)
                            ELSE g[n - 1]]
  <2>1. ASSUME NEW n \in 0 .. N
        PROVE  g[n] = IF n = 0 THEN base
                      ELSE IF n - 1 \in slots THEN Extend(g[n - 1], n - 1)
                      ELSE g[n - 1]
    <3>1. CASE n = 0
      BY <1>6, <3>1
    <3>2. CASE n # 0
      <4>1. n \in 1 .. N /\ n - 1 \in 0 .. N
        BY <1>1, <3>2
      <4>2. g[n] = F[<<n, g[n - 1]>>] /\ g[n - 1] \in RunAccs
        BY <1>6, <4>1
      <4>3. QED
        BY <1>4, <3>2, <4>1, <4>2 DEF SlotRound
    <3>3. QED
      BY <3>1, <3>2
  <2>2. QED
    BY <1>6, <2>1
<1>8. pass = [n \in 0 .. N |-> IF n = 0 THEN base
                               ELSE IF n - 1 \in slots THEN Extend(pass[n - 1], n - 1)
                               ELSE pass[n - 1]]
  BY <1>7
<1> HIDE DEF pass
<1>9. pass[0] = base /\ \A n \in 1 .. N : pass[n] = SlotRound(pass[n - 1], slots, n)
  BY <1>1, <1>8 DEF SlotRound
<1>10. \A n \in 0 .. N : pass[n] \in RunAccs
  <2> DEFINE T == {n \in 0 .. N : pass[n] \in RunAccs}
  <2>1. 0 \in T
    BY <1>1, <1>2, <1>9
  <2>2. ASSUME NEW n \in 1 .. N, n - 1 \in T PROVE n \in T
    <3>1. SlotRound(pass[n - 1], slots, n) \in RunAccs
      BY <2>2, SlotRoundIs DEF N
    <3>2. QED
      BY <1>1, <1>9, <3>1
  <2> HIDE DEF T
  <2>3. \A n \in 0 .. N : n \in T
    BY <1>1, <2>1, <2>2, UpTo
  <2>4. QED
    BY <2>3 DEF T
<1>11. QED
  BY <1>5, <1>9, <1>10 DEF N, base

(* The slots below n are marked, but for those of the run that goes on. *)
MarkedBelow(l, slots, n, acc) ==
  /\ acc.start <= acc.end /\ acc.end <= n
  /\ \A s \in Int : Holds(acc.list, s) \/ contains(RunOf(acc), s)
                    <=> Holds(l, s) \/ (s \in slots /\ s < n)

LEMMA SlotStep ==
  ASSUME NEW l, NEW slots \in SUBSET Slots, NEW n \in 1 .. RingSize, NEW acc \in RunAccs,
         MarkedBelow(l, slots, n - 1, acc)
  PROVE  MarkedBelow(l, slots, n, SlotRound(acc, slots, n))
<1>1. RingSize \in Nat /\ n - 1 \in Slots /\ \A s \in slots : s \in Int
  BY RingAssumption DEF Slots
<1>2. /\ acc.start <= acc.end /\ acc.end <= n - 1
      /\ \A s \in Int : Holds(acc.list, s) \/ contains(RunOf(acc), s)
                        <=> Holds(l, s) \/ (s \in slots /\ s < n - 1)
  BY DEF MarkedBelow
<1>3. /\ acc.start \in Nat /\ acc.end \in Nat
      /\ \A s : contains(RunOf(acc), s) <=> s >= acc.start /\ s < acc.end
  BY RunEnds
<1>4. CASE n - 1 \notin slots
  <2>1. \A s \in Int : s \in slots /\ s < n <=> s \in slots /\ s < n - 1
    BY <1>4
  <2>2. SlotRound(acc, slots, n) = acc
    BY <1>4 DEF SlotRound
  <2>3. QED
    BY <1>2, <1>3, <2>1, <2>2 DEF MarkedBelow
<1>5. CASE n - 1 \in slots
  <2>1. PICK new : new = Extend(acc, n - 1)
    OBVIOUS
  <2>2. new = SlotRound(acc, slots, n)
    BY <1>5, <2>1 DEF SlotRound
  <2>3. /\ new \in RunAccs /\ new.end = n
        /\ n - 1 = acc.end => new.list = acc.list /\ new.start = acc.start
        /\ n - 1 # acc.end => /\ Marks(acc.list, RunOf(acc), new.list)
                              /\ new.start = n - 1
    BY <1>1, <2>1, ExtendIs
  <2>4. \A s : contains(RunOf(new), s) <=> s >= new.start /\ s < new.end
    BY <2>3, RunEnds
  <2>5. \A s \in Int : s \in slots /\ s < n <=> (s \in slots /\ s < n - 1) \/ s = n - 1
    BY <1>5
  <2>6. CASE n - 1 = acc.end
    <3>1. \A s \in Int : contains(RunOf(new), s) <=> contains(RunOf(acc), s) \/ s = n - 1
      BY <1>2, <1>3, <2>3, <2>4, <2>6
    <3>2. new.start <= new.end /\ new.end <= n
      BY <1>2, <1>3, <2>3, <2>6
    <3>3. QED
      BY <1>2, <2>2, <2>3, <2>5, <2>6, <3>1, <3>2 DEF MarkedBelow
  <2>7. CASE n - 1 # acc.end
    <3>1. \A s \in Int : contains(RunOf(new), s) <=> s = n - 1
      BY <2>3, <2>4, <2>7
    <3>2. new.start <= new.end /\ new.end <= n
      BY <2>3, <2>7
    <3>3. \A s \in Int : Holds(new.list, s) <=> Holds(acc.list, s) \/ contains(RunOf(acc), s)
      BY <2>3, <2>7 DEF Marks
    <3>4. QED
      BY <1>2, <2>2, <2>5, <3>1, <3>2, <3>3 DEF MarkedBelow
  <2>8. QED
    BY <2>6, <2>7
<1>6. QED
  BY <1>4, <1>5

LEMMA MarkSlotsIs ==
  ASSUME NEW l, Norm(l), NEW slots \in SUBSET Slots
  PROVE  /\ Norm(markSlots(l, slots))
         /\ \A s \in Int : Holds(markSlots(l, slots), s) <=> Holds(l, s) \/ s \in slots
<1>1. PICK pass :
        /\ pass[0] = [list |-> l, start |-> 0, end |-> 0]
        /\ \A n \in 1 .. RingSize : pass[n] = SlotRound(pass[n - 1], slots, n)
        /\ \A n \in 0 .. RingSize : pass[n] \in RunAccs
        /\ Runs(l, slots) = pass[RingSize]
  BY SlotLoop
<1>2. RingSize \in Nat /\ \A s \in slots : s \in Int /\ s >= 0 /\ s < RingSize
  BY RingAssumption DEF Slots
<1> DEFINE T == {n \in 0 .. RingSize : MarkedBelow(l, slots, n, pass[n])}
<1>3. 0 \in T
  <2>1. pass[0] \in RunAccs /\ pass[0].list = l /\ pass[0].start = 0 /\ pass[0].end = 0
    BY <1>1, <1>2
  <2>2. \A s \in Int : ~contains(RunOf(pass[0]), s)
    BY <2>1, RunEnds
  <2>3. MarkedBelow(l, slots, 0, pass[0])
    BY <1>2, <2>1, <2>2 DEF MarkedBelow
  <2>4. QED
    BY <1>2, <2>3
<1>4. ASSUME NEW n \in 1 .. RingSize, n - 1 \in T PROVE n \in T
  <2>1. n - 1 \in 0 .. RingSize /\ n \in 0 .. RingSize
    BY <1>2
  <2>2. pass[n - 1] \in RunAccs /\ MarkedBelow(l, slots, n - 1, pass[n - 1])
    BY <1>1, <1>4, <2>1
  <2>3. MarkedBelow(l, slots, n, SlotRound(pass[n - 1], slots, n))
    BY <2>2, SlotStep
  <2>4. QED
    BY <1>1, <2>1, <2>3
<1>5. RingSize \in T
  <2> HIDE DEF T
  <2>1. \A n \in 0 .. RingSize : n \in T
    BY <1>2, <1>3, <1>4, UpTo
  <2>2. QED
    BY <1>2, <2>1
<1>6. PICK acc \in RunAccs : acc = pass[RingSize]
  BY <1>1, <1>2
<1>7. MarkedBelow(l, slots, RingSize, acc)
  BY <1>5, <1>6
<1>8. markSlots(l, slots) = markRange(acc.list, RunOf(acc))
  BY <1>1, <1>6 DEF markSlots, RunOf
<1>9. Marks(acc.list, RunOf(acc), markSlots(l, slots))
  BY <1>8, RunEnds, MarkRangeIs
<1>10. QED
  BY <1>2, <1>7, <1>9 DEF Marks, MarkedBelow
----------------------------------------------------------------------------
(* uncovered_within. *)

NatRange == [start : Nat, end : Nat]

GapAccs == [cursor : Nat, out : Seq(NatRange)]

LEMMA NatRangeEnds ==
  ASSUME NEW a \in Nat, NEW b \in Nat
  PROVE  /\ [start |-> a, end |-> b] \in NatRange
         /\ [start |-> a, end |-> b].start = a /\ [start |-> a, end |-> b].end = b
  BY DEF NatRange

LEMMA NatRanges ==
  ASSUME NEW r \in NatRange
  PROVE  r.start \in Nat /\ r.end \in Nat
  BY DEF NatRange

(* What a visit does to the cursor and to the gaps. *)
LEMMA PastCoveredIs ==
  ASSUME NEW acc \in GapAccs, NEW c, c.start \in Nat, c.end \in Nat, NEW range \in NatRange
  PROVE  /\ PastCovered(acc, c, range) \in GapAccs
         /\ acc.cursor >= range.end \/ c.start >= range.end \/ c.end <= acc.cursor =>
              PastCovered(acc, c, range) = acc
         /\ acc.cursor < range.end /\ c.start < range.end /\ c.end > acc.cursor =>
              /\ PastCovered(acc, c, range).cursor = IF c.end <= range.end THEN c.end
                                                     ELSE range.end
              /\ PastCovered(acc, c, range).out =
                   IF c.start > acc.cursor
                     THEN Append(acc.out, [start |-> acc.cursor, end |-> c.start])
                     ELSE acc.out
<1>1. acc.cursor \in Nat /\ acc.out \in Seq(NatRange) /\ range.start \in Nat /\ range.end \in Nat
  BY NatRanges DEF GapAccs
<1> DEFINE cursor == IF c.end <= range.end THEN c.end ELSE range.end
           out == IF c.start > acc.cursor
                    THEN Append(acc.out, [start |-> acc.cursor, end |-> c.start])
                    ELSE acc.out
<1>2. cursor \in Nat
  BY <1>1
<1>3. out \in Seq(NatRange)
  <2>1. PICK e \in NatRange : e = [start |-> acc.cursor, end |-> c.start]
    BY <1>1, NatRangeEnds
  <2>2. Append(acc.out, e) \in Seq(NatRange)
    BY <1>1, Appending
  <2>3. QED
    BY <1>1, <2>1, <2>2
<1>4. PastCovered(acc, c, range) =
        IF acc.cursor >= range.end \/ c.start >= range.end \/ c.end <= acc.cursor THEN acc
        ELSE [cursor |-> cursor, out |-> out]
  BY DEF PastCovered
<1> HIDE DEF cursor, out
<1>5. /\ [cursor |-> cursor, out |-> out] \in GapAccs
      /\ [cursor |-> cursor, out |-> out].cursor = cursor
      /\ [cursor |-> cursor, out |-> out].out = out
  BY <1>2, <1>3 DEF GapAccs
<1>6. QED
  BY <1>1, <1>4, <1>5 DEF cursor, out

LEMMA GapLoop ==
  ASSUME NEW l, Norm(l), NEW range \in NatRange
  PROVE  \E pass :
           /\ pass[0] = [cursor |-> range.start, out |-> << >>]
           /\ \A i \in 1 .. Len(l) : pass[i] = PastCovered(pass[i - 1], l[i], range)
           /\ \A i \in 0 .. Len(l) : pass[i] \in GapAccs
           /\ uncoveredWithin(l, range) =
                IF isEmpty(range) THEN << >>
                ELSE IF pass[Len(l)].cursor < range.end
                       THEN Append(pass[Len(l)].out,
                                   [start |-> pass[Len(l)].cursor, end |-> range.end])
                       ELSE pass[Len(l)].out
<1> DEFINE N == Len(l)
           base == [cursor |-> range.start, out |-> << >>]
           pass == CHOOSE f : f = [i \in 0 .. N |->
                                     IF i = 0 THEN base
                                     ELSE PastCovered(f[i - 1], l[i], range)]
           F == [q \in (1 .. N) \X GapAccs |-> PastCovered(q[2], l[q[1]], range)]
<1>1. N \in Nat /\ \A i \in 1 .. N : l[i].start \in Nat /\ l[i].end \in Nat
  BY NormEnds
<1>2. base \in GapAccs
  BY NatRanges DEF GapAccs
<1>3. F \in [(1 .. N) \X GapAccs -> GapAccs]
  <2>1. ASSUME NEW q \in (1 .. N) \X GapAccs
        PROVE  PastCovered(q[2], l[q[1]], range) \in GapAccs
    BY <1>1, PastCoveredIs
  <2>2. QED
    BY <2>1
<1>4. ASSUME NEW i \in 1 .. N, NEW acc \in GapAccs
      PROVE  F[<<i, acc>>] = PastCovered(acc, l[i], range)
  <2>1. <<i, acc>> \in (1 .. N) \X GapAccs
    OBVIOUS
  <2>2. F[<<i, acc>>] = PastCovered(<<i, acc>>[2], l[<<i, acc>>[1]], range)
    BY <2>1
  <2> HIDE DEF F
  <2>3. QED
    BY <2>2
<1>5. uncoveredWithin(l, range) =
        IF isEmpty(range) THEN << >>
        ELSE IF pass[N].cursor < range.end
               THEN Append(pass[N].out, [start |-> pass[N].cursor, end |-> range.end])
               ELSE pass[N].out
  BY DEF uncoveredWithin
<1> HIDE DEF N, base, F
<1>6. PICK g : /\ g \in [0 .. N -> GapAccs]
               /\ g[0] = base /\ \A i \in 1 .. N : g[i] = F[<<i, g[i - 1]>>]
  <2>1. Recursive(N, GapAccs, base, F)
    BY <1>1, <1>2, <1>3 DEF Recursive
  <2>2. PICK g : Iterated(N, GapAccs, base, F, g)
    BY <2>1, Recursion
  <2>3. QED
    BY <2>2 DEF Iterated
<1>7. g = [i \in 0 .. N |-> IF i = 0 THEN base ELSE PastCovered(g[i - 1], l[i], range)]
  <2>1. ASSUME NEW i \in 0 .. N
        PROVE  g[i] = IF i = 0 THEN base ELSE PastCovered(g[i - 1], l[i], range)
    <3>1. CASE i = 0
      BY <1>6, <3>1
    <3>2. CASE i # 0
      <4>1. i \in 1 .. N /\ i - 1 \in 0 .. N
        BY <1>1, <3>2
      <4>2. g[i] = F[<<i, g[i - 1]>>] /\ g[i - 1] \in GapAccs
        BY <1>6, <4>1
      <4>3. QED
        BY <1>4, <3>2, <4>1, <4>2
    <3>3. QED
      BY <3>1, <3>2
  <2>2. QED
    BY <1>6, <2>1
<1>8. pass = [i \in 0 .. N |-> IF i = 0 THEN base ELSE PastCovered(pass[i - 1], l[i], range)]
  BY <1>7
<1> HIDE DEF pass
<1>9. pass[0] = base /\ \A i \in 1 .. N : pass[i] = PastCovered(pass[i - 1], l[i], range)
  BY <1>1, <1>8
<1>10. \A i \in 0 .. N : pass[i] \in GapAccs
  <2> DEFINE T == {i \in 0 .. N : pass[i] \in GapAccs}
  <2>1. 0 \in T
    BY <1>1, <1>2, <1>9
  <2>2. ASSUME NEW i \in 1 .. N, i - 1 \in T PROVE i \in T
    <3>1. PastCovered(pass[i - 1], l[i], range) \in GapAccs
      BY <1>1, <2>2, PastCoveredIs
    <3>2. QED
      BY <1>1, <1>9, <3>1
  <2> HIDE DEF T
  <2>3. \A i \in 0 .. N : i \in T
    BY <1>1, <2>1, <2>2, UpTo
  <2>4. QED
    BY <2>3 DEF T
<1>11. QED
  BY <1>5, <1>9, <1>10 DEF N, base

(* Ranges of numbers, each with something in it, in order, up to c. *)
Ordered(gaps, c) ==
  /\ gaps \in Seq(NatRange)
  /\ \A k \in 1 .. Len(gaps) : gaps[k].start < gaps[k].end /\ gaps[k].end <= c
  /\ \A k, j \in 1 .. Len(gaps) : k < j => gaps[k].end <= gaps[j].start

LEMMA OneMoreGap ==
  ASSUME NEW gaps, NEW a \in Nat, NEW b \in Nat, NEW c \in Nat, a < b, b <= c, Ordered(gaps, a)
  PROVE  /\ Ordered(Append(gaps, [start |-> a, end |-> b]), c)
         /\ \A s : Holds(Append(gaps, [start |-> a, end |-> b]), s)
                   <=> Holds(gaps, s) \/ (s >= a /\ s < b)
<1>1. PICK e \in NatRange : e = [start |-> a, end |-> b] /\ e.start = a /\ e.end = b
  BY NatRangeEnds
<1>2. gaps \in Seq(NatRange)
  BY DEF Ordered
<1>3. PICK n \in Nat : n = Len(gaps)
  BY <1>2
<1>4. PICK P : P = Append(gaps, e)
  OBVIOUS
<1>5. /\ P \in Seq(NatRange) /\ Len(P) = n + 1
      /\ \A k \in 1 .. n : P[k] = gaps[k]
      /\ P[n + 1] = e
  BY <1>2, <1>3, <1>4, Appending
<1>6. /\ \A k \in 1 .. n : /\ gaps[k].start < gaps[k].end /\ gaps[k].end <= a
                           /\ gaps[k].start \in Nat /\ gaps[k].end \in Nat
      /\ \A k, j \in 1 .. n : k < j => gaps[k].end <= gaps[j].start
  BY <1>2, <1>3, NatRanges DEF Ordered
<1>7. \A k \in 1 .. n + 1 : k \in 1 .. n \/ k = n + 1
  OBVIOUS
<1>8. \A k \in 1 .. n + 1 : P[k].start < P[k].end /\ P[k].end <= c
  BY <1>1, <1>5, <1>6, <1>7
<1>9. ASSUME NEW k \in 1 .. n + 1, NEW j \in 1 .. n + 1, k < j
      PROVE  P[k].end <= P[j].start
  <2>1. k \in 1 .. n
    BY <1>9
  <2>2. CASE j \in 1 .. n
    BY <1>5, <1>6, <1>9, <2>1, <2>2
  <2>3. CASE j = n + 1
    BY <1>1, <1>5, <1>6, <2>1, <2>3
  <2>4. QED
    BY <1>7, <2>2, <2>3
<1>10. Ordered(P, c)
  BY <1>5, <1>8, <1>9 DEF Ordered
<1>11. ASSUME NEW s PROVE Holds(P, s) <=> Holds(gaps, s) \/ (s >= a /\ s < b)
  <2>1. n + 1 \in 1 .. n + 1 /\ \A k \in 1 .. n : k \in 1 .. n + 1
    OBVIOUS
  <2>2. contains(e, s) <=> s >= a /\ s < b
    BY <1>1 DEF contains
  <2>3. QED
    BY <1>3, <1>5, <1>7, <2>1, <2>2 DEF Holds
<1>12. QED
  BY <1>1, <1>4, <1>10, <1>11

(* After i visits: below the cursor the gaps are known, and no range that  *)
(* was visited reaches past it within the range asked for.                 *)
Passed(l, range, i, acc) ==
  /\ range.start <= acc.cursor /\ acc.cursor <= range.end
  /\ Ordered(acc.out, acc.cursor)
  /\ \A s \in Int : Holds(acc.out, s)
                    <=> s >= range.start /\ s < acc.cursor /\ ~Holds(l, s)
  /\ \A j \in 1 .. i : \/ l[j].end <= acc.cursor \/ l[j].start >= range.end
                       \/ acc.cursor = range.end

LEMMA OrderedFurther ==
  ASSUME NEW gaps, NEW a \in Nat, NEW c \in Nat, a <= c, Ordered(gaps, a)
  PROVE  Ordered(gaps, c)
<1>1. gaps \in Seq(NatRange)
  BY DEF Ordered
<1>2. \A k \in 1 .. Len(gaps) : gaps[k].end \in Nat
  BY <1>1, NatRanges
<1>3. QED
  BY <1>2 DEF Ordered

LEMMA PassedStep ==
  ASSUME NEW l, Norm(l), NEW range \in NatRange, NEW i \in 1 .. Len(l), NEW acc \in GapAccs,
         Passed(l, range, i - 1, acc)
  PROVE  Passed(l, range, i, PastCovered(acc, l[i], range))
<1>1. PICK c : c = l[i]
  OBVIOUS
<1>2. PICK new : new = PastCovered(acc, l[i], range)
  OBVIOUS
<1>3. PICK N \in Nat : N = Len(l)
  BY NormEnds
<1>4. /\ i \in 1 .. N /\ i - 1 \in Nat
      /\ \A j \in 1 .. N : l[j].start \in Nat /\ l[j].end \in Nat /\ l[j].start < l[j].end
      /\ c.start \in Nat /\ c.end \in Nat
      /\ range.start \in Nat /\ range.end \in Nat
      /\ acc.cursor \in Nat
  <2>1. i \in 1 .. N /\ i - 1 \in Nat
    BY <1>3
  <2>2. \A j \in 1 .. N : l[j].start \in Nat /\ l[j].end \in Nat /\ l[j].start < l[j].end
    BY <1>3, NormEnds DEF Norm
  <2>3. range.start \in Nat /\ range.end \in Nat
    BY NatRanges
  <2>4. acc.cursor \in Nat
    BY DEF GapAccs
  <2>5. QED
    BY <1>1, <2>1, <2>2, <2>3, <2>4
<1>5. /\ range.start <= acc.cursor /\ acc.cursor <= range.end
      /\ Ordered(acc.out, acc.cursor)
      /\ \A s \in Int : Holds(acc.out, s)
                        <=> s >= range.start /\ s < acc.cursor /\ ~Holds(l, s)
      /\ \A j \in 1 .. i - 1 : \/ l[j].end <= acc.cursor \/ l[j].start >= range.end
                               \/ acc.cursor = range.end
  BY DEF Passed
<1>6. \A j \in 1 .. i : j \in 1 .. i - 1 \/ j = i
  BY <1>4
<1>7. CASE acc.cursor >= range.end \/ c.start >= range.end \/ c.end <= acc.cursor
  <2>1. new = acc
    BY <1>1, <1>2, <1>4, <1>7, PastCoveredIs
  <2>2. \A j \in 1 .. i : \/ l[j].end <= acc.cursor \/ l[j].start >= range.end
                          \/ acc.cursor = range.end
    BY <1>1, <1>4, <1>5, <1>6, <1>7
  <2>3. QED
    BY <1>2, <1>5, <2>1, <2>2 DEF Passed
<1>8. CASE acc.cursor < range.end /\ c.start < range.end /\ c.end > acc.cursor
  <2>1. /\ new.cursor = IF c.end <= range.end THEN c.end ELSE range.end
        /\ new.out = IF c.start > acc.cursor
                       THEN Append(acc.out, [start |-> acc.cursor, end |-> c.start])
                       ELSE acc.out
    BY <1>1, <1>2, <1>4, <1>8, PastCoveredIs
  <2>2. /\ new.cursor \in Nat /\ acc.cursor < new.cursor /\ new.cursor <= range.end
        /\ new.cursor <= c.end /\ c.start < new.cursor
        /\ c.end <= new.cursor \/ new.cursor = range.end
    <3>1. c.start < c.end
      BY <1>1, <1>4
    <3>2. QED
      BY <1>4, <1>8, <2>1, <3>1
  <2>3. \A j \in 1 .. i : \/ l[j].end <= new.cursor \/ l[j].start >= range.end
                          \/ new.cursor = range.end
    <3> SUFFICES ASSUME NEW j \in 1 .. i
                 PROVE  \/ l[j].end <= new.cursor \/ l[j].start >= range.end
                        \/ new.cursor = range.end
      OBVIOUS
    <3>1. CASE j = i
      BY <1>1, <2>2, <3>1
    <3>2. CASE j \in 1 .. i - 1
      <4>1. j \in 1 .. N
        BY <1>4
      <4>2. l[j].end \in Nat /\ (l[j].end <= acc.cursor \/ l[j].start >= range.end)
        <5>1. l[j].end <= acc.cursor \/ l[j].start >= range.end \/ acc.cursor = range.end
          BY <1>5, <3>2
        <5>2. acc.cursor # range.end
          BY <1>4, <1>8
        <5>3. QED
          BY <1>4, <4>1, <5>1, <5>2
      <4>3. QED
        BY <1>4, <2>2, <4>2
    <3>3. QED
      BY <1>6, <3>1, <3>2
  <2>4. ASSUME NEW s \in Int, s >= acc.cursor, s < new.cursor
        PROVE  Holds(l, s) <=> s >= c.start
    <3>1. ASSUME s >= c.start PROVE Holds(l, s)
      <4>1. contains(l[i], s)
        BY <1>1, <1>4, <2>2, <2>4, <3>1 DEF contains
      <4>2. QED
        BY <4>1 DEF Holds
    <3>2. ASSUME s < c.start, NEW j \in 1 .. N PROVE ~contains(l[j], s)
      <4>1. CASE j \in 1 .. i - 1
        <5>1. l[j].end <= acc.cursor \/ l[j].start >= range.end
          BY <1>4, <1>5, <1>8, <4>1
        <5>2. QED
          BY <1>4, <2>2, <2>4, <5>1 DEF contains
      <4>2. CASE j = i
        BY <1>1, <1>4, <3>2, <4>2 DEF contains
      <4>3. CASE j > i
        <5>1. c.end < l[j].start
          BY <1>1, <1>3, <1>4, <4>3 DEF Norm
        <5>2. QED
          BY <1>4, <2>2, <2>4, <5>1 DEF contains
      <4>4. QED
        BY <1>4, <4>1, <4>2, <4>3
    <3>3. QED
      BY <1>3, <1>4, <3>1, <3>2 DEF Holds
  <2>5. /\ Ordered(new.out, new.cursor)
        /\ \A s \in Int : Holds(new.out, s)
                          <=> Holds(acc.out, s) \/ (s >= acc.cursor /\ s < c.start)
    <3>1. CASE c.start > acc.cursor
      <4>1. new.out = Append(acc.out, [start |-> acc.cursor, end |-> c.start])
        BY <2>1, <3>1
      <4>2. c.start <= new.cursor
        BY <1>4, <2>2
      <4>3. PICK a \in Nat : a = acc.cursor
        BY <1>4
      <4>4. PICK b \in Nat : b = c.start
        BY <1>4
      <4>5. PICK d \in Nat : d = new.cursor
        BY <2>2
      <4>6. a < b /\ b <= d /\ Ordered(acc.out, a)
        BY <1>4, <1>5, <3>1, <4>2, <4>3, <4>4, <4>5
      <4>7. /\ Ordered(Append(acc.out, [start |-> a, end |-> b]), d)
            /\ \A s : Holds(Append(acc.out, [start |-> a, end |-> b]), s)
                      <=> Holds(acc.out, s) \/ (s >= a /\ s < b)
        BY <4>6, OneMoreGap
      <4>8. QED
        BY <4>1, <4>3, <4>4, <4>5, <4>7
    <3>2. CASE ~(c.start > acc.cursor)
      <4>1. new.out = acc.out
        BY <2>1, <3>2
      <4>2. \A s \in Int : ~(s >= acc.cursor /\ s < c.start)
        BY <1>4, <3>2
      <4>3. acc.cursor <= new.cursor
        BY <1>4, <2>2
      <4>4. Ordered(acc.out, new.cursor)
        BY <1>4, <1>5, <2>2, <4>3, OrderedFurther
      <4>5. QED
        BY <4>1, <4>2, <4>4
    <3>3. QED
      BY <3>1, <3>2
  <2>6. ASSUME NEW s \in Int
        PROVE  Holds(new.out, s) <=> s >= range.start /\ s < new.cursor /\ ~Holds(l, s)
    <3>1. Holds(new.out, s) <=> Holds(acc.out, s) \/ (s >= acc.cursor /\ s < c.start)
      BY <2>5
    <3>2. Holds(acc.out, s) <=> s >= range.start /\ s < acc.cursor /\ ~Holds(l, s)
      BY <1>5
    <3>3. CASE s < acc.cursor
      BY <1>4, <2>2, <3>1, <3>2, <3>3
    <3>4. CASE s >= acc.cursor
      BY <1>4, <1>5, <2>2, <2>4, <3>1, <3>2, <3>4
    <3>5. QED
      BY <1>4, <3>3, <3>4
  <2>7. range.start <= new.cursor
    BY <1>4, <1>5, <2>2
  <2>8. QED
    BY <1>2, <2>2, <2>3, <2>5, <2>6, <2>7 DEF Passed
<1>9. QED
  BY <1>4, <1>7, <1>8

LEMMA UncoveredIs ==
  ASSUME NEW l, Norm(l), NEW range \in NatRange
  PROVE  /\ Ordered(uncoveredWithin(l, range), range.end)
         /\ \A s \in Int : Holds(uncoveredWithin(l, range), s)
                           <=> contains(range, s) /\ ~Holds(l, s)
<1>1. range.start \in Nat /\ range.end \in Nat /\ Len(l) \in Nat
  BY NatRanges, NormEnds
<1>2. PICK pass :
        /\ pass[0] = [cursor |-> range.start, out |-> << >>]
        /\ \A i \in 1 .. Len(l) : pass[i] = PastCovered(pass[i - 1], l[i], range)
        /\ \A i \in 0 .. Len(l) : pass[i] \in GapAccs
        /\ uncoveredWithin(l, range) =
             IF isEmpty(range) THEN << >>
             ELSE IF pass[Len(l)].cursor < range.end
                    THEN Append(pass[Len(l)].out,
                                [start |-> pass[Len(l)].cursor, end |-> range.end])
                    ELSE pass[Len(l)].out
  BY GapLoop
<1>3. \A c : Ordered(<< >>, c) /\ \A s : ~Holds(<< >>, s)
  BY DEF Ordered, Holds
<1>4. CASE isEmpty(range)
  <2>1. \A s \in Int : ~contains(range, s)
    BY <1>1, <1>4 DEF isEmpty, contains
  <2>2. QED
    BY <1>2, <1>3, <1>4, <2>1
<1>5. CASE ~isEmpty(range)
  <2> DEFINE T == {i \in 0 .. Len(l) : Passed(l, range, i, pass[i])}
  <2>1. 0 \in T
    <3>1. range.start <= range.end
      BY <1>1, <1>5 DEF isEmpty
    <3>2. pass[0].cursor = range.start /\ pass[0].out = << >>
      BY <1>2
    <3>3. Passed(l, range, 0, pass[0])
      BY <1>1, <1>3, <3>1, <3>2 DEF Passed
    <3>4. QED
      BY <1>1, <3>3
  <2>2. ASSUME NEW i \in 1 .. Len(l), i - 1 \in T PROVE i \in T
    <3>1. i - 1 \in 0 .. Len(l) /\ i \in 0 .. Len(l)
      BY <1>1
    <3>2. pass[i - 1] \in GapAccs /\ Passed(l, range, i - 1, pass[i - 1])
      BY <1>2, <2>2, <3>1
    <3>3. Passed(l, range, i, PastCovered(pass[i - 1], l[i], range))
      BY <3>2, PassedStep
    <3>4. QED
      BY <1>2, <3>1, <3>3
  <2>3. Len(l) \in T
    <3> HIDE DEF T
    <3>1. \A i \in 0 .. Len(l) : i \in T
      BY <1>1, <2>1, <2>2, UpTo
    <3>2. QED
      BY <1>1, <3>1
  <2>4. PICK acc \in GapAccs : acc = pass[Len(l)]
    BY <1>1, <1>2
  <2>5. Passed(l, range, Len(l), acc)
    BY <2>3, <2>4
  <2>6. PICK a \in Nat : a = acc.cursor
    BY DEF GapAccs
  <2>7. PICK b \in Nat : b = range.end
    BY <1>1
  <2>8. /\ range.start <= a /\ a <= b
        /\ Ordered(acc.out, a)
        /\ \A s \in Int : Holds(acc.out, s) <=> s >= range.start /\ s < a /\ ~Holds(l, s)
        /\ \A j \in 1 .. Len(l) : l[j].end <= a \/ l[j].start >= b \/ a = b
    BY <2>5, <2>6, <2>7 DEF Passed
  <2>9. uncoveredWithin(l, range) =
          IF a < b THEN Append(acc.out, [start |-> a, end |-> b]) ELSE acc.out
    BY <1>2, <1>5, <2>4, <2>6, <2>7
  <2>10. CASE a < b
    <3>1. b <= b
      OBVIOUS
    <3>2. /\ Ordered(Append(acc.out, [start |-> a, end |-> b]), b)
          /\ \A s : Holds(Append(acc.out, [start |-> a, end |-> b]), s)
                    <=> Holds(acc.out, s) \/ (s >= a /\ s < b)
      BY <2>8, <2>10, <3>1, OneMoreGap
    <3>3. ASSUME NEW s \in Int, s >= a, s < b PROVE ~Holds(l, s)
      <4>1. ASSUME NEW j \in 1 .. Len(l) PROVE ~contains(l[j], s)
        <5>1. l[j].start \in Nat /\ l[j].end \in Nat
          BY NormEnds
        <5>2. l[j].end <= a \/ l[j].start >= b
          BY <2>8, <2>10
        <5>3. QED
          BY <3>3, <5>1, <5>2 DEF contains
      <4>2. QED
        BY <4>1 DEF Holds
    <3>4. ASSUME NEW s \in Int
          PROVE  (Holds(acc.out, s) \/ (s >= a /\ s < b))
                 <=> contains(range, s) /\ ~Holds(l, s)
      <4>1. contains(range, s) <=> s >= range.start /\ s < b
        BY <2>7 DEF contains
      <4>2. CASE s < a
        BY <1>1, <2>8, <4>1, <4>2
      <4>3. CASE s >= a
        BY <1>1, <2>8, <3>3, <4>1, <4>3
      <4>4. QED
        BY <4>2, <4>3
    <3>5. QED
      BY <2>7, <2>9, <2>10, <3>2, <3>4
  <2>11. CASE ~(a < b)
    <3>1. a = b
      BY <2>8, <2>11
    <3>2. \A s \in Int : contains(range, s) <=> s >= range.start /\ s < b
      BY <2>7 DEF contains
    <3>3. QED
      BY <2>7, <2>8, <2>9, <2>11, <3>1, <3>2
  <2>12. QED
    BY <2>10, <2>11
<1>6. QED
  BY <1>4, <1>5
----------------------------------------------------------------------------
(* The coverage map. *)

LEMMA CoversIs ==
  ASSUME NEW l, DOMAIN l = 1 .. Len(l)
  PROVE  Covers(l) = {slot \in Slots : Holds(l, slot)}
  BY DEF Covers, SlotsOf, Holds

CoverageInv == CoverageTypeOK /\ Normalised /\ CoverageExact

LEMMA MapIs ==
  ASSUME CoverageInv, NEW m \in Maps
  PROVE  /\ Norm(ranges[m])
         /\ covered[m] = {slot \in Slots : Holds(ranges[m], slot)}
<1>1. PICK l : l = ranges[m]
  OBVIOUS
<1>2. l \in Seq(RingRange) /\ DOMAIN l = 1 .. Len(l) /\ \A i \in 1 .. Len(l) : l[i] \in RingRange
  BY <1>1 DEF CoverageInv, CoverageTypeOK
<1>3. \A i \in 1 .. Len(l) : ~isEmpty(l[i])
  BY <1>1, <1>2 DEF CoverageInv, Normalised
<1>4. \A i, j \in 1 .. Len(l) : i < j => l[i].end < l[j].start
  BY <1>1, <1>2 DEF CoverageInv, Normalised
<1>5. \A i \in 1 .. Len(l) : l[i].start < l[i].end
  BY <1>2, <1>3, RangeEnds DEF isEmpty
<1>6. Norm(l)
  BY <1>2, <1>4, <1>5 DEF Norm
<1>7. covered[m] = Covers(l)
  BY <1>1 DEF CoverageInv, CoverageExact
<1>8. QED
  BY <1>1, <1>2, <1>6, <1>7, CoversIs

LEMMA ListIs ==
  ASSUME NEW l, Norm(l)
  PROVE  /\ \A i \in DOMAIN l : ~isEmpty(l[i])
         /\ \A i, j \in DOMAIN l : i < j => l[i].end < l[j].start
         /\ Covers(l) = {slot \in Slots : Holds(l, slot)}
<1>1. /\ DOMAIN l = 1 .. Len(l)
      /\ \A i \in 1 .. Len(l) : l[i].start \in Nat /\ l[i].end \in Nat
  BY NormEnds
<1>2. \A i \in 1 .. Len(l) : ~isEmpty(l[i])
  BY <1>1 DEF Norm, isEmpty
<1>3. \A i, j \in 1 .. Len(l) : i < j => l[i].end < l[j].start
  BY DEF Norm
<1>4. QED
  BY <1>1, <1>2, <1>3, CoversIs

(* A step that puts a normalised list in the place of another, and adds to *)
(* the set what it adds to the list.                                       *)
MapMoves(m, new, added) ==
  /\ ranges' = [ranges EXCEPT ![m] = new]
  /\ covered' = [covered EXCEPT ![m] = @ \cup added]
  /\ Norm(new)
  /\ added \subseteq Slots
  /\ \A s \in Slots : Holds(new, s) <=> Holds(ranges[m], s) \/ s \in added

LEMMA MapMovesKeep ==
  ASSUME CoverageInv, NEW m \in Maps, NEW new, NEW added, MapMoves(m, new, added)
  PROVE  CoverageInv'
<1>1. ranges \in [Maps -> Seq(RingRange)] /\ covered \in [Maps -> SUBSET Slots]
  BY DEF CoverageInv, CoverageTypeOK
<1>2. /\ ranges' = [ranges EXCEPT ![m] = new]
      /\ covered' = [covered EXCEPT ![m] = covered[m] \cup added]
      /\ Norm(new) /\ new \in Seq(RingRange) /\ added \subseteq Slots
      /\ \A s \in Slots : Holds(new, s) <=> Holds(ranges[m], s) \/ s \in added
  BY DEF MapMoves, Norm
<1>3. ranges' \in [Maps -> Seq(RingRange)] /\ covered' \in [Maps -> SUBSET Slots]
  BY <1>1, <1>2
<1>4. ASSUME NEW k \in Maps
      PROVE  /\ Norm(ranges'[k])
             /\ covered'[k] = {slot \in Slots : Holds(ranges'[k], slot)}
  <2>1. Norm(ranges[k]) /\ covered[k] = {slot \in Slots : Holds(ranges[k], slot)}
    BY MapIs
  <2>2. CASE k = m
    <3>1. ranges'[k] = new /\ covered'[k] = covered[m] \cup added
      BY <1>1, <1>2, <2>2
    <3>2. QED
      BY <1>2, <2>1, <2>2, <3>1
  <2>3. CASE k # m
    <3>1. ranges'[k] = ranges[k] /\ covered'[k] = covered[k]
      BY <1>1, <1>2, <2>3
    <3>2. QED
      BY <2>1, <3>1
  <2>4. QED
    BY <2>2, <2>3
<1>5. \A k \in Maps : /\ \A i \in DOMAIN ranges'[k] : ~isEmpty(ranges'[k][i])
                      /\ \A i, j \in DOMAIN ranges'[k] :
                           i < j => ranges'[k][i].end < ranges'[k][j].start
                      /\ Covers(ranges'[k]) = covered'[k]
  <2> SUFFICES ASSUME NEW k \in Maps
               PROVE  /\ \A i \in DOMAIN ranges'[k] : ~isEmpty(ranges'[k][i])
                      /\ \A i, j \in DOMAIN ranges'[k] :
                           i < j => ranges'[k][i].end < ranges'[k][j].start
                      /\ Covers(ranges'[k]) = covered'[k]
    OBVIOUS
  <2>1. PICK l : l = ranges'[k]
    OBVIOUS
  <2>2. Norm(l) /\ covered'[k] = {slot \in Slots : Holds(l, slot)}
    BY <1>4, <2>1
  <2>3. QED
    BY <2>1, <2>2, ListIs
<1>6. QED
  BY <1>3, <1>5 DEF CoverageInv, CoverageTypeOK, Normalised, CoverageExact

(* The inductive invariant of the coverage map. *)
THEOREM CoverageKeeps == CoverageSpec => []CoverageInv
<1>1. CoverageInit => CoverageInv
  <2> SUFFICES ASSUME CoverageInit PROVE CoverageInv
    OBVIOUS
  <2>1. ranges = [m \in Maps |-> << >>] /\ covered = [m \in Maps |-> {}]
    BY DEF CoverageInit
  <2>2. << >> \in Seq(RingRange)
    OBVIOUS
  <2>3. CoverageTypeOK
    BY <2>1, <2>2 DEF CoverageTypeOK
  <2>4. Normalised
    BY <2>1 DEF Normalised
  <2>5. CoverageExact
    BY <2>1 DEF CoverageExact, Covers
  <2>6. QED
    BY <2>3, <2>4, <2>5 DEF CoverageInv
<1>2. CoverageInv /\ [CoverageNext]_coverageVars => CoverageInv'
  <2> SUFFICES ASSUME CoverageInv, [CoverageNext]_coverageVars PROVE CoverageInv'
    OBVIOUS
  <2>0. \A s \in Slots : s \in Int
    BY RingAssumption DEF Slots
  <2>1. ASSUME NEW m \in Maps, NEW range \in RingRange, MarkRange(m, range)
        PROVE  CoverageInv'
    <3>1. PICK new : new = markRange(ranges[m], range)
      OBVIOUS
    <3>2. PICK added : added = SlotsOf(range)
      OBVIOUS
    <3>3. Marks(ranges[m], range, new)
      BY <3>1, MapIs, MarkRangeIs
    <3>4. added \subseteq Slots /\ \A s \in Slots : s \in added <=> contains(range, s)
      BY <3>2 DEF SlotsOf
    <3>5. MapMoves(m, new, added)
      BY <2>0, <2>1, <3>1, <3>2, <3>3, <3>4 DEF MarkRange, Marks, MapMoves
    <3>6. QED
      BY <3>5, MapMovesKeep
  <2>2. ASSUME NEW m \in Maps, NEW slots \in SUBSET Slots, MarkSlots(m, slots)
        PROVE  CoverageInv'
    <3>1. PICK new : new = markSlots(ranges[m], slots)
      OBVIOUS
    <3>2. Norm(new) /\ \A s \in Int : Holds(new, s) <=> Holds(ranges[m], s) \/ s \in slots
      BY <3>1, MapIs, MarkSlotsIs
    <3>3. MapMoves(m, new, slots)
      BY <2>0, <2>2, <3>1, <3>2 DEF MarkSlots, MapMoves
    <3>4. QED
      BY <3>3, MapMovesKeep
  <2>3. ASSUME NEW m \in Maps, NEW other \in Maps, Union(m, other)
        PROVE  CoverageInv'
    <3>1. PICK new : new = union(ranges[m], ranges[other])
      OBVIOUS
    <3>2. /\ Norm(ranges[m]) /\ Norm(ranges[other])
          /\ covered[other] = {slot \in Slots : Holds(ranges[other], slot)}
      BY MapIs
    <3>3. /\ Norm(new)
          /\ \A s \in Int : Holds(new, s) <=> Holds(ranges[m], s) \/ Holds(ranges[other], s)
      BY <3>1, <3>2, UnionIs
    <3>4. PICK added : added = covered[other]
      OBVIOUS
    <3>5. MapMoves(m, new, added)
      BY <2>0, <2>3, <3>1, <3>2, <3>3, <3>4 DEF Union, MapMoves
    <3>6. QED
      BY <3>5, MapMovesKeep
  <2>4. CASE UNCHANGED coverageVars
    BY <2>4 DEF CoverageInv, CoverageTypeOK, Normalised, CoverageExact, coverageVars
  <2>5. QED
    BY <2>1, <2>2, <2>3, <2>4 DEF CoverageNext
<1>3. QED
  BY <1>1, <1>2, PTL DEF CoverageSpec

(* Lists and sets of slots stay what they are. *)
THEOREM CoverageTypeCorrect == CoverageSpec => []CoverageTypeOK
<1>1. CoverageInv => CoverageTypeOK
  BY DEF CoverageInv
<1>2. QED
  BY <1>1, CoverageKeeps, PTL

(* mark_range, mark_slots and union leave the list ordered, without empty  *)
(* ranges and without two that touch, on every ring (worker_partition.rs   *)
(* 102-105, 397-460).                                                      *)
THEOREM ListsStayNormalised == CoverageSpec => []Normalised
<1>1. CoverageInv => Normalised
  BY DEF CoverageInv
<1>2. QED
  BY <1>1, CoverageKeeps, PTL

(* No mark and no merge loses a slot or covers one that nobody marked, on  *)
(* every ring (worker_partition.rs 397-460).                               *)
THEOREM ListsCoverExactly == CoverageSpec => []CoverageExact
<1>1. CoverageInv => CoverageExact
  BY DEF CoverageInv
<1>2. QED
  BY <1>1, CoverageKeeps, PTL

LEMMA GapsAre ==
  ASSUME CoverageInv, NEW m \in Maps, NEW range \in NatRange
  PROVE  /\ Ordered(uncoveredWithin(ranges[m], range), range.end)
         /\ Covers(uncoveredWithin(ranges[m], range)) = SlotsOf(range) \ covered[m]
<1>1. PICK gaps : gaps = uncoveredWithin(ranges[m], range)
  OBVIOUS
<1>2. Norm(ranges[m]) /\ covered[m] = {slot \in Slots : Holds(ranges[m], slot)}
  BY MapIs
<1>3. /\ Ordered(gaps, range.end)
      /\ \A s \in Int : Holds(gaps, s) <=> contains(range, s) /\ ~Holds(ranges[m], s)
  BY <1>1, <1>2, UncoveredIs
<1>4. DOMAIN gaps = 1 .. Len(gaps)
  BY <1>3 DEF Ordered
<1>5. Covers(gaps) = {slot \in Slots : Holds(gaps, slot)}
  BY <1>4, CoversIs
<1>6. \A s \in Slots : s \in Int
  BY RingAssumption DEF Slots
<1>7. {slot \in Slots : Holds(gaps, slot)} = SlotsOf(range) \ covered[m]
  BY <1>2, <1>3, <1>6 DEF SlotsOf
<1>8. QED
  BY <1>1, <1>3, <1>5, <1>7

(* What uncovered_within returns is ordered, has no empty range, and is    *)
(* the range asked for without the slots that were marked, on every ring   *)
(* (worker_partition.rs 462-489).                                          *)
THEOREM GapsAreExact == CoverageSpec => []UncoveredExact
<1>1. CoverageInv => UncoveredExact
  <2> SUFFICES ASSUME CoverageInv, NEW m \in Maps, NEW range \in RingRange
               PROVE  LET gaps == uncoveredWithin(ranges[m], range)
                      IN  /\ Covers(gaps) = SlotsOf(range) \ covered[m]
                          /\ \A i \in DOMAIN gaps : ~isEmpty(gaps[i])
                          /\ \A i, j \in DOMAIN gaps : i < j => gaps[i].end <= gaps[j].start
    BY DEF UncoveredExact
  <2>1. PICK gaps : gaps = uncoveredWithin(ranges[m], range)
    OBVIOUS
  <2>2. range \in NatRange
    BY RingAssumption DEF RingRange, NatRange
  <2>3. Ordered(gaps, range.end) /\ Covers(gaps) = SlotsOf(range) \ covered[m]
    BY <2>1, <2>2, GapsAre
  <2>4. DOMAIN gaps = 1 .. Len(gaps) /\ \A i \in 1 .. Len(gaps) : gaps[i] \in NatRange
    BY <2>3 DEF Ordered
  <2>5. \A i \in 1 .. Len(gaps) : gaps[i].start < gaps[i].end
    BY <2>3 DEF Ordered
  <2>6. \A i, j \in 1 .. Len(gaps) : i < j => gaps[i].end <= gaps[j].start
    BY <2>3 DEF Ordered
  <2>7. \A i \in 1 .. Len(gaps) : ~isEmpty(gaps[i])
    BY <2>4, <2>5, NatRanges DEF isEmpty
  <2>8. QED
    BY <2>1, <2>3, <2>4, <2>6, <2>7
<1>2. QED
  BY <1>1, CoverageKeeps, PTL

LEMMA PoolRange ==
  ASSUME NEW n \in Nat \ {0}, NEW i \in 0 .. n - 1
  PROVE  ringRangeFor(i, n) \in NatRange
<1> DEFINE base  == RingSize \div n
           extra == RingSize % n
           start == i * base + IF i <= extra THEN i ELSE extra
           len   == base + IF i < extra THEN 1 ELSE 0
<1>1. base \in Nat /\ extra \in Nat
  BY DivMod, RingAssumption
<1>2. ringRangeFor(i, n) = [start |-> start, end |-> start + len]
  BY DEF ringRangeFor
<1> HIDE DEF base, extra
<1>3. start \in Nat /\ start + len \in Nat
  BY <1>1
<1> HIDE DEF start, len
<1>4. QED
  BY <1>2, <1>3, NatRangeEnds

(* For every ring and every pool, however large: what a worker finds       *)
(* uncovered in its range is exactly the slots that nobody marked and that *)
(* worker_for_seed gives to it (worker_partition.rs 462-501, 620-623).     *)
THEOREM ResumeLeavesNobodyOut ==
  ASSUME CoverageInv, NEW m \in Maps, NEW n \in Nat \ {0}, NEW i \in 0 .. n - 1
  PROVE  Covers(uncoveredWithin(ranges[m], ringRangeFor(i, n)))
           = {slot \in Slots \ covered[m] : workerForSlot(slot, n) = i}
<1>1. PICK range \in NatRange : range = ringRangeFor(i, n)
  BY PoolRange
<1>2. Covers(uncoveredWithin(ranges[m], range)) = SlotsOf(range) \ covered[m]
  BY GapsAre
<1>3. SlotsOf(range) = {slot \in Slots : workerForSlot(slot, n) = i}
  BY <1>1, RangesAgreeWithOwners
<1>4. QED
  BY <1>1, <1>2, <1>3

(* In every reachable state of the map, a slot that is left is left to one *)
(* worker, and a covered slot to none.                                     *)
THEOREM OneWorkerForEachSlot == CoverageSpec => []OneWorkerLeft
<1>1. CoverageInv => OneWorkerLeft
  <2> SUFFICES ASSUME CoverageInv, NEW m \in Maps, NEW n \in 1 .. RingSize + 2,
                      NEW i \in 0 .. n - 1
               PROVE  Covers(uncoveredWithin(ranges[m], ringRangeFor(i, n)))
                        = {slot \in Slots \ covered[m] : workerForSlot(slot, n) = i}
    BY DEF OneWorkerLeft
  <2>1. n \in Nat \ {0}
    BY RingAssumption
  <2>2. QED
    BY <2>1, ResumeLeavesNobodyOut
<1>2. QED
  BY <1>1, CoverageKeeps, PTL
============================================================================
