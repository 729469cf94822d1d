----------------------------- MODULE RunControl -----------------------------
(***************************************************************************)
(* The campaign drivers of contracts/crashlab-core/src/run_control.rs:     *)
(* drive_run, drive_run_from_checkpoint and                                *)
(* drive_run_partitioned_from_checkpoint, one loop iteration per action.   *)
(*                                                                         *)
(* A process that is inside a driver has a `run' record and the checkpoint *)
(* it passed to it by reference.  Who loads and saves checkpoints is the   *)
(* caller's business: the modules that extend this one add it.  Coverage   *)
(* is the set of covered slots; that the range list stands for that set is *)
(* what the module RingCoverage is about.                                  *)
(***************************************************************************)
EXTENDS HashRing

CONSTANTS
  Processes,     \* processes that may be inside a driver
  TotalSeeds,    \* the schedule's length, the same for every resume
  RingSlot,      \* ring_slot: the slot of each seed
  MaxExecutions  \* bound: executions of one seed that are counted

Seeds == 0 .. TotalSeeds - 1

ASSUME RunAssumption ==
  /\ TotalSeeds \in Nat
  /\ RingSlot \in [Seeds -> Slots]
  /\ MaxExecutions \in Nat \ {0}

VARIABLES
  run,           \* per process, the driver's local variables
  checkpoint,    \* per process, the checkpoint the driver advances
  cancelled,     \* the cancel signal, as is_cancelled() reads it
  executed       \* how often each seed was executed, up to MaxExecutions

Drivers == {"plain", "cursor", "ring"}

Statuses == {"idle", "running", "completed", "cancelled", "failed"}

Run == [driver  : Drivers,
        status  : Statuses,
        owned   : SUBSET Slots,    \* the slots of the worker's partition
        pending : SUBSET Slots,    \* those not covered when the run began
        cursor  : 0 .. TotalSeeds, \* the loop variable
        swept   : SUBSET Slots]    \* completed_slots

Checkpoint == [next      : 0 .. TotalSeeds,
               covered   : SUBSET Slots,
               completed : SUBSET Seeds]

RunTypeOK ==
  /\ run \in [Processes -> Run]
  /\ checkpoint \in [Processes -> Checkpoint]
  /\ cancelled \in BOOLEAN
  /\ executed \in [Seeds -> 0 .. MaxExecutions]

NewCheckpoint == [next |-> 0, covered |-> {}, completed |-> {}]

NotRunning == [driver |-> "plain", status |-> "idle", owned |-> {}, pending |-> {},
               cursor |-> 0, swept |-> {}]

RunInit ==
  /\ run = [p \in Processes |-> NotRunning]
  /\ checkpoint = [p \in Processes |-> NewCheckpoint]
  /\ cancelled = FALSE
  /\ executed = [s \in Seeds |-> 0]

----------------------------------------------------------------------------
(* The parts of an iteration. *)

Owned(worker, workers) == SlotsOf(ringRangeFor(worker, workers))

Running(p, driver) == run[p].status = "running" /\ run[p].driver = driver

(* is_cancelled() is looked at before every seed. *)
Iterates(p, driver) ==
  Running(p, driver) /\ run[p].cursor < TotalSeeds /\ ~cancelled

StopsHere(p, driver) ==
  Running(p, driver) /\ run[p].cursor < TotalSeeds /\ cancelled

ReachesEnd(p, driver) == Running(p, driver) /\ run[p].cursor = TotalSeeds

SlotAt(p) == RingSlot[run[p].cursor]

Advance(p) == run' = [run EXCEPT ![p].cursor = @ + 1]

Return(p, status) == run' = [run EXCEPT ![p].status = status]

WorkDone(p, ran) ==
  executed' = [executed EXCEPT ![run[p].cursor] =
                IF ran /\ @ < MaxExecutions THEN @ + 1 ELSE @]

(* Mutant: the first index of a slot completes it. *)
FirstIndexOfSlot(seed) == \A s \in Seeds : RingSlot[s] = RingSlot[seed] => s >= seed

(* last_index_for_slot: a slot is swept once its last index is done. *)
LastIndexOfSlot(seed) == \A s \in Seeds : RingSlot[s] = RingSlot[seed] => s <= seed

AdvanceSweeping(p) ==
  run' = [run EXCEPT ![p].cursor = @ + 1,
                     ![p].swept  = IF LastIndexOfSlot(run[p].cursor)
                                     THEN @ \cup {SlotAt(p)} ELSE @]

----------------------------------------------------------------------------
(* drive_run, also restricted to the seeds of a partition. *)

PlainStart(p, owned) ==
  run' = [run EXCEPT ![p] = [NotRunning EXCEPT !.status = "running", !.owned = owned]]

PlainPass(p) ==
  /\ Iterates(p, "plain")
  /\ SlotAt(p) \notin run[p].owned
  /\ Advance(p)
  /\ UNCHANGED <<checkpoint, executed>>

PlainWorks(p) == Iterates(p, "plain") /\ SlotAt(p) \in run[p].owned

PlainWork(p, ran) ==
  /\ PlainWorks(p)
  /\ WorkDone(p, ran)
  /\ Advance(p)
  /\ UNCHANGED checkpoint

PlainFail(p, ran) ==
  /\ PlainWorks(p)
  /\ WorkDone(p, ran)
  /\ Return(p, "failed")
  /\ UNCHANGED checkpoint

PlainReturn(p) ==
  /\ \/ StopsHere(p, "plain") /\ Return(p, "cancelled")
     \/ ReachesEnd(p, "plain") /\ Return(p, "completed")
  /\ UNCHANGED <<checkpoint, executed>>

----------------------------------------------------------------------------
(* drive_run_from_checkpoint: a single worker goes on at next_seed_index.  *)

CursorStart(p, from) ==
  /\ run' = [run EXCEPT ![p] = [NotRunning EXCEPT !.status = "running",
                                                  !.driver = "cursor",
                                                  !.owned  = Slots,
                                                  !.cursor = from.next]]
  /\ checkpoint' = [checkpoint EXCEPT ![p] = from]

CursorWork(p, ran) ==
  /\ Iterates(p, "cursor")
  /\ WorkDone(p, ran)
  /\ checkpoint' = [checkpoint EXCEPT ![p].next = run[p].cursor + 1]
  /\ Advance(p)

CursorFail(p, ran) ==
  /\ Iterates(p, "cursor")
  /\ WorkDone(p, ran)
  /\ Return(p, "failed")
  /\ UNCHANGED checkpoint

CursorReturn(p) ==
  /\ \/ StopsHere(p, "cursor") /\ Return(p, "cancelled")
     \/ ReachesEnd(p, "cursor") /\ Return(p, "completed")
  /\ UNCHANGED <<checkpoint, executed>>

----------------------------------------------------------------------------
(* drive_run_partitioned_from_checkpoint: the worker sweeps what of its    *)
(* ring range is not covered yet.                                          *)

(* Mutant: the sweep goes on at next_seed_index, as a single worker does. *)
RingStartAtCursor(p, from, owned) ==
  /\ run' = [run EXCEPT ![p] = [NotRunning EXCEPT !.driver  = "ring",
                                                  !.status  = "running",
                                                  !.owned   = owned,
                                                  !.pending = owned \ from.covered,
                                                  !.cursor  = from.next]]
  /\ checkpoint' = [checkpoint EXCEPT ![p] = from]

RingStart(p, from, owned) ==
  LET pending == owned \ from.covered
  IN  /\ run' = [run EXCEPT ![p] =
                   [driver  |-> "ring",
                    status  |-> IF pending = {} THEN "completed" ELSE "running",
                    owned   |-> owned,
                    pending |-> pending,
                    cursor  |-> 0,
                    swept   |-> {}]]
      /\ checkpoint' = [checkpoint EXCEPT ![p] =
                          IF pending = {} THEN [from EXCEPT !.next = TotalSeeds]
                          ELSE from]

(* Every exit records the slots that were swept up to there. *)
CoverSwept(p, next) ==
  checkpoint' = [checkpoint EXCEPT ![p].next    = next,
                                   ![p].covered = @ \cup run[p].swept]

RingPass(p) ==
  /\ Iterates(p, "ring")
  /\ SlotAt(p) \notin run[p].pending
  /\ checkpoint' = [checkpoint EXCEPT ![p].next = run[p].cursor + 1]
  /\ Advance(p)
  /\ UNCHANGED executed

RingPassCompleted(p) ==
  /\ Iterates(p, "ring")
  /\ SlotAt(p) \in run[p].pending
  /\ run[p].cursor \in checkpoint[p].completed
  /\ checkpoint' = [checkpoint EXCEPT ![p].next = run[p].cursor + 1]
  /\ AdvanceSweeping(p)
  /\ UNCHANGED executed

(* Mutant: the seed itself is not recorded. *)
RecordSlotOnly(p) ==
  checkpoint' = [checkpoint EXCEPT ![p].next = run[p].cursor + 1]

(* mark_seed_completed, so that a half-swept slot is not swept again. *)
RecordSeed(p) ==
  checkpoint' = [checkpoint EXCEPT ![p].next      = run[p].cursor + 1,
                                   ![p].completed = @ \cup {run[p].cursor}]

RingWorks(p) ==
  /\ Iterates(p, "ring")
  /\ SlotAt(p) \in run[p].pending
  /\ run[p].cursor \notin checkpoint[p].completed

RingWork(p, ran) ==
  /\ RingWorks(p)
  /\ WorkDone(p, ran)
  /\ RecordSeed(p)
  /\ AdvanceSweeping(p)

RingFail(p, ran) ==
  /\ RingWorks(p)
  /\ WorkDone(p, ran)
  /\ CoverSwept(p, run[p].cursor)
  /\ Return(p, "failed")

RingReturn(p) ==
  /\ \/ StopsHere(p, "ring") /\ Return(p, "cancelled")
     \/ ReachesEnd(p, "ring") /\ Return(p, "completed")
  /\ CoverSwept(p, run[p].cursor)
  /\ UNCHANGED executed

----------------------------------------------------------------------------
(* One iteration of whichever driver a process is in. *)

Pass(p) == PlainPass(p) \/ RingPass(p) \/ RingPassCompleted(p)

Work(p, ran) == PlainWork(p, ran) \/ CursorWork(p, ran) \/ RingWork(p, ran)

Fail(p, ran) == PlainFail(p, ran) \/ CursorFail(p, ran) \/ RingFail(p, ran)

Stop(p) == PlainReturn(p) \/ CursorReturn(p) \/ RingReturn(p)

(* The process dies, perhaps when the work on a seed is done (`ran') but   *)
(* nothing of it is recorded.                                              *)
Die(p, ran) ==
  /\ run[p].status # "idle"
  /\ IF ran THEN /\ PlainWorks(p) \/ Iterates(p, "cursor") \/ RingWorks(p)
                 /\ WorkDone(p, TRUE)
     ELSE UNCHANGED executed
  /\ run' = [run EXCEPT ![p] = NotRunning]
============================================================================
