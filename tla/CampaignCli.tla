---------------------------- MODULE CampaignCli ----------------------------
(***************************************************************************)
(* `crashlab run start' and `crashlab run cancel': run_start_command of    *)
(* contracts/crashlab-core/src/bin/crashlab.rs on top of the drivers.      *)
(*                                                                         *)
(* All workers of a campaign use one run id, and so one checkpoint file    *)
(* and one cancel marker.  A checkpoint on disk is a snapshot: the         *)
(* campaign id, which names the worker, and a next_seed_index that the     *)
(* process counts beside the driver; its ring coverage is always empty.    *)
(***************************************************************************)
EXTENDS RunControl

CONSTANTS
  Pools,               \* values of --workers
  Budgets,             \* values of --budget
  CheckpointInterval,  \* --checkpoint-interval
  MaxCrashes,          \* bound: process deaths
  MaxLostWrites,       \* bound: checkpoint writes that fail
  NoFile               \* no checkpoint was written yet

ASSUME CliAssumption ==
  /\ Processes \subseteq Nat     \* a process is known by its --worker
  /\ Pools \subseteq Nat \ {0}
  /\ Budgets \subseteq Nat
  /\ CheckpointInterval \in Nat \ {0}
  /\ MaxCrashes \in Nat
  /\ MaxLostWrites \in Nat

VARIABLES
  file,          \* checkpoint.json
  process,       \* per process, its options and counters
  begun,         \* processes started without --resume; bound: once, or until a file is there
  pools,         \* values of --workers it was launched with so far
  finished,      \* processes, as <<worker, workers>>, that completed within budget
  crashes,       \* counts process deaths, up to MaxCrashes
  lostWrites     \* counts failed writes, up to MaxLostWrites

cliVars == <<file, process, begun, pools, finished, crashes, lostWrites>>

vars == <<run, checkpoint, cancelled, executed, cliVars>>

Snapshot == [worker : Processes, next : 0 .. TotalSeeds]

ASSUME NoFileAssumption == NoFile \notin Snapshot

Process == [workers : Pools \cup {0},
            next    : 0 .. TotalSeeds,              \* next_seed_index
            since   : 0 .. CheckpointInterval - 1,  \* since_checkpoint
            budget  : Nat]

Gone == [workers |-> 0, next |-> 0, since |-> 0, budget |-> 0]

TypeOK ==
  /\ RunTypeOK
  /\ file \in Snapshot \cup {NoFile}
  /\ process \in [Processes -> Process]
  /\ begun \subseteq Processes
  /\ pools \subseteq Pools
  /\ finished \subseteq Processes \X Pools
  /\ crashes \in 0 .. MaxCrashes
  /\ lostWrites \in 0 .. MaxLostWrites

Init ==
  /\ RunInit
  /\ file = NoFile
  /\ process = [p \in Processes |-> Gone]
  /\ begun = {}
  /\ pools = {}
  /\ finished = {}
  /\ crashes = 0
  /\ lostWrites = 0

----------------------------------------------------------------------------

(* Mutant: the index of the seed that was just done. *)
snapshotCheckpointAtSeed(p, next) == [worker |-> p, next |-> IF next > 0 THEN next - 1 ELSE 0]

(* Mutant: the index is counted one too far. *)
snapshotCheckpointAhead(p, next) ==
  [worker |-> p, next |-> IF next < TotalSeeds THEN next + 1 ELSE next]

snapshotCheckpoint(p, next) == [worker |-> p, next |-> next]

(* Mutant: the snapshot is taken before next_seed_index is advanced. *)
WriteCheckpointStale(p, next) ==
  /\ file' = snapshotCheckpoint(p, process[p].next)
  /\ UNCHANGED lostWrites

WriteCheckpoint(p, next) ==
  /\ file' = snapshotCheckpoint(p, next)
  /\ UNCHANGED lostWrites

WriteFails ==
  /\ lostWrites < MaxLostWrites
  /\ lostWrites' = lostWrites + 1
  /\ UNCHANGED file

(* `--workers 1' is no partition. *)
Partition(p, workers) == IF workers > 1 THEN Owned(p, workers) ELSE Slots

Launch(p, workers, next) ==
  /\ \E budget \in Budgets :
       process' = [process EXCEPT ![p] =
         [workers |-> workers, next |-> next, since |-> 0, budget |-> budget]]
  /\ pools' = pools \cup {workers}

(* A second start without --resume would throw the checkpoint away. *)
Start(p, workers) ==
  /\ run[p].status = "idle"
  /\ p < workers
  /\ p \notin begun \/ file = NoFile
  /\ begun' = begun \cup {p}
  /\ PlainStart(p, Partition(p, workers))
  /\ Launch(p, workers, 0)
  /\ UNCHANGED <<checkpoint, cancelled, executed, file, finished, crashes, lostWrites>>

(* load_run_checkpoint_json and validate_run: a snapshot of another worker *)
(* is refused.                                                             *)
Loaded == [NewCheckpoint EXCEPT !.next = file.next]

Resume(p, workers) ==
  /\ run[p].status = "idle"
  /\ p < workers
  /\ file # NoFile
  /\ file.worker = p
  /\ IF workers > 1 THEN RingStart(p, Loaded, Owned(p, workers))
     ELSE CursorStart(p, Loaded)
  /\ Launch(p, workers, file.next)
  /\ UNCHANGED <<cancelled, executed, file, begun, finished, crashes, lostWrites>>

----------------------------------------------------------------------------
(* The `work' closure: one seed, unless the budget is used up, and a       *)
(* snapshot every CheckpointInterval seeds.                                *)

Counted(p, since) ==
  process' = [process EXCEPT ![p].next   = run[p].cursor + 1,
                             ![p].since  = since,
                             ![p].budget = @ - 1]

WithinBudget(p) == process[p].budget > 0

CheckpointDue(p) == process[p].since + 1 >= CheckpointInterval

WorkSkipped(p) ==
  /\ ~WithinBudget(p)
  /\ Work(p, FALSE)
  /\ UNCHANGED <<file, process, lostWrites>>

WorkCounted(p) ==
  /\ WithinBudget(p)
  /\ ~CheckpointDue(p)
  /\ Work(p, TRUE)
  /\ Counted(p, process[p].since + 1)
  /\ UNCHANGED <<file, lostWrites>>

WorkSaved(p) ==
  /\ WithinBudget(p)
  /\ CheckpointDue(p)
  /\ Work(p, TRUE)
  /\ Counted(p, 0)
  /\ WriteCheckpoint(p, run[p].cursor + 1)

(* A snapshot that cannot be written makes the seed fail, and the run. *)
WorkUnsaved(p) ==
  /\ WithinBudget(p)
  /\ CheckpointDue(p)
  /\ Fail(p, TRUE)
  /\ Counted(p, 0)
  /\ WriteFails

Step(p) ==
  /\ \/ (Pass(p) \/ Stop(p)) /\ UNCHANGED <<file, process, lostWrites>>
     \/ WorkSkipped(p)
     \/ WorkCounted(p)
     \/ WorkSaved(p)
     \/ WorkUnsaved(p)
  /\ UNCHANGED <<cancelled, begun, pools, finished, crashes>>

(* The final snapshot, whose failure is only a warning, and exit. *)
Exit(p) ==
  /\ run[p].status \in {"completed", "cancelled", "failed"}
  /\ WriteCheckpoint(p, process[p].next) \/ WriteFails
  /\ finished' = IF run[p].status = "completed" /\ WithinBudget(p)
                   THEN finished \cup {<<p, process[p].workers>>} ELSE finished
  /\ run' = [run EXCEPT ![p] = NotRunning]
  /\ process' = [process EXCEPT ![p] = Gone]
  /\ UNCHANGED <<checkpoint, cancelled, executed, begun, pools, crashes>>

(* `crashlab run cancel': no command of the CLI removes the marker again. *)
Cancel ==
  /\ ~cancelled
  /\ begun # {}
  /\ cancelled' = TRUE
  /\ UNCHANGED <<run, checkpoint, executed, cliVars>>

Crash(p) ==
  /\ Die(p, FALSE) \/ (WithinBudget(p) /\ Die(p, TRUE))
  /\ crashes < MaxCrashes
  /\ crashes' = crashes + 1
  /\ process' = [process EXCEPT ![p] = Gone]
  /\ UNCHANGED <<checkpoint, cancelled, file, begun, pools, finished, lostWrites>>

Next ==
  \/ \E p \in Processes :
       \/ \E workers \in Pools : Start(p, workers) \/ Resume(p, workers)
       \/ Step(p)
       \/ Exit(p)
       \/ Crash(p)
  \/ Cancel

Spec == Init /\ [][Next]_vars

----------------------------------------------------------------------------
(* Properties. *)

SavedNext == IF file = NoFile THEN 0 ELSE file.next

(* The campaign was never partitioned, or always: the two are resumed by   *)
(* drivers that go by different parts of a checkpoint.                     *)
OneWorker == pools \subseteq {1}

Partitioned == 1 \notin pools

(* A single worker's checkpoint never runs ahead of the work: every seed   *)
(* below its next_seed_index, where a resume goes on, was executed, also   *)
(* when the budget ran out, a write failed or the process died             *)
(* (run_control.rs 385-389, crashlab.rs 1526-1550).                        *)
CheckpointBehindWork ==
  OneWorker => \A s \in 0 .. SavedNext - 1 : executed[s] > 0

(* "Resume re-reads the checkpoint and continues from `next_seed_index`,   *)
(* so completed seeds are not re-executed" (docs/RUN_LIFECYCLE.md 118-119):*)
(* a single worker does a seed again only when a process died or a         *)
(* snapshot was not written.                                               *)
CompletedNotReexecuted ==
  OneWorker => \A s \in Seeds : executed[s] <= 1 + crashes + lostWrites

(* What a death costs a single worker: the seeds that were done beyond the *)
(* last snapshot are at most CheckpointInterval, as long as snapshots can  *)
(* be written (crashlab.rs 1544-1550).                                     *)
LossBounded ==
  OneWorker /\ lostWrites = 0 =>
    \A s \in Seeds : executed[s] > 0 => s < SavedNext + CheckpointInterval

(* "scaling to a different `num_workers` also avoids double execution and  *)
(* coverage holes" (docs/REPRODUCIBILITY.md 78): a worker that completes   *)
(* within its budget has seen every seed of its partition executed.        *)
CompletedIsComplete ==
  \A f \in finished : \A s \in Seeds :
    RingSlot[s] \in Partition(f[1], f[2]) => executed[s] > 0

(* So it is as long as the campaign does not change between one worker and *)
(* several, although the workers of a pool overwrite each other's snapshot *)
(* and resume from it (crashlab.rs 1555-1585).                             *)
CompleteWithoutSwitch == OneWorker \/ Partitioned => CompletedIsComplete
----------------------------------------------------------------------------
(* The inductive invariant behind them. *)

(* A process that runs was begun and belongs to a pool that was used; the  *)
(* partition it sweeps is its own, and which driver it is in goes by the   *)
(* size of the pool.                                                       *)
LaunchInv ==
  /\ \A p \in Processes : run[p].status # "idle" =>
       /\ p \in begun
       /\ process[p].workers \in pools /\ p < process[p].workers
       /\ run[p].owned = Partition(p, process[p].workers)
       /\ run[p].driver = "ring" => process[p].workers > 1
       /\ run[p].driver = "cursor" => process[p].workers = 1
  /\ file # NoFile => file.worker \in begun
  /\ \A p \in begun : \E workers \in pools : p < workers

(* What was done when a single worker stands before seed `next'. *)
StandsAt(next) ==
  /\ SavedNext <= next
  /\ \A s \in Seeds : s < next => executed[s] > 0
  /\ \A s \in Seeds : executed[s] <= 1 + crashes + lostWrites
  /\ \A s \in Seeds : s >= next => executed[s] <= crashes + lostWrites
  /\ lostWrites = 0 =>
       \A s \in Seeds : executed[s] > 0 => s < SavedNext + CheckpointInterval

(* It stands before its next_seed_index, which is the driver's loop        *)
(* variable as long as the budget lasts, or before the one of the file.    *)
SoloInv ==
  OneWorker =>
    /\ (\A p \in Processes : run[p].status = "idle") => StandsAt(SavedNext)
    /\ \A p \in Processes : run[p].status # "idle" =>
         /\ StandsAt(process[p].next)
         /\ run[p].status = "running" /\ WithinBudget(p) => process[p].next = run[p].cursor
         /\ lostWrites = 0 => process[p].next <= SavedNext + process[p].since

(* A driver within its budget has left no seed of the partition behind.    *)
SweepInv ==
  OneWorker \/ Partitioned =>
    \A p \in Processes :
      run[p].status \in {"running", "completed"} /\ WithinBudget(p) =>
        /\ \A s \in Seeds : s < run[p].cursor /\ RingSlot[s] \in run[p].owned
                              => executed[s] > 0
        /\ run[p].driver = "ring" =>
             /\ run[p].pending = run[p].owned
             /\ \A s \in checkpoint[p].completed : s < run[p].cursor
        /\ run[p].status = "completed" => run[p].cursor = TotalSeeds \/ run[p].owned = {}
============================================================================
