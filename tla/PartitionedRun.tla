--------------------------- MODULE PartitionedRun ---------------------------
(***************************************************************************)
(* A campaign that is resumed from one persisted checkpoint, worker after  *)
(* worker and with a different number of workers each time, as             *)
(* tests/run_resume_partitioned_checkpoint.rs does it.  The caller loads   *)
(* the checkpoint, calls drive_run_partitioned_from_checkpoint with a new  *)
(* cancel signal, and saves the checkpoint after the call; the process may *)
(* die at any point of that.                                               *)
(***************************************************************************)
EXTENDS RunControl

CONSTANTS
  Pools,         \* numbers of workers the campaign is run with
  MaxCrashes     \* bound: process deaths

ASSUME PoolAssumption ==
  /\ Pools \subseteq Nat \ {0}
  /\ MaxCrashes \in Nat

VARIABLES
  saved,         \* the persisted checkpoint
  worker,        \* the worker whose call each process is in
  finished,      \* workers, as <<index, workers>>, whose sweep was saved as completed
  crashes        \* counts process deaths, up to MaxCrashes

vars == <<run, checkpoint, cancelled, executed, saved, worker, finished, crashes>>

WorkerPartition == UNION {{<<i, n>> : i \in 0 .. n - 1} : n \in Pools}

Worker == WorkerPartition \cup {<< >>}

TypeOK ==
  /\ RunTypeOK
  /\ saved \in Checkpoint
  /\ worker \in [Processes -> Worker]
  /\ finished \subseteq WorkerPartition
  /\ crashes \in 0 .. MaxCrashes

Init ==
  /\ RunInit
  /\ saved = NewCheckpoint
  /\ worker = [p \in Processes |-> << >>]
  /\ finished = {}
  /\ crashes = 0

----------------------------------------------------------------------------

(* The API takes the checkpoint by exclusive reference: one call at a time. *)
NobodyRuns == \A p \in Processes : run[p].status = "idle"

Resume(p, w) ==
  /\ NobodyRuns
  /\ RingStart(p, saved, Owned(w[1], w[2]))
  /\ worker' = [worker EXCEPT ![p] = w]
  /\ cancelled' = FALSE
  /\ UNCHANGED <<executed, saved, finished, crashes>>

Cancel ==
  /\ ~cancelled
  /\ cancelled' = TRUE
  /\ UNCHANGED <<run, checkpoint, executed, saved, worker, finished, crashes>>

(* The work of a seed succeeds or fails; a failed seed does not count. *)
Step(p) ==
  /\ \/ RingPass(p)
     \/ RingPassCompleted(p)
     \/ RingWork(p, TRUE)
     \/ RingFail(p, FALSE)
     \/ RingReturn(p)
  /\ UNCHANGED <<cancelled, saved, worker, finished, crashes>>

Save(p) ==
  /\ run[p].status \in {"completed", "cancelled", "failed"}
  /\ saved' = checkpoint[p]
  /\ finished' = IF run[p].status = "completed" THEN finished \cup {worker[p]}
                 ELSE finished
  /\ run' = [run EXCEPT ![p] = NotRunning]
  /\ UNCHANGED <<checkpoint, cancelled, executed, worker, crashes>>

Crash(p) ==
  /\ \E ran \in BOOLEAN : Die(p, ran)
  /\ crashes < MaxCrashes
  /\ crashes' = crashes + 1
  /\ UNCHANGED <<checkpoint, cancelled, saved, worker, finished>>

Next ==
  \/ \E p \in Processes :
       \/ \E w \in WorkerPartition : Resume(p, w)
       \/ Step(p)
       \/ Save(p)
       \/ Crash(p)
  \/ Cancel

Spec == Init /\ [][Next]_vars

----------------------------------------------------------------------------
(* Properties. *)

(* "cancelling mid-sweep can never leave a partially covered slot recorded *)
(* as done" (run_control.rs 433-435): every seed of a slot that is covered *)
(* in the saved checkpoint, or in one a driver is advancing, was executed, *)
(* through cancellations, failing seeds, crashes and resizes.              *)
CoverageSound ==
  \A s \in Seeds :
    /\ RingSlot[s] \in saved.covered => executed[s] > 0
    /\ \A p \in Processes : RingSlot[s] \in checkpoint[p].covered => executed[s] > 0

(* "so no seed is executed twice" (run_control.rs 440), for every sequence *)
(* of pool sizes: but for the work since the last save that a process took *)
(* with it when it died.                                                   *)
ExecutedOnce == \A s \in Seeds : executed[s] <= 1 + crashes

(* "and no seed is skipped" (run_control.rs 440): when all workers of some *)
(* pool size have reported completion, in whatever order and mixed with    *)
(* runs of other pool sizes, every seed was executed.                      *)
NoHole ==
  \A n \in Pools :
    (\A i \in 0 .. n - 1 : <<i, n>> \in finished) => \A s \in Seeds : executed[s] > 0

(* What these rest on.  One call at a time, for the worker it was made for. *)
CallInv ==
  /\ \A p, q \in Processes :
       run[p].status # "idle" /\ run[q].status # "idle" => p = q
  /\ \A p \in Processes : run[p].status # "idle" =>
       /\ run[p].driver = "ring"
       /\ worker[p] \in WorkerPartition
       /\ run[p].owned = Owned(worker[p][1], worker[p][2])

(* The records never run ahead of the work, a slot enters `swept' only     *)
(* when the loop is past all its seeds, and whatever pending seed the loop *)
(* has passed is recorded.                                                 *)
SweepInv ==
  /\ \A s \in saved.completed : executed[s] > 0
  /\ \A p \in Processes : \A s \in checkpoint[p].completed : executed[s] > 0
  /\ \A p \in Processes : run[p].status = "running" =>
       /\ \A s \in Seeds :
            /\ RingSlot[s] \in run[p].swept => s < run[p].cursor
            /\ s < run[p].cursor /\ RingSlot[s] \in run[p].pending
                 => s \in checkpoint[p].completed
       /\ run[p].swept \subseteq run[p].pending
  /\ CoverageSound

(* An execution that is recorded nowhere was paid for by a process death.  *)
OnceInv ==
  /\ ExecutedOnce
  /\ NobodyRuns => \A s \in Seeds \ saved.completed : executed[s] <= crashes
  /\ \A p \in Processes : run[p].status # "idle" =>
       \A s \in Seeds \ checkpoint[p].completed : executed[s] <= crashes

(* Whatever a worker owns is pending or covered; when it completes, and    *)
(* ever after, it is executed.                                             *)
DoneInv ==
  /\ \A p \in Processes : run[p].status = "running" =>
       run[p].owned \subseteq run[p].pending \cup checkpoint[p].covered
  /\ \A p \in Processes : run[p].status = "completed" =>
       \A s \in Seeds : RingSlot[s] \in run[p].owned => executed[s] > 0
  /\ \A w \in finished : \A s \in Seeds :
       RingSlot[s] \in Owned(w[1], w[2]) => executed[s] > 0
============================================================================
