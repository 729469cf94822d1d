-------------------------- MODULE CampaignCli_proofs --------------------------
(***************************************************************************)
(* Proofs about `crashlab run start', for every schedule, every assignment *)
(* of seeds to slots, all pool sizes, budgets and checkpoint intervals,    *)
(* and any number of processes, deaths and lost writes.                    *)
(***************************************************************************)
EXTENDS CampaignCli, TLAPS

----------------------------------------------------------------------------
(* What the parts of a driver's iteration do. *)

LEMMA SeedsAre ==
  \A s : s \in Seeds <=> s \in Nat /\ s < TotalSeeds
  BY RunAssumption DEF Seeds

(* The loop variable of a driver that has not reached the end is a seed. *)
LEMMA CursorIsSeed ==
  ASSUME RunTypeOK, NEW p \in Processes
  PROVE  /\ run[p].cursor \in Nat /\ run[p].cursor <= TotalSeeds
         /\ TotalSeeds \in Nat
         /\ run[p].cursor < TotalSeeds =>
              /\ run[p].cursor \in Seeds
              /\ run[p].cursor + 1 \in 0 .. TotalSeeds
              /\ SlotAt(p) \in Slots
<1>1. run[p].cursor \in 0 .. TotalSeeds
  BY DEF RunTypeOK, Run
<1>2. TotalSeeds \in Nat
  BY RunAssumption
<1>3. ASSUME run[p].cursor < TotalSeeds PROVE run[p].cursor \in Seeds
  BY <1>1, <1>2, <1>3, SeedsAre
<1>4. QED
  BY <1>1, <1>2, <1>3, RunAssumption DEF SlotAt

(* Only process p is concerned, and its partition stays. *)
Local(p) ==
  /\ run' \in [Processes -> Run]
  /\ run'[p].owned = run[p].owned
  /\ run'[p].driver = run[p].driver
  /\ run'[p].pending = run[p].pending
  /\ \A q \in Processes : q # p => run'[q] = run[q]

LEMMA AdvanceFields ==
  ASSUME RunTypeOK, NEW p \in Processes, run[p].cursor < TotalSeeds,
         Advance(p) \/ AdvanceSweeping(p)
  PROVE  /\ Local(p)
         /\ run'[p].cursor = run[p].cursor + 1
         /\ run'[p].status = run[p].status
<1>1. run \in [Processes -> Run] /\ run[p] \in Run
  BY DEF RunTypeOK
<1>2. run[p].cursor + 1 \in 0 .. TotalSeeds /\ SlotAt(p) \in Slots
  BY CursorIsSeed
<1>3. CASE Advance(p)
  BY <1>1, <1>2, <1>3 DEF Advance, Local, Run
<1>4. CASE AdvanceSweeping(p)
  <2> DEFINE swept == IF LastIndexOfSlot(run[p].cursor)
                        THEN run[p].swept \cup {SlotAt(p)} ELSE run[p].swept
  <2>1. swept \in SUBSET Slots
    BY <1>1, <1>2 DEF Run
  <2>2. run' = [run EXCEPT ![p].cursor = run[p].cursor + 1, ![p].swept = swept]
    BY <1>4 DEF AdvanceSweeping
  <2> HIDE DEF swept
  <2>3. QED
    BY <1>1, <1>2, <2>1, <2>2 DEF Local, Run
<1>5. QED
  BY <1>3, <1>4

LEMMA ReturnFields ==
  ASSUME RunTypeOK, NEW p \in Processes, NEW status \in Statuses, Return(p, status)
  PROVE  /\ Local(p)
         /\ run'[p].cursor = run[p].cursor
         /\ run'[p].status = status
<1>1. run \in [Processes -> Run] /\ run[p] \in Run
  BY DEF RunTypeOK
<1>2. QED
  BY <1>1 DEF Return, Local, Run

(* The checkpoint of p is advanced, and at most its seed is recorded. *)
Recorded(p) ==
  /\ checkpoint' \in [Processes -> Checkpoint]
  /\ \A q \in Processes : q # p => checkpoint'[q] = checkpoint[q]
  /\ checkpoint'[p].completed \subseteq checkpoint[p].completed \cup {run[p].cursor}

LEMMA CheckpointFields ==
  ASSUME RunTypeOK, NEW p \in Processes, run[p].cursor < TotalSeeds
  PROVE  /\ UNCHANGED checkpoint => Recorded(p)
         /\ checkpoint' = [checkpoint EXCEPT ![p].next = run[p].cursor + 1]
              => Recorded(p) /\ checkpoint'[p].completed = checkpoint[p].completed
         /\ RecordSeed(p) => Recorded(p)
<1>1. checkpoint \in [Processes -> Checkpoint] /\ checkpoint[p] \in Checkpoint
  BY DEF RunTypeOK
<1>2. run[p].cursor \in Seeds /\ run[p].cursor + 1 \in 0 .. TotalSeeds
  BY CursorIsSeed
<1>3. QED
  BY <1>1, <1>2 DEF Recorded, RecordSeed, Checkpoint

LEMMA CoverSweptFields ==
  ASSUME RunTypeOK, NEW p \in Processes, CoverSwept(p, run[p].cursor)
  PROVE  Recorded(p)
<1>1. checkpoint \in [Processes -> Checkpoint] /\ checkpoint[p] \in Checkpoint
  BY DEF RunTypeOK
<1>2. run[p].cursor \in 0 .. TotalSeeds /\ run[p].swept \subseteq Slots
  BY DEF RunTypeOK, Run
<1>3. QED
  BY <1>1, <1>2 DEF CoverSwept, Recorded, Checkpoint

(* A seed is executed, unless it is not: `ran'. *)
Executes(p, ran) ==
  /\ executed' \in [Seeds -> 0 .. MaxExecutions]
  /\ \A s \in Seeds : s # run[p].cursor => executed'[s] = executed[s]
  /\ executed'[run[p].cursor] >= executed[run[p].cursor]
  /\ executed'[run[p].cursor] <= executed[run[p].cursor] + 1
  /\ ran => executed'[run[p].cursor] > 0
  /\ ~ran => executed' = executed

LEMMA WorkDoneFields ==
  ASSUME RunTypeOK, NEW p \in Processes, run[p].cursor < TotalSeeds,
         NEW ran \in BOOLEAN, WorkDone(p, ran)
  PROVE  Executes(p, ran)
<1> DEFINE c == run[p].cursor
           n == IF ran /\ executed[c] < MaxExecutions THEN executed[c] + 1 ELSE executed[c]
<1>1. c \in Seeds /\ executed \in [Seeds -> 0 .. MaxExecutions] /\ MaxExecutions \in Nat \ {0}
  BY CursorIsSeed, RunAssumption DEF RunTypeOK
<1>2. executed[c] \in 0 .. MaxExecutions
  BY <1>1
<1>3. executed' = [executed EXCEPT ![c] = n]
  BY DEF WorkDone
<1> HIDE DEF c
<1>4. /\ n \in 0 .. MaxExecutions /\ n >= executed[c] /\ n <= executed[c] + 1
      /\ ran => n > 0
      /\ ~ran => n = executed[c]
  BY <1>1, <1>2
<1> HIDE DEF n
<1>5. executed'[c] = n /\ \A s \in Seeds : s # c => executed'[s] = executed[s]
  BY <1>1, <1>3
<1>6. executed' \in [Seeds -> 0 .. MaxExecutions]
  BY <1>1, <1>3, <1>4
<1>7. ~ran => executed' = executed
  BY <1>1, <1>3, <1>4
<1>8. QED
  BY <1>4, <1>5, <1>6, <1>7 DEF Executes, c
----------------------------------------------------------------------------
(* The iterations of the three drivers, by what they do. *)

Passes(p) ==
  /\ run[p].status = "running" /\ run[p].cursor \in Seeds
  /\ Local(p) /\ run'[p].cursor = run[p].cursor + 1 /\ run'[p].status = "running"
  /\ Recorded(p) /\ checkpoint'[p].completed = checkpoint[p].completed
  /\ UNCHANGED executed
  /\ \/ SlotAt(p) \notin run[p].owned
     \/ run[p].driver = "ring" /\ SlotAt(p) \notin run[p].pending
     \/ run[p].driver = "ring" /\ run[p].cursor \in checkpoint[p].completed

Works(p, ran) ==
  /\ run[p].status = "running" /\ run[p].cursor \in Seeds
  /\ Local(p) /\ run'[p].cursor = run[p].cursor + 1 /\ run'[p].status = "running"
  /\ Recorded(p)
  /\ Executes(p, ran)

Fails(p, ran) ==
  /\ run[p].status = "running" /\ run[p].cursor \in Seeds
  /\ Local(p) /\ run'[p].cursor = run[p].cursor /\ run'[p].status = "failed"
  /\ Recorded(p)
  /\ Executes(p, ran)

Ends(p) ==
  /\ run[p].status = "running"
  /\ Local(p) /\ run'[p].cursor = run[p].cursor
  /\ \/ run'[p].status = "cancelled"
     \/ run'[p].status = "completed" /\ run[p].cursor = TotalSeeds
  /\ Recorded(p) /\ checkpoint'[p].completed = checkpoint[p].completed
  /\ UNCHANGED executed

LEMMA IteratesFields ==
  ASSUME RunTypeOK, NEW p \in Processes, NEW driver, Iterates(p, driver)
  PROVE  /\ run[p].status = "running" /\ run[p].driver = driver
         /\ run[p].cursor < TotalSeeds /\ run[p].cursor \in Seeds
  BY CursorIsSeed DEF Iterates, Running

LEMMA PassIs ==
  ASSUME RunTypeOK, NEW p \in Processes, Pass(p)
  PROVE  Passes(p)
<1>1. CASE PlainPass(p)
  BY <1>1, IteratesFields, AdvanceFields, CheckpointFields DEF PlainPass, Passes
<1>2. CASE RingPass(p)
  BY <1>2, IteratesFields, AdvanceFields, CheckpointFields DEF RingPass, Passes
<1>3. CASE RingPassCompleted(p)
  BY <1>3, IteratesFields, AdvanceFields, CheckpointFields DEF RingPassCompleted, Passes
<1>4. QED
  BY <1>1, <1>2, <1>3 DEF Pass

LEMMA WorkIs ==
  ASSUME RunTypeOK, NEW p \in Processes, NEW ran \in BOOLEAN, Work(p, ran)
  PROVE  Works(p, ran)
<1>1. CASE PlainWork(p, ran)
  BY <1>1, IteratesFields, AdvanceFields, CheckpointFields, WorkDoneFields
     DEF PlainWork, PlainWorks, Works
<1>2. CASE CursorWork(p, ran)
  BY <1>2, IteratesFields, AdvanceFields, CheckpointFields, WorkDoneFields
     DEF CursorWork, Works
<1>3. CASE RingWork(p, ran)
  BY <1>3, IteratesFields, AdvanceFields, CheckpointFields, WorkDoneFields
     DEF RingWork, RingWorks, Works
<1>4. QED
  BY <1>1, <1>2, <1>3 DEF Work

LEMMA FailIs ==
  ASSUME RunTypeOK, NEW p \in Processes, NEW ran \in BOOLEAN, Fail(p, ran)
  PROVE  Fails(p, ran)
<1>0. "failed" \in Statuses
  BY DEF Statuses
<1>1. CASE PlainFail(p, ran)
  BY <1>0, <1>1, IteratesFields, ReturnFields, CheckpointFields, WorkDoneFields
     DEF PlainFail, PlainWorks, Fails
<1>2. CASE CursorFail(p, ran)
  BY <1>0, <1>2, IteratesFields, ReturnFields, CheckpointFields, WorkDoneFields
     DEF CursorFail, Fails
<1>3. CASE RingFail(p, ran)
  BY <1>0, <1>3, IteratesFields, ReturnFields, CoverSweptFields, WorkDoneFields
     DEF RingFail, RingWorks, Fails
<1>4. QED
  BY <1>1, <1>2, <1>3 DEF Fail

LEMMA StopIs ==
  ASSUME RunTypeOK, NEW p \in Processes, Stop(p)
  PROVE  Ends(p)
<1>0. "cancelled" \in Statuses /\ "completed" \in Statuses
  BY DEF Statuses
<1>1. ASSUME UNCHANGED checkpoint
      PROVE  Recorded(p) /\ checkpoint'[p].completed = checkpoint[p].completed
  BY <1>1 DEF Recorded, RunTypeOK
<1>2. ASSUME CoverSwept(p, run[p].cursor)
      PROVE  Recorded(p) /\ checkpoint'[p].completed = checkpoint[p].completed
  <2>1. checkpoint \in [Processes -> Checkpoint] /\ checkpoint[p] \in Checkpoint
    BY DEF RunTypeOK
  <2>2. checkpoint'[p].completed = checkpoint[p].completed
    BY <1>2, <2>1 DEF CoverSwept, Checkpoint
  <2>3. QED
    BY <1>2, <2>2, CoverSweptFields
<1>3. CASE PlainReturn(p)
  BY <1>0, <1>1, <1>3, ReturnFields DEF PlainReturn, StopsHere, ReachesEnd, Running, Ends
<1>4. CASE CursorReturn(p)
  BY <1>0, <1>1, <1>4, ReturnFields DEF CursorReturn, StopsHere, ReachesEnd, Running, Ends
<1>5. CASE RingReturn(p)
  BY <1>0, <1>2, <1>5, ReturnFields DEF RingReturn, StopsHere, ReachesEnd, Running, Ends
<1>6. QED
  BY <1>3, <1>4, <1>5 DEF Stop
----------------------------------------------------------------------------
(* The command around the drivers. *)

LEMMA NotRunningIsRun ==
  /\ NotRunning \in Run
  /\ NotRunning.status = "idle"
  /\ NewCheckpoint \in Checkpoint
<1>1. 0 \in 0 .. TotalSeeds
  BY RunAssumption
<1>2. QED
  BY <1>1 DEF NotRunning, Run, Drivers, Statuses, NewCheckpoint, Checkpoint

LEMMA GoneIsProcess ==
  Gone \in Process
<1>1. 0 \in 0 .. TotalSeeds /\ 0 \in 0 .. CheckpointInterval - 1
  BY RunAssumption, CliAssumption
<1>2. QED
  BY <1>1 DEF Gone, Process

LEMMA PartitionIsSlots ==
  ASSUME NEW p, NEW workers
  PROVE  Partition(p, workers) \subseteq Slots
  BY DEF Partition, Owned, SlotsOf

(* A process is launched: where it stands and with which counters. *)
Launched(p, workers, next) ==
  /\ run[p].status = "idle" /\ p < workers
  /\ run' \in [Processes -> Run]
  /\ \A q \in Processes : q # p => run'[q] = run[q]
  /\ run'[p].status \in {"running", "completed"}
  /\ run'[p].owned = Partition(p, workers)
  /\ run'[p].driver = "ring" =>
       /\ workers > 1 /\ run'[p].cursor = 0
       /\ run'[p].pending = run'[p].owned /\ checkpoint'[p].completed = {}
       /\ run'[p].status = "completed" => run'[p].owned = {}
  /\ run'[p].driver # "ring" => run'[p].cursor = next /\ run'[p].status = "running"
  /\ run'[p].driver = "cursor" => workers = 1
  /\ checkpoint' \in [Processes -> Checkpoint]
  /\ \A q \in Processes : q # p => checkpoint'[q] = checkpoint[q]
  /\ process' \in [Processes -> Process]
  /\ process'[p].workers = workers
  /\ process'[p].next = next
  /\ process'[p].since = 0
  /\ \A q \in Processes : q # p => process'[q] = process[q]
  /\ pools' = pools \cup {workers}
  /\ UNCHANGED <<cancelled, executed, file, finished, crashes, lostWrites>>

LEMMA LaunchFields ==
  ASSUME TypeOK, NEW p \in Processes, NEW workers \in Pools, NEW next \in 0 .. TotalSeeds,
         Launch(p, workers, next)
  PROVE  /\ process' \in [Processes -> Process]
         /\ process'[p].workers = workers
         /\ process'[p].next = next
         /\ process'[p].since = 0
         /\ \A q \in Processes : q # p => process'[q] = process[q]
         /\ pools' = pools \cup {workers}
<1>1. PICK budget \in Budgets :
        process' = [process EXCEPT ![p] = [workers |-> workers, next |-> next, since |-> 0,
                                           budget |-> budget]]
  BY DEF Launch
<1>2. budget \in Nat /\ 0 \in 0 .. CheckpointInterval - 1
  BY CliAssumption
<1>3. process \in [Processes -> Process]
  BY DEF TypeOK
<1>4. [workers |-> workers, next |-> next, since |-> 0, budget |-> budget] \in Process
  BY <1>2 DEF Process
<1>5. pools' = pools \cup {workers}
  BY DEF Launch
<1>6. QED
  BY <1>1, <1>3, <1>4, <1>5

LEMMA StartIs ==
  ASSUME TypeOK, NEW p \in Processes, NEW workers \in Pools, Start(p, workers)
  PROVE  /\ Launched(p, workers, 0)
         /\ p \notin begun \/ file = NoFile
         /\ begun' = begun \cup {p}
<1> DEFINE new == [NotRunning EXCEPT !.status = "running", !.owned = Partition(p, workers)]
<1>1. run \in [Processes -> Run] /\ checkpoint \in [Processes -> Checkpoint]
  BY DEF TypeOK, RunTypeOK
<1>2. /\ new \in Run /\ new.status = "running" /\ new.driver = "plain"
      /\ new.owned = Partition(p, workers) /\ new.cursor = 0
  <2>1. 0 \in 0 .. TotalSeeds
    BY RunAssumption
  <2>2. QED
    BY <2>1, PartitionIsSlots DEF NotRunning, Run, Drivers, Statuses
<1>3. run' = [run EXCEPT ![p] = new]
  BY DEF Start, PlainStart
<1> HIDE DEF new
<1>4. run' \in [Processes -> Run] /\ run'[p] = new
      /\ \A q \in Processes : q # p => run'[q] = run[q]
  BY <1>1, <1>2, <1>3
<1>5. 0 \in 0 .. TotalSeeds
  BY RunAssumption
<1>6. Launch(p, workers, 0)
  BY DEF Start
<1>7. /\ run[p].status = "idle" /\ p < workers
      /\ p \notin begun \/ file = NoFile
      /\ begun' = begun \cup {p}
      /\ UNCHANGED <<checkpoint, cancelled, executed, file, finished, crashes, lostWrites>>
  BY DEF Start
<1>8. QED
  BY <1>1, <1>2, <1>4, <1>5, <1>6, <1>7, LaunchFields DEF Launched

LEMMA ResumeIs ==
  ASSUME TypeOK, NEW p \in Processes, NEW workers \in Pools, Resume(p, workers)
  PROVE  /\ file # NoFile /\ file.worker = p /\ file.next \in 0 .. TotalSeeds
         /\ Launched(p, workers, file.next)
         /\ begun' = begun
<1>1. run \in [Processes -> Run] /\ checkpoint \in [Processes -> Checkpoint]
  BY DEF TypeOK, RunTypeOK
<1>2. /\ file # NoFile /\ file.worker = p /\ run[p].status = "idle" /\ p < workers
      /\ begun' = begun
      /\ UNCHANGED <<cancelled, executed, file, finished, crashes, lostWrites>>
      /\ Launch(p, workers, file.next)
  BY DEF Resume
<1>3. file.next \in 0 .. TotalSeeds
  BY <1>2 DEF TypeOK, Snapshot
<1>4. Loaded \in Checkpoint /\ Loaded.next = file.next /\ Loaded.covered = {}
      /\ Loaded.completed = {}
  BY <1>3, NotRunningIsRun DEF Loaded, NewCheckpoint, Checkpoint
<1>5. TotalSeeds \in 0 .. TotalSeeds /\ 0 \in 0 .. TotalSeeds
  BY RunAssumption
<1>6. workers \in Nat \ {0}
  BY CliAssumption
<1>7. CASE workers > 1
  <2> DEFINE owned == Owned(p, workers)
             new == [driver |-> "ring", status |-> IF owned = {} THEN "completed" ELSE "running",
                     owned |-> owned, pending |-> owned, cursor |-> 0, swept |-> {}]
             from == IF owned = {} THEN [Loaded EXCEPT !.next = TotalSeeds] ELSE Loaded
  <2>1. owned \subseteq Slots /\ owned = Partition(p, workers)
    BY <1>7 DEF Owned, SlotsOf, Partition
  <2>2. owned \ Loaded.covered = owned
    BY <1>4
  <2>3. run' = [run EXCEPT ![p] = new] /\ checkpoint' = [checkpoint EXCEPT ![p] = from]
    <3>1. RingStart(p, Loaded, owned)
      BY <1>7 DEF Resume
    <3> HIDE DEF owned
    <3>2. QED
      BY <2>2, <3>1 DEF RingStart
  <2> HIDE DEF owned
  <2>4. new \in Run
    BY <1>5, <2>1 DEF Run, Drivers, Statuses
  <2>5. from \in Checkpoint /\ from.completed = {}
    BY <1>4, <1>5 DEF Checkpoint
  <2>6. /\ new.driver = "ring" /\ new.owned = owned /\ new.pending = owned /\ new.cursor = 0
        /\ new.status \in {"running", "completed"}
        /\ new.status = "completed" => owned = {}
    OBVIOUS
  <2> HIDE DEF new, from
  <2>7. /\ run' \in [Processes -> Run] /\ run'[p] = new
        /\ \A q \in Processes : q # p => run'[q] = run[q]
        /\ checkpoint' \in [Processes -> Checkpoint] /\ checkpoint'[p] = from
        /\ \A q \in Processes : q # p => checkpoint'[q] = checkpoint[q]
    BY <1>1, <2>3, <2>4, <2>5
  <2>8. QED
    BY <1>2, <1>3, <1>7, <2>1, <2>5, <2>6, <2>7, LaunchFields DEF Launched
<1>8. CASE ~(workers > 1)
  <2> DEFINE new == [NotRunning EXCEPT !.status = "running", !.driver = "cursor",
                                       !.owned = Slots, !.cursor = Loaded.next]
  <2>1. workers = 1 /\ Partition(p, workers) = Slots
    BY <1>6, <1>8 DEF Partition
  <2>2. run' = [run EXCEPT ![p] = new] /\ checkpoint' = [checkpoint EXCEPT ![p] = Loaded]
    BY <1>8 DEF Resume, CursorStart
  <2>3. /\ new \in Run /\ new.driver = "cursor" /\ new.status = "running"
        /\ new.owned = Slots /\ new.cursor = file.next
    BY <1>3, <1>4 DEF NotRunning, Run, Drivers, Statuses
  <2> HIDE DEF new
  <2>4. /\ run' \in [Processes -> Run] /\ run'[p] = new
        /\ \A q \in Processes : q # p => run'[q] = run[q]
        /\ checkpoint' \in [Processes -> Checkpoint]
        /\ \A q \in Processes : q # p => checkpoint'[q] = checkpoint[q]
    BY <1>1, <1>4, <2>2, <2>3
  <2>5. QED
    BY <1>2, <1>3, <2>1, <2>3, <2>4, LaunchFields DEF Launched
<1>9. QED
  BY <1>2, <1>3, <1>7, <1>8

(* The counters of a process whose seed was done. *)
CountsTo(p, since) ==
  /\ process' \in [Processes -> Process]
  /\ process'[p].workers = process[p].workers
  /\ process'[p].next = run[p].cursor + 1
  /\ process'[p].since = since
  /\ \A q \in Processes : q # p => process'[q] = process[q]

LEMMA CountedFields ==
  ASSUME TypeOK, NEW p \in Processes, WithinBudget(p), run[p].cursor < TotalSeeds,
         NEW since \in 0 .. CheckpointInterval - 1, Counted(p, since)
  PROVE  CountsTo(p, since)
<1>1. process \in [Processes -> Process] /\ process[p] \in Process
  BY DEF TypeOK
<1>2. process[p].budget - 1 \in Nat
  BY <1>1 DEF WithinBudget, Process
<1>3. run[p].cursor + 1 \in 0 .. TotalSeeds
  BY CursorIsSeed DEF TypeOK
<1>4. process' = [process EXCEPT ![p].next = run[p].cursor + 1, ![p].since = since,
                                 ![p].budget = process[p].budget - 1]
  BY DEF Counted
<1>5. QED
  BY <1>1, <1>2, <1>3, <1>4 DEF CountsTo, Process

Snapshotted(p, next) == file' = [worker |-> p, next |-> next] /\ lostWrites' = lostWrites

Unwritten ==
  /\ file' = file /\ lostWrites < MaxLostWrites /\ lostWrites' = lostWrites + 1

(* The work closure. *)
LEMMA StepIs ==
  ASSUME TypeOK, NEW p \in Processes, Step(p)
  PROVE  /\ UNCHANGED <<cancelled, begun, pools, finished, crashes>>
         /\ \/ Passes(p) /\ UNCHANGED <<file, process, lostWrites>>
            \/ Ends(p) /\ UNCHANGED <<file, process, lostWrites>>
            \/ Works(p, FALSE) /\ ~WithinBudget(p) /\ UNCHANGED <<file, process, lostWrites>>
            \/ /\ Works(p, TRUE) /\ WithinBudget(p)
               /\ CountsTo(p, process[p].since + 1) /\ UNCHANGED <<file, lostWrites>>
            \/ /\ Works(p, TRUE) /\ WithinBudget(p)
               /\ CountsTo(p, 0) /\ Snapshotted(p, run[p].cursor + 1)
            \/ /\ Fails(p, TRUE) /\ WithinBudget(p)
               /\ CountsTo(p, 0) /\ Unwritten
<1>0. RunTypeOK /\ UNCHANGED <<cancelled, begun, pools, finished, crashes>>
  BY DEF TypeOK, Step
<1>1. process[p].since \in 0 .. CheckpointInterval - 1 /\ CheckpointInterval \in Nat \ {0}
  BY CliAssumption DEF TypeOK, Process
<1>2. 0 \in 0 .. CheckpointInterval - 1
  BY <1>1
<1>3. ASSUME Works(p, TRUE) \/ Fails(p, TRUE) PROVE run[p].cursor < TotalSeeds
  BY <1>3, SeedsAre DEF Works, Fails
<1>4. CASE (Pass(p) \/ Stop(p)) /\ UNCHANGED <<file, process, lostWrites>>
  BY <1>0, <1>4, PassIs, StopIs
<1>5. CASE WorkSkipped(p)
  BY <1>0, <1>5, WorkIs DEF WorkSkipped
<1>6. CASE WorkCounted(p)
  <2>1. process[p].since + 1 \in 0 .. CheckpointInterval - 1
    BY <1>1, <1>6 DEF WorkCounted, CheckpointDue
  <2>2. QED
    BY <1>0, <1>3, <1>6, <2>1, WorkIs, CountedFields DEF WorkCounted
<1>7. CASE WorkSaved(p)
  BY <1>0, <1>2, <1>3, <1>7, WorkIs, CountedFields
     DEF WorkSaved, WriteCheckpoint, snapshotCheckpoint, Snapshotted
<1>8. CASE WorkUnsaved(p)
  BY <1>0, <1>2, <1>3, <1>8, FailIs, CountedFields DEF WorkUnsaved, WriteFails, Unwritten
<1>9. QED
  BY <1>0, <1>4, <1>5, <1>6, <1>7, <1>8 DEF Step

(* A process leaves: it exits or dies. *)
Leaves(p) ==
  /\ run[p].status # "idle"
  /\ run' = [run EXCEPT ![p] = NotRunning]
  /\ process' = [process EXCEPT ![p] = Gone]
  /\ UNCHANGED <<checkpoint, cancelled, begun, pools>>

LEMMA LeavesFields ==
  ASSUME TypeOK, NEW p \in Processes, Leaves(p)
  PROVE  /\ run' \in [Processes -> Run] /\ process' \in [Processes -> Process]
         /\ run'[p].status = "idle"
         /\ \A q \in Processes : q # p => run'[q] = run[q] /\ process'[q] = process[q]
<1>1. run \in [Processes -> Run] /\ process \in [Processes -> Process]
  BY DEF TypeOK, RunTypeOK
<1>2. QED
  BY <1>1, NotRunningIsRun, GoneIsProcess DEF Leaves

LEMMA ExitIs ==
  ASSUME NEW p \in Processes, Exit(p)
  PROVE  /\ Leaves(p) /\ UNCHANGED <<executed, crashes>>
         /\ Snapshotted(p, process[p].next) \/ Unwritten
         /\ \/ finished' = finished
            \/ /\ finished' = finished \cup {<<p, process[p].workers>>}
               /\ run[p].status = "completed" /\ WithinBudget(p)
  BY DEF Exit, Leaves, WriteCheckpoint, snapshotCheckpoint, WriteFails, Snapshotted, Unwritten

LEMMA CrashIs ==
  ASSUME TypeOK, NEW p \in Processes, Crash(p)
  PROVE  /\ Leaves(p) /\ crashes < MaxCrashes /\ crashes' = crashes + 1
         /\ UNCHANGED <<file, finished, lostWrites>>
         /\ \/ UNCHANGED executed
            \/ /\ run[p].status = "running" /\ run[p].cursor \in Seeds
               /\ WithinBudget(p) /\ Executes(p, TRUE)
<1>1. /\ Leaves(p) /\ crashes < MaxCrashes /\ crashes' = crashes + 1
      /\ UNCHANGED <<file, finished, lostWrites>>
  BY DEF Crash, Die, Leaves
<1>2. CASE Die(p, FALSE)
  BY <1>1, <1>2 DEF Die
<1>3. CASE WithinBudget(p) /\ Die(p, TRUE)
  <2>1. PICK driver : Iterates(p, driver)
    BY <1>3 DEF Die, PlainWorks, RingWorks
  <2>2. WorkDone(p, TRUE) /\ RunTypeOK
    BY <1>3 DEF Die, TypeOK
  <2>3. QED
    BY <1>1, <1>3, <2>1, <2>2, IteratesFields, WorkDoneFields
<1>4. QED
  BY <1>1, <1>2, <1>3 DEF Crash
----------------------------------------------------------------------------
(* Types, and who is running. *)

LEMMA StepCases ==
  ASSUME [Next]_vars
  PROVE  \/ \E p \in Processes : \E workers \in Pools : Start(p, workers)
         \/ \E p \in Processes : \E workers \in Pools : Resume(p, workers)
         \/ \E p \in Processes : Step(p)
         \/ \E p \in Processes : Exit(p)
         \/ \E p \in Processes : Crash(p)
         \/ Cancel
         \/ UNCHANGED vars
  BY DEF Next

LEMMA TypeStep ==
  ASSUME TypeOK, LaunchInv, [Next]_vars
  PROVE  TypeOK'
<1>0. /\ run \in [Processes -> Run] /\ checkpoint \in [Processes -> Checkpoint]
      /\ cancelled \in BOOLEAN /\ executed \in [Seeds -> 0 .. MaxExecutions]
      /\ file \in Snapshot \cup {NoFile} /\ process \in [Processes -> Process]
      /\ begun \subseteq Processes /\ pools \subseteq Pools
      /\ finished \subseteq Processes \X Pools
      /\ crashes \in 0 .. MaxCrashes /\ lostWrites \in 0 .. MaxLostWrites
      /\ MaxCrashes \in Nat /\ MaxLostWrites \in Nat
  BY CliAssumption DEF TypeOK, RunTypeOK
<1>1. ASSUME NEW p \in Processes, NEW workers \in Pools, NEW next, Launched(p, workers, next),
             begun' \subseteq Processes
      PROVE  TypeOK'
  BY <1>0, <1>1 DEF Launched, TypeOK, RunTypeOK
<1>2. ASSUME NEW p \in Processes, NEW next \in 0 .. TotalSeeds, Snapshotted(p, next) \/ Unwritten
      PROVE  file' \in Snapshot \cup {NoFile} /\ lostWrites' \in 0 .. MaxLostWrites
  BY <1>0, <1>2 DEF Snapshotted, Unwritten, Snapshot
<1>3. ASSUME NEW p \in Processes, Step(p) PROVE TypeOK'
  <2>1. UNCHANGED <<cancelled, begun, pools, finished, crashes>>
    BY <1>3, StepIs
  <2>2. run' \in [Processes -> Run] /\ checkpoint' \in [Processes -> Checkpoint]
    BY <1>3, StepIs DEF Passes, Ends, Works, Fails, Local, Recorded
  <2>3. executed' \in [Seeds -> 0 .. MaxExecutions]
    BY <1>0, <1>3, StepIs DEF Passes, Ends, Works, Fails, Executes
  <2>4. process' \in [Processes -> Process]
    BY <1>0, <1>3, StepIs DEF CountsTo
  <2>5. \/ UNCHANGED <<file, lostWrites>>
        \/ run[p].cursor \in Seeds /\ (Snapshotted(p, run[p].cursor + 1) \/ Unwritten)
    BY <1>3, StepIs DEF Works, Fails
  <2>6. run[p].cursor \in Seeds => run[p].cursor + 1 \in 0 .. TotalSeeds
    BY CursorIsSeed, SeedsAre DEF TypeOK
  <2>7. file' \in Snapshot \cup {NoFile} /\ lostWrites' \in 0 .. MaxLostWrites
    BY <1>0, <1>2, <2>5, <2>6
  <2>8. QED
    BY <1>0, <2>1, <2>2, <2>3, <2>4, <2>7 DEF TypeOK, RunTypeOK
<1>4. ASSUME NEW p \in Processes, Exit(p) PROVE TypeOK'
  <2>1. run' \in [Processes -> Run] /\ process' \in [Processes -> Process]
    BY <1>4, ExitIs, LeavesFields
  <2>2. process[p].next \in 0 .. TotalSeeds
    BY <1>0 DEF Process
  <2>3. file' \in Snapshot \cup {NoFile} /\ lostWrites' \in 0 .. MaxLostWrites
    BY <1>2, <1>4, <2>2, ExitIs
  <2>4. finished' \subseteq Processes \X Pools
    <3>1. ASSUME run[p].status = "completed" /\ WithinBudget(p)
          PROVE  process[p].workers \in Pools
      BY <1>0, <3>1 DEF LaunchInv
    <3>2. QED
      BY <1>0, <1>4, <3>1, ExitIs
  <2>5. QED
    BY <1>0, <1>4, <2>1, <2>3, <2>4, ExitIs DEF Leaves, TypeOK, RunTypeOK
<1>5. ASSUME NEW p \in Processes, Crash(p) PROVE TypeOK'
  <2>1. run' \in [Processes -> Run] /\ process' \in [Processes -> Process]
    BY <1>5, CrashIs, LeavesFields
  <2>2. executed' \in [Seeds -> 0 .. MaxExecutions]
    BY <1>0, <1>5, CrashIs DEF Executes
  <2>3. crashes' \in 0 .. MaxCrashes
    <3>1. crashes < MaxCrashes /\ crashes' = crashes + 1
      BY <1>5, CrashIs
    <3>2. QED
      BY <1>0, <3>1
  <2>4. QED
    BY <1>0, <1>5, <2>1, <2>2, <2>3, CrashIs DEF Leaves, TypeOK, RunTypeOK
<1>6. CASE Cancel
  BY <1>0, <1>6 DEF Cancel, cliVars, TypeOK, RunTypeOK
<1>7. CASE UNCHANGED vars
  BY <1>0, <1>7 DEF vars, cliVars, TypeOK, RunTypeOK
<1>8. ASSUME NEW p \in Processes, NEW workers \in Pools, Start(p, workers) PROVE TypeOK'
  BY <1>0, <1>1, <1>8, StartIs
<1>9. ASSUME NEW p \in Processes, NEW workers \in Pools, Resume(p, workers) PROVE TypeOK'
  BY <1>0, <1>1, <1>9, ResumeIs
<1>10. QED
  BY <1>3, <1>4, <1>5, <1>6, <1>7, <1>8, <1>9, StepCases

LEMMA LaunchStep ==
  ASSUME TypeOK, LaunchInv, [Next]_vars
  PROVE  LaunchInv'
<1> DEFINE Attended(p) ==
             run[p].status # "idle" =>
               /\ p \in begun
               /\ process[p].workers \in pools /\ p < process[p].workers
               /\ run[p].owned = Partition(p, process[p].workers)
               /\ run[p].driver = "ring" => process[p].workers > 1
               /\ run[p].driver = "cursor" => process[p].workers = 1
           Writer == file # NoFile => file.worker \in begun
           Begun == \A p \in begun : \E workers \in pools : p < workers
<1>1. (\A p \in Processes : Attended(p)) /\ Writer /\ Begun
  BY DEF LaunchInv
<1>2. ASSUME \A p \in Processes : Attended(p)', Writer', Begun' PROVE LaunchInv'
  BY <1>2 DEF LaunchInv
<1>3. ASSUME NEW p \in Processes, NEW workers \in Pools, NEW next, Launched(p, workers, next),
             p \in begun', begun' \subseteq begun \cup {p}, begun \subseteq begun'
      PROVE  LaunchInv'
  <2>1. ASSUME NEW q \in Processes PROVE Attended(q)'
    <3>1. CASE q = p
      BY <1>3, <3>1 DEF Launched
    <3>2. CASE q # p
      BY <1>1, <1>3, <3>2 DEF Launched
    <3>3. QED
      BY <3>1, <3>2
  <2>2. Writer' /\ Begun'
    BY <1>1, <1>3 DEF Launched
  <2>3. QED
    BY <1>2, <2>1, <2>2
<1>4. ASSUME NEW p \in Processes, Step(p) PROVE LaunchInv'
  <2>0. UNCHANGED <<begun, pools>>
    BY <1>4, StepIs
  <2>1. Local(p) /\ run[p].status = "running"
    BY <1>4, StepIs DEF Passes, Ends, Works, Fails
  <2>2. /\ process'[p].workers = process[p].workers
        /\ \A q \in Processes : q # p => process'[q] = process[q]
    BY <1>4, StepIs DEF CountsTo
  <2>3. ASSUME NEW q \in Processes PROVE Attended(q)'
    <3>1. CASE q = p
      BY <1>1, <2>0, <2>1, <2>2, <3>1 DEF Local
    <3>2. CASE q # p
      BY <1>1, <2>0, <2>1, <2>2, <3>2 DEF Local
    <3>3. QED
      BY <3>1, <3>2
  <2>4. Begun'
    BY <1>1, <2>0
  <2>5. Writer'
    <3>1. p \in begun
      BY <1>1, <2>1
    <3>2. file' = file \/ Snapshotted(p, run[p].cursor + 1) \/ Unwritten
      BY <1>4, StepIs
    <3>3. file' = file \/ file'.worker = p
      BY <3>2 DEF Snapshotted, Unwritten
    <3>4. QED
      BY <1>1, <2>0, <3>1, <3>3
  <2>6. QED
    BY <1>2, <2>3, <2>4, <2>5
<1>5. ASSUME NEW p \in Processes, Leaves(p),
             file' = file \/ file'.worker = p
      PROVE  LaunchInv'
  <2>0. UNCHANGED <<begun, pools>>
    BY <1>5 DEF Leaves
  <2>1. ASSUME NEW q \in Processes PROVE Attended(q)'
    <3>1. CASE q = p
      BY <1>5, <3>1, LeavesFields
    <3>2. CASE q # p
      BY <1>1, <1>5, <2>0, <3>2, LeavesFields
    <3>3. QED
      BY <3>1, <3>2
  <2>2. p \in begun
    BY <1>1, <1>5 DEF Leaves
  <2>3. Writer' /\ Begun'
    BY <1>1, <1>5, <2>0, <2>2
  <2>4. QED
    BY <1>2, <2>1, <2>3
<1>6. ASSUME UNCHANGED <<run, cliVars>> PROVE LaunchInv'
  BY <1>1, <1>2, <1>6 DEF cliVars
<1>7. ASSUME NEW p \in Processes, NEW workers \in Pools, Start(p, workers) PROVE LaunchInv'
  BY <1>3, <1>7, StartIs
<1>8. ASSUME NEW p \in Processes, NEW workers \in Pools, Resume(p, workers) PROVE LaunchInv'
  <2>1. p \in begun
    BY <1>1, <1>8, ResumeIs
  <2>2. QED
    BY <1>3, <1>8, <2>1, ResumeIs
<1>9. ASSUME NEW p \in Processes, Exit(p) PROVE LaunchInv'
  <2>1. file' = file \/ file'.worker = p
    BY <1>9, ExitIs DEF Snapshotted, Unwritten
  <2>2. QED
    BY <1>5, <1>9, <2>1, ExitIs
<1>10. ASSUME NEW p \in Processes, Crash(p) PROVE LaunchInv'
  BY <1>5, <1>10, CrashIs
<1>11. ASSUME Cancel \/ UNCHANGED vars PROVE UNCHANGED <<run, cliVars>>
  BY <1>11 DEF Cancel, vars
<1>12. QED
  BY <1>4, <1>6, <1>7, <1>8, <1>9, <1>10, <1>11, StepCases

(* A process runs only for a pool it was launched with, on its own         *)
(* partition, and wrote the checkpoint only after it was begun.            *)
THEOREM LaunchedForAPool == Spec => [](TypeOK /\ LaunchInv)
<1>1. Init => TypeOK /\ LaunchInv
  <2>1. ASSUME Init PROVE TypeOK
    <3>1. RunTypeOK
      <4>1. run \in [Processes -> Run] /\ checkpoint \in [Processes -> Checkpoint]
        BY <2>1, NotRunningIsRun DEF Init, RunInit
      <4>2. executed \in [Seeds -> 0 .. MaxExecutions] /\ cancelled \in BOOLEAN
        <5>1. 0 \in 0 .. MaxExecutions
          BY RunAssumption
        <5>2. QED
          BY <2>1, <5>1 DEF Init, RunInit
      <4>3. QED
        BY <4>1, <4>2 DEF RunTypeOK
    <3>2. 0 \in 0 .. MaxCrashes /\ 0 \in 0 .. MaxLostWrites
      BY CliAssumption
    <3>3. QED
      BY <2>1, <3>1, <3>2, GoneIsProcess DEF Init, TypeOK
  <2>2. ASSUME Init PROVE LaunchInv
    BY <2>2, NotRunningIsRun DEF Init, RunInit, LaunchInv
  <2>3. QED
    BY <2>1, <2>2
<1>2. TypeOK /\ LaunchInv /\ [Next]_vars => TypeOK' /\ LaunchInv'
  BY TypeStep, LaunchStep
<1>3. QED
  BY <1>1, <1>2, PTL DEF Spec

(* The variables keep their types in every reachable state. *)
THEOREM TypeCorrect == Spec => []TypeOK
  BY LaunchedForAPool, PTL
----------------------------------------------------------------------------
(* A single worker. *)

(* StandsAt with its state spelled out: the file stands at `saved', the    *)
(* executions are `ex', and `faults' counts deaths and lost writes.        *)
Stands(saved, next, ex, faults, lost) ==
  /\ saved <= next
  /\ \A s \in Seeds : s < next => ex[s] > 0
  /\ \A s \in Seeds : ex[s] <= 1 + faults
  /\ \A s \in Seeds : s >= next => ex[s] <= faults
  /\ lost = 0 => \A s \in Seeds : ex[s] > 0 => s < saved + CheckpointInterval

Executions == [Seeds -> 0 .. MaxExecutions]

(* One more execution of seed c at most. *)
OneMore(c, ex, ex2) ==
  /\ \A s \in Seeds : s # c => ex2[s] = ex[s]
  /\ ex2[c] >= ex[c]
  /\ ex2[c] <= ex[c] + 1

LEMMA ExecutionsAre ==
  ASSUME NEW ex \in Executions, NEW s \in Seeds
  PROVE  ex[s] \in Nat /\ s \in Nat
  BY RunAssumption, SeedsAre DEF Executions

(* The seed the worker stands before is done; the file may follow. *)
LEMMA StandsAdvances ==
  ASSUME NEW saved \in Nat, NEW next \in Seeds, NEW ex \in Executions, NEW ex2 \in Executions,
         NEW faults \in Nat, NEW lost \in Nat, NEW saved2, saved2 = saved \/ saved2 = next + 1,
         Stands(saved, next, ex, faults, lost),
         OneMore(next, ex, ex2), ex2[next] > 0,
         lost = 0 => next < saved + CheckpointInterval
  PROVE  Stands(saved2, next + 1, ex2, faults, lost)
<1>1. CheckpointInterval \in Nat /\ next \in Nat
  BY CliAssumption, SeedsAre
<1>2. saved <= saved2 /\ saved2 <= next + 1 /\ saved2 \in Nat
  BY <1>1 DEF Stands
<1>3. ASSUME NEW s \in Seeds
      PROVE  /\ s < next + 1 => ex2[s] > 0
             /\ ex2[s] <= 1 + faults
             /\ s >= next + 1 => ex2[s] <= faults
             /\ lost = 0 /\ ex2[s] > 0 => s < saved2 + CheckpointInterval
  <2>1. ex[s] \in Nat /\ ex2[s] \in Nat /\ s \in Nat
    BY ExecutionsAre
  <2>2. CASE s = next
    BY <1>1, <1>2, <2>1, <2>2 DEF Stands, OneMore
  <2>3. CASE s # next
    <3>1. ex2[s] = ex[s]
      BY <2>3 DEF OneMore
    <3>2. /\ s < next => ex[s] > 0
          /\ ex[s] <= 1 + faults
          /\ s >= next => ex[s] <= faults
          /\ lost = 0 /\ ex[s] > 0 => s < saved + CheckpointInterval
      BY DEF Stands
    <3>3. QED
      BY <1>1, <1>2, <2>1, <2>3, <3>1, <3>2
  <2>4. QED
    BY <2>2, <2>3
<1>4. QED
  BY <1>2, <1>3 DEF Stands

(* After a fault nothing counts as done but what the file says; the seed   *)
(* that was being done may have been.                                      *)
LEMMA StandsBack ==
  ASSUME NEW saved \in Nat, NEW next \in Nat, NEW ex \in Executions, NEW ex2 \in Executions,
         NEW faults \in Nat, NEW lost \in Nat, NEW lost2 \in Nat,
         Stands(saved, next, ex, faults, lost),
         lost2 = 0 => lost = 0,
         \/ ex2 = ex
         \/ next \in Seeds /\ OneMore(next, ex, ex2)
            /\ (lost = 0 => next < saved + CheckpointInterval)
  PROVE  /\ Stands(saved, saved, ex2, faults + 1, lost2)
         /\ \A s \in Seeds : ex2[s] <= faults + 1
<1>1. CheckpointInterval \in Nat
  BY CliAssumption
<1>2. ASSUME NEW s \in Seeds
      PROVE  /\ s < saved => ex2[s] > 0
             /\ ex2[s] <= faults + 1
             /\ lost2 = 0 /\ ex2[s] > 0 => s < saved + CheckpointInterval
  <2>1. ex[s] \in Nat /\ ex2[s] \in Nat /\ s \in Nat
    BY ExecutionsAre
  <2>2. /\ s < next => ex[s] > 0
        /\ ex[s] <= 1 + faults
        /\ s >= next => ex[s] <= faults
        /\ lost = 0 /\ ex[s] > 0 => s < saved + CheckpointInterval
        /\ saved <= next
    BY DEF Stands
  <2>3. \/ ex2[s] = ex[s]
        \/ /\ s = next /\ ex2[s] >= ex[s] /\ ex2[s] <= ex[s] + 1
           /\ lost = 0 => next < saved + CheckpointInterval
    BY DEF OneMore
  <2>4. QED
    BY <1>1, <2>1, <2>2, <2>3
<1>3. \A s \in Seeds : ex2[s] \in Nat
  BY ExecutionsAre
<1>4. QED
  BY <1>2, <1>3 DEF Stands

LEMMA StandsAtIs ==
  ASSUME NEW next, crashes \in Nat, lostWrites \in Nat
  PROVE  StandsAt(next) <=> Stands(SavedNext, next, executed, crashes + lostWrites, lostWrites)
<1>1. 1 + crashes + lostWrites = 1 + (crashes + lostWrites)
  OBVIOUS
<1>2. QED
  BY <1>1 DEF StandsAt, Stands

(* As long as nobody was launched for a larger pool there is one process. *)
LEMMA OnlyOne ==
  ASSUME TypeOK, LaunchInv, OneWorker
  PROVE  /\ \A p \in Processes : run[p].status # "idle" =>
              /\ p = 0 /\ p \in begun /\ process[p].workers = 1
              /\ run[p].owned = Slots /\ run[p].driver # "ring"
         /\ \A p \in begun : p = 0
         /\ file # NoFile => file.worker = 0 /\ file.worker \in begun
<1>1. \A p \in Processes : p \in Nat
  BY CliAssumption
<1>2. \A p \in begun : p = 0
  BY <1>1 DEF LaunchInv, OneWorker, TypeOK
<1>3. ASSUME NEW p \in Processes, run[p].status # "idle"
      PROVE  /\ p = 0 /\ p \in begun /\ process[p].workers = 1
             /\ run[p].owned = Slots /\ run[p].driver # "ring"
  <2>1. /\ p \in begun /\ process[p].workers \in pools
        /\ run[p].owned = Partition(p, process[p].workers)
        /\ run[p].driver = "ring" => process[p].workers > 1
    BY <1>3 DEF LaunchInv
  <2>2. process[p].workers = 1
    BY <2>1 DEF OneWorker
  <2>3. QED
    BY <1>2, <2>1, <2>2 DEF Partition
<1>4. QED
  BY <1>2, <1>3 DEF LaunchInv

LEMMA SoloStep ==
  ASSUME TypeOK, LaunchInv, SoloInv, TypeOK', [Next]_vars
  PROVE  SoloInv'
<1> DEFINE Idle == \A p \in Processes : run[p].status = "idle"
           Follows(p) ==
             /\ StandsAt(process[p].next)
             /\ run[p].status = "running" /\ WithinBudget(p) => process[p].next = run[p].cursor
             /\ lostWrites = 0 => process[p].next <= SavedNext + process[p].since
           faults == crashes + lostWrites
<1> SUFFICES ASSUME OneWorker'
             PROVE  /\ Idle' => StandsAt(SavedNext)'
                    /\ \A p \in Processes : run'[p].status # "idle" => Follows(p)'
  BY DEF SoloInv
<1>0. /\ crashes \in Nat /\ lostWrites \in Nat /\ crashes' \in Nat /\ lostWrites' \in Nat
      /\ executed \in Executions /\ executed' \in Executions
      /\ SavedNext \in Nat /\ SavedNext' \in Nat
      /\ CheckpointInterval \in Nat
  <2>1. /\ crashes \in Nat /\ lostWrites \in Nat /\ crashes' \in Nat /\ lostWrites' \in Nat
        /\ CheckpointInterval \in Nat
    BY CliAssumption DEF TypeOK
  <2>2. executed \in Executions /\ executed' \in Executions
    BY DEF TypeOK, RunTypeOK, Executions
  <2>3. SavedNext \in Nat /\ SavedNext' \in Nat
    BY RunAssumption DEF TypeOK, SavedNext, Snapshot
  <2>4. QED
    BY <2>1, <2>2, <2>3
<1>a. ASSUME NEW p \in Processes
      PROVE  /\ process[p].next \in Nat /\ process'[p].next \in Nat
             /\ process[p].since \in Nat /\ process[p].since < CheckpointInterval
             /\ process'[p].since \in Nat
  BY CliAssumption, RunAssumption DEF TypeOK, Process
<1>1. pools \subseteq pools'
  <2>1. \A p \in Processes : \A workers \in Pools : \A next :
          Launched(p, workers, next) => pools \subseteq pools'
    BY DEF Launched
  <2>2. \A p \in Processes : Leaves(p) => pools' = pools
    BY DEF Leaves
  <2>3. Cancel \/ UNCHANGED vars => pools' = pools
    BY DEF Cancel, vars, cliVars
  <2>4. QED
    BY <2>1, <2>2, <2>3, StepCases, StartIs, ResumeIs, StepIs, ExitIs, CrashIs
<1>2. OneWorker
  BY <1>1 DEF OneWorker
<1>3. /\ Idle => StandsAt(SavedNext)
      /\ \A p \in Processes : run[p].status # "idle" => Follows(p)
  BY <1>2 DEF SoloInv
<1>4. /\ \A p \in Processes : run[p].status # "idle" => p = 0
      /\ \A p \in begun : p = 0
      /\ file # NoFile => file.worker = 0 /\ file.worker \in begun
  BY <1>2, OnlyOne
<1>5. ASSUME NEW next, StandsAt(next)
      PROVE  Stands(SavedNext, next, executed, faults, lostWrites)
  BY <1>0, <1>5, StandsAtIs
<1>6. Stands(SavedNext', SavedNext', executed', crashes' + lostWrites', lostWrites')
        => StandsAt(SavedNext)'
  <2>1. 1 + crashes' + lostWrites' = 1 + (crashes' + lostWrites')
    BY <1>0
  <2>2. QED
    BY <2>1 DEF StandsAt, Stands
<1>7. ASSUME NEW p \in Processes
      PROVE  Stands(SavedNext', process'[p].next, executed', crashes' + lostWrites', lostWrites')
               => StandsAt(process[p].next)'
  <2>1. 1 + crashes' + lostWrites' = 1 + (crashes' + lostWrites')
    BY <1>0
  <2>2. QED
    BY <2>1 DEF StandsAt, Stands
<1>8. ASSUME NEW p \in Processes, NEW workers \in Pools, NEW next,
             Launched(p, workers, next), next = SavedNext
      PROVE  /\ Idle' => StandsAt(SavedNext)'
             /\ \A q \in Processes : run'[q].status # "idle" => Follows(q)'
  <2>1. workers = 1 /\ p = 0
    <3>1. workers = 1
      BY <1>8 DEF Launched, OneWorker
    <3>2. p \in Nat /\ p < 1
      BY <1>8, <3>1, CliAssumption DEF Launched
    <3>3. QED
      BY <3>1, <3>2
  <2>2. Idle
    BY <1>4, <1>8, <2>1 DEF Launched
  <2>3. UNCHANGED <<file, executed, crashes, lostWrites>> /\ SavedNext' = SavedNext
    BY <1>8 DEF Launched, SavedNext
  <2>4. /\ run'[p].status \in {"running", "completed"} /\ run'[p].cursor = next
        /\ process'[p].next = next /\ process'[p].since = 0
    BY <1>8, <2>1 DEF Launched
  <2>5. \A q \in Processes : q # p => run'[q].status = "idle"
    BY <1>8, <2>2 DEF Launched
  <2>6. Stands(SavedNext, next, executed, faults, lostWrites)
    BY <1>3, <1>5, <1>8, <2>2
  <2>7. StandsAt(process[p].next)'
    BY <1>7, <2>3, <2>4, <2>6
  <2>8. Follows(p)'
    BY <1>0, <1>8, <2>3, <2>4, <2>7
  <2>9. QED
    BY <2>4, <2>5, <2>8
<1>9. ASSUME NEW p \in Processes, Step(p)
      PROVE  /\ Idle' => StandsAt(SavedNext)'
             /\ \A q \in Processes : run'[q].status # "idle" => Follows(q)'
  <2> DEFINE next == process[p].next
  <2>1. run[p].status = "running" /\ Local(p) /\ run'[p].status # "idle"
    BY <1>9, StepIs DEF Passes, Ends, Works, Fails
  <2>2. \A q \in Processes : q # p => run'[q].status = "idle"
    BY <1>4, <2>1 DEF Local
  <2>3. /\ Stands(SavedNext, next, executed, faults, lostWrites)
        /\ WithinBudget(p) => next = run[p].cursor
        /\ lostWrites = 0 => next <= SavedNext + process[p].since
    BY <1>3, <1>5, <2>1
  <2>4. crashes' = crashes
    BY <1>9, StepIs
  <2>5. lostWrites = 0 => next < SavedNext + CheckpointInterval
    BY <1>0, <1>a, <2>3
  <2>6. CASE /\ UNCHANGED <<file, process, lostWrites, executed>>
             /\ \/ run'[p].status # "running"
                \/ ~WithinBudget(p)
                \/ run'[p].cursor = run[p].cursor
    <3>1. SavedNext' = SavedNext
      BY <2>6 DEF SavedNext
    <3>2. StandsAt(process[p].next)'
      BY <1>7, <2>3, <2>4, <2>6, <3>1
    <3>3. run'[p].status = "running" /\ WithinBudget(p)' => process'[p].next = run'[p].cursor
      BY <2>3, <2>6 DEF WithinBudget
    <3>4. Follows(p)'
      BY <2>3, <2>6, <3>1, <3>2, <3>3
    <3>5. QED
      BY <2>1, <2>2, <3>4
  <2>7. CASE Passes(p) /\ UNCHANGED <<file, process, lostWrites>>
    <3>1. run[p].owned = Slots /\ run[p].driver # "ring"
      BY <1>2, <2>1, OnlyOne
    <3>2. run[p].cursor \in Seeds /\ SlotAt(p) \notin Slots
      BY <2>7, <3>1 DEF Passes
    <3>3. QED
      BY <3>2, RunAssumption DEF SlotAt
  <2>8. CASE Ends(p) /\ UNCHANGED <<file, process, lostWrites>>
    BY <2>6, <2>8 DEF Ends
  <2>9. CASE Works(p, FALSE) /\ ~WithinBudget(p) /\ UNCHANGED <<file, process, lostWrites>>
    BY <2>6, <2>9 DEF Works, Executes
  <2>10. ASSUME Executes(p, TRUE), WithinBudget(p), run[p].cursor \in Seeds
         PROVE  /\ next \in Seeds /\ next = run[p].cursor
                /\ OneMore(next, executed, executed') /\ executed'[next] > 0
    BY <2>3, <2>10 DEF Executes, OneMore
  <2>11. CASE /\ Works(p, TRUE) /\ WithinBudget(p)
              /\ \/ CountsTo(p, process[p].since + 1) /\ UNCHANGED <<file, lostWrites>>
                 \/ CountsTo(p, 0) /\ Snapshotted(p, run[p].cursor + 1)
    <3>1. /\ next \in Seeds /\ next = run[p].cursor
          /\ OneMore(next, executed, executed') /\ executed'[next] > 0
          /\ run'[p].cursor = run[p].cursor + 1
      BY <2>10, <2>11 DEF Works
    <3>2. process'[p].next = next + 1 /\ lostWrites' = lostWrites
      BY <2>11, <3>1 DEF CountsTo, Snapshotted
    <3>3. \/ process'[p].since = process[p].since + 1 /\ SavedNext' = SavedNext
          \/ SavedNext' = next + 1
      <4>1. CASE CountsTo(p, process[p].since + 1) /\ UNCHANGED <<file, lostWrites>>
        BY <4>1 DEF CountsTo, SavedNext
      <4>2. CASE CountsTo(p, 0) /\ Snapshotted(p, run[p].cursor + 1)
        <5>1. file' = [worker |-> p, next |-> next + 1]
          BY <3>1, <4>2 DEF Snapshotted
        <5>2. file' # NoFile
          <6>1. next + 1 \in 0 .. TotalSeeds
            BY <3>1, CursorIsSeed, SeedsAre DEF TypeOK
          <6>2. QED
            BY <5>1, <6>1, NoFileAssumption DEF Snapshot
        <5>3. QED
          BY <5>1, <5>2 DEF SavedNext
      <4>3. QED
        BY <2>11, <4>1, <4>2
    <3> HIDE DEF next, faults
    <3>4. Stands(SavedNext', next + 1, executed', faults, lostWrites)
      <4>1. faults \in Nat
        BY <1>0 DEF faults
      <4>2. SavedNext' = SavedNext \/ SavedNext' = next + 1
        BY <3>3
      <4>3. executed \in Executions /\ executed' \in Executions
            /\ SavedNext \in Nat /\ lostWrites \in Nat
        BY <1>0
      <4>4. QED
        BY <2>3, <2>5, <3>1, <4>1, <4>2, <4>3, StandsAdvances
    <3>5. StandsAt(process[p].next)'
      BY <1>7, <2>4, <3>2, <3>4 DEF faults
    <3>6. process'[p].next = run'[p].cursor
      BY <3>1, <3>2
    <3>7. lostWrites' = 0 => process'[p].next <= SavedNext' + process'[p].since
      BY <1>0, <1>a, <2>3, <3>2, <3>3 DEF next
    <3>8. Follows(p)'
      BY <3>5, <3>6, <3>7
    <3>9. QED
      BY <2>1, <2>2, <3>8
  <2>12. CASE Fails(p, TRUE) /\ WithinBudget(p) /\ CountsTo(p, 0) /\ Unwritten
    <3>1. /\ next \in Seeds /\ next = run[p].cursor
          /\ OneMore(next, executed, executed') /\ executed'[next] > 0
      BY <2>10, <2>12 DEF Fails
    <3>2. process'[p].next = next + 1 /\ lostWrites' = lostWrites + 1 /\ SavedNext' = SavedNext
      BY <2>12, <3>1 DEF CountsTo, Unwritten, SavedNext
    <3>3. run'[p].status = "failed"
      BY <2>12 DEF Fails
    <3> HIDE DEF next, faults
    <3>4. faults \in Nat /\ crashes' + lostWrites' = faults + 1 /\ lostWrites' # 0
      BY <1>0, <2>4, <3>2 DEF faults
    <3>5. /\ Stands(SavedNext, SavedNext, executed', faults + 1, lostWrites')
          /\ \A s \in Seeds : executed'[s] <= faults + 1
      <4>1. next \in Nat
        BY <3>1, SeedsAre
      <4>2. QED
        BY <1>0, <2>3, <2>5, <3>1, <3>4, <4>1, StandsBack
    <3>6. \A s \in Seeds : s < next + 1 => executed'[s] > 0
      <4>1. ASSUME NEW s \in Seeds, s < next + 1 PROVE executed'[s] > 0
        <5>1. CASE s = next
          BY <3>1, <5>1
        <5>2. CASE s # next
          <6>1. s < next /\ executed'[s] = executed[s]
            BY <3>1, <4>1, <5>2, SeedsAre DEF OneMore
          <6>2. QED
            BY <2>3, <6>1 DEF Stands
        <5>3. QED
          BY <5>1, <5>2
      <4>2. QED
        BY <4>1
    <3>7. SavedNext <= next + 1
      BY <1>0, <1>a, <2>3 DEF Stands, next
    <3>8. Stands(SavedNext', next + 1, executed', crashes' + lostWrites', lostWrites')
      BY <3>2, <3>4, <3>5, <3>6, <3>7 DEF Stands
    <3>9. StandsAt(process[p].next)'
      BY <1>7, <3>2, <3>8
    <3>10. Follows(p)'
      BY <3>3, <3>4, <3>9
    <3>11. QED
      BY <2>1, <2>2, <3>10
  <2> HIDE DEF next, Follows, Idle
  <2>13. QED
    BY <1>9, <2>7, <2>8, <2>9, <2>11, <2>12, StepIs
<1>10. ASSUME NEW p \in Processes, Leaves(p),
              Stands(SavedNext', SavedNext', executed', crashes' + lostWrites', lostWrites')
       PROVE  /\ Idle' => StandsAt(SavedNext)'
              /\ \A q \in Processes : run'[q].status # "idle" => Follows(q)'
  <2>1. \A q \in Processes : run'[q].status = "idle"
    BY <1>4, <1>10, LeavesFields DEF Leaves
  <2>2. QED
    BY <1>6, <1>10, <2>1
<1>11. ASSUME NEW p \in Processes, Leaves(p)
       PROVE  /\ Stands(SavedNext, process[p].next, executed, faults, lostWrites)
              /\ run[p].status = "running" /\ WithinBudget(p) => process[p].next = run[p].cursor
              /\ lostWrites = 0 => process[p].next < SavedNext + CheckpointInterval
  <2>1. Follows(p)
    BY <1>3, <1>11 DEF Leaves
  <2>2. lostWrites = 0 => process[p].next < SavedNext + CheckpointInterval
    BY <1>0, <1>a, <2>1
  <2>3. QED
    BY <1>5, <2>1, <2>2
<1>12. ASSUME NEW p \in Processes, Exit(p)
       PROVE  /\ Idle' => StandsAt(SavedNext)'
              /\ \A q \in Processes : run'[q].status # "idle" => Follows(q)'
  <2>0. Leaves(p) /\ UNCHANGED <<executed, crashes>>
    BY <1>12, ExitIs
  <2>1. CASE Snapshotted(p, process[p].next)
    <3>1. file' # NoFile
      <4>1. process[p].next \in 0 .. TotalSeeds
        BY DEF TypeOK, Process
      <4>2. QED
        BY <2>1, <4>1, NoFileAssumption DEF Snapshotted, Snapshot
    <3>2. SavedNext' = process[p].next /\ lostWrites' = lostWrites
      BY <2>1, <3>1 DEF SavedNext, Snapshotted
    <3> DEFINE next == process[p].next
    <3>3. Stands(next, next, executed, faults, lostWrites)
      <4>1. Stands(SavedNext, next, executed, faults, lostWrites)
        BY <1>11, <2>0
      <4>2. next \in Nat
        BY <1>a
      <4> HIDE DEF next, faults
      <4>3. ASSUME NEW s \in Seeds, s < SavedNext + CheckpointInterval
            PROVE  s < next + CheckpointInterval
        BY <1>0, <4>1, <4>2, <4>3, SeedsAre DEF Stands
      <4>4. QED
        BY <4>1, <4>2, <4>3 DEF Stands
    <3>4. QED
      BY <1>10, <2>0, <3>2, <3>3
  <2>2. CASE Unwritten
    <3>1. SavedNext' = SavedNext /\ lostWrites' = lostWrites + 1
      BY <2>2 DEF SavedNext, Unwritten
    <3>2. crashes' + lostWrites' = faults + 1 /\ faults \in Nat /\ lostWrites' # 0
      BY <1>0, <2>0, <3>1
    <3> HIDE DEF faults
    <3>3. Stands(SavedNext, SavedNext, executed', faults + 1, lostWrites')
      BY <1>0, <1>11, <1>a, <2>0, <3>2, StandsBack
    <3>4. QED
      BY <1>10, <2>0, <3>1, <3>2, <3>3
  <2>3. QED
    BY <1>12, <2>1, <2>2, ExitIs
<1>13. ASSUME NEW p \in Processes, Crash(p)
       PROVE  /\ Idle' => StandsAt(SavedNext)'
              /\ \A q \in Processes : run'[q].status # "idle" => Follows(q)'
  <2>0. Leaves(p) /\ crashes' = crashes + 1 /\ lostWrites' = lostWrites /\ SavedNext' = SavedNext
    BY <1>13, CrashIs DEF SavedNext
  <2>1. crashes' + lostWrites' = faults + 1 /\ faults \in Nat
    BY <1>0, <2>0
  <2>2. \/ executed' = executed
        \/ process[p].next \in Seeds /\ OneMore(process[p].next, executed, executed')
    <3>1. \/ UNCHANGED executed
          \/ /\ run[p].status = "running" /\ run[p].cursor \in Seeds
             /\ WithinBudget(p) /\ Executes(p, TRUE)
      BY <1>13, CrashIs
    <3>2. QED
      BY <1>11, <2>0, <3>1 DEF Executes, OneMore
  <2> HIDE DEF faults
  <2>3. Stands(SavedNext, SavedNext, executed', faults + 1, lostWrites')
    BY <1>0, <1>11, <1>a, <2>0, <2>1, <2>2, StandsBack
  <2>4. QED
    BY <1>10, <2>0, <2>1, <2>3
<1>14. ASSUME Cancel \/ UNCHANGED vars
       PROVE  /\ Idle' => StandsAt(SavedNext)'
              /\ \A q \in Processes : run'[q].status # "idle" => Follows(q)'
  <2>1. UNCHANGED <<run, executed, cliVars>>
    BY <1>14 DEF Cancel, vars
  <2>2. QED
    BY <1>3, <2>1 DEF cliVars, StandsAt, SavedNext, WithinBudget
<1>15. ASSUME NEW p \in Processes, NEW workers \in Pools, Start(p, workers)
       PROVE  SavedNext = 0 /\ Launched(p, workers, 0)
  <2>1. Launched(p, workers, 0) /\ (p \notin begun \/ file = NoFile)
    BY <1>15, StartIs
  <2>2. workers = 1 /\ p < 1 /\ p \in Nat
    BY <2>1, CliAssumption DEF Launched, OneWorker
  <2>3. p = 0
    BY <2>2
  <2>4. file = NoFile
    BY <1>4, <2>1, <2>3
  <2>5. QED
    BY <2>1, <2>4 DEF SavedNext
<1>16. ASSUME NEW p \in Processes, NEW workers \in Pools, Resume(p, workers)
       PROVE  Launched(p, workers, SavedNext)
  BY <1>16, ResumeIs DEF SavedNext
<1> HIDE DEF Idle, Follows
<1>17. QED
  BY <1>8, <1>9, <1>12, <1>13, <1>14, <1>15, <1>16, StepCases

(* A single worker stands where its counters or the file say. *)
THEOREM SoloStands == Spec => []SoloInv
<1>1. ASSUME Init PROVE SoloInv
  <2>1. SavedNext = 0 /\ crashes = 0 /\ lostWrites = 0 /\ \A s \in Seeds : executed[s] = 0
    BY <1>1 DEF Init, RunInit, SavedNext
  <2>2. StandsAt(SavedNext)
    <3>1. \A s \in Seeds : s \in Nat
      BY SeedsAre
    <3>2. QED
      BY <2>1, <3>1 DEF StandsAt
  <2>3. \A p \in Processes : run[p].status = "idle"
    BY <1>1, NotRunningIsRun DEF Init, RunInit
  <2>4. QED
    BY <2>2, <2>3 DEF SoloInv
<1>2. TypeOK /\ LaunchInv /\ SoloInv /\ TypeOK' /\ [Next]_vars => SoloInv'
  BY SoloStep
<1>3. QED
  BY <1>1, <1>2, LaunchedForAPool, PTL DEF Spec

(* Where a single worker stands, running or not. *)
LEMMA SoloStanding ==
  ASSUME TypeOK, SoloInv, OneWorker
  PROVE  \E next \in Nat : StandsAt(next)
<1>1. SavedNext \in Nat
  BY RunAssumption DEF TypeOK, SavedNext, Snapshot
<1>2. \A p \in Processes : process[p].next \in Nat
  BY RunAssumption DEF TypeOK, Process
<1>3. QED
  BY <1>1, <1>2 DEF SoloInv

LEMMA SavedIsDone ==
  ASSUME TypeOK, SoloInv
  PROVE  CheckpointBehindWork
<1> SUFFICES ASSUME OneWorker, NEW s \in 0 .. SavedNext - 1 PROVE executed[s] > 0
  BY DEF CheckpointBehindWork
<1>1. SavedNext \in 0 .. TotalSeeds /\ TotalSeeds \in Nat
  BY RunAssumption DEF TypeOK, SavedNext, Snapshot
<1>2. s \in Seeds /\ s \in Nat /\ s < SavedNext
  BY <1>1, SeedsAre
<1>3. PICK next \in Nat : StandsAt(next)
  BY SoloStanding
<1>4. s < next
  BY <1>1, <1>2, <1>3 DEF StandsAt
<1>5. QED
  BY <1>2, <1>3, <1>4 DEF StandsAt

(* A single worker's checkpoint never runs ahead of its work, whatever     *)
(* budget ran out, write failed or process died (crashlab.rs, the work     *)
(* closure and the final snapshot).                                        *)
THEOREM CheckpointNeverAhead == Spec => []CheckpointBehindWork
  BY SavedIsDone, LaunchedForAPool, SoloStands, PTL

(* A single worker does a seed again only for a death or a lost write.     *)
THEOREM CompletedSeedsStay == Spec => []CompletedNotReexecuted
<1>1. ASSUME TypeOK, SoloInv PROVE CompletedNotReexecuted
  BY <1>1, SoloStanding DEF CompletedNotReexecuted, StandsAt
<1>2. QED
  BY <1>1, LaunchedForAPool, SoloStands, PTL

(* As long as snapshots can be written, a death costs a single worker at   *)
(* most --checkpoint-interval seeds.                                       *)
THEOREM DeathCostsAnInterval == Spec => []LossBounded
<1>1. ASSUME TypeOK, SoloInv PROVE LossBounded
  BY <1>1, SoloStanding DEF LossBounded, StandsAt
<1>2. QED
  BY <1>1, LaunchedForAPool, SoloStands, PTL
----------------------------------------------------------------------------
(* A pool, or a single worker, completes what it says it completes. *)

(* No execution is forgotten. *)
LEMMA ExecutedGrows ==
  ASSUME TypeOK, [Next]_vars, NEW s \in Seeds, executed[s] > 0
  PROVE  executed'[s] > 0
<1>0. ASSUME NEW p \in Processes, NEW ran, Executes(p, ran), run[p].cursor \in Seeds
      PROVE  executed'[s] > 0
  <2>1. executed[s] \in Nat /\ executed'[s] \in Nat
    BY <1>0, RunAssumption DEF TypeOK, RunTypeOK, Executes
  <2>2. executed'[s] = executed[s] \/ s = run[p].cursor
    BY <1>0 DEF Executes
  <2>3. QED
    BY <1>0, <2>1, <2>2 DEF Executes
<1>1. ASSUME NEW p \in Processes, Step(p) PROVE executed'[s] > 0
  BY <1>0, <1>1, StepIs DEF Passes, Ends, Works, Fails
<1>2. ASSUME NEW p \in Processes, Crash(p) PROVE executed'[s] > 0
  BY <1>0, <1>2, CrashIs
<1>3. ASSUME NEW p \in Processes, Exit(p) PROVE executed'[s] > 0
  BY <1>3, ExitIs
<1>4. ASSUME NEW p \in Processes, NEW workers \in Pools, NEW next, Launched(p, workers, next)
      PROVE  executed'[s] > 0
  BY <1>4 DEF Launched
<1>5. ASSUME Cancel \/ UNCHANGED vars PROVE executed'[s] > 0
  BY <1>5 DEF Cancel, vars
<1>6. QED
  BY <1>1, <1>2, <1>3, <1>4, <1>5, StepCases, StartIs, ResumeIs

(* A campaign that has not switched has not switched before. *)
LEMMA PoolsGrow ==
  ASSUME TypeOK, [Next]_vars, OneWorker' \/ Partitioned'
  PROVE  OneWorker \/ Partitioned
<1>1. pools \subseteq pools'
  <2>1. \A p \in Processes : \A workers \in Pools : \A next :
          Launched(p, workers, next) => pools \subseteq pools'
    BY DEF Launched
  <2>2. \A p \in Processes : Leaves(p) => pools' = pools
    BY DEF Leaves
  <2>3. Cancel \/ UNCHANGED vars => pools' = pools
    BY DEF Cancel, vars, cliVars
  <2>4. QED
    BY <2>1, <2>2, <2>3, StepCases, StartIs, ResumeIs, StepIs, ExitIs, CrashIs
<1>2. QED
  BY <1>1 DEF OneWorker, Partitioned

LEMMA SweepStep ==
  ASSUME TypeOK, LaunchInv, SoloInv, SweepInv, TypeOK', [Next]_vars
  PROVE  SweepInv'
<1> DEFINE Swept(p) ==
             run[p].status \in {"running", "completed"} /\ WithinBudget(p) =>
               /\ \A s \in Seeds : s < run[p].cursor /\ RingSlot[s] \in run[p].owned
                                     => executed[s] > 0
               /\ run[p].driver = "ring" =>
                    /\ run[p].pending = run[p].owned
                    /\ \A s \in checkpoint[p].completed : s < run[p].cursor
               /\ run[p].status = "completed"
                    => run[p].cursor = TotalSeeds \/ run[p].owned = {}
<1> SUFFICES ASSUME OneWorker' \/ Partitioned'
             PROVE  \A p \in Processes : Swept(p)'
  BY DEF SweepInv
<1>1. \A p \in Processes : Swept(p)
  BY PoolsGrow DEF SweepInv
<1>2. ASSUME NEW q \in Processes, run'[q] = run[q], checkpoint'[q] = checkpoint[q],
             process'[q] = process[q]
      PROVE  Swept(q)'
  BY <1>1, <1>2, ExecutedGrows DEF WithinBudget
<1>3. ASSUME NEW p \in Processes, NEW workers \in Pools, NEW next, Launched(p, workers, next),
             workers = 1 => \A s \in Seeds : s < next => executed[s] > 0,
             next = 0 \/ (run'[p].driver # "ring" => workers = 1)
      PROVE  \A q \in Processes : Swept(q)'
  <2>1. ASSUME NEW s \in Seeds, s < run'[p].cursor PROVE executed'[s] > 0
    <3>1. s \in Nat
      BY SeedsAre
    <3>2. run'[p].cursor = 0 \/ (workers = 1 /\ run'[p].cursor = next)
      BY <1>3 DEF Launched
    <3>3. executed' = executed
      BY <1>3 DEF Launched
    <3>4. QED
      BY <1>3, <2>1, <3>1, <3>2, <3>3
  <2>2. Swept(p)'
    BY <1>3, <2>1 DEF Launched
  <2>3. QED
    BY <1>2, <1>3, <2>2 DEF Launched
<1>4. ASSUME NEW p \in Processes, NEW workers \in Pools, Start(p, workers)
      PROVE  \A q \in Processes : Swept(q)'
  <2>1. \A s \in Seeds : ~(s < 0)
    BY SeedsAre
  <2>2. QED
    BY <1>3, <1>4, <2>1, StartIs
<1>5. ASSUME NEW p \in Processes, NEW workers \in Pools, Resume(p, workers)
      PROVE  \A q \in Processes : Swept(q)'
  <2>1. Launched(p, workers, file.next) /\ file # NoFile
    BY <1>5, ResumeIs
  <2>2. ASSUME workers = 1, NEW s \in Seeds, s < file.next PROVE executed[s] > 0
    <3>1. OneWorker
      BY <2>1, <2>2, PoolsGrow DEF Launched, OneWorker, Partitioned
    <3>2. SavedNext = file.next /\ file.next \in 0 .. TotalSeeds
      BY <1>5, <2>1, ResumeIs DEF SavedNext
    <3>3. s \in 0 .. SavedNext - 1
      BY <2>2, <3>2, RunAssumption, SeedsAre
    <3>4. QED
      BY <3>1, <3>3, SavedIsDone DEF CheckpointBehindWork
  <2>3. run'[p].driver # "ring" => workers = 1
    <3>1. CASE workers > 1
      BY <1>5, <3>1 DEF Resume, RingStart, TypeOK, RunTypeOK
    <3>2. CASE ~(workers > 1)
      BY <3>2, CliAssumption
    <3>3. QED
      BY <3>1, <3>2
  <2>4. QED
    BY <1>3, <2>1, <2>2, <2>3
<1>6. ASSUME NEW p \in Processes, Step(p) PROVE \A q \in Processes : Swept(q)'
  <2>0. /\ run[p].status = "running" /\ Local(p) /\ Recorded(p)
        /\ \A q \in Processes : q # p => process'[q] = process[q]
    BY <1>6, StepIs DEF Passes, Ends, Works, Fails, CountsTo
  <2>1. ASSUME WithinBudget(p)
        PROVE  /\ \A s \in Seeds : s < run[p].cursor /\ RingSlot[s] \in run[p].owned
                                     => executed[s] > 0
               /\ run[p].driver = "ring" =>
                    /\ run[p].pending = run[p].owned
                    /\ \A s \in checkpoint[p].completed : s < run[p].cursor
    BY <1>1, <2>0, <2>1
  <2>2. WithinBudget(p)' => WithinBudget(p)
    BY <1>6, StepIs DEF WithinBudget
  <2>3. run[p].cursor \in Nat /\ \A s \in Seeds : s \in Nat
    BY CursorIsSeed, SeedsAre DEF TypeOK
  <2>4. checkpoint[p].completed \subseteq Seeds
    BY DEF TypeOK, RunTypeOK, Checkpoint
  <2>5. CASE Passes(p) /\ UNCHANGED process
    <3>1. ASSUME WithinBudget(p), NEW s \in Seeds, s < run'[p].cursor,
                 RingSlot[s] \in run'[p].owned
          PROVE  executed'[s] > 0
      <4>1. s < run[p].cursor \/ s = run[p].cursor
        BY <2>3, <2>5, <3>1 DEF Passes
      <4>2. s # run[p].cursor
        BY <2>1, <2>3, <2>5, <3>1 DEF Passes, Local, SlotAt
      <4>3. QED
        BY <2>0, <2>1, <2>5, <3>1, <4>1, <4>2 DEF Passes, Local
    <3>2. ASSUME WithinBudget(p), run'[p].driver = "ring"
          PROVE  /\ run'[p].pending = run'[p].owned
                 /\ \A s \in checkpoint'[p].completed : s < run'[p].cursor
      BY <2>1, <2>3, <2>4, <2>5, <3>2 DEF Passes, Local
    <3>3. Swept(p)'
      BY <2>2, <2>5, <3>1, <3>2 DEF Passes
    <3>4. QED
      BY <1>2, <2>0, <3>3 DEF Local, Recorded
  <2>6. CASE Ends(p) /\ UNCHANGED process
    <3>1. Swept(p)'
      BY <2>1, <2>2, <2>6 DEF Ends, Local
    <3>2. QED
      BY <1>2, <2>0, <3>1 DEF Local, Recorded
  <2>7. CASE Works(p, FALSE) /\ ~WithinBudget(p)
    <3>1. Swept(p)'
      BY <2>2, <2>7
    <3>2. QED
      BY <1>2, <2>0, <3>1 DEF Local, Recorded
  <2>8. CASE Works(p, TRUE)
    <3>1. ASSUME WithinBudget(p), NEW s \in Seeds, s < run'[p].cursor,
                 RingSlot[s] \in run'[p].owned
          PROVE  executed'[s] > 0
      <4>1. s < run[p].cursor \/ s = run[p].cursor
        BY <2>3, <2>8, <3>1 DEF Works
      <4>2. QED
        BY <2>1, <2>8, <3>1, <4>1, ExecutedGrows DEF Works, Executes, Local
    <3>2. ASSUME WithinBudget(p), run'[p].driver = "ring"
          PROVE  /\ run'[p].pending = run'[p].owned
                 /\ \A s \in checkpoint'[p].completed : s < run'[p].cursor
      <4>1. ASSUME NEW s \in checkpoint'[p].completed PROVE s < run'[p].cursor
        <5>1. s \in checkpoint[p].completed \/ s = run[p].cursor
          BY <2>0, <4>1 DEF Recorded
        <5>2. run'[p].cursor = run[p].cursor + 1 /\ run[p].driver = "ring"
          BY <2>0, <2>8, <3>2 DEF Works, Local
        <5>3. QED
          BY <2>1, <2>3, <2>4, <3>2, <5>1, <5>2
      <4>2. QED
        BY <2>0, <2>1, <3>2, <4>1 DEF Local
    <3>3. Swept(p)'
      BY <2>2, <2>8, <3>1, <3>2 DEF Works
    <3>4. QED
      BY <1>2, <2>0, <3>3 DEF Local, Recorded
  <2>9. CASE Fails(p, TRUE)
    <3>1. Swept(p)'
      BY <2>9 DEF Fails
    <3>2. QED
      BY <1>2, <2>0, <3>1 DEF Local, Recorded
  <2> HIDE DEF Swept
  <2>10. QED
    BY <1>6, <2>5, <2>6, <2>7, <2>8, <2>9, StepIs
<1>7. ASSUME NEW p \in Processes, Leaves(p) PROVE \A q \in Processes : Swept(q)'
  <2>1. Swept(p)'
    BY <1>7, LeavesFields
  <2>2. QED
    BY <1>2, <1>7, <2>1, LeavesFields DEF Leaves
<1>8. ASSUME Cancel \/ UNCHANGED vars PROVE \A q \in Processes : Swept(q)'
  BY <1>2, <1>8 DEF Cancel, vars, cliVars
<1> HIDE DEF Swept
<1>9. QED
  BY <1>4, <1>5, <1>6, <1>7, <1>8, StepCases, ExitIs, CrashIs

(* A driver within its budget leaves no seed of its partition behind, as   *)
(* long as the campaign does not switch between one worker and several.    *)
THEOREM NothingLeftBehind == Spec => []SweepInv
<1>1. Init => SweepInv
  <2>1. ASSUME Init PROVE \A p \in Processes : run[p].status = "idle"
    BY <2>1, NotRunningIsRun DEF Init, RunInit
  <2>2. QED
    BY <2>1 DEF SweepInv
<1>2. TypeOK /\ LaunchInv /\ SoloInv /\ SweepInv /\ TypeOK' /\ [Next]_vars => SweepInv'
  BY SweepStep
<1>3. QED
  BY <1>1, <1>2, LaunchedForAPool, SoloStands, PTL DEF Spec

LEMMA CompleteStep ==
  ASSUME TypeOK, LaunchInv, SweepInv, CompleteWithoutSwitch, [Next]_vars
  PROVE  CompleteWithoutSwitch'
<1> SUFFICES ASSUME OneWorker' \/ Partitioned',
                    NEW f \in finished', NEW s \in Seeds, RingSlot[s] \in Partition(f[1], f[2])
             PROVE  executed'[s] > 0
  BY DEF CompleteWithoutSwitch, CompletedIsComplete
<1>1. CASE f \in finished
  <2>1. executed[s] > 0
    BY <1>1, PoolsGrow DEF CompleteWithoutSwitch, CompletedIsComplete
  <2>2. QED
    BY <2>1, ExecutedGrows
<1>2. CASE f \notin finished
  <2>1. PICK p \in Processes : Exit(p)
    <3>1. ASSUME NEW p \in Processes, NEW workers \in Pools,
                 Start(p, workers) \/ Resume(p, workers)
          PROVE  finished' = finished
      BY <3>1 DEF Start, Resume
    <3>2. ASSUME NEW p \in Processes, Step(p) \/ Crash(p) PROVE finished' = finished
      BY <3>2 DEF Step, Crash
    <3>3. ASSUME Cancel \/ UNCHANGED vars PROVE finished' = finished
      BY <3>3 DEF Cancel, vars, cliVars
    <3>4. QED
      BY <1>2, <3>1, <3>2, <3>3, StepCases
  <2>2. f = <<p, process[p].workers>> /\ run[p].status = "completed" /\ WithinBudget(p)
    BY <1>2, <2>1, ExitIs
  <2>3. RingSlot[s] \in run[p].owned
    BY <2>2 DEF LaunchInv
  <2>4. s < TotalSeeds
    BY SeedsAre
  <2>5. executed[s] > 0
    BY <2>2, <2>3, <2>4, PoolsGrow DEF SweepInv
  <2>6. QED
    BY <2>5, ExecutedGrows
<1>3. QED
  BY <1>1, <1>2

(* A worker that completes within its budget has seen every seed of its    *)
(* partition executed, although the workers of a pool overwrite each       *)
(* other's snapshot, as long as the campaign does not change between one   *)
(* worker and several.                                                     *)
THEOREM CompletedWithoutSwitch == Spec => []CompleteWithoutSwitch
<1>1. Init => CompleteWithoutSwitch
  BY DEF Init, CompleteWithoutSwitch, CompletedIsComplete
<1>2. TypeOK /\ LaunchInv /\ SweepInv /\ CompleteWithoutSwitch /\ [Next]_vars
        => CompleteWithoutSwitch'
  BY CompleteStep
<1>3. QED
  BY <1>1, <1>2, LaunchedForAPool, NothingLeftBehind, PTL DEF Spec
============================================================================
