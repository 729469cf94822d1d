--------------------------- MODULE CronScheduler ---------------------------
(***************************************************************************)
(* Recurring campaigns: api/schedules (_store.ts, route.ts, [id]/route.ts, *)
(* tick/route.ts) over lib/cron and lib/capacity/windows.ts.               *)
(*                                                                         *)
(* `state' is the one SchedulerState object of the process.  A tick reads  *)
(* and replaces it without an await in between; an edit reads it, awaits   *)
(* its request body, and writes back the object it read, patched.          *)
(***************************************************************************)
EXTENDS CronExpression

CONSTANTS
  Schedules,        \* schedule ids
  Seeds,            \* seed data that the process may start with
  Sources, Text,    \* cron sources that requests carry, and what they say
  Classes, OpenAt,  \* campaign classes, and the minutes their window is open
  Redis,            \* a KV store is configured: the lock is the in-memory one
  Ticks, Cron,      \* callers of the tick; bound: all but Cron call once
  Editors,          \* PUT requests; bound: each editor sends one
  Horizon,          \* bound: the last minute; nothing is edited in it
  MaxRollbacks,     \* bound: deaths and edits that overwrite newer state
  Absent

VARIABLES
  clock,      \* minutes
  seeded,     \* the schedules of the seed data
  state,      \* schedules, runs and tick records of the history, ledger
  tick,       \* per caller: its step and the minute it evaluates
  locks,      \* tick keys (minutes) that are locked
  edit,       \* per editor: the id and the state it read
  known,      \* ids ever handed out
  fired,      \* how often a run was created for a schedule's slot
  rollbacks

vars == <<clock, seeded, state, tick, locks, edit, known, fired, rollbacks>>

Minutes == 1 .. Horizon

Misfires == {"skip", "run-immediately"}

(* Times are minutes; lastRunAt is 0 until the schedule has run. *)
Schedule == [source    : Sources,
             enabled   : BOOLEAN,
             class     : Classes,
             misfire   : Misfires,
             createdAt : 0 .. Horizon,
             lastRunAt : 0 .. Horizon]

State == [schedules : [Schedules -> Schedule \cup {Absent}],
          runs      : SUBSET (Schedules \X Minutes),
          ticks     : SUBSET Minutes,
          ledger    : SUBSET (Schedules \X Minutes \X {"success", "skipped_overlap"})]

ASSUME CronAssumption ==
  /\ Horizon \in Nat \ {0}
  /\ MaxRollbacks \in Nat
  /\ Redis \in BOOLEAN
  /\ Cron \in Ticks
  /\ OpenAt \in [Classes -> SUBSET Minutes]
  /\ Seeds \subseteq [Schedules -> Schedule \cup {Absent}]
  /\ Absent \notin Schedule \cup Schedules

NoEdit == [id |-> Absent, read |-> Absent, sent |-> FALSE]

EditDone == [NoEdit EXCEPT !.sent = TRUE]

TickOver(t) == IF t = Cron THEN "idle" ELSE "done"

TypeOK ==
  /\ clock \in Minutes
  /\ seeded \in Seeds
  /\ state \in State
  /\ tick \in [Ticks -> [at : {"idle", "arrived", "evaluated", "done"}, now : Minutes]]
  /\ locks \subseteq Minutes
  /\ edit \in [Editors ->
       [id : Schedules, read : State, sent : {TRUE}] \cup {NoEdit, EditDone}]
  /\ known \subseteq Schedules
  /\ fired \in [Schedules \X Minutes -> Nat]
  /\ rollbacks \in 0 .. MaxRollbacks

seed == [schedules |-> seeded, runs |-> {}, ticks |-> {}, ledger |-> {}]

Init ==
  /\ clock = 1
  /\ seeded \in Seeds
  /\ state = seed
  /\ tick = [t \in Ticks |-> [at |-> "idle", now |-> 1]]
  /\ locks = {}
  /\ edit = [e \in Editors |-> NoEdit]
  /\ known = {s \in Schedules : seeded[s] # Absent}
  /\ fired = [p \in Schedules \X Minutes |-> 0]
  /\ rollbacks = 0

Present(s) == state.schedules[s] # Absent

----------------------------------------------------------------------------
(* evaluateTick and applyMisfirePolicies. *)

Anchor(schedule) ==
  IF schedule.lastRunAt # 0 THEN schedule.lastRunAt ELSE schedule.createdAt

(* Pairs of a source and a minute that it names. *)
Names ==
  UNION {{<<source, m>> : m \in Slots(parseCron(Text[source]))} : source \in Sources}

(* Mutant: a slot is not due in its own minute. *)
DueTicksBefore(schedule, now) ==
  {m \in Minutes :
     <<schedule.source, m>> \in Names /\ Anchor(schedule) < m /\ m < now}

(* The due ticks after the anchor, at or before now. *)
DueTicks(schedule, now) ==
  {m \in Minutes :
     <<schedule.source, m>> \in Names /\ Anchor(schedule) < m /\ m <= now}

isWindowOpen(class, now) == now \in OpenAt[class]

(* `skip' moves the anchor past every slot that is due by now. *)
applyMisfirePolicy(schedule, now) ==
  IF /\ schedule # Absent
     /\ schedule.enabled
     /\ schedule.misfire = "skip"
     /\ DueTicks(schedule, now) # {}
    THEN [schedule EXCEPT !.lastRunAt = Max(DueTicks(schedule, now))]
    ELSE schedule

Due(schedule, now) ==
  schedule # Absent /\ schedule.enabled /\ DueTicks(schedule, now) # {}

(* Mutant: the history is not consulted. *)
CreatedAgain(schedules, runs, now) ==
  {<<s, Max(DueTicks(schedules[s], now))>> :
     s \in {r \in Schedules :
              /\ Due(schedules[r], now)
              /\ isWindowOpen(schedules[r].class, now)}}

(* One run for the last due slot, unless the history has it already. *)
Created(schedules, runs, now) ==
  {<<s, Max(DueTicks(schedules[s], now))>> :
     s \in {r \in Schedules :
              /\ Due(schedules[r], now)
              /\ isWindowOpen(schedules[r].class, now)}} \ runs

Deferred(schedules, now) ==
  {s \in Schedules : /\ Due(schedules[s], now)
                     /\ ~isWindowOpen(schedules[s].class, now)}

Advanced(schedules, now) ==
  [s \in Schedules |->
     IF Due(schedules[s], now) /\ isWindowOpen(schedules[s].class, now)
       THEN [schedules[s] EXCEPT !.lastRunAt = Max(DueTicks(schedules[s], now))]
       ELSE schedules[s]]

----------------------------------------------------------------------------
(* POST /api/schedules/tick. *)

(* A caller other than the cron service may name an earlier moment. *)
Arrive(t, now) ==
  /\ tick[t].at = "idle"
  /\ IF t = Cron THEN now = clock ELSE now <= clock
  /\ tick' = [tick EXCEPT ![t] = [at |-> "arrived", now |-> now]]
  /\ UNCHANGED <<clock, seeded, state, locks, edit, known, fired, rollbacks>>

Refused(t) ==
  /\ tick[t].at = "arrived"
  /\ Redis /\ tick[t].now \in locks
  /\ tick' = [tick EXCEPT ![t].at = TickOver(t)]
  /\ UNCHANGED <<clock, seeded, state, locks, edit, known, fired, rollbacks>>

(* By its own tick record or, if the time of the tick is a whole minute,   *)
(* by a run for that minute.                                               *)
alreadyProcessed(now) == now \in state.ticks \/ \E r \in state.runs : r[2] = now

(* Acquire the lock and evaluate; acquiring awaits no I/O.  Without a KV   *)
(* store the lock is kept in a run driver that has no putRun: nothing is   *)
(* ever written, so there is nothing to release either.                    *)
Evaluate(t) ==
  /\ tick[t].at = "arrived"
  /\ Redis => tick[t].now \notin locks
  /\ locks' = IF Redis THEN locks \cup {tick[t].now} ELSE locks
  /\ tick' = [tick EXCEPT ![t].at = IF Redis THEN "evaluated" ELSE TickOver(t)]
  /\ LET now == tick[t].now
         schedules == [s \in Schedules |-> applyMisfirePolicy(state.schedules[s], now)]
         created == Created(schedules, state.runs, now)
     IN  \/ /\ alreadyProcessed(now)
            /\ UNCHANGED <<state, fired>>
         \/ /\ now \notin state.ticks
            /\ state' =
                 [schedules |-> Advanced(schedules, now),
                  runs      |-> state.runs \cup created,
                  ticks     |-> state.ticks \cup {now},
                  ledger    |-> state.ledger
                    \cup {<<r[1], r[2], "success">> : r \in created}
                    \cup {<<s, now, "skipped_overlap">> : s \in Deferred(schedules, now)}]
            /\ fired' = [p \in Schedules \X Minutes |->
                           IF p \in created THEN fired[p] + 1 ELSE fired[p]]
  /\ UNCHANGED <<clock, seeded, edit, known, rollbacks>>

Release(t) ==
  /\ tick[t].at = "evaluated"
  /\ locks' = locks \ {tick[t].now}
  /\ tick' = [tick EXCEPT ![t].at = TickOver(t)]
  /\ UNCHANGED <<clock, seeded, state, edit, known, fired, rollbacks>>

----------------------------------------------------------------------------
(* The other routes. *)

Undisturbed == clock = Horizon

(* POST /api/schedules. *)
Create(s, source, enabled, class, misfire) ==
  /\ ~Undisturbed
  /\ s \notin known
  /\ known' = known \cup {s}
  /\ state' = [state EXCEPT !.schedules[s] =
       [source |-> source, enabled |-> enabled, class |-> class,
        misfire |-> misfire, createdAt |-> clock, lastRunAt |-> 0]]
  /\ UNCHANGED <<clock, seeded, tick, locks, edit, fired, rollbacks>>

(* PUT /api/schedules/[id], up to the await of its body ... *)
EditBegin(e, s) ==
  /\ edit[e] = NoEdit
  /\ ~Undisturbed
  /\ Present(s)
  /\ edit' = [edit EXCEPT ![e] = [id |-> s, read |-> state, sent |-> TRUE]]
  /\ UNCHANGED <<clock, seeded, state, tick, locks, known, fired, rollbacks>>

(* A changed expression gives up the anchor. *)
updateSchedule(schedule, source, enabled, class, misfire) ==
  [schedule EXCEPT !.source = source, !.enabled = enabled, !.class = class,
                   !.misfire = misfire,
                   !.lastRunAt = IF source = schedule.source THEN @ ELSE 0]

(* ... and after it.  What others wrote meanwhile is overwritten. *)
EditWrites(e, source, enabled, class, misfire) ==
  /\ edit[e].id # Absent
  /\ ~Undisturbed
  /\ rollbacks' = IF edit[e].read = state THEN rollbacks ELSE rollbacks + 1
  /\ rollbacks' <= MaxRollbacks
  /\ state' = [edit[e].read EXCEPT !.schedules[edit[e].id] =
                 updateSchedule(@, source, enabled, class, misfire)]
  /\ edit' = [edit EXCEPT ![e] = EditDone]
  /\ UNCHANGED <<clock, seeded, tick, locks, known, fired>>

(* A body that does not validate. *)
EditRejected(e) ==
  /\ edit[e].id # Absent
  /\ edit' = [edit EXCEPT ![e] = EditDone]
  /\ UNCHANGED <<clock, seeded, state, tick, locks, known, fired, rollbacks>>

(* Mutant: the ledger is kept. *)
DeleteKeepingLedger(s) ==
  /\ ~Undisturbed
  /\ Present(s)
  /\ state' = [state EXCEPT !.schedules[s] = Absent,
                            !.runs = {r \in @ : r[1] # s}]
  /\ UNCHANGED <<clock, seeded, tick, locks, edit, known, fired, rollbacks>>

(* DELETE /api/schedules/[id]. *)
Delete(s) ==
  /\ ~Undisturbed
  /\ Present(s)
  /\ state' = [state EXCEPT !.schedules[s] = Absent,
                            !.runs   = {r \in @ : r[1] # s},
                            !.ledger = {l \in @ : l[1] # s}]
  /\ UNCHANGED <<clock, seeded, tick, locks, edit, known, fired, rollbacks>>

(* The state is that of the process: a restart begins with the seed data. *)
Restart ==
  /\ ~Undisturbed
  /\ rollbacks < MaxRollbacks
  /\ rollbacks' = rollbacks + 1
  /\ state' = seed
  /\ tick' = [t \in Ticks |->
       IF tick[t].at = "idle" THEN tick[t] ELSE [tick[t] EXCEPT !.at = TickOver(t)]]
  /\ locks' = {}
  /\ edit' = [e \in Editors |-> IF edit[e].sent THEN EditDone ELSE NoEdit]
  /\ UNCHANGED <<clock, seeded, known, fired>>

Elapse ==
  /\ clock < Horizon
  /\ clock' = clock + 1
  /\ UNCHANGED <<seeded, state, tick, locks, edit, known, fired, rollbacks>>

Handle(t) == Refused(t) \/ Evaluate(t) \/ Release(t)

Next ==
  \/ \E t \in Ticks :
       \/ \E now \in Minutes : Arrive(t, now)
       \/ Handle(t)
  \/ \E s \in Schedules : Delete(s) \/ \E e \in Editors : EditBegin(e, s)
  \/ \E source \in Sources, enabled \in BOOLEAN, class \in Classes,
        misfire \in Misfires :
       \/ \E s \in Schedules : Create(s, source, enabled, class, misfire)
       \/ \E e \in Editors : EditWrites(e, source, enabled, class, misfire)
  \/ \E e \in Editors : EditRejected(e)
  \/ Restart
  \/ Elapse

Spec == Init /\ [][Next]_vars

(* The cron service keeps calling with the current time, requests are      *)
(* handled, and time passes.                                               *)
Fairness ==
  /\ WF_vars(Arrive(Cron, clock))
  /\ \A t \in Ticks : WF_vars(Handle(t))
  /\ WF_vars(Elapse)

FairSpec == Spec /\ Fairness

----------------------------------------------------------------------------
(* Properties. *)

(* How often one slot of one schedule can be executed: once, and once more *)
(* for every restart and every edit that wrote back an older state         *)
(* ([id]/route.ts 31-86); never because ticks overlap, arrive late or are  *)
(* repeated, a lock is missing, or an edit or a closed window moved the    *)
(* anchor (tick-evaluator.ts 118-139).                                     *)
RefiresBounded ==
  \A p \in Schedules \X Minutes : fired[p] <= 1 + rollbacks

Consistent(st) ==
  {<<l[1], l[2]>> : l \in {k \in st.ledger : k[3] = "success"}} = st.runs

(* The execution ledger and the history tell the same story, through       *)
(* deletions and overwritten state: every run has its entry and every      *)
(* successful entry its run.                                               *)
LedgerMatchesHistory == Consistent(state)

(* Sources for which the jump search finds the next minute they name. *)
ExactSources ==
  {source \in Sources : \A after \in 0 .. End - 1 :
     LET later == {n \in after + 1 .. End - 1 : <<source, n>> \in Names}
     IN  nextRun(parseCron(Text[source]), after)
           = IF later = {} THEN Never ELSE Min(later)}

(* "Returns the first instant strictly after `after` that satisfies        *)
(* `expr`" (next-run.ts 40): the jumps over months, days and hours skip no *)
(* instant that the expression of a schedule names.                        *)
NextRunExact ==
  \A s \in Schedules : Present(s) => state.schedules[s].source \in ExactSources

Pending(s, m) ==
  /\ Present(s)
  /\ state.schedules[s].enabled
  /\ <<state.schedules[s].source, m>> \in Names
  /\ Anchor(state.schedules[s]) < m /\ m <= clock

(* "fires as a catch-up once open" (tick-evaluator.ts 112): a slot that is *)
(* due does not stay due, through closed windows, refused and late ticks,  *)
(* restarts and edits.                                                     *)
DueSlotsSettle ==
  \A s \in Schedules, m \in Minutes : Pending(s, m) ~> ~Pending(s, m)

(* "What to do with cron slots missed while the scheduler was down"        *)
(* (schedule-store.ts 17): a slot that is not missed, since the tick of    *)
(* its own minute evaluates it and the one before it was served, is fired  *)
(* whatever the policy.                                                    *)
OnTimeSlotFires ==
  [][\A s \in Schedules, m \in Minutes :
       /\ m \in state'.ticks \ state.ticks
       /\ Pending(s, m)
       /\ Anchor(state.schedules[s]) = m - 1
       /\ isWindowOpen(state.schedules[s].class, m)
       => <<s, m>> \in state'.runs]_vars
----------------------------------------------------------------------------
(* The inductive invariant behind RefiresBounded and LedgerMatchesHistory. *)

(* What an editor holds, and writes back, was a state of the scheduler: it *)
(* has the schedule that is edited, and its ledger matches its history.    *)
EditInv ==
  \A e \in Editors : edit[e].id # Absent =>
    /\ edit[e].read.schedules[edit[e].id] # Absent
    /\ Consistent(edit[e].read)

(* No id is handed out twice: a schedule that is there, or that an editor  *)
(* or a restart may bring back, was handed out.                            *)
KnownInv ==
  \A s \in Schedules : s \notin known =>
    /\ state.schedules[s] = Absent
    /\ seeded[s] = Absent
    /\ \A e \in Editors : edit[e].id # Absent => edit[e].read.schedules[s] = Absent

(* A slot that the history does not have was executed once for each        *)
(* rollback at most, if its schedule is there or is yet to come.  That of  *)
(* a deleted schedule may count once more: only a rollback brings it back. *)
FiredInv ==
  \A s \in Schedules, m \in Minutes :
    /\ fired[<<s, m>>] <= 1 + rollbacks
    /\ <<s, m>> \notin state.runs /\ (Present(s) \/ s \notin known)
         => fired[<<s, m>>] <= rollbacks
============================================================================
