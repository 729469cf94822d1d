# Formal models of Soroban CrashLab

Soroban CrashLab fuzzes Soroban smart contracts. A Rust engine
(`contracts/crashlab-core`) runs *campaigns*: long schedules of seeds, split
among workers, cancelled, killed and resumed from a checkpoint. A web
application (`apps/web`) shows the results, schedules campaigns and delivers
webhooks through a retry queue and a dead-letter queue that are kept in files,
admits campaigns against quotas, and replays single runs for the browser.
This directory holds TLA+ models of the parts where steps of several actors,
failures and restarts meet, the TLC configurations that check them, and TLAPS
proofs of the most important results.

Line numbers in comments are those of the file the module is about.

## Inventory

| Part | State | Operations | What is hard | What makes it correct |
|---|---|---|---|---|
| Retry queue (`lib/webhook-retry-queue.ts`) | persisted jobs with attempt count, due time, lease; requests awaited in memory | `schedule`, `runTick` (claim), result of an attempt | overlapping ticks, late results, lease against timeout, death between claim and result | a claim is exclusive; caps per host; attempts are bounded; every job is settled |
| Dead-letter queue (`lib/webhook-dlq.ts`) | persisted entries with rounds and status; in-flight set; drains and replays awaited in memory | `add`, `evict`, `drain`, `replay`, `replayBatch`, `sweep` | stale copies written after an await, rounds counted at the end of a drain, lost answers | no entry leaves but delivered, taken over, or with a file that a death tore; one replay at a time; parked after its rounds |
| Recovery tick, manual retry (`lib/webhook-recovery.ts`, `api/webhooks`) | both queues, three files, the dashboard's history | `runTick`, POST retry, the report into the history | two writes that are not one; reports from two listings; a file rewritten in place | no delivery lost but what a death can take; what is shown as delivered was received |
| Delivery worker (`lib/webhook-delivery-worker.ts`) | in-memory and stored queue | `enqueue`, `start`, `stop`, `processQueue` | removal before delivery, restart | a failed delivery is handed over |
| Hash ring, coverage (`worker_partition.rs`) | normalised list of covered slot ranges | `mark_range`, `mark_slots`, `union`, `uncovered_within`, `ring_range_for` | off-by-one at touching ends; remainders | the list is the set; each slot has one owner |
| Lease ledger (`worker_partition.rs`) | leases, generation counter | `claim`, `renew`, `validate_write` | paused workers, reclaimed ranges, exhausted counters | one writer per slot; fencing is final |
| Drivers, checkpoint (`run_control.rs`, `checkpoint.rs`) | loop index, checkpoint by reference, cancel signal | the `drive_run*` functions | cancellation, failure and death in the middle of a slot; resizes | nothing twice, nothing left out |
| Command line (`bin/crashlab.rs`) | `checkpoint.json`, cancel marker, counters | `run start [--resume]`, `run cancel` | snapshots beside the driver's own checkpoint; shared run directory | the checkpoint is never ahead of the work |
| Schedule ticks (`lib/cron`, `api/schedules`) | schedules, history, ledger in memory; lock | tick, create, edit, delete | overlapping and late ticks, an edit that writes back what it read, closed windows, restarts | a slot fires once, a due slot fires; ledger and history agree; `nextRun` skips nothing |
| Admission (`lib/capacity`, `api/campaigns`, `api/capacity`) | usage leases, storage, registry | POST campaign, POST usage | check and reservation around an await; ids that the body brings; reports late and out of order | a check that nothing overtook is kept; no report reopens what is finished |
| Idempotency store (`lib/storage/idempotency-store.ts`) | records with an expiry, in memory or in a KV store | `get`, `putIfAbsent` | races for a key; expiry between two commands | one campaign for one key |
| Replay jobs (`lib/replay`, `api/runs/[id]/replay`, `api/replay-jobs`) | bounded job store, event streams | POST replay, GET job, GET stream | streams that break, jobs pruned under a stream, handlers that fail half way | nothing missed or repeated; every stream ends |

The rest of the repository (triage, audit chain, alerts, migrations, tenancy,
the mutators and shrinkers, the example contract, the user interface) is listed
in `PROJECT.json` with the reason why it is not modelled.

How the parts interact: the delivery worker and the manual retry call
`schedule`; the recovery endpoint calls the retry queue's `runTick`, which hands
exhausted deliveries to the dead-letter queue through `onDeadLetter`, and then
`drain`, and writes the result of both into the history the dashboard shows. The
campaigns route derives a request, checks it against the ledger, wins or loses the
idempotency key and reserves a lease; runners report to the same ledger. The tick
route takes a lock, looks into the history, applies misfire policies and evaluates
all schedules. A replay route drives a job that stream handlers poll. The command
line calls a driver with a closure that executes one seed and saves a snapshot; the
drivers advance a checkpoint by reference; the leased driver also goes through the
lease ledger, which is stored in the coverage map.

## Modules

| Module | Models | Composes |
|---|---|---|
| `RetryBackoff` | `retry-backoff.ts`, as the set of possible delays | |
| `WebhookRetryQueue` | the retry queue and its callers | `RetryBackoff` |
| `WebhookDlq` | the dead-letter queue as the recovery tick drives it | `RetryBackoff` |
| `DeliveryContract` | what the webhook pipeline promises (abstract) | |
| `WebhookRecovery` | worker, recovery passes, manual retry and history over the stores; implements `DeliveryContract` | `WebhookRetryQueue`, `WebhookDlq` |
| `CronExpression` | `parser.ts`, `next-run.ts`, and a reference definition | |
| `CronScheduler` | the schedule routes and the tick | `CronExpression` |
| `CapacityQuota` | `quotas.ts`, `campaign-admission.ts` | |
| `CampaignAdmission` | campaigns and usage routes, ledger, registry, idempotency store | `CapacityQuota` |
| `ReplayJobs` | replay route, job store, streams | |
| `HashRing` | ranges and the division of the ring | |
| `RingCoverage` | the range list beside a set of slots | `HashRing` |
| `LeaseLedger` | the lease ledger and the writes it guards | `HashRing` |
| `RunControl` | three drivers, one loop iteration per action | `HashRing` |
| `PartitionedRun` | library callers that resume one checkpoint with changing pools | `RunControl` |
| `CampaignCli` | `crashlab run start`, `--resume` and `run cancel` | `RunControl` |
| `*_proofs` | theorems and proofs about the modules they extend; `PartitionedRun_proofs` also those about `HashRing` and `RingCoverage`, `Routes_proofs` those about `CronExpression`, `CronScheduler` and `ReplayJobs` | |
| `MC*` | constants for TLC | |

**WebhookRetryQueue.** `jobs` is the stored list, one job per delivery;
`attempts` holds the `deliver()` promises, each with the copy of the job its tick
claimed. `RunTick` is the synchronous part of `runTick` (claim and save);
`AttemptDelivered`, `AttemptRetryScheduled` and `AttemptDeadLettered` are the
code after the await and act on whatever the list holds by then. Times are kept
as time left, so the clock needs no bound. Due jobs are not ordered by how long
they have been due: a tick may claim any set the caps allow, provided a due job
is left out only because a cap is reached, which includes the order of the code.

**WebhookDlq.** A drain selects entries, replays them in slices, and afterwards
parks or delays what failed. A replay keeps the copy of the entry it read before
its await; `WriteBack` writes that copy. All calls run on one event loop:
`EventLoopFree` in the guards of external events says that a drain whose slice
has settled goes on before the next event. `accepted` is the receivers' log; a
failed replay may have been accepted, its answer being lost. `Die` is what a death
does to memory and to the requests on their way; `Crash` is a death that leaves the
file, `CrashInSave` one that tears it, after which `readJson` returns an empty list
(`Crash` of the retry queue's module has both). The module has one process; several
server instances over one file are not modelled.

**WebhookRecovery.** Instantiates both queue modules and adds what is around them:
the worker's stored queue, the phase, first listing and outcomes of each pass, and
the history. Steps of the queues are their own actions with the surrounding code
conjoined, so the composition cannot drift from the parts. `RetryDeadLettered`
removes the job and adds the dead letter. A death may come between any two steps
(`Crash`), while a call that rewrites a file is at it (`CrashInSave`, with `Saving`
for which calls those are), and between or during the two writes of a hand-over and
of a manual retry (`CrashInHandOver`, `CrashInManualRetry`). `Reported` is
`applyRecoveryResult` on the difference of two listings. A worker that has a retry
queue sends one request and hands over; the inline loop of a worker without one is
left out.

`DeliveryContract` has six variables: what each of the three files holds, what the
worker has in hand, what was received, and the number of deaths. A delivery that is
held stays held in some place or is received; nothing is received that was not held.
A death loses what is in hand, at most one delivery that was on its way from one file
to the other, and at most one whole file, the one being rewritten. It can lose nothing
else, so the contract tells a death that costs one file from one that costs two.
`SurvivesRestart` is what `webhook-store.ts` 12-14 says instead; it is violated by
each of the three losses and has a run of its own.

**CronExpression.** A field is a set of terms, as parsing leaves them; the calendar
is a constant, so that months of different lengths are present; all that is assumed
of it is that hours and days are not empty and that a month begins with its day 1,
which is where a jump to the next month lands. `nextRun` jumps as the code does;
`Slots` says directly which minutes an expression names.

**CronScheduler.** Times are minutes. One tick is `Arrive` (body read), the lock,
`Evaluate` (history check, misfire policies, evaluation, ledger, one assignment of
the state) and `Release`, with awaits between. An edit keeps the state it read
before the await of its body and writes it back. `Redis` chooses the lock that works; the
driver-based one never writes, so it is the same as none. `fired` counts executions
of a slot and `rollbacks` the restarts and edits that brought back an older state.
Overlap and catch-up policies are stored and displayed but no code of the route
reads them; ticks that name a future time are left out.

**CapacityQuota, CampaignAdmission.** One step of a handler is the code between two
awaits; `now` is what the handler took before its checks. `kv` chooses the store:
with the KV store `putIfAbsent` is two commands and the record may expire in
between. A campaign is known to the records by its request and to the ledger, the
registry and the audit log by its id (`campaignId`): the one the request generates,
or the one its body brings, since `...payload` is spread after it. `Created`
overwrites the lease of an id that is there already, as `leases.set` does. `stale`
marks a handler whose check was overtaken by another admission or by a report that
raised a charge, and `unchecked` a campaign let in by an override or on a stale
check, or whose charge a report raised, a lapsed lease that it renewed included.
`QuotaKept` is about the other campaigns only: it says that a check nothing overtook
is not undone by the wait for the store, by days that end or by pruning. It does not
exclude the race of two checks, which the code has: the excess is what the overtaken
campaigns charge. A sum over leases
(`Total`) is the number of units the leases hold together. One scope (project) is modelled,
since quotas of different scopes do not meet. An id in a body is taken to be a string
that is not blank, and a date in it to parse.

**ReplayJobs.** A job has the set of its events' numbers, the progress of the last
one, a status and an age; the
store drops jobs by age and by number, also running ones. A client keeps how many
frames it received and the last number it saw; connections break at any event.
A client outside `Resuming` starts again from nothing, as the page does. The
runner may end in every way, or hang: it has no timeout.

**HashRing, RingCoverage.** The splitmix finalizer of `ring_slot` is an arbitrary
function from seeds to slots, a constant. `RingCoverage` runs every operation of
the range list beside the same operation on a set. Each loop over the list is a
function of how many elements were visited, and the stable sort puts each range at
the place its start gives it. All other modules use the set,
which `CoverageExact` and `UncoveredExact` justify.

**LeaseLedger.** `u64` values are words up to `U64Max`; additions saturate and
generations are checked as in the code, so TLC reaches the limits. `tokens` are
all tokens ever handed out, since a worker that was replaced still has its token.
Any claim with any range is possible, as ranges are cut differently by different
pools.

**RunControl.** `run[p]` holds a driver's local variables (loop index, pending
and completed slots), `checkpoint[p]` the checkpoint it advances. `Pass`, `Work`,
`Fail` and `Stop` are the ways an iteration ends; `is_cancelled` is a guard of
each. `drive_run`, `drive_run_partitioned` and `drive_run_with_health` are one
driver, `"plain"`, with the set of owned slots.

**PartitionedRun.** The use of the API that its tests and comments describe:
load, call with a new cancel signal, save, each worker after the other on one
checkpoint, with another number of workers at any time. A process may die at any
point, also when a seed was executed and not yet recorded.

**CampaignCli.** A checkpoint file holds the worker (part of the campaign id) and
an index; its coverage is always empty, as `snapshot_checkpoint` writes it. The
`work` closure counts the index beside the driver, spends the budget and saves
every `CheckpointInterval` seeds. All workers of a run id share one file and one
cancel marker, and the default run id is 1 for all of them. Writing is one step:
the file is replaced by a rename. Seed quota and progress output are left out.

## Runs

Passing runs:

| Run | Shows |
|---|---|
| `WebhookRetryQueue` | Two overlapping ticks, three deliveries on two hosts, two deaths, timeout below the lease: every request still owns its job, the cap holds for requests, the budget is overrun only by deaths, and every scheduled retry is settled. |
| `WebhookDlqOverlap` | Two drains and a death: one replay per entry; an entry leaves only delivered, taken over by a manual retry, or with the whole list when the death tears its save; spent entries end up parked; no exhausted delivery stays pending for ever. |
| `WebhookRecovery` | Worker, passes, manual retries and a death at any point: the pipeline implements `DeliveryContract` (`KeepsContract`); a delivery shown as delivered was received, unless a manual retry took its dead letter away during a drain; whatever waits for a retry or a drain is settled. |
| `CronScheduler` | A slot fires once, plus once for every rollback; ledger and history agree; `nextRun` is exact; a due slot does not stay due. |
| `CampaignAdmission` | The records of a key live one after the other; the campaigns let in on a check that nothing overtook keep the share of their class; nothing refuses a campaign between its record and its lease; no report, late or repeated, reopens a finished campaign, and only an admission under the same id replaces its lease. |
| `ReplayJobs` | A resuming client has every event once; "done" comes after all events; a job that is not over has a handler, unless the bundle could not be written; every stream ends, also when the runner hangs. |
| `LeaseLedger` | Disjoint leases, one writer, final fencing, ordered writes. |
| `PartitionedRun` | Campaigns: coverage is never claimed too early; nothing twice but for deaths; no holes. The coverage map they keep: normal form, exactness, gaps, and exactly one worker left for each uncovered slot. |
| `CampaignCli` | One worker: checkpoint behind the work, bounded loss, no repetition without a fault. One worker, or two that overwrite one file: completion means complete. |

Runs that show a disagreement between the code and what the repository says of
it, each with its quotation in `PROJECT.json`:

| Run | What happens |
|---|---|
| `CronSchedulerSkip` | A schedule with misfire policy `skip` never fires: the policy moves the anchor past the slot that is due right now, not only past missed ones. |
| `CampaignCliResize` | Two workers resumed as one: the other worker's seeds are never executed, and the run completes. |
| `WebhookRestart` | A delivery is queued, the process dies while it rewrites the file to queue another one, and both are gone (`webhook-store.ts` 434-437 and 429-431 against 12-14). |

Consequences of the code that no run is about, found while modelling. Where a
property would be false because of one, the property says so or is restricted.

Webhooks:

- `runTick` compares no attempt with the budget (`webhook-retry-queue.ts` 281): a
  death on the last attempt grants one more, against the header (18-19).
  `OverrunBoundedByCrashes` is what holds.
- A failed replay saves the copy it read (`webhook-dlq.ts` 332) and overwrites an
  entry that was dead-lettered afresh after a manual retry, against
  `retry/route.ts` 39-40.
- The replay key contains the number of replays (`webhook-dlq.ts` 300): a replay
  whose answer was lost is sent again under another key, against
  `webhook-recovery.ts` 74-75.
- Rounds are compared with `parkAfterRounds` when a whole drain has returned
  (`webhook-dlq.ts` 391), and `replay` does not look at the status again (297), so
  overlapping drains exceed the limit and replay parked entries.
  `RoundsBoundedByCrashes` and `ParkedNeverDrained` are proved for one drain at a
  time.
- An entry that a manual retry evicts during a drain is reported as drained, hence
  delivered (`webhook-recovery.ts` 97-106).
- `api/webhooks/recovery/route.ts` 11 says that every schedule tick runs a pass;
  the tick route does not call it.

Schedules: the driver-based cron lock never writes anything, so it refuses no one;
`_store.ts` 16-17 names a lease guard that nothing uses. The history check is what
prevents double firing.

Admission:

- A keyed request and an override are checked before an await and charged after it
  (`api/campaigns/route.ts` 105-158). Two deep campaigns with different keys can both
  be checked before either is charged, and together take the headroom that
  `docs/ops/capacity.md` 26-28 says deep campaigns leave free. `QuotaKept` does not
  count a campaign whose check was overtaken.
- `...payload` is spread after the generated id (129), so a body may bring the id of
  another campaign; both are answered with 201 and the second lease replaces the first
  (`usage-ledger.ts` 132), against 124-125. When the first was finished, its workers are
  held again and its counters start from zero. `FinishedForGood` excepts that admission.
- A late heartbeat revives a lapsed lease, whose charge nothing checks again.
- The KV store returns a record it did not store when the winner's record expires
  between `SET NX` and `GET` (`idempotency-store.ts` 133 against 35-36).
- `IDEMPOTENCY_IN_FLIGHT` (`api/campaigns/route.ts` 55) is never returned.
- Override events of the audit log are in memory and lost in a restart.

Replay jobs:

- If the bundle cannot be written, the job stays running until it is pruned
  (`replay/route.ts` 534, 640-643); the runner process has no timeout; age and
  number limits drop running jobs too.
- The page opens its stream without `after` (`ReplayJobLive.tsx` 24), so after a
  reconnection its progress starts again.

Campaigns:

- The cancel marker of a run is never cleared (`run_control.rs` 157), so a resumed
  run is cancelled again, against `RUN_LIFECYCLE.md` 152-153.
- A partitioned resume walks the schedule from the start and sets
  `next_seed_index` on the way (`run_control.rs` 489): when it is cancelled early,
  the saved index is smaller than the loaded one.
- `snapshot_checkpoint` writes an empty coverage (`crashlab.rs` 1334), so a worker
  of a pool that is resumed executes its whole partition again.
  `CompletedNotReexecuted` is therefore stated for one worker.

### Bounds

Two ticks or drains are enough for every pairwise overlap; a third delivery or
entry lets a cap of one or two be contended for while another host is free.
Budgets of one and three, and two rounds, reach both the first and the
last attempt and a backoff that is capped.
`MaxSchedules`, `MaxAdds`, `MaxCrashes` and `MaxLostWrites` bound how often the
environment acts, so that the state space is finite; each is larger than the
number the property at hand needs to be violated by its mutant. The ring has
three slots in `LeaseLedger` and `CampaignCli`, so that slots are shared by several
seeds, and five in `PartitionedRun`: every second slot has seeds, one slot has two of
them, and pools of two and three cut the ring unevenly and at different places. On the
same ring every range and every set of slots is marked in two maps, so that a map has
up to three ranges with gaps between them; the maps and the campaigns share no state,
and a behaviour of the run is about one of them. `MaxExecutions` stops counting
executions of a seed. In `PartitionedRun` it lies above the bound `1 + crashes`; in
`CampaignCli` it lies above `1 + crashes + lostWrites` as long as only one of the
two faults happened. `CampaignCli` runs budgets of two and five for four seeds,
so that the budget ends in the middle of a run, after it, or never. A word of the
ledger ends at 3, so generations, expiries and counters all reach it.

`WebhookRecovery` chooses its load in the initial state (`Loads`): one delivery, two
overlapping passes, two scheduled jobs and a death; or two deliveries and one pass,
with a scheduled job, so that a drain has two slices, or with a death, which then
finds deliveries in two files. The parts are checked with more deliveries in their own
runs. `CronScheduler` has one schedule (schedules do not interact except through edits
that write back all of them), two callers, one editor, three minutes and one rollback;
its calendar has months of two days and one day, so that every kind of jump happens.
`CampaignAdmission` has three requests, which are interchangeable (symmetry), one key,
limits that two of them exceed, and two days of two instants; keys and leases live one
instant, so that each may expire between any two steps. One id beside the requests'
own may come in a body, with a date. `ReplayJobs` has two posts, a store for one job,
a client that resumes and one that does not, two connections each. No handler of the
code appends more than a handful of events to a job, so the cap of the log (200 in the
code, 6 in the run) does not bite; `ResumeExact` depends on that.

### Fairness

`FairSpec` of the queues: the recovery endpoint is called again and again
(by the dashboard's worker, `api/webhooks/recovery/route.ts`), so
`RunTick` and `StartDrain` are weakly fair; every request is answered or ended by
its abort timer, so settling is weakly fair; settled promises are resumed by the
event loop; time passes. Nothing is assumed about which outcome a request has,
about operators, or about deaths. `WebhookRecovery` makes the same assumptions
about the composition. `CronScheduler`: the cron service keeps calling with the
current time and calls are handled (the route exists for an external cron
service, `CRASHLAB_CRON_SECRET`); operators and editors need not act.
`ReplayJobs`: only the poll timer of an open stream and time itself are fair; a
runner may hang for ever.

## Proofs

All theorems hold for every value of the constants under the named assumptions
(finite sets of deliveries and entries, positive caps, and so on).

**WebhookRetryQueue_proofs.** `TypeCorrect`. `LeaseOwnership` and
`NoConcurrentDuplicate` assume `TimelyDelivery` (the timeout is below the lease);
the inductive invariant `Ownership` says that a request in flight has exactly the
lease left that it has not used, which is why no tick can claim its job.
`TargetCapHolds` follows from `LeasesWithinCap`, which holds for any timing, by
mapping requests to the jobs they own. `OverrunBound` assumes `TimelyDelivery` too,
without which it is false, and needs `BudgetInv`: a pending job has an attempt left,
and a claimed job with no request behind it lost it in a death.

**WebhookDlq_proofs.** `TypeCorrect`; `ReplayLock` and `DeadLettersKept` for any
number of overlapping drains. `DeadLettersKept` is an action property: each step is
looked at, and an entry is dropped only by an accepted replay, by an eviction, or with
all others by a death in the middle of a save (a write of a stale copy brings an entry
back rather than losing it). `SpentParked` from `SpentInv` (as long as a spent entry is
pending, some active drain that saw it fail still has its parking pass to come).
`RoundsBound` and `ParkedLeftAlone` assume `SoleDrain`; `SoleDrainInv` says that an id is in
one place of a drain only and that a spent entry failed in this drain or in one
that died. Without `SoleDrain` both are false, as said above.

**LeaseLedger_proofs.** `TypeCorrect`, `DisjointLeases`, `OneWriter`, `Fenced`,
`OrderedWrites`, from `FencingInv`: generations identify tokens, every lease
belongs to a token, and no slot was written by a generation newer than the lease
that covers it.

**PartitionedRun_proofs.** `EverySlotOwned` and `OneOwner`: `ring_range_for`
divides every ring among any number of workers, by arithmetic with quotient and
remainder. `TypeCorrect`, `SoundCoverage`, `NothingTwice` and `NothingLeftOut` for
every schedule, every assignment of seeds to slots and all pool sizes, from the
conjunction of four invariants of `PartitionedRun`. `CallInv`: there is one call
at a time, for the worker it was made for (`TypeOK` alone is not inductive, as
only a call in progress is known to have a worker). `SweepInv`: recorded seeds
are executed, a slot counts as swept only when the loop is past all its seeds,
and every pending seed the loop has passed is recorded; this is what makes
covered slots fully executed at every exit. `OnceInv`: an execution that the
current checkpoint does not record was paid for by a death. `DoneInv`: what a
worker owns is pending or covered, so at the end of the schedule it is executed.
`NothingLeftOut` combines `DoneInv` with `EverySlotOwned`. `RangesAgreeWithOwners`:
the two computations of an owner, from a worker to its range and from a slot to its
worker, agree.

The coverage map: `ListsStayNormalised`, `ListsCoverExactly`, `GapsAreExact` and
`OneWorkerForEachSlot` for every ring, any number of maps and every sequence of marks
and merges; normal form and exactness are inductive only together (`CoverageInv`).
Each loop has an invariant of its own. `Swallowed` (`mark_range`): what was put
aside is apart from the growing range and ends before every range still to come, so
that it stays apart although it is looked at once. `MarkedBelow` (`mark_slots`): the
slots below the one visited are marked, but for those of the run that goes on.
`Passed` (`uncovered_within`): below the cursor the gaps are known, and no range that
was visited reaches past it. `SortPlaces` and `SortApart` show that the sort puts the
merged range between its neighbours. `ResumeLeavesNobodyOut` states
`OneWorkerForEachSlot` for pools of any size.

**WebhookRecovery_proofs.** `Refinement`: the composition implements
`DeliveryContract`. Every step of the pipeline is shown to hold on to what was held,
to have it received, or to count as a death. What a death leaves of the three files is
summarised once for its four actions (`FilesLeft`) and then matched with the one
delivery (`Movings`) and the one file (`Torns`) that the contract lets go. That needs
`InFlightAccounted` (`SentIsAccounted`): a request on its way, of a retry or of a
replay, is for a delivery that some store holds or that was received; otherwise an
answer that comes after a manual retry could make the contract receive what it does
not hold. `TypeCorrect` takes both queues' types through the composition.
`ShownIsReceived` needs `ListingInv`: what a pass saw in its first listing is still
there, was received, or was evicted, so a difference of two listings is evidence of
receipt. The assumptions are those of the two queues, and that `NoJob` and `NoEntry`
are not themselves a job or an entry.

**CampaignAdmission_proofs.** `TypeCorrect` with `HandlerInv` (`HandlersKnow`): the
type of a lease depends on the body having been validated steps before.
`RetriesAreSafe` for any number of racing requests and for both stores, from
`RecordInv` (`RecordsAreWon`): every record was won and expires exactly `KeyTtl`
later, and a stored win that is not over still has a record in front of later
requests. Its last clause is about the KV store: `putIfAbsent`, between its two
commands, still finds some record of the key or an expired one, never none.
`ReplaysAreAdmitted` from `WinnerInv` (`WinnersAreAdmitted`).
`FinishedStaysFinished` is an action property: every write of a lease is looked at,
and an admission writes only the lease of its own id (`AdmittedAs`), which the property
excepts. `QuotasHold` from `CheckInv` (`ChecksKeep`): a check that nothing made stale
still passes when its campaign is charged, since between the two time and reports only
release what it counted. It says nothing of the campaigns in `unchecked`; with them the
bound is false, as said above. The
lemmas about `Total` (adding a campaign adds its charge; smaller charges have a
smaller sum) come from cardinalities. `CapacityQuota` bounds each
count of a body (`MaxWorkers`, `MaxCount`), as `readCount` does; without the bounds
the ledger would not be typed.

**CampaignCli_proofs.** `TypeCorrect` with `LaunchInv` (`LaunchedForAPool`): what a
process sweeps and which driver it runs goes by the pool it was launched for. The
single-worker results `CheckpointNeverAhead`, `CompletedSeedsStay` and
`DeathCostsAnInterval` follow from `SoloInv` (`SoloStands`). It relates three
indices that the code keeps apart: the driver's loop variable, the closure's
`next_seed_index`, and the one in the file. They agree only within the budget, since
a closure that has none left returns without counting. `CompletedWithoutSwitch`
follows from `SweepInv` (`NothingLeftBehind`): as long as one worker and several do
not follow each other, a snapshot, whoever wrote it, makes no driver skip a seed.

**Routes_proofs.** `EditsHoldStates` proves the types together with `EditInv`
and `LedgerMatchesHistory`: none is inductive alone, since an edit writes back a
whole state, so that state has to have been a good one when it was read, and to
contain the schedule that is patched. `RefiresAreRollbacks` follows from `KnownInv`
and `FiredInv` (`SlotsAreCounted`). The bound on `fired` alone is not kept by a
tick; what is kept is that a slot without a run in the history was executed no more
often than there were rollbacks, if its schedule is there or is yet to be created.
The slots of a deleted schedule are an exception, which is harmless because an id is
never handed out again. The steps are first summarised by what they do to the state
(`Settles`, `Fires`, `Creates`, `Deletes`, `WritesBack`, `Forgets`). The theorems
hold for any calendar and any expressions: of `DueTicks` they use only that it is a
set of minutes, whose maximum exists (`LastMinute`, by well-founded minimum).

`JumpSearchIsExact` is about `nextRun` alone, for every expression and calendar: a
round of the search either stops at a minute the expression names or jumps over
minutes none of which it names, to a later one (`SearchRound`), so by taking the
last minute for which the search could be wrong there is none. `SchedulesRunExactly`
applies it to the sources of the schedules.

Replay jobs: `RunningJobsAttended`, `DoneFramesComplete` and `ResumesExactly` follow
from `ReplaysKeep`, which proves them together with `JobInv` (the log of a job is
`1 .. n` with `n` at most 5, so it is never trimmed, and a handler at work finds its
job running if it is stored) and `StreamInv` (the server's cursor is where the client
is, and no further than the job). `ReplayAssumption` has the cap of the log at 5 or
more; it is 200 in the code. `JobsNeverGoBack` is an action property: each step is
summarised by what it does to one job (`Moved`) or to the store (`Stored`), and under
both a job only `Grows`.

Induction. The library's induction theorems take an operator and cannot be used with
the installed provers. The proofs that need induction do it over a set: the numbers
for which a statement fails, if there are any, have a least one (well-foundedness of
`<`), whose predecessor gives the contradiction (`LeastNumber`, `UpTo`). In the same
way `Recursion` shows that a function defined by recursion up to a number exists, which
is what unfolds the recursive functions of the models.

The auxiliary invariants named above were checked with TLC on the constants of the
runs before they were proved.

Checked by TLC only: liveness (`RetrySettles`, `EntrySettles`, `Recovers`,
`DueSlotsSettle`, `StreamEnds`), which needs fairness, and the three runs that show a
disagreement. All but the last say that nothing waits for ever; that it was not
dropped instead is for the safety properties to say. Every safety property of a passing
run is a theorem.

## Not modelled

- `sweep()` of the dead-letter queue and the operator's replay batches: the dashboard
  calls both on a queue of its own in the browser
  (`DeadLetterQueueComponent.tsx` 67, 73), the server calls neither.
- Several server instances over one file: the queue's locks are in one process, and
  two processes would share nothing that a model could examine.
- The leased driver (`run_control.rs`, from 560) over `LeaseLedger`: planned below.
- Audit chain, alerts, migrations, tenancy, triage, rate limits, webhook settings:
  input and output, stateless checks, or tables that a model would repeat.
- Mutators, shrinker, corpus and seed scheduler: sequential transformations of data
  that TLC cannot enumerate. User interface, deployment and example contract.

Simplifications inside the modules, none of which a property depends on unless said:

- `LeaseLedger` has one clock that only goes forward. The code takes `now_ms` with every
  call (`worker_partition.rs` 278, 329, 349), and its only caller keeps the clock of
  its start (`run_control.rs` 611, 638). `FencedForever` depends on it: a caller whose
  clock is behind accepts again a token that expired and was not yet reclaimed. The
  other properties of the ledger hold whatever time a call brings.
- `CampaignCli` writes the checkpoint in one step, though the workers of a run id share
  one `checkpoint.json.tmp` (`crashlab.rs` 1351-1353), so that concurrent writers can
  fail or rename each other's file. `Cancel` waits for a worker that was started; the
  marker may exist before (1471). The seed quota (1483-1500) stops a run as a smaller
  budget does: read `budget` as the smaller of the two.
- `CronScheduler` and `CronExpression` leave out the caps on the number of slots
  (`tick-evaluator.ts` 61, 91; `ledger.ts` 52, 80) and the error after too many rounds
  of the search (`next-run.ts` 60), for which the end of the calendar stands. Schedule
  ids are never handed out twice, although `sched-${Date.now()}`
  (`api/schedules/route.ts` 72) repeats within a millisecond.

## Plan

Done: the queues and their composition with the delivery contract; schedules;
admission with the idempotency store; replay jobs; the ring, the ledger, the drivers
and the command line; proofs of all safety properties.

Next, in this order:

1. `LeasedRun`: `drive_run_partitioned_with_lease_from_checkpoint` over
   `LeaseLedger` and `RunControl`, with workers that have their own copies of the
   checkpoint.
2. Rotation of signing secrets, and the order of retention and bundle writes.

## Running

`tlc -config X.cfg M` for a run of `PROJECT.json` (module `M`, configuration
`X.cfg`), `tlapm M.tla` for the proofs of a module `M` whose name ends in `_proofs`.
