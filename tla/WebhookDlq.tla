----------------------------- MODULE WebhookDlq -----------------------------
(***************************************************************************)
(* The webhook dead-letter queue, lib/webhook-dlq.ts, as the recovery tick *)
(* drives it.                                                              *)
(*                                                                         *)
(* `entries' is the persisted list; `drains' and `replays' are the drain() *)
(* and replay() calls that a process is executing.  A replay keeps the     *)
(* copy of the entry that it read before its await.  The calls run on one  *)
(* event loop: when the promises a drain waits for have settled, it goes   *)
(* on before any other event is handled, so an action for an event waits   *)
(* until no drain is Resumable.                                            *)
(*                                                                         *)
(* nextDrainAt is kept as `wait', the time that is left until it.          *)
(***************************************************************************)
EXTENDS Integers, FiniteSets, RetryBackoff

CONSTANTS
  Entries,             \* dead-letter ids, one per delivery
  Hosts,               \* receiver hosts
  HostOf,              \* the receiver host of each entry's endpoint
  Drains,              \* drain() calls that may overlap
  Concurrency,         \* DLQ_REPLAY_CONCURRENCY
  PerTarget,           \* DLQ_DRAIN_PER_TARGET
  MaxEntries,          \* DLQ_DRAIN_MAX_PER_TICK
  ParkAfterRounds,     \* DLQ_PARK_AFTER_ROUNDS
  DrainBackoffBase,
  DrainBackoffMax,
  MaxAdds,             \* bound: how often one delivery is dead-lettered
  MaxCrashes,          \* bound: process deaths
  NoEntry              \* no entry with this id in the list

ASSUME DlqAssumption ==
  /\ IsFiniteSet(Entries)
  /\ HostOf \in [Entries -> Hosts]
  /\ Concurrency \in Nat \ {0}
  /\ PerTarget \in Nat \ {0}
  /\ MaxEntries \in Nat \ {0}
  /\ ParkAfterRounds \in Nat \ {0}
  /\ DrainBackoffBase \in Nat
  /\ DrainBackoffMax \in Nat
  /\ MaxAdds \in Nat
  /\ MaxCrashes \in Nat

VARIABLES
  entries,    \* the persisted dead letters, by id
  drains,     \* per drain() call: what it has still to replay, what failed
  replays,    \* replay() calls awaiting their delivery
  accepted,   \* the receivers' log: which replay keys they accepted
  adds,       \* counts dead-letterings of each delivery, up to MaxAdds
  evicted,    \* entries a manual retry evicted; bound: each one once
  crashes     \* counts process deaths, up to MaxCrashes

vars == <<entries, drains, replays, accepted, adds, evicted, crashes>>

----------------------------------------------------------------------------

(* `timeline' is the dead-lettering whose error timeline the entry holds;  *)
(* every failed replay appends one note to it, as replayAttempts counts.   *)
Entry == [reason         : {"retries-exhausted", "non-retryable"},
          status         : {"pending", "parked"},
          wait           : 0 .. DrainBackoffMax,
          replayAttempts : Nat,
          timeline       : 1 .. MaxAdds]

Drain == [active : BOOLEAN, todo : SUBSET Entries, failed : SUBSET Entries]

Replay == [drain : Drains, id : Entries, entry : Entry]

(* NoEntry is not an entry; it stands for the absence of one. *)
ASSUME NoEntryAssumption == NoEntry \notin Entry

Idle == [active |-> FALSE, todo |-> {}, failed |-> {}]

TypeOK ==
  /\ entries \in [Entries -> Entry \cup {NoEntry}]
  /\ drains \in [Drains -> Drain]
  /\ replays \subseteq Replay
  /\ accepted \subseteq Entries \X Nat
  /\ adds \in [Entries -> 0 .. MaxAdds]
  /\ evicted \subseteq Entries
  /\ crashes \in 0 .. MaxCrashes

Init ==
  /\ entries = [d \in Entries |-> NoEntry]
  /\ drains = [k \in Drains |-> Idle]
  /\ replays = {}
  /\ accepted = {}
  /\ adds = [d \in Entries |-> 0]
  /\ evicted = {}
  /\ crashes = 0

----------------------------------------------------------------------------

Present(d) == entries[d] # NoEntry

(* The idempotency lock: ids with a replay in flight. *)
inFlight == {r.id : r \in replays}

deriveReplayKey(r) == <<r.id, r.entry.replayAttempts + 1>>

(* A drain whose current batch has settled goes on at once. *)
Resumable(k) == drains[k].active /\ \A r \in replays : r.drain # k

EventLoopFree == \A k \in Drains : ~Resumable(k)

(* Mutant: nextDrainAt takes an entry out of the drain for good. *)
isDueUndrained(d) ==
  /\ Present(d)
  /\ entries[d].status = "pending"
  /\ entries[d].reason = "retries-exhausted"
  /\ d \notin inFlight
  /\ entries[d].replayAttempts = 0

isDue(d) ==
  /\ Present(d)
  /\ entries[d].status = "pending"
  /\ entries[d].reason = "retries-exhausted"
  /\ d \notin inFlight
  /\ entries[d].wait = 0

(* drain() walks the due entries, oldest first, up to the caps.  Overdue   *)
(* entries are not told apart by age, so any order is possible: a due      *)
(* entry is passed over only because its host or the drain is full.        *)
OnHost(ids, host) == {d \in ids : HostOf[d] = host}

Selectable(selected) ==
  /\ selected # {}
  /\ \A d \in selected : isDue(d)
  /\ Cardinality(selected) <= MaxEntries
  /\ \A host \in Hosts : Cardinality(OnHost(selected, host)) <= PerTarget
  /\ \A d \in Entries \ selected :
       isDue(d) => \/ Cardinality(OnHost(selected, HostOf[d])) = PerTarget
                   \/ Cardinality(selected) = MaxEntries

(* replayBatch runs the selected ids in slices of `Concurrency'.  replay() *)
(* turns a locked or a missing id away; nothing else is looked at again.   *)
Slices(todo) ==
  {slice \in SUBSET todo :
     Cardinality(slice) = IF Cardinality(todo) <= Concurrency
                            THEN Cardinality(todo) ELSE Concurrency}

(* Mutant: the lock is taken but not looked at. *)
replayUnlocked(k, slice) ==
  {[drain |-> k, id |-> d, entry |-> entries[d]] : d \in {e \in slice : Present(e)}}

replay(k, slice) ==
  {[drain |-> k, id |-> d, entry |-> entries[d]] :
     d \in {e \in slice : Present(e) /\ e \notin inFlight}}

(* Mutant: the results of the earlier slices are overwritten. *)
BeginSliceForgetful(k, todo, failed) ==
  \E slice \in Slices(todo) :
    /\ replays' = replays \cup replay(k, slice)
    /\ drains' = [drains EXCEPT ![k] =
         [active |-> TRUE, todo |-> todo \ slice, failed |-> {}]]

BeginSlice(k, todo, failed) ==
  \E slice \in Slices(todo) :
    /\ replays' = replays \cup replay(k, slice)
    /\ drains' = [drains EXCEPT ![k] =
         [active |-> TRUE, todo |-> todo \ slice, failed |-> failed]]

----------------------------------------------------------------------------
(* Operations. *)

(* add(): the retry queue hands over a delivery; an entry that is still    *)
(* there for it is replaced.                                               *)
Add(d, reason) ==
  /\ EventLoopFree
  /\ adds[d] < MaxAdds
  /\ adds' = [adds EXCEPT ![d] = @ + 1]
  /\ entries' = [entries EXCEPT ![d] =
       [reason |-> reason, status |-> "pending", wait |-> 0,
        replayAttempts |-> 0, timeline |-> adds[d] + 1]]
  /\ UNCHANGED <<drains, replays, accepted, evicted, crashes>>

(* evict(), from the manual retry route. *)
Evict(d) ==
  /\ EventLoopFree
  /\ Present(d)
  /\ d \notin evicted
  /\ evicted' = evicted \cup {d}
  /\ entries' = [entries EXCEPT ![d] = NoEntry]
  /\ UNCHANGED <<drains, replays, accepted, adds, crashes>>

(* drain() up to its first await.  With nothing due it changes nothing. *)
StartDrain(k) ==
  /\ EventLoopFree
  /\ ~drains[k].active
  /\ \E selected \in SUBSET Entries :
       Selectable(selected) /\ BeginSlice(k, selected, {})
  /\ UNCHANGED <<entries, accepted, adds, evicted, crashes>>

NextSlice(k) ==
  /\ Resumable(k)
  /\ drains[k].todo # {}
  /\ BeginSlice(k, drains[k].todo, drains[k].failed)
  /\ UNCHANGED <<entries, accepted, adds, evicted, crashes>>

(* replay() after the await: a delivered entry is removed. *)
ReplayDelivered(r) ==
  /\ EventLoopFree
  /\ r \in replays
  /\ replays' = replays \ {r}
  /\ accepted' = accepted \cup {deriveReplayKey(r)}
  /\ entries' = [entries EXCEPT ![r.id] = NoEntry]
  /\ UNCHANGED <<drains, adds, evicted, crashes>>

(* Mutant: the stale entry is filtered out and not put back. *)
WriteBackFiltered(r) == entries' = [entries EXCEPT ![r.id] = NoEntry]

(* A failed one is written back from the copy, if the id is still there.   *)
(* The receiver may have accepted it all the same: its answer was lost.    *)
WriteBack(r) ==
  entries' = [entries EXCEPT ![r.id] =
    IF Present(r.id) THEN [r.entry EXCEPT !.replayAttempts = @ + 1] ELSE NoEntry]

ReplayFailed(r, receiverAccepted) ==
  /\ EventLoopFree
  /\ r \in replays
  /\ replays' = replays \ {r}
  /\ drains' = [drains EXCEPT ![r.drain].failed = @ \cup {r.id}]
  /\ accepted' = IF receiverAccepted THEN accepted \cup {deriveReplayKey(r)}
                 ELSE accepted
  /\ WriteBack(r)
  /\ UNCHANGED <<adds, evicted, crashes>>

RoundsSpent(entry) == entry.replayAttempts >= ParkAfterRounds

(* drain() after the last slice: every entry that failed in this drain is  *)
(* read again and parked, or pushed out with backoff.                      *)
Park(entry) == [entry EXCEPT !.status = "parked", !.wait = 0]

FinishDrain(k) ==
  /\ Resumable(k)
  /\ drains[k].todo = {}
  /\ \E delay \in [drains[k].failed -> 0 .. DrainBackoffMax] :
       /\ \A d \in drains[k].failed : Present(d) =>
            delay[d] \in computeBackoffMs(entries[d].replayAttempts,
                                          DrainBackoffBase, DrainBackoffMax)
       /\ entries' = [d \in Entries |->
            IF d \in drains[k].failed /\ Present(d)
              THEN IF RoundsSpent(entries[d]) THEN Park(entries[d])
                   ELSE [entries[d] EXCEPT !.wait = delay[d]]
              ELSE entries[d]]
  /\ drains' = [drains EXCEPT ![k] = Idle]
  /\ UNCHANGED <<replays, accepted, adds, evicted, crashes>>

(* The process dies with every call it was executing; receivers may have   *)
(* accepted any of the requests that were on their way.                    *)
Die ==
  /\ crashes < MaxCrashes
  /\ crashes' = crashes + 1
  /\ drains' = [k \in Drains |-> Idle]
  /\ replays' = {}
  /\ \E got \in SUBSET replays :
       accepted' = accepted \cup {deriveReplayKey(r) : r \in got}
  /\ UNCHANGED <<adds, evicted>>

Crash == Die /\ UNCHANGED entries

(* ... while the list was being saved: writeJson truncates the file in     *)
(* place and readJson takes what it cannot parse for an empty list.        *)
CrashInSave == Die /\ entries' = [d \in Entries |-> NoEntry]

(* Mutant: a delay that is over goes below zero. *)
LessUnguarded(n) == n - 1

Less(n) == IF n > 0 THEN n - 1 ELSE 0

Elapse ==
  /\ EventLoopFree
  /\ entries' = [d \in Entries |->
       IF Present(d) THEN [entries[d] EXCEPT !.wait = Less(@)] ELSE NoEntry]
  /\ UNCHANGED <<drains, replays, accepted, adds, evicted, crashes>>

ReplaySettles(r) ==
  \/ ReplayDelivered(r)
  \/ \E receiverAccepted \in BOOLEAN : ReplayFailed(r, receiverAccepted)

Resume(k) == NextSlice(k) \/ FinishDrain(k)

Next ==
  \/ \E d \in Entries :
       \/ \E reason \in {"retries-exhausted", "non-retryable"} : Add(d, reason)
       \/ Evict(d)
  \/ \E k \in Drains : StartDrain(k) \/ Resume(k)
  \/ \E r \in replays : ReplaySettles(r)
  \/ Crash \/ CrashInSave
  \/ Elapse

Spec == Init /\ [][Next]_vars

(* The recovery endpoint keeps being called, every request is answered or  *)
(* aborted, promises that settled are resumed, and time passes.            *)
Fairness ==
  /\ WF_vars(\E k \in Drains : StartDrain(k))
  /\ WF_vars(\E k \in Drains : Resume(k))
  /\ WF_vars(\E r \in replays : ReplaySettles(r))
  /\ WF_vars(Elapse)

FairSpec == Spec /\ Fairness

----------------------------------------------------------------------------
(* Properties. *)

(* "Entry ids with a replay in flight - the idempotency lock": however     *)
(* drains overlap, one entry is never being replayed by two of them        *)
(* (lines 293-301).                                                        *)
OneReplayPerEntry == \A r, s \in replays : r.id = s.id => r = s

(* A dead letter leaves the list only once a receiver accepted it or a     *)
(* manual retry took it over: no write of a replay or a drain (lines       *)
(* 308-334, 389-402) drops one, whatever stale copy it overwrites, and a   *)
(* death drops none, with one exception: a death in the middle of a save   *)
(* loses the list as a whole (webhook-store.ts 429-437).                   *)
Settled(d) == d \in evicted \/ \E p \in accepted : p[1] = d

ListTorn == crashes' > crashes /\ \A d \in Entries : ~Present(d)'

NoDeadLetterLost ==
  [][\A d \in Entries : Present(d) /\ ~Present(d)' => Settled(d)' \/ ListTorn]_vars

(* An entry that has failed all its rounds and is not parked. *)
Spent(d) ==
  /\ Present(d)
  /\ entries[d].status = "pending"
  /\ entries[d].replayAttempts >= ParkAfterRounds

(* Overlapping drains overwrite each other's parking with stale copies,    *)
(* but the last writer always parks again: when every drain has returned,  *)
(* no entry is left that failed all its rounds and is still pending        *)
(* (lines 316-331 against 389-397).                                        *)
SpentEntriesParked ==
  crashes = 0 /\ (\A k \in Drains : ~drains[k].active)
    => \A d \in Entries : ~Spent(d)

(* Why that holds: as long as such an entry exists, some drain that saw it *)
(* fail has its parking pass still to come.                                *)
SpentInv ==
  crashes = 0 =>
    \A d \in Entries : Spent(d) =>
      \E k \in Drains : drains[k].active /\ d \in drains[k].failed

(* "after `parkAfterRounds` failed rounds the entry is parked" (lines      *)
(* 344-345).  With one drain at a time this is exact but for a process     *)
(* that dies between writing back a failure and parking: one round each.   *)
RoundsBoundedByCrashes ==
  \A d \in Entries :
    Present(d) => entries[d].replayAttempts <= ParkAfterRounds + crashes

(* One drain at a time. *)
SoleDrain == \A j, k \in Drains : j = k

(* What the two bounds on a sole drain rest on: an id is in one place of   *)
(* the drain only, what it works on is pending, and an entry that failed   *)
(* all its rounds and is not yet parked failed in this very drain or in    *)
(* one that died.                                                          *)
SoleDrainInv ==
  /\ \A k \in Drains :
       /\ drains[k].todo \cap drains[k].failed = {}
       /\ drains[k].todo \cap inFlight = {}
       /\ drains[k].failed \cap inFlight = {}
       /\ ~drains[k].active => drains[k] = Idle
       /\ \A d \in drains[k].todo : Present(d) => entries[d].status = "pending"
  /\ \A r \in replays :
       /\ drains[r.drain].active
       /\ r.entry.status = "pending"
       /\ r.entry.replayAttempts < ParkAfterRounds + crashes
  /\ \A d \in Entries : Present(d) =>
       /\ entries[d].replayAttempts <= ParkAfterRounds + crashes
       /\ \/ entries[d].status = "parked"
          \/ entries[d].replayAttempts < ParkAfterRounds + crashes
          \/ \E k \in Drains : d \in drains[k].failed

(* "Parked entries are never drained again automatically" (lines 26-27):   *)
(* no replay starts from a parked entry.                                   *)
ParkedNeverDrained ==
  [][\A r \in replays' \ replays : entries[r.id].status = "pending"]_vars

Drainable(d) ==
  /\ Present(d)
  /\ entries[d].status = "pending"
  /\ entries[d].reason = "retries-exhausted"

(* Every exhausted delivery is eventually delivered, taken over or parked  *)
(* for a human, through overlapping drains and crashes.                    *)
EntrySettles == \A d \in Entries : Drainable(d) ~> ~Drainable(d)
============================================================================
