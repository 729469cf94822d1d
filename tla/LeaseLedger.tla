---------------------------- MODULE LeaseLedger ----------------------------
(***************************************************************************)
(* The fenced ownership ledger of ring partitions: LeaseLedger, and        *)
(* RingCoverage::record_seed_completed on top of it, in                    *)
(* contracts/crashlab-core/src/worker_partition.rs.                        *)
(*                                                                         *)
(* Workers claim, renew and write with the tokens they were issued.  A     *)
(* token is never taken back: a worker that was replaced still holds its   *)
(* own and may come back with it at any time.  Every call reads the clock  *)
(* `now'.  A refused claim still drops the expired owners it met, and a    *)
(* refused write is counted, as in the code.                               *)
(***************************************************************************)
EXTENDS FiniteSets, HashRing

CONSTANTS
  Workers,       \* worker ids
  Ttls,          \* lease times a caller passes
  Seeds,         \* global seed indices
  RingSlot,      \* ring_slot: the slot of each seed
  U64Max         \* the largest counter, clock and generation value

ASSUME LedgerAssumption ==
  /\ Ttls \subseteq Nat
  /\ RingSlot \in [Seeds -> Slots]
  /\ U64Max \in Nat

VARIABLES
  leases,           \* the persisted lease records
  nextGeneration,   \* the last generation handed out
  reclaimedLeases,  \* health counter: expired owners dropped
  zombieWrites,     \* health counter: writes refused
  completed,        \* completed_seed_indices
  now,              \* the clock the callers read, up to U64Max
  tokens,           \* every token a worker was issued
  lastWriter        \* per slot, the generation of the last accepted write

vars == <<leases, nextGeneration, reclaimedLeases, zombieWrites, completed,
          now, tokens, lastWriter>>

----------------------------------------------------------------------------

Word == 0 .. U64Max

Lease == [worker : Workers, generation : Word, range : RingRange, expires : Word]

LeaseToken == [worker : Workers, generation : Word, range : RingRange]

TypeOK ==
  /\ leases \subseteq Lease
  /\ nextGeneration \in Word
  /\ reclaimedLeases \in Word
  /\ zombieWrites \in Word
  /\ completed \subseteq Seeds
  /\ now \in Word
  /\ tokens \subseteq LeaseToken
  /\ lastWriter \in [Slots -> Word]

Init ==
  /\ leases = {}
  /\ nextGeneration = 0
  /\ reclaimedLeases = 0
  /\ zombieWrites = 0
  /\ completed = {}
  /\ now = 0
  /\ tokens = {}
  /\ lastWriter = [slot \in Slots |-> 0]

saturatingAdd(m, n) == IF m + n <= U64Max THEN m + n ELSE U64Max

----------------------------------------------------------------------------
(* claim() *)

Retained(range) == {l \in leases : ~intersects(l.range, range) \/ now < l.expires}

(* Mutant: the overlap is looked for at the start of a lease only. *)
OwnedAtStart(range) == \E l \in Retained(range) : contains(range, l.range.start)

Owned(range) == \E l \in Retained(range) : intersects(l.range, range)

(* Expired overlapping owners go first, whether or not the claim succeeds. *)
Reclaim(range) ==
  reclaimedLeases' =
    saturatingAdd(reclaimedLeases, Cardinality(leases \ Retained(range)))

ClaimRefused(w, range) ==
  /\ ~isEmpty(range)
  /\ Owned(range) \/ nextGeneration = U64Max
  /\ leases' = Retained(range)
  /\ Reclaim(range)
  /\ UNCHANGED <<nextGeneration, zombieWrites, completed, now, tokens, lastWriter>>

(* Mutant: a worker that comes back gets its old generation again. *)
FreshGenerationReused(w) ==
  IF \E t \in tokens : t.worker = w
    THEN (CHOOSE t \in tokens : t.worker = w).generation
    ELSE nextGeneration + 1

FreshGeneration(w) == nextGeneration + 1

ClaimGranted(w, range, ttl) ==
  /\ ~isEmpty(range)
  /\ ~Owned(range)
  /\ nextGeneration < U64Max
  /\ nextGeneration' = nextGeneration + 1
  /\ leases' = Retained(range) \cup
       {[worker |-> w, generation |-> FreshGeneration(w), range |-> range,
         expires |-> saturatingAdd(now, ttl)]}
  /\ tokens' = tokens \cup
       {[worker |-> w, generation |-> FreshGeneration(w), range |-> range]}
  /\ Reclaim(range)
  /\ UNCHANGED <<zombieWrites, completed, now, lastWriter>>

----------------------------------------------------------------------------
(* validate_write(), renew() and record_seed_completed() *)

Holds(l, t) ==
  /\ l.worker = t.worker
  /\ l.generation = t.generation
  /\ l.range = t.range

(* Mutant: the lease is looked up by worker and range only. *)
ValidForWorker(t) ==
  \E l \in leases : l.worker = t.worker /\ l.range = t.range /\ now < l.expires

Valid(t) == \E l \in leases : Holds(l, t) /\ now < l.expires

validateWrite(t, slot) == contains(t.range, slot) /\ Valid(t)

CountZombie == zombieWrites' = saturatingAdd(zombieWrites, 1)

RenewAccepted(t, ttl) ==
  /\ validateWrite(t, t.range.start)
  /\ \E l \in leases :
       /\ Holds(l, t)
       /\ leases' = (leases \ {l}) \cup {[l EXCEPT !.expires = saturatingAdd(now, ttl)]}
  /\ UNCHANGED <<nextGeneration, reclaimedLeases, zombieWrites, completed, now,
                 tokens, lastWriter>>

RecordAccepted(t, seed) ==
  /\ validateWrite(t, RingSlot[seed])
  /\ completed' = completed \cup {seed}
  /\ lastWriter' = [lastWriter EXCEPT ![RingSlot[seed]] = t.generation]
  /\ UNCHANGED <<leases, nextGeneration, reclaimedLeases, zombieWrites, now, tokens>>

(* Either call with a token that is expired, fenced or for another range. *)
ZombieRefused(t, slot) ==
  /\ ~validateWrite(t, slot)
  /\ CountZombie
  /\ UNCHANGED <<leases, nextGeneration, reclaimedLeases, completed, now, tokens,
                 lastWriter>>

Tick ==
  /\ now < U64Max
  /\ now' = now + 1
  /\ UNCHANGED <<leases, nextGeneration, reclaimedLeases, zombieWrites, completed,
                 tokens, lastWriter>>

Claim(w, range) ==
  ClaimRefused(w, range) \/ \E ttl \in Ttls : ClaimGranted(w, range, ttl)

Write(t) ==
  \/ \E ttl \in Ttls : RenewAccepted(t, ttl)
  \/ ZombieRefused(t, t.range.start)
  \/ \E seed \in Seeds : RecordAccepted(t, seed) \/ ZombieRefused(t, RingSlot[seed])

Next ==
  \/ \E w \in Workers, range \in RingRange : Claim(w, range)
  \/ \E t \in tokens : Write(t)
  \/ Tick

Spec == Init /\ [][Next]_vars

----------------------------------------------------------------------------
(* Properties. *)

(* Two lease records never cover the same slot, whatever expires, is       *)
(* reclaimed or renewed in between: claim() checks the overlap only        *)
(* against what its own retain() kept (lines 286-307).                     *)
LeasesDisjoint ==
  \A l, m \in leases : intersects(l.range, m.range) => l = m

(* At any time at most one token can write to a slot, even among workers   *)
(* that do not know that they were replaced (lines 351-371).               *)
SoleWriter ==
  \A t, u \in tokens : \A slot \in Slots :
    validateWrite(t, slot) /\ validateWrite(u, slot) => t = u

(* A token that was refused once is refused for ever: neither a renewal    *)
(* nor a later claim revives it (lines 330, 365-370).                      *)
FencedForever ==
  [][\A t \in tokens : ~Valid(t) => ~Valid(t)']_vars

(* Fencing: the writes that a slot accepts never go back to an older       *)
(* generation ("Rejects zombie writes", line 344).                         *)
WritesInGenerationOrder ==
  [][\A slot \in Slots : lastWriter'[slot] >= lastWriter[slot]]_vars

(* What these rest on: generations identify tokens, every lease belongs to *)
(* a token, and no slot was written by a generation newer than its lease.  *)
FencingInv ==
  /\ \A t, u \in tokens : t.generation = u.generation => t = u
  /\ \A t \in tokens : t.generation <= nextGeneration
  /\ \A l \in leases : /\ ~isEmpty(l.range)
                       /\ \E t \in tokens : Holds(l, t)
  /\ LeasesDisjoint
  /\ \A slot \in Slots :
       /\ lastWriter[slot] <= nextGeneration
       /\ \A l \in leases :
            contains(l.range, slot) => lastWriter[slot] <= l.generation
============================================================================
