------------------------- MODULE LeaseLedger_proofs -------------------------
(***************************************************************************)
(* Proofs about the lease ledger, for every ring, every set of workers,    *)
(* seeds and lease times, and every word size.                             *)
(***************************************************************************)
EXTENDS LeaseLedger, FiniteSetTheorems, TLAPS

(* Ranges that share a slot intersect. *)
LEMMA SharedSlot ==
  ASSUME NEW r \in RingRange, NEW s \in RingRange, NEW slot \in Slots,
         contains(r, slot), contains(s, slot)
  PROVE  intersects(r, s)
  BY RingAssumption DEF Slots, RingRange, contains, intersects

(* Overlap does not depend on the order, and a range that is not empty     *)
(* overlaps itself.                                                        *)
LEMMA IntersectsSymmetric ==
  ASSUME NEW r \in RingRange, NEW s \in RingRange
  PROVE  /\ intersects(r, s) <=> intersects(s, r)
         /\ ~isEmpty(r) => intersects(r, r)
  BY RingAssumption DEF RingRange, intersects, isEmpty

(* A saturating sum is a word, and at least each of its summands. *)
LEMMA SaturatingAddIsWord ==
  ASSUME NEW m \in Word, NEW n \in Nat
  PROVE  saturatingAdd(m, n) \in Word
  BY LedgerAssumption DEF Word, saturatingAdd

LEMMA StepCases ==
  ASSUME [Next]_vars
  PROVE  \/ \E w \in Workers, range \in RingRange : ClaimRefused(w, range)
         \/ \E w \in Workers, range \in RingRange, ttl \in Ttls :
              ClaimGranted(w, range, ttl)
         \/ \E t \in tokens, ttl \in Ttls : RenewAccepted(t, ttl)
         \/ \E t \in tokens, seed \in Seeds : RecordAccepted(t, seed)
         \/ \E t \in tokens : \E slot : ZombieRefused(t, slot)
         \/ Tick
         \/ UNCHANGED vars
  BY DEF Next, Claim, Write

(* The ledger is finite. *)
Finite == IsFiniteSet(leases)

LEMMA RetainedSmaller ==
  ASSUME NEW range
  PROVE  Retained(range) \subseteq leases
  BY DEF Retained

LEMMA FiniteStep ==
  ASSUME Finite, [Next]_vars
  PROVE  Finite'
<1> USE DEF Finite
<1>1. ASSUME NEW range PROVE IsFiniteSet(Retained(range))
  BY RetainedSmaller, FS_Subset
<1>2. ASSUME NEW w \in Workers, NEW range \in RingRange, ClaimRefused(w, range)
      PROVE  Finite'
  BY <1>1, <1>2 DEF ClaimRefused
<1>3. ASSUME NEW w \in Workers, NEW range \in RingRange, NEW ttl \in Ttls,
             ClaimGranted(w, range, ttl)
      PROVE  Finite'
  BY <1>1, <1>3, FS_AddElement DEF ClaimGranted
<1>4. ASSUME NEW t \in tokens, NEW ttl \in Ttls, RenewAccepted(t, ttl)
      PROVE  Finite'
  <2>1. PICK l \in leases :
          leases' = (leases \ {l}) \cup {[l EXCEPT !.expires = saturatingAdd(now, ttl)]}
    BY <1>4 DEF RenewAccepted
  <2>2. IsFiniteSet(leases \ {l})
    BY FS_RemoveElement
  <2>3. QED
    BY <2>1, <2>2, FS_AddElement
<1>5. CASE UNCHANGED leases
  BY <1>5
<1>6. QED
  BY <1>2, <1>3, <1>4, <1>5, StepCases DEF RecordAccepted, ZombieRefused, Tick, vars

(* The variables keep their types, at any word size. *)
THEOREM TypeCorrect == Spec => []TypeOK
<1> USE LedgerAssumption
<1>1. Init => TypeOK /\ Finite
  BY FS_EmptySet DEF Init, TypeOK, Finite, Word
<1>2. TypeOK /\ Finite /\ [Next]_vars => TypeOK' /\ Finite'
  <2> SUFFICES ASSUME TypeOK, Finite, [Next]_vars PROVE TypeOK'
    BY FiniteStep
  <2>1. ASSUME NEW range
        PROVE  saturatingAdd(reclaimedLeases, Cardinality(leases \ Retained(range))) \in Word
    <3>1. IsFiniteSet(leases \ Retained(range))
      BY FS_Subset DEF Finite
    <3>2. Cardinality(leases \ Retained(range)) \in Nat
      BY <3>1, FS_CardinalityType
    <3>3. QED
      BY <3>2, SaturatingAddIsWord DEF TypeOK
  <2>2. ASSUME NEW w \in Workers, NEW range \in RingRange, ClaimRefused(w, range)
        PROVE  TypeOK'
    BY <2>1, <2>2, RetainedSmaller DEF ClaimRefused, Reclaim, TypeOK
  <2>3. ASSUME NEW w \in Workers, NEW range \in RingRange, NEW ttl \in Ttls,
               ClaimGranted(w, range, ttl)
        PROVE  TypeOK'
    <3>1. FreshGeneration(w) \in Word /\ nextGeneration' \in Word
      BY <2>3 DEF ClaimGranted, FreshGeneration, TypeOK, Word
    <3>2. saturatingAdd(now, ttl) \in Word
      BY SaturatingAddIsWord DEF TypeOK
    <3>3. [worker |-> w, generation |-> FreshGeneration(w), range |-> range,
           expires |-> saturatingAdd(now, ttl)] \in Lease
      BY <3>1, <3>2 DEF Lease
    <3>4. [worker |-> w, generation |-> FreshGeneration(w), range |-> range] \in LeaseToken
      BY <3>1 DEF LeaseToken
    <3>5. leases' \subseteq Lease /\ tokens' \subseteq LeaseToken
      BY <2>3, <3>3, <3>4, RetainedSmaller DEF ClaimGranted, TypeOK
    <3>6. reclaimedLeases' \in Word
      BY <2>1, <2>3 DEF ClaimGranted, Reclaim
    <3>7. QED
      BY <2>3, <3>1, <3>5, <3>6 DEF ClaimGranted, TypeOK
  <2>4. ASSUME NEW t \in tokens, NEW ttl \in Ttls, RenewAccepted(t, ttl)
        PROVE  TypeOK'
    <3>1. saturatingAdd(now, ttl) \in Word
      BY SaturatingAddIsWord DEF TypeOK
    <3>2. ASSUME NEW l \in leases
          PROVE  [l EXCEPT !.expires = saturatingAdd(now, ttl)] \in Lease
      BY <3>1 DEF TypeOK, Lease
    <3>3. leases' \subseteq Lease
      BY <2>4, <3>2 DEF RenewAccepted, TypeOK
    <3>4. QED
      BY <2>4, <3>3 DEF RenewAccepted, TypeOK
  <2>5. ASSUME NEW t \in tokens, NEW seed \in Seeds, RecordAccepted(t, seed)
        PROVE  TypeOK'
    <3>1. t.generation \in Word
      BY DEF TypeOK, LeaseToken
    <3>2. lastWriter' \in [Slots -> Word]
      BY <2>5, <3>1 DEF RecordAccepted, TypeOK
    <3>3. QED
      BY <2>5, <3>2 DEF RecordAccepted, TypeOK
  <2>6. ASSUME NEW t \in tokens, NEW slot, ZombieRefused(t, slot)
        PROVE  TypeOK'
    <3>1. zombieWrites' \in Word
      BY <2>6, SaturatingAddIsWord DEF ZombieRefused, CountZombie, TypeOK
    <3>2. QED
      BY <2>6, <3>1 DEF ZombieRefused, TypeOK
  <2>7. CASE Tick
    <3>1. now' \in Word
      BY <2>7 DEF Tick, TypeOK, Word
    <3>2. QED
      BY <2>7, <3>1 DEF Tick, TypeOK
  <2>8. CASE UNCHANGED vars
    BY <2>8 DEF vars, TypeOK
  <2>9. QED
    BY <2>2, <2>3, <2>4, <2>5, <2>6, <2>7, <2>8, StepCases
<1>3. QED
  BY <1>1, <1>2, PTL DEF Spec
----------------------------------------------------------------------------

(* A granted claim: the new owner overlaps nobody who stays. *)
LEMMA GrantEffect ==
  ASSUME TypeOK, NEW w \in Workers, NEW range \in RingRange, NEW ttl \in Ttls,
         ClaimGranted(w, range, ttl)
  PROVE  \E new \in Lease :
           /\ new.range = range
           /\ new.worker = w
           /\ new.generation = nextGeneration + 1
           /\ ~isEmpty(range)
           /\ leases' = Retained(range) \cup {new}
           /\ \A l \in Retained(range) : ~intersects(l.range, range)
           /\ tokens' = tokens \cup
                {[worker |-> w, generation |-> nextGeneration + 1, range |-> range]}
           /\ nextGeneration' = nextGeneration + 1
           /\ UNCHANGED <<now, lastWriter>>
<1> DEFINE new == [worker |-> w, generation |-> nextGeneration + 1, range |-> range,
                   expires |-> saturatingAdd(now, ttl)]
<1>1. new \in Lease
  <2>1. saturatingAdd(now, ttl) \in Word
    BY LedgerAssumption, SaturatingAddIsWord DEF TypeOK
  <2>2. nextGeneration + 1 \in Word
    BY LedgerAssumption DEF ClaimGranted, TypeOK, Word
  <2>3. QED
    BY <2>1, <2>2 DEF Lease
<1>2. /\ new.range = range
      /\ new.worker = w
      /\ new.generation = nextGeneration + 1
  OBVIOUS
<1>3. leases' = Retained(range) \cup {new}
  BY DEF ClaimGranted, FreshGeneration
<1> HIDE DEF new
<1>4. QED
  BY <1>1, <1>2, <1>3 DEF ClaimGranted, FreshGeneration, Owned

(* A renewal: one lease is extended, and is the same lease otherwise. *)
LEMMA RenewEffect ==
  ASSUME TypeOK, NEW t \in tokens, NEW ttl \in Ttls, RenewAccepted(t, ttl)
  PROVE  \E l \in leases, new \in Lease :
           /\ Holds(l, t)
           /\ leases' = (leases \ {l}) \cup {new}
           /\ new.worker = l.worker
           /\ new.generation = l.generation
           /\ new.range = l.range
           /\ UNCHANGED <<nextGeneration, reclaimedLeases, now, tokens, lastWriter>>
<1>1. PICK l \in leases :
        /\ Holds(l, t)
        /\ leases' = (leases \ {l}) \cup {[l EXCEPT !.expires = saturatingAdd(now, ttl)]}
  BY DEF RenewAccepted
<1> DEFINE new == [l EXCEPT !.expires = saturatingAdd(now, ttl)]
<1>2. saturatingAdd(now, ttl) \in Word
  BY LedgerAssumption, SaturatingAddIsWord DEF TypeOK
<1>3. /\ new \in Lease
      /\ new.worker = l.worker
      /\ new.generation = l.generation
      /\ new.range = l.range
  BY <1>2 DEF TypeOK, Lease
<1>4. leases' = (leases \ {l}) \cup {new}
  BY <1>1
<1> HIDE DEF new
<1>5. QED
  BY <1>1, <1>3, <1>4 DEF RenewAccepted

LEMMA FencingStep ==
  ASSUME TypeOK, TypeOK', FencingInv, [Next]_vars
  PROVE  FencingInv'
<1> USE LedgerAssumption
<1>0. /\ nextGeneration \in Nat
      /\ \A l \in leases : /\ l.range \in RingRange
                           /\ l.generation \in Nat
      /\ \A t \in tokens : t.generation \in Nat
      /\ \A slot \in Slots : lastWriter[slot] \in Nat
  BY DEF TypeOK, Lease, LeaseToken, Word
<1>1. ASSUME leases' \subseteq leases,
             UNCHANGED <<nextGeneration, tokens, lastWriter>>
      PROVE  FencingInv'
  BY <1>1 DEF FencingInv, LeasesDisjoint, Holds
<1>2. ASSUME NEW w \in Workers, NEW range \in RingRange, NEW ttl \in Ttls,
             ClaimGranted(w, range, ttl)
      PROVE  FencingInv'
  <2>1. PICK new \in Lease :
           /\ new.range = range
           /\ new.worker = w
           /\ new.generation = nextGeneration + 1
           /\ ~isEmpty(range)
           /\ leases' = Retained(range) \cup {new}
           /\ \A l \in Retained(range) : ~intersects(l.range, range)
           /\ tokens' = tokens \cup
                {[worker |-> w, generation |-> nextGeneration + 1, range |-> range]}
           /\ nextGeneration' = nextGeneration + 1
           /\ UNCHANGED <<now, lastWriter>>
    BY <1>2, GrantEffect
  <2> DEFINE token == [worker |-> w, generation |-> nextGeneration + 1, range |-> range]
  <2>2. Retained(range) \subseteq leases
    BY RetainedSmaller
  <2>3. /\ token.worker = w
        /\ token.generation = nextGeneration + 1
        /\ token.range = range
        /\ tokens' = tokens \cup {token}
    BY <2>1
  <2> HIDE DEF token
  <2>4. \A t, u \in tokens' : t.generation = u.generation => t = u
    BY <1>0, <2>3 DEF FencingInv
  <2>5. \A t \in tokens' : t.generation <= nextGeneration'
    BY <1>0, <2>1, <2>3 DEF FencingInv
  <2>6. \A l \in leases' : ~isEmpty(l.range) /\ \E t \in tokens' : Holds(l, t)
    BY <2>1, <2>2, <2>3 DEF FencingInv, Holds
  <2>7. LeasesDisjoint'
    BY <1>0, <2>1, <2>2, IntersectsSymmetric DEF FencingInv, LeasesDisjoint
  <2>8. \A slot \in Slots :
          /\ lastWriter'[slot] <= nextGeneration'
          /\ \A l \in leases' :
               contains(l.range, slot) => lastWriter'[slot] <= l.generation
    BY <1>0, <2>1, <2>2 DEF FencingInv
  <2>9. QED
    BY <2>4, <2>5, <2>6, <2>7, <2>8 DEF FencingInv, Holds
<1>3. ASSUME NEW t \in tokens, NEW ttl \in Ttls, RenewAccepted(t, ttl)
      PROVE  FencingInv'
  <2>1. PICK l \in leases, new \in Lease :
           /\ Holds(l, t)
           /\ leases' = (leases \ {l}) \cup {new}
           /\ new.worker = l.worker
           /\ new.generation = l.generation
           /\ new.range = l.range
           /\ UNCHANGED <<nextGeneration, reclaimedLeases, now, tokens, lastWriter>>
    BY <1>3, RenewEffect
  <2>2. \A m \in leases' : ~isEmpty(m.range) /\ \E u \in tokens' : Holds(m, u)
    BY <2>1 DEF FencingInv, Holds
  <2>3. LeasesDisjoint'
    BY <1>0, <2>1, IntersectsSymmetric DEF FencingInv, LeasesDisjoint
  <2>4. \A slot \in Slots :
          \A m \in leases' :
            contains(m.range, slot) => lastWriter'[slot] <= m.generation
    BY <2>1 DEF FencingInv
  <2>5. QED
    BY <2>1, <2>2, <2>3, <2>4 DEF FencingInv, Holds
<1>4. ASSUME NEW t \in tokens, NEW seed \in Seeds, RecordAccepted(t, seed)
      PROVE  FencingInv'
  <2>1. RingSlot[seed] \in Slots /\ contains(t.range, RingSlot[seed])
    BY <1>4 DEF RecordAccepted, validateWrite
  <2>2. PICK l \in leases : Holds(l, t)
    BY <1>4 DEF RecordAccepted, validateWrite, Valid
  <2>3. /\ \A slot \in Slots :
             lastWriter'[slot] = IF slot = RingSlot[seed] THEN t.generation
                                 ELSE lastWriter[slot]
        /\ UNCHANGED <<leases, nextGeneration, tokens>>
    BY <1>4, <2>1 DEF RecordAccepted, TypeOK
  <2>4. ASSUME NEW m \in leases, contains(m.range, RingSlot[seed])
        PROVE  t.generation <= m.generation
    <3>1. intersects(m.range, l.range)
      BY <1>0, <2>1, <2>2, <2>4, SharedSlot DEF Holds
    <3>2. m = l
      BY <3>1 DEF FencingInv, LeasesDisjoint
    <3>3. QED
      BY <1>0, <2>2, <3>2 DEF Holds
  <2>5. \A slot \in Slots :
          /\ lastWriter'[slot] <= nextGeneration'
          /\ \A m \in leases' :
               contains(m.range, slot) => lastWriter'[slot] <= m.generation
    BY <2>3, <2>4 DEF FencingInv
  <2>6. QED
    BY <2>3, <2>5 DEF FencingInv, LeasesDisjoint, Holds
<1>5. QED
  BY <1>1, <1>2, <1>3, <1>4, StepCases, RetainedSmaller
     DEF ClaimRefused, ZombieRefused, Tick, vars

LEMMA FencingHolds == Spec => [](TypeOK /\ FencingInv)
<1>1. Init => FencingInv
  BY LedgerAssumption DEF Init, FencingInv, LeasesDisjoint
<1>2. TypeOK /\ TypeOK' /\ FencingInv /\ [Next]_vars => FencingInv'
  BY FencingStep
<1>3. QED
  BY <1>1, <1>2, TypeCorrect, PTL DEF Spec

(* No two lease records ever cover the same slot. *)
THEOREM DisjointLeases == Spec => []LeasesDisjoint
<1>1. FencingInv => LeasesDisjoint
  BY DEF FencingInv
<1>2. QED
  BY <1>1, FencingHolds, PTL

(* At most one of all the tokens ever issued can write to a slot. *)
THEOREM OneWriter == Spec => []SoleWriter
<1>1. TypeOK /\ FencingInv => SoleWriter
  <2> SUFFICES ASSUME TypeOK, FencingInv, NEW t \in tokens, NEW u \in tokens,
                      NEW slot \in Slots,
                      validateWrite(t, slot), validateWrite(u, slot)
               PROVE  t = u
    BY DEF SoleWriter
  <2>1. PICK l \in leases : Holds(l, t)
    BY DEF validateWrite, Valid
  <2>2. PICK m \in leases : Holds(m, u)
    BY DEF validateWrite, Valid
  <2>3. l.range \in RingRange /\ m.range \in RingRange
    BY DEF TypeOK, Lease
  <2>4. intersects(l.range, m.range)
    BY <2>1, <2>2, <2>3, SharedSlot DEF Holds, validateWrite
  <2>5. l = m
    BY <2>4 DEF FencingInv, LeasesDisjoint
  <2>6. QED
    BY <2>1, <2>2, <2>5 DEF FencingInv, Holds
<1>2. QED
  BY <1>1, FencingHolds, PTL

(* A token that lost its lease, or whose lease ran out, stays refused. *)
THEOREM Fenced == Spec => FencedForever
<1>1. TypeOK /\ FencingInv /\ [Next]_vars
        => [\A t \in tokens : ~Valid(t) => ~Valid(t)']_vars
  <2> USE LedgerAssumption
  <2> SUFFICES ASSUME TypeOK, FencingInv, [Next]_vars, NEW t \in tokens, Valid(t)'
               PROVE  Valid(t)
    OBVIOUS
  <2>1. PICK m \in leases' : Holds(m, t) /\ now' < m.expires
    BY DEF Valid, Holds
  <2>2. CASE m \in leases /\ now' = now
    BY <2>1, <2>2 DEF Valid
  <2>3. ASSUME NEW w \in Workers, NEW range \in RingRange, NEW ttl \in Ttls,
               ClaimGranted(w, range, ttl)
        PROVE  Valid(t)
    <3>1. PICK new \in Lease :
             /\ new.generation = nextGeneration + 1
             /\ leases' = Retained(range) \cup {new}
             /\ UNCHANGED now
      BY <2>3, GrantEffect
    <3>2. t.generation \in Nat /\ nextGeneration \in Nat
      BY DEF TypeOK, LeaseToken, Word
    <3>3. m # new
      BY <2>1, <3>1, <3>2 DEF FencingInv, Holds
    <3>4. QED
      BY <2>2, <3>1, <3>3, RetainedSmaller
  <2>4. ASSUME NEW u \in tokens, NEW ttl \in Ttls, RenewAccepted(u, ttl)
        PROVE  Valid(t)
    <3>1. PICK l \in leases, new \in Lease :
             /\ Holds(l, u)
             /\ leases' = (leases \ {l}) \cup {new}
             /\ new.worker = l.worker
             /\ new.generation = l.generation
             /\ new.range = l.range
             /\ UNCHANGED <<nextGeneration, reclaimedLeases, now, tokens, lastWriter>>
      BY <2>4, RenewEffect
    <3>2. CASE m = new
      <4>1. t = u
        BY <2>1, <3>1, <3>2 DEF FencingInv, Holds
      <4>2. QED
        BY <2>4, <4>1 DEF RenewAccepted, validateWrite
    <3>3. CASE m # new
      BY <2>2, <3>1, <3>3
    <3>4. QED
      BY <3>2, <3>3
  <2>5. CASE Tick
    <3>1. m \in leases /\ m.expires \in Nat /\ now \in Nat /\ now' = now + 1
      BY <2>1, <2>5 DEF Tick, TypeOK, Lease, Word
    <3>2. now < m.expires
      BY <2>1, <3>1
    <3>3. QED
      BY <2>1, <3>1, <3>2 DEF Valid
  <2>6. ASSUME NEW w \in Workers, NEW range \in RingRange, ClaimRefused(w, range)
        PROVE  Valid(t)
    BY <2>1, <2>2, <2>6, RetainedSmaller DEF ClaimRefused
  <2>7. CASE UNCHANGED <<leases, now>>
    BY <2>1, <2>2, <2>7
  <2>8. QED
    BY <2>3, <2>4, <2>5, <2>6, <2>7, StepCases DEF RecordAccepted, ZombieRefused, vars
<1>2. QED
  BY <1>1, FencingHolds, PTL DEF Spec, FencedForever

(* The writes that a slot accepts come in the order of their generations. *)
THEOREM OrderedWrites == Spec => WritesInGenerationOrder
<1>1. TypeOK /\ FencingInv /\ [Next]_vars
        => [\A slot \in Slots : lastWriter'[slot] >= lastWriter[slot]]_vars
  <2> USE LedgerAssumption
  <2> SUFFICES ASSUME TypeOK, FencingInv, [Next]_vars, NEW slot \in Slots
               PROVE  lastWriter'[slot] >= lastWriter[slot]
    OBVIOUS
  <2>0. lastWriter[slot] \in Nat
    BY DEF TypeOK, Word
  <2>1. ASSUME NEW t \in tokens, NEW seed \in Seeds, RecordAccepted(t, seed)
        PROVE  lastWriter'[slot] >= lastWriter[slot]
    <3>1. PICK l \in leases : Holds(l, t)
      BY <2>1 DEF RecordAccepted, validateWrite, Valid
    <3>2. RingSlot[seed] \in Slots /\ contains(l.range, RingSlot[seed])
      BY <2>1, <3>1 DEF RecordAccepted, validateWrite, Holds
    <3>3. lastWriter[RingSlot[seed]] <= t.generation /\ t.generation \in Nat
      BY <3>1, <3>2 DEF FencingInv, Holds, TypeOK, LeaseToken, Word
    <3>4. lastWriter'[slot] = IF slot = RingSlot[seed] THEN t.generation
                              ELSE lastWriter[slot]
      BY <2>1, <3>2 DEF RecordAccepted, TypeOK
    <3>5. QED
      BY <2>0, <3>3, <3>4
  <2>2. CASE UNCHANGED lastWriter
    BY <2>0, <2>2
  <2>3. QED
    BY <2>1, <2>2, StepCases
       DEF ClaimRefused, ClaimGranted, RenewAccepted, ZombieRefused, Tick, vars
<1>2. QED
  BY <1>1, FencingHolds, PTL DEF Spec, WritesInGenerationOrder
============================================================================
