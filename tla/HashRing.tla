------------------------------ MODULE HashRing ------------------------------
(***************************************************************************)
(* The fixed hash ring of contracts/crashlab-core/src/worker_partition.rs: *)
(* half-open ranges of slots, and how a pool of workers divides the ring.  *)
(***************************************************************************)
EXTENDS Integers

CONSTANTS
  RingSize       \* RING_SIZE

ASSUME RingAssumption == RingSize \in Nat \ {0}

Slots == 0 .. RingSize - 1

RingRange == [start : 0 .. RingSize, end : 0 .. RingSize]

isEmpty(range) == range.end <= range.start

contains(range, slot) == slot >= range.start /\ slot < range.end

intersects(r, s) ==
  LET start == IF r.start >= s.start THEN r.start ELSE s.start
      end   == IF r.end <= s.end THEN r.end ELSE s.end
  IN  start < end

SlotsOf(range) == {slot \in Slots : contains(range, slot)}

(* Mutant: the remainder of the division belongs to nobody. *)
ringRangeForEven(worker, workers) ==
  [start |-> worker * (RingSize \div workers),
   end   |-> (worker + 1) * (RingSize \div workers)]

(* Contiguous ranges; the first RingSize % workers of them are one longer. *)
ringRangeFor(worker, workers) ==
  LET base  == RingSize \div workers
      extra == RingSize % workers
      start == worker * base + IF worker <= extra THEN worker ELSE extra
      len   == base + IF worker < extra THEN 1 ELSE 0
  IN  [start |-> start, end |-> start + len]

(* worker_for_seed: the owner of a slot, from the slot alone. *)
workerForSlot(slot, workers) ==
  LET base      == RingSize \div workers
      extra     == RingSize % workers
      largeSpan == extra * (base + 1)
  IN  IF base = 0 \/ slot < largeSpan THEN slot \div (base + 1)
      ELSE extra + (slot - largeSpan) \div base
============================================================================
