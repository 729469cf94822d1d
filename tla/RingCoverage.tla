---------------------------- MODULE RingCoverage ----------------------------
(***************************************************************************)
(* The coverage map of contracts/crashlab-core/src/worker_partition.rs:    *)
(* RingCoverage keeps a normalised list of ranges; here every operation on *)
(* the list runs beside the same operation on a plain set of slots, which  *)
(* is what the callers take the list for.                                  *)
(***************************************************************************)
EXTENDS Sequences, FiniteSets, HashRing

CONSTANTS
  Maps           \* coverage maps that are marked and merged

VARIABLES
  ranges,        \* the list of ranges of each map
  covered        \* the set of slots each map stands for

coverageVars == <<ranges, covered>>

CoverageTypeOK ==
  /\ ranges \in [Maps -> Seq(RingRange)]
  /\ covered \in [Maps -> SUBSET Slots]

CoverageInit ==
  /\ ranges = [m \in Maps |-> << >>]
  /\ covered = [m \in Maps |-> {}]

----------------------------------------------------------------------------
(* Operations on a list of ranges.  A loop over a list is a function of    *)
(* how many of its elements were visited.                                  *)

(* The place of the k-th range after the stable sort by start. *)
Place(list, k) ==
  Cardinality({j \in DOMAIN list : \/ list[j].start < list[k].start
                                   \/ list[j].start = list[k].start /\ j <= k})

sortByStart(list) ==
  [i \in DOMAIN list |-> list[CHOOSE k \in DOMAIN list : Place(list, k) = i]]

Coalesced(r, s) ==
  [start |-> IF r.start <= s.start THEN r.start ELSE s.start,
   end   |-> IF r.end >= s.end THEN r.end ELSE s.end]

(* Mutant: a range that touches the new one is left on its own. *)
apartOverlapOnly(r, s) == r.end <= s.start \/ r.start >= s.end

(* Neither overlapping nor touching. *)
apart(r, s) == r.end < s.start \/ r.start > s.end

(* What is apart stays, the rest is swallowed. *)
Swallow(acc, existing) ==
  IF apart(existing, acc.merged)
    THEN [acc EXCEPT !.out = Append(@, existing)]
    ELSE [acc EXCEPT !.merged = Coalesced(@, existing)]

markRange(list, range) ==
  LET pass[i \in 0 .. Len(list)] ==
        IF i = 0 THEN [merged |-> range, out |-> << >>] ELSE Swallow(pass[i - 1], list[i])
      last == pass[Len(list)]
  IN  IF isEmpty(range) THEN list
      ELSE sortByStart(Append(last.out, last.merged))

(* The next slot goes on with the run, or begins another.  Before the      *)
(* first there is an empty run, which marks nothing.                       *)
Extend(acc, slot) ==
  IF slot = acc.end THEN [acc EXCEPT !.end = slot + 1]
  ELSE [list  |-> markRange(acc.list, [start |-> acc.start, end |-> acc.end]),
        start |-> slot, end |-> slot + 1]

(* The slots, in order and each once: all runs but the last are marked. *)
Runs(list, slots) ==
  LET pass[n \in 0 .. RingSize] ==
        IF n = 0 THEN [list |-> list, start |-> 0, end |-> 0]
        ELSE IF n - 1 \in slots THEN Extend(pass[n - 1], n - 1)
        ELSE pass[n - 1]
  IN  pass[RingSize]

(* Mutant: the last run is forgotten. *)
markSlotsUnfinished(list, slots) == Runs(list, slots).list

markSlots(list, slots) ==
  LET last == Runs(list, slots)
  IN  markRange(last.list, [start |-> last.start, end |-> last.end])

union(list, other) ==
  LET pass[i \in 0 .. Len(other)] ==
        IF i = 0 THEN list ELSE markRange(pass[i - 1], other[i])
  IN  pass[Len(other)]

(* Mutant: the cursor jumps to the end of a range that starts behind it.   *)
PastCoveredJump(acc, c, range) ==
  IF acc.cursor >= range.end \/ c.start >= range.end THEN acc
  ELSE [cursor |-> IF c.end <= range.end THEN c.end ELSE range.end,
        out    |-> IF c.start > acc.cursor
                     THEN Append(acc.out, [start |-> acc.cursor, end |-> c.start])
                     ELSE acc.out]

(* The cursor goes past a covered range, and what was before it is a gap.  *)
(* Where the loop breaks, the list being ordered, nothing more would       *)
(* change.                                                                 *)
PastCovered(acc, c, range) ==
  IF acc.cursor >= range.end \/ c.start >= range.end \/ c.end <= acc.cursor THEN acc
  ELSE [cursor |-> IF c.end <= range.end THEN c.end ELSE range.end,
        out    |-> IF c.start > acc.cursor
                     THEN Append(acc.out, [start |-> acc.cursor, end |-> c.start])
                     ELSE acc.out]

uncoveredWithin(list, range) ==
  LET pass[i \in 0 .. Len(list)] ==
        IF i = 0 THEN [cursor |-> range.start, out |-> << >>]
        ELSE PastCovered(pass[i - 1], list[i], range)
      last == pass[Len(list)]
  IN  IF isEmpty(range) THEN << >>
      ELSE IF last.cursor < range.end
             THEN Append(last.out, [start |-> last.cursor, end |-> range.end])
             ELSE last.out

----------------------------------------------------------------------------

MarkRange(m, range) ==
  /\ ranges' = [ranges EXCEPT ![m] = markRange(@, range)]
  /\ covered' = [covered EXCEPT ![m] = @ \cup SlotsOf(range)]

MarkSlots(m, slots) ==
  /\ ranges' = [ranges EXCEPT ![m] = markSlots(@, slots)]
  /\ covered' = [covered EXCEPT ![m] = @ \cup slots]

Union(m, other) ==
  /\ ranges' = [ranges EXCEPT ![m] = union(@, ranges[other])]
  /\ covered' = [covered EXCEPT ![m] = @ \cup covered[other]]

CoverageNext ==
  \E m \in Maps :
    \/ \E range \in RingRange : MarkRange(m, range)
    \/ \E slots \in SUBSET Slots : MarkSlots(m, slots)
    \/ \E other \in Maps : Union(m, other)

CoverageSpec == CoverageInit /\ [][CoverageNext]_coverageVars

----------------------------------------------------------------------------
(* Properties. *)

Covers(list) == UNION {SlotsOf(list[i]) : i \in DOMAIN list}

(* "`ranges` is ordered by `start`, every range is non-empty, and no two   *)
(* ranges overlap or merely touch" (lines 102-105), after any sequence of  *)
(* marks and merges, although mark_range looks at each range only once     *)
(* while the merged one grows.                                             *)
Normalised ==
  \A m \in Maps :
    /\ \A i \in DOMAIN ranges[m] : ~isEmpty(ranges[m][i])
    /\ \A i, j \in DOMAIN ranges[m] : i < j => ranges[m][i].end < ranges[m][j].start

(* The list stands for exactly the slots that were marked: no operation    *)
(* covers a slot nobody swept, or forgets one (lines 397-460).             *)
CoverageExact == \A m \in Maps : Covers(ranges[m]) = covered[m]

(* "The returned ranges are disjoint, ordered, and their union is exactly  *)
(* `range` minus the covered set" (lines 464-465), for every range.        *)
UncoveredExact ==
  \A m \in Maps : \A range \in RingRange :
    LET gaps == uncoveredWithin(ranges[m], range)
    IN  /\ Covers(gaps) = SlotsOf(range) \ covered[m]
        /\ \A i \in DOMAIN gaps : ~isEmpty(gaps[i])
        /\ \A i, j \in DOMAIN gaps : i < j => gaps[i].end <= gaps[j].start

(* A resume with any number of workers, also more of them than slots: each *)
(* slot that is not covered is left to one worker of the pool, the one     *)
(* worker_for_seed names, and a covered slot to nobody (lines 462-465,     *)
(* 498-501, 620-623).                                                      *)
OneWorkerLeft ==
  \A m \in Maps : \A workers \in 1 .. RingSize + 2 :
    \A worker \in 0 .. workers - 1 :
      Covers(uncoveredWithin(ranges[m], ringRangeFor(worker, workers)))
        = {slot \in Slots \ covered[m] : workerForSlot(slot, workers) = worker}
============================================================================
