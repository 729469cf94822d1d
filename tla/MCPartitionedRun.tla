-------------------------- MODULE MCPartitionedRun --------------------------
(* Coverage maps, and the campaigns that keep theirs in a checkpoint, over *)
(* one ring.                                                               *)
EXTENDS PartitionedRun, RingCoverage

(* Every second slot has seeds, and the first one is shared. *)
MCRingSlot == [s \in Seeds |-> 2 * (s % 3)]

(* Maps that a caller marks and merges as it likes, or campaigns: the two  *)
(* share no state, so that a behaviour is about one of them.               *)
MapsEmpty == \A m \in Maps : covered[m] = {}

NobodyRan == \A p \in Processes : worker[p] = << >>

RingInit == Init /\ CoverageInit

RingNext == \/ MapsEmpty /\ Next /\ UNCHANGED coverageVars
            \/ NobodyRan /\ CoverageNext /\ UNCHANGED vars

RingSpec == RingInit /\ [][RingNext]_<<vars, coverageVars>>
============================================================================
