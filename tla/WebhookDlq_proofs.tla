------------------------- MODULE WebhookDlq_proofs -------------------------
(***************************************************************************)
(* Proofs about the dead-letter queue, for every set of entries, hosts and *)
(* overlapping drains, and every cap, backoff and number of rounds.        *)
(***************************************************************************)
EXTENDS WebhookDlq, TLAPS

(* The steps of Next, with the bound variables typed. *)
LEMMA StepCases ==
  ASSUME [Next]_vars, TypeOK
  PROVE  \/ \E d \in Entries, reason \in {"retries-exhausted", "non-retryable"} :
              Add(d, reason)
         \/ \E d \in Entries : Evict(d)
         \/ \E k \in Drains : StartDrain(k)
         \/ \E k \in Drains : NextSlice(k)
         \/ \E k \in Drains : FinishDrain(k)
         \/ \E r \in replays : ReplayDelivered(r)
         \/ \E r \in replays, got \in BOOLEAN : ReplayFailed(r, got)
         \/ Crash
         \/ CrashInSave
         \/ Elapse
         \/ UNCHANGED vars
  BY DEF Next, Resume, ReplaySettles

(* What starting a slice does to the calls in flight. *)
LEMMA SliceEffect ==
  ASSUME TypeOK, NEW k \in Drains, NEW todo \in SUBSET Entries,
         NEW failed \in SUBSET Entries, BeginSlice(k, todo, failed)
  PROVE  \E slice \in SUBSET todo :
           /\ replays' = replays \cup replay(k, slice)
           /\ replay(k, slice) \subseteq Replay
           /\ drains' = [drains EXCEPT ![k] =
                [active |-> TRUE, todo |-> todo \ slice, failed |-> failed]]
<1>1. PICK slice \in SUBSET todo :
        /\ replays' = replays \cup replay(k, slice)
        /\ drains' = [drains EXCEPT ![k] =
             [active |-> TRUE, todo |-> todo \ slice, failed |-> failed]]
  BY DEF BeginSlice, Slices
<1>2. ASSUME NEW d \in slice, Present(d)
      PROVE  [drain |-> k, id |-> d, entry |-> entries[d]] \in Replay
  BY <1>2 DEF TypeOK, Present, Replay
<1>3. replay(k, slice) \subseteq Replay
  BY <1>2 DEF replay
<1>4. QED
  BY <1>1, <1>3

(* Writing back a failed replay yields an entry. *)
LEMMA WriteBackIsEntry ==
  ASSUME NEW e \in Entry
  PROVE  /\ [e EXCEPT !.replayAttempts = @ + 1] \in Entry
         /\ [e EXCEPT !.replayAttempts = @ + 1].replayAttempts = e.replayAttempts + 1
         /\ [e EXCEPT !.replayAttempts = @ + 1].status = e.status
  BY DEF Entry

(* So does parking, pushing out and letting time pass. *)
LEMMA DrainedIsEntry ==
  ASSUME NEW e \in Entry, NEW delay \in 0 .. DrainBackoffMax
  PROVE  /\ Park(e) \in Entry
         /\ Park(e).status = "parked"
         /\ Park(e).replayAttempts = e.replayAttempts
         /\ [e EXCEPT !.wait = delay] \in Entry
         /\ [e EXCEPT !.wait = delay].replayAttempts = e.replayAttempts
         /\ [e EXCEPT !.wait = delay].status = e.status
<1>1. 0 \in 0 .. DrainBackoffMax
  BY DlqAssumption
<1>2. QED
  BY <1>1 DEF Park, Entry

LEMMA ElapsedIsEntry ==
  ASSUME NEW e \in Entry
  PROVE  /\ [e EXCEPT !.wait = Less(@)] \in Entry
         /\ [e EXCEPT !.wait = Less(@)].replayAttempts = e.replayAttempts
         /\ [e EXCEPT !.wait = Less(@)].status = e.status
<1>1. Less(e.wait) \in 0 .. DrainBackoffMax
  BY DlqAssumption DEF Entry, Less
<1>2. QED
  BY <1>1 DEF Entry

(* The variables keep their types in every reachable state. *)
THEOREM TypeCorrect == Spec => []TypeOK
<1> USE DlqAssumption
<1>1. Init => TypeOK
  BY DEF Init, TypeOK, Idle, Drain
<1>2. TypeOK /\ [Next]_vars => TypeOK'
  <2> SUFFICES ASSUME TypeOK, [Next]_vars PROVE TypeOK'
    OBVIOUS
  <2>1. ASSUME NEW d \in Entries,
               NEW reason \in {"retries-exhausted", "non-retryable"}, Add(d, reason)
        PROVE  TypeOK'
    <3>1. adds[d] + 1 \in 1 .. MaxAdds /\ adds[d] + 1 \in 0 .. MaxAdds
      BY <2>1 DEF Add, TypeOK
    <3>2. [reason |-> reason, status |-> "pending", wait |-> 0,
           replayAttempts |-> 0, timeline |-> adds[d] + 1] \in Entry
      BY <3>1 DEF Entry
    <3>3. QED
      BY <2>1, <3>1, <3>2 DEF Add, TypeOK
  <2>2. ASSUME NEW d \in Entries, Evict(d) PROVE TypeOK'
    BY <2>2 DEF Evict, TypeOK
  <2>3. ASSUME NEW k \in Drains, NEW todo \in SUBSET Entries,
               NEW failed \in SUBSET Entries, BeginSlice(k, todo, failed)
        PROVE  drains' \in [Drains -> Drain] /\ replays' \subseteq Replay
    <3>1. PICK slice \in SUBSET todo :
            /\ replays' = replays \cup replay(k, slice)
            /\ replay(k, slice) \subseteq Replay
            /\ drains' = [drains EXCEPT ![k] =
                 [active |-> TRUE, todo |-> todo \ slice, failed |-> failed]]
      BY <2>3, SliceEffect
    <3>2. [active |-> TRUE, todo |-> todo \ slice, failed |-> failed] \in Drain
      BY DEF Drain
    <3>3. QED
      BY <3>1, <3>2 DEF TypeOK
  <2>4. ASSUME NEW k \in Drains, StartDrain(k) PROVE TypeOK'
    BY <2>3, <2>4 DEF StartDrain, TypeOK
  <2>5. ASSUME NEW k \in Drains, NextSlice(k) PROVE TypeOK'
    <3>1. drains[k].todo \in SUBSET Entries /\ drains[k].failed \in SUBSET Entries
      BY DEF TypeOK, Drain
    <3>2. QED
      BY <2>3, <2>5, <3>1 DEF NextSlice, TypeOK
  <2>6. ASSUME NEW r \in replays
        PROVE  /\ r.id \in Entries
               /\ r.drain \in Drains
               /\ r.entry \in Entry
               /\ deriveReplayKey(r) \in Entries \X Nat
    BY DEF TypeOK, Replay, Entry, deriveReplayKey
  <2>7. ASSUME NEW r \in replays, ReplayDelivered(r) PROVE TypeOK'
    BY <2>6, <2>7 DEF ReplayDelivered, TypeOK
  <2>8. ASSUME NEW r \in replays, NEW got \in BOOLEAN, ReplayFailed(r, got)
        PROVE  TypeOK'
    <3>1. entries' \in [Entries -> Entry \cup {NoEntry}]
      BY <2>6, <2>8, WriteBackIsEntry DEF ReplayFailed, WriteBack, TypeOK
    <3>2. drains' \in [Drains -> Drain]
      BY <2>6, <2>8 DEF ReplayFailed, TypeOK, Drain
    <3>3. accepted' \subseteq Entries \X Nat
      BY <2>6, <2>8 DEF ReplayFailed, TypeOK
    <3>4. QED
      BY <2>8, <3>1, <3>2, <3>3 DEF ReplayFailed, TypeOK
  <2>9. ASSUME NEW k \in Drains, FinishDrain(k) PROVE TypeOK'
    <3>1. PICK delay \in [drains[k].failed -> 0 .. DrainBackoffMax] :
            entries' = [d \in Entries |->
              IF d \in drains[k].failed /\ Present(d)
                THEN IF RoundsSpent(entries[d]) THEN Park(entries[d])
                     ELSE [entries[d] EXCEPT !.wait = delay[d]]
                ELSE entries[d]]
      BY <2>9 DEF FinishDrain
    <3>2. entries' \in [Entries -> Entry \cup {NoEntry}]
      BY <3>1, DrainedIsEntry DEF TypeOK, Present
    <3>3. Idle \in Drain
      BY DEF Idle, Drain
    <3>4. QED
      BY <2>9, <3>2, <3>3 DEF FinishDrain, TypeOK
  <2>10. CASE Crash \/ CrashInSave
    <3>1. Idle \in Drain
      BY DEF Idle, Drain
    <3>2. accepted' \subseteq Entries \X Nat
      BY <2>6, <2>10 DEF Crash, CrashInSave, Die, TypeOK
    <3>3. QED
      BY <2>10, <3>1, <3>2 DEF Crash, CrashInSave, Die, TypeOK
  <2>11. CASE Elapse
    <3>1. entries' \in [Entries -> Entry \cup {NoEntry}]
      BY <2>11, ElapsedIsEntry DEF Elapse, TypeOK, Present
    <3>2. QED
      BY <2>11, <3>1 DEF Elapse, TypeOK
  <2>12. CASE UNCHANGED vars
    BY <2>12 DEF vars, TypeOK
  <2>13. QED
    BY <2>1, <2>2, <2>4, <2>5, <2>7, <2>8, <2>9, <2>10, <2>11, <2>12, StepCases
<1>3. QED
  BY <1>1, <1>2, PTL DEF Spec
----------------------------------------------------------------------------

(* Every step keeps a dead letter in the list, or settles it, or is a      *)
(* death in the middle of a save.                                          *)
LEMMA DeadLetterKept ==
  ASSUME TypeOK, [Next]_vars, NEW d \in Entries, Present(d)
  PROVE  Present(d)' \/ Settled(d)' \/ ListTorn
<1> USE DlqAssumption
<1>1. ASSUME NEW e \in Entries,
             NEW reason \in {"retries-exhausted", "non-retryable"}, Add(e, reason)
      PROVE  Present(d)'
  <2>1. adds[e] + 1 \in 1 .. MaxAdds
    BY <1>1 DEF Add, TypeOK
  <2>2. [reason |-> reason, status |-> "pending", wait |-> 0,
         replayAttempts |-> 0, timeline |-> adds[e] + 1] \in Entry
    BY <2>1 DEF Entry
  <2>3. QED
    BY <1>1, <2>2, NoEntryAssumption DEF Add, TypeOK, Present
<1>2. ASSUME NEW e \in Entries, Evict(e)
      PROVE  Present(d)' \/ Settled(d)'
  BY <1>2 DEF Evict, TypeOK, Present, Settled
<1>3. ASSUME NEW k \in Drains, FinishDrain(k)
      PROVE  Present(d)'
  <2>1. PICK delay \in [drains[k].failed -> 0 .. DrainBackoffMax] :
          entries' = [e \in Entries |->
            IF e \in drains[k].failed /\ Present(e)
              THEN IF RoundsSpent(entries[e]) THEN Park(entries[e])
                   ELSE [entries[e] EXCEPT !.wait = delay[e]]
              ELSE entries[e]]
    BY <1>3 DEF FinishDrain
  <2>2. Present(d) => entries[d] \in Entry
    BY DEF TypeOK, Present
  <2>3. ASSUME Present(d) PROVE entries'[d] \in Entry
    <3>1. CASE d \in drains[k].failed
      BY <2>1, <2>2, <2>3, <3>1, DrainedIsEntry
    <3>2. CASE d \notin drains[k].failed
      BY <2>1, <2>2, <2>3, <3>2
    <3>3. QED
      BY <3>1, <3>2
  <2>4. QED
    BY <2>3, NoEntryAssumption DEF Present
<1>4. ASSUME NEW r \in replays, ReplayDelivered(r)
      PROVE  Present(d)' \/ Settled(d)'
  <2>1. r.id \in Entries /\ deriveReplayKey(r)[1] = r.id
    BY DEF TypeOK, Replay, deriveReplayKey
  <2>2. deriveReplayKey(r) \in accepted' /\ entries' = [entries EXCEPT ![r.id] = NoEntry]
    BY <1>4 DEF ReplayDelivered
  <2>3. QED
    BY <2>1, <2>2 DEF TypeOK, Present, Settled
<1>5. ASSUME NEW r \in replays, NEW got \in BOOLEAN, ReplayFailed(r, got)
      PROVE  Present(d)'
  <2>1. r.id \in Entries /\ [r.entry EXCEPT !.replayAttempts = @ + 1] \in Entry
    BY WriteBackIsEntry DEF TypeOK, Replay
  <2>2. QED
    BY <1>5, <2>1, NoEntryAssumption DEF ReplayFailed, WriteBack, TypeOK, Present
<1>6. ASSUME Elapse PROVE Present(d)'
  <2>1. Present(d) => entries[d] \in Entry
    BY DEF TypeOK, Present
  <2>2. ASSUME Present(d) PROVE entries'[d] \in Entry
    <3>1. entries'[d] = [entries[d] EXCEPT !.wait = Less(@)]
      BY <1>6, <2>2 DEF Elapse
    <3>2. QED
      BY <2>1, <2>2, <3>1, ElapsedIsEntry
  <2>3. QED
    BY <2>2, NoEntryAssumption DEF Present
<1>7. CASE UNCHANGED entries
  BY <1>7 DEF Present
<1>8. ASSUME CrashInSave PROVE ListTorn
  <2>1. crashes \in Nat
    BY DEF TypeOK
  <2>2. QED
    BY <1>8, <2>1 DEF CrashInSave, Die, ListTorn, Present
<1>9. QED
  BY <1>1, <1>2, <1>3, <1>4, <1>5, <1>6, <1>7, <1>8, StepCases
     DEF StartDrain, NextSlice, Crash, vars

(* A delivery that was dead-lettered stays in the list until a receiver    *)
(* accepted it or a manual retry took it over, whatever stale copies       *)
(* overlapping replays and drains write back, and through deaths that do   *)
(* not fall into a save; one that does loses the whole list.               *)
THEOREM DeadLettersKept == Spec => NoDeadLetterLost
<1>1. TypeOK /\ [Next]_vars =>
        [\A d \in Entries : Present(d) /\ ~Present(d)' => Settled(d)' \/ ListTorn]_vars
  BY DeadLetterKept
<1>2. QED
  BY <1>1, TypeCorrect, PTL DEF Spec, NoDeadLetterLost
----------------------------------------------------------------------------

(* The ids that a slice starts replaying were not being replayed. *)
LEMMA ReplayIds ==
  ASSUME NEW k, NEW slice, NEW r \in replay(k, slice)
  PROVE  /\ r.id \in slice
         /\ r.id \notin inFlight
         /\ r.drain = k
         /\ Present(r.id)
         /\ r.entry = entries[r.id]
         /\ \A s \in replay(k, slice) : s.id = r.id => s = r
  BY DEF replay

(* The lock keeps replays of one entry apart, whatever the drains do. *)
THEOREM ReplayLock == Spec => []OneReplayPerEntry
<1>1. Init => OneReplayPerEntry
  BY DEF Init, OneReplayPerEntry
<1>2. TypeOK /\ OneReplayPerEntry /\ [Next]_vars => OneReplayPerEntry'
  <2> SUFFICES ASSUME TypeOK, OneReplayPerEntry, [Next]_vars
               PROVE  OneReplayPerEntry'
    OBVIOUS
  <2>1. ASSUME NEW k \in Drains, NEW todo \in SUBSET Entries,
               NEW failed \in SUBSET Entries, BeginSlice(k, todo, failed)
        PROVE  OneReplayPerEntry'
    <3>1. PICK slice \in SUBSET todo : replays' = replays \cup replay(k, slice)
      BY <2>1, SliceEffect
    <3>2. QED
      BY <3>1, ReplayIds DEF OneReplayPerEntry, inFlight
  <2>2. CASE \E k \in Drains : StartDrain(k)
    BY <2>1, <2>2 DEF StartDrain
  <2>3. ASSUME NEW k \in Drains, NextSlice(k)
        PROVE  OneReplayPerEntry'
    <3>1. drains[k].todo \in SUBSET Entries /\ drains[k].failed \in SUBSET Entries
      BY DEF TypeOK, Drain
    <3>2. QED
      BY <2>1, <2>3, <3>1 DEF NextSlice
  <2>4. CASE replays' \subseteq replays
    BY <2>4 DEF OneReplayPerEntry
  <2>5. QED
    BY <2>2, <2>3, <2>4, StepCases
       DEF Add, Evict, FinishDrain, ReplayDelivered, ReplayFailed, Crash, CrashInSave, Die, Elapse, vars
<1>3. QED
  BY <1>1, <1>2, TypeCorrect, PTL DEF Spec
----------------------------------------------------------------------------

(* Every replay belongs to a drain that is still running. *)
ReplaysOwned == \A r \in replays : drains[r.drain].active

LEMMA ReplaysOwnedStep ==
  ASSUME TypeOK, ReplaysOwned, [Next]_vars
  PROVE  ReplaysOwned'
<1> USE DEF ReplaysOwned
<1>0. \A r \in replays : r.drain \in Drains
  BY DEF TypeOK, Replay
<1>1. ASSUME NEW k \in Drains, NEW todo \in SUBSET Entries,
             NEW failed \in SUBSET Entries, BeginSlice(k, todo, failed)
      PROVE  ReplaysOwned'
  <2>1. PICK slice \in SUBSET todo :
          /\ replays' = replays \cup replay(k, slice)
          /\ replay(k, slice) \subseteq Replay
          /\ drains' = [drains EXCEPT ![k] =
               [active |-> TRUE, todo |-> todo \ slice, failed |-> failed]]
    BY <1>1, SliceEffect
  <2>2. drains'[k].active /\ \A j \in Drains : j # k => drains'[j] = drains[j]
    BY <2>1 DEF TypeOK
  <2>3. QED
    BY <1>0, <2>1, <2>2, ReplayIds
<1>2. CASE \E k \in Drains : StartDrain(k)
  BY <1>1, <1>2 DEF StartDrain
<1>3. ASSUME NEW k \in Drains, NextSlice(k) PROVE ReplaysOwned'
  <2>1. drains[k].todo \in SUBSET Entries /\ drains[k].failed \in SUBSET Entries
    BY DEF TypeOK, Drain
  <2>2. QED
    BY <1>1, <1>3, <2>1 DEF NextSlice
<1>4. ASSUME NEW k \in Drains, FinishDrain(k) PROVE ReplaysOwned'
  BY <1>0, <1>4 DEF FinishDrain, Resumable, TypeOK
<1>5. ASSUME NEW r \in replays, NEW got \in BOOLEAN, ReplayFailed(r, got)
      PROVE  ReplaysOwned'
  <2>1. \A k \in Drains : drains'[k].active = drains[k].active
    BY <1>0, <1>5 DEF ReplayFailed, TypeOK, Drain
  <2>2. QED
    BY <1>0, <1>5, <2>1 DEF ReplayFailed
<1>6. CASE UNCHANGED drains /\ replays' \subseteq replays
  BY <1>6
<1>7. CASE Crash \/ CrashInSave
  BY <1>7 DEF Crash, CrashInSave, Die
<1>8. QED
  BY <1>2, <1>3, <1>4, <1>5, <1>6, <1>7, StepCases
     DEF Add, Evict, ReplayDelivered, Elapse, vars

LEMMA SpentStep ==
  ASSUME TypeOK, TypeOK', ReplaysOwned, SpentInv, [Next]_vars
  PROVE  SpentInv'
<1> USE DlqAssumption
<1>1. ASSUME NEW d \in Entries,
             NEW reason \in {"retries-exhausted", "non-retryable"}, Add(d, reason)
      PROVE  SpentInv'
  <2>1. entries'[d].replayAttempts = 0
    BY <1>1 DEF Add, TypeOK
  <2>2. \A e \in Entries : e # d => entries'[e] = entries[e]
    BY <1>1 DEF Add, TypeOK
  <2>3. UNCHANGED <<drains, crashes>>
    BY <1>1 DEF Add
  <2>4. QED
    BY <2>1, <2>2, <2>3 DEF SpentInv, Spent, Present
<1>2. ASSUME UNCHANGED <<drains, crashes>>,
             \A e \in Entries : entries'[e] = entries[e] \/ entries'[e] = NoEntry
      PROVE  SpentInv'
  BY <1>2 DEF SpentInv, Spent, Present
<1>3. ASSUME NEW k \in Drains, NEW todo \in SUBSET Entries, NEW failed \in SUBSET Entries,
             BeginSlice(k, todo, failed),
             drains[k].active => failed = drains[k].failed,
             UNCHANGED <<entries, crashes>>
      PROVE  SpentInv'
  <2>1. PICK slice \in SUBSET todo :
          /\ replays' = replays \cup replay(k, slice)
          /\ replay(k, slice) \subseteq Replay
          /\ drains' = [drains EXCEPT ![k] =
               [active |-> TRUE, todo |-> todo \ slice, failed |-> failed]]
    BY <1>3, SliceEffect
  <2>2. /\ drains'[k].active
        /\ drains'[k].failed = failed
        /\ \A j \in Drains : j # k => drains'[j] = drains[j]
    BY <2>1 DEF TypeOK
  <2>3. QED
    BY <1>3, <2>2 DEF SpentInv, Spent, Present
<1>4. ASSUME NEW k \in Drains, StartDrain(k) PROVE SpentInv'
  <2>1. PICK todo \in SUBSET Entries : BeginSlice(k, todo, {})
    BY <1>4 DEF StartDrain
  <2>2. QED
    BY <1>3, <1>4, <2>1 DEF StartDrain
<1>5. ASSUME NEW k \in Drains, NextSlice(k) PROVE SpentInv'
  <2>1. drains[k].todo \in SUBSET Entries /\ drains[k].failed \in SUBSET Entries
    BY DEF TypeOK, Drain
  <2>2. QED
    BY <1>3, <1>5, <2>1 DEF NextSlice
<1>6. ASSUME NEW k \in Drains, FinishDrain(k) PROVE SpentInv'
  <2>1. PICK delay \in [drains[k].failed -> 0 .. DrainBackoffMax] :
          entries' = [d \in Entries |->
            IF d \in drains[k].failed /\ Present(d)
              THEN IF RoundsSpent(entries[d]) THEN Park(entries[d])
                   ELSE [entries[d] EXCEPT !.wait = delay[d]]
              ELSE entries[d]]
    BY <1>6 DEF FinishDrain
  <2>2. \A j \in Drains : j # k => drains'[j] = drains[j]
    BY <1>6 DEF FinishDrain, TypeOK
  <2>3. ASSUME NEW d \in Entries, Spent(d)'
        PROVE  Spent(d) /\ d \notin drains[k].failed
    <3>1. CASE d \in drains[k].failed /\ Present(d)
      <4>1. entries[d] \in Entry
        BY <3>1 DEF TypeOK, Present
      <4>2. delay[d] \in 0 .. DrainBackoffMax
        BY <3>1
      <4>3. CASE RoundsSpent(entries[d])
        BY <2>1, <2>3, <3>1, <4>1, <4>2, <4>3, DrainedIsEntry DEF Spent
      <4>4. CASE ~RoundsSpent(entries[d])
        BY <2>1, <2>3, <3>1, <4>1, <4>2, <4>4, DrainedIsEntry DEF Spent, RoundsSpent
      <4>5. QED
        BY <4>3, <4>4
    <3>2. CASE ~(d \in drains[k].failed /\ Present(d))
      BY <2>1, <2>3, <3>2 DEF Spent, Present
    <3>3. QED
      BY <3>1, <3>2
  <2>4. QED
    BY <1>6, <2>2, <2>3 DEF SpentInv, FinishDrain
<1>7. ASSUME NEW r \in replays, NEW got \in BOOLEAN, ReplayFailed(r, got)
      PROVE  SpentInv'
  <2>1. r.id \in Entries /\ r.drain \in Drains
    BY DEF TypeOK, Replay
  <2>2. /\ \A k \in Drains : /\ drains'[k].active = drains[k].active
                             /\ drains[k].failed \subseteq drains'[k].failed
        /\ r.id \in drains'[r.drain].failed
    BY <1>7, <2>1 DEF ReplayFailed, TypeOK, Drain
  <2>3. \A e \in Entries : e # r.id => entries'[e] = entries[e]
    BY <1>7, <2>1 DEF ReplayFailed, WriteBack, TypeOK
  <2>4. crashes' = crashes
    BY <1>7 DEF ReplayFailed
  <2>5. ASSUME crashes = 0, NEW d \in Entries, Spent(d)'
        PROVE  \E k \in Drains : drains'[k].active /\ d \in drains'[k].failed
    <3>1. CASE d = r.id
      BY <2>1, <2>2, <3>1 DEF ReplaysOwned
    <3>2. CASE d # r.id
      <4>1. Spent(d)
        BY <2>3, <2>5, <3>2 DEF Spent, Present
      <4>2. PICK k \in Drains : drains[k].active /\ d \in drains[k].failed
        BY <2>5, <4>1 DEF SpentInv
      <4>3. QED
        BY <2>2, <4>2
    <3>3. QED
      BY <3>1, <3>2
  <2>6. QED
    BY <2>4, <2>5 DEF SpentInv
<1>8. CASE Crash \/ CrashInSave
  BY <1>8 DEF Crash, CrashInSave, Die, SpentInv, TypeOK
<1>9. CASE Elapse
  <2>1. ASSUME NEW d \in Entries, Spent(d)' PROVE Spent(d)
    BY <1>9, <2>1, ElapsedIsEntry DEF Elapse, Spent, Present, TypeOK
  <2>2. QED
    BY <1>9, <2>1 DEF Elapse, SpentInv
<1>10. ASSUME NEW r \in replays, ReplayDelivered(r) PROVE SpentInv'
  BY <1>2, <1>10 DEF ReplayDelivered, TypeOK, Replay
<1>11. ASSUME NEW d \in Entries, Evict(d) PROVE SpentInv'
  BY <1>2, <1>11 DEF Evict, TypeOK
<1>12. CASE UNCHANGED vars
  BY <1>2, <1>12 DEF vars
<1>13. QED
  BY <1>1, <1>4, <1>5, <1>6, <1>7, <1>8, <1>9, <1>10, <1>11, <1>12, StepCases

(* However drains overlap and overwrite each other, once they have all     *)
(* returned every entry that failed all its rounds is parked.              *)
THEOREM SpentParked == Spec => []SpentEntriesParked
<1>1. Init => ReplaysOwned /\ SpentInv
  BY DEF Init, ReplaysOwned, SpentInv, Spent, Present
<1>2. /\ TypeOK /\ TypeOK'
      /\ ReplaysOwned /\ SpentInv
      /\ [Next]_vars
      => ReplaysOwned' /\ SpentInv'
  BY ReplaysOwnedStep, SpentStep
<1>3. SpentInv => SpentEntriesParked
  BY DEF SpentInv, SpentEntriesParked
<1>4. QED
  BY <1>1, <1>2, <1>3, TypeCorrect, PTL DEF Spec
----------------------------------------------------------------------------
(* One drain at a time. *)

(* The parts of SoleDrainInv: the places of an id, the calls, the list. *)
PlacesInv(k) ==
  /\ drains[k].todo \cap drains[k].failed = {}
  /\ drains[k].todo \cap inFlight = {}
  /\ drains[k].failed \cap inFlight = {}
  /\ ~drains[k].active => drains[k] = Idle
  /\ \A d \in drains[k].todo : Present(d) => entries[d].status = "pending"

CallInv(r) ==
  /\ drains[r.drain].active
  /\ r.entry.status = "pending"
  /\ r.entry.replayAttempts < ParkAfterRounds + crashes

RoundsInv(d) ==
  Present(d) =>
    /\ entries[d].replayAttempts <= ParkAfterRounds + crashes
    /\ \/ entries[d].status = "parked"
       \/ entries[d].replayAttempts < ParkAfterRounds + crashes
       \/ \E k \in Drains : d \in drains[k].failed

LEMMA SoleDrainParts ==
  /\ SoleDrainInv <=> /\ \A k \in Drains : PlacesInv(k)
                      /\ \A r \in replays : CallInv(r)
                      /\ \A d \in Entries : RoundsInv(d)
  BY DEF SoleDrainInv, PlacesInv, CallInv, RoundsInv

LEMMA SliceKeepsSoleDrain ==
  ASSUME SoleDrain, TypeOK, SoleDrainInv,
         NEW k \in Drains, NEW todo \in SUBSET Entries,
         BeginSlice(k, todo, drains[k].failed),
         UNCHANGED <<entries, crashes>>,
         todo \cap drains[k].failed = {},
         todo \cap inFlight = {},
         \A d \in todo : Present(d) => entries[d].status = "pending"
  PROVE  SoleDrainInv'
<1> USE DlqAssumption
<1>0. /\ drains[k].failed \in SUBSET Entries
      /\ drains[k].failed \cap inFlight = {}
      /\ crashes \in Nat
      /\ \A d \in Entries : Present(d) => entries[d] \in Entry
  BY DEF TypeOK, Drain, SoleDrainInv, Present
<1>1. PICK slice \in SUBSET todo :
        /\ replays' = replays \cup replay(k, slice)
        /\ replay(k, slice) \subseteq Replay
        /\ drains' = [drains EXCEPT ![k] =
             [active |-> TRUE, todo |-> todo \ slice, failed |-> drains[k].failed]]
  BY <1>0, SliceEffect
<1>2. /\ drains'[k].active
      /\ drains'[k].todo = todo \ slice
      /\ drains'[k].failed = drains[k].failed
      /\ \A j \in Drains : j = k
  BY <1>1 DEF TypeOK, SoleDrain
<1>3. inFlight' \subseteq inFlight \cup slice
  BY <1>1, ReplayIds DEF inFlight
<1>4. \A j \in Drains : PlacesInv(j)'
  BY <1>0, <1>2, <1>3 DEF PlacesInv, Present
<1>5. ASSUME NEW r \in replays'
      PROVE  CallInv(r)'
  <2>1. CASE r \in replays
    <3>1. r.drain \in Drains
      BY <2>1 DEF TypeOK, Replay
    <3>2. QED
      BY <1>2, <2>1, <3>1, SoleDrainParts DEF CallInv
  <2>2. CASE r \in replay(k, slice)
    <3>1. /\ r.id \in slice
          /\ r.drain = k
          /\ Present(r.id)
          /\ r.entry = entries[r.id]
      BY <2>2, ReplayIds
    <3>2. r.id \in Entries /\ r.id \notin drains[k].failed
      BY <3>1
    <3>3. entries[r.id].status = "pending"
      BY <3>1
    <3>4. entries[r.id].replayAttempts < ParkAfterRounds + crashes
      BY <1>2, <3>1, <3>2, <3>3, SoleDrainParts DEF RoundsInv
    <3>5. QED
      BY <1>2, <3>1, <3>3, <3>4 DEF CallInv
  <2>3. QED
    BY <1>1, <2>1, <2>2
<1>6. \A d \in Entries : RoundsInv(d)'
  BY <1>2, SoleDrainParts DEF RoundsInv, Present
<1>7. QED
  BY <1>4, <1>5, <1>6, SoleDrainParts DEF SoleDrainInv, PlacesInv, CallInv, RoundsInv

LEMMA SoleDrainStep ==
  ASSUME SoleDrain, TypeOK, TypeOK', OneReplayPerEntry, SoleDrainInv, [Next]_vars
  PROVE  SoleDrainInv'
<1> USE DlqAssumption
<1>0. /\ crashes \in Nat /\ crashes' \in Nat
      /\ \A d \in Entries : Present(d) => entries[d] \in Entry
      /\ \A r \in replays : /\ r.drain \in Drains
                            /\ r.id \in Entries
                            /\ r.entry \in Entry
      /\ \A e \in Entry : e.replayAttempts \in Nat
  BY DEF TypeOK, Present, Replay, Entry
<1>a. /\ \A k \in Drains : PlacesInv(k)
      /\ \A r \in replays : CallInv(r)
      /\ \A d \in Entries : RoundsInv(d)
  BY SoleDrainParts
<1>1. ASSUME NEW d \in Entries,
             NEW reason \in {"retries-exhausted", "non-retryable"}, Add(d, reason)
      PROVE  SoleDrainInv'
  <2>1. /\ UNCHANGED <<drains, replays, crashes>>
        /\ inFlight' = inFlight
        /\ entries'[d].status = "pending"
        /\ entries'[d].replayAttempts = 0
        /\ \A e \in Entries : e # d => entries'[e] = entries[e]
    BY <1>1 DEF Add, TypeOK, inFlight
  <2>2. \A k \in Drains : drains[k].todo \in SUBSET Entries
    BY DEF TypeOK, Drain
  <2>3. \A k \in Drains : PlacesInv(k)'
    BY <1>a, <2>1, <2>2 DEF PlacesInv, Present
  <2>4. \A r \in replays' : CallInv(r)'
    BY <1>a, <2>1 DEF CallInv
  <2>5. \A e \in Entries : RoundsInv(e)'
    BY <1>0, <1>a, <2>1 DEF RoundsInv, Present
  <2>6. QED
    BY <2>3, <2>4, <2>5 DEF SoleDrainInv, PlacesInv, CallInv, RoundsInv
<1>2. ASSUME UNCHANGED <<drains, crashes>>, replays' \subseteq replays,
             \A e \in Entries :
               \/ entries'[e] = NoEntry
               \/ /\ Present(e)
                  /\ entries'[e].status = entries[e].status
                  /\ entries'[e].replayAttempts = entries[e].replayAttempts
      PROVE  SoleDrainInv'
  <2>1. inFlight' \subseteq inFlight
    BY <1>2 DEF inFlight
  <2>2. \A k \in Drains : drains[k].todo \in SUBSET Entries
    BY DEF TypeOK, Drain
  <2>3. \A k \in Drains : PlacesInv(k)'
    BY <1>2, <1>a, <2>1, <2>2 DEF PlacesInv, Present
  <2>4. \A r \in replays' : CallInv(r)'
    BY <1>2, <1>a DEF CallInv
  <2>5. \A e \in Entries : RoundsInv(e)'
    BY <1>2, <1>a DEF RoundsInv, Present
  <2>6. QED
    BY <2>3, <2>4, <2>5 DEF SoleDrainInv, PlacesInv, CallInv, RoundsInv
<1>3. ASSUME NEW k \in Drains, StartDrain(k) PROVE SoleDrainInv'
  <2>1. PICK selected \in SUBSET Entries :
          /\ \A d \in selected : isDue(d)
          /\ BeginSlice(k, selected, {})
    BY <1>3 DEF StartDrain, Selectable
  <2>2. drains[k].failed = {}
    BY <1>3, <1>a DEF StartDrain, PlacesInv, Idle
  <2>3. QED
    BY <1>3, <2>1, <2>2, SliceKeepsSoleDrain DEF StartDrain, isDue
<1>4. ASSUME NEW k \in Drains, NextSlice(k) PROVE SoleDrainInv'
  <2>1. drains[k].todo \in SUBSET Entries
    BY DEF TypeOK, Drain
  <2>2. QED
    BY <1>4, <1>a, <2>1, SliceKeepsSoleDrain DEF NextSlice, PlacesInv
<1>5. ASSUME NEW k \in Drains, FinishDrain(k) PROVE SoleDrainInv'
  <2>1. PICK delay \in [drains[k].failed -> 0 .. DrainBackoffMax] :
          entries' = [d \in Entries |->
            IF d \in drains[k].failed /\ Present(d)
              THEN IF RoundsSpent(entries[d]) THEN Park(entries[d])
                   ELSE [entries[d] EXCEPT !.wait = delay[d]]
              ELSE entries[d]]
    BY <1>5 DEF FinishDrain
  <2>2. /\ \A j \in Drains : drains'[j] = Idle
        /\ replays = {} /\ replays' = {}
        /\ crashes' = crashes
    BY <1>0, <1>5 DEF FinishDrain, Resumable, SoleDrain, TypeOK
  <2>3. \A j \in Drains : PlacesInv(j)'
    BY <2>2 DEF PlacesInv, Idle, inFlight
  <2>4. ASSUME NEW d \in Entries
        PROVE  RoundsInv(d)'
    <3>1. CASE d \in drains[k].failed /\ Present(d)
      <4>1. entries[d] \in Entry /\ delay[d] \in 0 .. DrainBackoffMax
        BY <1>0, <3>1
      <4>2. CASE RoundsSpent(entries[d])
        BY <1>a, <2>1, <2>2, <3>1, <4>1, <4>2, DrainedIsEntry DEF RoundsInv
      <4>3. CASE ~RoundsSpent(entries[d])
        BY <1>0, <2>1, <2>2, <3>1, <4>1, <4>3, DrainedIsEntry DEF RoundsInv, RoundsSpent
      <4>4. QED
        BY <4>2, <4>3
    <3>2. CASE ~(d \in drains[k].failed /\ Present(d))
      BY <1>a, <2>1, <2>2, <3>2 DEF RoundsInv, SoleDrain, Present
    <3>3. QED
      BY <3>1, <3>2
  <2>5. QED
    BY <2>2, <2>3, <2>4 DEF SoleDrainInv, PlacesInv, CallInv, RoundsInv
<1>6. ASSUME NEW r \in replays, NEW got \in BOOLEAN, ReplayFailed(r, got)
      PROVE  SoleDrainInv'
  <2>1. /\ \A k \in Drains : /\ drains'[k].active = drains[k].active
                             /\ drains'[k].todo = drains[k].todo
                             /\ drains'[k].failed = drains[k].failed \cup {r.id}
        /\ replays' = replays \ {r}
        /\ crashes' = crashes
    BY <1>0, <1>6 DEF ReplayFailed, SoleDrain, TypeOK, Drain
  <2>2. r.id \in inFlight /\ inFlight' = inFlight \ {r.id}
    BY <2>1 DEF inFlight, OneReplayPerEntry
  <2>3. /\ \A e \in Entries : e # r.id => entries'[e] = entries[e]
        /\ entries'[r.id] = IF Present(r.id)
                              THEN [r.entry EXCEPT !.replayAttempts = @ + 1] ELSE NoEntry
    BY <1>0, <1>6 DEF ReplayFailed, WriteBack, TypeOK
  <2>4. ASSUME NEW k \in Drains PROVE PlacesInv(k)'
    <3>1. PlacesInv(k) /\ CallInv(r) /\ r.drain = k
      BY <1>0, <1>a DEF SoleDrain
    <3>2. drains'[k].active
      BY <2>1, <3>1 DEF CallInv
    <3>3. drains[k].todo \in SUBSET Entries
      BY DEF TypeOK, Drain
    <3>4. \A d \in drains[k].todo : d # r.id /\ entries'[d] = entries[d]
      BY <2>2, <2>3, <3>1, <3>3 DEF PlacesInv
    <3>5. QED
      BY <2>1, <2>2, <3>1, <3>2, <3>4 DEF PlacesInv, Present
  <2>5. \A q \in replays' : CallInv(q)'
    BY <1>0, <1>a, <2>1 DEF CallInv
  <2>6. ASSUME NEW d \in Entries PROVE RoundsInv(d)'
    <3>1. CASE d = r.id
      <4>1. r.entry \in Entry /\ r.entry.replayAttempts < ParkAfterRounds + crashes
        BY <1>0, <1>a DEF CallInv
      <4>2. r.id \in drains'[r.drain].failed /\ r.drain \in Drains
        BY <1>0, <2>1
      <4>3. Present(d)' => entries'[d].replayAttempts = r.entry.replayAttempts + 1
        BY <2>3, <3>1, <4>1, WriteBackIsEntry DEF Present
      <4>4. QED
        BY <1>0, <2>1, <3>1, <4>1, <4>2, <4>3 DEF RoundsInv
    <3>2. CASE d # r.id
      <4>1. RoundsInv(d) /\ entries'[d] = entries[d]
        BY <1>a, <2>3, <3>2
      <4>2. \A k \in Drains : d \in drains[k].failed => d \in drains'[k].failed
        BY <2>1
      <4>3. QED
        BY <2>1, <4>1, <4>2 DEF RoundsInv, Present
    <3>3. QED
      BY <3>1, <3>2
  <2>7. QED
    BY <2>4, <2>5, <2>6 DEF SoleDrainInv, PlacesInv, CallInv, RoundsInv
<1>7. CASE Crash \/ CrashInSave
  <2>1. /\ \A k \in Drains : drains'[k] = Idle
        /\ replays' = {}
        /\ crashes' = crashes + 1
        /\ \A d \in Entries : entries'[d] \in {entries[d], NoEntry}
    BY <1>7 DEF Crash, CrashInSave, Die
  <2>2. \A k \in Drains : PlacesInv(k)'
    BY <2>1 DEF PlacesInv, Idle, inFlight
  <2>3. ASSUME NEW d \in Entries PROVE RoundsInv(d)'
    <3>1. Present(d) => entries[d].replayAttempts \in Nat
      BY <1>0
    <3>2. Present(d) => entries[d].replayAttempts <= ParkAfterRounds + crashes
      BY <1>a DEF RoundsInv
    <3>3. QED
      BY <1>0, <2>1, <3>1, <3>2 DEF RoundsInv, Present
  <2>4. QED
    BY <2>1, <2>2, <2>3 DEF SoleDrainInv, PlacesInv, CallInv, RoundsInv
<1>8. CASE Elapse
  <2>1. \A e \in Entries :
          \/ entries'[e] = NoEntry
          \/ /\ Present(e)
             /\ entries'[e].status = entries[e].status
             /\ entries'[e].replayAttempts = entries[e].replayAttempts
    BY <1>0, <1>8, ElapsedIsEntry DEF Elapse
  <2>2. UNCHANGED <<drains, crashes>> /\ replays' \subseteq replays
    BY <1>8 DEF Elapse
  <2>3. QED
    BY <1>2, <2>1, <2>2
<1>9. ASSUME NEW r \in replays, ReplayDelivered(r) PROVE SoleDrainInv'
  BY <1>0, <1>2, <1>9 DEF ReplayDelivered, TypeOK, Present
<1>10. ASSUME NEW d \in Entries, Evict(d) PROVE SoleDrainInv'
  <2>1. /\ UNCHANGED <<drains, crashes>>
        /\ replays' \subseteq replays
        /\ \A e \in Entries : entries'[e] = NoEntry \/ entries'[e] = entries[e]
    BY <1>10 DEF Evict, TypeOK
  <2>2. QED
    BY <1>2, <2>1 DEF Present
<1>11. CASE UNCHANGED vars
  <2>1. /\ UNCHANGED <<drains, crashes>>
        /\ replays' \subseteq replays
        /\ \A e \in Entries : entries'[e] = NoEntry \/ entries'[e] = entries[e]
    BY <1>11 DEF vars
  <2>2. QED
    BY <1>2, <2>1 DEF Present
<1>12. QED
  BY <1>1, <1>3, <1>4, <1>5, <1>6, <1>7, <1>8, <1>9, <1>10, <1>11, StepCases

(* As long as drains do not overlap, an entry is replayed parkAfterRounds  *)
(* times, plus once for each process that died before it could park it.    *)
THEOREM RoundsBound ==
  ASSUME SoleDrain
  PROVE  Spec => []RoundsBoundedByCrashes
<1>1. Init => SoleDrainInv
  BY DlqAssumption DEF Init, SoleDrainInv, Idle, Present, inFlight
<1>2. TypeOK /\ TypeOK' /\ OneReplayPerEntry /\ SoleDrainInv /\ [Next]_vars
        => SoleDrainInv'
  BY SoleDrainStep
<1>3. SoleDrainInv => RoundsBoundedByCrashes
  BY DEF SoleDrainInv, RoundsBoundedByCrashes
<1>4. QED
  BY <1>1, <1>2, <1>3, TypeCorrect, ReplayLock, PTL DEF Spec

(* Nor is a parked entry ever replayed by the automatic drain then. *)
THEOREM ParkedLeftAlone ==
  ASSUME SoleDrain
  PROVE  Spec => ParkedNeverDrained
<1>1. Init => SoleDrainInv
  BY DlqAssumption DEF Init, SoleDrainInv, Idle, Present, inFlight
<1>2. TypeOK /\ TypeOK' /\ OneReplayPerEntry /\ SoleDrainInv /\ [Next]_vars
        => SoleDrainInv'
  BY SoleDrainStep
<1>3. TypeOK /\ SoleDrainInv /\ SoleDrainInv' /\ [Next]_vars
        => [\A r \in replays' \ replays : entries[r.id].status = "pending"]_vars
  <2> SUFFICES ASSUME TypeOK, SoleDrainInv, [Next]_vars, NEW r \in replays' \ replays
               PROVE  entries[r.id].status = "pending"
    OBVIOUS
  <2>1. ASSUME NEW k \in Drains, NEW todo \in SUBSET Entries,
               NEW failed \in SUBSET Entries, BeginSlice(k, todo, failed),
               \A d \in todo : Present(d) => entries[d].status = "pending"
        PROVE  entries[r.id].status = "pending"
    <3>1. PICK slice \in SUBSET todo : replays' = replays \cup replay(k, slice)
      BY <2>1, SliceEffect
    <3>2. QED
      BY <2>1, <3>1, ReplayIds
  <2>2. ASSUME NEW k \in Drains, StartDrain(k)
        PROVE  entries[r.id].status = "pending"
    <3>1. PICK selected \in SUBSET Entries :
            /\ \A d \in selected : isDue(d)
            /\ BeginSlice(k, selected, {})
      BY <2>2 DEF StartDrain, Selectable
    <3>2. QED
      BY <2>1, <3>1 DEF isDue
  <2>3. ASSUME NEW k \in Drains, NextSlice(k)
        PROVE  entries[r.id].status = "pending"
    <3>1. drains[k].todo \in SUBSET Entries /\ drains[k].failed \in SUBSET Entries
      BY DEF TypeOK, Drain
    <3>2. QED
      BY <2>1, <2>3, <3>1 DEF NextSlice, SoleDrainInv
  <2>4. CASE replays' \subseteq replays
    BY <2>4
  <2>5. QED
    BY <2>2, <2>3, <2>4, StepCases
       DEF Add, Evict, FinishDrain, ReplayDelivered, ReplayFailed, Crash, CrashInSave, Die, Elapse, vars
<1>4. QED
  BY <1>1, <1>2, <1>3, TypeCorrect, ReplayLock, PTL DEF Spec, ParkedNeverDrained
============================================================================
