-------------------------- MODULE DeliveryContract --------------------------
(***************************************************************************)
(* What the webhook pipeline promises about a delivery it has taken over:  *)
(* it is held in one of three files or in the worker's hand until a        *)
(* receiver has accepted it, and nothing is sent that is not held.  Only a *)
(* death of the process may drop one, and it cannot drop any: what was in  *)
(* hand, one delivery on its way from one file to another, and the file    *)
(* that was being rewritten, if there was one.                             *)
(***************************************************************************)
EXTENDS Naturals

CONSTANT Deliveries

VARIABLES
  queued, retrying, dead,   \* what each of the three files holds
  hand,                     \* what the worker has taken out and is sending
  received,                 \* deliveries a receiver has accepted at least once
  deaths                    \* deaths of the process so far

vars == <<queued, retrying, dead, hand, received, deaths>>

held == queued \cup retrying \cup dead \cup hand

Init == held = {} /\ received = {} /\ deaths = 0

(* Nothing but this delivery changes its place. *)
Only(d) ==
  /\ queued' \ {d} = queued \ {d}
  /\ retrying' \ {d} = retrying \ {d}
  /\ dead' \ {d} = dead \ {d}
  /\ hand' \ {d} = hand \ {d}

(* Taken over, or moved on; let go it is not. *)
Take(d) ==
  /\ Only(d)
  /\ d \in held'
  /\ UNCHANGED <<received, deaths>>

(* Accepted; the pipeline lets go of it or, if it missed the answer, not.  *)
Receive(d) ==
  /\ d \in held \cup received
  /\ received' = received \cup {d}
  /\ Only(d)
  /\ UNCHANGED deaths

(* What a file may hold after a death. *)
Left(file, moving, torn) == {file, file \ moving} \cup (IF torn THEN {{}} ELSE {})

(* Requests on their way may still arrive. *)
Die ==
  /\ deaths' = deaths + 1
  /\ hand' = {}
  /\ \E moving \in {{}} \cup {{d} : d \in Deliveries},
        torn \in {"none", "queue", "retries", "dead letters"} :
       /\ queued' \in Left(queued, {}, torn = "queue")
       /\ retrying' \in Left(retrying, moving, torn = "retries")
       /\ dead' \in Left(dead, moving, torn = "dead letters")
  /\ \E late \in SUBSET held : received' = received \cup late

Next == Die \/ \E d \in Deliveries : Take(d) \/ Receive(d)

Spec == Init /\ [][Next]_vars
=============================================================================
