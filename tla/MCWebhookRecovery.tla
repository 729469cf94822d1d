------------------------- MODULE MCWebhookRecovery -------------------------
(* Small instances of the delivery pipeline for TLC. *)
EXTENDS WebhookRecovery

CONSTANTS host, d1, p1

MCTargetOf == [d \in Deliveries |-> host]

Load(ds, ps, jobCount, deathCount) ==
  [deliveries |-> ds, passes |-> ps, schedules |-> jobCount, deaths |-> deathCount]

(* One delivery under overlapping passes and a death; or two, so that a    *)
(* drain has slices, or so that a death finds something in two stores.     *)
MCLoads == {Load({d1}, Passes, 2, 1), Load(Deliveries, {p1}, 1, 0),
            Load(Deliveries, {p1}, 0, 1)}
============================================================================
