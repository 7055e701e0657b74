-------------------------- MODULE MCAlertLifecycle --------------------------
(* Bounded instances of AlertLifecycle. *)
EXTENDS AlertLifecycle

CONSTANTS t1, t2

(* All callbacks carry the first tenant; a second one has rules. *)
MCFirstTenant == [p \in Prediction |-> t1]
=============================================================================
