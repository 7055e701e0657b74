----------------------------- MODULE OwnerView ------------------------------
(***************************************************************************)
(* What a business sees of each predicted disruption, without the requests *)
(* that bring it about: the attention its alert asks for and what has      *)
(* become of the plan.  GET /alerts and GET /alerts/{id} answer with these *)
(* two, and data-model.md:184-187 gives the transitions of the first.      *)
(* SweepPipeline (the sweeps) implements this; AlertLifecycle (the         *)
(* transactions) does, but for one race that it names.                     *)
(***************************************************************************)

CONSTANT Prediction

VARIABLES
    attention,  \* what the alert asks of the owner
    plan        \* what has become of the recommendation

vars == <<attention, plan>>

Init ==
    /\ attention = [p \in Prediction |-> "none"]
    /\ plan = [p \in Prediction |-> "none"]

(* A warning appears. *)
Warn(p) ==
    /\ attention[p] = "none"
    /\ attention' = [attention EXCEPT ![p] = "new"]
    /\ UNCHANGED plan

(* A plan appears, but only under a warning, and only one. *)
Advise(p) ==
    /\ attention[p] # "none"
    /\ plan[p] = "none"
    /\ plan' = [plan EXCEPT ![p] = "pending"]
    /\ UNCHANGED attention

(* A person or a rule decides; a decision is never taken back. *)
Settle(p) ==
    /\ plan[p] = "pending"
    /\ plan' = [plan EXCEPT ![p] = "decided"]
    /\ UNCHANGED attention

(* A warning counts as handled only after its plan has been decided on. *)
Handle(p) ==
    /\ plan[p] = "decided"
    /\ attention[p] \in {"new", "escalated"}
    /\ attention' = [attention EXCEPT ![p] = "handled"]
    /\ UNCHANGED plan

(* A warning that nobody touched asks again. *)
Escalate(p) ==
    /\ attention[p] = "new"
    /\ attention' = [attention EXCEPT ![p] = "escalated"]
    /\ UNCHANGED plan

Next == \E p \in Prediction :
    Warn(p) \/ Advise(p) \/ Settle(p) \/ Handle(p) \/ Escalate(p)

Spec == Init /\ [][Next]_vars
=============================================================================
