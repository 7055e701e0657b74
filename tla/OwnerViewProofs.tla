--------------------------- MODULE OwnerViewProofs ---------------------------
(***************************************************************************)
(* AlertLifecycle implements OwnerView but for one race: under the mapping *)
(* attentionOf and planOf every step of a request, a job or a failure is a *)
(* step of what the owner sees, or invisible, or an escalation over an     *)
(* alert that was handled after the run had found it due.                  *)
(***************************************************************************)
EXTENDS AlertLifecycleProofs

(* The one fact the mapping needs beyond the invariant of the lifecycle:   *)
(* a plan that names its decider is no longer pending.                     *)
DecidedIsSettled ==
    \A p \in Prediction : recommendation[p].decidedBy # NULL =>
        recommendation[p].ownerDecision \notin {"none", "pending"}

RefInv == IInv /\ DecidedIsSettled

-----------------------------------------------------------------------------

(* Only three writes touch a plan.                                         *)
LEMMA PlanWriters ==
  ASSUME [Next]_vars
  PROVE  \/ recommendation' = recommendation
         \/ \E q \in RecCall : CreateRecommendation(q) \/ AutoTrigger(q)
         \/ \E d \in Decision : RecordDecision(d)
<1> USE DEF tables, logs, env
<1>1. CASE Tick \/ Arrival \/ Die \/ UNCHANGED vars
  BY <1>1 DEF Tick, Arrival, Die, vars, GrantConsent, CreateRule, ReceivePrediction,
              ReceiveRecommendation, FindRecommendation
<1>2. ASSUME NEW p \in Prediction, PredictionStep(p) PROVE recommendation' = recommendation
  BY <1>2 DEF PredictionStep, CheckPredictionConsent, CreatePrediction, AuditPrediction,
              CreateFromPrediction, AuditAlert, NotifyCreated, PublishCreated
<1>3. ASSUME NEW q \in RecCall, RecommendationStep(q)
      PROVE  recommendation' = recommendation \/ CreateRecommendation(q) \/ AutoTrigger(q)
  BY <1>3 DEF RecommendationStep, AuditRecommendation, FindMatchingRule, AuditAutoTrigger
<1>4. ASSUME NEW d \in Decision, DecisionStep(d)
      PROVE  recommendation' = recommendation \/ RecordDecision(d)
  BY <1>4 DEF DecisionStep, AuditDecision, SetAlertStatus
<1>5. ASSUME NEW c \in Run, RunStep(c) PROVE recommendation' = recommendation
  BY <1>5 DEF RunStep, FindDue, Escalate, NotifyEscalated, PublishEscalated
<1> QED
  BY <1>1, <1>2, <1>3, <1>4, <1>5 DEF Next

(* A plan appears under an alert, or is settled; no other plan changes.    *)
PlanChange(p) ==
    /\ \A x \in Prediction \ {p} : recommendation'[x] = recommendation[x]
    /\ HasAlert(p)
    /\ \/ /\ recommendation[p].ownerDecision = "none"
          /\ recommendation'[p].ownerDecision = "pending"
          /\ recommendation'[p].decidedBy = NULL
       \/ /\ recommendation[p].ownerDecision # "none"
          /\ recommendation'[p].ownerDecision \in DecisionKind

(* Each of the three writes is such a change, and leaves the alerts alone. *)
LEMMA PlanChanges ==
  ASSUME RefInv, [Next]_vars, recommendation' # recommendation
  PROVE  alert' = alert /\ \E p \in Prediction : PlanChange(p)
<1> USE DEF tables, logs, env
<1>r. /\ recommendation \in [Prediction -> RecommendationRow]
      /\ \A q \in RecCall : recCall[q].pc # "idle" => recCall[q].alert \in Prediction
      /\ \A d \in Decision : decide[d].pc # "idle" =>
            decide[d].alert \in Prediction /\ decide[d].decision \in DecisionKind
  BY DEF RefInv, IInv, TypeInv, TypeOK, Placed
<1>1. ASSUME NEW q \in RecCall, CreateRecommendation(q) PROVE alert' = alert /\ \E p \in Prediction : PlanChange(p)
  <2>1. recCall[q].alert \in Prediction /\ HasAlert(recCall[q].alert)
    BY <1>1, <1>r DEF CreateRecommendation, RefInv, IInv, RecommendationChain, RecKnows
  <2>2. ~HasRecommendation(recCall[q].alert)
    BY <1>1 DEF CreateRecommendation
  <2> DEFINE r == [ownerDecision |-> "pending", recommendedSupplierId |-> recCall[q].supplier,
                   autoTriggered |-> FALSE, decidedBy |-> NULL]
  <2>7. r.ownerDecision = "pending" /\ r.decidedBy = NULL
    OBVIOUS
  <2>8. recommendation' = [recommendation EXCEPT ![recCall[q].alert] = r]
    BY <1>1, <2>2, Zenon DEF CreateRecommendation
  <2> HIDE DEF r
  <2>3. /\ recommendation' = [recommendation EXCEPT ![recCall[q].alert] = r]
        /\ r.ownerDecision = "pending" /\ r.decidedBy = NULL
    BY <2>7, <2>8
  <2>4. alert' = alert
    BY <1>1 DEF CreateRecommendation
  <2>5. /\ recommendation'[recCall[q].alert] = r
        /\ \A x \in Prediction \ {recCall[q].alert} : recommendation'[x] = recommendation[x]
    BY <1>r, <2>1, <2>3
  <2>6. PlanChange(recCall[q].alert)
    BY <2>1, <2>2, <2>3, <2>5, Zenon DEF HasRecommendation, PlanChange
  <2> QED
    BY <2>1, <2>4, <2>6
<1>2. ASSUME NEW q \in RecCall, AutoTrigger(q) PROVE alert' = alert /\ \E p \in Prediction : PlanChange(p)
  <2>1. /\ recCall[q].alert \in Prediction /\ HasAlert(recCall[q].alert)
        /\ HasRecommendation(recCall[q].alert)
    BY <1>2, <1>r DEF AutoTrigger, RefInv, IInv, RecommendationChain, RecKnows
  <2>2. recommendation' = [recommendation EXCEPT ![recCall[q].alert] =
            [@ EXCEPT !.ownerDecision = "accepted", !.autoTriggered = TRUE]]
    BY <1>2, <1>r, <2>1 DEF AutoTrigger, RecommendationRow
  <2>3. /\ recommendation'[recCall[q].alert].ownerDecision = "accepted"
        /\ \A x \in Prediction \ {recCall[q].alert} : recommendation'[x] = recommendation[x]
    BY <1>r, <2>1, <2>2 DEF RecommendationRow
  <2>4. PlanChange(recCall[q].alert)
    BY <2>1, <2>3 DEF HasRecommendation, DecisionKind, PlanChange
  <2>5. alert' = alert
    BY <1>2 DEF AutoTrigger
  <2> QED
    BY <2>1, <2>4, <2>5
<1>3. ASSUME NEW d \in Decision, RecordDecision(d) PROVE alert' = alert /\ \E p \in Prediction : PlanChange(p)
  <2>1. /\ decide[d].alert \in Prediction /\ HasAlert(decide[d].alert)
        /\ HasRecommendation(decide[d].alert)
        /\ decide[d].decision \in DecisionKind
    BY <1>3, <1>r DEF RecordDecision, RefInv, IInv, DecisionChain, DecideKnows
  <2>2. recommendation' = [recommendation EXCEPT ![decide[d].alert] =
            [@ EXCEPT !.ownerDecision = decide[d].decision, !.decidedBy = d]]
    BY <1>3, <1>r, <2>1 DEF RecordDecision, RecommendationRow
  <2>3. /\ recommendation'[decide[d].alert].ownerDecision = decide[d].decision
        /\ \A x \in Prediction \ {decide[d].alert} : recommendation'[x] = recommendation[x]
    BY <1>r, <2>1, <2>2 DEF RecommendationRow
  <2>4. PlanChange(decide[d].alert)
    BY <2>1, <2>3, Zenon DEF HasRecommendation, PlanChange
  <2>5. alert' = alert
    BY <1>3 DEF RecordDecision
  <2> QED
    BY <2>1, <2>4, <2>5
<1> QED
  BY <1>1, <1>2, <1>3, PlanWriters

(* A decided plan is settled, and stays so.                                *)
LEMMA SettledStep ==
  ASSUME RefInv, [Next]_vars PROVE DecidedIsSettled'
<1>1. CASE recommendation' = recommendation
  BY <1>1 DEF RefInv, DecidedIsSettled
<1>2. CASE recommendation' # recommendation
  BY <1>2, PlanChanges DEF RefInv, DecidedIsSettled, PlanChange, DecisionKind
<1> QED
  BY <1>1, <1>2

(* The invariant of the refinement holds in every reachable state.         *)
LEMMA RefInvariance == Spec => []RefInv
<1>1. Init => RefInv
  BY InvInit DEF RefInv, DecidedIsSettled, Init
<1>2. RefInv /\ [Next]_vars => RefInv'
  BY InvStep, SettledStep DEF RefInv
<1> QED
  BY <1>1, <1>2, PTL DEF Spec

-----------------------------------------------------------------------------
(* The mapping *)

(* Only the alert that changes status changes what it asks of the owner.   *)
LEMMA AttentionOfOthers ==
  ASSUME NEW p \in Prediction,
         \A x \in Prediction \ {p} : alert'[x].status = alert[x].status
  PROVE  attentionOf' = [attentionOf EXCEPT ![p] = attentionOf'[p]]
<1>1. \A x \in Prediction \ {p} : attentionOf'[x] = attentionOf[x]
  BY DEF attentionOf
<1>2. /\ attentionOf = [x \in Prediction |-> attentionOf[x]]
      /\ attentionOf' = [x \in Prediction |-> attentionOf'[x]]
  BY DEF attentionOf
<1> HIDE DEF attentionOf
<1> QED
  BY <1>1, <1>2

(* Only the plan that is written changes what the owner sees of it.        *)
LEMMA PlanOfOthers ==
  ASSUME NEW p \in Prediction,
         \A x \in Prediction \ {p} : recommendation'[x] = recommendation[x]
  PROVE  planOf' = [planOf EXCEPT ![p] = planOf'[p]]
  BY DEF planOf

(* A write of a plan is an Advise, a Settle or, over a decision, invisible.*)
LEMMA PlanRefines ==
  ASSUME RefInv, [Next]_vars, recommendation' # recommendation
  PROVE  [View!Next]_(View!vars)
<1>1. PICK p \in Prediction : alert' = alert /\ PlanChange(p)
  BY PlanChanges
<1>2. planOf' = [planOf EXCEPT ![p] = planOf'[p]]
  BY <1>1, PlanOfOthers DEF PlanChange
<1>3. attentionOf' = attentionOf /\ attentionOf[p] # "none"
  BY <1>1 DEF attentionOf, PlanChange, HasAlert
<1>4. CASE recommendation[p].ownerDecision = "none" /\ recommendation'[p].ownerDecision = "pending"
  <2>1. planOf[p] = "none" /\ planOf'[p] = "pending"
    BY <1>4 DEF planOf
  <2> QED
    BY <1>2, <1>3, <2>1 DEF View!Next, View!Advise
<1>5. CASE /\ recommendation[p].ownerDecision = "pending"
           /\ recommendation'[p].ownerDecision \in DecisionKind
  <2>1. planOf[p] = "pending" /\ planOf'[p] = "decided"
    BY <1>5 DEF planOf, DecisionKind
  <2> QED
    BY <1>2, <1>3, <2>1 DEF View!Next, View!Settle
<1>6. CASE /\ recommendation[p].ownerDecision \notin {"none", "pending"}
           /\ recommendation'[p].ownerDecision \in DecisionKind
  <2>1. planOf[p] = "decided" /\ planOf'[p] = "decided"
    BY <1>6 DEF planOf, DecisionKind
  <2>2. planOf' = planOf
    BY <1>2, <2>1 DEF planOf
  <2> QED
    BY <1>3, <2>2 DEF View!vars
<1> QED
  BY <1>1, <1>4, <1>5, <1>6 DEF PlanChange

(* A write of an alert is a Warn, a Handle, an Escalate, an escalation     *)
(* that overtakes a decision, or invisible.                                *)
LEMMA AlertRefines ==
  ASSUME RefInv, [Next]_vars, alert' # alert
  PROVE  [View!Next \/ Overtakes]_(View!vars)
<1> USE DEF tables, logs, env
<1>r. /\ alert \in [Prediction -> AlertRow]
      /\ \A d \in Decision : decide[d].pc # "idle" => decide[d].alert \in Prediction
      /\ \A c \in Run : run[c].pc = "notify" => run[c].alert \in Prediction
  BY DEF RefInv, IInv, TypeInv, TypeOK, Placed
<1>1. ASSUME NEW p \in Prediction, CreateFromPrediction(p) PROVE View!Next
  <2>1. alert[p].status = "none" /\ planOf' = planOf
    BY <1>1 DEF CreateFromPrediction, RefInv, IInv, PredictionChain, HasAlert, planOf
  <2>2. /\ \A x \in Prediction \ {p} : alert'[x].status = alert[x].status
        /\ alert'[p].status = "new"
    BY <1>1, <1>r DEF CreateFromPrediction
  <2>3. attentionOf[p] = "none" /\ attentionOf'[p] = "new"
    BY <2>1, <2>2 DEF attentionOf, Unacted
  <2> QED
    BY <2>1, <2>2, <2>3, AttentionOfOthers DEF View!Next, View!Warn
<1>2. ASSUME NEW p \in Prediction, NotifyCreated(p) PROVE UNCHANGED View!vars
  BY <1>2, <1>r DEF NotifyCreated, AlertRow, attentionOf, planOf, View!vars
<1>3. ASSUME NEW c \in Run, NotifyEscalated(c) PROVE UNCHANGED View!vars
  BY <1>3, <1>r DEF NotifyEscalated, AlertRow, attentionOf, planOf, View!vars
<1>4. ASSUME NEW d \in Decision, SetAlertStatus(d) PROVE [View!Next]_(View!vars)
  <2> DEFINE p == decide[d].alert
  <2>1. p \in Prediction /\ HasAlert(p) /\ recommendation[p].decidedBy # NULL
    BY <1>4, <1>r DEF SetAlertStatus, RefInv, IInv, DecisionChain, DecideKnows
  <2>2. planOf[p] = "decided" /\ planOf' = planOf
    BY <1>4, <2>1 DEF SetAlertStatus, RefInv, DecidedIsSettled, planOf
  <2>3. /\ \A x \in Prediction \ {p} : alert'[x].status = alert[x].status
        /\ alert'[p].status \in Handled
    BY <1>4, <1>r, <2>1 DEF SetAlertStatus, StatusFor, AlertRow, Handled
  <2>4. attentionOf[p] # "none" /\ attentionOf'[p] = "handled"
    BY <2>1, <2>3 DEF attentionOf, HasAlert, Handled, Unacted
  <2>5. attentionOf[p] \in {"new", "escalated", "handled"}
    BY <2>1, <2>4 DEF attentionOf
  <2>6. attentionOf' = [attentionOf EXCEPT ![p] = "handled"]
    BY <2>1, <2>3, <2>4, AttentionOfOthers
  <2> HIDE DEF p
  <2>7. CASE attentionOf[p] = "handled"
    <3>1. attentionOf' = attentionOf
      BY <2>1, <2>6, <2>7 DEF attentionOf
    <3> QED
      BY <2>2, <3>1 DEF View!vars
  <2>8. CASE attentionOf[p] \in {"new", "escalated"}
    BY <2>1, <2>2, <2>6, <2>8 DEF View!Next, View!Handle
  <2> QED
    BY <2>5, <2>7, <2>8
<1>5. ASSUME NEW c \in Run, NEW p \in Prediction, Escalate(c, p)
      PROVE  [View!Next \/ Overtakes]_(View!vars)
  <2>1. HasAlert(p) /\ planOf' = planOf
    BY <1>5 DEF Escalate, RefInv, IInv, RunChain, RunKnows, planOf
  <2>2. /\ \A x \in Prediction \ {p} : alert'[x].status = alert[x].status
        /\ alert'[p].status = "escalated"
    BY <1>5, <1>r DEF Escalate, AlertRow
  <2>3. attentionOf' = [attentionOf EXCEPT ![p] = "escalated"]
    <3>1. attentionOf'[p] = "escalated"
      BY <2>2 DEF attentionOf, Unacted
    <3> QED
      BY <2>2, <3>1, AttentionOfOthers
  <2>4. CASE alert[p].status \in Unacted
    <3>1. attentionOf[p] = "new"
      BY <2>4 DEF attentionOf, Unacted
    <3> QED
      BY <2>1, <2>3, <3>1 DEF View!Next, View!Escalate
  <2>5. CASE alert[p].status = "escalated"
    <3>1. attentionOf[p] = "escalated"
      BY <2>5 DEF attentionOf, Unacted
    <3>2. attentionOf' = attentionOf
      BY <2>3, <3>1 DEF attentionOf
    <3> QED
      BY <2>1, <3>2 DEF View!vars
  <2>6. CASE alert[p].status \notin Unacted \cup {"none", "escalated"}
    <3>1. attentionOf[p] = "handled"
      BY <2>6 DEF attentionOf
    <3> QED
      BY <1>5, <3>1 DEF Overtakes
  <2> QED
    BY <2>1, <2>4, <2>5, <2>6 DEF HasAlert
<1> QED
  BY <1>1, <1>2, <1>3, <1>4, <1>5, AlertWriters

(* AlertLifecycle implements OwnerView unless an escalation overtakes a    *)
(* decision: the owner sees at most one plan, only under a warning, a      *)
(* warning is handled only after its plan was decided and asks again only  *)
(* through that race, and nothing disappears.                              *)
THEOREM ImplementsOwnerView == Spec => ViewUnlessOvertaken
<1>1. Init => View!Init
  <2> SUFFICES ASSUME Init PROVE View!Init
    OBVIOUS
  <2>1. \A p \in Prediction : alert[p].status = "none" /\ recommendation[p].ownerDecision = "none"
    BY DEF Init
  <2>2. ASSUME NEW p \in Prediction PROVE attentionOf[p] = "none" /\ planOf[p] = "none"
    <3>1. attentionOf[p] = "none"
      BY <2>1 DEF attentionOf, Unacted
    <3>2. planOf[p] = "none"
      BY <2>1 DEF planOf
    <3> QED
      BY <3>1, <3>2
  <2>3. /\ attentionOf = [p \in Prediction |-> attentionOf[p]]
        /\ planOf = [p \in Prediction |-> planOf[p]]
    BY DEF attentionOf, planOf
  <2> HIDE DEF attentionOf, planOf
  <2> QED
    BY <2>2, <2>3 DEF View!Init
<1>2. RefInv /\ [Next]_vars => [View!Next \/ Overtakes]_<<attentionOf, planOf>>
  <2> SUFFICES ASSUME RefInv, [Next]_vars PROVE [View!Next \/ Overtakes]_<<attentionOf, planOf>>
    OBVIOUS
  <2>1. CASE alert' = alert /\ recommendation' = recommendation
    BY <2>1 DEF View!vars, attentionOf, planOf
  <2> QED
    BY <2>1, PlanRefines, AlertRefines DEF View!vars
<1> QED
  BY <1>1, <1>2, RefInvariance, PTL DEF Spec, ViewUnlessOvertaken

-----------------------------------------------------------------------------
(* Escalated alerts *)

(* Nothing expires, resets or reopens an escalated alert: a callback still *)
(* on its way, another run or a rule leaves it in the inbox, and it leaves *)
(* only as handled, once a person has decided on its plan                  *)
(* (alert-escalation.service.ts:40, alert.service.ts:66).                  *)
EscalatedUntilDecided ==
    [][\A p \in Prediction :
           alert[p].status = "escalated" /\ alert'[p].status # "escalated" =>
               alert'[p].status \in Handled /\ recommendation[p].decidedBy # NULL]_vars

(* An alert that leaves the status escalated is written by a decision: the *)
(* only writer of another status finds a plan that names its decider.      *)
LEMMA EscalatedLeaves ==
  ASSUME IInv, [Next]_vars, NEW p \in Prediction,
         alert[p].status = "escalated", alert'[p].status # "escalated"
  PROVE  alert'[p].status \in Handled /\ recommendation[p].decidedBy # NULL
<1>r. /\ alert \in [Prediction -> AlertRow]
      /\ \A d \in Decision : decide[d].pc # "idle" => decide[d].alert \in Prediction
  BY DEF IInv, TypeInv, TypeOK, Placed
<1>1. ASSUME NEW x \in Prediction, CreateFromPrediction(x) PROVE FALSE
  <2>1. x # p
    BY <1>1 DEF CreateFromPrediction, IInv, PredictionChain, HasAlert
  <2> QED
    BY <1>1, <1>r, <2>1 DEF CreateFromPrediction
<1>2. ASSUME NEW x \in Prediction, NotifyCreated(x) PROVE FALSE
  BY <1>2, <1>r DEF NotifyCreated, AlertRow
<1>3. ASSUME NEW d \in Decision, SetAlertStatus(d)
      PROVE  alert'[p].status \in Handled /\ recommendation[p].decidedBy # NULL
  <2>1. decide[d].alert = p
    BY <1>3, <1>r DEF SetAlertStatus, AlertRow
  <2>2. recommendation[p].decidedBy # NULL
    BY <1>3, <2>1 DEF SetAlertStatus, IInv, DecisionChain, DecideKnows
  <2>3. alert'[p].status \in Handled
    BY <1>3, <1>r, <2>1 DEF SetAlertStatus, StatusFor, AlertRow, Handled
  <2> QED
    BY <2>2, <2>3
<1>4. ASSUME NEW c \in Run, NEW x \in Prediction, Escalate(c, x) PROVE FALSE
  BY <1>4, <1>r DEF Escalate, AlertRow
<1>5. ASSUME NEW c \in Run, NotifyEscalated(c) PROVE FALSE
  BY <1>5, <1>r DEF NotifyEscalated, AlertRow
<1> QED
  BY <1>1, <1>2, <1>3, <1>4, <1>5, AlertWriters

(* An escalated alert stays in the inbox until a person has decided on it: *)
(* nothing expires, resets or reopens it (alert-escalation.service.ts:40). *)
THEOREM StaysTheorem == Spec => EscalatedUntilDecided
<1>1. IInv /\ [Next]_vars =>
        [\A p \in Prediction :
            alert[p].status = "escalated" /\ alert'[p].status # "escalated" =>
                alert'[p].status \in Handled /\ recommendation[p].decidedBy # NULL]_vars
  BY EscalatedLeaves
<1> QED
  BY <1>1, Invariance, PTL DEF Spec, EscalatedUntilDecided
=============================================================================
