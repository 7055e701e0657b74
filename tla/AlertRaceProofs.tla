--------------------------- MODULE AlertRaceProofs ---------------------------
(***************************************************************************)
(* What AlertLifecycle guarantees of the log and of the decisions while    *)
(* nothing dies, and of escalation while runs do not overlap.              *)
(***************************************************************************)
EXTENDS OwnerViewProofs, FiniteSetTheorems

Created(p) == Entry("prediction.created", p, NULL, NULL)
Raised(p)  == Entry("alert.created", p, NULL, NULL)
Advised(p) == Entry("recommendation.created", p, NULL, NULL)
Decided(d) == Entry("recommendation.decision_recorded", decide[d].alert, d, decide[d].decision)

(* How far a prediction callback got says which entries the log has.       *)
PredLogged(p) ==
    /\ predCall[p] # "failed"
    /\ predCall[p] = "refused" => ~prediction[p].stored
    /\ predCall[p] \in {"alert", "alertAudit", "notify", "publish", "done"} => Created(p) \in audit
    /\ predCall[p] \in {"notify", "publish", "done"} => Raised(p) \in audit

RecLogged(q) ==
    recCall[q].pc \in {"rules", "trigger", "triggerAudit", "done"} => Advised(recCall[q].alert) \in audit

(* A plan is in the table because some callback put it there.              *)
Written(p) == HasRecommendation(p) =>
    \E q \in RecCall : /\ recCall[q].alert = p
                       /\ recCall[q].pc \in {"audit", "rules", "trigger", "triggerAudit", "done"}

(* A plan that a rule accepted has its entry, or the callback that will    *)
(* write it.                                                               *)
Triggered(p, rule) == Entry("recommendation.auto_triggered", p, rule.id, NULL)
Ruled(p) == \E r \in rules : Covers(r, p) /\ Triggered(p, r) \in audit
Accepted(p) == recommendation[p].autoTriggered =>
    \/ Ruled(p)
    \/ \E q \in RecCall : recCall[q].alert = p /\ recCall[q].pc = "triggerAudit"

(* A decision that was made is recorded and, in the end, logged.           *)
DecLogged(d) ==
    /\ decide[d].pc \in {"audit", "status", "done"} => recommendation[decide[d].alert].decidedBy # NULL
    /\ decide[d].pc = "done" => Decided(d) \in audit

(* The plan has the kind of its decider, the alert that of some decider.   *)
Owned(p) ==
    LET d == recommendation[p].decidedBy IN
    d # NULL => /\ decide[d].alert = p /\ decide[d].pc \in {"audit", "status", "done"}
                /\ ~recommendation[p].autoTriggered =>
                      recommendation[p].ownerDecision = decide[d].decision

Answered(p) == alert[p].status \in Handled =>
    \E d \in Decision : /\ decide[d].alert = p /\ decide[d].pc = "done"
                        /\ Agree(alert[p].status, decide[d].decision)

(* The alert of a decision that is over has left the inbox, or was put     *)
(* back by a run that overtook the decision.                               *)
Gone(p) == \/ alert[p].status \in Handled
           \/ alert[p].status = "escalated" /\ p \in overtaken
Concluded(d) == decide[d].pc = "done" => Gone(decide[d].alert)

Calm ==
    /\ \A p \in Prediction : PredLogged(p) /\ Written(p) /\ Accepted(p) /\ Owned(p) /\ Answered(p)
    /\ \A q \in RecCall : RecLogged(q)
    /\ \A d \in Decision : DecLogged(d) /\ Concluded(d)

CalmInv == IInv /\ (failures = 0 => Calm)

-----------------------------------------------------------------------------
(* While nothing dies, requests are moved by their own steps alone.        *)

(* A prediction callback that does not move keeps its row.                 *)
LEMMA PredMoves ==
  ASSUME IInv, [Next]_vars, ~Die, NEW p \in Prediction
  PROVE  \/ predCall'[p] = predCall[p] /\ prediction'[p] = prediction[p]
         \/ PredictionStep(p)
         \/ \E lead \in Lead, conf \in Confidence : ReceivePrediction(p, lead, conf)
<1> USE DEF tables, logs, env
<1>r. predCall \in [Prediction -> PredCallState] /\ prediction \in [Prediction -> PredictionRow]
  BY DEF IInv, TypeInv, TypeOK
<1>1. ASSUME NEW x \in Prediction, x # p, PredictionStep(x)
      PROVE  predCall'[p] = predCall[p] /\ prediction'[p] = prediction[p]
  BY <1>1, <1>r DEF PredictionStep, CheckPredictionConsent, CreatePrediction, AuditPrediction,
              CreateFromPrediction, AuditAlert, NotifyCreated, PublishCreated, PredGoto
<1>2. ASSUME NEW x \in Prediction, x # p, NEW lead \in Lead, NEW conf \in Confidence,
             ReceivePrediction(x, lead, conf)
      PROVE  predCall'[p] = predCall[p] /\ prediction'[p] = prediction[p]
  BY <1>2, <1>r DEF ReceivePrediction, PredGoto
<1>3. ASSUME NEW q \in RecCall, RecommendationStep(q) PROVE UNCHANGED <<predCall, prediction>>
  BY <1>3 DEF RecommendationStep, CreateRecommendation, AuditRecommendation, FindMatchingRule,
              AutoTrigger, AuditAutoTrigger
<1>4. ASSUME NEW d \in Decision, DecisionStep(d) PROVE UNCHANGED <<predCall, prediction>>
  BY <1>4 DEF DecisionStep, RecordDecision, AuditDecision, SetAlertStatus
<1>5. ASSUME NEW c \in Run, RunStep(c) PROVE UNCHANGED <<predCall, prediction>>
  BY <1>5 DEF RunStep, FindDue, Escalate, NotifyEscalated, PublishEscalated
<1>6. CASE UNCHANGED vars \/ Tick \/ \E t \in Tenant : GrantConsent(t)
  BY <1>6 DEF vars, Tick, GrantConsent
<1>7. CASE \/ \E row \in RuleRow : CreateRule(row)
           \/ \E q \in RecCall, x \in Prediction, s \in Supplier \cup {NULL} : ReceiveRecommendation(q, x, s)
           \/ \E d \in Decision, x \in Prediction, k \in DecisionKind : FindRecommendation(d, x, k)
  BY <1>7 DEF CreateRule, ReceiveRecommendation, FindRecommendation
<1> QED
  BY <1>1, <1>2, <1>3, <1>4, <1>5, <1>6, <1>7 DEF Next, Arrival

(* Neither does a recommendation callback.                                 *)
LEMMA RecMoves ==
  ASSUME IInv, [Next]_vars, ~Die, NEW q \in RecCall
  PROVE  \/ recCall'[q] = recCall[q]
         \/ RecommendationStep(q)
         \/ \E p \in Prediction, s \in Supplier \cup {NULL} : ReceiveRecommendation(q, p, s)
<1> USE DEF tables, logs, env
<1>r. recCall \in [RecCall -> RecCallState]
  BY DEF IInv, TypeInv, TypeOK
<1>1. ASSUME NEW x \in RecCall, x # q, RecommendationStep(x) PROVE recCall'[q] = recCall[q]
  BY <1>1, <1>r DEF RecommendationStep, CreateRecommendation, AuditRecommendation,
              FindMatchingRule, AutoTrigger, AuditAutoTrigger, RecGoto
<1>2. ASSUME NEW x \in RecCall, x # q, NEW p \in Prediction, NEW s \in Supplier \cup {NULL},
             ReceiveRecommendation(x, p, s)
      PROVE  recCall'[q] = recCall[q]
  BY <1>2, <1>r DEF ReceiveRecommendation
<1>3. ASSUME NEW p \in Prediction, PredictionStep(p) PROVE recCall' = recCall
  BY <1>3 DEF PredictionStep, CheckPredictionConsent, CreatePrediction, AuditPrediction,
              CreateFromPrediction, AuditAlert, NotifyCreated, PublishCreated
<1>4. ASSUME NEW d \in Decision, DecisionStep(d) PROVE recCall' = recCall
  BY <1>4 DEF DecisionStep, RecordDecision, AuditDecision, SetAlertStatus
<1>5. ASSUME NEW c \in Run, RunStep(c) PROVE recCall' = recCall
  BY <1>5 DEF RunStep, FindDue, Escalate, NotifyEscalated, PublishEscalated
<1>6. CASE UNCHANGED vars \/ Tick \/ \E t \in Tenant : GrantConsent(t)
  BY <1>6 DEF vars, Tick, GrantConsent
<1>7. CASE \/ \E row \in RuleRow : CreateRule(row)
           \/ \E p \in Prediction, lead \in Lead, conf \in Confidence : ReceivePrediction(p, lead, conf)
           \/ \E d \in Decision, x \in Prediction, k \in DecisionKind : FindRecommendation(d, x, k)
  BY <1>7 DEF CreateRule, ReceivePrediction, FindRecommendation
<1> QED
  BY <1>1, <1>2, <1>3, <1>4, <1>5, <1>6, <1>7 DEF Next, Arrival

(* Nor a decision.                                                         *)
LEMMA DecisionMoves ==
  ASSUME IInv, [Next]_vars, ~Die, NEW d \in Decision
  PROVE  \/ decide'[d] = decide[d]
         \/ DecisionStep(d)
         \/ \E p \in Prediction, k \in DecisionKind : FindRecommendation(d, p, k)
<1> USE DEF tables, logs, env
<1>r. decide \in [Decision -> DecideState]
  BY DEF IInv, TypeInv, TypeOK
<1>1. ASSUME NEW x \in Decision, x # d, DecisionStep(x) PROVE decide'[d] = decide[d]
  BY <1>1, <1>r DEF DecisionStep, RecordDecision, AuditDecision, SetAlertStatus, DecideGoto
<1>2. ASSUME NEW x \in Decision, x # d, NEW p \in Prediction, NEW k \in DecisionKind,
             FindRecommendation(x, p, k)
      PROVE  decide'[d] = decide[d]
  BY <1>2, <1>r DEF FindRecommendation
<1>3. ASSUME NEW p \in Prediction, PredictionStep(p) PROVE decide' = decide
  BY <1>3 DEF PredictionStep, CheckPredictionConsent, CreatePrediction, AuditPrediction,
              CreateFromPrediction, AuditAlert, NotifyCreated, PublishCreated
<1>4. ASSUME NEW q \in RecCall, RecommendationStep(q) PROVE decide' = decide
  BY <1>4 DEF RecommendationStep, CreateRecommendation, AuditRecommendation, FindMatchingRule,
              AutoTrigger, AuditAutoTrigger
<1>5. ASSUME NEW c \in Run, RunStep(c) PROVE decide' = decide
  BY <1>5 DEF RunStep, FindDue, Escalate, NotifyEscalated, PublishEscalated
<1>6. CASE UNCHANGED vars \/ Tick \/ \E t \in Tenant : GrantConsent(t)
  BY <1>6 DEF vars, Tick, GrantConsent
<1>7. CASE \/ \E row \in RuleRow : CreateRule(row)
           \/ \E p \in Prediction, lead \in Lead, conf \in Confidence : ReceivePrediction(p, lead, conf)
           \/ \E q \in RecCall, x \in Prediction, s \in Supplier \cup {NULL} : ReceiveRecommendation(q, x, s)
  BY <1>7 DEF CreateRule, ReceivePrediction, ReceiveRecommendation
<1> QED
  BY <1>1, <1>2, <1>3, <1>4, <1>5, <1>6, <1>7 DEF Next, Arrival

-----------------------------------------------------------------------------

(* A prediction callback logs what it has stored before it is done.        *)
LEMMA PredLoggedStep ==
  ASSUME IInv, [Next]_vars, ~Die, NEW p \in Prediction, PredLogged(p) PROVE PredLogged(p)'
<1> USE DEF tables, logs, env, PredGoto
<1>k. audit \subseteq audit'
  BY KeepsStep DEF Keeps
<1>r. predCall \in [Prediction -> PredCallState] /\ prediction \in [Prediction -> PredictionRow]
  BY DEF IInv, TypeInv, TypeOK
<1>1. CASE predCall'[p] = predCall[p] /\ prediction'[p] = prediction[p]
  BY <1>1, <1>k DEF PredLogged, Created, Raised
<1>2. ASSUME NEW lead \in Lead, NEW conf \in Confidence, ReceivePrediction(p, lead, conf)
      PROVE  PredLogged(p)'
  <2>1. predCall'[p] \in {"refused", "consent"} /\ ~prediction'[p].stored
    BY <1>2, <1>r DEF ReceivePrediction
  <2> QED
    BY <2>1 DEF PredLogged
<1>3. CASE CheckPredictionConsent(p)
  <2>1. predCall'[p] \in {"refused", "create"} /\ prediction'[p] = prediction[p]
    BY <1>3, <1>r DEF CheckPredictionConsent
  <2>2. ~prediction[p].stored
    BY <1>3 DEF CheckPredictionConsent, IInv, PredictionChain
  <2> QED
    BY <2>1, <2>2 DEF PredLogged
<1>4. CASE CreatePrediction(p)
  <2>1. predCall'[p] = "audit"
    BY <1>4, <1>r DEF CreatePrediction
  <2> QED
    BY <2>1 DEF PredLogged
<1>5. CASE AuditPrediction(p)
  <2>1. predCall'[p] = "alert" /\ Created(p) \in audit'
    BY <1>5, <1>r DEF AuditPrediction, Created
  <2> QED
    BY <2>1 DEF PredLogged, Created
<1>6. CASE CreateFromPrediction(p)
  <2>1. predCall[p] = "alert" /\ predCall'[p] = "alertAudit"
    BY <1>6, <1>r DEF CreateFromPrediction
  <2> QED
    BY <1>k, <2>1 DEF PredLogged, Created
<1>7. CASE AuditAlert(p)
  <2>1. predCall[p] = "alertAudit" /\ predCall'[p] = "notify" /\ Raised(p) \in audit'
    BY <1>7, <1>r DEF AuditAlert, Raised
  <2> QED
    BY <1>k, <2>1 DEF PredLogged, Created, Raised
<1>8. CASE NotifyCreated(p) \/ PublishCreated(p)
  <2>1. predCall[p] \in {"notify", "publish"} /\ predCall'[p] \in {"publish", "done"}
    BY <1>8, <1>r DEF NotifyCreated, PublishCreated
  <2> QED
    BY <1>k, <2>1 DEF PredLogged, Created, Raised
<1> QED
  BY <1>1, <1>2, <1>3, <1>4, <1>5, <1>6, <1>7, <1>8, PredMoves DEF PredictionStep

(* A recommendation callback logs its plan before it looks for a rule.     *)
LEMMA RecLoggedStep ==
  ASSUME IInv, [Next]_vars, ~Die, NEW q \in RecCall, RecLogged(q) PROVE RecLogged(q)'
<1> USE DEF tables, logs, env, RecGoto
<1>k. audit \subseteq audit'
  BY KeepsStep DEF Keeps
<1>r. recCall \in [RecCall -> RecCallState]
  BY DEF IInv, TypeInv, TypeOK
<1>1. CASE recCall'[q] = recCall[q]
  BY <1>1, <1>k DEF RecLogged, Advised
<1>2. ASSUME NEW p \in Prediction, NEW s \in Supplier \cup {NULL}, ReceiveRecommendation(q, p, s)
      PROVE  RecLogged(q)'
  <2>1. recCall'[q].pc \in {"create", "refused"}
    BY <1>2, <1>r DEF ReceiveRecommendation
  <2> QED
    BY <2>1 DEF RecLogged
<1>3. CASE CreateRecommendation(q)
  <2>1. recCall'[q].pc \in {"audit", "failed"}
    BY <1>3, <1>r DEF CreateRecommendation, RecCallState
  <2> QED
    BY <2>1 DEF RecLogged
<1>4. CASE AuditRecommendation(q)
  <2>1. recCall'[q].alert = recCall[q].alert /\ Advised(recCall[q].alert) \in audit'
    BY <1>4, <1>r DEF AuditRecommendation, RecCallState, Advised
  <2> QED
    BY <2>1 DEF RecLogged, Advised
<1>5. CASE FindMatchingRule(q) \/ AutoTrigger(q) \/ AuditAutoTrigger(q)
  <2>1. /\ recCall[q].pc \in {"rules", "trigger", "triggerAudit"}
        /\ recCall'[q].alert = recCall[q].alert
    BY <1>5, <1>r DEF FindMatchingRule, AutoTrigger, AuditAutoTrigger, RecCallState
  <2> QED
    BY <1>k, <2>1 DEF RecLogged, Advised
<1> QED
  BY <1>1, <1>2, <1>3, <1>4, <1>5, RecMoves DEF RecommendationStep

(* Only runs change what has been overtaken.                               *)
LEMMA OvertakenKept ==
  ASSUME [Next]_vars
  PROVE  overtaken' = overtaken \/ \E c \in Run : RunStep(c)
<1>1. ASSUME NEW p \in Prediction, PredictionStep(p) PROVE overtaken' = overtaken
  BY <1>1 DEF PredictionStep, CheckPredictionConsent, CreatePrediction, AuditPrediction,
              CreateFromPrediction, AuditAlert, NotifyCreated, PublishCreated, env
<1>2. ASSUME NEW q \in RecCall, RecommendationStep(q) PROVE overtaken' = overtaken
  BY <1>2 DEF RecommendationStep, CreateRecommendation, AuditRecommendation, FindMatchingRule,
              AutoTrigger, AuditAutoTrigger, env
<1>3. ASSUME NEW d \in Decision, DecisionStep(d) PROVE overtaken' = overtaken
  BY <1>3 DEF DecisionStep, RecordDecision, AuditDecision, SetAlertStatus, env
<1>4. CASE UNCHANGED vars \/ Tick \/ Arrival \/ Die
  BY <1>4 DEF vars, Tick, Arrival, Die, GrantConsent, CreateRule, ReceivePrediction,
              ReceiveRecommendation, FindRecommendation, env
<1> QED
  BY <1>1, <1>2, <1>3, <1>4 DEF Next

(* A callback that has stored its plan stays with it.                      *)
LEMMA AdviserStays ==
  ASSUME IInv, [Next]_vars, ~Die, NEW q \in RecCall,
         recCall[q].pc \in {"audit", "rules", "trigger", "triggerAudit", "done"}
  PROVE  /\ recCall'[q].alert = recCall[q].alert
         /\ recCall'[q].pc \in {"audit", "rules", "trigger", "triggerAudit", "done"}
<1> USE DEF RecGoto
<1>r. recCall \in [RecCall -> RecCallState]
  BY DEF IInv, TypeInv, TypeOK
<1>1. CASE RecommendationStep(q)
  BY <1>1, <1>r DEF RecommendationStep, CreateRecommendation, AuditRecommendation,
              FindMatchingRule, AutoTrigger, AuditAutoTrigger, RecCallState
<1>2. ~ \E p \in Prediction, s \in Supplier \cup {NULL} : ReceiveRecommendation(q, p, s)
  BY DEF ReceiveRecommendation
<1> QED
  BY <1>1, <1>2, RecMoves

(* A decision that was recorded stays what it is.                          *)
LEMMA DeciderStays ==
  ASSUME IInv, [Next]_vars, ~Die, NEW d \in Decision, decide[d].pc \in {"audit", "status", "done"}
  PROVE  /\ decide'[d].alert = decide[d].alert /\ decide'[d].decision = decide[d].decision
         /\ decide'[d].pc \in {"audit", "status", "done"}
         /\ decide[d].pc = "done" => decide'[d].pc = "done"
<1> USE DEF DecideGoto
<1>r. decide \in [Decision -> DecideState]
  BY DEF IInv, TypeInv, TypeOK
<1>1. CASE DecisionStep(d)
  BY <1>1, <1>r DEF DecisionStep, RecordDecision, AuditDecision, SetAlertStatus, DecideState
<1>2. ~ \E p \in Prediction, k \in DecisionKind : FindRecommendation(d, p, k)
  BY DEF FindRecommendation
<1> QED
  BY <1>1, <1>2, DecisionMoves

(* What the three writes of a plan do to the plan of p.                    *)
LEMMA PlanMoves ==
  ASSUME IInv, [Next]_vars, NEW p \in Prediction, recommendation'[p] # recommendation[p]
  PROVE  \/ \E q \in RecCall :
               /\ CreateRecommendation(q) /\ recCall[q].alert = p
               /\ recCall'[q].alert = p /\ recCall'[q].pc = "audit"
               /\ recommendation'[p].decidedBy = NULL
         \/ /\ HasRecommendation(p)
            /\ recommendation'[p].decidedBy = recommendation[p].decidedBy
            /\ recommendation'[p].autoTriggered
         \/ \E d \in Decision :
               /\ HasRecommendation(p) /\ RecordDecision(d) /\ decide[d].alert = p
               /\ recommendation'[p].decidedBy = d
               /\ recommendation'[p].ownerDecision = decide[d].decision
<1>r. /\ recommendation \in [Prediction -> RecommendationRow]
      /\ recCall \in [RecCall -> RecCallState]
      /\ \A q \in RecCall : recCall[q].pc # "idle" => recCall[q].alert \in Prediction
      /\ \A d \in Decision : decide[d].pc # "idle" => decide[d].alert \in Prediction
  BY DEF IInv, TypeInv, TypeOK, Placed
<1>1. ASSUME NEW q \in RecCall, CreateRecommendation(q)
      PROVE  /\ recCall[q].alert = p /\ recCall'[q].alert = p /\ recCall'[q].pc = "audit"
             /\ recommendation'[p].decidedBy = NULL
  <2> DEFINE r == [ownerDecision |-> "pending", recommendedSupplierId |-> recCall[q].supplier,
                   autoTriggered |-> FALSE, decidedBy |-> NULL]
  <2>1. /\ recommendation' = [recommendation EXCEPT ![recCall[q].alert] = r]
        /\ recCall' = [recCall EXCEPT ![q].pc = "audit"]
    BY <1>1, Zenon DEF CreateRecommendation, RecGoto
  <2>2. recCall'[q].alert = recCall[q].alert /\ recCall'[q].pc = "audit"
    BY <1>r, <2>1 DEF RecCallState
  <2>3. r.decidedBy = NULL
    OBVIOUS
  <2> HIDE DEF r
  <2>4. recCall[q].alert = p
    BY <1>r, <2>1
  <2>5. recommendation'[p] = r
    BY <1>r, <2>1, <2>4
  <2> QED
    BY <2>2, <2>3, <2>4, <2>5
<1>2. ASSUME NEW q \in RecCall, AutoTrigger(q)
      PROVE  /\ HasRecommendation(p) /\ recommendation'[p].decidedBy = recommendation[p].decidedBy
             /\ recommendation'[p].autoTriggered
  <2>1. recCall[q].alert \in Prediction /\ HasRecommendation(recCall[q].alert)
    BY <1>2, <1>r DEF AutoTrigger, IInv, RecommendationChain, RecKnows
  <2>2. recCall[q].alert = p
    BY <1>2, <1>r, <2>1 DEF AutoTrigger
  <2> QED
    BY <1>2, <1>r, <2>1, <2>2 DEF AutoTrigger, RecommendationRow
<1>3. ASSUME NEW d \in Decision, RecordDecision(d)
      PROVE  /\ HasRecommendation(p) /\ decide[d].alert = p /\ recommendation'[p].decidedBy = d
             /\ recommendation'[p].ownerDecision = decide[d].decision
  <2>1. decide[d].alert \in Prediction /\ HasRecommendation(decide[d].alert)
    BY <1>3, <1>r DEF RecordDecision, IInv, DecisionChain, DecideKnows
  <2>2. decide[d].alert = p
    BY <1>3, <1>r, <2>1 DEF RecordDecision
  <2> QED
    BY <1>3, <1>r, <2>1, <2>2 DEF RecordDecision, RecommendationRow
<1> QED
  BY <1>1, <1>2, <1>3, PlanWriters

(* A plan in the table has a callback behind it.                           *)
LEMMA WrittenStep ==
  ASSUME IInv, [Next]_vars, ~Die, NEW p \in Prediction, Written(p) PROVE Written(p)'
<1>1. CASE HasRecommendation(p)
  <2>1. PICK q \in RecCall : /\ recCall[q].alert = p
                             /\ recCall[q].pc \in {"audit", "rules", "trigger", "triggerAudit", "done"}
    BY <1>1 DEF Written
  <2> QED
    BY <2>1, AdviserStays DEF Written
<1>2. CASE ~HasRecommendation(p) /\ recommendation'[p] = recommendation[p]
  BY <1>2 DEF Written, HasRecommendation
<1>3. CASE ~HasRecommendation(p) /\ recommendation'[p] # recommendation[p]
  BY <1>3, PlanMoves DEF Written
<1> QED
  BY <1>1, <1>2, <1>3

(* A plan that a rule accepted gets its entry.                             *)
LEMMA AcceptedStep ==
  ASSUME IInv, [Next]_vars, ~Die, NEW p \in Prediction, Accepted(p) PROVE Accepted(p)'
<1>k. Keeps
  BY KeepsStep
<1>r. /\ recommendation \in [Prediction -> RecommendationRow]
      /\ recCall \in [RecCall -> RecCallState]
      /\ \A q \in RecCall : recCall[q].pc # "idle" => recCall[q].alert \in Prediction
  BY DEF IInv, TypeInv, TypeOK, Placed
<1>1. ASSUME Ruled(p), HasRecommendation(p) PROVE Ruled(p)'
  <2>1. PICK r \in rules : Covers(r, p) /\ Triggered(p, r) \in audit
    BY <1>1 DEF Ruled
  <2>2. Covers(r, p)'
    BY <1>k, <1>1, <2>1, CoversKept
  <2> QED
    BY <1>k, <2>1, <2>2 DEF Ruled, Keeps, Triggered
<1>2. ASSUME NEW q \in RecCall, recCall[q].alert = p, recCall[q].pc = "triggerAudit"
      PROVE  Accepted(p)'
  <2>1. CASE recCall'[q] = recCall[q]
    BY <1>2, <2>1 DEF Accepted
  <2>2. CASE AuditAutoTrigger(q)
    <3>0. recCall[q].rule \in rules /\ Covers(recCall[q].rule, p) /\ HasRecommendation(p)
      BY <1>2 DEF IInv, RecommendationChain, RecKnows
    <3>1. PICK r \in rules : r = recCall[q].rule /\ Covers(r, p) /\ HasRecommendation(p)
      BY <3>0
    <3>2. Covers(r, p)' /\ r \in rules'
      BY <1>k, <3>1, CoversKept DEF Keeps
    <3>3. Triggered(p, r) \in audit'
      BY <1>2, <2>2, <3>1 DEF AuditAutoTrigger, Triggered
    <3>4. \E x \in rules' : Covers(x, p)' /\ Triggered(p, x) \in audit'
      BY <3>2, <3>3
    <3> QED
      BY <3>4 DEF Accepted, Ruled, Triggered
  <2>3. ~CreateRecommendation(q) /\ ~AuditRecommendation(q) /\ ~FindMatchingRule(q) /\ ~AutoTrigger(q)
    BY <1>2 DEF CreateRecommendation, AuditRecommendation, FindMatchingRule, AutoTrigger
  <2>4. ~ \E x \in Prediction, s \in Supplier \cup {NULL} : ReceiveRecommendation(q, x, s)
    BY <1>2 DEF ReceiveRecommendation
  <2> QED
    BY <2>1, <2>2, <2>3, <2>4, RecMoves DEF RecommendationStep
<1>3. CASE recommendation[p].autoTriggered
  <2>1. HasRecommendation(p)
    BY <1>3 DEF IInv, RecommendationChain, PlansAreWritten
  <2> QED
    BY <1>1, <1>2, <1>3, <2>1 DEF Accepted
<1>4. ASSUME NEW q \in RecCall, AutoTrigger(q), recommendation'[p] # recommendation[p]
      PROVE  Accepted(p)'
  <2>1. recCall[q].alert = p
    BY <1>4, <1>r DEF AutoTrigger
  <2>2. recCall'[q].alert = p /\ recCall'[q].pc = "triggerAudit"
    BY <1>4, <1>r, <2>1 DEF AutoTrigger, RecGoto, RecCallState
  <2> QED
    BY <2>2 DEF Accepted
<1>5. ASSUME ~recommendation[p].autoTriggered, recommendation'[p].autoTriggered
      PROVE  \E q \in RecCall : AutoTrigger(q) /\ recommendation'[p] # recommendation[p]
  <2>1. ASSUME NEW q \in RecCall, CreateRecommendation(q) PROVE FALSE
    <3> DEFINE r == [ownerDecision |-> "pending", recommendedSupplierId |-> recCall[q].supplier,
                     autoTriggered |-> FALSE, decidedBy |-> NULL]
    <3>1. recommendation' = recommendation \/ recommendation' = [recommendation EXCEPT ![recCall[q].alert] = r]
      BY <2>1, Zenon DEF CreateRecommendation
    <3>2. ~r.autoTriggered
      OBVIOUS
    <3> HIDE DEF r
    <3> QED
      BY <1>5, <1>r, <3>1, <3>2
  <2>2. ASSUME NEW d \in Decision, RecordDecision(d) PROVE FALSE
    BY <1>5, <1>r, <2>2 DEF RecordDecision, RecommendationRow
  <2> QED
    BY <1>5, <2>1, <2>2, PlanWriters
<1> QED
  BY <1>3, <1>4, <1>5 DEF Accepted

(* The plan has the kind of whoever decided on it last, or of a rule.      *)
LEMMA OwnedStep ==
  ASSUME IInv, [Next]_vars, ~Die, NEW p \in Prediction, Owned(p) PROVE Owned(p)'
<1>r. /\ recommendation \in [Prediction -> RecommendationRow] /\ decide \in [Decision -> DecideState]
      /\ recommendation[p].decidedBy \in Decision \cup {NULL}
  BY DEF IInv, TypeInv, TypeOK, RecommendationRow
<1>1. ASSUME recommendation'[p].decidedBy = recommendation[p].decidedBy,
             ~recommendation'[p].autoTriggered =>
                /\ ~recommendation[p].autoTriggered
                /\ recommendation'[p].ownerDecision = recommendation[p].ownerDecision
      PROVE  Owned(p)'
  <2> SUFFICES ASSUME recommendation[p].decidedBy # NULL PROVE Owned(p)'
    BY <1>1 DEF Owned
  <2> DEFINE d == recommendation[p].decidedBy
  <2>1. d \in Decision /\ decide[d].alert = p /\ decide[d].pc \in {"audit", "status", "done"}
    BY <1>r DEF Owned
  <2>2. /\ decide'[d].alert = p /\ decide'[d].decision = decide[d].decision
        /\ decide'[d].pc \in {"audit", "status", "done"}
    BY <2>1, DeciderStays
  <2> QED
    BY <1>1, <2>2 DEF Owned
<1>2. CASE recommendation'[p] = recommendation[p]
  BY <1>1, <1>2
<1>3. CASE recommendation'[p].decidedBy = NULL
  BY <1>3 DEF Owned
<1>4. CASE recommendation'[p].decidedBy = recommendation[p].decidedBy /\ recommendation'[p].autoTriggered
  BY <1>1, <1>4
<1>5. ASSUME NEW d \in Decision, RecordDecision(d), decide[d].alert = p,
             recommendation'[p].decidedBy = d,
             recommendation'[p].ownerDecision = decide[d].decision
      PROVE  Owned(p)'
  <2>1. decide'[d].alert = p /\ decide'[d].decision = decide[d].decision /\ decide'[d].pc = "audit"
    BY <1>5, <1>r DEF RecordDecision, DecideGoto, DecideState
  <2> QED
    BY <1>5, <2>1 DEF Owned
<1> QED
  BY <1>2, <1>3, <1>4, <1>5, PlanMoves

(* A decision is recorded, then logged.                                    *)
LEMMA DecLoggedStep ==
  ASSUME IInv, [Next]_vars, ~Die, NEW d \in Decision, DecLogged(d) PROVE DecLogged(d)'
<1> USE DEF DecideGoto
<1>k. Keeps
  BY KeepsStep
<1>r. /\ decide \in [Decision -> DecideState] /\ recommendation \in [Prediction -> RecommendationRow]
      /\ decide[d].pc # "idle" => decide[d].alert \in Prediction
      /\ NULL \notin Decision
  BY LifecycleAssumption DEF IInv, TypeInv, TypeOK, Placed, LifecycleAssumption
<1>1. CASE decide'[d] = decide[d]
  BY <1>1, <1>k, <1>r DEF DecLogged, Decided, Keeps
<1>2. ASSUME NEW p \in Prediction, NEW k \in DecisionKind, FindRecommendation(d, p, k)
      PROVE  DecLogged(d)'
  <2>1. decide'[d].pc \in {"record", "failed"}
    BY <1>2, <1>r DEF FindRecommendation
  <2> QED
    BY <2>1 DEF DecLogged
<1>3. CASE RecordDecision(d)
  <2>1. /\ decide'[d].pc = "audit" /\ decide'[d].alert = decide[d].alert
        /\ recommendation'[decide[d].alert].decidedBy = d
    BY <1>3, <1>r DEF RecordDecision, DecideState, RecommendationRow
  <2> QED
    BY <1>r, <2>1 DEF DecLogged
<1>4. CASE AuditDecision(d)
  <2>1. decide[d].pc = "audit" /\ decide'[d].pc = "status" /\ decide'[d].alert = decide[d].alert
    BY <1>4, <1>r DEF AuditDecision, DecideState
  <2> QED
    BY <1>k, <1>r, <2>1 DEF DecLogged, Keeps
<1>5. CASE SetAlertStatus(d)
  <2>1. /\ decide[d].pc = "status" /\ decide'[d].pc = "done"
        /\ decide'[d].alert = decide[d].alert /\ decide'[d].decision = decide[d].decision
    BY <1>5, <1>r DEF SetAlertStatus, DecideState
  <2>2. Decided(d) \in audit
    BY <2>1 DEF IInv, DecisionChain, DecideKnows, Decided
  <2>3. Decided(d) \in audit'
    BY <1>k, <2>2 DEF Keeps
  <2>4. Decided(d)' = Decided(d)
    BY <2>1 DEF Decided
  <2>5. recommendation'[decide'[d].alert].decidedBy # NULL
    BY <1>k, <1>r, <2>1 DEF DecLogged, Keeps
  <2> QED
    BY <2>3, <2>4, <2>5 DEF DecLogged
<1> QED
  BY <1>1, <1>2, <1>3, <1>4, <1>5, DecisionMoves DEF DecisionStep

(* An alert counts as handled because somebody's decision made it so.      *)
LEMMA AnsweredStep ==
  ASSUME IInv, [Next]_vars, ~Die, NEW p \in Prediction, Answered(p) PROVE Answered(p)'
<1>r. /\ alert \in [Prediction -> AlertRow] /\ decide \in [Decision -> DecideState]
  BY DEF IInv, TypeInv, TypeOK
<1> SUFFICES ASSUME alert'[p].status \in Handled PROVE Answered(p)'
  BY DEF Answered
<1>1. CASE alert'[p].status = alert[p].status
  <2>1. PICK d \in Decision : /\ decide[d].alert = p /\ decide[d].pc = "done"
                              /\ Agree(alert[p].status, decide[d].decision)
    BY <1>1 DEF Answered
  <2>2. /\ decide'[d].alert = p /\ decide'[d].pc = "done"
        /\ decide'[d].decision = decide[d].decision
    BY <2>1, DeciderStays
  <2> QED
    BY <1>1, <2>1, <2>2 DEF Answered, Agree
<1>2. ASSUME NEW x \in Prediction, CreateFromPrediction(x) \/ NotifyCreated(x)
      PROVE  alert'[p].status = alert[p].status
  BY <1>2, <1>r DEF CreateFromPrediction, NotifyCreated, AlertRow, Handled
<1>3. ASSUME NEW c \in Run, NotifyEscalated(c) PROVE alert'[p].status = alert[p].status
  BY <1>3, <1>r DEF NotifyEscalated, AlertRow
<1>4. ASSUME NEW c \in Run, NEW x \in Prediction, Escalate(c, x)
      PROVE  alert'[p].status = alert[p].status
  <2>1. x # p
    BY <1>4, <1>r DEF Escalate, AlertRow, Handled
  <2> QED
    BY <1>4, <1>r, <2>1 DEF Escalate
<1>5. ASSUME NEW d \in Decision, SetAlertStatus(d), alert'[p].status # alert[p].status
      PROVE  Answered(p)'
  <2>1. decide[d].alert = p
    BY <1>5, <1>r DEF SetAlertStatus, AlertRow
  <2>2. alert'[p].status = StatusFor(decide[d].decision)
    BY <1>5, <1>r, <2>1 DEF SetAlertStatus, AlertRow
  <2>3. /\ decide'[d].pc = "done" /\ decide'[d].alert = p
        /\ decide'[d].decision = decide[d].decision
    BY <1>5, <1>r, <2>1 DEF SetAlertStatus, DecideGoto, DecideState
  <2> QED
    BY <2>2, <2>3 DEF Answered, Agree, StatusFor
<1> QED
  BY <1>1, <1>2, <1>3, <1>4, <1>5, AlertWriters

(* Nothing but an escalation, which is remembered, puts back the alert of  *)
(* a decision that is over.                                                *)
LEMMA ConcludedStep ==
  ASSUME IInv, [Next]_vars, ~Die, NEW d \in Decision, Concluded(d) PROVE Concluded(d)'
<1> USE DEF DecideGoto
<1>r. /\ alert \in [Prediction -> AlertRow] /\ decide \in [Decision -> DecideState]
      /\ decide[d].pc # "idle" => decide[d].alert \in Prediction /\ HasAlert(decide[d].alert)
  BY DEF IInv, TypeInv, TypeOK, Placed, DecisionChain, DecideKnows
<1>o. overtaken \subseteq overtaken'
  <2>1. ASSUME NEW c \in Run, RunStep(c) PROVE overtaken \subseteq overtaken'
    BY <2>1 DEF RunStep, FindDue, Escalate, NotifyEscalated, PublishEscalated, env
  <2> QED
    BY <2>1, OvertakenKept
<1>1. ASSUME decide[d].pc = "done" PROVE Concluded(d)'
  <2>1. PICK p \in Prediction : p = decide[d].alert /\ HasAlert(p) /\ Gone(p)
    BY <1>1, <1>r DEF Concluded
  <2>a. decide'[d].alert = p
    BY <1>1, <2>1, DeciderStays
  <2> SUFFICES Gone(p)'
    BY <2>a DEF Concluded
  <2>2. CASE alert'[p].status = alert[p].status
    BY <1>o, <2>1, <2>2 DEF Gone
  <2>3. ASSUME NEW x \in Prediction, CreateFromPrediction(x) \/ NotifyCreated(x)
        PROVE  alert'[p].status = alert[p].status
    <3>1. CASE CreateFromPrediction(x)
      <4>1. x # p
        BY <2>1, <3>1 DEF CreateFromPrediction, IInv, PredictionChain
      <4> QED
        BY <1>r, <2>1, <3>1, <4>1 DEF CreateFromPrediction
    <3>2. CASE NotifyCreated(x)
      BY <1>r, <2>1, <3>2 DEF NotifyCreated, AlertRow
    <3> QED
      BY <2>3, <3>1, <3>2
  <2>4. ASSUME NEW c \in Run, NotifyEscalated(c) PROVE alert'[p].status = alert[p].status
    BY <1>r, <2>1, <2>4 DEF NotifyEscalated, AlertRow
  <2>5. ASSUME NEW e \in Decision, SetAlertStatus(e), alert'[p].status # alert[p].status PROVE Gone(p)'
    BY <1>r, <2>1, <2>5 DEF SetAlertStatus, StatusFor, Handled, AlertRow, Gone
  <2>6. ASSUME NEW c \in Run, NEW x \in Prediction, Escalate(c, x), alert'[p].status # alert[p].status
        PROVE  Gone(p)'
    <3>1. x = p
      BY <1>r, <2>1, <2>6 DEF Escalate
    <3>2. alert'[p].status = "escalated"
      BY <1>r, <2>1, <2>6, <3>1 DEF Escalate, AlertRow
    <3>3. alert[p].status \in Handled
      BY <2>1, <2>6, <3>2 DEF Gone
    <3>4. p \in overtaken'
      BY <2>6, <3>1, <3>3 DEF Escalate
    <3> QED
      BY <3>2, <3>4 DEF Gone
  <2> QED
    BY <2>2, <2>3, <2>4, <2>5, <2>6, AlertWriters
<1>2. ASSUME decide[d].pc # "done", decide'[d].pc = "done" PROVE Concluded(d)'
  <2>1. ~ \E p \in Prediction, k \in DecisionKind : FindRecommendation(d, p, k)
    BY <1>2, <1>r DEF FindRecommendation
  <2>2. ~RecordDecision(d) /\ ~AuditDecision(d)
    BY <1>2, <1>r DEF RecordDecision, AuditDecision, DecideState
  <2>3. SetAlertStatus(d)
    BY <1>2, <2>1, <2>2, DecisionMoves DEF DecisionStep
  <2>4. PICK p \in Prediction : p = decide[d].alert
    BY <1>r, <2>3 DEF SetAlertStatus
  <2>5. decide'[d].alert = p
    BY <1>r, <2>3, <2>4 DEF SetAlertStatus, DecideState
  <2>6. alert'[p].status \in Handled
    BY <1>r, <2>3, <2>4 DEF SetAlertStatus, StatusFor, Handled, AlertRow
  <2> QED
    BY <2>5, <2>6 DEF Concluded, Gone
<1> QED
  BY <1>1, <1>2 DEF Concluded

(* Only a death is a failure.                                              *)
LEMMA CalmFailures ==
  ASSUME [Next]_vars, ~Die PROVE failures' = failures
<1>1. ASSUME NEW p \in Prediction, PredictionStep(p) PROVE failures' = failures
  BY <1>1 DEF PredictionStep, CheckPredictionConsent, CreatePrediction, AuditPrediction,
              CreateFromPrediction, AuditAlert, NotifyCreated, PublishCreated, env
<1>2. ASSUME NEW q \in RecCall, RecommendationStep(q) PROVE failures' = failures
  BY <1>2 DEF RecommendationStep, CreateRecommendation, AuditRecommendation, FindMatchingRule,
              AutoTrigger, AuditAutoTrigger, env
<1>3. ASSUME NEW d \in Decision, DecisionStep(d) PROVE failures' = failures
  BY <1>3 DEF DecisionStep, RecordDecision, AuditDecision, SetAlertStatus, env
<1>4. ASSUME NEW c \in Run, RunStep(c) PROVE failures' = failures
  BY <1>4 DEF RunStep, FindDue, Escalate, NotifyEscalated, PublishEscalated, env
<1>5. CASE UNCHANGED vars \/ Tick \/ Arrival
  BY <1>5 DEF vars, Tick, Arrival, GrantConsent, CreateRule, ReceivePrediction,
              ReceiveRecommendation, FindRecommendation, env
<1> QED
  BY <1>1, <1>2, <1>3, <1>4, <1>5 DEF Next

(* All of it, for as long as nothing dies.                                 *)
LEMMA CalmStep == CalmInv /\ [Next]_vars => CalmInv'
<1> SUFFICES ASSUME CalmInv, [Next]_vars PROVE CalmInv'
  OBVIOUS
<1>1. IInv /\ IInv'
  BY InvStep DEF CalmInv
<1> SUFFICES ASSUME failures' = 0 PROVE Calm'
  BY <1>1 DEF CalmInv
<1>2. failures \in Nat
  BY LifecycleAssumption DEF CalmInv, IInv, TypeInv, TypeOK, LifecycleAssumption
<1>3. ~Die
  BY <1>2 DEF Die
<1>4. failures = 0
  BY <1>3, CalmFailures DEF CalmInv
<1>5. Calm
  BY <1>4 DEF CalmInv
<1>6. ASSUME NEW p \in Prediction
      PROVE  (PredLogged(p) /\ Written(p) /\ Accepted(p) /\ Owned(p) /\ Answered(p))'
  <2>1. PredLogged(p) /\ Written(p) /\ Accepted(p) /\ Owned(p) /\ Answered(p)
    BY <1>5 DEF Calm
  <2> QED
    BY <1>1, <1>3, <2>1, PredLoggedStep, WrittenStep, AcceptedStep, OwnedStep, AnsweredStep
<1>7. \A q \in RecCall : RecLogged(q)'
  BY <1>1, <1>3, <1>5, RecLoggedStep DEF Calm
<1>8. \A d \in Decision : DecLogged(d)' /\ Concluded(d)'
  BY <1>1, <1>3, <1>5, DecLoggedStep, ConcludedStep DEF Calm
<1> QED
  BY <1>6, <1>7, <1>8 DEF Calm

(* The invariant of calm holds in every reachable state.                   *)
LEMMA CalmInvariance == Spec => []CalmInv
<1>1. Init => CalmInv
  <2> SUFFICES ASSUME Init PROVE CalmInv
    OBVIOUS
  <2>1. \A p \in Prediction : PredLogged(p) /\ Written(p) /\ Accepted(p) /\ Owned(p) /\ Answered(p)
    BY DEF Init, PredLogged, Written, Accepted, Owned, Answered, HasRecommendation, Handled
  <2>2. \A q \in RecCall : RecLogged(q)
    BY DEF Init, RecLogged
  <2>3. \A d \in Decision : DecLogged(d) /\ Concluded(d)
    BY DEF Init, DecLogged, Concluded
  <2> QED
    BY <2>1, <2>2, <2>3, InvInit DEF CalmInv, Calm
<1> QED
  BY <1>1, CalmStep, PTL DEF Spec

(* While nothing has died, the log has the entries of every request that   *)
(* is over, the acceptances by rules and overwritten decisions included.   *)
THEOREM CatchUpTheorem == Spec => []AuditCatchesUp
<1>1. CalmInv => AuditCatchesUp
  <2> SUFFICES ASSUME CalmInv, failures = 0, NEW p \in Prediction
               PROVE  /\ prediction[p].stored /\ ~PredInFlight(p) =>
                            Created(p) \in audit /\ Raised(p) \in audit
                      /\ HasRecommendation(p) /\ (\A q \in RecCall : RecInFlight(q) => recCall[q].alert # p) =>
                            /\ Advised(p) \in audit
                            /\ recommendation[p].autoTriggered => Ruled(p)
                      /\ \A d \in Decision : decide[d].alert = p /\ decide[d].pc = "done" =>
                            Decided(d) \in audit
    BY DEF AuditCatchesUp, Created, Raised, Advised, Ruled, Triggered, Decided
  <2>1. /\ Calm /\ PredLogged(p) /\ Written(p) /\ Accepted(p) /\ predCall[p] \in PredCallState
        /\ NULL \notin Decision
        /\ predCall[p] = "idle" => ~prediction[p].stored
    BY LifecycleAssumption
    DEF CalmInv, Calm, IInv, TypeInv, TypeOK, PredictionChain, LifecycleAssumption
  <2>2. prediction[p].stored /\ ~PredInFlight(p) => Created(p) \in audit /\ Raised(p) \in audit
    BY <2>1 DEF PredLogged, PredInFlight
  <2>3. ASSUME HasRecommendation(p), \A q \in RecCall : RecInFlight(q) => recCall[q].alert # p
        PROVE  Advised(p) \in audit /\ (recommendation[p].autoTriggered => Ruled(p))
    <3>1. PICK q \in RecCall : /\ recCall[q].alert = p
                               /\ recCall[q].pc \in {"audit", "rules", "trigger", "triggerAudit", "done"}
      BY <2>1, <2>3 DEF Written
    <3>2. recCall[q].pc = "done"
      BY <2>3, <3>1 DEF RecInFlight
    <3>3. RecLogged(q)
      BY <2>1 DEF Calm
    <3>4. ~ \E x \in RecCall : recCall[x].alert = p /\ recCall[x].pc = "triggerAudit"
      BY <2>3 DEF RecInFlight
    <3> QED
      BY <2>1, <3>1, <3>2, <3>3, <3>4 DEF RecLogged, Accepted
  <2>4. ASSUME NEW d \in Decision, decide[d].alert = p, decide[d].pc = "done"
        PROVE  Decided(d) \in audit
    BY <2>1, <2>4 DEF Calm, DecLogged
  <2> QED
    BY <2>2, <2>3, <2>4
<1> QED
  BY CalmInvariance, <1>1, PTL

(* Once its decisions are over an alert is handled as its plan was, unless *)
(* an escalation overtook them, two people differed, or a rule replaced    *)
(* what a person decided.                                                  *)
THEOREM RaceTheorem == Spec => []DisagreementNeedsRace
<1>1. CalmInv => DisagreementNeedsRace
  <2> SUFFICES ASSUME CalmInv, failures = 0, NEW p \in Prediction,
                      NEW a \in Decision, decide[a].alert = p, decide[a].pc = "done"
               PROVE  /\ \/ alert[p].status \in Handled
                         \/ alert[p].status = "escalated" /\ p \in overtaken
                      /\ \/ alert[p].status \in Handled
                               /\ Agree(alert[p].status, recommendation[p].ownerDecision)
                         \/ p \in overtaken
                         \/ recommendation[p].autoTriggered
                         \/ \E d, e \in {x \in Decision : decide[x].alert = p /\ decide[x].pc # "failed"} :
                               decide[d].decision # decide[e].decision
    BY DEF DisagreementNeedsRace
  <2>1. \/ alert[p].status \in Handled
        \/ alert[p].status = "escalated" /\ p \in overtaken
    BY DEF CalmInv, Calm, Concluded, Gone
  <2>2. ASSUME alert[p].status \in Handled,
               ~Agree(alert[p].status, recommendation[p].ownerDecision),
               ~recommendation[p].autoTriggered
        PROVE  \E d, e \in {x \in Decision : decide[x].alert = p /\ decide[x].pc # "failed"} :
                  decide[d].decision # decide[e].decision
    <3>1. PICK d \in Decision : /\ decide[d].alert = p /\ decide[d].pc = "done"
                                /\ Agree(alert[p].status, decide[d].decision)
      BY <2>2 DEF CalmInv, Calm, Answered
    <3>2. recommendation[p].decidedBy # NULL
      BY <3>1 DEF CalmInv, Calm, DecLogged
    <3>3. PICK e \in Decision : e = recommendation[p].decidedBy
      BY <3>2 DEF CalmInv, IInv, TypeInv, TypeOK, RecommendationRow
    <3>4. /\ decide[e].alert = p /\ decide[e].pc \in {"audit", "status", "done"}
          /\ recommendation[p].ownerDecision = decide[e].decision
      BY <2>2, <3>2, <3>3 DEF CalmInv, Calm, Owned
    <3>5. decide[d].decision # decide[e].decision
      BY <2>2, <3>1, <3>4 DEF Agree
    <3> QED
      BY <3>1, <3>4, <3>5
  <2> QED
    BY <2>1, <2>2
<1> QED
  BY CalmInvariance, <1>1, PTL

-----------------------------------------------------------------------------
(* Escalation *)

(* An alert that was escalated is not one a run looks for, and none that a *)
(* run still holds has been.                                               *)
OnceInv ==
    /\ \A p \in Prediction : alert[p].status \in Unacted \cup {"none"} => alert[p].escalatedAt = NULL
    /\ \A c \in Run :
        /\ run[c].pc = "update" => \A p \in run[c].toEscalate : alert[p].escalatedAt = NULL
        /\ run[c].pc \in {"notify", "publish"} =>
              \A p \in run[c].toEscalate \ {run[c].alert} : alert[p].escalatedAt = NULL

(* Only Escalate sets the time of an escalation, and it finds it unset.    *)
LEMMA EscalatedAtKept ==
  ASSUME IInv, OnceInv, [Next]_vars, NEW p \in Prediction
  PROVE  \/ alert'[p].escalatedAt = alert[p].escalatedAt
         \/ alert[p].escalatedAt = NULL /\ \E c \in Run : Escalate(c, p)
<1>r. alert \in [Prediction -> AlertRow]
  BY DEF IInv, TypeInv, TypeOK
<1>1. ASSUME NEW x \in Prediction, CreateFromPrediction(x)
      PROVE  alert'[p].escalatedAt = alert[p].escalatedAt
  <2>1. alert[x].escalatedAt = NULL
    BY <1>1 DEF CreateFromPrediction, IInv, PredictionChain, HasAlert, OnceInv
  <2> QED
    BY <1>1, <1>r, <2>1 DEF CreateFromPrediction
<1>2. ASSUME NEW x \in Prediction, NotifyCreated(x)
      PROVE  alert'[p].escalatedAt = alert[p].escalatedAt
  BY <1>2, <1>r DEF NotifyCreated, AlertRow
<1>3. ASSUME NEW d \in Decision, SetAlertStatus(d)
      PROVE  alert'[p].escalatedAt = alert[p].escalatedAt
  BY <1>3, <1>r DEF SetAlertStatus, AlertRow
<1>4. ASSUME NEW c \in Run, NotifyEscalated(c)
      PROVE  alert'[p].escalatedAt = alert[p].escalatedAt
  BY <1>4, <1>r DEF NotifyEscalated, AlertRow
<1>5. ASSUME NEW c \in Run, NEW x \in Prediction, Escalate(c, x)
      PROVE  \/ alert'[p].escalatedAt = alert[p].escalatedAt
             \/ alert[p].escalatedAt = NULL /\ Escalate(c, p)
  BY <1>5, <1>r DEF Escalate, OnceInv
<1> QED
  BY <1>1, <1>2, <1>3, <1>4, <1>5, AlertWriters

(* A run that finds alerts finds none that was escalated before.           *)
LEMMA OnceStep ==
  ASSUME \A c, d \in Run : c = d, IInv, OnceInv, [Next]_vars PROVE OnceInv'
<1> USE DEF tables, logs, env
<1>r. alert \in [Prediction -> AlertRow] /\ run \in [Run -> RunState]
  BY DEF IInv, TypeInv, TypeOK
<1>1. ASSUME NEW p \in Prediction, alert'[p].status \in Unacted \cup {"none"}
      PROVE  alert'[p].escalatedAt = NULL
  <2>1. alert[p].status \in Unacted \cup {"none"} /\ ~ \E c \in Run : Escalate(c, p)
    <3>1. ASSUME NEW x \in Prediction, CreateFromPrediction(x) \/ NotifyCreated(x)
          PROVE  x # p => alert'[p].status = alert[p].status
      BY <3>1, <1>r DEF CreateFromPrediction, NotifyCreated
    <3>2. ASSUME CreateFromPrediction(p) \/ NotifyCreated(p)
          PROVE  alert[p].status = "none" \/ alert'[p].status = alert[p].status
      BY <3>2, <1>r DEF CreateFromPrediction, NotifyCreated, IInv, PredictionChain, HasAlert, AlertRow
    <3>3. ASSUME NEW d \in Decision, SetAlertStatus(d) PROVE alert'[p].status = alert[p].status
      BY <3>3, <1>1, <1>r DEF SetAlertStatus, StatusFor, AlertRow, Unacted
    <3>4. ASSUME NEW c \in Run, NotifyEscalated(c) PROVE alert'[p].status = alert[p].status
      BY <3>4, <1>r DEF NotifyEscalated, AlertRow
    <3>5. ASSUME NEW c \in Run, NEW x \in Prediction, Escalate(c, x)
          PROVE  x # p /\ alert'[p].status = alert[p].status
      BY <3>5, <1>1, <1>r DEF Escalate, AlertRow, Unacted
    <3> QED
      BY <1>1, <3>1, <3>2, <3>3, <3>4, <3>5, AlertWriters
  <2> QED
    BY <2>1, EscalatedAtKept DEF OnceInv
<1>2. ASSUME NEW c \in Run
      PROVE  /\ run'[c].pc = "update" => \A p \in run'[c].toEscalate : alert'[p].escalatedAt = NULL
             /\ run'[c].pc \in {"notify", "publish"} =>
                   \A p \in run'[c].toEscalate \ {run'[c].alert} : alert'[p].escalatedAt = NULL
  <2>t. run[c].toEscalate \subseteq Prediction
    BY <1>r DEF RunState
  <2>0. \A p \in Prediction : ~Escalate(c, p) /\ alert[p].escalatedAt = NULL =>
            alert'[p].escalatedAt = NULL
    BY EscalatedAtKept
  <2>1. CASE FindDue(c)
    <3>1. run'[c].pc = "update" /\ run'[c].toEscalate = Due /\ alert' = alert
      BY <2>1, <1>r DEF FindDue, NoRun
    <3> QED
      BY <3>1 DEF Due, OnceInv
  <2>2. ASSUME NEW x \in Prediction, Escalate(c, x)
        PROVE  /\ run'[c].pc = "notify"
               /\ \A p \in run'[c].toEscalate \ {run'[c].alert} : alert'[p].escalatedAt = NULL
    <3>1. /\ run'[c].pc = "notify" /\ run'[c].toEscalate = run[c].toEscalate
          /\ run'[c].alert = x /\ run[c].pc = "update"
          /\ \A p \in Prediction \ {x} : alert'[p] = alert[p]
      BY <2>2, <1>r DEF Escalate, RunState
    <3> QED
      BY <2>t, <3>1 DEF OnceInv
  <2>3. CASE NotifyEscalated(c)
    <3>1. /\ run'[c].pc = "publish" /\ run'[c].toEscalate = run[c].toEscalate
          /\ run'[c].alert = run[c].alert /\ run[c].pc = "notify"
          /\ \A p \in Prediction : ~Escalate(c, p)
      BY <2>3, <1>r DEF NotifyEscalated, Escalate, RunState
    <3> QED
      BY <2>t, <2>0, <3>1 DEF OnceInv
  <2>4. CASE PublishEscalated(c)
    <3>1. /\ run[c].pc = "publish" /\ alert' = alert
          /\ \/ run'[c].pc = "idle"
             \/ /\ run'[c].pc = "update"
                /\ run'[c].toEscalate = run[c].toEscalate \ {run[c].alert}
      BY <2>4, <1>r DEF PublishEscalated, NoRun
    <3> QED
      BY <3>1 DEF OnceInv
  <2>5. CASE run'[c] = run[c] /\ \A p \in Prediction : ~Escalate(c, p)
    BY <2>t, <2>0, <2>5 DEF OnceInv
  <2>6. CASE run'[c] = NoRun
    BY <2>6 DEF NoRun
  <2>7. \/ RunStep(c) \/ run'[c] = NoRun
        \/ run'[c] = run[c] /\ \A p \in Prediction : ~Escalate(c, p)
    <3>1. ASSUME run' = run PROVE \A p \in Prediction : ~Escalate(c, p)
      BY <3>1, <1>r DEF Escalate, RunState
    <3>2. ASSUME NEW p \in Prediction, PredictionStep(p) PROVE run' = run
      BY <3>2 DEF PredictionStep, CheckPredictionConsent, CreatePrediction, AuditPrediction,
                  CreateFromPrediction, AuditAlert, NotifyCreated, PublishCreated
    <3>3. ASSUME NEW q \in RecCall, RecommendationStep(q) PROVE run' = run
      BY <3>3 DEF RecommendationStep, CreateRecommendation, AuditRecommendation, FindMatchingRule,
                  AutoTrigger, AuditAutoTrigger
    <3>4. ASSUME NEW d \in Decision, DecisionStep(d) PROVE run' = run
      BY <3>4 DEF DecisionStep, RecordDecision, AuditDecision, SetAlertStatus
    <3>5. CASE UNCHANGED vars \/ Tick \/ Arrival
      BY <3>1, <3>5 DEF vars, Tick, Arrival, GrantConsent, CreateRule, ReceivePrediction,
                  ReceiveRecommendation, FindRecommendation
    <3>6. CASE Die
      <4>1. run' = run \/ \E d \in Run : run' = [run EXCEPT ![d] = NoRun]
        BY <3>6 DEF Die
      <4> QED
        BY <1>r, <3>1, <4>1
    <3>7. ASSUME NEW d \in Run, RunStep(d) PROVE RunStep(c)
      BY <3>7
    <3> QED
      BY <3>1, <3>2, <3>3, <3>4, <3>5, <3>6, <3>7 DEF Next
  <2> QED
    BY <2>1, <2>2, <2>3, <2>4, <2>5, <2>6, <2>7 DEF RunStep
<1> QED
  BY <1>1, <1>2 DEF OnceInv

(* While runs do not overlap, an alert is escalated once and no more.      *)
THEOREM OnceTheorem ==
  ASSUME \A c, d \in Run : c = d
  PROVE  Spec => EscalatesOnce
<1>1. Init => OnceInv
  BY DEF Init, OnceInv, NoRun
<1>2. IInv /\ OnceInv /\ [Next]_vars => OnceInv'
  BY OnceStep
<1>3. IInv /\ OnceInv /\ [Next]_vars =>
        [\A p \in Prediction : alert[p].escalatedAt # NULL =>
             alert'[p].escalatedAt = alert[p].escalatedAt]_vars
  BY EscalatedAtKept
<1> QED
  BY <1>1, <1>2, <1>3, Invariance, PTL DEF Spec, EscalatesOnce

-----------------------------------------------------------------------------
(* What is announced *)

(* A run holds an alert only while it is on its way to announce it.        *)
Holding == \A c \in Run : run[c].pc \notin {"notify", "publish"} => run[c].alert = NULL

SilenceBudget ==
    /\ IsFiniteSet(Unannounced) /\ IsFiniteSet(Unescalated)
    /\ SilenceIsFailure

(* While nothing dies, a run is moved by its own steps alone.              *)
LEMMA RunMoves ==
  ASSUME IInv, [Next]_vars, ~Die, NEW c \in Run
  PROVE  run'[c] = run[c] \/ RunStep(c)
<1> USE DEF tables, logs, env
<1>r. run \in [Run -> RunState]
  BY DEF IInv, TypeInv, TypeOK
<1>1. ASSUME NEW d \in Run, d # c, RunStep(d) PROVE run'[c] = run[c]
  BY <1>1, <1>r DEF RunStep, FindDue, Escalate, NotifyEscalated, PublishEscalated
<1>2. ASSUME NEW p \in Prediction, PredictionStep(p) PROVE run' = run
  BY <1>2 DEF PredictionStep, CheckPredictionConsent, CreatePrediction, AuditPrediction,
              CreateFromPrediction, AuditAlert, NotifyCreated, PublishCreated
<1>3. ASSUME NEW q \in RecCall, RecommendationStep(q) PROVE run' = run
  BY <1>3 DEF RecommendationStep, CreateRecommendation, AuditRecommendation, FindMatchingRule,
              AutoTrigger, AuditAutoTrigger
<1>4. ASSUME NEW d \in Decision, DecisionStep(d) PROVE run' = run
  BY <1>4 DEF DecisionStep, RecordDecision, AuditDecision, SetAlertStatus
<1>5. CASE UNCHANGED vars \/ Tick \/ Arrival
  BY <1>5 DEF vars, Tick, Arrival, GrantConsent, CreateRule, ReceivePrediction,
              ReceiveRecommendation, FindRecommendation
<1> QED
  BY <1>1, <1>2, <1>3, <1>4, <1>5 DEF Next

(* Each step of a run takes an alert up or puts it down with its event.    *)
LEMMA RunTakes ==
  ASSUME IInv, Holding, NEW c \in Run, RunStep(c)
  PROVE  /\ run'[c].pc \notin {"notify", "publish"} => run'[c].alert = NULL
         /\ \/ run[c].alert = NULL
            \/ run'[c].alert = run[c].alert
            \/ [type |-> "alert.escalated", alert |-> run[c].alert] \in published'
         /\ \A p \in Prediction : Escalate(c, p) => run'[c].alert = p
<1>r. run \in [Run -> RunState]
  BY DEF IInv, TypeInv, TypeOK
<1>0. \A p \in Prediction : Escalate(c, p) => run'[c].alert = p
  BY <1>r DEF Escalate, RunState
<1>1. CASE FindDue(c)
  <2>1. run[c].alert = NULL /\ run'[c].alert = NULL
    BY <1>1, <1>r DEF FindDue, Holding, NoRun
  <2> QED
    BY <1>0, <2>1
<1>2. ASSUME NEW p \in Prediction, Escalate(c, p)
      PROVE  run[c].alert = NULL /\ run'[c].pc = "notify"
  BY <1>2, <1>r DEF Escalate, Holding, RunState
<1>3. CASE NotifyEscalated(c)
  <2>1. run'[c].alert = run[c].alert /\ run'[c].pc = "publish"
    BY <1>3, <1>r DEF NotifyEscalated, RunState
  <2> QED
    BY <1>0, <2>1
<1>4. CASE PublishEscalated(c)
  <2>1. /\ run'[c].alert = NULL
        /\ [type |-> "alert.escalated", alert |-> run[c].alert] \in published'
    BY <1>4, <1>r DEF PublishEscalated, NoRun
  <2> QED
    BY <1>0, <2>1
<1> QED
  BY <1>0, <1>1, <1>2, <1>3, <1>4 DEF RunStep

(* ... and a run that dies puts it down without.                           *)
LEMMA HoldingStep ==
  ASSUME IInv, Holding, [Next]_vars PROVE Holding'
<1>r. run \in [Run -> RunState]
  BY DEF IInv, TypeInv, TypeOK
<1>1. CASE Die
  <2>1. run' = run \/ \E c \in Run : run' = [run EXCEPT ![c] = NoRun]
    BY <1>1 DEF Die
  <2> QED
    BY <1>r, <2>1 DEF Holding, NoRun
<1>2. CASE ~Die
  <2>1. ASSUME NEW c \in Run, run'[c].pc \notin {"notify", "publish"} PROVE run'[c].alert = NULL
    BY <1>2, <2>1, RunMoves, RunTakes DEF Holding
  <2> QED
    BY <2>1 DEF Holding
<1> QED
  BY <1>1, <1>2

(* A callback that runs on announces what it has stored.                   *)
LEMMA UnannouncedStep ==
  ASSUME IInv, [Next]_vars, ~Die PROVE Unannounced' \subseteq Unannounced
<1> USE DEF PredGoto
<1>k. published \subseteq published'
  BY KeepsStep DEF Keeps
<1>r. predCall \in [Prediction -> PredCallState] /\ prediction \in [Prediction -> PredictionRow]
  BY DEF IInv, TypeInv, TypeOK
<1>1. ASSUME NEW p \in Prediction, p \in Unannounced'
      PROVE  predCall'[p] = predCall[p] /\ prediction'[p] = prediction[p]
  <2>0. /\ prediction'[p].stored
        /\ predCall'[p] \in {"idle", "done", "refused", "failed"}
        /\ [type |-> "alert.created", alert |-> p] \notin published'
    BY <1>1 DEF Unannounced, PredInFlight
  <2>1. ASSUME NEW lead \in Lead, NEW conf \in Confidence, ReceivePrediction(p, lead, conf)
        PROVE  FALSE
    BY <2>0, <2>1, <1>r DEF ReceivePrediction
  <2>2. ~CheckPredictionConsent(p)
    BY <2>0, <1>r DEF CheckPredictionConsent, tables, IInv, PredictionChain
  <2>3. ~PublishCreated(p)
    BY <2>0 DEF PublishCreated
  <2>4. ~(CreatePrediction(p) \/ AuditPrediction(p) \/ CreateFromPrediction(p)
            \/ AuditAlert(p) \/ NotifyCreated(p))
    BY <2>0, <1>r DEF CreatePrediction, AuditPrediction, CreateFromPrediction, AuditAlert,
                      NotifyCreated
  <2> QED
    BY <2>1, <2>2, <2>3, <2>4, PredMoves DEF PredictionStep
<1>2. ASSUME NEW p \in Prediction, p \in Unannounced' PROVE p \in Unannounced
  BY <1>1, <1>2, <1>k DEF Unannounced, PredInFlight
<1> QED
  BY <1>2 DEF Unannounced

(* A run that runs on announces what it has escalated.                     *)
LEMMA UnescalatedStep ==
  ASSUME IInv, Holding, [Next]_vars, ~Die PROVE Unescalated' \subseteq Unescalated
<1>k. published \subseteq published'
  BY KeepsStep DEF Keeps
<1>r. alert \in [Prediction -> AlertRow] /\ NULL \notin Prediction
  BY LifecycleAssumption DEF LifecycleAssumption, IInv, TypeInv, TypeOK
<1>1. ASSUME NEW p \in Prediction, p \in Unescalated' PROVE p \in Unescalated
  <2>0. /\ alert'[p].escalatedAt # NULL
        /\ [type |-> "alert.escalated", alert |-> p] \notin published'
        /\ \A c \in Run : run'[c].alert # p
    BY <1>1 DEF Unescalated
  <2>1. \A c \in Run : run[c].alert # p
    BY <1>r, <2>0, RunMoves, RunTakes
  <2>2. ASSUME NEW c \in Run, Escalate(c, p) PROVE FALSE
    BY <2>0, <2>2, RunTakes DEF RunStep
  <2>3. ASSUME NEW x \in Prediction, CreateFromPrediction(x) \/ NotifyCreated(x)
        PROVE  alert[p].escalatedAt # NULL
    BY <2>0, <2>3, <1>r DEF CreateFromPrediction, NotifyCreated, AlertRow
  <2>4. ASSUME NEW d \in Decision, SetAlertStatus(d) PROVE alert[p].escalatedAt # NULL
    BY <2>0, <2>4, <1>r DEF SetAlertStatus, AlertRow
  <2>5. ASSUME NEW c \in Run, NotifyEscalated(c) PROVE alert[p].escalatedAt # NULL
    BY <2>0, <2>5, <1>r DEF NotifyEscalated, AlertRow
  <2>6. ASSUME NEW c \in Run, NEW x \in Prediction, x # p, Escalate(c, x)
        PROVE  alert[p].escalatedAt # NULL
    BY <2>0, <2>6, <1>r DEF Escalate, AlertRow
  <2>7. alert[p].escalatedAt # NULL
    BY <2>0, <2>2, <2>3, <2>4, <2>5, <2>6, AlertWriters
  <2> QED
    BY <1>k, <2>0, <2>1, <2>7 DEF Unescalated
<1> QED
  BY <1>1 DEF Unescalated

(* A death silences at most one event.                                     *)
LEMMA DieSilences ==
  ASSUME IInv, Holding, Die
  PROVE  \E i : \/ Unannounced' \subseteq Unannounced \cup {i} /\ Unescalated' \subseteq Unescalated
                \/ Unannounced' \subseteq Unannounced /\ Unescalated' \subseteq Unescalated \cup {i}
<1> USE DEF tables, logs
<1>r. predCall \in [Prediction -> PredCallState] /\ run \in [Run -> RunState]
  BY DEF IInv, TypeInv, TypeOK
<1>u. UNCHANGED <<prediction, alert, published>>
  BY DEF Die
<1>1. ASSUME run' = run PROVE Unescalated' = Unescalated
  BY <1>1, <1>u DEF Unescalated
<1>2. ASSUME predCall' = predCall PROVE Unannounced' = Unannounced
  BY <1>2, <1>u DEF Unannounced, PredInFlight
<1>3. ASSUME NEW p \in Prediction, PredGoto(p, "failed"), run' = run
      PROVE  Unannounced' \subseteq Unannounced \cup {p} /\ Unescalated' \subseteq Unescalated
  <2>1. \A x \in Prediction \ {p} : predCall'[x] = predCall[x]
    BY <1>3, <1>r DEF PredGoto
  <2> QED
    BY <1>1, <1>3, <1>u, <2>1 DEF Unannounced, PredInFlight
<1>4. ASSUME NEW c \in Run, run' = [run EXCEPT ![c] = NoRun], predCall' = predCall
      PROVE  Unannounced' \subseteq Unannounced /\ Unescalated' \subseteq Unescalated \cup {run[c].alert}
  <2>1. \A d \in Run \ {c} : run'[d] = run[d]
    BY <1>4, <1>r
  <2>2. ASSUME NEW p \in Unescalated', p # run[c].alert PROVE p \in Unescalated
    BY <1>u, <2>1, <2>2 DEF Unescalated
  <2> QED
    BY <1>2, <1>4, <2>2
<1>5. CASE predCall' = predCall /\ run' = run
  BY <1>1, <1>2, <1>5
<1> QED
  BY <1>3, <1>4, <1>5 DEF Die

(* A set that gains at most one element gains at most one.                 *)
LEMMA GrowsByOne ==
  ASSUME NEW S, NEW T, NEW i, IsFiniteSet(S), T \subseteq S \cup {i}
  PROVE  IsFiniteSet(T) /\ Cardinality(T) <= Cardinality(S) + 1
<1>1. /\ IsFiniteSet(S \cup {i}) /\ Cardinality(S) \in Nat
      /\ Cardinality(S \cup {i}) \in {Cardinality(S), Cardinality(S) + 1}
  BY FS_AddElement, FS_CardinalityType
<1>2. IsFiniteSet(T) /\ Cardinality(T) <= Cardinality(S \cup {i}) /\ Cardinality(T) \in Nat
  BY <1>1, FS_Subset, FS_CardinalityType
<1> QED
  BY <1>1, <1>2

(* The events that are missing never outnumber the deaths.                 *)
LEMMA SilenceStep ==
  ASSUME IInv, Holding, SilenceBudget, [Next]_vars PROVE SilenceBudget'
<1>r. /\ IsFiniteSet(Unannounced) /\ IsFiniteSet(Unescalated) /\ failures \in Nat
      /\ Cardinality(Unannounced) \in Nat /\ Cardinality(Unescalated) \in Nat
      /\ Cardinality(Unannounced) + Cardinality(Unescalated) <= failures
  BY FS_CardinalityType, LifecycleAssumption
  DEF SilenceBudget, SilenceIsFailure, IInv, TypeInv, TypeOK, LifecycleAssumption
<1>1. CASE ~Die
  <2>1. Unannounced' \subseteq Unannounced /\ Unescalated' \subseteq Unescalated
    BY <1>1, UnannouncedStep, UnescalatedStep
  <2>2. /\ IsFiniteSet(Unannounced') /\ Cardinality(Unannounced') <= Cardinality(Unannounced)
        /\ IsFiniteSet(Unescalated') /\ Cardinality(Unescalated') <= Cardinality(Unescalated)
    BY <1>r, <2>1, FS_Subset
  <2>3. failures' = failures
    BY <1>1, CalmFailures
  <2>4. Cardinality(Unannounced') \in Nat /\ Cardinality(Unescalated') \in Nat
    BY <2>2, FS_CardinalityType
  <2> QED
    BY <1>r, <2>2, <2>3, <2>4 DEF SilenceBudget, SilenceIsFailure
<1>2. CASE Die
  <2>1. PICK i : \/ Unannounced' \subseteq Unannounced \cup {i} /\ Unescalated' \subseteq Unescalated
                 \/ Unannounced' \subseteq Unannounced /\ Unescalated' \subseteq Unescalated \cup {i}
    BY <1>2, DieSilences
  <2>2. /\ IsFiniteSet(Unannounced') /\ IsFiniteSet(Unescalated')
        /\ \/ /\ Cardinality(Unannounced') <= Cardinality(Unannounced) + 1
              /\ Cardinality(Unescalated') <= Cardinality(Unescalated)
           \/ /\ Cardinality(Unannounced') <= Cardinality(Unannounced)
              /\ Cardinality(Unescalated') <= Cardinality(Unescalated) + 1
    BY <1>r, <2>1, FS_Subset, GrowsByOne
  <2>3. failures' = failures + 1
    BY <1>2 DEF Die
  <2>4. Cardinality(Unannounced') \in Nat /\ Cardinality(Unescalated') \in Nat
    BY <2>2, FS_CardinalityType
  <2> QED
    BY <1>r, <2>2, <2>3, <2>4 DEF SilenceBudget, SilenceIsFailure
<1> QED
  BY <1>1, <1>2

(* Every prediction and every escalation is announced, or somebody died on *)
(* the way: one death per event, whatever overlaps or intervenes.          *)
THEOREM SilenceTheorem == Spec => []SilenceIsFailure
<1>1. Init => Holding /\ SilenceBudget
  <2> SUFFICES ASSUME Init PROVE Holding /\ SilenceBudget
    OBVIOUS
  <2>1. Holding
    BY DEF Init, Holding, NoRun
  <2>2. Unannounced = {} /\ Unescalated = {} /\ failures = 0
    BY DEF Init, Unannounced, Unescalated
  <2> QED
    BY <2>1, <2>2, FS_EmptySet DEF SilenceBudget, SilenceIsFailure
<1>2. IInv /\ Holding /\ SilenceBudget /\ [Next]_vars => (Holding /\ SilenceBudget)'
  BY HoldingStep, SilenceStep
<1>3. SilenceBudget => SilenceIsFailure
  BY DEF SilenceBudget
<1> QED
  BY <1>1, <1>2, <1>3, Invariance, PTL DEF Spec
=============================================================================
