------------------------ MODULE AlertLifecycleProofs ------------------------
(***************************************************************************)
(* Theorems about AlertLifecycle, for every number of businesses,          *)
(* callbacks, decisions, runs and rules, and every bound.                  *)
(***************************************************************************)
EXTENDS AlertLifecycle, TLAPS

(* A request past its first transaction knows the rows it works on.        *)
Placed ==
    /\ \A q \in RecCall : recCall[q].pc # "idle" => recCall[q].alert \in Prediction
    /\ \A q \in RecCall : recCall[q].pc \in {"trigger", "triggerAudit"} =>
          recCall[q].rule \in RuleRow
    /\ \A d \in Decision : decide[d].pc # "idle" =>
          decide[d].alert \in Prediction /\ decide[d].decision \in DecisionKind
    /\ \A c \in Run : run[c].pc \in {"notify", "publish"} => run[c].alert \in Prediction

TypeInv == TypeOK /\ Placed

(* How the rows change: an update keeps the type of its table.             *)
LEMMA PlanInserted ==
  ASSUME NEW f \in [Prediction -> RecommendationRow], NEW p \in Prediction,
         NEW s \in Supplier \cup {NULL}
  PROVE  [f EXCEPT ![p] = [ownerDecision |-> "pending", recommendedSupplierId |-> s,
                           autoTriggered |-> FALSE, decidedBy |-> NULL]]
           \in [Prediction -> RecommendationRow]
  BY DEF RecommendationRow

(* An automatic trigger keeps the plans well typed.                        *)
LEMMA PlanAutoTriggered ==
  ASSUME NEW f \in [Prediction -> RecommendationRow], NEW p \in Prediction
  PROVE  [f EXCEPT ![p].ownerDecision = "accepted", ![p].autoTriggered = TRUE]
           \in [Prediction -> RecommendationRow]
  BY DEF RecommendationRow, DecisionKind

(* A decision keeps the plans well typed.                                  *)
LEMMA PlanDecided ==
  ASSUME NEW f \in [Prediction -> RecommendationRow], NEW p \in Prediction,
         NEW k \in DecisionKind, NEW d \in Decision
  PROVE  [f EXCEPT ![p].ownerDecision = k, ![p].decidedBy = d]
           \in [Prediction -> RecommendationRow]
  BY DEF RecommendationRow

(* Replacing the row of one alert by a row keeps the alerts well typed.    *)
LEMMA AlertUpdate ==
  ASSUME NEW f \in [Prediction -> AlertRow], NEW p \in Prediction
  PROVE  /\ \A s \in AlertStatus : [f EXCEPT ![p].status = s] \in [Prediction -> AlertRow]
         /\ \A t \in 0..Horizon : [f EXCEPT ![p].status = "escalated", ![p].escalatedAt = t]
               \in [Prediction -> AlertRow]
         /\ \A ch \in SUBSET Channel : [f EXCEPT ![p].channelsSent = ch]
               \in [Prediction -> AlertRow]
  BY DEF AlertRow, AlertStatus

(* The empty tables are well typed.                                        *)
LEMMA TypeInit == Init => TypeInv
<1> USE LifecycleAssumption DEF LifecycleAssumption
<1>1. Init => TypeOK
  BY DEF Init, TypeOK, PredictionRow, AlertRow, RecommendationRow, AlertStatus,
         DecisionKind, PredCallState, RecCallState, DecideState, RunState, NoRun
<1>2. Init => Placed
  BY DEF Init, Placed, NoRun
<1> QED
  BY <1>1, <1>2 DEF TypeInv

(* The prediction callback writes only well-typed rows.                    *)
LEMMA TypePrediction ==
  ASSUME TypeInv, NEW p \in Prediction, PredictionStep(p) PROVE TypeInv'
<1> USE LifecycleAssumption
    DEF TypeInv, TypeOK, LifecycleAssumption, PredGoto, PredCallState, tables, logs, env
<1>0. UNCHANGED <<recCall, decide, run>>
  BY DEF PredictionStep, CheckPredictionConsent, CreatePrediction, AuditPrediction,
         CreateFromPrediction, AuditAlert, NotifyCreated, PublishCreated
<1>p. Placed'
  BY <1>0 DEF Placed
<1>1. CASE CheckPredictionConsent(p)
  BY <1>p, <1>1 DEF CheckPredictionConsent
<1>2. CASE CreatePrediction(p)
  BY <1>p, <1>2 DEF CreatePrediction, PredictionRow
<1>3. CASE AuditPrediction(p)
  BY <1>p, <1>3 DEF AuditPrediction, Entry, AuditEntry, AuditAction
<1>4. CASE CreateFromPrediction(p)
  BY <1>p, <1>4 DEF CreateFromPrediction, AlertRow, AlertStatus
<1>5. CASE AuditAlert(p)
  BY <1>p, <1>5 DEF AuditAlert, Entry, AuditEntry, AuditAction
<1>6. CASE NotifyCreated(p)
  BY <1>p, <1>6 DEF NotifyCreated, AlertRow
<1>7. CASE PublishCreated(p)
  BY <1>p, <1>7 DEF PublishCreated, Event
<1> QED
  BY <1>1, <1>2, <1>3, <1>4, <1>5, <1>6, <1>7 DEF PredictionStep

(* The recommendation callback writes only well-typed rows.                *)
LEMMA TypeRecommendation ==
  ASSUME TypeInv, NEW q \in RecCall, RecommendationStep(q)
  PROVE  TypeInv'
<1> DEFINE p == recCall[q].alert
<1> USE DEF RecGoto, tables, logs, env
<1>0. UNCHANGED <<env, prediction, alert, rules, published, predCall, decide, run>>
  BY DEF RecommendationStep, CreateRecommendation, AuditRecommendation, FindMatchingRule,
         AutoTrigger, AuditAutoTrigger
<1>r. /\ recommendation \in [Prediction -> RecommendationRow]
      /\ recCall \in [RecCall -> RecCallState]
      /\ audit \subseteq AuditEntry
      /\ rules \subseteq RuleRow
  BY DEF TypeInv, TypeOK
<1>p. recCall[q].pc # "idle" /\ p \in Prediction
  BY DEF TypeInv, Placed, RecommendationStep, CreateRecommendation, AuditRecommendation,
         FindMatchingRule, AutoTrigger, AuditAutoTrigger
<1>1. ASSUME recommendation' \in [Prediction -> RecommendationRow],
             audit' \subseteq AuditEntry,
             recCall' \in [RecCall -> RecCallState],
             recCall'[q].alert = p,
             recCall'[q].pc \in {"trigger", "triggerAudit"} => recCall'[q].rule \in RuleRow,
             \A x \in RecCall \ {q} : recCall'[x] = recCall[x]
      PROVE  TypeInv'
  <2>1. TypeOK'
    BY <1>0, <1>1 DEF TypeInv, TypeOK
  <2>2. Placed'
    BY <1>0, <1>1, <1>p DEF TypeInv, Placed
  <2> QED
    BY <2>1, <2>2 DEF TypeInv
<1>2. CASE CreateRecommendation(q)
  <2>1. recCall[q].supplier \in Supplier \cup {NULL}
    BY <1>r DEF RecCallState
  <2>2. recommendation' \in [Prediction -> RecommendationRow]
    <3>1. CASE recommendation' = recommendation
      BY <1>r, <3>1
    <3>2. CASE recommendation' = [recommendation EXCEPT ![p] =
               [ownerDecision |-> "pending", recommendedSupplierId |-> recCall[q].supplier,
                autoTriggered |-> FALSE, decidedBy |-> NULL]]
      BY <1>r, <1>p, <2>1, <3>2, PlanInserted
    <3> QED
      BY <1>2, <3>1, <3>2 DEF CreateRecommendation
  <2>3. /\ recCall' \in [RecCall -> RecCallState]
        /\ recCall'[q].alert = p
        /\ recCall'[q].pc \notin {"trigger", "triggerAudit"}
        /\ \A x \in RecCall \ {q} : recCall'[x] = recCall[x]
    BY <1>2, <1>r DEF CreateRecommendation, RecCallState
  <2> QED
    BY <1>1, <1>2, <1>r, <2>2, <2>3 DEF CreateRecommendation
<1>3. CASE AuditRecommendation(q)
  <2>1. audit' \subseteq AuditEntry
    BY <1>3, <1>r, <1>p DEF AuditRecommendation, Entry, AuditEntry, AuditAction
  <2>2. /\ recCall' \in [RecCall -> RecCallState]
        /\ recCall'[q].alert = p
        /\ recCall'[q].pc \notin {"trigger", "triggerAudit"}
        /\ \A x \in RecCall \ {q} : recCall'[x] = recCall[x]
    BY <1>3, <1>r DEF AuditRecommendation, RecCallState
  <2> QED
    BY <1>1, <1>3, <1>r, <2>1, <2>2 DEF AuditRecommendation
<1>4. CASE FindMatchingRule(q)
  <2>1. /\ recCall' \in [RecCall -> RecCallState]
        /\ recCall'[q].alert = p
        /\ recCall'[q].pc \in {"trigger", "triggerAudit"} => recCall'[q].rule \in RuleRow
        /\ \A x \in RecCall \ {q} : recCall'[x] = recCall[x]
    <3>1. CASE recCall' = [recCall EXCEPT ![q].pc = "done"]
      BY <3>1, <1>r DEF RecCallState
    <3>2. ASSUME NEW r \in rules,
                 recCall' = [recCall EXCEPT ![q].pc = "trigger", ![q].rule = r]
          PROVE  <2>1!:
      BY <3>2, <1>r DEF RecCallState
    <3> QED
      BY <1>4, <3>1, <3>2 DEF FindMatchingRule
  <2> QED
    BY <1>1, <1>4, <1>r, <2>1 DEF FindMatchingRule
<1>5. CASE AutoTrigger(q)
  <2>1. recommendation' \in [Prediction -> RecommendationRow]
    BY <1>5, <1>r, <1>p, PlanAutoTriggered DEF AutoTrigger
  <2>2. recCall[q].rule \in RuleRow
    BY <1>5 DEF AutoTrigger, TypeInv, Placed
  <2>3. /\ recCall' \in [RecCall -> RecCallState]
        /\ recCall'[q].alert = p
        /\ recCall'[q].rule \in RuleRow
        /\ \A x \in RecCall \ {q} : recCall'[x] = recCall[x]
    BY <1>5, <1>r, <2>2 DEF AutoTrigger, RecCallState
  <2> QED
    BY <1>1, <1>5, <1>r, <2>1, <2>3 DEF AutoTrigger
<1>6. CASE AuditAutoTrigger(q)
  <2>1. recCall[q].rule.id \in Rule
    BY <1>6 DEF AuditAutoTrigger, TypeInv, Placed, RuleRow
  <2>2. audit' \subseteq AuditEntry
    BY <1>6, <1>r, <1>p, <2>1 DEF AuditAutoTrigger, Entry, AuditEntry, AuditAction
  <2>3. /\ recCall' \in [RecCall -> RecCallState]
        /\ recCall'[q].alert = p
        /\ recCall'[q].pc \notin {"trigger", "triggerAudit"}
        /\ \A x \in RecCall \ {q} : recCall'[x] = recCall[x]
    BY <1>6, <1>r DEF AuditAutoTrigger, RecCallState
  <2> QED
    BY <1>1, <1>6, <1>r, <2>2, <2>3 DEF AuditAutoTrigger
<1> QED
  BY <1>2, <1>3, <1>4, <1>5, <1>6 DEF RecommendationStep

(* A decision request writes only well-typed rows.                         *)
LEMMA TypeDecision ==
  ASSUME TypeInv, NEW d \in Decision, DecisionStep(d)
  PROVE  TypeInv'
<1> DEFINE p == decide[d].alert
<1> USE DEF DecideGoto, tables, logs, env
<1>0. UNCHANGED <<env, prediction, rules, published, predCall, recCall, run>>
  BY DEF DecisionStep, RecordDecision, AuditDecision, SetAlertStatus
<1>r. /\ recommendation \in [Prediction -> RecommendationRow]
      /\ alert \in [Prediction -> AlertRow]
      /\ decide \in [Decision -> DecideState]
      /\ audit \subseteq AuditEntry
  BY DEF TypeInv, TypeOK
<1>p. decide[d].pc # "idle" /\ p \in Prediction /\ decide[d].decision \in DecisionKind
  BY DEF TypeInv, Placed, DecisionStep, RecordDecision, AuditDecision, SetAlertStatus
<1>d. /\ decide' \in [Decision -> DecideState]
      /\ \A x \in Decision : /\ decide'[x].alert = decide[x].alert
                             /\ decide'[x].decision = decide[x].decision
                             /\ decide'[x].pc # "idle" => decide[x].pc # "idle"
  <2>1. CASE decide' = [decide EXCEPT ![d].pc = "audit"]
    BY <1>r, <1>p, <2>1 DEF DecideState
  <2>2. CASE decide' = [decide EXCEPT ![d].pc = "status"]
    BY <1>r, <1>p, <2>2 DEF DecideState
  <2>3. CASE decide' = [decide EXCEPT ![d].pc = "done"]
    BY <1>r, <1>p, <2>3 DEF DecideState
  <2> QED
    BY <2>1, <2>2, <2>3 DEF DecisionStep, RecordDecision, AuditDecision, SetAlertStatus
<1>1. ASSUME recommendation' \in [Prediction -> RecommendationRow],
             alert' \in [Prediction -> AlertRow],
             audit' \subseteq AuditEntry
      PROVE  TypeInv'
  <2>1. TypeOK'
    BY <1>0, <1>1, <1>d DEF TypeInv, TypeOK
  <2>2. Placed'
    BY <1>0, <1>d DEF TypeInv, Placed
  <2> QED
    BY <2>1, <2>2 DEF TypeInv
<1>2. CASE RecordDecision(d)
  <2>1. recommendation' \in [Prediction -> RecommendationRow]
    BY <1>2, <1>r, <1>p, PlanDecided DEF RecordDecision
  <2> QED
    BY <1>1, <1>2, <1>r, <2>1 DEF RecordDecision
<1>3. CASE AuditDecision(d)
  <2>1. audit' \subseteq AuditEntry
    BY <1>3, <1>r, <1>p DEF AuditDecision, Entry, AuditEntry, AuditAction
  <2> QED
    BY <1>1, <1>3, <1>r, <2>1 DEF AuditDecision
<1>4. CASE SetAlertStatus(d)
  <2>1. StatusFor(decide[d].decision) \in AlertStatus
    BY DEF StatusFor, AlertStatus
  <2>2. alert' \in [Prediction -> AlertRow]
    BY <1>4, <1>r, <1>p, <2>1, AlertUpdate DEF SetAlertStatus
  <2> QED
    BY <1>1, <1>4, <1>r, <2>2 DEF SetAlertStatus
<1> QED
  BY <1>2, <1>3, <1>4 DEF DecisionStep

(* An escalation run writes only well-typed rows.                          *)
LEMMA TypeRun ==
  ASSUME TypeInv, NEW c \in Run, RunStep(c)
  PROVE  TypeInv'
<1> USE DEF tables, logs, env
<1>0. /\ UNCHANGED <<now, consented, failures, prediction, recommendation, rules, audit,
                      predCall, recCall, decide>>
      /\ overtaken' \subseteq Prediction
  BY DEF RunStep, FindDue, Escalate, NotifyEscalated, PublishEscalated, TypeInv, TypeOK
<1>r. /\ now \in 0..Horizon
      /\ alert \in [Prediction -> AlertRow]
      /\ run \in [Run -> RunState]
      /\ published \subseteq Event
  BY DEF TypeInv, TypeOK
<1>1. ASSUME alert' \in [Prediction -> AlertRow],
             published' \subseteq Event,
             run' \in [Run -> RunState],
             run'[c].pc \in {"notify", "publish"} => run'[c].alert \in Prediction,
             \A x \in Run \ {c} : run'[x] = run[x]
      PROVE  TypeInv'
  <2>1. TypeOK'
    BY <1>0, <1>1 DEF TypeInv, TypeOK
  <2>2. Placed'
    BY <1>0, <1>1 DEF TypeInv, Placed
  <2> QED
    BY <2>1, <2>2 DEF TypeInv
<1>2. CASE FindDue(c)
  <2>1. Due \subseteq Prediction
    BY DEF Due
  <2>2. /\ run' \in [Run -> RunState]
        /\ run'[c].pc = "update"
        /\ \A x \in Run \ {c} : run'[x] = run[x]
    BY <1>2, <1>r, <2>1 DEF FindDue, RunState, NoRun
  <2> QED
    BY <1>1, <1>2, <1>r, <2>2 DEF FindDue
<1>3. ASSUME NEW p \in Prediction, Escalate(c, p) PROVE TypeInv'
  <2>1. alert' \in [Prediction -> AlertRow]
    BY <1>3, <1>r, AlertUpdate DEF Escalate
  <2>2. alert[p].channelsSent \in SUBSET Channel
    BY <1>r DEF AlertRow
  <2>3. /\ run' \in [Run -> RunState]
        /\ run'[c].alert = p
        /\ \A x \in Run \ {c} : run'[x] = run[x]
    <3> DEFINE row == [run[c] EXCEPT !.pc = "notify", !.alert = p,
                                     !.channels = alert[p].channelsSent]
    <3>1. run' = [run EXCEPT ![c] = row]
      BY <1>3, <1>r DEF Escalate
    <3>2. row \in RunState /\ row.alert = p
      BY <1>r, <2>2 DEF RunState
    <3> HIDE DEF row
    <3> QED
      BY <1>r, <3>1, <3>2
  <2> QED
    BY <1>1, <1>3, <1>r, <2>1, <2>3 DEF Escalate
<1>4. CASE NotifyEscalated(c)
  <2>1. run[c].alert \in Prediction
    BY <1>4 DEF NotifyEscalated, TypeInv, Placed
  <2>2. run[c].channels \cup Channel \in SUBSET Channel
    BY <1>r DEF RunState
  <2>3. alert' \in [Prediction -> AlertRow]
    BY <1>4, <1>r, <2>1, <2>2, AlertUpdate DEF NotifyEscalated
  <2>4. /\ run' \in [Run -> RunState]
        /\ run'[c].alert = run[c].alert
        /\ \A x \in Run \ {c} : run'[x] = run[x]
    BY <1>4, <1>r DEF NotifyEscalated, RunState
  <2> QED
    BY <1>1, <1>4, <1>r, <2>1, <2>3, <2>4 DEF NotifyEscalated
<1>5. CASE PublishEscalated(c)
  <2>1. run[c].alert \in Prediction
    BY <1>5 DEF PublishEscalated, TypeInv, Placed
  <2>2. published' \subseteq Event
    BY <1>5, <1>r, <2>1 DEF PublishEscalated, Event
  <2>3. /\ run' \in [Run -> RunState]
        /\ run'[c].pc \in {"idle", "update"}
        /\ \A x \in Run \ {c} : run'[x] = run[x]
    BY <1>5, <1>r DEF PublishEscalated, RunState, NoRun
  <2> QED
    BY <1>1, <1>5, <1>r, <2>2, <2>3 DEF PublishEscalated
<1> QED
  BY <1>2, <1>3, <1>4, <1>5 DEF RunStep

(* Requests that arrive, time that passes, and requests that die.          *)
LEMMA TypeArrival ==
  ASSUME TypeInv, Arrival PROVE TypeInv'
<1> USE LifecycleAssumption DEF LifecycleAssumption, tables, logs, env
<1>r. /\ now \in 0..Horizon
      /\ prediction \in [Prediction -> PredictionRow]
      /\ predCall \in [Prediction -> PredCallState]
      /\ recCall \in [RecCall -> RecCallState]
      /\ decide \in [Decision -> DecideState]
      /\ rules \subseteq RuleRow
  BY DEF TypeInv, TypeOK
<1>1. ASSUME NEW t \in Tenant, GrantConsent(t) PROVE TypeInv'
  BY <1>1 DEF GrantConsent, TypeInv, TypeOK, Placed
<1>2. ASSUME NEW row \in RuleRow, CreateRule(row) PROVE TypeInv'
  BY <1>2, <1>r DEF CreateRule, TypeInv, TypeOK, Placed
<1>3. ASSUME NEW p \in Prediction, NEW lead \in Lead, NEW conf \in Confidence,
             ReceivePrediction(p, lead, conf)
      PROVE  TypeInv'
  <2>1. now + lead \in 0..Horizon
    BY <1>3, <1>r DEF ReceivePrediction
  <2>2. prediction' \in [Prediction -> PredictionRow]
    BY <1>3, <1>r, <2>1 DEF ReceivePrediction, PredictionRow
  <2>3. predCall' \in [Prediction -> PredCallState]
    BY <1>3, <1>r DEF ReceivePrediction, PredGoto, PredCallState
  <2> QED
    BY <1>3, <2>2, <2>3 DEF ReceivePrediction, TypeInv, TypeOK, Placed
<1>4. ASSUME NEW q \in RecCall, NEW p \in Prediction, NEW s \in Supplier \cup {NULL},
             ReceiveRecommendation(q, p, s)
      PROVE  TypeInv'
  <2>1. /\ recCall' \in [RecCall -> RecCallState]
        /\ recCall'[q].alert = p
        /\ recCall'[q].pc \in {"create", "refused"}
        /\ \A x \in RecCall \ {q} : recCall'[x] = recCall[x]
    BY <1>4, <1>r DEF ReceiveRecommendation, RecCallState
  <2>2. TypeOK'
    BY <1>4, <2>1 DEF ReceiveRecommendation, TypeInv, TypeOK
  <2>3. Placed'
    BY <1>4, <2>1 DEF ReceiveRecommendation, TypeInv, Placed
  <2> QED
    BY <2>2, <2>3 DEF TypeInv
<1>5. ASSUME NEW d \in Decision, NEW p \in Prediction, NEW k \in DecisionKind,
             FindRecommendation(d, p, k)
      PROVE  TypeInv'
  <2>1. /\ decide' \in [Decision -> DecideState]
        /\ decide'[d].alert = p
        /\ decide'[d].decision = k
        /\ \A x \in Decision \ {d} : decide'[x] = decide[x]
    BY <1>5, <1>r DEF FindRecommendation, DecideState
  <2>2. TypeOK'
    BY <1>5, <2>1 DEF FindRecommendation, TypeInv, TypeOK
  <2>3. Placed'
    BY <1>5, <2>1 DEF FindRecommendation, TypeInv, Placed
  <2> QED
    BY <2>2, <2>3 DEF TypeInv
<1> QED
  BY <1>1, <1>2, <1>3, <1>4, <1>5 DEF Arrival

(* A request that dies stays well typed.                                   *)
LEMMA TypeDie ==
  ASSUME TypeInv, Die PROVE TypeInv'
<1> USE LifecycleAssumption DEF LifecycleAssumption, tables, logs, env
<1>r. /\ predCall \in [Prediction -> PredCallState]
      /\ recCall \in [RecCall -> RecCallState]
      /\ decide \in [Decision -> DecideState]
      /\ run \in [Run -> RunState]
  BY DEF TypeInv, TypeOK
<1>f. failures' \in 0..MaxFailures /\ UNCHANGED <<now, consented, overtaken, tables, logs>>
  BY DEF Die, TypeInv, TypeOK
<1>1. ASSUME NEW p \in Prediction, PredGoto(p, "failed"), UNCHANGED <<recCall, decide, run>>
      PROVE  TypeInv'
  <2>1. predCall' \in [Prediction -> PredCallState]
    BY <1>1, <1>r DEF PredGoto, PredCallState
  <2> QED
    BY <1>1, <1>f, <2>1 DEF TypeInv, TypeOK, Placed
<1>2. ASSUME NEW q \in RecCall, RecInFlight(q), RecGoto(q, "failed"),
             UNCHANGED <<predCall, decide, run>>
      PROVE  TypeInv'
  <2>1. /\ recCall' \in [RecCall -> RecCallState]
        /\ recCall'[q].alert = recCall[q].alert
        /\ recCall'[q].pc = "failed"
        /\ \A x \in RecCall \ {q} : recCall'[x] = recCall[x]
    BY <1>2, <1>r DEF RecGoto, RecCallState
  <2>2. recCall[q].pc # "idle"
    BY <1>2 DEF RecInFlight
  <2>3. TypeOK'
    BY <1>2, <1>f, <2>1 DEF TypeInv, TypeOK
  <2>4. Placed'
    BY <1>2, <2>1, <2>2 DEF TypeInv, Placed
  <2> QED
    BY <2>3, <2>4 DEF TypeInv
<1>3. ASSUME NEW d \in Decision, DecideInFlight(d), DecideGoto(d, "failed"),
             UNCHANGED <<predCall, recCall, run>>
      PROVE  TypeInv'
  <2>1. /\ decide' \in [Decision -> DecideState]
        /\ decide'[d].alert = decide[d].alert
        /\ decide'[d].decision = decide[d].decision
        /\ \A x \in Decision \ {d} : decide'[x] = decide[x]
    BY <1>3, <1>r DEF DecideGoto, DecideState
  <2>2. decide[d].pc # "idle"
    BY <1>3 DEF DecideInFlight
  <2>3. TypeOK'
    BY <1>3, <1>f, <2>1 DEF TypeInv, TypeOK
  <2>4. Placed'
    BY <1>3, <2>1, <2>2 DEF TypeInv, Placed
  <2> QED
    BY <2>3, <2>4 DEF TypeInv
<1>4. ASSUME NEW c \in Run, run' = [run EXCEPT ![c] = NoRun],
             UNCHANGED <<predCall, recCall, decide>>
      PROVE  TypeInv'
  <2>1. NoRun \in RunState /\ NoRun.pc = "idle"
    BY DEF NoRun, RunState
  <2>2. TypeOK'
    BY <1>4, <1>f, <1>r, <2>1 DEF TypeInv, TypeOK
  <2>3. Placed'
    BY <1>4, <1>r, <2>1 DEF TypeInv, Placed
  <2> QED
    BY <2>2, <2>3 DEF TypeInv
<1> QED
  BY <1>1, <1>2, <1>3, <1>4 DEF Die

(* No step leaves the types.                                               *)
LEMMA TypeStep == TypeInv /\ [Next]_vars => TypeInv'
<1> SUFFICES ASSUME TypeInv, [Next]_vars PROVE TypeInv'
  OBVIOUS
<1>1. CASE Tick
  BY <1>1, LifecycleAssumption
  DEF Tick, LifecycleAssumption, TypeInv, TypeOK, Placed, tables, logs
<1>2. CASE UNCHANGED vars
  BY <1>2 DEF vars, env, tables, logs, TypeInv, TypeOK, Placed
<1> QED
  BY <1>1, <1>2, TypePrediction, TypeRecommendation, TypeDecision, TypeRun, TypeArrival, TypeDie
  DEF Next

(* Every reachable state is well typed, whatever is in flight.             *)
THEOREM TypeCorrect == Spec => []TypeOK
<1>1. Spec => []TypeInv
  BY TypeInit, TypeStep, PTL DEF Spec
<1> QED
  BY <1>1, PTL DEF TypeInv

-----------------------------------------------------------------------------
(* The inductive invariant.  The properties of AlertLifecycle are not      *)
(* inductive by themselves: what a request found out in one transaction    *)
(* has to be remembered, and still be true, when a later one acts on it.   *)

(* What the progress of a prediction callback says of the rows: an alert   *)
(* has its prediction, a plan has its alert, and nothing about a           *)
(* prediction exists before its tenant's consent was seen.                 *)
PredictionChain ==
    \A p \in Prediction :
        /\ predCall[p] \in {"idle", "consent", "create", "audit", "alert"} => ~HasAlert(p)
        /\ predCall[p] \in {"alertAudit", "notify", "publish", "done"} => HasAlert(p)
        /\ predCall[p] \in {"audit", "alert"} => prediction[p].stored
        /\ predCall[p] \in {"idle", "consent"} => ~prediction[p].stored
        /\ predCall[p] = "create" => TenantOf[p] \in consented
        /\ prediction[p].stored => TenantOf[p] \in consented
        /\ HasAlert(p) => prediction[p].stored
        /\ HasRecommendation(p) => HasAlert(p)

(* What a recommendation callback knows: its plan is in the table,         *)
(* recommends what it asked for, and its rule is one that matched.         *)
RecKnows(q) ==
    LET p == recCall[q].alert
        pc == recCall[q].pc IN
    /\ pc # "idle" => HasAlert(p)
    /\ pc \in {"audit", "rules", "trigger", "triggerAudit"} =>
          HasRecommendation(p) /\ recommendation[p].recommendedSupplierId = recCall[q].supplier
    /\ pc \in {"trigger", "triggerAudit"} => recCall[q].rule \in rules /\ Covers(recCall[q].rule, p)
    /\ pc = "triggerAudit" => recommendation[p].autoTriggered

(* Only a plan that was written has been triggered or decided on.          *)
PlansAreWritten ==
    \A p \in Prediction :
        recommendation[p].autoTriggered \/ recommendation[p].decidedBy # NULL => HasRecommendation(p)

RecommendationChain == PlansAreWritten /\ \A q \in RecCall : RecKnows(q)

(* What a decision request knows of the plan and of the log.               *)
DecideKnows(d) ==
    LET p == decide[d].alert
        pc == decide[d].pc IN
    /\ pc # "idle" => HasAlert(p)
    /\ pc \in {"record", "audit", "status"} => HasRecommendation(p)
    /\ pc \in {"audit", "status"} => recommendation[p].decidedBy # NULL
    /\ pc = "status" =>
          Entry("recommendation.decision_recorded", p, d, decide[d].decision) \in audit

DecisionChain == \A d \in Decision : DecideKnows(d)

(* What a run of the escalation job knows of the alerts it still holds.    *)
RunKnows(c) ==
    /\ \A p \in run[c].toEscalate : HasAlert(p) /\ prediction[p].impactAt < now + Window
    /\ run[c].pc \in {"notify", "publish"} => HasAlert(run[c].alert)
    /\ run[c].pc = "publish" => alert[run[c].alert].channelsSent = Channel

RunChain ==
    /\ \A c \in Run : RunKnows(c)
    /\ \A p \in Prediction :
          /\ alert[p].escalatedAt # NULL => HasAlert(p)
          /\ predCall[p] = "publish" => alert[p].channelsSent = Channel

IInv ==
    /\ TypeInv
    /\ PredictionChain /\ RecommendationChain /\ DecisionChain /\ RunChain
    /\ HandledIsAudited /\ AuditIsTruthful
    /\ EscalatedNearImpact /\ PublishedIsRecorded

-----------------------------------------------------------------------------
(* Nothing is taken back.  This alone preserves every part of the          *)
(* invariant about a request that does not move.                           *)

(* The prediction callback takes nothing back.                             *)
LEMMA KeepsPrediction ==
  ASSUME TypeInv, PredictionChain, NEW p \in Prediction, PredictionStep(p) PROVE Keeps
<1> USE DEF tables, logs, env, Keeps
<1>r. /\ now \in 0..Horizon
      /\ prediction \in [Prediction -> PredictionRow]
      /\ alert \in [Prediction -> AlertRow]
      /\ predCall[p] = "alert" => alert[p].status = "none"
      /\ predCall[p] = "create" => recommendation[p].ownerDecision = "none"
  BY DEF TypeInv, TypeOK, PredictionChain, HasAlert, HasRecommendation
<1>1. CASE CheckPredictionConsent(p)
  BY <1>1, <1>r DEF CheckPredictionConsent
<1>2. CASE CreatePrediction(p)
  BY <1>2, <1>r DEF CreatePrediction, PredictionRow
<1>3. CASE AuditPrediction(p)
  BY <1>3, <1>r DEF AuditPrediction
<1>4. CASE CreateFromPrediction(p)
  BY <1>4, <1>r DEF CreateFromPrediction
<1>5. CASE AuditAlert(p)
  BY <1>5, <1>r DEF AuditAlert
<1>6. CASE NotifyCreated(p)
  BY <1>6, <1>r DEF NotifyCreated, AlertRow
<1>7. CASE PublishCreated(p)
  BY <1>7, <1>r DEF PublishCreated
<1> QED
  BY <1>1, <1>2, <1>3, <1>4, <1>5, <1>6, <1>7 DEF PredictionStep

(* The recommendation callback takes nothing back.                         *)
LEMMA KeepsRecommendation ==
  ASSUME TypeInv, RecommendationChain, NEW q \in RecCall, RecommendationStep(q) PROVE Keeps
<1> USE DEF tables, logs, env, Keeps
<1>r. /\ now \in 0..Horizon
      /\ recommendation \in [Prediction -> RecommendationRow]
      /\ \A p \in Prediction :
            recommendation[p].autoTriggered \/ recommendation[p].decidedBy # NULL
              => recommendation[p].ownerDecision # "none"
  BY DEF TypeInv, TypeOK, RecommendationChain, PlansAreWritten, HasRecommendation
<1>0. UNCHANGED <<env, prediction, alert, rules, published>>
  BY DEF RecommendationStep, CreateRecommendation, AuditRecommendation, FindMatchingRule,
         AutoTrigger, AuditAutoTrigger
<1>1. CASE CreateRecommendation(q)
  <2>1. audit' = audit
    BY <1>1 DEF CreateRecommendation
  <2>2. CASE recommendation' = recommendation
    BY <1>0, <1>r, <2>1, <2>2
  <2>3. CASE /\ recommendation[recCall[q].alert].ownerDecision = "none"
             /\ recommendation' = [recommendation EXCEPT ![recCall[q].alert] =
                   [ownerDecision |-> "pending", recommendedSupplierId |-> recCall[q].supplier,
                    autoTriggered |-> FALSE, decidedBy |-> NULL]]
    BY <1>0, <1>r, <2>1, <2>3
  <2> QED
    BY <1>1, <2>2, <2>3 DEF CreateRecommendation, HasRecommendation
<1>2. CASE AuditRecommendation(q)
  BY <1>0, <1>2, <1>r DEF AuditRecommendation
<1>3. CASE FindMatchingRule(q)
  BY <1>0, <1>3, <1>r DEF FindMatchingRule
<1>4. CASE AutoTrigger(q)
  BY <1>0, <1>4, <1>r DEF AutoTrigger, RecommendationRow
<1>5. CASE AuditAutoTrigger(q)
  BY <1>0, <1>5, <1>r DEF AuditAutoTrigger
<1> QED
  BY <1>1, <1>2, <1>3, <1>4, <1>5 DEF RecommendationStep

(* A decision request takes nothing back.                                  *)
LEMMA KeepsDecision ==
  ASSUME TypeInv, NEW d \in Decision, DecisionStep(d) PROVE Keeps
<1> USE LifecycleAssumption DEF LifecycleAssumption, tables, logs, env, Keeps
<1>r. /\ now \in 0..Horizon
      /\ recommendation \in [Prediction -> RecommendationRow]
      /\ alert \in [Prediction -> AlertRow]
      /\ decide[d].decision \in DecisionKind
  BY DEF TypeInv, TypeOK, Placed, DecisionStep, RecordDecision, AuditDecision, SetAlertStatus
<1>0. UNCHANGED <<env, prediction, rules, published>>
  BY DEF DecisionStep, RecordDecision, AuditDecision, SetAlertStatus
<1>1. CASE RecordDecision(d)
  BY <1>0, <1>1, <1>r DEF RecordDecision, RecommendationRow, DecisionKind
<1>2. CASE AuditDecision(d)
  BY <1>0, <1>2, <1>r DEF AuditDecision
<1>3. CASE SetAlertStatus(d)
  BY <1>0, <1>3, <1>r DEF SetAlertStatus, StatusFor, AlertRow
<1> QED
  BY <1>1, <1>2, <1>3 DEF DecisionStep

(* An escalation run takes nothing back.                                   *)
LEMMA KeepsRun ==
  ASSUME TypeInv, NEW c \in Run, RunStep(c) PROVE Keeps
<1> USE DEF tables, logs, env, Keeps
<1>r. now \in 0..Horizon /\ alert \in [Prediction -> AlertRow]
  BY DEF TypeInv, TypeOK
<1>0. UNCHANGED <<now, consented, failures, prediction, recommendation, rules, audit>>
  BY DEF RunStep, FindDue, Escalate, NotifyEscalated, PublishEscalated
<1>1. CASE FindDue(c)
  BY <1>0, <1>1, <1>r DEF FindDue
<1>2. ASSUME NEW p \in Prediction, Escalate(c, p) PROVE Keeps
  BY <1>0, <1>2, <1>r DEF Escalate, AlertRow
<1>3. CASE NotifyEscalated(c)
  BY <1>0, <1>3, <1>r DEF NotifyEscalated, AlertRow
<1>4. CASE PublishEscalated(c)
  BY <1>0, <1>4, <1>r DEF PublishEscalated
<1> QED
  BY <1>1, <1>2, <1>3, <1>4 DEF RunStep

(* Arrivals, the clock and deaths take nothing back.                       *)
LEMMA KeepsOther ==
  ASSUME TypeInv, PredictionChain, Tick \/ Arrival \/ Die \/ UNCHANGED vars PROVE Keeps
<1> USE DEF tables, logs, env, Keeps
<1>r. /\ now \in Nat
      /\ prediction \in [Prediction -> PredictionRow]
      /\ \A p \in Prediction : predCall[p] = "idle" => ~prediction[p].stored
  BY LifecycleAssumption DEF LifecycleAssumption, TypeInv, TypeOK, PredictionChain
<1>1. CASE Tick
  BY <1>1, <1>r DEF Tick
<1>2. CASE Die
  BY <1>2, <1>r DEF Die
<1>3. CASE UNCHANGED vars
  BY <1>3, <1>r DEF vars
<1>4. CASE Arrival
  <2>1. ASSUME NEW t \in Tenant, GrantConsent(t) PROVE Keeps
    BY <2>1, <1>r DEF GrantConsent
  <2>2. ASSUME NEW row \in RuleRow, CreateRule(row) PROVE Keeps
    BY <2>2, <1>r DEF CreateRule
  <2>3. ASSUME NEW p \in Prediction, NEW lead \in Lead, NEW conf \in Confidence,
               ReceivePrediction(p, lead, conf)
        PROVE  Keeps
    BY <2>3, <1>r DEF ReceivePrediction
  <2>4. ASSUME NEW q \in RecCall, NEW p \in Prediction, NEW s \in Supplier \cup {NULL},
               ReceiveRecommendation(q, p, s)
        PROVE  Keeps
    BY <2>4, <1>r DEF ReceiveRecommendation
  <2>5. ASSUME NEW d \in Decision, NEW p \in Prediction, NEW k \in DecisionKind,
               FindRecommendation(d, p, k)
        PROVE  Keeps
    BY <2>5, <1>r DEF FindRecommendation
  <2> QED
    BY <1>4, <2>1, <2>2, <2>3, <2>4, <2>5 DEF Arrival
<1> QED
  BY <1>1, <1>2, <1>3, <1>4

(* No step takes anything back.                                            *)
LEMMA KeepsStep == IInv /\ [Next]_vars => Keeps
  BY KeepsPrediction, KeepsRecommendation, KeepsDecision, KeepsRun, KeepsOther
  DEF IInv, Next

-----------------------------------------------------------------------------
(* Each part of the invariant, preserved by each kind of step.             *)

(* How far a prediction callback has come stays matched by its rows.       *)
LEMMA PredictionChainStep ==
  ASSUME IInv, [Next]_vars PROVE PredictionChain'
<1> USE DEF tables, logs, env
<1>r. /\ prediction \in [Prediction -> PredictionRow]
      /\ alert \in [Prediction -> AlertRow]
      /\ recommendation \in [Prediction -> RecommendationRow]
      /\ predCall \in [Prediction -> PredCallState]
      /\ PredictionChain
  BY DEF IInv, TypeInv, TypeOK
<1>1. ASSUME NEW p \in Prediction, PredictionStep(p) PROVE PredictionChain'
  <2> USE DEF PredGoto
  <2>1. CASE CheckPredictionConsent(p)
    BY <2>1, <1>r DEF CheckPredictionConsent, PredictionChain, HasAlert, HasRecommendation
  <2>2. CASE CreatePrediction(p)
    BY <2>2, <1>r DEF CreatePrediction, PredictionRow, PredictionChain, HasAlert, HasRecommendation
  <2>3. CASE AuditPrediction(p)
    BY <2>3, <1>r DEF AuditPrediction, PredictionChain, HasAlert, HasRecommendation
  <2>4. CASE CreateFromPrediction(p)
    BY <2>4, <1>r DEF CreateFromPrediction, PredictionChain, HasAlert, HasRecommendation
  <2>5. CASE AuditAlert(p)
    BY <2>5, <1>r DEF AuditAlert, PredictionChain, HasAlert, HasRecommendation
  <2>6. CASE NotifyCreated(p)
    BY <2>6, <1>r DEF NotifyCreated, AlertRow, PredictionChain, HasAlert, HasRecommendation
  <2>7. CASE PublishCreated(p)
    BY <2>7, <1>r DEF PublishCreated, PredictionChain, HasAlert, HasRecommendation
  <2> QED
    BY <1>1, <2>1, <2>2, <2>3, <2>4, <2>5, <2>6, <2>7 DEF PredictionStep
<1>2. ASSUME NEW q \in RecCall, RecommendationStep(q) PROVE PredictionChain'
  <2>0. UNCHANGED <<env, prediction, alert, predCall>>
    BY <1>2 DEF RecommendationStep, CreateRecommendation, AuditRecommendation, FindMatchingRule,
                AutoTrigger, AuditAutoTrigger
  <2>1. recCall[q].alert \in Prediction /\ HasAlert(recCall[q].alert)
    BY <1>2 DEF IInv, TypeInv, Placed, RecommendationChain, RecKnows, RecommendationStep, AutoTrigger,
                CreateRecommendation, AuditRecommendation, FindMatchingRule, AuditAutoTrigger
  <2>2. \A x \in Prediction \ {recCall[q].alert} : recommendation'[x] = recommendation[x]
    BY <1>2, <1>r, <2>1
    DEF RecommendationStep, CreateRecommendation, AuditRecommendation, FindMatchingRule,
        AutoTrigger, AuditAutoTrigger
  <2> QED
    BY <1>r, <2>0, <2>1, <2>2 DEF PredictionChain, HasAlert, HasRecommendation
<1>3. ASSUME NEW d \in Decision, DecisionStep(d) PROVE PredictionChain'
  <2>0. UNCHANGED <<env, prediction, predCall>>
    BY <1>3 DEF DecisionStep, RecordDecision, AuditDecision, SetAlertStatus
  <2>1. decide[d].alert \in Prediction /\ HasAlert(decide[d].alert)
    BY <1>3 DEF IInv, TypeInv, Placed, DecisionChain, DecideKnows, DecisionStep, RecordDecision, AuditDecision,
                SetAlertStatus
  <2>2. \A x \in Prediction \ {decide[d].alert} : recommendation'[x] = recommendation[x]
    BY <1>3, <1>r, <2>1 DEF DecisionStep, RecordDecision, AuditDecision, SetAlertStatus
  <2>3. \A x \in Prediction : HasAlert(x)' = HasAlert(x)
    BY <1>3, <1>r, <2>1
    DEF DecisionStep, RecordDecision, AuditDecision, SetAlertStatus, StatusFor, AlertRow, HasAlert
  <2> QED
    BY <1>r, <2>0, <2>1, <2>2, <2>3 DEF PredictionChain, HasRecommendation
<1>4. ASSUME NEW c \in Run, RunStep(c) PROVE PredictionChain'
  <2>0. UNCHANGED <<now, consented, failures, prediction, recommendation, predCall>>
    BY <1>4 DEF RunStep, FindDue, Escalate, NotifyEscalated, PublishEscalated
  <2>1. \A x \in Prediction : HasAlert(x)' = HasAlert(x)
    <3>1. ASSUME NEW p \in Prediction, Escalate(c, p) PROVE <2>1!:
      <4>1. HasAlert(p)
        BY <3>1 DEF Escalate, IInv, RunChain, RunKnows
      <4> QED
        BY <3>1, <4>1, <1>r DEF Escalate, AlertRow, HasAlert
    <3>2. CASE NotifyEscalated(c)
      BY <3>2, <1>r DEF NotifyEscalated, AlertRow, HasAlert
    <3> QED
      BY <1>4, <3>1, <3>2 DEF RunStep, FindDue, PublishEscalated, HasAlert
  <2> QED
    BY <1>r, <2>0, <2>1 DEF PredictionChain, HasRecommendation
<1>5. CASE Arrival
  <2>1. ASSUME NEW t \in Tenant, GrantConsent(t) PROVE PredictionChain'
    BY <2>1, <1>r DEF GrantConsent, PredictionChain, HasAlert, HasRecommendation
  <2>2. ASSUME NEW p \in Prediction, NEW lead \in Lead, NEW conf \in Confidence,
               ReceivePrediction(p, lead, conf)
        PROVE  PredictionChain'
    BY <2>2, <1>r DEF ReceivePrediction, PredGoto, PredictionChain, HasAlert, HasRecommendation
  <2>3. (\E row \in RuleRow : CreateRule(row))
        \/ (\E q \in RecCall, p \in Prediction, s \in Supplier \cup {NULL} : ReceiveRecommendation(q, p, s))
        \/ (\E d \in Decision, p \in Prediction, k \in DecisionKind : FindRecommendation(d, p, k))
        => UNCHANGED <<env, prediction, alert, recommendation, predCall>>
    BY DEF CreateRule, ReceiveRecommendation, FindRecommendation
  <2> QED
    BY <1>5, <1>r, <2>1, <2>2, <2>3 DEF Arrival, PredictionChain, HasAlert, HasRecommendation
<1>6. CASE Tick \/ UNCHANGED vars
  BY <1>6, <1>r DEF Tick, vars, PredictionChain, HasAlert, HasRecommendation
<1>7. CASE Die
  BY <1>7, <1>r DEF Die, PredInFlight, PredGoto, PredictionChain, HasAlert, HasRecommendation
<1> QED
  BY <1>1, <1>2, <1>3, <1>4, <1>5, <1>6, <1>7 DEF Next

(* The opt-in of a rule to a written plan survives every step.             *)
LEMMA CoversKept ==
  ASSUME IInv, Keeps, NEW p \in Prediction, HasRecommendation(p), NEW r, Covers(r, p)
  PROVE  Covers(r, p)'
  BY DEF IInv, PredictionChain, HasRecommendation, HasAlert, Keeps, Covers

(* What a recommendation callback that does not move knows stays true.     *)
LEMMA RecommendationKept ==
  ASSUME IInv, Keeps, NEW q \in RecCall, recCall'[q] = recCall[q]
  PROVE  RecKnows(q)'
<1> DEFINE pc == recCall[q].pc
<1>1. CASE pc = "idle"
  BY <1>1 DEF RecKnows
<1>2. CASE pc # "idle"
  <2>1. PICK p \in Prediction : p = recCall[q].alert
    BY <1>2 DEF IInv, TypeInv, Placed
  <2>2. RecKnows(q)
    BY DEF IInv, RecommendationChain
  <2>3. HasAlert(p)'
    BY <1>2, <2>1, <2>2 DEF RecKnows, Keeps, HasAlert
  <2>4. ASSUME pc \in {"audit", "rules", "trigger", "triggerAudit"}
        PROVE  /\ HasRecommendation(p) /\ HasRecommendation(p)'
               /\ recommendation'[p].recommendedSupplierId = recCall[q].supplier
    BY <2>1, <2>2, <2>4 DEF RecKnows, Keeps, HasRecommendation
  <2>5. ASSUME pc \in {"trigger", "triggerAudit"}
        PROVE  recCall[q].rule \in rules' /\ Covers(recCall[q].rule, p)'
    <3>1. recCall[q].rule \in rules' /\ Covers(recCall[q].rule, p) /\ HasRecommendation(p)
      BY <2>1, <2>2, <2>4, <2>5 DEF RecKnows, Keeps
    <3>2. PICK r \in rules : r = recCall[q].rule
      BY <2>2, <2>5 DEF RecKnows
    <3>3. Covers(r, p)'
      BY <3>1, <3>2, CoversKept
    <3> QED
      BY <3>1, <3>2, <3>3 DEF Covers
  <2>6. pc = "triggerAudit" => recommendation'[p].autoTriggered
    BY <2>1, <2>2 DEF RecKnows, Keeps
  <2> QED
    BY <2>1, <2>3, <2>4, <2>5, <2>6 DEF RecKnows, Covers
<1> QED
  BY <1>1, <1>2

(* What a recommendation callback knows stays true of the tables.          *)
LEMMA RecommendationChainStep ==
  ASSUME IInv, [Next]_vars PROVE RecommendationChain'
<1> USE DEF tables, logs, env
<1>k. Keeps
  BY KeepsStep
<1>r. /\ recommendation \in [Prediction -> RecommendationRow]
      /\ recCall \in [RecCall -> RecCallState]
      /\ rules \subseteq RuleRow
      /\ PlansAreWritten
  BY DEF IInv, TypeInv, TypeOK, RecommendationChain
(* It is enough to look at the callback that moves, and at the plans.      *)
<1>1. ASSUME NEW q \in RecCall, RecKnows(q)', PlansAreWritten',
             \A x \in RecCall \ {q} : recCall'[x] = recCall[x]
      PROVE  RecommendationChain'
  BY <1>1, <1>k, RecommendationKept DEF RecommendationChain
<1>2. ASSUME recCall' = recCall, PlansAreWritten' PROVE RecommendationChain'
  BY <1>2, <1>k, RecommendationKept DEF RecommendationChain
<1>3. ASSUME NEW q \in RecCall, RecommendationStep(q) PROVE RecommendationChain'
  <2> USE DEF RecGoto
  <2>0. recCall[q].pc # "idle" /\ RecKnows(q)
    BY <1>3 DEF IInv, RecommendationChain, RecommendationStep, CreateRecommendation,
                AuditRecommendation, FindMatchingRule, AutoTrigger, AuditAutoTrigger
  <2>p. PICK p \in Prediction : p = recCall[q].alert
    BY <2>0 DEF IInv, TypeInv, Placed
  <2>a. HasAlert(p)'
    BY <1>k, <2>0, <2>p DEF RecKnows, Keeps, HasAlert
  <2>1. \A x \in RecCall \ {q} : recCall'[x] = recCall[x]
    BY <1>3, <1>r DEF RecommendationStep, CreateRecommendation, AuditRecommendation,
                      FindMatchingRule, AutoTrigger, AuditAutoTrigger
  <2>2. CASE CreateRecommendation(q)
    <3>1. CASE recCall'[q].pc = "failed" /\ recCall'[q].alert = p /\ recommendation' = recommendation
      <4>1. RecKnows(q)'
        BY <2>a, <3>1 DEF RecKnows, HasAlert
      <4>2. PlansAreWritten'
        BY <1>r, <3>1 DEF PlansAreWritten, HasRecommendation
      <4> QED
        BY <1>1, <2>1, <4>1, <4>2
    <3>2. CASE /\ recCall' = [recCall EXCEPT ![q].pc = "audit"]
               /\ recommendation' = [recommendation EXCEPT ![p] =
                    [ownerDecision |-> "pending", recommendedSupplierId |-> recCall[q].supplier,
                     autoTriggered |-> FALSE, decidedBy |-> NULL]]
      <4>1. /\ recCall'[q].pc = "audit" /\ recCall'[q].alert = p
            /\ recCall'[q].supplier = recCall[q].supplier
        BY <1>r, <2>p, <3>2 DEF RecCallState
      <4>2. /\ HasRecommendation(p)'
            /\ recommendation'[p].recommendedSupplierId = recCall[q].supplier
            /\ \A x \in Prediction \ {p} : recommendation'[x] = recommendation[x]
        BY <1>r, <3>2 DEF HasRecommendation
      <4>3. RecKnows(q)'
        BY <2>a, <4>1, <4>2 DEF RecKnows, HasAlert, HasRecommendation
      <4>4. PlansAreWritten'
        BY <1>r, <4>2 DEF PlansAreWritten, HasRecommendation
      <4> QED
        BY <1>1, <2>1, <4>3, <4>4
    <3>3. recCall' = [recCall EXCEPT ![q].pc = "failed"]
            => recCall'[q].pc = "failed" /\ recCall'[q].alert = p
      BY <1>r, <2>p DEF RecCallState
    <3> QED
      BY <2>2, <2>p, <3>1, <3>2, <3>3 DEF CreateRecommendation
  <2>3. CASE AuditRecommendation(q)
    <3>1. recommendation' = recommendation /\ recCall[q].pc = "audit"
      BY <2>3 DEF AuditRecommendation
    <3>2. /\ recCall'[q].pc = "rules" /\ recCall'[q].alert = p
          /\ recCall'[q].supplier = recCall[q].supplier
      BY <1>r, <2>3, <2>p DEF AuditRecommendation, RecCallState
    <3>3. RecKnows(q)'
      BY <2>0, <2>a, <2>p, <3>1, <3>2 DEF RecKnows, HasAlert, HasRecommendation
    <3>4. PlansAreWritten'
      BY <1>r, <3>1 DEF PlansAreWritten, HasRecommendation
    <3> QED
      BY <1>1, <2>1, <3>3, <3>4
  <2>4. CASE FindMatchingRule(q)
    <3>1. UNCHANGED <<recommendation, prediction, rules>> /\ recCall[q].pc = "rules"
      BY <2>4 DEF FindMatchingRule
    <3>2. /\ HasRecommendation(p) /\ HasRecommendation(p)'
          /\ recommendation'[p].recommendedSupplierId = recCall[q].supplier
      BY <2>0, <2>p, <3>1 DEF RecKnows, HasRecommendation
    <3>3. PlansAreWritten'
      BY <1>r, <3>1 DEF PlansAreWritten, HasRecommendation
    <3>4. CASE recCall' = [recCall EXCEPT ![q].pc = "done"]
      <4>1. recCall'[q].pc = "done" /\ recCall'[q].alert = p
        BY <1>r, <2>p, <3>4 DEF RecCallState
      <4>2. RecKnows(q)'
        BY <2>a, <4>1 DEF RecKnows, HasAlert
      <4> QED
        BY <1>1, <2>1, <3>3, <4>2
    <3>5. ASSUME NEW r \in rules, RuleMatches(r, p, recCall[q].supplier),
                 recCall' = [recCall EXCEPT ![q].pc = "trigger", ![q].rule = r]
          PROVE  RecommendationChain'
      <4>1. /\ recCall'[q].pc = "trigger" /\ recCall'[q].alert = p
            /\ recCall'[q].supplier = recCall[q].supplier /\ recCall'[q].rule = r
        BY <1>r, <2>p, <3>5 DEF RecCallState
      <4>2. Covers(r, p)'
        <5>1. prediction \in [Prediction -> PredictionRow]
          BY DEF IInv, TypeInv, TypeOK
        <5>2. r.minConfidence <= prediction[p].confidence
              => prediction[p].confidence >= r.minConfidence
          <6>1. prediction[p].confidence \in Nat /\ r.minConfidence \in Nat
            <7>1. prediction[p] \in PredictionRow /\ r \in RuleRow
              BY <1>r, <3>5, <5>1
            <7>2. prediction[p].confidence \in Confidence \cup {0}
              BY <7>1 DEF PredictionRow
            <7>3. r.minConfidence \in Confidence \cup {0}
              BY <7>1 DEF RuleRow
            <7>4. Confidence \cup {0} \subseteq Nat
              BY LifecycleAssumption DEF LifecycleAssumption
            <7> QED
              BY <7>2, <7>3, <7>4
          <6> QED
            BY <6>1
        <5> QED
          <6>1. /\ r.tenant = TenantOf[p] /\ r.enabled
                /\ r.scope # NULL => r.scope = recommendation'[p].recommendedSupplierId
            BY <3>2, <3>5 DEF RuleMatches
          <6>2. prediction'[p].confidence >= r.minConfidence
            BY <3>1, <3>5, <5>2 DEF RuleMatches, ConditionsMatch
          <6> QED
            BY <6>1, <6>2 DEF Covers
      <4>3. RecKnows(q)'
        BY <2>a, <3>1, <3>2, <4>1, <4>2 DEF RecKnows, HasAlert, HasRecommendation, Covers
      <4> QED
        BY <1>1, <2>1, <3>3, <4>3
    <3> QED
      BY <2>4, <2>p, <3>4, <3>5 DEF FindMatchingRule
  <2>5. CASE AutoTrigger(q)
    <3>1. /\ HasRecommendation(p)
          /\ recommendation[p].recommendedSupplierId = recCall[q].supplier
          /\ recCall[q].rule \in rules /\ Covers(recCall[q].rule, p)
          /\ UNCHANGED <<prediction, rules>>
      BY <2>0, <2>5, <2>p DEF AutoTrigger, RecKnows
    <3>2. /\ recCall'[q].pc = "triggerAudit" /\ recCall'[q].alert = p
          /\ recCall'[q].supplier = recCall[q].supplier /\ recCall'[q].rule = recCall[q].rule
      BY <1>r, <2>5, <2>p DEF AutoTrigger, RecCallState
    <3>3. /\ recommendation'[p].autoTriggered /\ HasRecommendation(p)'
          /\ recommendation'[p].recommendedSupplierId = recommendation[p].recommendedSupplierId
          /\ \A x \in Prediction \ {p} : recommendation'[x] = recommendation[x]
      BY <1>r, <2>5, <2>p DEF AutoTrigger, RecommendationRow, HasRecommendation
    <3>4. RecKnows(q)'
      BY <2>a, <3>1, <3>2, <3>3 DEF RecKnows, HasAlert, HasRecommendation, Covers
    <3>5. PlansAreWritten'
      BY <1>r, <3>3 DEF PlansAreWritten, HasRecommendation
    <3> QED
      BY <1>1, <2>1, <3>4, <3>5
  <2>6. CASE AuditAutoTrigger(q)
    <3>1. recommendation' = recommendation
      BY <2>6 DEF AuditAutoTrigger
    <3>2. recCall'[q].pc = "done" /\ recCall'[q].alert = p
      BY <1>r, <2>6, <2>p DEF AuditAutoTrigger, RecCallState
    <3>3. RecKnows(q)'
      BY <2>a, <3>2 DEF RecKnows, HasAlert
    <3>4. PlansAreWritten'
      BY <1>r, <3>1 DEF PlansAreWritten, HasRecommendation
    <3> QED
      BY <1>1, <2>1, <3>3, <3>4
  <2> QED
    BY <1>3, <2>2, <2>3, <2>4, <2>5, <2>6 DEF RecommendationStep
<1>4. ASSUME NEW d \in Decision, DecisionStep(d) PROVE RecommendationChain'
  <2>1. PICK p \in Prediction : p = decide[d].alert /\ HasRecommendation(p)
    BY <1>4 DEF IInv, TypeInv, Placed, DecisionChain, DecideKnows, DecisionStep, RecordDecision, AuditDecision,
                SetAlertStatus
  <2>2. \A x \in Prediction \ {p} : recommendation'[x] = recommendation[x]
    BY <1>4, <1>r, <2>1 DEF DecisionStep, RecordDecision, AuditDecision, SetAlertStatus
  <2>3. HasRecommendation(p)'
    BY <1>k, <2>1 DEF Keeps, HasRecommendation
  <2>4. recCall' = recCall
    BY <1>4 DEF DecisionStep, RecordDecision, AuditDecision, SetAlertStatus
  <2>5. PlansAreWritten'
    BY <1>r, <2>2, <2>3 DEF PlansAreWritten, HasRecommendation
  <2> QED
    BY <1>2, <2>4, <2>5
<1>5. ASSUME NEW q \in RecCall, NEW p \in Prediction, NEW s \in Supplier \cup {NULL},
             ReceiveRecommendation(q, p, s)
      PROVE  RecommendationChain'
  <2>1. HasAlert(p)'
    BY <1>5, <1>k DEF ReceiveRecommendation, IInv, PredictionChain, Keeps, HasAlert
  <2>2. recCall'[q].pc \in {"create", "refused"} /\ recCall'[q].alert = p
    BY <1>5, <1>r DEF ReceiveRecommendation
  <2>3. \A x \in RecCall \ {q} : recCall'[x] = recCall[x]
    BY <1>5, <1>r DEF ReceiveRecommendation
  <2>4. RecKnows(q)'
    BY <2>1, <2>2 DEF RecKnows, HasAlert
  <2>5. PlansAreWritten'
    BY <1>5, <1>r DEF ReceiveRecommendation, PlansAreWritten, HasRecommendation
  <2> QED
    BY <1>1, <2>3, <2>4, <2>5
<1>6. CASE Die
  <2>1. PlansAreWritten'
    BY <1>6, <1>r DEF Die, PlansAreWritten, HasRecommendation
  <2>2. ASSUME NEW q \in RecCall, RecInFlight(q), RecGoto(q, "failed") PROVE RecommendationChain'
    <3>1. PICK p \in Prediction : p = recCall[q].alert
      BY <2>2 DEF RecInFlight, IInv, TypeInv, Placed
    <3>2. HasAlert(p)'
      BY <1>k, <2>2, <3>1 DEF IInv, RecommendationChain, RecKnows, RecInFlight, Keeps, HasAlert
    <3>3. /\ recCall'[q].pc = "failed" /\ recCall'[q].alert = p
          /\ \A x \in RecCall \ {q} : recCall'[x] = recCall[x]
      BY <1>r, <2>2, <3>1 DEF RecGoto, RecCallState
    <3>4. RecKnows(q)'
      BY <3>2, <3>3 DEF RecKnows, HasAlert
    <3> QED
      BY <1>1, <2>1, <3>3, <3>4
  <2> QED
    BY <1>2, <1>6, <2>1, <2>2 DEF Die
<1>7. \/ \E p \in Prediction : PredictionStep(p)
      \/ \E c \in Run : RunStep(c)
      \/ Tick
      \/ \E t \in Tenant : GrantConsent(t)
      \/ \E row \in RuleRow : CreateRule(row)
      \/ \E p \in Prediction, lead \in Lead, conf \in Confidence : ReceivePrediction(p, lead, conf)
      \/ \E d \in Decision, p \in Prediction, k \in DecisionKind : FindRecommendation(d, p, k)
      \/ UNCHANGED vars
      => recommendation' = recommendation /\ recCall' = recCall
  BY DEF PredictionStep, CheckPredictionConsent, CreatePrediction, AuditPrediction,
         CreateFromPrediction, AuditAlert, NotifyCreated, PublishCreated,
         RunStep, FindDue, Escalate, NotifyEscalated, PublishEscalated,
         Tick, GrantConsent, CreateRule, ReceivePrediction, FindRecommendation, vars
<1>8. recommendation' = recommendation /\ recCall' = recCall => RecommendationChain'
  BY <1>2, <1>r DEF PlansAreWritten, HasRecommendation
<1> QED
  BY <1>3, <1>4, <1>5, <1>6, <1>7, <1>8 DEF Next, Arrival

(* What a decision request that does not move knows stays true.            *)
LEMMA DecisionKept ==
  ASSUME IInv, Keeps, NEW d \in Decision, decide'[d] = decide[d]
  PROVE  DecideKnows(d)'
<1>1. DecideKnows(d)
  BY DEF IInv, DecisionChain
<1>2. CASE decide[d].pc = "idle"
  BY <1>2 DEF DecideKnows
<1>3. CASE decide[d].pc # "idle"
  <2>1. decide[d].alert \in Prediction
    BY <1>3 DEF IInv, TypeInv, Placed
  <2> QED
    BY <1>1, <1>3, <2>1 DEF DecideKnows, Keeps, HasAlert, HasRecommendation, Entry
<1> QED
  BY <1>2, <1>3

(* What a decision request knows stays true of the tables and the log.     *)
LEMMA DecisionChainStep ==
  ASSUME IInv, [Next]_vars PROVE DecisionChain'
<1> USE DEF tables, logs, env
<1>k. Keeps
  BY KeepsStep
<1>r. /\ recommendation \in [Prediction -> RecommendationRow]
      /\ decide \in [Decision -> DecideState]
  BY DEF IInv, TypeInv, TypeOK
<1>1. ASSUME NEW d \in Decision, DecideKnows(d)',
             \A x \in Decision \ {d} : decide'[x] = decide[x]
      PROVE  DecisionChain'
  BY <1>1, <1>k, DecisionKept DEF DecisionChain
<1>2. CASE decide' = decide
  BY <1>2, <1>k, DecisionKept DEF DecisionChain
<1>3. ASSUME NEW d \in Decision, DecisionStep(d) PROVE DecisionChain'
  <2> USE DEF DecideGoto
  <2>p. PICK p \in Prediction : p = decide[d].alert
    BY <1>3 DEF IInv, TypeInv, Placed, DecisionStep, RecordDecision, AuditDecision, SetAlertStatus
  <2>0. HasAlert(p)' /\ HasRecommendation(p)'
    BY <1>3, <1>k, <2>p DEF IInv, DecisionChain, DecideKnows, DecisionStep, RecordDecision,
       AuditDecision, SetAlertStatus, Keeps, HasAlert, HasRecommendation
  <2>1. \A x \in Decision \ {d} : decide'[x] = decide[x]
    BY <1>3, <1>r DEF DecisionStep, RecordDecision, AuditDecision, SetAlertStatus
  <2>2. CASE RecordDecision(d)
    <3>1. decide'[d].pc = "audit" /\ decide'[d].alert = p
      BY <1>r, <2>2, <2>p DEF RecordDecision, DecideState
    <3>2. recommendation'[p].decidedBy = d /\ d # NULL
      BY <1>r, <2>2, <2>p, LifecycleAssumption
      DEF RecordDecision, RecommendationRow, LifecycleAssumption
    <3>3. DecideKnows(d)'
      BY <2>0, <3>1, <3>2 DEF DecideKnows, HasAlert, HasRecommendation
    <3> QED
      BY <1>1, <2>1, <3>3
  <2>3. CASE AuditDecision(d)
    <3>1. /\ decide'[d].pc = "status" /\ decide'[d].alert = p
          /\ decide'[d].decision = decide[d].decision
      BY <1>r, <2>3, <2>p DEF AuditDecision, DecideState
    <3>2. recommendation'[p].decidedBy # NULL
      BY <2>3, <2>p DEF AuditDecision, IInv, DecisionChain, DecideKnows
    <3>3. Entry("recommendation.decision_recorded", p, d, decide[d].decision) \in audit'
      BY <2>3, <2>p DEF AuditDecision
    <3>4. DecideKnows(d)'
      BY <2>0, <3>1, <3>2, <3>3 DEF DecideKnows, HasAlert, HasRecommendation, Entry
    <3> QED
      BY <1>1, <2>1, <3>4
  <2>4. CASE SetAlertStatus(d)
    <3>1. decide'[d].pc = "done" /\ decide'[d].alert = p
      BY <1>r, <2>4, <2>p DEF SetAlertStatus, DecideState
    <3>2. DecideKnows(d)'
      BY <2>0, <3>1 DEF DecideKnows, HasAlert
    <3> QED
      BY <1>1, <2>1, <3>2
  <2> QED
    BY <1>3, <2>2, <2>3, <2>4 DEF DecisionStep
<1>4. ASSUME NEW d \in Decision, NEW p \in Prediction, NEW k \in DecisionKind,
             FindRecommendation(d, p, k)
      PROVE  DecisionChain'
  <2>1. /\ decide'[d].pc = IF HasRecommendation(p) THEN "record" ELSE "failed"
        /\ decide'[d].alert = p
        /\ \A x \in Decision \ {d} : decide'[x] = decide[x]
    BY <1>4, <1>r DEF FindRecommendation
  <2>2. DecideKnows(d)'
    BY <1>4, <2>1 DEF FindRecommendation, DecideKnows, HasAlert, HasRecommendation
  <2> QED
    BY <1>1, <2>1, <2>2
<1>5. CASE Die
  <2>1. ASSUME NEW d \in Decision, DecideInFlight(d), DecideGoto(d, "failed") PROVE DecisionChain'
    <3>1. PICK p \in Prediction : p = decide[d].alert
      BY <2>1 DEF DecideInFlight, IInv, TypeInv, Placed
    <3>2. HasAlert(p)'
      BY <1>k, <2>1, <3>1 DEF IInv, DecisionChain, DecideKnows, DecideInFlight, Keeps, HasAlert
    <3>3. /\ decide'[d].pc = "failed" /\ decide'[d].alert = p
          /\ \A x \in Decision \ {d} : decide'[x] = decide[x]
      BY <1>r, <2>1, <3>1 DEF DecideGoto, DecideState
    <3>4. DecideKnows(d)'
      BY <3>2, <3>3 DEF DecideKnows, HasAlert
    <3> QED
      BY <1>1, <3>3, <3>4
  <2> QED
    BY <1>2, <1>5, <2>1 DEF Die
<1>6. \/ \E p \in Prediction : PredictionStep(p)
      \/ \E q \in RecCall : RecommendationStep(q)
      \/ \E c \in Run : RunStep(c)
      \/ Tick
      \/ \E t \in Tenant : GrantConsent(t)
      \/ \E row \in RuleRow : CreateRule(row)
      \/ \E p \in Prediction, lead \in Lead, conf \in Confidence : ReceivePrediction(p, lead, conf)
      \/ \E q \in RecCall, p \in Prediction, s \in Supplier \cup {NULL} : ReceiveRecommendation(q, p, s)
      \/ UNCHANGED vars
      => decide' = decide
  BY DEF PredictionStep, CheckPredictionConsent, CreatePrediction, AuditPrediction,
         CreateFromPrediction, AuditAlert, NotifyCreated, PublishCreated,
         RecommendationStep, CreateRecommendation, AuditRecommendation, FindMatchingRule,
         AutoTrigger, AuditAutoTrigger,
         RunStep, FindDue, Escalate, NotifyEscalated, PublishEscalated,
         Tick, GrantConsent, CreateRule, ReceivePrediction, ReceiveRecommendation, vars
<1> QED
  BY <1>2, <1>3, <1>4, <1>5, <1>6 DEF Next, Arrival

(* Only five transactions write an alert.                                  *)
LEMMA AlertWriters ==
  ASSUME [Next]_vars
  PROVE  \/ alert' = alert
         \/ \E p \in Prediction : CreateFromPrediction(p) \/ NotifyCreated(p)
         \/ \E d \in Decision : SetAlertStatus(d)
         \/ \E c \in Run, p \in Prediction : Escalate(c, p)
         \/ \E c \in Run : NotifyEscalated(c)
<1> USE DEF tables, logs, env
<1>1. CASE Tick \/ Arrival \/ Die \/ UNCHANGED vars
  BY <1>1 DEF Tick, Arrival, Die, vars, GrantConsent, CreateRule, ReceivePrediction,
              ReceiveRecommendation, FindRecommendation
<1>2. ASSUME NEW p \in Prediction, PredictionStep(p)
      PROVE  alert' = alert \/ CreateFromPrediction(p) \/ NotifyCreated(p)
  BY <1>2 DEF PredictionStep, CheckPredictionConsent, CreatePrediction, AuditPrediction, AuditAlert,
              PublishCreated
<1>3. ASSUME NEW q \in RecCall, RecommendationStep(q) PROVE alert' = alert
  BY <1>3 DEF RecommendationStep, CreateRecommendation, AuditRecommendation, FindMatchingRule,
              AutoTrigger, AuditAutoTrigger
<1>4. ASSUME NEW d \in Decision, DecisionStep(d) PROVE alert' = alert \/ SetAlertStatus(d)
  BY <1>4 DEF DecisionStep, RecordDecision, AuditDecision
<1>5. ASSUME NEW c \in Run, RunStep(c)
      PROVE  alert' = alert \/ NotifyEscalated(c) \/ \E p \in Prediction : Escalate(c, p)
  BY <1>5 DEF RunStep, FindDue, PublishEscalated
<1> QED
  BY <1>1, <1>2, <1>3, <1>4, <1>5 DEF Next

(* Once every channel is recorded, no write removes one.                   *)
LEMMA ChannelsKept ==
  ASSUME IInv, [Next]_vars, NEW p \in Prediction, HasAlert(p), alert[p].channelsSent = Channel
  PROVE  alert'[p].channelsSent = Channel
<1>r. /\ alert \in [Prediction -> AlertRow]
      /\ run \in [Run -> RunState]
  BY DEF IInv, TypeInv, TypeOK
<1>1. ASSUME NEW x \in Prediction, CreateFromPrediction(x) PROVE alert'[p].channelsSent = Channel
  <2>1. x # p
    BY <1>1 DEF CreateFromPrediction, IInv, PredictionChain
  <2> QED
    BY <1>1, <1>r, <2>1 DEF CreateFromPrediction
<1>2. ASSUME NEW x \in Prediction, NotifyCreated(x) PROVE alert'[p].channelsSent = Channel
  BY <1>2, <1>r DEF NotifyCreated, AlertRow
<1>3. ASSUME NEW d \in Decision, SetAlertStatus(d) PROVE alert'[p].channelsSent = Channel
  BY <1>3, <1>r DEF SetAlertStatus, AlertRow
<1>4. ASSUME NEW c \in Run, NEW x \in Prediction, Escalate(c, x) PROVE alert'[p].channelsSent = Channel
  BY <1>4, <1>r DEF Escalate, AlertRow
<1>5. ASSUME NEW c \in Run, NotifyEscalated(c) PROVE alert'[p].channelsSent = Channel
  <2>1. run[c].channels \cup Channel = Channel
    BY <1>r DEF RunState
  <2> QED
    BY <1>5, <1>r, <2>1 DEF NotifyEscalated, AlertRow
<1> QED
  BY <1>1, <1>2, <1>3, <1>4, <1>5, AlertWriters

(* What a run that does not move knows stays true.                         *)
LEMMA RunKept ==
  ASSUME IInv, [Next]_vars, NEW c \in Run, run'[c] = run[c]
  PROVE  RunKnows(c)'
<1>k. Keeps
  BY KeepsStep
<1>r. /\ RunKnows(c) /\ PredictionChain
      /\ run[c] \in RunState
      /\ now \in Nat /\ now' \in Nat
      /\ prediction \in [Prediction -> PredictionRow]
  BY TypeStep, LifecycleAssumption DEF LifecycleAssumption, IInv, RunChain, TypeInv, TypeOK
<1>1. ASSUME NEW p \in run[c].toEscalate
      PROVE  HasAlert(p)' /\ prediction'[p].impactAt < now' + Window
  <2>1. p \in Prediction /\ HasAlert(p) /\ prediction[p].impactAt < now + Window
    BY <1>1, <1>r DEF RunKnows, RunState
  <2>2. HasAlert(p)' /\ prediction'[p] = prediction[p] /\ now <= now'
    BY <1>k, <1>r, <2>1 DEF Keeps, HasAlert, PredictionChain
  <2>3. prediction[p].impactAt \in Nat /\ Window \in Nat
    BY <1>r, <2>1, LifecycleAssumption DEF PredictionRow, LifecycleAssumption
  <2> QED
    BY <1>r, <2>1, <2>2, <2>3
<1>2. ASSUME run[c].pc \in {"notify", "publish"}
      PROVE  /\ alert'[run[c].alert].status # "none"
             /\ run[c].pc = "publish" => alert'[run[c].alert].channelsSent = Channel
  <2>1. PICK p \in Prediction : p = run[c].alert
    BY <1>2 DEF IInv, TypeInv, Placed
  <2>2. HasAlert(p) /\ (run[c].pc = "publish" => alert[p].channelsSent = Channel)
    BY <1>2, <1>r, <2>1 DEF RunKnows
  <2> QED
    BY <1>k, <2>1, <2>2, ChannelsKept DEF Keeps, HasAlert
<1> QED
  BY <1>1, <1>2 DEF RunKnows, HasAlert

(* What an escalation run knows stays true of its alerts.                  *)
LEMMA RunChainStep ==
  ASSUME IInv, [Next]_vars PROVE RunChain'
<1> USE DEF tables, logs, env
<1>k. Keeps
  BY KeepsStep
<1>r. /\ run \in [Run -> RunState]
      /\ alert \in [Prediction -> AlertRow]
      /\ predCall \in [Prediction -> PredCallState]
      /\ PredictionChain /\ RunChain
  BY DEF IInv, TypeInv, TypeOK
<1>1. \A p \in Prediction : alert'[p].escalatedAt # NULL => HasAlert(p)'
  <2>1. ASSUME NEW p \in Prediction, alert'[p].escalatedAt # NULL PROVE HasAlert(p)'
    <3>1. CASE HasAlert(p)
      BY <1>k, <3>1 DEF Keeps, HasAlert
    <3>2. CASE alert' = alert
      BY <2>1, <3>2, <1>r DEF RunChain, HasAlert
    <3>3. ASSUME NEW x \in Prediction, CreateFromPrediction(x) \/ NotifyCreated(x) PROVE HasAlert(p)'
      BY <2>1, <3>3, <1>r DEF CreateFromPrediction, NotifyCreated, AlertRow, RunChain, HasAlert,
                              PredictionChain
    <3>4. ASSUME NEW d \in Decision, SetAlertStatus(d) PROVE HasAlert(p)'
      BY <2>1, <3>4, <1>r DEF SetAlertStatus, StatusFor, AlertRow, RunChain, HasAlert
    <3>5. ASSUME NEW c \in Run, NEW x \in Prediction, Escalate(c, x) PROVE HasAlert(p)'
      BY <2>1, <3>5, <1>r DEF Escalate, AlertRow, RunChain, HasAlert
    <3>6. ASSUME NEW c \in Run, NotifyEscalated(c) PROVE HasAlert(p)'
      BY <2>1, <3>6, <1>r DEF NotifyEscalated, AlertRow, RunChain, HasAlert
    <3> QED
      BY <3>2, <3>3, <3>4, <3>5, <3>6, AlertWriters
  <2> QED
    BY <2>1
<1>2. \A p \in Prediction : predCall'[p] = "publish" => alert'[p].channelsSent = Channel
  <2>1. ASSUME NEW p \in Prediction, predCall'[p] = "publish"
        PROVE  alert'[p].channelsSent = Channel
    <3>1. CASE predCall[p] = "publish"
      BY <3>1, <1>r, ChannelsKept DEF RunChain, PredictionChain
    <3>2. CASE NotifyCreated(p)
      BY <3>2, <1>r DEF NotifyCreated, AlertRow
    <3>3. CASE predCall[p] # "publish" /\ ~NotifyCreated(p)
      <4>1. ASSUME NEW x \in Prediction, PredictionStep(x) PROVE FALSE
        BY <2>1, <3>3, <4>1, <1>r
        DEF PredictionStep, CheckPredictionConsent, CreatePrediction, AuditPrediction,
            CreateFromPrediction, AuditAlert, NotifyCreated, PublishCreated, PredGoto, PredCallState
      <4>2. CASE Tick \/ Arrival \/ Die \/ UNCHANGED vars
        BY <2>1, <3>3, <4>2, <1>r
        DEF Tick, Arrival, Die, vars, GrantConsent, CreateRule, ReceivePrediction,
            ReceiveRecommendation, FindRecommendation, PredGoto, PredCallState
      <4>3. CASE \/ \E q \in RecCall : RecommendationStep(q)
                 \/ \E d \in Decision : DecisionStep(d)
                 \/ \E c \in Run : RunStep(c)
        <5>1. predCall' = predCall
          BY <4>3 DEF RecommendationStep, CreateRecommendation, AuditRecommendation,
             FindMatchingRule, AutoTrigger, AuditAutoTrigger, DecisionStep, RecordDecision,
             AuditDecision, SetAlertStatus, RunStep, FindDue, Escalate, NotifyEscalated,
             PublishEscalated
        <5> QED
          BY <2>1, <3>3, <5>1
      <4> QED
        BY <4>1, <4>2, <4>3 DEF Next
    <3> QED
      BY <3>1, <3>2, <3>3
  <2> QED
    BY <2>1
(* It is enough to look at the run that moves.                             *)
<1>3. ASSUME NEW c \in Run, RunKnows(c)', \A x \in Run \ {c} : run'[x] = run[x]
      PROVE  RunChain'
  BY <1>1, <1>2, <1>3, RunKept DEF RunChain
<1>4. CASE run' = run
  BY <1>1, <1>2, <1>4, RunKept DEF RunChain
<1>5. ASSUME NEW c \in Run, RunStep(c) PROVE RunChain'
  <2>1. \A x \in Run \ {c} : run'[x] = run[x]
    BY <1>5, <1>r DEF RunStep, FindDue, Escalate, NotifyEscalated, PublishEscalated
  <2>2. CASE FindDue(c)
    <3>1. run'[c].toEscalate = Due /\ run'[c].pc = "update"
      BY <2>2, <1>r DEF FindDue, NoRun
    <3>2. UNCHANGED <<alert, prediction, now>>
      BY <2>2 DEF FindDue
    <3>3. RunKnows(c)'
      BY <3>1, <3>2 DEF RunKnows, Due, Unacted, HasAlert
    <3> QED
      BY <1>3, <2>1, <3>3
  <2>3. ASSUME NEW p \in Prediction, Escalate(c, p) PROVE RunChain'
    <3>1. /\ run'[c].toEscalate = run[c].toEscalate
          /\ run'[c].pc = "notify" /\ run'[c].alert = p
      BY <2>3, <1>r DEF Escalate, RunState
    <3>2. \A x \in run[c].toEscalate : x \in Prediction /\ HasAlert(x)
      BY <1>r DEF RunChain, RunKnows, RunState
    <3>3. UNCHANGED <<prediction, now>> /\ p \in run[c].toEscalate
      BY <2>3 DEF Escalate
    <3>4. \A x \in run[c].toEscalate : HasAlert(x)'
      BY <1>k, <3>2 DEF Keeps, HasAlert
    <3>5. RunKnows(c)'
      BY <1>r, <3>1, <3>3, <3>4 DEF RunChain, RunKnows, HasAlert
    <3> QED
      BY <1>3, <2>1, <3>5
  <2>4. CASE NotifyEscalated(c)
    <3>p. PICK p \in Prediction : p = run[c].alert /\ HasAlert(p)
      BY <2>4, <1>r DEF NotifyEscalated, IInv, TypeInv, Placed, RunChain, RunKnows
    <3>1. /\ run'[c].toEscalate = run[c].toEscalate
          /\ run'[c].pc = "publish" /\ run'[c].alert = p
      BY <2>4, <1>r, <3>p DEF NotifyEscalated, RunState
    <3>2. \A x \in run[c].toEscalate : x \in Prediction /\ HasAlert(x)
      BY <1>r DEF RunChain, RunKnows, RunState
    <3>3. UNCHANGED <<prediction, now>>
      BY <2>4 DEF NotifyEscalated
    <3>4. HasAlert(p)' /\ \A x \in run[c].toEscalate : HasAlert(x)'
      BY <1>k, <3>2, <3>p DEF Keeps, HasAlert
    <3>5. alert'[p].channelsSent = Channel
      <4>1. run[c].channels \cup Channel = Channel
        BY <1>r DEF RunState
      <4> QED
        BY <2>4, <1>r, <3>p, <4>1 DEF NotifyEscalated, AlertRow
    <3>6. RunKnows(c)'
      BY <1>r, <3>1, <3>3, <3>4, <3>5 DEF RunChain, RunKnows, HasAlert
    <3> QED
      BY <1>3, <2>1, <3>6
  <2>5. CASE PublishEscalated(c)
    <3>1. /\ run'[c].toEscalate \subseteq run[c].toEscalate
          /\ run'[c].pc \in {"idle", "update"}
      BY <2>5, <1>r DEF PublishEscalated, NoRun
    <3>2. UNCHANGED <<alert, prediction, now>>
      BY <2>5 DEF PublishEscalated
    <3>3. RunKnows(c)'
      BY <1>r, <3>1, <3>2 DEF RunChain, RunKnows, HasAlert
    <3> QED
      BY <1>3, <2>1, <3>3
  <2> QED
    BY <1>5, <2>2, <2>3, <2>4, <2>5 DEF RunStep
<1>6. CASE Die
  <2>1. ASSUME NEW c \in Run, run' = [run EXCEPT ![c] = NoRun] PROVE RunChain'
    <3>1. run'[c] = NoRun /\ \A x \in Run \ {c} : run'[x] = run[x]
      BY <2>1, <1>r
    <3>2. RunKnows(c)'
      BY <3>1 DEF RunKnows, NoRun
    <3> QED
      BY <1>3, <3>1, <3>2
  <2> QED
    BY <1>4, <1>6, <2>1 DEF Die
<1>7. CASE \/ \E p \in Prediction : PredictionStep(p)
           \/ \E q \in RecCall : RecommendationStep(q)
           \/ \E d \in Decision : DecisionStep(d)
           \/ Tick \/ Arrival \/ UNCHANGED vars
  <2>1. run' = run
    BY <1>7
    DEF PredictionStep, CheckPredictionConsent, CreatePrediction, AuditPrediction,
        CreateFromPrediction, AuditAlert, NotifyCreated, PublishCreated,
        RecommendationStep, CreateRecommendation, AuditRecommendation, FindMatchingRule,
        AutoTrigger, AuditAutoTrigger, DecisionStep, RecordDecision, AuditDecision, SetAlertStatus,
        Arrival, Tick, GrantConsent, CreateRule, ReceivePrediction, ReceiveRecommendation,
        FindRecommendation, vars
  <2> QED
    BY <1>4, <2>1
<1> QED
  BY <1>5, <1>6, <1>7 DEF Next

-----------------------------------------------------------------------------
(* The safety properties.                                                  *)

(* A handled alert keeps a decision of its kind in the log.                *)
LEMMA HandledStep ==
  ASSUME IInv, [Next]_vars PROVE HandledIsAudited'
<1>k. Keeps
  BY KeepsStep
<1>r. alert \in [Prediction -> AlertRow] /\ HandledIsAudited
  BY DEF IInv, TypeInv, TypeOK
<1> SUFFICES ASSUME NEW p \in Prediction, alert'[p].status \in Handled
             PROVE  \E e \in audit' : /\ e.action = "recommendation.decision_recorded"
                                      /\ e.entity = p
                                      /\ Agree(alert'[p].status, e.payload)
  BY DEF HandledIsAudited, Agree
<1>1. CASE alert'[p].status = alert[p].status
  BY <1>1, <1>k, <1>r DEF Keeps, HandledIsAudited
<1>2. ASSUME NEW x \in Prediction, CreateFromPrediction(x) \/ NotifyCreated(x)
      PROVE  alert'[p].status = alert[p].status
  BY <1>2, <1>r DEF CreateFromPrediction, NotifyCreated, AlertRow, Handled
<1>3. ASSUME NEW c \in Run,
             NotifyEscalated(c) \/ \E x \in Prediction : Escalate(c, x)
      PROVE  alert'[p].status = alert[p].status
  <2>1. CASE NotifyEscalated(c)
    BY <2>1, <1>r DEF NotifyEscalated, AlertRow
  <2>2. ASSUME NEW x \in Prediction, Escalate(c, x) PROVE alert'[p].status = alert[p].status
    <3>1. x # p
      BY <2>2, <1>r DEF Escalate, AlertRow, Handled
    <3> QED
      BY <2>2, <1>r, <3>1 DEF Escalate
  <2> QED
    BY <1>3, <2>1, <2>2
<1>4. ASSUME NEW d \in Decision, SetAlertStatus(d), alert'[p].status # alert[p].status
      PROVE  \E e \in audit' : /\ e.action = "recommendation.decision_recorded"
                               /\ e.entity = p
                               /\ Agree(alert'[p].status, e.payload)
  <2> DEFINE k == decide[d].decision
             e == Entry("recommendation.decision_recorded", p, d, k)
  <2>1. decide[d].alert = p
    BY <1>4, <1>r DEF SetAlertStatus, AlertRow
  <2>2. alert'[p].status = StatusFor(k)
    BY <1>4, <1>r, <2>1 DEF SetAlertStatus, AlertRow
  <2>3. e \in audit
    BY <1>4, <2>1 DEF SetAlertStatus, IInv, DecisionChain, DecideKnows
  <2>4. e \in audit'
    BY <1>k, <2>3 DEF Keeps
  <2>5. e.action = "recommendation.decision_recorded" /\ e.entity = p /\ e.payload = k
    BY DEF Entry
  <2>6. Agree(StatusFor(k), k)
    BY DEF Agree, StatusFor
  <2> QED
    BY <2>2, <2>4, <2>5, <2>6
<1> QED
  BY <1>1, <1>2, <1>3, <1>4, AlertWriters

(* An escalation is of an alert whose impact is near, and stays one.       *)
LEMMA EscalatedStep ==
  ASSUME IInv, [Next]_vars PROVE EscalatedNearImpact'
<1>k. Keeps
  BY KeepsStep
<1>r. /\ alert \in [Prediction -> AlertRow]
      /\ EscalatedNearImpact /\ RunChain /\ PredictionChain
  BY DEF IInv, TypeInv, TypeOK
<1> SUFFICES ASSUME NEW p \in Prediction, alert'[p].escalatedAt # NULL
             PROVE  prediction'[p].impactAt < alert'[p].escalatedAt + Window
  BY DEF EscalatedNearImpact
<1>1. CASE alert'[p].escalatedAt = alert[p].escalatedAt
  <2>1. prediction'[p] = prediction[p]
    BY <1>1, <1>k, <1>r DEF Keeps, RunChain, PredictionChain
  <2> QED
    BY <1>1, <1>r, <2>1 DEF EscalatedNearImpact
<1>2. ASSUME NEW x \in Prediction, CreateFromPrediction(x) \/ NotifyCreated(x)
      PROVE  alert'[p].escalatedAt = alert[p].escalatedAt
  BY <1>2, <1>r DEF CreateFromPrediction, NotifyCreated, AlertRow
<1>3. ASSUME NEW d \in Decision, SetAlertStatus(d)
      PROVE  alert'[p].escalatedAt = alert[p].escalatedAt
  BY <1>3, <1>r DEF SetAlertStatus, AlertRow
<1>4. ASSUME NEW c \in Run, NotifyEscalated(c)
      PROVE  alert'[p].escalatedAt = alert[p].escalatedAt
  BY <1>4, <1>r DEF NotifyEscalated, AlertRow
<1>5. ASSUME NEW c \in Run, NEW x \in Prediction, Escalate(c, x),
             alert'[p].escalatedAt # alert[p].escalatedAt
      PROVE  prediction'[p].impactAt < alert'[p].escalatedAt + Window
  <2>1. x = p /\ alert'[p].escalatedAt = now /\ prediction' = prediction
    BY <1>5, <1>r DEF Escalate, AlertRow, tables
  <2>2. prediction[p].impactAt < now + Window
    BY <1>5, <1>r, <2>1 DEF Escalate, RunChain, RunKnows
  <2> QED
    BY <2>1, <2>2
<1> QED
  BY <1>1, <1>2, <1>3, <1>4, <1>5, AlertWriters

(* What was announced keeps its channels.                                  *)
LEMMA PublishedStep ==
  ASSUME IInv, [Next]_vars PROVE PublishedIsRecorded'
<1> USE DEF tables, logs, env
<1>k. Keeps
  BY KeepsStep
<1>r. /\ published \subseteq Event
      /\ PublishedIsRecorded /\ PredictionChain /\ RunChain
  BY DEF IInv, TypeInv, TypeOK
<1> SUFFICES ASSUME NEW e \in published'
             PROVE  alert'[e.alert].status # "none" /\ alert'[e.alert].channelsSent = Channel
  BY DEF PublishedIsRecorded, HasAlert
<1>1. ASSUME NEW p \in Prediction, p = e.alert, HasAlert(p), alert[p].channelsSent = Channel
      PROVE  alert'[e.alert].status # "none" /\ alert'[e.alert].channelsSent = Channel
  BY <1>k, <1>1, ChannelsKept DEF Keeps, HasAlert
<1>2. CASE e \in published
  BY <1>1, <1>2, <1>r DEF PublishedIsRecorded, Event
<1>3. ASSUME NEW p \in Prediction, PublishCreated(p), e \notin published
      PROVE  e.alert = p /\ HasAlert(p) /\ alert[p].channelsSent = Channel
  BY <1>3, <1>r DEF PublishCreated, PredictionChain, RunChain
<1>4. ASSUME NEW c \in Run, PublishEscalated(c), e \notin published
      PROVE  \E p \in Prediction : p = e.alert /\ HasAlert(p) /\ alert[p].channelsSent = Channel
  BY <1>4, <1>r DEF PublishEscalated, RunChain, RunKnows, IInv, TypeInv, Placed
<1>5. CASE e \notin published
  <2>1. \/ \E p \in Prediction : PublishCreated(p)
        \/ \E c \in Run : PublishEscalated(c)
    <3>1. ASSUME NEW p \in Prediction, PredictionStep(p) PROVE PublishCreated(p)
      BY <1>5, <3>1 DEF PredictionStep, CheckPredictionConsent, CreatePrediction, AuditPrediction,
                        CreateFromPrediction, AuditAlert, NotifyCreated
    <3>2. ASSUME NEW c \in Run, RunStep(c) PROVE PublishEscalated(c)
      BY <1>5, <3>2 DEF RunStep, FindDue, Escalate, NotifyEscalated
    <3>3. \/ \E q \in RecCall : RecommendationStep(q)
          \/ \E d \in Decision : DecisionStep(d)
          \/ Tick \/ Arrival \/ Die \/ UNCHANGED vars
          => published' = published
      BY DEF RecommendationStep, CreateRecommendation, AuditRecommendation, FindMatchingRule,
             AutoTrigger, AuditAutoTrigger, DecisionStep, RecordDecision, AuditDecision,
             SetAlertStatus, Tick, Arrival, Die, GrantConsent, CreateRule, ReceivePrediction,
             ReceiveRecommendation, FindRecommendation, vars
    <3> QED
      BY <1>5, <3>1, <3>2, <3>3 DEF Next
  <2> QED
    BY <1>1, <1>3, <1>4, <1>5, <2>1
<1> QED
  BY <1>2, <1>5

(* An entry of the log that was true stays true; five steps write one.     *)
LEMMA TruthfulStep ==
  ASSUME IInv, [Next]_vars PROVE AuditIsTruthful'
<1> USE DEF tables, logs, env
<1>k. Keeps
  BY KeepsStep
<1>r. /\ audit \subseteq AuditEntry
      /\ AuditIsTruthful /\ PredictionChain /\ RecommendationChain /\ DecisionChain
  BY DEF IInv, TypeInv, TypeOK
<1> DEFINE True(e, p) ==
      /\ e.action = "prediction.created" => prediction[p].stored
      /\ e.action = "alert.created" => HasAlert(p)
      /\ e.action = "recommendation.created" => HasRecommendation(p)
      /\ e.action = "recommendation.auto_triggered" =>
            /\ recommendation[p].autoTriggered
            /\ \E r \in rules : r.id = e.actor /\ Covers(r, p)
      /\ e.action = "recommendation.decision_recorded" => recommendation[p].decidedBy # NULL
(* What was true before the step is true after it.                         *)
<1>1. ASSUME NEW e, NEW p \in Prediction, True(e, p) PROVE True(e, p)'
  <2>1. ASSUME e.action = "recommendation.auto_triggered"
        PROVE  recommendation'[p].autoTriggered /\ \E r \in rules' : r.id = e.actor /\ Covers(r, p)'
    <3>1. PICK r \in rules : r.id = e.actor /\ Covers(r, p)
      BY <1>1, <2>1
    <3>2. HasRecommendation(p)
      BY <1>1, <1>r, <2>1 DEF RecommendationChain, PlansAreWritten
    <3>3. Covers(r, p)'
      BY <1>k, <3>1, <3>2, CoversKept
    <3> QED
      BY <1>1, <1>k, <2>1, <3>1, <3>3 DEF Keeps
  <2>2. prediction[p].stored => prediction'[p].stored
    BY <1>k DEF Keeps
  <2>3. HasAlert(p) => HasAlert(p)'
    BY <1>k DEF Keeps, HasAlert
  <2>4. HasRecommendation(p) => HasRecommendation(p)'
    BY <1>k DEF Keeps, HasRecommendation
  <2>5. recommendation[p].decidedBy # NULL => recommendation'[p].decidedBy # NULL
    BY <1>k DEF Keeps
  <2> QED
    BY <1>1, <2>1, <2>2, <2>3, <2>4, <2>5
(* What is written is true when it is written.                             *)
<1>2. ASSUME NEW e \in audit' PROVE True(e, e.entity) /\ e.entity \in Prediction
  <2>1. CASE e \in audit
    BY <1>r, <2>1 DEF AuditIsTruthful, AuditEntry
  <2>2. ASSUME NEW p \in Prediction, e \notin audit, PredictionStep(p) PROVE True(e, e.entity) /\ e.entity \in Prediction
    <3>1. \/ e = Entry("prediction.created", p, NULL, NULL) /\ predCall[p] = "audit"
          \/ e = Entry("alert.created", p, NULL, NULL) /\ predCall[p] = "alertAudit"
      BY <1>2, <2>2 DEF PredictionStep, CheckPredictionConsent, CreatePrediction, AuditPrediction,
         CreateFromPrediction, AuditAlert, NotifyCreated, PublishCreated
    <3> QED
      BY <1>r, <3>1 DEF Entry, PredictionChain
  <2>3. ASSUME NEW q \in RecCall, e \notin audit, RecommendationStep(q) PROVE True(e, e.entity) /\ e.entity \in Prediction
    <3>1. RecKnows(q)
      BY <1>r DEF RecommendationChain
    <3>2. CASE AuditRecommendation(q)
      <4>1. PICK p \in Prediction : p = recCall[q].alert
        BY <3>2 DEF AuditRecommendation, IInv, TypeInv, Placed
      <4>2. HasRecommendation(p)
        BY <3>1, <3>2, <4>1 DEF AuditRecommendation, RecKnows
      <4>3. e = Entry("recommendation.created", p, NULL, NULL)
        BY <1>2, <2>3, <3>2, <4>1 DEF AuditRecommendation
      <4> QED
        BY <4>2, <4>3 DEF Entry
    <3>3. CASE AuditAutoTrigger(q)
      <4>1. PICK p \in Prediction : p = recCall[q].alert
        BY <3>3 DEF AuditAutoTrigger, IInv, TypeInv, Placed
      <4>2. /\ recommendation[p].autoTriggered
            /\ recCall[q].rule \in rules /\ Covers(recCall[q].rule, p)
        BY <3>1, <3>3, <4>1 DEF AuditAutoTrigger, RecKnows
      <4>3. e = Entry("recommendation.auto_triggered", p, recCall[q].rule.id, NULL)
        BY <1>2, <2>3, <3>3, <4>1 DEF AuditAutoTrigger
      <4>4. /\ e.action = "recommendation.auto_triggered" /\ e.entity = p
            /\ e.actor = recCall[q].rule.id
        BY <4>3 DEF Entry
      <4> QED
        BY <4>2, <4>4
    <3> QED
      BY <1>2, <2>3, <3>2, <3>3 DEF RecommendationStep, CreateRecommendation, FindMatchingRule,
                                     AutoTrigger
  <2>4. ASSUME NEW d \in Decision, e \notin audit, DecisionStep(d) PROVE True(e, e.entity) /\ e.entity \in Prediction
    <3>1. AuditDecision(d)
      BY <1>2, <2>4 DEF DecisionStep, RecordDecision, SetAlertStatus
    <3>2. PICK p \in Prediction : p = decide[d].alert
      BY <3>1 DEF AuditDecision, IInv, TypeInv, Placed
    <3>3. recommendation[p].decidedBy # NULL
      BY <1>r, <3>1, <3>2 DEF AuditDecision, DecisionChain, DecideKnows
    <3>4. e = Entry("recommendation.decision_recorded", p, d, decide[d].decision)
      BY <1>2, <2>4, <3>1, <3>2 DEF AuditDecision
    <3> QED
      BY <3>3, <3>4 DEF Entry
  <2>5. (\E c \in Run : RunStep(c)) \/ Tick \/ Arrival \/ Die \/ UNCHANGED vars => audit' = audit
    BY DEF RunStep, FindDue, Escalate, NotifyEscalated, PublishEscalated, Tick, Arrival, Die,
           GrantConsent, CreateRule, ReceivePrediction, ReceiveRecommendation,
           FindRecommendation, vars
  <2> QED
    BY <1>2, <2>1, <2>2, <2>3, <2>4, <2>5 DEF Next
<1> HIDE DEF True
<1>3. \A e \in audit' : True(e, e.entity)'
  BY <1>1, <1>2
<1> QED
  BY <1>3 DEF AuditIsTruthful, True

-----------------------------------------------------------------------------

(* The invariant holds of the empty tables.                                *)
LEMMA InvInit == Init => IInv
<1> SUFFICES ASSUME Init PROVE IInv
  OBVIOUS
<1>1. TypeInv
  BY TypeInit
<1>2. PredictionChain /\ RecommendationChain
  BY DEF Init, PredictionChain, RecommendationChain, PlansAreWritten, RecKnows, HasAlert,
         HasRecommendation
<1>3. DecisionChain /\ RunChain
  BY DEF Init, DecisionChain, DecideKnows, RunChain, RunKnows, NoRun, HasAlert, HasRecommendation
<1>4. HandledIsAudited /\ AuditIsTruthful /\ EscalatedNearImpact
      /\ PublishedIsRecorded
  BY DEF Init, HandledIsAudited, Handled, AuditIsTruthful, EscalatedNearImpact,
         PublishedIsRecorded
<1> QED
  BY <1>1, <1>2, <1>3, <1>4 DEF IInv

(* The invariant is inductive.                                             *)
LEMMA InvStep == IInv /\ [Next]_vars => IInv'
<1> SUFFICES ASSUME IInv, [Next]_vars PROVE IInv'
  OBVIOUS
<1>1. TypeInv'
  BY TypeStep DEF IInv
<1> QED
  BY <1>1, PredictionChainStep, RecommendationChainStep, DecisionChainStep, RunChainStep,
     HandledStep, TruthfulStep, EscalatedStep, PublishedStep
  DEF IInv

(* The invariant holds in every reachable state.                           *)
LEMMA Invariance == Spec => []IInv
  BY InvInit, InvStep, PTL DEF Spec

(* No AI output is stored for a business that has not consented.           *)
THEOREM ConsentTheorem == Spec => []AiOutputHasConsent
<1>1. IInv => AiOutputHasConsent
  BY DEF IInv, PredictionChain, AiOutputHasConsent
<1> QED
  BY <1>1, Invariance, PTL

(* An alert shown as handled has its decision in the audit log.            *)
THEOREM HandledTheorem == Spec => []HandledIsAudited
<1>1. IInv => HandledIsAudited
  BY DEF IInv
<1> QED
  BY <1>1, Invariance, PTL

(* The audit log names only what happened.                                 *)
THEOREM TruthTheorem == Spec => []AuditIsTruthful
<1>1. IInv => AuditIsTruthful
  BY DEF IInv
<1> QED
  BY <1>1, Invariance, PTL

(* No alert is escalated before its impact is near.                        *)
THEOREM EscalationTheorem == Spec => []EscalatedNearImpact
<1>1. IInv => EscalatedNearImpact
  BY DEF IInv
<1> QED
  BY <1>1, Invariance, PTL

(* What the dashboard is told about has its channels on record.            *)
THEOREM PublishedTheorem == Spec => []PublishedIsRecorded
<1>1. IInv => PublishedIsRecorded
  BY DEF IInv
<1> QED
  BY <1>1, Invariance, PTL

(* No step takes anything back.                                            *)
THEOREM KeepsTheorem == Spec => NothingIsTakenBack
<1>1. IInv /\ [Next]_vars => [Keeps]_vars
  BY KeepsStep
<1> QED
  BY <1>1, Invariance, PTL DEF Spec, NothingIsTakenBack
=============================================================================
