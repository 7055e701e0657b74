--------------------------- MODULE AlertLifecycle ---------------------------
(***************************************************************************)
(* The life of a warning in apps/api: a prediction callback from the AI    *)
(* service becomes a DisruptionPrediction and its Alert, a recommendation  *)
(* callback adds the contingency plan and may be auto-triggered, people    *)
(* decide on it, and a cron job escalates what nobody touched.             *)
(*                                                                         *)
(* Every PrismaService.withTenantContext call is a transaction of its own  *)
(* (common/prisma/prisma.service.ts), so a handler is a sequence of        *)
(* transactions between which every other request and job can run, and     *)
(* after each of which the request can die.  One action below is one such  *)
(* transaction together with the code up to the next one.                  *)
(*                                                                         *)
(* DisruptionPrediction, Alert and Recommendation are 1:1:1 (the unique    *)
(* columns alerts.disruption_prediction_id and recommendations.alert_id),  *)
(* so all three tables are indexed by the prediction callback that created *)
(* the prediction.                                                         *)
(***************************************************************************)
EXTENDS Integers, FiniteSets

CONSTANTS
    Tenant,         \* the businesses using the platform
    Prediction,     \* prediction callbacks; each creates at most one row
    TenantOf,       \* the tenant_id a callback carries
    RecCall,        \* recommendation callbacks
    Decision,       \* POST /alerts/:id/decision requests
    Run,            \* escalation runs that may overlap
    Rule,           \* ids of auto-trigger rules
    Supplier,       \* suppliers a plan can recommend
    Confidence,     \* confidence scores, in percent
    Lead,           \* ticks between a callback and its predicted impact
    MinLead,        \* MINIMUM_LEAD_TIME_MS, in ticks
    Window,         \* ALERT_ESCALATION_WINDOW_HOURS, in ticks
    Horizon,        \* bound: the last tick modelled
    MaxFailures,    \* bound: requests and runs that die half way
    NULL            \* SQL NULL

ASSUME LifecycleAssumption ==
    /\ TenantOf \in [Prediction -> Tenant]
    /\ Confidence \subseteq Nat
    /\ Lead \subseteq Nat
    /\ MinLead \in Nat
    /\ Window \in Nat
    /\ Horizon \in Nat
    /\ MaxFailures \in Nat
    /\ NULL \notin Prediction \cup Supplier \cup Decision \cup Rule

VARIABLES
    now,            \* the clock, in ticks
    consented,      \* tenants whose ai_processing_consent_at is set
    prediction,     \* disruption_predictions
    alert,          \* alerts
    recommendation, \* recommendations
    rules,          \* auto_trigger_rules
    audit,          \* audit_log_entries
    published,      \* events NotificationService.publish has sent
    predCall,       \* progress of each prediction callback
    recCall,        \* progress of each recommendation callback
    decide,         \* progress of each decision request
    run,            \* progress of each escalation run
    failures,       \* requests and runs that died so far
    overtaken       \* history: alerts that were handled when a run escalated them

tables == <<prediction, alert, recommendation, rules>>
logs   == <<audit, published>>
env    == <<now, consented, failures, overtaken>>
vars   == <<env, tables, logs, predCall, recCall, decide, run>>

-----------------------------------------------------------------------------
(* The rows *)

Channel == {"in_app", "email"}

DecisionKind == {"accepted", "modified", "dismissed"}

(* AlertStatus, and "none" where there is no row. *)
AlertStatus == {"new", "acknowledged", "acted_on", "dismissed", "escalated", "expired"}
Unacted == {"new", "acknowledged"}
Handled == {"acted_on", "dismissed"}

(* Before `stored` the row is the body of the callback in flight. *)
PredictionRow == [stored: BOOLEAN, impactAt: 0..Horizon, confidence: Confidence \cup {0}]

AlertRow == [status: AlertStatus \cup {"none"},
             channelsSent: SUBSET Channel,
             escalatedAt: 0..Horizon \cup {NULL}]

RecommendationRow == [ownerDecision: DecisionKind \cup {"none", "pending"},
                      recommendedSupplierId: Supplier \cup {NULL},
                      autoTriggered: BOOLEAN,
                      decidedBy: Decision \cup {NULL}]

(* The conditions of a rule are free JSON.  The evaluator looks at their    *)
(* min_confidence only, and without one it is 0.  A max_order_value, which *)
(* data-model.md:232, api.yaml and schema.prisma:321 give as an example,   *)
(* is stored with the rule and compared with nothing.                      *)
RuleRow == [id: Rule, tenant: Tenant, scope: Supplier \cup {NULL},
            enabled: BOOLEAN, minConfidence: Confidence \cup {0}]

(* An audit entry names the row it is about, and the request or the rule   *)
(* that acted.  No writer records the same entry twice, so a set of        *)
(* entries loses nothing.                                                  *)
AuditAction == {"prediction.created", "alert.created", "recommendation.created",
                "recommendation.decision_recorded", "recommendation.auto_triggered"}

AuditEntry == [action: AuditAction, entity: Prediction,
               actor: Decision \cup Rule \cup {NULL},
               payload: DecisionKind \cup {NULL}]

Event == [type: {"alert.created", "alert.escalated"}, alert: Prediction]

Entry(action, p, actor, payload) ==
    [action |-> action, entity |-> p, actor |-> actor, payload |-> payload]

-----------------------------------------------------------------------------
(* The requests and jobs *)

PredCallState == {"idle", "consent", "create", "audit", "alert", "alertAudit",
                  "notify", "publish", "done", "refused", "failed"}

RecCallState == [pc: {"idle", "create", "audit", "rules", "trigger", "triggerAudit",
                      "done", "refused", "failed"},
                 alert: Prediction \cup {NULL},
                 supplier: Supplier \cup {NULL},
                 rule: RuleRow \cup {NULL}]

DecideState == [pc: {"idle", "record", "audit", "status", "done", "failed"},
                alert: Prediction \cup {NULL},
                decision: DecisionKind \cup {NULL}]

(* toEscalate holds what findMany returned and the loop has not finished;  *)
(* alert is the row the loop is at, channels what the update returned.     *)
RunState == [pc: {"idle", "update", "notify", "publish"},
             toEscalate: SUBSET Prediction,
             alert: Prediction \cup {NULL},
             channels: SUBSET Channel]

NoRun == [pc |-> "idle", toEscalate |-> {}, alert |-> NULL, channels |-> {}]

HasAlert(p) == alert[p].status # "none"
HasRecommendation(p) == recommendation[p].ownerDecision # "none"

(* A request is in flight from its first transaction to its response. *)
PredInFlight(p) == predCall[p] \notin {"idle", "done", "refused", "failed"}
RecInFlight(q) == recCall[q].pc \notin {"idle", "done", "refused", "failed"}
DecideInFlight(d) == decide[d].pc \in {"record", "audit", "status"}

Init ==
    /\ now = 0
    /\ consented = {}
    /\ prediction = [p \in Prediction |-> [stored |-> FALSE, impactAt |-> 0, confidence |-> 0]]
    /\ alert = [p \in Prediction |->
                   [status |-> "none", channelsSent |-> {}, escalatedAt |-> NULL]]
    /\ recommendation = [p \in Prediction |->
                            [ownerDecision |-> "none", recommendedSupplierId |-> NULL,
                             autoTriggered |-> FALSE, decidedBy |-> NULL]]
    /\ rules = {}
    /\ audit = {}
    /\ published = {}
    /\ predCall = [p \in Prediction |-> "idle"]
    /\ recCall = [q \in RecCall |->
                     [pc |-> "idle", alert |-> NULL, supplier |-> NULL, rule |-> NULL]]
    /\ decide = [d \in Decision |-> [pc |-> "idle", alert |-> NULL, decision |-> NULL]]
    /\ run = [c \in Run |-> NoRun]
    /\ failures = 0
    /\ overtaken = {}

-----------------------------------------------------------------------------
(* What the rest of the system does to this component's state. *)

Tick ==
    /\ now < Horizon
    /\ now' = now + 1
    /\ UNCHANGED <<consented, failures, overtaken, tables, logs, predCall, recCall, decide, run>>

(* TenantService.grantAiProcessingConsent; nothing ever revokes consent.   *)
GrantConsent(t) ==
    /\ t \notin consented
    /\ consented' = consented \cup {t}
    /\ UNCHANGED <<now, failures, overtaken, tables, logs, predCall, recCall, decide, run>>

(* POST /auto-trigger-rules by the owner of the tenant; no endpoint        *)
(* changes or deletes a rule.                                              *)
CreateRule(row) ==
    /\ \A r \in rules : r.id # row.id
    /\ rules' = rules \cup {row}
    /\ UNCHANGED <<env, prediction, alert, recommendation, logs,
                   predCall, recCall, decide, run>>

-----------------------------------------------------------------------------
(* POST /internal/predictions *)

PredGoto(p, pc) == predCall' = [predCall EXCEPT ![p] = pc]

(* The 48-hour floor is checked against the clock of the arrival.  The     *)
(* last conjunct is the bound that keeps the impact inside the model.      *)
ReceivePrediction(p, lead, confidence) ==
    /\ predCall[p] = "idle"
    /\ now + lead <= Horizon
    /\ prediction' = [prediction EXCEPT ![p] =
                        [stored |-> FALSE, impactAt |-> now + lead, confidence |-> confidence]]
    /\ PredGoto(p, IF lead < MinLead THEN "refused" ELSE "consent")
    /\ UNCHANGED <<env, alert, recommendation, rules, logs, recCall, decide, run>>

(* Broken: the consent is looked up and its answer ignored. *)
CheckPredictionConsentIgnored(p) ==
    /\ predCall[p] = "consent"
    /\ PredGoto(p, "create")
    /\ UNCHANGED <<env, tables, logs, recCall, decide, run>>

CheckPredictionConsent(p) ==
    /\ predCall[p] = "consent"
    /\ PredGoto(p, IF TenantOf[p] \in consented THEN "create" ELSE "refused")
    /\ UNCHANGED <<env, tables, logs, recCall, decide, run>>

CreatePrediction(p) ==
    /\ predCall[p] = "create"
    /\ prediction' = [prediction EXCEPT ![p].stored = TRUE]
    /\ PredGoto(p, "audit")
    /\ UNCHANGED <<env, alert, recommendation, rules, logs, recCall, decide, run>>

AuditPrediction(p) ==
    /\ predCall[p] = "audit"
    /\ audit' = audit \cup {Entry("prediction.created", p, NULL, NULL)}
    /\ PredGoto(p, "alert")
    /\ UNCHANGED <<env, tables, published, recCall, decide, run>>

(* AlertService.createFromPrediction: the reads before the insert are of   *)
(* rows that nothing updates.                                              *)
CreateFromPrediction(p) ==
    /\ predCall[p] = "alert"
    /\ alert' = [alert EXCEPT ![p] =
                    [status |-> "new", channelsSent |-> {}, escalatedAt |-> NULL]]
    /\ PredGoto(p, "alertAudit")
    /\ UNCHANGED <<env, prediction, recommendation, rules, logs, recCall, decide, run>>

AuditAlert(p) ==
    /\ predCall[p] = "alertAudit"
    /\ audit' = audit \cup {Entry("alert.created", p, NULL, NULL)}
    /\ PredGoto(p, "notify")
    /\ UNCHANGED <<env, tables, published, recCall, decide, run>>

(* Broken: the channels are sent to and not recorded. *)
NotifyCreatedUnrecorded(p) ==
    /\ predCall[p] = "notify"
    /\ PredGoto(p, "publish")
    /\ UNCHANGED <<env, tables, logs, recCall, decide, run>>

(* AlertNotifierService.notify with the alert as it was inserted: its      *)
(* channelsSent is still empty.                                            *)
NotifyCreated(p) ==
    /\ predCall[p] = "notify"
    /\ alert' = [alert EXCEPT ![p].channelsSent = {} \cup Channel]
    /\ PredGoto(p, "publish")
    /\ UNCHANGED <<env, prediction, recommendation, rules, logs, recCall, decide, run>>

(* The event goes out, and the response with the alert's id follows.       *)
PublishCreated(p) ==
    /\ predCall[p] = "publish"
    /\ published' = published \cup {[type |-> "alert.created", alert |-> p]}
    /\ PredGoto(p, "done")
    /\ UNCHANGED <<env, tables, audit, recCall, decide, run>>

-----------------------------------------------------------------------------
(* POST /internal/recommendations *)

RecGoto(q, pc) == recCall' = [recCall EXCEPT ![q].pc = pc]

(* The caller has the alert's id from the response to its prediction.      *)
ReceiveRecommendation(q, p, supplier) ==
    /\ recCall[q].pc = "idle"
    /\ predCall[p] = "done"
    /\ recCall' = [recCall EXCEPT ![q] =
                     [pc |-> IF TenantOf[p] \in consented THEN "create" ELSE "refused",
                      alert |-> p, supplier |-> supplier, rule |-> NULL]]
    /\ UNCHANGED <<env, tables, logs, predCall, decide, run>>

(* Broken: without the unique index a second plan replaces the first. *)
CreateRecommendationAgain(q) ==
    /\ recCall[q].pc = "create"
    /\ recommendation' = [recommendation EXCEPT ![recCall[q].alert] =
          [ownerDecision |-> "pending", recommendedSupplierId |-> recCall[q].supplier,
           autoTriggered |-> FALSE, decidedBy |-> NULL]]
    /\ RecGoto(q, "audit")
    /\ UNCHANGED <<env, prediction, alert, rules, logs, predCall, decide, run>>

(* A second plan for one alert violates the unique index: the insert       *)
(* throws and the request dies (P2002 is not handled).                     *)
CreateRecommendation(q) ==
    LET p == recCall[q].alert IN
    /\ recCall[q].pc = "create"
    /\ \/ /\ ~HasRecommendation(p)
          /\ recommendation' = [recommendation EXCEPT ![p] =
                [ownerDecision |-> "pending", recommendedSupplierId |-> recCall[q].supplier,
                 autoTriggered |-> FALSE, decidedBy |-> NULL]]
          /\ RecGoto(q, "audit")
       \/ /\ HasRecommendation(p)
          /\ RecGoto(q, "failed")
          /\ UNCHANGED recommendation
    /\ UNCHANGED <<env, prediction, alert, rules, logs, predCall, decide, run>>

AuditRecommendation(q) ==
    /\ recCall[q].pc = "audit"
    /\ audit' = audit \cup {Entry("recommendation.created", recCall[q].alert, NULL, NULL)}
    /\ RecGoto(q, "rules")
    /\ UNCHANGED <<env, tables, published, predCall, decide, run>>

(* The rule is the tenant's own (row-level security), enabled, in scope,   *)
(* and its conditions hold of the prediction.                              *)
ConditionsMatch(r, p) == r.minConfidence <= prediction[p].confidence

(* Broken: a rule that is switched off is found too. *)
RuleMatchesDisabled(r, p, supplier) ==
    r.tenant = TenantOf[p] /\ r.scope \in {NULL, supplier} /\ ConditionsMatch(r, p)

RuleMatches(r, p, supplier) ==
    /\ r.tenant = TenantOf[p]
    /\ r.enabled
    /\ r.scope \in {NULL, supplier}
    /\ ConditionsMatch(r, p)

(* AutoTriggerEvaluatorService.evaluate reads the rules; findMany has no   *)
(* order, so any matching rule may be the first.                           *)
FindMatchingRule(q) ==
    LET matching == {r \in rules : RuleMatches(r, recCall[q].alert, recCall[q].supplier)} IN
    /\ recCall[q].pc = "rules"
    /\ \/ /\ matching = {}
          /\ RecGoto(q, "done")
       \/ \E r \in matching :
             recCall' = [recCall EXCEPT ![q].pc = "trigger", ![q].rule = r]
    /\ UNCHANGED <<env, tables, logs, predCall, decide, run>>

(* The update is by id alone: whatever was decided meanwhile is            *)
(* overwritten, and decided_by_user_id stays as it was.                    *)
AutoTrigger(q) ==
    LET p == recCall[q].alert IN
    /\ recCall[q].pc = "trigger"
    /\ recommendation' = [recommendation EXCEPT ![p].ownerDecision = "accepted",
                                                ![p].autoTriggered = TRUE]
    /\ RecGoto(q, "triggerAudit")
    /\ UNCHANGED <<env, prediction, alert, rules, logs, predCall, decide, run>>

(* Broken: the request ends without the entry. *)
AuditAutoTriggerForgotten(q) ==
    /\ recCall[q].pc = "triggerAudit"
    /\ RecGoto(q, "done")
    /\ UNCHANGED <<env, tables, logs, predCall, decide, run>>

AuditAutoTrigger(q) ==
    /\ recCall[q].pc = "triggerAudit"
    /\ audit' = audit \cup
          {Entry("recommendation.auto_triggered", recCall[q].alert, recCall[q].rule.id, NULL)}
    /\ RecGoto(q, "done")
    /\ UNCHANGED <<env, tables, published, predCall, decide, run>>

-----------------------------------------------------------------------------
(* POST /alerts/:id/decision *)

DecideGoto(d, pc) == decide' = [decide EXCEPT ![d].pc = pc]

(* Broken: the missing recommendation is not noticed. *)
FindRecommendationUnchecked(d, p, kind) ==
    /\ decide[d].pc = "idle"
    /\ HasAlert(p)
    /\ decide' = [decide EXCEPT ![d] = [pc |-> "record", alert |-> p, decision |-> kind]]
    /\ UNCHANGED <<env, tables, logs, predCall, recCall, run>>

(* Without a recommendation the request gets a 404. *)
FindRecommendation(d, p, kind) ==
    /\ decide[d].pc = "idle"
    /\ HasAlert(p)
    /\ decide' = [decide EXCEPT ![d] =
                    [pc |-> IF HasRecommendation(p) THEN "record" ELSE "failed",
                     alert |-> p, decision |-> kind]]
    /\ UNCHANGED <<env, tables, logs, predCall, recCall, run>>

(* An update by id: an earlier decision is replaced. *)
RecordDecision(d) ==
    LET p == decide[d].alert IN
    /\ decide[d].pc = "record"
    /\ recommendation' = [recommendation EXCEPT ![p].ownerDecision = decide[d].decision,
                                                ![p].decidedBy = d]
    /\ DecideGoto(d, "audit")
    /\ UNCHANGED <<env, prediction, alert, rules, logs, predCall, recCall, run>>

(* Broken: the entry of the decision is forgotten. *)
AuditDecisionForgotten(d) ==
    /\ decide[d].pc = "audit"
    /\ DecideGoto(d, "status")
    /\ UNCHANGED <<env, tables, logs, predCall, recCall, run>>

AuditDecision(d) ==
    /\ decide[d].pc = "audit"
    /\ audit' = audit \cup {Entry("recommendation.decision_recorded", decide[d].alert, d,
                                  decide[d].decision)}
    /\ DecideGoto(d, "status")
    /\ UNCHANGED <<env, tables, published, predCall, recCall, run>>

(* Broken: the decision's name is stored as the status. *)
StatusForUnmapped(kind) == kind

(* Broken: a modified plan counts as dismissed. *)
StatusForModified(kind) == IF kind = "accepted" THEN "acted_on" ELSE "dismissed"

StatusFor(kind) == IF kind = "dismissed" THEN "dismissed" ELSE "acted_on"

SetAlertStatus(d) ==
    /\ decide[d].pc = "status"
    /\ alert' = [alert EXCEPT ![decide[d].alert].status = StatusFor(decide[d].decision)]
    /\ DecideGoto(d, "done")
    /\ UNCHANGED <<env, prediction, recommendation, rules, logs, predCall, recCall, run>>

-----------------------------------------------------------------------------
(* AlertEscalationService.runOnce, every five minutes *)

(* Broken: the window includes its end. *)
DueInclusive == {p \in Prediction : /\ alert[p].status \in Unacted
                                    /\ prediction[p].impactAt <= now + Window}

(* Broken: the status is not part of the query. *)
DueAnyStatus == {p \in Prediction : /\ HasAlert(p)
                                    /\ prediction[p].impactAt < now + Window}

(* Broken: an alert that nobody has opened is not looked for. *)
DueOpened == {p \in Prediction : /\ alert[p].status = "acknowledged"
                                 /\ prediction[p].impactAt < now + Window}

Due == {p \in Prediction : /\ alert[p].status \in Unacted
                           /\ prediction[p].impactAt < now + Window}

(* A run that finds nothing changes nothing, so only the others are steps. *)
FindDue(c) ==
    /\ run[c].pc = "idle"
    /\ Due # {}
    /\ run' = [run EXCEPT ![c] = [NoRun EXCEPT !.pc = "update", !.toEscalate = Due]]
    /\ UNCHANGED <<env, tables, logs, predCall, recCall, decide>>

(* Broken: the run leaves off after the update. *)
EscalateQuietly(c, p) ==
    /\ run[c].pc = "update"
    /\ p \in run[c].toEscalate
    /\ alert' = [alert EXCEPT ![p].status = "escalated", ![p].escalatedAt = now]
    /\ run' = [run EXCEPT ![c] = NoRun]
    /\ overtaken' = IF alert[p].status \in Handled THEN overtaken \cup {p} ELSE overtaken
    /\ UNCHANGED <<now, consented, failures, prediction, recommendation, rules, logs, predCall, recCall, decide>>

(* The update is by id: the status findMany saw is not checked again.      *)
Escalate(c, p) ==
    /\ run[c].pc = "update"
    /\ p \in run[c].toEscalate
    /\ alert' = [alert EXCEPT ![p].status = "escalated", ![p].escalatedAt = now]
    /\ run' = [run EXCEPT ![c].pc = "notify", ![c].alert = p,
                          ![c].channels = alert[p].channelsSent]
    /\ overtaken' = IF alert[p].status \in Handled THEN overtaken \cup {p} ELSE overtaken
    /\ UNCHANGED <<now, consented, failures, prediction, recommendation, rules, logs, predCall, recCall, decide>>

(* AlertNotifierService.notify with the alert the update returned. *)
NotifyEscalated(c) ==
    /\ run[c].pc = "notify"
    /\ alert' = [alert EXCEPT ![run[c].alert].channelsSent = run[c].channels \cup Channel]
    /\ run' = [run EXCEPT ![c].pc = "publish"]
    /\ UNCHANGED <<env, prediction, recommendation, rules, logs, predCall, recCall, decide>>

PublishEscalated(c) ==
    LET left == run[c].toEscalate \ {run[c].alert} IN
    /\ run[c].pc = "publish"
    /\ published' = published \cup {[type |-> "alert.escalated", alert |-> run[c].alert]}
    /\ run' = [run EXCEPT ![c] = IF left = {} THEN NoRun
                                 ELSE [NoRun EXCEPT !.pc = "update", !.toEscalate = left]]
    /\ UNCHANGED <<env, tables, audit, predCall, recCall, decide>>

-----------------------------------------------------------------------------
(* A transaction throws (time-out, lost connection, a stale foreign key)   *)
(* or the API process dies: the request ends where it is and what it has   *)
(* committed stays.  Nothing retries a request; the cron fires again.      *)

Die ==
    /\ failures < MaxFailures
    /\ failures' = failures + 1
    /\ \/ /\ \E p \in Prediction : PredInFlight(p) /\ PredGoto(p, "failed")
          /\ UNCHANGED <<recCall, decide, run>>
       \/ /\ \E q \in RecCall : RecInFlight(q) /\ RecGoto(q, "failed")
          /\ UNCHANGED <<predCall, decide, run>>
       \/ /\ \E d \in Decision : DecideInFlight(d) /\ DecideGoto(d, "failed")
          /\ UNCHANGED <<predCall, recCall, run>>
       \/ /\ \E c \in Run : run[c].pc # "idle" /\ run' = [run EXCEPT ![c] = NoRun]
          /\ UNCHANGED <<predCall, recCall, decide>>
    /\ UNCHANGED <<now, consented, overtaken, tables, logs>>

-----------------------------------------------------------------------------

PredictionStep(p) ==
    \/ CheckPredictionConsent(p)
    \/ CreatePrediction(p)
    \/ AuditPrediction(p)
    \/ CreateFromPrediction(p)
    \/ AuditAlert(p)
    \/ NotifyCreated(p)
    \/ PublishCreated(p)

RecommendationStep(q) ==
    \/ CreateRecommendation(q)
    \/ AuditRecommendation(q)
    \/ FindMatchingRule(q)
    \/ AutoTrigger(q)
    \/ AuditAutoTrigger(q)

DecisionStep(d) ==
    \/ RecordDecision(d)
    \/ AuditDecision(d)
    \/ SetAlertStatus(d)

RunStep(c) ==
    \/ FindDue(c)
    \/ \E p \in Prediction : Escalate(c, p)
    \/ NotifyEscalated(c)
    \/ PublishEscalated(c)

(* The requests that reach the API. *)
Arrival ==
    \/ \E t \in Tenant : GrantConsent(t)
    \/ \E row \in RuleRow : CreateRule(row)
    \/ \E p \in Prediction, lead \in Lead, conf \in Confidence : ReceivePrediction(p, lead, conf)
    \/ \E q \in RecCall, p \in Prediction, s \in Supplier \cup {NULL} : ReceiveRecommendation(q, p, s)
    \/ \E d \in Decision, p \in Prediction, k \in DecisionKind : FindRecommendation(d, p, k)

Next ==
    \/ Tick
    \/ Arrival
    \/ \E p \in Prediction : PredictionStep(p)
    \/ \E q \in RecCall : RecommendationStep(q)
    \/ \E d \in Decision : DecisionStep(d)
    \/ \E c \in Run : RunStep(c)
    \/ Die

Spec == Init /\ [][Next]_vars

(* Time passes, a request that has started runs on, and the cron fires     *)
(* every five minutes.  Nothing makes a request arrive or die.             *)
Fairness ==
    /\ WF_vars(Tick)
    /\ \A p \in Prediction : WF_vars(PredictionStep(p))
    /\ \A q \in RecCall : WF_vars(RecommendationStep(q))
    /\ \A d \in Decision : WF_vars(DecisionStep(d))
    /\ \A c \in Run : WF_vars(RunStep(c))

FairSpec == Spec /\ Fairness

-----------------------------------------------------------------------------
(* Type invariant *)

(* Every variable holds values of the tables and requests above.           *)
TypeOK ==
    /\ now \in 0..Horizon
    /\ consented \subseteq Tenant
    /\ prediction \in [Prediction -> PredictionRow]
    /\ alert \in [Prediction -> AlertRow]
    /\ recommendation \in [Prediction -> RecommendationRow]
    /\ rules \subseteq RuleRow
    /\ audit \subseteq AuditEntry
    /\ published \subseteq Event
    /\ predCall \in [Prediction -> PredCallState]
    /\ recCall \in [RecCall -> RecCallState]
    /\ decide \in [Decision -> DecideState]
    /\ run \in [Run -> RunState]
    /\ failures \in 0..MaxFailures
    /\ overtaken \subseteq Prediction

-----------------------------------------------------------------------------
(* Safety *)

(* The status the dashboard shows and the kind of the decision agree. *)
Agree(status, kind) == (status = "dismissed") <=> (kind = "dismissed")

(* What is asked of a rule before it accepts the plan for p. *)
Covers(r, p) ==
    /\ r.tenant = TenantOf[p] /\ r.enabled
    /\ r.scope # NULL => r.scope = recommendation[p].recommendedSupplierId
    /\ prediction[p].confidence >= r.minConfidence

(* No AI output is ever stored for a business that has not consented: the  *)
(* consent is read in an earlier transaction than the one that stores the  *)
(* prediction or the plan (predictions-callback.controller.ts:64,          *)
(* recommendations-callback.controller.ts:40).                             *)
AiOutputHasConsent ==
    \A p \in Prediction :
        prediction[p].stored \/ HasAlert(p) \/ HasRecommendation(p) => TenantOf[p] \in consented

(* An alert the dashboard shows as acted on or dismissed has a decision    *)
(* of that kind in the audit log, whatever died, raced or was overwritten  *)
(* on the way (the status is the last of the three writes of decide).      *)
HandledIsAudited ==
    \A p \in Prediction : alert[p].status \in Handled =>
        \E e \in audit : /\ e.action = "recommendation.decision_recorded"
                         /\ e.entity = p
                         /\ Agree(alert[p].status, e.payload)

(* Nothing in the audit log is about something that did not happen: the    *)
(* rows it names exist, an auto-trigger entry names a rule of the tenant   *)
(* that covers the plan (as far as the evaluator looks, see RuleRow), and  *)
(* a recorded decision has been the plan's.                                *)
AuditIsTruthful ==
    \A e \in audit :
        LET p == e.entity IN
        /\ e.action = "prediction.created" => prediction[p].stored
        /\ e.action = "alert.created" => HasAlert(p)
        /\ e.action = "recommendation.created" => HasRecommendation(p)
        /\ e.action = "recommendation.auto_triggered" =>
              /\ recommendation[p].autoTriggered
              /\ \E r \in rules : r.id = e.actor /\ Covers(r, p)
        /\ e.action = "recommendation.decision_recorded" => recommendation[p].decidedBy # NULL

(* While nothing has died, the log lacks only what requests in flight are  *)
(* about to add: the prediction and the alert of a callback that is over,  *)
(* its plan, the acceptance by a rule (naming one that covers the plan),   *)
(* and every decision, also one that another has overwritten since.        *)
(* data-model.md:266-268 wants each entry in the transaction of its row;   *)
(* it is in a later one, so a death in between does lose it, and this is   *)
(* no longer claimed once something has died.                              *)
AuditCatchesUp ==
    failures = 0 => \A p \in Prediction :
        /\ prediction[p].stored /\ ~PredInFlight(p) =>
              /\ Entry("prediction.created", p, NULL, NULL) \in audit
              /\ Entry("alert.created", p, NULL, NULL) \in audit
        /\ HasRecommendation(p) /\ (\A q \in RecCall : RecInFlight(q) => recCall[q].alert # p) =>
              /\ Entry("recommendation.created", p, NULL, NULL) \in audit
              /\ recommendation[p].autoTriggered =>
                    \E r \in rules :
                        /\ Covers(r, p)
                        /\ Entry("recommendation.auto_triggered", p, r.id, NULL) \in audit
        /\ \A d \in Decision : decide[d].alert = p /\ decide[d].pc = "done" =>
              Entry("recommendation.decision_recorded", p, d, decide[d].decision) \in audit

(* While nothing has died and once the decisions sent on an alert are      *)
(* over, it no longer asks for one: it is acted on or dismissed, unless a  *)
(* run that had found it due before has escalated it over the decision     *)
(* (DocHandledIsTerminal shows that), and the status is that of the        *)
(* plan, unless two people decided differently or a rule replaced the      *)
(* decision.  No other interleaving makes the two rows disagree.           *)
DisagreementNeedsRace ==
    failures = 0 => \A p \in Prediction :
        LET deciders == {d \in Decision : decide[d].alert = p /\ decide[d].pc # "failed"} IN
        deciders # {} /\ (\A d \in deciders : decide[d].pc = "done") =>
            /\ \/ alert[p].status \in Handled
               \/ alert[p].status = "escalated" /\ p \in overtaken
            /\ \/ alert[p].status \in Handled
                     /\ Agree(alert[p].status, recommendation[p].ownerDecision)
               \/ p \in overtaken
               \/ recommendation[p].autoTriggered
               \/ \E d, e \in deciders : decide[d].decision # decide[e].decision

(* FR-016: an alert is escalated only once its impact is inside the        *)
(* window at that moment, although the window was evaluated in an earlier  *)
(* transaction (alert-escalation.service.ts:33).                           *)
EscalatedNearImpact ==
    \A p \in Prediction : alert[p].escalatedAt # NULL =>
        prediction[p].impactAt < alert[p].escalatedAt + Window

(* A business that asks for nothing more hears of every prediction and of  *)
(* every escalation: an event that was not sent, and that no request or    *)
(* run is on its way to send, is the trace of one that died, and no death  *)
(* leaves more than one, however runs overlap and decisions intervene      *)
(* (predictions-callback.controller.ts:80, alert-escalation.service.ts:55).*)
Unannounced ==
    {p \in Prediction :
        /\ prediction[p].stored /\ ~PredInFlight(p)
        /\ [type |-> "alert.created", alert |-> p] \notin published}

Unescalated ==
    {p \in Prediction :
        /\ alert[p].escalatedAt # NULL
        /\ [type |-> "alert.escalated", alert |-> p] \notin published
        /\ \A c \in Run : run[c].alert # p}

SilenceIsFailure == Cardinality(Unannounced) + Cardinality(Unescalated) <= failures

(* An event the dashboard receives is about an alert that exists and whose *)
(* channels_sent already names every channel, whichever of the callback    *)
(* and the escalation wrote it last (alert-notifier.service.ts:30).        *)
PublishedIsRecorded ==
    \A e \in published : HasAlert(e.alert) /\ alert[e.alert].channelsSent = Channel

-----------------------------------------------------------------------------
(* What no step may do *)

(* Rows only accumulate: whatever overwrites what, no request takes back a *)
(* consent, a rule or a log entry, an alert keeps its prediction, a plan   *)
(* stays the one that was written, and neither the mark of a rule nor the  *)
(* name of a decider is erased again.                                      *)
Keeps ==
    /\ now <= now'
    /\ consented \subseteq consented' /\ rules \subseteq rules'
    /\ audit \subseteq audit' /\ published \subseteq published'
    /\ \A p \in Prediction :
        /\ prediction[p].stored => prediction'[p] = prediction[p]
        /\ alert[p].status # "none" => alert'[p].status # "none"
        /\ recommendation[p].ownerDecision # "none" =>
              /\ recommendation'[p].ownerDecision # "none"
              /\ recommendation'[p].recommendedSupplierId = recommendation[p].recommendedSupplierId
        /\ recommendation[p].autoTriggered => recommendation'[p].autoTriggered
        /\ recommendation[p].decidedBy # NULL => recommendation'[p].decidedBy # NULL

NothingIsTakenBack == [][Keeps]_vars

(* While escalation runs do not overlap, an alert is escalated at most     *)
(* once, and stays off later runs whatever the owner does in between.      *)
EscalatesOnce ==
    [][\A p \in Prediction : alert[p].escalatedAt # NULL =>
           alert'[p].escalatedAt = alert[p].escalatedAt]_vars

-----------------------------------------------------------------------------
(* Liveness *)

(* FR-016, spec.md:120 "rather than let it silently expire": no alert      *)
(* stays untouched for ever, even if runs of the cron die in between.      *)
NoSilentExpiry ==
    \A p \in Prediction : alert[p].status \in Unacted ~> alert[p].status \notin Unacted

-----------------------------------------------------------------------------
(* AlertLifecycle implements OwnerView *)

attentionOf == [p \in Prediction |->
    CASE alert[p].status = "none" -> "none"
      [] alert[p].status \in Unacted -> "new"
      [] alert[p].status = "escalated" -> "escalated"
      [] OTHER -> "handled"]

planOf == [p \in Prediction |->
    CASE recommendation[p].ownerDecision \in {"none", "pending"} ->
            recommendation[p].ownerDecision
      [] OTHER -> "decided"]

View == INSTANCE OwnerView WITH attention <- attentionOf, plan <- planOf

(* The one step the view does not know: a run escalates an alert that it   *)
(* had found due before the decision handled it.                           *)
Overtakes ==
    \E c \in Run, p \in Prediction :
        attentionOf[p] = "handled" /\ Escalate(c, p)

(* Whatever requests, jobs and deaths interleave, the owner sees at most   *)
(* one plan, only under a warning, a warning is handled only after its     *)
(* plan was decided, neither a warning nor a decision disappears, and one  *)
(* that is handled asks again only when an escalation overtakes the        *)
(* decision (alert-escalation.service.ts:46-54), which is all that         *)
(* separates the transactions from the documented view.                    *)
ViewUnlessOvertaken == View!Init /\ [][View!Next \/ Overtakes]_<<attentionOf, planOf>>

-----------------------------------------------------------------------------
(* What the documents say and the code does not do: each of these is       *)
(* checked by a run that finds it violated.                                *)

(* recommendation-decision.spec.ts:48 "the alert's status reflects the     *)
(* decision", once no request on the alert is in flight.                   *)
StatusReflectsDecision ==
    \A p \in Prediction :
        /\ alert[p].status \in Handled
        /\ failures = 0
        /\ \A d \in Decision : ~DecideInFlight(d)
        => Agree(alert[p].status, recommendation[p].ownerDecision)

(* spec.md:246-248: AI actions stay overridable by a human, so the plan a  *)
(* person decided on holds that person's decision.                         *)
HumanDecisionStands ==
    \A p \in Prediction : recommendation[p].decidedBy # NULL =>
        recommendation[p].ownerDecision = decide[recommendation[p].decidedBy].decision

(* data-model.md:184-187: acted_on and dismissed are terminal, and only a  *)
(* new, acknowledged alert is escalated.                                   *)
HandledIsTerminal ==
    [][\A p \in Prediction : alert[p].status \in Handled => alert'[p].status \in Handled]_vars
=============================================================================
