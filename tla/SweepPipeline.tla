--------------------------- MODULE SweepPipeline ---------------------------
(***************************************************************************)
(* Where warnings come from.  Each process of apps/ai-service sleeps, asks *)
(* apps/api for candidates and takes them one at a time through predict,   *)
(* prediction callback, choice of an alternative, plan and recommendation  *)
(* callback; scripts/seed_disruption.py does the same for one supplier     *)
(* without asking.  The callbacks themselves, transaction by transaction,  *)
(* are module AlertLifecycle; here a callback is one step that succeeds,   *)
(* fails, or is given up by the caller while apps/api goes on with it.     *)
(***************************************************************************)
EXTENDS Naturals, Sequences, FiniteSets

CONSTANTS
    Tenant,
    Supplier,     \* active suppliers, those that are yet to be entered too
    TenantOf,     \* the tenant of each supplier
    Rank,         \* the place of each supplier's name, which others may have too
    LeadOf,       \* typicalLeadTimeDays of each supplier
    FirstKind,    \* "primary" or "backup" as each was entered, "none" if it was not
    MinLead,      \* the 48-hour floor in the same unit
    InDirectory,  \* tenants whose sector has a verified directory entry
    Sweeper,      \* processes of apps/ai-service
    Script,       \* runs of the seed script
    MaxFailures,  \* bound: exceptions, time-outs and crashes
    MaxEdits,     \* bound: changes the owners make to stock and suppliers
    Edited,       \* bound: the tenants and suppliers they change
    Slot,         \* bound: the predictions, by number, an owner looks at
    NULL

ASSUME SweepAssumption ==
    /\ TenantOf \in [Supplier -> Tenant]
    /\ Rank \in [Supplier -> Nat] /\ LeadOf \in [Supplier -> Nat] /\ MinLead \in Nat
    /\ FirstKind \in [Supplier -> {"none", "primary", "backup"}]
    /\ InDirectory \subseteq Tenant
    /\ Sweeper \cap Script = {}
    /\ MaxFailures \in Nat /\ MaxEdits \in Nat
    /\ Edited \subseteq Tenant \cup Supplier /\ Slot \subseteq Nat
    /\ NULL \notin Supplier

VARIABLES
    kind,         \* suppliers.kind
    consented,    \* tenants with ai_processing_consent_at
    atRisk,       \* tenants with an item at or below its reorder threshold
    predictions,  \* disruption_predictions in the order of their inserts, all active
    pass,         \* what each process is doing
    late,         \* prediction callbacks apps/api handles after the caller gave up
    failures,
    edits

owners == <<kind, consented, atRisk, edits>>
vars == <<owners, predictions, pass, late, failures>>

Process == Sweeper \cup Script

(* listed: how many predictions there were when the candidates were read.  *)
(* at: the prediction the callback answered with.                          *)
(* source: where the alternative in the plan comes from, if there is one.  *)
Asleep == [pc |-> "sleep", work |-> {}, listed |-> 0, supplier |-> NULL, at |-> 0, source |-> "none"]

Init ==
    /\ kind = FirstKind
    /\ consented \in SUBSET Tenant
    /\ atRisk = Tenant
    /\ predictions = <<>>
    /\ pass = [w \in Process |-> Asleep]
    /\ late = [s \in Supplier |-> 0]
    /\ failures = 0
    /\ edits = 0

Failure == failures < MaxFailures /\ failures' = failures + 1

-----------------------------------------------------------------------------
(* apps/api: SweepCandidatesService.listCandidates *)

FirstPrimary(t) ==
    {s \in Supplier :
        /\ TenantOf[s] = t /\ kind[s] = "primary"
        /\ \A o \in Supplier : TenantOf[o] = t /\ kind[o] = "primary" => Rank[s] <= Rank[o]}

OpenPrediction(s) == \E i \in DOMAIN predictions : predictions[i].supplier = s

(* Broken: an open prediction does not matter. *)
CandidateAgain(s) ==
    s \in FirstPrimary(TenantOf[s]) /\ TenantOf[s] \in consented \cap atRisk

(* Nothing ever takes a prediction out of status active. *)
Candidate(s) ==
    /\ s \in FirstPrimary(TenantOf[s])
    /\ TenantOf[s] \in consented \cap atRisk
    /\ ~OpenPrediction(s)

(* The queries find one supplier of each tenant that has any: which one of *)
(* several of the same name is up to the database.                         *)
Found ==
    LET firsts == {s \in Supplier : s \in FirstPrimary(TenantOf[s])}
        Of(t, suppliers) == {s \in suppliers : TenantOf[s] = t}
    IN  {found \in SUBSET firsts :
            \A s \in firsts : Cardinality(Of(TenantOf[s], found)) = 1}

(* The signal's lead is counted from a moment before the agent looks at    *)
(* its clock, and apps/api later still: a lead equal to the floor is short *)
(* of it by then.                                                          *)
AboveFloor(s) == LeadOf[s] > MinLead

-----------------------------------------------------------------------------
(* apps/api: SourcingCandidatesService, and the choice among its answer *)

Backups(t) == {s \in Supplier : TenantOf[s] = t /\ kind[s] = "backup"}

(* A backup of its own comes first; which one is left out. *)
Recommend(t) ==
    CASE Backups(t) # {}                       -> "own_backup"
      [] Backups(t) = {} /\ t \in InDirectory  -> "directory"
      [] OTHER                                 -> "none"

-----------------------------------------------------------------------------
(* One pass: run_sweep and run_for_candidate *)

(* A failed fetch is a pass that ends before it starts. *)
Fetch(w) ==
    /\ w \in Sweeper /\ pass[w].pc = "sleep"
    /\ \E found \in Found :
          pass' = [pass EXCEPT ![w] = [Asleep EXCEPT
              !.pc = "next", !.work = {s \in found : Candidate(s)}, !.listed = Len(predictions)]]
    /\ UNCHANGED <<owners, predictions, late, failures>>

Seed(w, s) ==
    /\ w \in Script /\ pass[w].pc = "sleep" /\ kind[s] # "none"
    /\ pass' = [pass EXCEPT ![w] = [Asleep EXCEPT !.pc = "next", !.work = {s}]]
    /\ UNCHANGED <<owners, predictions, late, failures>>

(* Broken: the pass goes on with a candidate it has lost. *)
NextCandidateStays(w) == [pass[w] EXCEPT !.at = 0, !.source = "none"]

(* On to the next candidate, whatever became of this one. *)
NextCandidate(w) == [pass[w] EXCEPT !.pc = "next", !.supplier = NULL, !.at = 0, !.source = "none"]

(* PredictionAgent.predict: below the floor there is nothing to send.  The *)
(* script is told a lead of its own.                                       *)
Predict(w, s) ==
    /\ pass[w].pc = "next" /\ s \in pass[w].work
    /\ \/ /\ w \in Script \/ AboveFloor(s)
          /\ pass' = [pass EXCEPT ![w].pc = "post", ![w].work = @ \ {s}, ![w].supplier = s]
       \/ /\ w \in Script \/ ~AboveFloor(s)
          /\ pass' = [pass EXCEPT ![w].work = @ \ {s}]
    /\ UNCHANGED <<owners, predictions, late, failures>>

NewPrediction(s, listed, alerted) ==
    [supplier |-> s, listed |-> listed, alerted |-> alerted, planned |-> FALSE]

(* Broken: the prediction is answered before its alert is raised. *)
PostPredictionAlone(w) ==
    LET s == pass[w].supplier IN
    /\ pass[w].pc = "post" /\ TenantOf[s] \in consented
    /\ predictions' = Append(predictions, NewPrediction(s, pass[w].listed, FALSE))
    /\ pass' = [pass EXCEPT ![w].pc = "plan", ![w].at = Len(predictions'),
                            ![w].source = Recommend(TenantOf[s])]
    /\ UNCHANGED <<owners, late, failures>>

(* POST /internal/predictions: stored, alert raised, candidates returned. *)
PostPrediction(w) ==
    LET s == pass[w].supplier IN
    /\ pass[w].pc = "post" /\ TenantOf[s] \in consented
    /\ predictions' = Append(predictions, NewPrediction(s, pass[w].listed, TRUE))
    /\ pass' = [pass EXCEPT ![w].pc = "plan", ![w].at = Len(predictions'),
                            ![w].source = Recommend(TenantOf[s])]
    /\ UNCHANGED <<owners, late, failures>>

(* Without consent apps/api answers 403, an exception like any other. *)
Refused(w) ==
    /\ pass[w].pc = "post" /\ TenantOf[pass[w].supplier] \notin consented
    /\ pass' = [pass EXCEPT ![w] = NextCandidate(w)]
    /\ UNCHANGED <<owners, predictions, late, failures>>

(* Broken: no plan is posted when there is no alternative to recommend. *)
PostPlanWithChoice(w) ==
    /\ pass[w].pc = "plan"
    /\ predictions' = [predictions EXCEPT ![pass[w].at].planned = (pass[w].source # "none")]
    /\ pass' = [pass EXCEPT ![w] = NextCandidate(w)]
    /\ UNCHANGED <<owners, late, failures>>

(* ContingencyPlanAgent.generate_plan and POST /internal/recommendations. *)
PostPlan(w) ==
    /\ pass[w].pc = "plan"
    /\ predictions' = [predictions EXCEPT ![pass[w].at].planned = TRUE]
    /\ pass' = [pass EXCEPT ![w] = NextCandidate(w)]
    /\ UNCHANGED <<owners, late, failures>>

(* The model does not answer, or its answer is unusable, before a          *)
(* prediction is sent or before its plan is.                               *)
ModelFails(w) ==
    /\ pass[w].pc \in {"post", "plan"}
    /\ Failure
    /\ pass' = [pass EXCEPT ![w] = NextCandidate(w)]
    /\ UNCHANGED <<owners, predictions, late>>

(* A callback fails before it stored anything, after the prediction, after *)
(* the alert, or only for the caller, whose 10 seconds are up: caught for  *)
(* this candidate.  A plan that is only late is stored as by PostPlan.     *)
GiveUp(w) ==
    LET s == pass[w].supplier IN
    /\ pass[w].pc \in {"post", "plan"}
    /\ Failure
    /\ pass' = [pass EXCEPT ![w] = NextCandidate(w)]
    /\ \/ UNCHANGED <<predictions, late>>
       \/ /\ pass[w].pc = "post" /\ TenantOf[s] \in consented
          /\ \E alerted \in BOOLEAN :
                predictions' = Append(predictions, NewPrediction(s, pass[w].listed, alerted))
          /\ UNCHANGED late
       \/ /\ pass[w].pc = "post" /\ TenantOf[s] \in consented
          /\ late' = [late EXCEPT ![s] = @ + 1]
          /\ UNCHANGED predictions
    /\ UNCHANGED owners

(* The callback the caller no longer waits for stores its prediction after *)
(* all, and raises the alert if it does not die in between.                *)
LatePrediction(s) ==
    /\ late[s] > 0
    /\ late' = [late EXCEPT ![s] = @ - 1]
    /\ \E alerted \in BOOLEAN :
          predictions' = Append(predictions, NewPrediction(s, 0, alerted))
    /\ UNCHANGED <<owners, pass, failures>>

(* Broken: the service sweeps once and not on a timer. *)
EndPassForGood(w) ==
    /\ pass[w].pc = "next" /\ pass[w].work = {}
    /\ pass' = [pass EXCEPT ![w] = [Asleep EXCEPT !.pc = "done"]]
    /\ UNCHANGED <<owners, predictions, late, failures>>

(* The service sleeps until the next pass, the script exits. *)
EndPass(w) ==
    /\ pass[w].pc = "next" /\ pass[w].work = {}
    /\ pass' = [pass EXCEPT ![w] = [Asleep EXCEPT !.pc = IF w \in Script THEN "done" ELSE "sleep"]]
    /\ UNCHANGED <<owners, predictions, late, failures>>

(* The process dies.  The platform starts the service again. *)
Crash(w) ==
    /\ pass[w].pc \in {"next", "post", "plan"}
    /\ Failure
    /\ pass' = [pass EXCEPT ![w] = [Asleep EXCEPT !.pc = IF w \in Script THEN "done" ELSE "sleep"]]
    /\ UNCHANGED <<owners, predictions, late>>

-----------------------------------------------------------------------------
(* The owners: CSV files, the item form, the consent button *)

(* A supplier is entered, or its kind is changed. *)
SetKind(s) ==
    /\ edits < MaxEdits /\ edits' = edits + 1
    /\ \E new \in {"primary", "backup"} \ {kind[s]} : kind' = [kind EXCEPT ![s] = new]
    /\ UNCHANGED <<consented, atRisk, predictions, pass, late, failures>>

SetStock(t) ==
    /\ edits < MaxEdits /\ edits' = edits + 1
    /\ atRisk' = IF t \in atRisk THEN atRisk \ {t} ELSE atRisk \cup {t}
    /\ UNCHANGED <<kind, consented, predictions, pass, late, failures>>

(* Consent is never withdrawn. *)
Consent(t) ==
    /\ t \notin consented
    /\ consented' = consented \cup {t}
    /\ UNCHANGED <<kind, atRisk, edits, predictions, pass, late, failures>>

-----------------------------------------------------------------------------

Step(w) ==
    \/ Fetch(w) \/ PostPrediction(w) \/ Refused(w) \/ PostPlan(w) \/ EndPass(w)
    \/ \E s \in Supplier : Predict(w, s)

Next ==
    \/ \E w \in Process : Step(w) \/ ModelFails(w) \/ GiveUp(w) \/ Crash(w)
    \/ \E w \in Script, s \in Supplier : Seed(w, s)
    \/ \E s \in Supplier : LatePrediction(s)
    \/ \E s \in Supplier \cap Edited : SetKind(s)
    \/ \E t \in Tenant \cap Edited : SetStock(t) \/ Consent(t)

Spec == Init /\ [][Next]_vars

(* A process that is started goes on: every model call and callback has a  *)
(* time-out.  Nothing is assumed of a callback nobody waits for.           *)
FairSpec == Spec /\ \A w \in Process : WF_(pass[w])(Step(w))

-----------------------------------------------------------------------------
(* Properties *)

(* Every variable holds values of its table or of its process. *)
TypeOK ==
    /\ kind \in [Supplier -> {"none", "primary", "backup"}]
    /\ consented \in SUBSET Tenant /\ atRisk \in SUBSET Tenant
    /\ predictions \in Seq([supplier : Supplier, listed : Nat, alerted : BOOLEAN,
                            planned : BOOLEAN])
    /\ pass \in [Process -> [pc : {"sleep", "next", "post", "plan", "done"},
                             work : SUBSET Supplier, listed : Nat,
                             supplier : Supplier \cup {NULL}, at : Nat,
                             source : {"own_backup", "directory", "none"}]]
    /\ \A w \in Process : pass[w].pc = "plan" => pass[w].at \in DOMAIN predictions
    /\ late \in [Supplier -> 0..MaxFailures]
    /\ failures \in 0..MaxFailures /\ edits \in 0..MaxEdits

(* A sweep warns about a supplier a second time only when its pass read    *)
(* the candidates before the first prediction was stored, that is when two *)
(* passes overlap or a callback was late (sweep-candidates.service.ts:57). *)
(* A seed run, listed = 0, reads none.                                     *)
DuplicateNeedsOverlap ==
    \A i, j \in DOMAIN predictions :
        i < j /\ predictions[i].supplier = predictions[j].supplier => predictions[j].listed < i

(* An open prediction keeps its supplier out of every later sweep, so one  *)
(* that has no alert or no plan never gets it: each such loss, once no     *)
(* pass works on it, is a failure somewhere (sweep.py:64, 86), never what  *)
(* a run of the pipeline that met no failure leaves behind.                *)
LossesAreFailures ==
    Cardinality({i \in DOMAIN predictions :
        /\ ~predictions[i].alerted \/ ~predictions[i].planned
        /\ \A w \in Process : ~(pass[w].pc = "plan" /\ pass[w].at = i)}) <= failures

(* A business at risk whose first primary suppliers by name are above the  *)
(* floor and have no prediction. *)
Waiting(t) ==
    FirstPrimary(t) # {} /\ \A s \in FirstPrimary(t) : Candidate(s) /\ AboveFloor(s)

(* A business that can be warned in time does not wait for good: it is     *)
(* warned, or stops being at risk, or another supplier becomes its first.  *)
(* No failure of a pass, of another candidate or of another process ends   *)
(* that (sweep.py:113, main.py:26).                                        *)
CandidateIsWarned == \A t \in Tenant : []<>~Waiting(t)

-----------------------------------------------------------------------------
(* SweepPipeline implements OwnerView *)

attentionOf == [i \in Slot |->
    IF i \in DOMAIN predictions /\ predictions[i].alerted THEN "new" ELSE "none"]

planOf == [i \in Slot |->
    IF i \in DOMAIN predictions /\ predictions[i].planned THEN "pending" ELSE "none"]

View == INSTANCE OwnerView WITH Prediction <- Slot, attention <- attentionOf, plan <- planOf

(* However the passes, seed runs and late callbacks interleave and die, no *)
(* plan is stored for a prediction whose alert was lost, and neither an    *)
(* alert nor a plan is taken back: the owner is shown what module          *)
(* AlertLifecycle shows (callbacks/predictions.py:46, sweep.py:69).        *)
ViewSpec == View!Spec

-----------------------------------------------------------------------------

(* FR-007 (spec.md:161): a step-by-step contingency plan is presented      *)
(* alongside each disruption alert.                                        *)
EveryAlertIsPlanned ==
    \A s \in Supplier : LET Planless == \E i \in DOMAIN predictions :
                            /\ predictions[i].supplier = s
                            /\ predictions[i].alerted /\ ~predictions[i].planned
                      IN  Planless ~> ~Planless
=============================================================================
