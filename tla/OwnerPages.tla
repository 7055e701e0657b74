----------------------------- MODULE OwnerPages -----------------------------
(***************************************************************************)
(* What people see in apps/web.  A tab shows one page at a time: the inbox,*)
(* the detail of one alert or the automatic actions.  Pages fetch, show    *)
(* the last response to arrive, send decisions and rules, and the inbox    *)
(* refetches on the events of its EventSource.  The server does what       *)
(* OwnerView says, may escalate an alert that was handled meanwhile, as    *)
(* AlertLifecycle shows, and stores the rules.                             *)
(***************************************************************************)
EXTENDS Integers, Sequences, FiniteSets, SequencesExt

CONSTANTS
    Prediction,
    Tab,
    OwnerTab,    \* the tabs of the owner; the others are staff's
    MaxGets,     \* bound: GETs of one page under way
    MaxRules,    \* bound: automatic actions
    MaxFailures, \* bound: failed requests, lost responses and events
    NULL

ASSUME PagesAssumption ==
    /\ OwnerTab \subseteq Tab
    /\ MaxGets \in Nat \ {0} /\ MaxRules \in Nat /\ MaxFailures \in Nat
    /\ Prediction \cap {"none", "inbox", "rules"} = {}

VARIABLES
    attention,  \* OwnerView: what each alert asks of the owner
    plan,       \* OwnerView: what has become of its recommendation
    rules,      \* how many automatic actions there are
    due,        \* alert events that are to be published
    announced,  \* alert events that were
    page,       \* the page of each tab; a prediction stands for the detail of its alert
    shown,      \* the response it shows
    gets,       \* its GETs, oldest first: NULL, or the response on its way
    post,       \* its POST: "none", "sent", "served"
    confirmed,  \* POSTs of this page that were answered with success
    loadError,  \* a GET of this page has failed and the page shows nothing else
    clean,      \* no event was missed and no GET failed or was overtaken
    failures

Server == INSTANCE OwnerView

server == <<attention, plan, rules, due, announced>>
pages  == <<page, shown, gets, post, confirmed, loadError, clean>>
vars   == <<server, pages, failures>>

Init ==
    /\ Server!Init
    /\ rules = 0
    /\ due = {} /\ announced = {}
    /\ page = [k \in Tab |-> "none"]
    /\ shown = [k \in Tab |-> NULL]
    /\ gets = [k \in Tab |-> <<>>]
    /\ post = [k \in Tab |-> "none"]
    /\ confirmed = [k \in Tab |-> 0]
    /\ loadError = [k \in Tab |-> FALSE]
    /\ clean = [k \in Tab |-> TRUE]
    /\ failures = 0

Failure == failures < MaxFailures /\ failures' = failures + 1

IsDetail(k) == page[k] \in Prediction

-----------------------------------------------------------------------------
(* GET /alerts, /alerts/{id} and /auto-trigger-rules *)

(* What the page asks for, and nothing of the rest. *)
Blank == [alerts |-> [p \in Prediction |-> "none"], plan |-> "none", rules |-> 0]

(* What apps/api writes of its rows into an answer. *)
AlertResponse == [Blank EXCEPT !.alerts = attention]

(* Broken: the plan of an alert that has none yet is left undefined. *)
RecommendationUndefined(p) ==
    [Blank EXCEPT !.plan = IF plan[p] = "none" THEN NULL ELSE plan[p]]

(* An alert that has no plan yet is answered with the plan null. *)
RecommendationResponse(p) == [Blank EXCEPT !.plan = plan[p]]

AutoTriggerRuleResponse == [Blank EXCEPT !.rules = rules]

Response(k) ==
    CASE page[k] = "inbox" -> AlertResponse
      [] page[k] = "rules" -> AutoTriggerRuleResponse
      [] IsDetail(k)       -> RecommendationResponse(page[k])

Ask(k) == gets' = [gets EXCEPT ![k] = Append(@, NULL)]

Answer(k, i) ==
    /\ i \in DOMAIN gets[k] /\ gets[k][i] = NULL
    /\ gets' = [gets EXCEPT ![k][i] = Response(k)]
    /\ UNCHANGED <<server, page, shown, post, confirmed, loadError, clean, failures>>

(* Responses may overtake each other, and the last to arrive is shown. *)
Deliver(k, i) ==
    /\ i \in DOMAIN gets[k] /\ gets[k][i] # NULL
    /\ shown' = [shown EXCEPT ![k] = IF loadError[k] THEN NULL ELSE gets[k][i]]
    /\ gets' = [gets EXCEPT ![k] = RemoveAt(@, i)]
    /\ clean' = [clean EXCEPT ![k] = @ /\ i = 1]
    /\ UNCHANGED <<server, page, post, confirmed, loadError, failures>>

(* A notice is shown: beside what the page has, except that of the         *)
(* automatic actions, which shows nothing else until it is left.           *)
FailGet(k, i) ==
    /\ i \in DOMAIN gets[k]
    /\ Failure
    /\ gets' = [gets EXCEPT ![k] = RemoveAt(@, i)]
    /\ clean' = [clean EXCEPT ![k] = FALSE]
    /\ loadError' = [loadError EXCEPT ![k] = @ \/ page[k] = "rules"]
    /\ shown' = [shown EXCEPT ![k] = IF page[k] = "rules" THEN NULL ELSE @]
    /\ UNCHANGED <<server, page, post, confirmed>>

-----------------------------------------------------------------------------
(* Navigation: a page starts with nothing to show and one GET.  Only the   *)
(* owner's page of automatic actions goes beyond the session's role.  A    *)
(* page that is left hears nothing of its POST, which may still be served: *)
(* Quietly and ServeLeft do that.                                          *)

Pages(k) == {"inbox"} \cup (IF k \in OwnerTab THEN {"rules"} ELSE {})
                      \cup {p \in Prediction : attention[p] # "none"}

Open(k, p) ==
    /\ p \in Pages(k) /\ page[k] # p
    /\ page' = [page EXCEPT ![k] = p]
    /\ shown' = [shown EXCEPT ![k] = NULL]
    /\ gets' = [gets EXCEPT ![k] = <<NULL>>]
    /\ post' = [post EXCEPT ![k] = "none"]
    /\ confirmed' = [confirmed EXCEPT ![k] = 0]
    /\ loadError' = [loadError EXCEPT ![k] = FALSE]
    /\ clean' = [clean EXCEPT ![k] = TRUE]
    /\ UNCHANGED <<server, failures>>

-----------------------------------------------------------------------------
(* Decisions and automatic actions: submitDecision and handleCreate *)

(* The buttons of a plan are there with the plan, the form of the rules is *)
(* there before the rules are.                                             *)
PlanButtons(k) == IsDetail(k) /\ shown[k] # NULL /\ shown[k].plan # "none"
RuleForm(k) == page[k] = "rules" /\ ~loadError[k]

Offers(k) == PlanButtons(k) \/ (RuleForm(k) /\ rules < MaxRules)

(* Broken: the page shows the decision before it is answered. *)
SubmitOptimistic(k) ==
    /\ Offers(k) /\ post[k] = "none" /\ Len(gets[k]) < MaxGets
    /\ post' = [post EXCEPT ![k] = "sent"]
    /\ shown' = IF IsDetail(k) THEN [shown EXCEPT ![k].plan = "decided"] ELSE shown
    /\ UNCHANGED <<server, page, gets, confirmed, loadError, clean, failures>>

Submit(k) ==
    /\ Offers(k) /\ post[k] = "none" /\ Len(gets[k]) < MaxGets
    /\ post' = [post EXCEPT ![k] = "sent"]
    /\ UNCHANGED <<server, page, shown, gets, confirmed, loadError, clean, failures>>

(* POST /alerts/{id}/decision, which may replace an earlier decision, and  *)
(* POST /auto-trigger-rules.                                               *)
Serve(k) ==
    /\ post[k] = "sent"
    /\ \/ /\ IsDetail(k) /\ plan[page[k]] = "pending"
          /\ Server!Settle(page[k]) /\ UNCHANGED rules
       \/ /\ IsDetail(k) /\ plan[page[k]] = "decided"
          /\ UNCHANGED <<attention, plan, rules>>
       \/ /\ page[k] = "rules"
          /\ rules' = rules + 1 /\ UNCHANGED <<attention, plan>>
    /\ post' = [post EXCEPT ![k] = "served"]
    /\ UNCHANGED <<due, announced, page, shown, gets, confirmed, loadError, clean, failures>>

(* Broken: the page does not refetch. *)
ConfirmOnly(k) ==
    /\ post[k] = "served"
    /\ post' = [post EXCEPT ![k] = "none"]
    /\ confirmed' = [confirmed EXCEPT ![k] = @ + 1]
    /\ UNCHANGED <<server, page, shown, gets, loadError, clean, failures>>

(* The page refetches, and can submit again before that is answered. *)
Confirm(k) ==
    /\ post[k] = "served" /\ Len(gets[k]) < MaxGets
    /\ post' = [post EXCEPT ![k] = "none"]
    /\ confirmed' = [confirmed EXCEPT ![k] = IF IsDetail(k) THEN 1 ELSE @ + 1]
    /\ Ask(k)
    /\ UNCHANGED <<server, page, shown, loadError, clean, failures>>

(* The request fails, or its response is lost after it was served. *)
FailPost(k) ==
    /\ post[k] # "none"
    /\ Failure
    /\ post' = [post EXCEPT ![k] = "none"]
    /\ UNCHANGED <<server, page, shown, gets, confirmed, loadError, clean>>

-----------------------------------------------------------------------------
(* The rest of the server *)

Warn(p) ==
    /\ Server!Warn(p)
    /\ due' = due \cup {<<p, "new">>}
    /\ UNCHANGED <<rules, announced, pages, failures>>

Escalate(p) ==
    /\ Server!Escalate(p)
    /\ due' = due \cup {<<p, "escalated">>}
    /\ UNCHANGED <<rules, announced, pages, failures>>

(* The alert was found unattended, and was handled before it was escalated *)
(* (Overtakes of AlertLifecycle).                                          *)
EscalateHandled(p) ==
    /\ attention[p] = "handled"
    /\ attention' = [attention EXCEPT ![p] = "escalated"]
    /\ due' = due \cup {<<p, "escalated">>}
    /\ UNCHANGED <<plan, rules, announced, pages, failures>>

(* A plan arrives, a rule, someone else or a page that was left decides,   *)
(* an alert is handled: no event tells the pages.                          *)
Quietly(p) ==
    /\ Server!Advise(p) \/ Server!Settle(p) \/ Server!Handle(p)
    /\ UNCHANGED <<rules, due, announced, pages, failures>>

(* A page that was left, or another session, creates an automatic action.  *)
ServeLeft ==
    /\ rules < MaxRules
    /\ rules' = rules + 1
    /\ UNCHANGED <<attention, plan, due, announced, pages, failures>>

Inboxes == {k \in Tab : page[k] = "inbox"}

(* Broken: the inbox listens to new alerts only. *)
AnnounceNewOnly(e) ==
    /\ e \in due
    /\ \A k \in Inboxes : Len(gets[k]) < MaxGets
    /\ due' = due \ {e} /\ announced' = announced \cup {e}
    /\ gets' = [k \in Tab |->
          IF k \in Inboxes /\ e[2] = "new" THEN Append(gets[k], NULL) ELSE gets[k]]
    /\ UNCHANGED <<attention, plan, rules, page, shown, post, confirmed, loadError, clean, failures>>

(* alert.created and alert.escalated: every inbox refetches, except one    *)
(* whose EventSource is just not connected.                                *)
Announce(e) ==
    /\ e \in due
    /\ \A k \in Inboxes : Len(gets[k]) < MaxGets
    /\ due' = due \ {e} /\ announced' = announced \cup {e}
    /\ \E missed \in SUBSET Inboxes :
          /\ IF missed = {} THEN UNCHANGED failures ELSE Failure
          /\ gets' = [k \in Tab |->
                IF k \in Inboxes \ missed THEN Append(gets[k], NULL) ELSE gets[k]]
          /\ clean' = [k \in Tab |-> clean[k] /\ k \notin missed]
    /\ UNCHANGED <<attention, plan, rules, page, shown, post, confirmed, loadError>>

-----------------------------------------------------------------------------

Next ==
    \/ \E k \in Tab :
        \/ \E p \in Prediction \cup {"inbox", "rules"} : Open(k, p)
        \/ \E i \in 1..MaxGets : Answer(k, i) \/ Deliver(k, i) \/ FailGet(k, i)
        \/ Submit(k) \/ Serve(k) \/ Confirm(k) \/ FailPost(k)
    \/ \E p \in Prediction : Warn(p) \/ Escalate(p) \/ EscalateHandled(p) \/ Quietly(p)
    \/ ServeLeft
    \/ \E e \in due : Announce(e)

Spec == Init /\ [][Next]_vars

-----------------------------------------------------------------------------
(* Properties *)

Attention == {"none", "new", "handled", "escalated"}
Plan == {"none", "pending", "decided"}
Shown == [alerts : [Prediction -> Attention], plan : Plan, rules : Nat] \cup {NULL}

(* Every variable holds values of the server, a page or a request. *)
TypeOK ==
    /\ attention \in [Prediction -> Attention] /\ plan \in [Prediction -> Plan]
    /\ rules \in Nat
    /\ due \cup announced \subseteq Prediction \X {"new", "escalated"}
    /\ page \in [Tab -> Prediction \cup {"none", "inbox", "rules"}]
    /\ shown \in [Tab -> Shown]
    /\ gets \in [Tab -> Seq(Shown)] /\ \A k \in Tab : Len(gets[k]) <= MaxGets
    /\ post \in [Tab -> {"none", "sent", "served"}]
    /\ confirmed \in [Tab -> Nat]
    /\ loadError \in [Tab -> BOOLEAN] /\ clean \in [Tab -> BOOLEAN]
    /\ failures \in 0..MaxFailures

(* However late and in whatever order responses arrive, a page never shows *)
(* what the server does not have: a plan, a decision, a rule or an alert   *)
(* ([id]/page.tsx:66 refetches and never updates by itself); so a decision *)
(* is not sent for an alert whose plan is not stored ([id]/page.tsx:153).  *)
PagesNeverLead ==
    \A k \in Tab : shown[k] # NULL =>
        /\ shown[k].rules <= rules
        /\ \A p \in Prediction : shown[k].alerts[p] # "none" => attention[p] # "none"
        /\ IsDetail(k) => /\ shown[k].plan # "none" => plan[page[k]] # "none"
                          /\ shown[k].plan = "decided" => plan[page[k]] = "decided"
                          /\ post[k] = "sent" => plan[page[k]] # "none"

(* Once its requests are answered, a page shows what it was told is saved: *)
(* that the alert is decided, all the rules it created.  A detail page     *)
(* may fetch before and after, it goes on showing a decision               *)
(* ([id]/page.tsx:66, auto-trigger-rules/page.tsx:80).                     *)
ConfirmedIsShown ==
    \A k \in Tab : confirmed[k] > 0 /\ gets[k] = <<>> /\ clean[k] =>
        /\ IsDetail(k) => shown[k].plan = "decided"
        /\ page[k] = "rules" => shown[k].rules >= confirmed[k]

(* An inbox that missed no event, and whose GETs all succeeded in order,   *)
(* shows every alert and every escalation that was announced               *)
(* (alerts/page.tsx:40, 41).                                               *)
InboxIsCurrent ==
    \A k \in Inboxes : gets[k] = <<>> /\ clean[k] =>
        \A e \in announced :
            /\ e[2] = "new" => shown[k].alerts[e[1]] # "none"
            /\ e[2] = "escalated" => shown[k].alerts[e[1]] \notin {"none", "new"}
=============================================================================
