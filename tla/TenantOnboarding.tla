-------------------------- MODULE TenantOnboarding --------------------------
(***************************************************************************)
(* How a business gets on the platform: the three-step wizard of apps/web, *)
(* open in the tabs of one browser, and the routes of apps/api it calls.   *)
(* Creating a tenant is four transactions (tenant, owner, audit entry,     *)
(* session) and granting consent two (consent, audit entry); the session   *)
(* is a cookie all tabs share, and nothing but creating a tenant or the    *)
(* "live example" button establishes one in production.                    *)
(***************************************************************************)
EXTENDS Naturals, Sequences, FiniteSets

CONSTANTS
    Tab,         \* tabs with the wizard open
    MaxFailures, \* bound: requests that fail or lose their response
    MaxReloads,  \* bound: times a tab is loaded again
    Demo,        \* the demonstration tenant, seeded and not described here
    NULL         \* no session

ASSUME OnboardingAssumption ==
    /\ IsFiniteSet(Tab) /\ MaxFailures \in Nat /\ MaxReloads \in Nat
    /\ Demo \notin Nat /\ NULL \notin Nat /\ Demo # NULL

VARIABLES
    tenants,   \* the tenants created, in the order of their inserts
    session,   \* the tenant of the session
    page,      \* the wizard in each tab
    call,      \* the request each tab waits for, as far as apps/api got with it
    failures,
    reloads

vars == <<tenants, session, page, call, failures, reloads>>

(* onboarded and logged: the audit log has the entry of the onboarding and *)
(* of the consent.                                                         *)
NewTenant == [owner |-> FALSE, onboarded |-> FALSE, consented |-> FALSE, logged |-> FALSE]

FreshPage == [step |-> "business", submitting |-> FALSE, added |-> FALSE]
NoCall    == [at |-> "none", tenant |-> 0]

Init ==
    /\ tenants = <<>>
    /\ session = NULL
    /\ page = [k \in Tab |-> FreshPage]
    /\ call = [k \in Tab |-> NoCall]
    /\ failures = 0
    /\ reloads = 0

Failure == failures < MaxFailures /\ failures' = failures + 1

(* The tenant of a request: tenantContextFromRequest behind AuthGuard. *)
Own == session \in DOMAIN tenants

Consented == IF Own THEN [tenants EXCEPT ![session].consented = TRUE] ELSE tenants

-----------------------------------------------------------------------------
(* Step 1: POST /tenants *)

(* The button of the form is disabled while a request is under way. *)
BusinessForm(k) == page[k].step = "business" /\ ~page[k].submitting

(* Broken: the button is not disabled while the request is under way. *)
SubmitBusinessUnlocked(k) ==
    /\ page[k].step = "business" /\ Len(tenants) < 6
    /\ page' = [page EXCEPT ![k].submitting = TRUE]
    /\ call' = [call EXCEPT ![k] = [at |-> "tenant", tenant |-> 0]]
    /\ UNCHANGED <<tenants, session, failures, reloads>>

SubmitBusiness(k) ==
    /\ BusinessForm(k)
    /\ page' = [page EXCEPT ![k].submitting = TRUE]
    /\ call' = [call EXCEPT ![k] = [at |-> "tenant", tenant |-> 0]]
    /\ UNCHANGED <<tenants, session, failures, reloads>>

CreateTenant(k) ==
    /\ call[k].at = "tenant"
    /\ tenants' = Append(tenants, NewTenant)
    /\ call' = [call EXCEPT ![k] = [at |-> "owner", tenant |-> Len(tenants')]]
    /\ UNCHANGED <<session, page, failures, reloads>>

(* Broken: the session does not wait for the audit entry. *)
CreateOwnerAndSignIn(k) ==
    /\ call[k].at = "owner"
    /\ tenants' = [tenants EXCEPT ![call[k].tenant].owner = TRUE]
    /\ call' = [call EXCEPT ![k].at = "session"]
    /\ UNCHANGED <<session, page, failures, reloads>>

CreateOwner(k) ==
    /\ call[k].at = "owner"
    /\ tenants' = [tenants EXCEPT ![call[k].tenant].owner = TRUE]
    /\ call' = [call EXCEPT ![k].at = "entry"]
    /\ UNCHANGED <<session, page, failures, reloads>>

AuditOnboarded(k) ==
    /\ call[k].at = "entry"
    /\ tenants' = [tenants EXCEPT ![call[k].tenant].onboarded = TRUE]
    /\ call' = [call EXCEPT ![k].at = "session"]
    /\ UNCHANGED <<session, page, failures, reloads>>

(* The session is the new owner's and the wizard goes on. *)
SignIn(k) ==
    /\ call[k].at = "session"
    /\ session' = call[k].tenant
    /\ page' = [page EXCEPT ![k].step = "connect-data", ![k].submitting = FALSE]
    /\ call' = [call EXCEPT ![k] = NoCall]
    /\ UNCHANGED <<tenants, failures, reloads>>

-----------------------------------------------------------------------------
(* Step 2: POST /inventory-items and /data-sources/csv-upload *)

(* Without a session the answer is 401, which the page shows and forgets.  *)
SignedIn == session # NULL

(* The forms of this step have no lock: they are there while it is shown.  *)
StockForms(k) == page[k].step = "connect-data"

(* An item or a file; the file is accepted before its rows are looked at.  *)
AddStock(k) ==
    /\ StockForms(k) /\ SignedIn
    /\ page' = [page EXCEPT ![k].added = TRUE]
    /\ UNCHANGED <<tenants, session, call, failures, reloads>>

Continue(k) ==
    /\ page[k].step = "connect-data" /\ page[k].added
    /\ page' = [page EXCEPT ![k].step = "consent"]
    /\ UNCHANGED <<tenants, session, call, failures, reloads>>

-----------------------------------------------------------------------------
(* Step 3: POST /tenants/me/ai-consent *)

ConsentCard(k) == page[k].step = "consent" /\ ~page[k].submitting

SubmitConsent(k) ==
    /\ ConsentCard(k)
    /\ page' = [page EXCEPT ![k].submitting = TRUE]
    /\ call' = [call EXCEPT ![k] = [at |-> "consent", tenant |-> 0]]
    /\ UNCHANGED <<tenants, session, failures, reloads>>

(* Broken: a response that is not a success leaves the button disabled. *)
RefuseConsentStuck(k) ==
    /\ call[k].at = "consent" /\ ~SignedIn
    /\ call' = [call EXCEPT ![k] = NoCall]
    /\ UNCHANGED <<tenants, session, page, failures, reloads>>

(* AuthGuard answers 401: the session has ended. *)
RefuseConsent(k) ==
    /\ call[k].at = "consent" /\ ~SignedIn
    /\ page' = [page EXCEPT ![k].submitting = FALSE]
    /\ call' = [call EXCEPT ![k] = NoCall]
    /\ UNCHANGED <<tenants, session, failures, reloads>>

(* Broken: the consent is recorded and answered without its entry. *)
GrantConsentUnlogged(k) ==
    /\ call[k].at = "consent" /\ SignedIn
    /\ tenants' = Consented
    /\ page' = [page EXCEPT ![k].step = "left", ![k].submitting = FALSE]
    /\ call' = [call EXCEPT ![k] = NoCall]
    /\ UNCHANGED <<session, failures, reloads>>

(* ai_processing_consent_at and the status active, in one update. *)
GrantConsent(k) ==
    /\ call[k].at = "consent" /\ SignedIn
    /\ tenants' = Consented
    /\ call' = [call EXCEPT ![k] = [at |-> "consent entry", tenant |-> IF Own THEN session ELSE 0]]
    /\ UNCHANGED <<session, page, failures, reloads>>

(* The entry of the request's tenant, whatever the session is by now. *)
AuditConsent(k) ==
    /\ call[k].at = "consent entry"
    /\ tenants' = IF call[k].tenant = 0 THEN tenants
                  ELSE [tenants EXCEPT ![call[k].tenant].logged = TRUE]
    /\ page' = [page EXCEPT ![k].step = "left", ![k].submitting = FALSE]
    /\ call' = [call EXCEPT ![k] = NoCall]
    /\ UNCHANGED <<session, failures, reloads>>

NotRightNow(k) ==
    /\ ConsentCard(k)
    /\ page' = [page EXCEPT ![k].step = "left"]
    /\ UNCHANGED <<tenants, session, call, failures, reloads>>

-----------------------------------------------------------------------------
(* What interferes *)

(* Broken: a failure takes back the newest tenant. *)
CallFailsUndoes(k) ==
    /\ call[k].at \in {"owner", "entry", "session"}
    /\ Failure
    /\ tenants' = SubSeq(tenants, 1, Len(tenants) - 1)
    /\ page' = [page EXCEPT ![k].submitting = FALSE]
    /\ call' = [call EXCEPT ![k] = NoCall]
    /\ UNCHANGED <<session, reloads>>

(* apps/api fails where it is, or only its answer is lost: the session may *)
(* have changed.  The page shows an error and can be submitted again.      *)
CallFails(k) ==
    /\ call[k].at # "none"
    /\ Failure
    /\ session' \in IF call[k].at = "session" THEN {session, call[k].tenant} ELSE {session}
    /\ page' = [page EXCEPT ![k].submitting = FALSE]
    /\ call' = [call EXCEPT ![k] = NoCall]
    /\ UNCHANGED <<tenants, reloads>>

(* The wizard keeps nothing: a tab that is loaded again starts over. *)
Reload(k) ==
    /\ reloads < MaxReloads /\ reloads' = reloads + 1
    /\ call[k].at = "none"
    /\ page' = [page EXCEPT ![k] = FreshPage]
    /\ UNCHANGED <<tenants, session, call, failures>>

(* POST /auth/demo-login, from the landing page in another tab. *)
DemoLogin ==
    /\ session' = Demo
    /\ UNCHANGED <<tenants, page, call, failures, reloads>>

(* The cookie's eight hours are over, or POST /auth/logout. *)
SessionEnds ==
    /\ SignedIn
    /\ session' = NULL
    /\ UNCHANGED <<tenants, page, call, failures, reloads>>

-----------------------------------------------------------------------------

Serve(k) ==
    \/ CreateTenant(k) \/ CreateOwner(k) \/ AuditOnboarded(k) \/ SignIn(k)
    \/ RefuseConsent(k) \/ GrantConsent(k) \/ AuditConsent(k)

Next ==
    \/ \E k \in Tab :
        \/ Serve(k) \/ CallFails(k) \/ Reload(k)
        \/ SubmitBusiness(k) \/ AddStock(k)
        \/ Continue(k) \/ SubmitConsent(k) \/ NotRightNow(k)
    \/ DemoLogin \/ SessionEnds

Spec == Init /\ [][Next]_vars

-----------------------------------------------------------------------------
(* Properties *)

(* Every variable holds values of its table, page or request. *)
TypeOK ==
    /\ tenants \in Seq([owner : BOOLEAN, onboarded : BOOLEAN, consented : BOOLEAN,
                        logged : BOOLEAN])
    /\ session \in DOMAIN tenants \cup {Demo, NULL}
    /\ page \in [Tab -> [step : {"business", "connect-data", "consent", "left"},
                         submitting : BOOLEAN, added : BOOLEAN]]
    /\ call \in [Tab -> [at : {"none", "tenant", "owner", "entry", "session",
                               "consent", "consent entry"},
                         tenant : 0..Len(tenants)]]
    /\ failures \in 0..MaxFailures /\ reloads \in 0..MaxReloads

(* However the people and the requests behave, a wizard makes one tenant;  *)
(* a second one takes a request that failed half-way (tenant.service.ts:31 *)
(* undoes nothing) or a tab loaded again.                                  *)
TenantsAreAccountedFor ==
    Len(tenants) <= Cardinality(Tab) + failures + reloads

(* A tenant that consented is whole: it has its owner and the log has its  *)
(* onboarding, although the four transactions of its creation can fail     *)
(* apart and the session that consents may come from another tab           *)
(* (tenant.service.ts:40).                                                 *)
ActiveIsComplete ==
    \A t \in DOMAIN tenants : tenants[t].consented => tenants[t].owner /\ tenants[t].onboarded

(* A consent the log does not know of, once its request is over, is a      *)
(* request that failed between its two transactions (tenant.service.ts:87).*)
UnloggedConsentsAreFailures ==
    Cardinality({t \in DOMAIN tenants :
        /\ tenants[t].consented /\ ~tenants[t].logged
        /\ \A k \in Tab : call[k] # [at |-> "consent entry", tenant |-> t]}) <= failures

(* A step of the wizard and its request keep together, although requests   *)
(* fail at any point and the session changes under them: the button is     *)
(* locked exactly while a request is under way, whose answer finds the     *)
(* step that sent it (onboarding/page.tsx:61, 74, 87).                     *)
LockedByRequest ==
    \A k \in Tab :
        /\ page[k].submitting <=> call[k].at # "none"
        /\ call[k].at \in {"tenant", "owner", "entry", "session"} => page[k].step = "business"
        /\ call[k].at \in {"consent", "consent entry"} => page[k].step = "consent"
=============================================================================
