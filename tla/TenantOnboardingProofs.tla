----------------------- MODULE TenantOnboardingProofs -----------------------
(***************************************************************************)
(* Theorems about TenantOnboarding, for any number of tabs, failures and   *)
(* reloads.                                                                *)
(***************************************************************************)
EXTENDS TenantOnboarding, FiniteSetTheorems, TLAPS

Row == [owner : BOOLEAN, onboarded : BOOLEAN, consented : BOOLEAN, logged : BOOLEAN]

PageState == [step : {"business", "connect-data", "consent", "left"},
              submitting : BOOLEAN, added : BOOLEAN]

At == {"none", "tenant", "owner", "entry", "session", "consent", "consent entry"}

Whole(T, t) == T[t].owner /\ T[t].onboarded

(* What a request on its way through POST /tenants knows of its tenant.    *)
Knows(T, c) ==
    /\ c.at \in {"owner", "entry", "session"} => c.tenant \in DOMAIN T
    /\ c.at = "entry" => T[c.tenant].owner
    /\ c.at = "session" => Whole(T, c.tenant)

(* Only a tenant that is whole has a session.                              *)
Known ==
    /\ \A k \in Tab : Knows(tenants, call[k])
    /\ session \in DOMAIN tenants => Whole(tenants, session)

IInv == TypeOK /\ Known /\ ActiveIsComplete

(* No step takes a tenant, its owner or its entry back.                    *)
Kept ==
    /\ tenants' \in Seq(Row)
    /\ Len(tenants) <= Len(tenants')
    /\ \A t \in DOMAIN tenants :
        /\ tenants[t].owner => tenants'[t].owner
        /\ tenants[t].onboarded => tenants'[t].onboarded

-----------------------------------------------------------------------------

(* The wizard starts without tenants, session or requests.                 *)
LEMMA InvInit == Init => IInv
<1> SUFFICES ASSUME Init PROVE IInv
  OBVIOUS
<1>1. tenants = <<>> /\ Len(tenants) = 0 /\ DOMAIN tenants = {}
  BY DEF Init
<1>2. page \in [Tab -> PageState] /\ call \in [Tab -> [at : At, tenant : 0..Len(tenants)]]
  BY <1>1 DEF Init, FreshPage, NoCall, PageState, At
<1>3. failures \in 0..MaxFailures /\ reloads \in 0..MaxReloads
  BY OnboardingAssumption DEF Init, OnboardingAssumption
<1>4. tenants \in Seq(Row) /\ session \in DOMAIN tenants \cup {Demo, NULL}
  BY DEF Init
<1>5. TypeOK
  BY <1>2, <1>3, <1>4 DEF TypeOK, PageState, At, Row
<1>6. Known /\ ActiveIsComplete
  BY <1>1, OnboardingAssumption DEF Init, NoCall, Known, Knows, ActiveIsComplete, OnboardingAssumption
<1> QED
  BY <1>5, <1>6 DEF IInv

(* A step that keeps the tenants takes nothing from what a request knows.  *)
LEMMA KnowsKept ==
  ASSUME tenants \in Seq(Row), Kept, NEW c, Knows(tenants, c)
  PROVE  Knows(tenants', c)
<1>1. /\ DOMAIN tenants = 1..Len(tenants) /\ DOMAIN tenants' = 1..Len(tenants')
      /\ Len(tenants) \in Nat /\ Len(tenants') \in Nat
  BY DEF Kept
<1>2. DOMAIN tenants \subseteq DOMAIN tenants'
  BY <1>1 DEF Kept
<1> QED
  BY <1>2, Zenon DEF Knows, Kept, Whole

(* A step that keeps the tenants and the session, and whose request knows  *)
(* what it should.                                                         *)
LEMMA KeepsKnown ==
  ASSUME IInv, Kept, session' = session,
         NEW k \in Tab, \A l \in Tab \ {k} : call'[l] = call[l], Knows(tenants', call'[k])
  PROVE  Known'
<1>1. tenants \in Seq(Row) /\ Known
  BY DEF IInv, TypeOK, Row
<1>2. ASSUME NEW l \in Tab \ {k} PROVE Knows(tenants', call'[l])
  <2>1. Knows(tenants, call[l])
    BY <1>1 DEF Known
  <2> QED
    BY <2>1, <1>1, KnowsKept
<1>3. session' \in DOMAIN tenants' => Whole(tenants', session')
  <2>1. session \in DOMAIN tenants \cup {Demo, NULL}
    BY DEF IInv, TypeOK
  <2>2. DOMAIN tenants' = 1..Len(tenants') /\ Len(tenants') \in Nat
    BY DEF Kept
  <2>3. Demo \notin DOMAIN tenants' /\ NULL \notin DOMAIN tenants'
    BY <2>2, OnboardingAssumption DEF OnboardingAssumption
  <2>4. session' \in DOMAIN tenants' => session \in DOMAIN tenants
    BY <2>1, <2>3
  <2> QED
    BY <2>4, <1>1, Zenon DEF Known, Whole, Kept
<1> QED
  BY <1>2, <1>3 DEF Known

-----------------------------------------------------------------------------

(* What is there stays within its types while the tenants only grow.       *)
LEMMA KeepsType ==
  ASSUME TypeOK, Kept,
         session' \in DOMAIN tenants' \cup {Demo, NULL} \/ session' = session,
         NEW k \in Tab, NEW c \in [at : At, tenant : 0..Len(tenants')],
         call' = call \/ call' = [call EXCEPT ![k] = c],
         page' \in [Tab -> PageState],
         failures' \in 0..MaxFailures, reloads' \in 0..MaxReloads
  PROVE  TypeOK'
<1>0. /\ tenants \in Seq(Row) /\ tenants' \in Seq(Row) /\ Len(tenants) <= Len(tenants')
      /\ session \in DOMAIN tenants \cup {Demo, NULL}
  BY DEF Kept, TypeOK, Row
<1>1. /\ DOMAIN tenants = 1..Len(tenants) /\ DOMAIN tenants' = 1..Len(tenants')
      /\ Len(tenants) \in Nat /\ Len(tenants') \in Nat /\ Len(tenants) <= Len(tenants')
  BY <1>0
<1>d. DOMAIN tenants \subseteq DOMAIN tenants'
  BY <1>1
<1>2. session' \in DOMAIN tenants' \cup {Demo, NULL}
  BY <1>0, <1>d
<1>3. 0..Len(tenants) \subseteq 0..Len(tenants')
  BY <1>1
<1>4. call \in [Tab -> [at : At, tenant : 0..Len(tenants')]]
  BY <1>3 DEF TypeOK, At
<1>5. call' \in [Tab -> [at : At, tenant : 0..Len(tenants')]]
  BY <1>4
<1> QED
  BY <1>2, <1>5 DEF TypeOK, Kept, Row, At, PageState

(* Tenants that do not change are kept.                                    *)
LEMMA UnchangedKept ==
  ASSUME TypeOK, UNCHANGED tenants PROVE Kept
<1>1. tenants \in Seq(Row)
  BY DEF TypeOK, Row
<1>2. Len(tenants) \in Nat /\ Len(tenants) <= Len(tenants')
  BY <1>1
<1>3. \A t \in DOMAIN tenants : /\ tenants[t].owner => tenants'[t].owner
                                /\ tenants[t].onboarded => tenants'[t].onboarded
  BY Zenon
<1> QED
  BY <1>1, <1>2, <1>3 DEF Kept

(* One more tenant, without owner, entry or consent.                       *)
LEMMA CreateTenantKeeps ==
  ASSUME IInv, NEW k \in Tab, CreateTenant(k) PROVE IInv'
<1> DEFINE n == Len(tenants) + 1
           c == [at |-> "owner", tenant |-> n]
<1>0. tenants \in Seq(Row) /\ NewTenant \in Row
  BY DEF IInv, TypeOK, Row, NewTenant
<1>1. /\ tenants \in Seq(Row) /\ NewTenant \in Row /\ Len(tenants) \in Nat
      /\ tenants' = Append(tenants, NewTenant)
  BY <1>0 DEF CreateTenant
<1>2. /\ tenants' \in Seq(Row) /\ Len(tenants') = n /\ DOMAIN tenants' = 1..n
      /\ DOMAIN tenants = 1..Len(tenants)
      /\ \A t \in DOMAIN tenants : tenants'[t] = tenants[t]
      /\ tenants'[n] = NewTenant
  BY <1>1
<1>3. Kept
  BY <1>1, <1>2 DEF Kept
<1>4. call' = [call EXCEPT ![k] = c] /\ c \in [at : At, tenant : 0..Len(tenants')]
  BY <1>1, <1>2 DEF CreateTenant, At
<1>5. UNCHANGED <<session, page, failures, reloads>>
  BY DEF CreateTenant
<1> HIDE DEF c
<1>6. TypeOK'
  BY <1>3, <1>4, <1>5, KeepsType DEF IInv, TypeOK, PageState
<1>7. Known'
  <2>1. call'[k] = c /\ \A l \in Tab \ {k} : call'[l] = call[l]
    BY <1>4 DEF IInv, TypeOK
  <2>2. Knows(tenants', c)
    BY <1>1, <1>2 DEF Knows, c
  <2> QED
    BY <2>1, <2>2, <1>3, <1>5, KeepsKnown
<1>8. ActiveIsComplete'
  <2>1. ASSUME NEW t \in DOMAIN tenants', tenants'[t].consented
        PROVE  tenants'[t].owner /\ tenants'[t].onboarded
    <3>1. CASE t = n
      BY <3>1, <2>1, <1>2 DEF NewTenant
    <3>2. CASE t \in DOMAIN tenants
      BY <3>2, <2>1, <1>2 DEF IInv, ActiveIsComplete
    <3>3. t = n \/ t \in DOMAIN tenants
      BY <1>1, <1>2
    <3> QED
      BY <3>1, <3>2, <3>3
  <2> QED
    BY <2>1 DEF ActiveIsComplete
<1> QED
  BY <1>6, <1>7, <1>8 DEF IInv

(* The flags of one tenant are set.                                        *)
LEMMA SetKept ==
  ASSUME TypeOK, NEW t \in DOMAIN tenants, NEW r \in Row,
         tenants' = [tenants EXCEPT ![t] = r],
         tenants[t].owner => r.owner, tenants[t].onboarded => r.onboarded
  PROVE  /\ Kept
         /\ DOMAIN tenants' = DOMAIN tenants /\ Len(tenants') = Len(tenants)
         /\ tenants'[t] = r
         /\ \A u \in DOMAIN tenants \ {t} : tenants'[u] = tenants[u]
<1>1. tenants \in Seq(Row)
  BY DEF TypeOK, Row
<1>2. tenants' \in Seq(Row) /\ Len(tenants') = Len(tenants) /\ DOMAIN tenants' = DOMAIN tenants
  BY <1>1
<1>3. tenants'[t] = r /\ \A u \in DOMAIN tenants \ {t} : tenants'[u] = tenants[u]
  BY <1>1
<1>4. Len(tenants) <= Len(tenants')
  BY <1>1, <1>2
<1>5. \A u \in DOMAIN tenants : /\ tenants[u].owner => tenants'[u].owner
                                /\ tenants[u].onboarded => tenants'[u].onboarded
  BY <1>3, Zenon
<1> QED
  BY <1>2, <1>3, <1>4, <1>5 DEF Kept

-----------------------------------------------------------------------------

(* A flag is set on one tenant, which stays whole if it has consented.     *)
LEMMA SetActive ==
  ASSUME IInv, NEW t \in DOMAIN tenants, NEW r \in Row,
         tenants' = [tenants EXCEPT ![t] = r],
         tenants[t].owner => r.owner, tenants[t].onboarded => r.onboarded,
         r.consented => r.owner /\ r.onboarded
  PROVE  ActiveIsComplete'
<1>0. TypeOK
  BY DEF IInv
<1>1. /\ DOMAIN tenants' = DOMAIN tenants /\ tenants'[t] = r
      /\ \A u \in DOMAIN tenants \ {t} : tenants'[u] = tenants[u]
  BY <1>0, SetKept
<1>2. ASSUME NEW u \in DOMAIN tenants', tenants'[u].consented
      PROVE  tenants'[u].owner /\ tenants'[u].onboarded
  <2>1. CASE u = t
    BY <2>1, <1>1, <1>2, Zenon
  <2>2. CASE u # t
    BY <2>2, <1>1, <1>2, Zenon DEF IInv, ActiveIsComplete
  <2> QED
    BY <2>1, <2>2
<1> QED
  BY <1>2 DEF ActiveIsComplete

(* A step of one request, which goes on as c and knows what it should.     *)
LEMMA RequestKeeps ==
  ASSUME IInv, Kept, ActiveIsComplete', session' = session,
         NEW k \in Tab, NEW c \in [at : At, tenant : 0..Len(tenants')],
         call' = [call EXCEPT ![k] = c], Knows(tenants', c),
         page' \in [Tab -> PageState],
         failures' \in 0..MaxFailures, reloads' \in 0..MaxReloads
  PROVE  IInv'
<1>1. TypeOK'
  BY KeepsType DEF IInv
<1>2. call'[k] = c /\ \A l \in Tab \ {k} : call'[l] = call[l]
  BY DEF IInv, TypeOK
<1>3. Known'
  BY <1>2, KeepsKnown
<1> QED
  BY <1>1, <1>3 DEF IInv

(* The owner of the tenant the request knows.                              *)
LEMMA CreateOwnerKeeps ==
  ASSUME IInv, NEW k \in Tab, CreateOwner(k) PROVE IInv'
<1> DEFINE t == call[k].tenant
           r == [tenants[t] EXCEPT !.owner = TRUE]
           c == [call[k] EXCEPT !.at = "entry"]
<1>1. tenants \in Seq(Row) /\ TypeOK
  BY DEF IInv, TypeOK, Row
<1>2. t \in DOMAIN tenants
  BY DEF IInv, Known, Knows, CreateOwner
<1>3. tenants[t] \in Row
  BY <1>1, <1>2
<1>4. /\ r \in Row /\ r.owner /\ r.onboarded = tenants[t].onboarded
      /\ r.consented = tenants[t].consented
  BY <1>3 DEF Row
<1>5. tenants' = [tenants EXCEPT ![t] = r]
  BY DEF CreateOwner
<1>6. r.consented => r.owner /\ r.onboarded
  BY <1>2, <1>4, Zenon DEF IInv, ActiveIsComplete
<1>7. c.at = "entry" /\ c.tenant = t /\ call' = [call EXCEPT ![k] = c]
      /\ c \in [at : At, tenant : 0..Len(tenants)]
  BY DEF CreateOwner, IInv, TypeOK, At
<1>8. page' \in [Tab -> PageState] /\ failures' \in 0..MaxFailures
      /\ reloads' \in 0..MaxReloads /\ session' = session
  BY <1>1 DEF CreateOwner, TypeOK, PageState
<1> HIDE DEF r, c, t
<1>9. /\ Kept /\ DOMAIN tenants' = DOMAIN tenants /\ Len(tenants') = Len(tenants)
      /\ tenants'[t] = r
  BY <1>1, <1>2, <1>4, <1>5, SetKept
<1>10. ActiveIsComplete'
  BY <1>2, <1>4, <1>5, <1>6, SetActive
<1>11. Knows(tenants', c)
  BY <1>2, <1>4, <1>7, <1>9 DEF Knows
<1> QED
  BY <1>7, <1>8, <1>9, <1>10, <1>11, RequestKeeps

(* The entry of a tenant that has its owner: from here on it is whole.     *)
LEMMA AuditOnboardedKeeps ==
  ASSUME IInv, NEW k \in Tab, AuditOnboarded(k) PROVE IInv'
<1> DEFINE t == call[k].tenant
           r == [tenants[t] EXCEPT !.onboarded = TRUE]
           c == [call[k] EXCEPT !.at = "session"]
<1>1. tenants \in Seq(Row) /\ TypeOK
  BY DEF IInv, TypeOK, Row
<1>2. t \in DOMAIN tenants /\ tenants[t].owner
  BY DEF IInv, Known, Knows, AuditOnboarded
<1>3. tenants[t] \in Row
  BY <1>1, <1>2
<1>4. r \in Row /\ r.owner /\ r.onboarded
  BY <1>2, <1>3 DEF Row
<1>5. tenants' = [tenants EXCEPT ![t] = r]
  BY DEF AuditOnboarded
<1>7. c.at = "session" /\ c.tenant = t /\ call' = [call EXCEPT ![k] = c]
      /\ c \in [at : At, tenant : 0..Len(tenants)]
  BY DEF AuditOnboarded, IInv, TypeOK, At
<1>8. page' \in [Tab -> PageState] /\ failures' \in 0..MaxFailures
      /\ reloads' \in 0..MaxReloads /\ session' = session
  BY <1>1 DEF AuditOnboarded, TypeOK, PageState
<1> HIDE DEF r, c, t
<1>9. /\ Kept /\ DOMAIN tenants' = DOMAIN tenants /\ Len(tenants') = Len(tenants)
      /\ tenants'[t] = r
  BY <1>1, <1>2, <1>4, <1>5, SetKept
<1>10. ActiveIsComplete'
  BY <1>2, <1>4, <1>5, SetActive
<1>11. Knows(tenants', c)
  BY <1>2, <1>4, <1>7, <1>9 DEF Knows, Whole
<1> QED
  BY <1>7, <1>8, <1>9, <1>10, <1>11, RequestKeeps

(* The session's tenant is whole when it consents, whoever created it.     *)
LEMMA GrantConsentKeeps ==
  ASSUME IInv, NEW k \in Tab, GrantConsent(k) PROVE IInv'
<1> DEFINE c == [at |-> "consent entry", tenant |-> IF Own THEN session ELSE 0]
<1>1. tenants \in Seq(Row) /\ TypeOK
  BY DEF IInv, TypeOK, Row
<1>2. /\ DOMAIN tenants = 1..Len(tenants) /\ Len(tenants) \in Nat
  BY <1>1
<1>3. c \in [at : At, tenant : 0..Len(tenants)] /\ c.at = "consent entry"
  BY <1>2 DEF At, Own
<1>4. call' = [call EXCEPT ![k] = c] /\ session' = session
  BY DEF GrantConsent
<1>5. page' \in [Tab -> PageState] /\ failures' \in 0..MaxFailures
      /\ reloads' \in 0..MaxReloads
  BY <1>1 DEF GrantConsent, TypeOK, PageState
<1>6. Kept /\ ActiveIsComplete' /\ Len(tenants') = Len(tenants)
  <2>1. CASE Own
    <3> DEFINE r == [tenants[session] EXCEPT !.consented = TRUE]
    <3>1. session \in DOMAIN tenants /\ tenants[session].owner /\ tenants[session].onboarded
      BY <2>1 DEF Own, IInv, Known, Whole
    <3>2. tenants[session] \in Row
      BY <3>1, <1>1
    <3>3. r \in Row /\ r.owner /\ r.onboarded
      BY <3>1, <3>2 DEF Row
    <3>4. tenants' = [tenants EXCEPT ![session] = r]
      BY <2>1 DEF GrantConsent, Consented
    <3> HIDE DEF r
    <3>5. Kept /\ Len(tenants') = Len(tenants)
      BY <1>1, <3>1, <3>3, <3>4, SetKept
    <3>6. ActiveIsComplete'
      BY <3>1, <3>3, <3>4, SetActive
    <3> QED
      BY <3>5, <3>6
  <2>2. CASE ~Own
    <3>1. tenants' = tenants
      BY <2>2 DEF GrantConsent, Consented
    <3>2. Kept
      BY <3>1, <1>1, UnchangedKept
    <3> QED
      BY <3>1, <3>2, Zenon DEF IInv, ActiveIsComplete
  <2> QED
    BY <2>1, <2>2
<1> HIDE DEF c
<1>7. Knows(tenants', c)
  BY <1>3 DEF Knows
<1> QED
  BY <1>3, <1>4, <1>5, <1>6, <1>7, RequestKeeps

(* The entry of a consent changes no flag the invariant reads.             *)
LEMMA AuditConsentKeeps ==
  ASSUME IInv, NEW k \in Tab, AuditConsent(k) PROVE IInv'
<1> DEFINE t == call[k].tenant
<1>1. tenants \in Seq(Row) /\ TypeOK
  BY DEF IInv, TypeOK, Row
<1>2. /\ DOMAIN tenants = 1..Len(tenants) /\ Len(tenants) \in Nat
      /\ t \in 0..Len(tenants)
  <2>1. DOMAIN tenants = 1..Len(tenants) /\ Len(tenants) \in Nat
    BY <1>1
  <2>2. call \in [Tab -> [at : At, tenant : 0..Len(tenants)]]
    BY <1>1 DEF TypeOK, At
  <2> QED
    BY <2>1, <2>2
<1>3. call' = [call EXCEPT ![k] = NoCall] /\ session' = session /\ NoCall.at = "none"
  BY DEF AuditConsent, NoCall
<1>4. page' \in [Tab -> PageState] /\ failures' \in 0..MaxFailures
      /\ reloads' \in 0..MaxReloads
  BY <1>1 DEF AuditConsent, TypeOK, PageState
<1>5. Kept /\ ActiveIsComplete' /\ Len(tenants') = Len(tenants)
  <2>1. CASE t # 0
    <3> DEFINE r == [tenants[t] EXCEPT !.logged = TRUE]
    <3>1. t \in DOMAIN tenants
      BY <2>1, <1>2
    <3>2. tenants[t] \in Row
      BY <3>1, <1>1
    <3>3. /\ r \in Row /\ r.owner = tenants[t].owner /\ r.onboarded = tenants[t].onboarded
          /\ r.consented = tenants[t].consented
      BY <3>2 DEF Row
    <3>4. tenants' = [tenants EXCEPT ![t] = r]
      BY <2>1 DEF AuditConsent
    <3> HIDE DEF r, t
    <3>5. Kept /\ Len(tenants') = Len(tenants)
      BY <1>1, <3>1, <3>3, <3>4, SetKept
    <3>6. r.consented => r.owner /\ r.onboarded
      BY <3>1, <3>3, Zenon DEF IInv, ActiveIsComplete
    <3>7. ActiveIsComplete'
      BY <3>1, <3>3, <3>4, <3>6, SetActive
    <3> QED
      BY <3>5, <3>7
  <2>2. CASE t = 0
    <3>1. tenants' = tenants
      BY <2>2 DEF AuditConsent
    <3>2. Kept
      BY <3>1, <1>1, UnchangedKept
    <3> QED
      BY <3>1, <3>2, Zenon DEF IInv, ActiveIsComplete
  <2> QED
    BY <2>1, <2>2
<1>6. NoCall \in [at : At, tenant : 0..Len(tenants')] /\ Knows(tenants', NoCall)
  BY <1>2, <1>5 DEF NoCall, At, Knows
<1> QED
  BY <1>3, <1>4, <1>5, <1>6, RequestKeeps

(* A step that leaves the tenants alone and whose session, if it changes,  *)
(* is none, the demonstration or a whole tenant.                           *)
LEMMA QuietKeeps ==
  ASSUME IInv, UNCHANGED tenants,
         \/ session' \in {session, Demo, NULL}
         \/ session' \in DOMAIN tenants /\ Whole(tenants, session'),
         NEW k \in Tab, NEW c \in {call[k], NoCall, [at |-> "tenant", tenant |-> 0],
                                  [at |-> "consent", tenant |-> 0]},
         call' = [call EXCEPT ![k] = c],
         page' \in [Tab -> PageState],
         failures' \in 0..MaxFailures, reloads' \in 0..MaxReloads
  PROVE  IInv'
<1>1. tenants \in Seq(Row) /\ TypeOK /\ Kept
  BY UnchangedKept DEF IInv, TypeOK, Row
<1>2. Len(tenants) \in Nat /\ DOMAIN tenants = 1..Len(tenants) /\ tenants' = tenants
  BY <1>1
<1>3. call[k] \in [at : At, tenant : 0..Len(tenants)] /\ Knows(tenants, call[k])
  BY <1>1 DEF TypeOK, At, IInv, Known
<1>4. c \in [at : At, tenant : 0..Len(tenants)] /\ Knows(tenants, c)
  <2>1. ASSUME NEW a \in {"none", "tenant", "consent"}, c = [at |-> a, tenant |-> 0]
        PROVE  c \in [at : At, tenant : 0..Len(tenants)] /\ Knows(tenants, c)
    <3>0. c.at = a
      BY <2>1
    <3>1. c.at \notin {"owner", "entry", "session"} /\ a \in At
      BY <3>0 DEF At
    <3>3. 0 \in 0..Len(tenants)
      BY <1>2
    <3>2. Knows(tenants, c)
      BY <3>1 DEF Knows
    <3> QED
      BY <2>1, <3>1, <3>2, <3>3
  <2> QED
    BY <2>1, <1>3, Zenon DEF NoCall
<1>5. session' \in DOMAIN tenants' \cup {Demo, NULL}
  BY <1>1, <1>2 DEF TypeOK
<1>6. TypeOK'
  BY <1>1, <1>2, <1>4, <1>5, KeepsType
<1>7. \A l \in Tab : Knows(tenants, call'[l])
  BY <1>1, <1>4 DEF IInv, Known, TypeOK
<1>8. session' \in DOMAIN tenants => Whole(tenants, session')
  <2>1. Demo \notin DOMAIN tenants /\ NULL \notin DOMAIN tenants
    BY <1>2, OnboardingAssumption DEF OnboardingAssumption
  <2> QED
    BY <2>1 DEF IInv, Known
<1>9. Known'
  BY <1>2, <1>7, <1>8, Zenon DEF Known
<1>10. ActiveIsComplete'
  BY <1>2, Zenon DEF IInv, ActiveIsComplete
<1> QED
  BY <1>6, <1>9, <1>10 DEF IInv

(* The session goes to the tenant the request has completed.               *)
LEMMA SignInKeeps ==
  ASSUME IInv, NEW k \in Tab, SignIn(k) \/ CallFails(k) PROVE IInv'
<1>1. TypeOK
  BY DEF IInv
<1>2. call' = [call EXCEPT ![k] = NoCall] /\ UNCHANGED tenants
  BY DEF SignIn, CallFails
<1>3. page' \in [Tab -> PageState]
  <2>1. page \in [Tab -> PageState]
    BY <1>1 DEF TypeOK, PageState
  <2>2. CASE SignIn(k)
    BY <2>1, <2>2 DEF SignIn, PageState
  <2>3. CASE CallFails(k)
    BY <2>1, <2>3 DEF CallFails, PageState
  <2> QED
    BY <2>2, <2>3
<1>4. failures' \in 0..MaxFailures /\ reloads' \in 0..MaxReloads
  <2>1. failures \in 0..MaxFailures /\ reloads' \in 0..MaxReloads
    BY <1>1 DEF TypeOK, SignIn, CallFails
  <2>2. failures' = failures \/ (failures < MaxFailures /\ failures' = failures + 1)
    BY DEF SignIn, CallFails, Failure
  <2> QED
    BY <2>1, <2>2, OnboardingAssumption DEF OnboardingAssumption
<1>5. \/ session' = session
      \/ session' \in DOMAIN tenants /\ Whole(tenants, session')
  BY DEF SignIn, CallFails, IInv, Known, Knows
<1> QED
  BY <1>2, <1>3, <1>4, <1>5, QuietKeeps

(* What people do in a tab, and the answer 401, touch no tenant.           *)
LEMMA TabKeeps ==
  ASSUME IInv, NEW k \in Tab,
         \/ RefuseConsent(k) \/ Reload(k) \/ SubmitBusiness(k) \/ AddStock(k)
         \/ Continue(k) \/ SubmitConsent(k) \/ NotRightNow(k)
  PROVE  IInv'
<1>1. TypeOK
  BY DEF IInv
<1>2. UNCHANGED <<tenants, session>>
  BY DEF RefuseConsent, Reload, SubmitBusiness, AddStock, Continue, SubmitConsent, NotRightNow
<1>3. page' \in [Tab -> PageState]
  <2>1. page \in [Tab -> PageState]
    BY <1>1 DEF TypeOK, PageState
  <2>2. CASE Reload(k)
    BY <2>1, <2>2 DEF Reload, PageState, FreshPage
  <2>3. CASE RefuseConsent(k) \/ SubmitBusiness(k) \/ SubmitConsent(k)
    BY <2>1, <2>3 DEF RefuseConsent, SubmitBusiness, SubmitConsent, PageState
  <2>4. CASE AddStock(k)
    BY <2>1, <2>4 DEF AddStock, PageState
  <2>5. CASE Continue(k) \/ NotRightNow(k)
    BY <2>1, <2>5 DEF Continue, NotRightNow, PageState
  <2> QED
    BY <2>2, <2>3, <2>4, <2>5
<1>4. failures' \in 0..MaxFailures /\ reloads' \in 0..MaxReloads
  <2>1. failures \in 0..MaxFailures /\ reloads \in 0..MaxReloads
    BY <1>1 DEF TypeOK
  <2>2. failures' = failures
    BY DEF RefuseConsent, Reload, SubmitBusiness, AddStock, Continue, SubmitConsent, NotRightNow
  <2>3. reloads' = reloads \/ (reloads < MaxReloads /\ reloads' = reloads + 1)
    BY DEF RefuseConsent, Reload, SubmitBusiness, AddStock, Continue, SubmitConsent, NotRightNow
  <2> QED
    BY <2>1, <2>2, <2>3, OnboardingAssumption DEF OnboardingAssumption
<1>5. PICK c \in {call[k], NoCall, [at |-> "tenant", tenant |-> 0],
                 [at |-> "consent", tenant |-> 0]} : call' = [call EXCEPT ![k] = c]
  BY <1>1 DEF RefuseConsent, Reload, SubmitBusiness, AddStock, Continue, SubmitConsent,
              NotRightNow, TypeOK
<1> QED
  BY <1>2, <1>3, <1>4, <1>5, QuietKeeps

(* The demonstration, or no session at all.                                *)
LEMMA SessionKeeps ==
  ASSUME IInv, DemoLogin \/ SessionEnds \/ UNCHANGED vars PROVE IInv'
<1>1. TypeOK
  BY DEF IInv
<1>2. UNCHANGED <<tenants, page, call, failures, reloads>> /\ session' \in {session, Demo, NULL}
  BY DEF DemoLogin, SessionEnds, vars
<1>3. session' \in DOMAIN tenants' \cup {Demo, NULL}
  BY <1>1, <1>2 DEF TypeOK
<1>4. TypeOK'
  BY <1>1, <1>2, <1>3 DEF TypeOK
<1>5. tenants \in Seq(Row)
  BY <1>1 DEF TypeOK, Row
<1>6. Demo \notin DOMAIN tenants /\ NULL \notin DOMAIN tenants
  BY <1>5, OnboardingAssumption DEF OnboardingAssumption
<1>7. Known' /\ ActiveIsComplete'
  BY <1>2, <1>6, Zenon DEF IInv, Known, ActiveIsComplete
<1> QED
  BY <1>4, <1>7 DEF IInv

(* Every step keeps the invariant.                                         *)
LEMMA InvNext == IInv /\ [Next]_vars => IInv'
<1> SUFFICES ASSUME IInv, [Next]_vars PROVE IInv'
  OBVIOUS
<1>1. ASSUME NEW k \in Tab, Serve(k) PROVE IInv'
  BY <1>1, CreateTenantKeeps, CreateOwnerKeeps, AuditOnboardedKeeps, SignInKeeps, TabKeeps,
     GrantConsentKeeps, AuditConsentKeeps DEF Serve
<1>2. ASSUME NEW k \in Tab,
             \/ CallFails(k) \/ Reload(k) \/ SubmitBusiness(k) \/ AddStock(k)
             \/ Continue(k) \/ SubmitConsent(k) \/ NotRightNow(k)
      PROVE  IInv'
  BY <1>2, SignInKeeps, TabKeeps
<1>3. ASSUME DemoLogin \/ SessionEnds \/ UNCHANGED vars PROVE IInv'
  BY <1>3, SessionKeeps
<1> QED
  BY <1>1, <1>2, <1>3 DEF Next

-----------------------------------------------------------------------------
(* Counting tenants                                                        *)

CallState == [at : At, tenant : 0..Len(tenants)]

(* The wizard and its request go together: the button is disabled while a  *)
(* request is under way, and the step stays the one that sent it.          *)
Paced(k) ==
    /\ page[k].submitting <=> call[k].at # "none"
    /\ call[k].at \in {"tenant", "owner", "entry", "session"} => page[k].step = "business"
    /\ call[k].at \in {"consent", "consent entry"} => page[k].step = "consent"

InStep == \A k \in Tab : Paced(k)

(* The tabs that have yet to create their tenant.                          *)
Opening == {k \in Tab : page[k].step = "business" /\ call[k].at \in {"none", "tenant"}}

(* The tenants there are and those to come.                                *)
TenantBudget == Len(tenants) + Cardinality(Opening) <= Cardinality(Tab) + failures + reloads

(* What a step of a tab does to the wizard, and what it costs.             *)
Costs(k) ==
    /\ \A l \in Tab \ {k} : page'[l] = page[l] /\ call'[l] = call[l]
    /\ Paced(k)'
    /\ \/ /\ Len(tenants') = Len(tenants) + 1 /\ k \in Opening /\ k \notin Opening'
          /\ UNCHANGED <<failures, reloads>>
       \/ /\ Len(tenants') = Len(tenants) /\ (k \in Opening' => k \in Opening)
          /\ UNCHANGED <<failures, reloads>>
       \/ /\ Len(tenants') = Len(tenants)
          /\ \/ failures' = failures + 1 /\ reloads' = reloads
             \/ failures' = failures /\ reloads' = reloads + 1

(* The types the following lemmas use.                                     *)
LEMMA Typed ==
  ASSUME TypeOK
  PROVE  /\ tenants \in Seq(Row) /\ Len(tenants) \in Nat
         /\ DOMAIN tenants = 1..Len(tenants)
         /\ page \in [Tab -> PageState] /\ call \in [Tab -> CallState]
         /\ failures \in Nat /\ reloads \in Nat
<1>1. tenants \in Seq(Row)
  BY DEF TypeOK, Row
<1>2. page \in [Tab -> PageState] /\ call \in [Tab -> CallState]
  BY DEF TypeOK, PageState, CallState, At
<1>3. failures \in 0..MaxFailures /\ reloads \in 0..MaxReloads
  BY DEF TypeOK
<1>4. MaxFailures \in Nat /\ MaxReloads \in Nat
  BY OnboardingAssumption DEF OnboardingAssumption
<1>5. failures \in Nat /\ reloads \in Nat
  BY <1>3, <1>4
<1> QED
  BY <1>1, <1>2, <1>5

(* Only POST /tenants makes a tenant, and only once for a page.            *)
LEMMA TenantCosts ==
  ASSUME TypeOK, InStep, NEW k \in Tab,
         CreateTenant(k) \/ CreateOwner(k) \/ AuditOnboarded(k) \/ SignIn(k)
  PROVE  Costs(k)
<1>1. /\ tenants \in Seq(Row) /\ Len(tenants) \in Nat
      /\ page \in [Tab -> PageState] /\ call \in [Tab -> CallState] /\ Paced(k)
  BY Typed DEF InStep
<1>2. UNCHANGED <<failures, reloads>> /\ page[k].step = "business" /\ page[k].submitting
  BY <1>1 DEF CreateTenant, CreateOwner, AuditOnboarded, SignIn, Paced
<1>3. CASE CreateTenant(k)
  <2>1. Len(tenants') = Len(tenants) + 1
    BY <1>1, <1>3 DEF CreateTenant
  <2>2. /\ page' = page /\ call'[k].at = "owner" /\ k \in Opening
        /\ \A l \in Tab \ {k} : call'[l] = call[l]
    BY <1>1, <1>2, <1>3 DEF CreateTenant, Opening
  <2> QED
    BY <1>2, <2>1, <2>2 DEF Costs, Opening, Paced
<1>4. CASE CreateOwner(k) \/ AuditOnboarded(k)
  <2>1. Len(tenants') = Len(tenants)
    BY <1>1, <1>4 DEF CreateOwner, AuditOnboarded
  <2>2. /\ page' = page /\ call'[k].at \in {"entry", "session"}
        /\ \A l \in Tab \ {k} : call'[l] = call[l]
    BY <1>1, <1>4 DEF CreateOwner, AuditOnboarded, CallState
  <2> QED
    BY <1>2, <2>1, <2>2 DEF Costs, Opening, Paced
<1>5. CASE SignIn(k)
  <2>1. /\ tenants' = tenants /\ call'[k].at = "none" /\ page'[k].step = "connect-data"
        /\ ~page'[k].submitting
        /\ \A l \in Tab \ {k} : page'[l] = page[l] /\ call'[l] = call[l]
    BY <1>1, <1>5 DEF SignIn, NoCall, PageState
  <2> QED
    BY <1>2, <2>1 DEF Costs, Opening, Paced
<1> QED
  BY <1>3, <1>4, <1>5

(* Consent makes no tenant and leads no page back to the first step.       *)
LEMMA ConsentCosts ==
  ASSUME TypeOK, InStep, NEW k \in Tab,
         RefuseConsent(k) \/ GrantConsent(k) \/ AuditConsent(k)
  PROVE  Costs(k)
<1>1. /\ tenants \in Seq(Row) /\ Len(tenants) \in Nat
      /\ page \in [Tab -> PageState] /\ call \in [Tab -> CallState] /\ Paced(k)
  BY Typed DEF InStep
<1>2. UNCHANGED <<failures, reloads>> /\ page[k].step = "consent" /\ page[k].submitting
  BY <1>1 DEF RefuseConsent, GrantConsent, AuditConsent, Paced
<1>3. CASE RefuseConsent(k)
  <2>1. tenants' = tenants /\ call'[k].at = "none" /\ page'[k].step = "consent"
      /\ ~page'[k].submitting
    BY <1>1, <1>2, <1>3 DEF RefuseConsent, NoCall, PageState
  <2>2. \A l \in Tab \ {k} : page'[l] = page[l] /\ call'[l] = call[l]
    BY <1>1, <1>3 DEF RefuseConsent
  <2> QED
    BY <1>2, <2>1, <2>2 DEF Costs, Opening, Paced
<1>4. CASE GrantConsent(k)
  <2>1. Len(tenants') = Len(tenants)
    <3>1. tenants' = tenants \/ (Own /\ tenants' = [tenants EXCEPT ![session].consented = TRUE])
      BY <1>4 DEF GrantConsent, Consented
    <3> QED
      BY <1>1, <3>1
  <2>2. call'[k].at = "consent entry" /\ page' = page
    BY <1>1, <1>4 DEF GrantConsent
  <2>3. \A l \in Tab \ {k} : call'[l] = call[l]
    BY <1>1, <1>4 DEF GrantConsent
  <2> QED
    BY <1>2, <2>1, <2>2, <2>3 DEF Costs, Opening, Paced
<1>5. CASE AuditConsent(k)
  <2>1. Len(tenants') = Len(tenants)
    <3>1. \/ tenants' = tenants
          \/ tenants' = [tenants EXCEPT ![call[k].tenant].logged = TRUE]
      BY <1>5 DEF AuditConsent
    <3> QED
      BY <1>1, <3>1
  <2>2. call'[k].at = "none" /\ page'[k].step = "left"
      /\ ~page'[k].submitting
    BY <1>1, <1>5 DEF AuditConsent, NoCall, PageState
  <2>3. \A l \in Tab \ {k} : page'[l] = page[l] /\ call'[l] = call[l]
    BY <1>1, <1>5 DEF AuditConsent
  <2> QED
    BY <1>2, <2>1, <2>2, <2>3 DEF Costs, Opening, Paced
<1> QED
  BY <1>3, <1>4, <1>5

(* A page that asks again pays for it with a failure or a reload.          *)
LEMMA TabCosts ==
  ASSUME TypeOK, InStep, NEW k \in Tab,
         \/ CallFails(k) \/ Reload(k) \/ SubmitBusiness(k) \/ AddStock(k)
         \/ Continue(k) \/ SubmitConsent(k) \/ NotRightNow(k)
  PROVE  Costs(k)
<1>1. page \in [Tab -> PageState] /\ call \in [Tab -> CallState] /\ Paced(k)
  BY Typed DEF InStep
<1>2. tenants' = tenants
  BY DEF CallFails, Reload, SubmitBusiness, AddStock, Continue, SubmitConsent, NotRightNow
<1>3. CASE CallFails(k)
  <2>1. /\ failures' = failures + 1 /\ reloads' = reloads /\ call'[k].at = "none"
        /\ ~page'[k].submitting
        /\ \A l \in Tab \ {k} : page'[l] = page[l] /\ call'[l] = call[l]
    BY <1>1, <1>3 DEF CallFails, Failure, NoCall, PageState
  <2> QED
    BY <1>2, <2>1 DEF Costs, Paced
<1>4. CASE Reload(k)
  <2>1. /\ failures' = failures /\ reloads' = reloads + 1 /\ call' = call
        /\ call[k].at = "none" /\ ~page'[k].submitting
        /\ \A l \in Tab \ {k} : page'[l] = page[l]
    BY <1>1, <1>4 DEF Reload, FreshPage
  <2> QED
    BY <1>2, <2>1 DEF Costs, Paced
<1>5. CASE SubmitBusiness(k)
  <2>1. /\ UNCHANGED <<failures, reloads>> /\ page[k].step = "business" /\ call[k].at = "none"
        /\ page'[k].step = "business" /\ page'[k].submitting /\ call'[k].at = "tenant"
        /\ \A l \in Tab \ {k} : page'[l] = page[l] /\ call'[l] = call[l]
    BY <1>1, <1>5 DEF SubmitBusiness, BusinessForm, Paced, PageState
  <2> QED
    BY <1>2, <2>1 DEF Costs, Paced, Opening
<1>6. CASE SubmitConsent(k)
  <2>1. /\ UNCHANGED <<failures, reloads>>
        /\ page'[k].step = "consent" /\ page'[k].submitting /\ call'[k].at = "consent"
        /\ \A l \in Tab \ {k} : page'[l] = page[l] /\ call'[l] = call[l]
    BY <1>1, <1>6 DEF SubmitConsent, ConsentCard, PageState
  <2> QED
    BY <1>2, <2>1 DEF Costs, Paced, Opening
<1>7. CASE AddStock(k) \/ Continue(k) \/ NotRightNow(k)
  <2>1. call[k].at = "none" /\ page'[k].submitting = page[k].submitting
    BY <1>1, <1>7 DEF AddStock, Continue, NotRightNow, StockForms, ConsentCard, Paced,
                      PageState, CallState, At
  <2>2. /\ UNCHANGED <<failures, reloads>> /\ call' = call /\ page'[k].step # "business"
        /\ \A l \in Tab \ {k} : page'[l] = page[l]
    BY <1>1, <1>7 DEF AddStock, Continue, NotRightNow, StockForms, PageState
  <2> QED
    BY <1>1, <1>2, <2>1, <2>2 DEF Costs, Paced, Opening
<1> QED
  BY <1>3, <1>4, <1>5, <1>6, <1>7

(* There are finitely many tabs, so finitely many that open a business.    *)
LEMMA OpeningFinite ==
  /\ IsFiniteSet(Opening) /\ Cardinality(Opening) \in Nat
  /\ IsFiniteSet(Opening') /\ Cardinality(Opening') \in Nat
  /\ Cardinality(Tab) \in Nat /\ Cardinality(Opening) <= Cardinality(Tab)
<1>1. IsFiniteSet(Tab) /\ Opening \subseteq Tab /\ Opening' \subseteq Tab
  BY OnboardingAssumption DEF OnboardingAssumption, Opening
<1> QED
  BY <1>1, FS_Subset, FS_CardinalityType

(* A step that costs what it should stays within the budget.               *)
LEMMA CostsKeep ==
  ASSUME TypeOK, InStep, TenantBudget, NEW k \in Tab, Costs(k)
  PROVE  InStep' /\ TenantBudget'
<1>1. InStep'
  BY Zenon DEF InStep, Costs, Paced
<1>2. \A l \in Tab \ {k} : l \in Opening' <=> l \in Opening
  BY Zenon DEF Costs, Opening
<1>3. Opening' \subseteq Tab /\ Opening \subseteq Tab
  BY DEF Opening
<1>4. /\ Cardinality(Opening' \ {k}) = Cardinality(Opening \ {k})
      /\ Cardinality(Opening \ {k}) = IF k \in Opening THEN Cardinality(Opening) - 1
                                                       ELSE Cardinality(Opening)
      /\ Cardinality(Opening' \ {k}) = IF k \in Opening' THEN Cardinality(Opening') - 1
                                                         ELSE Cardinality(Opening')
  <2>1. Opening' \ {k} = Opening \ {k}
    BY <1>2, <1>3
  <2> QED
    BY <2>1, OpeningFinite, FS_RemoveElement
<1> DEFINE n == Cardinality(Opening)
           m == Cardinality(Opening')
           b == Cardinality(Tab)
<1>5. n \in Nat /\ m \in Nat /\ b \in Nat
  BY OpeningFinite
<1>6. /\ Len(tenants) \in Nat /\ failures \in Nat /\ reloads \in Nat
      /\ Len(tenants) + n <= b + failures + reloads
  BY Typed DEF TenantBudget
<1>7. \/ /\ Len(tenants') = Len(tenants) + 1 /\ m = n - 1
         /\ failures' = failures /\ reloads' = reloads
      \/ /\ Len(tenants') = Len(tenants) /\ m <= n
         /\ failures' = failures /\ reloads' = reloads
      \/ /\ Len(tenants') = Len(tenants) /\ m <= n + 1
         /\ \/ failures' = failures + 1 /\ reloads' = reloads
            \/ failures' = failures /\ reloads' = reloads + 1
  BY <1>4, <1>5 DEF Costs
<1> HIDE DEF n, m, b
<1>8. Len(tenants') + m <= b + failures' + reloads'
  BY <1>5, <1>6, <1>7
<1> QED
  BY <1>1, <1>8 DEF TenantBudget, m, b

LEMMA BudgetInit == Init => InStep /\ TenantBudget
<1> SUFFICES ASSUME Init PROVE InStep /\ TenantBudget
  OBVIOUS
<1>1. InStep
  BY DEF Init, InStep, Paced, NoCall, FreshPage
<1>2. Len(tenants) = 0 /\ failures = 0 /\ reloads = 0
  BY DEF Init
<1>3. TenantBudget
  BY <1>2, OpeningFinite DEF TenantBudget
<1> QED
  BY <1>1, <1>3

LEMMA BudgetStep == TypeOK /\ InStep /\ TenantBudget /\ [Next]_vars => InStep' /\ TenantBudget'
<1> SUFFICES ASSUME TypeOK, InStep, TenantBudget, [Next]_vars PROVE InStep' /\ TenantBudget'
  OBVIOUS
<1>1. ASSUME NEW k \in Tab,
             \/ Serve(k) \/ CallFails(k) \/ Reload(k) \/ SubmitBusiness(k) \/ AddStock(k)
             \/ Continue(k) \/ SubmitConsent(k) \/ NotRightNow(k)
      PROVE  InStep' /\ TenantBudget'
  <2>1. Costs(k)
    BY <1>1, TenantCosts, ConsentCosts, TabCosts DEF Serve
  <2> QED
    BY <2>1, CostsKeep
<1>2. ASSUME DemoLogin \/ SessionEnds \/ UNCHANGED vars PROVE InStep' /\ TenantBudget'
  <2>1. UNCHANGED <<tenants, page, call, failures, reloads>>
    BY <1>2 DEF DemoLogin, SessionEnds, vars
  <2>2. InStep' /\ Opening' = Opening
    BY <2>1 DEF InStep, Paced, Opening
  <2> QED
    BY <2>1, <2>2 DEF TenantBudget
<1> QED
  BY <1>1, <1>2 DEF Next

-----------------------------------------------------------------------------
(* Counting consents                                                       *)

Entry(t) == [at |-> "consent entry", tenant |-> t]

(* The tenants whose consent has no entry and will not get one.            *)
Forgotten ==
    {t \in DOMAIN tenants : /\ tenants[t].consented /\ ~tenants[t].logged
                            /\ \A k \in Tab : call[k] # Entry(t)}

ConsentBudget == Cardinality(Forgotten) <= failures

(* What an entry says.                                                     *)
LEMMA EntryFields ==
  \A t : Entry(t).at = "consent entry" /\ Entry(t).tenant = t
  BY DEF Entry

(* Finitely many tenants, so finitely many forgotten.                      *)
LEMMA ForgottenFinite ==
  ASSUME TypeOK PROVE IsFiniteSet(Forgotten) /\ Cardinality(Forgotten) \in Nat
<1>1. Forgotten \subseteq 1..Len(tenants) /\ Len(tenants) \in Nat
  BY Typed DEF Forgotten
<1>2. IsFiniteSet(1..Len(tenants))
  BY <1>1, FS_Interval
<1> QED
  BY <1>1, <1>2, FS_Subset, FS_CardinalityType

(* Nothing is forgotten in a step of k that consents only for a tenant     *)
(* whose entry k goes on to write, and gives up no entry it has to write.  *)
LEMMA ForgetsNone ==
  ASSUME TypeOK, ConsentBudget, NEW k \in Tab, failures' = failures,
         \A l \in Tab \ {k} : call'[l] = call[l],
         \A t \in DOMAIN tenants' : tenants'[t].consented /\ ~tenants'[t].logged =>
            /\ \/ call'[k] = Entry(t)
               \/ t \in DOMAIN tenants /\ tenants[t].consented /\ ~tenants[t].logged
            /\ call[k] = Entry(t) => call'[k] = Entry(t)
  PROVE  ConsentBudget'
<1>1. Forgotten' \subseteq Forgotten
  BY Zenon DEF Forgotten
<1>2. Cardinality(Forgotten') <= Cardinality(Forgotten) /\ Cardinality(Forgotten') \in Nat
  BY <1>1, ForgottenFinite, FS_Subset, FS_CardinalityType
<1> QED
  BY <1>2, ForgottenFinite, Typed DEF ConsentBudget

(* A request on its way through POST /tenants sets neither flag.           *)
LEMMA TenantRemembers ==
  ASSUME IInv, ConsentBudget, NEW k \in Tab,
         CreateTenant(k) \/ CreateOwner(k) \/ AuditOnboarded(k)
  PROVE  ConsentBudget'
<1>0. /\ TypeOK /\ tenants \in Seq(Row) /\ Len(tenants) \in Nat
      /\ DOMAIN tenants = 1..Len(tenants) /\ call \in [Tab -> CallState]
  BY Typed DEF IInv
<1>1. /\ failures' = failures /\ \A l \in Tab \ {k} : call'[l] = call[l]
      /\ call[k].at # "consent entry"
  BY <1>0 DEF CreateTenant, CreateOwner, AuditOnboarded
<1>2. \A t : call[k] # Entry(t)
  BY <1>1, EntryFields
<1>3. \A t \in DOMAIN tenants' : tenants'[t].consented /\ ~tenants'[t].logged =>
         t \in DOMAIN tenants /\ tenants[t].consented /\ ~tenants[t].logged
  <2>1. CASE CreateTenant(k)
    <3>1. /\ tenants' = Append(tenants, NewTenant) /\ NewTenant \in Row /\ ~NewTenant.consented
      BY <2>1 DEF CreateTenant, NewTenant, Row
    <3>2. /\ DOMAIN tenants' = 1..(Len(tenants) + 1)
          /\ tenants'[Len(tenants) + 1] = NewTenant
          /\ \A t \in DOMAIN tenants : tenants'[t] = tenants[t]
      BY <1>0, <3>1
    <3> QED
      BY <1>0, <3>1, <3>2
  <2>2. CASE CreateOwner(k) \/ AuditOnboarded(k)
    <3> DEFINE n == call[k].tenant
    <3>1. n \in DOMAIN tenants
      BY <2>2 DEF IInv, Known, Knows, CreateOwner, AuditOnboarded
    <3>2. tenants[n] \in Row
      BY <3>1, <1>0
    <3>3. /\ DOMAIN tenants' = DOMAIN tenants
          /\ tenants'[n].consented = tenants[n].consented
          /\ tenants'[n].logged = tenants[n].logged
          /\ \A t \in DOMAIN tenants \ {n} : tenants'[t] = tenants[t]
      BY <1>0, <2>2, <3>1, <3>2 DEF CreateOwner, AuditOnboarded, Row
    <3> QED
      BY <3>3
  <2> QED
    BY <2>1, <2>2
<1> QED
  BY <1>0, <1>1, <1>2, <1>3, ForgetsNone

(* A consent that is granted is the caller's to log.                       *)
LEMMA GrantRemembers ==
  ASSUME IInv, ConsentBudget, NEW k \in Tab, GrantConsent(k)
  PROVE  ConsentBudget'
<1>0. /\ TypeOK /\ tenants \in Seq(Row) /\ call \in [Tab -> CallState]
  BY Typed DEF IInv
<1>1. /\ failures' = failures /\ \A l \in Tab \ {k} : call'[l] = call[l]
      /\ call[k].at = "consent"
  BY <1>0 DEF GrantConsent
<1>2. \A t : call[k] # Entry(t)
  BY <1>1, EntryFields
<1>3. \A t \in DOMAIN tenants' : tenants'[t].consented /\ ~tenants'[t].logged =>
         \/ call'[k] = Entry(t)
         \/ t \in DOMAIN tenants /\ tenants[t].consented /\ ~tenants[t].logged
  <2>1. CASE Own
    <3>1. call'[k] = Entry(session) /\ session \in DOMAIN tenants
      BY <1>0, <2>1 DEF GrantConsent, Entry, Own
    <3>2. /\ DOMAIN tenants' = DOMAIN tenants
          /\ \A t \in DOMAIN tenants \ {session} : tenants'[t] = tenants[t]
      BY <1>0, <2>1, <3>1 DEF GrantConsent, Consented
    <3> QED
      BY <3>1, <3>2
  <2>2. CASE ~Own
    BY <2>2 DEF GrantConsent, Consented
  <2> QED
    BY <2>1, <2>2
<1> QED
  BY <1>0, <1>1, <1>2, <1>3, ForgetsNone

(* The entry that is written is the one the request had to write.          *)
LEMMA AuditRemembers ==
  ASSUME IInv, ConsentBudget, NEW k \in Tab, AuditConsent(k)
  PROVE  ConsentBudget'
<1> DEFINE n == call[k].tenant
<1>0. /\ TypeOK /\ tenants \in Seq(Row) /\ Len(tenants) \in Nat
      /\ DOMAIN tenants = 1..Len(tenants) /\ call \in [Tab -> CallState]
  BY Typed DEF IInv
<1>1. failures' = failures /\ \A l \in Tab \ {k} : call'[l] = call[l]
  BY <1>0 DEF AuditConsent
<1>2. n \in 0..Len(tenants)
  BY <1>0 DEF CallState
<1>3. ASSUME NEW t \in DOMAIN tenants', tenants'[t].consented, ~tenants'[t].logged
      PROVE  /\ t \in DOMAIN tenants /\ tenants[t].consented /\ ~tenants[t].logged
             /\ call[k] # Entry(t)
  <2>1. CASE n = 0
    <3>1. tenants' = tenants
      BY <2>1 DEF AuditConsent
    <3>2. call[k] = Entry(t) => n = t
      BY EntryFields
    <3> QED
      BY <1>0, <1>3, <2>1, <3>1, <3>2
  <2>2. CASE n # 0
    <3>1. n \in DOMAIN tenants
      BY <1>0, <1>2, <2>2
    <3>2. tenants[n] \in Row
      BY <1>0, <3>1
    <3>3. /\ DOMAIN tenants' = DOMAIN tenants /\ tenants'[n].logged
          /\ \A u \in DOMAIN tenants \ {n} : tenants'[u] = tenants[u]
      BY <1>0, <2>2, <3>1, <3>2 DEF AuditConsent, Row
    <3>4. call[k] = Entry(t) => n = t
      BY EntryFields
    <3> QED
      BY <1>3, <3>3, <3>4
  <2> QED
    BY <2>1, <2>2
<1> QED
  BY <1>0, <1>1, <1>3, ForgetsNone

(* A request that fails forgets its own entry at most.                     *)
LEMMA FailForgets ==
  ASSUME IInv, ConsentBudget, NEW k \in Tab, CallFails(k)
  PROVE  ConsentBudget'
<1> DEFINE n == call[k].tenant
<1>0. TypeOK /\ call \in [Tab -> CallState]
  BY Typed DEF IInv
<1>1. /\ failures' = failures + 1 /\ tenants' = tenants
      /\ \A l \in Tab \ {k} : call'[l] = call[l]
  BY <1>0 DEF CallFails, Failure
<1>2. Forgotten' \subseteq Forgotten \cup {n}
  <2>1. \A t : call[k] = Entry(t) => t = n
    BY EntryFields
  <2> HIDE DEF n
  <2> QED
    BY <1>1, <2>1, Zenon DEF Forgotten
<1> HIDE DEF n
<1>3. /\ IsFiniteSet(Forgotten \cup {n})
      /\ Cardinality(Forgotten \cup {n}) \in Nat
      /\ Cardinality(Forgotten \cup {n}) <= Cardinality(Forgotten) + 1
  <2>1. IsFiniteSet(Forgotten) /\ Cardinality(Forgotten) \in Nat
    BY <1>0, ForgottenFinite
  <2>2. /\ IsFiniteSet(Forgotten \cup {n})
        /\ Cardinality(Forgotten \cup {n}) =
             IF n \in Forgotten THEN Cardinality(Forgotten) ELSE Cardinality(Forgotten) + 1
    BY <2>1, FS_AddElement
  <2> QED
    BY <2>1, <2>2
<1>4. /\ Cardinality(Forgotten') <= Cardinality(Forgotten \cup {n})
      /\ Cardinality(Forgotten') \in Nat
  BY <1>2, <1>3, FS_Subset, FS_CardinalityType
<1> QED
  BY <1>0, <1>1, <1>3, <1>4, ForgottenFinite, Typed DEF ConsentBudget

(* What is left touches no consent and no request that has to log one.     *)
LEMMA QuietRemembers ==
  ASSUME IInv, ConsentBudget, NEW k \in Tab,
         \/ SignIn(k) \/ RefuseConsent(k) \/ Reload(k) \/ SubmitBusiness(k) \/ AddStock(k)
         \/ Continue(k) \/ SubmitConsent(k) \/ NotRightNow(k), InStep
  PROVE  ConsentBudget'
<1>0. TypeOK /\ call \in [Tab -> CallState] /\ Paced(k)
  BY Typed DEF IInv, InStep
<1>1. /\ failures' = failures /\ tenants' = tenants
      /\ \A l \in Tab \ {k} : call'[l] = call[l]
      /\ call' = call \/ call[k].at # "consent entry"
  BY <1>0 DEF SignIn, RefuseConsent, Reload, SubmitBusiness, AddStock, Continue,
              SubmitConsent, NotRightNow, BusinessForm, ConsentCard, Paced
<1>2. \A t : call[k] = Entry(t) => call'[k] = Entry(t)
  BY <1>1, EntryFields
<1> QED
  BY <1>0, <1>1, <1>2, ForgetsNone

LEMMA ConsentInit == Init => ConsentBudget
<1> SUFFICES ASSUME Init PROVE ConsentBudget
  OBVIOUS
<1>1. Forgotten = {}
  BY DEF Init, Forgotten
<1> QED
  BY <1>1, FS_EmptySet DEF Init, ConsentBudget

LEMMA ConsentStep == IInv /\ InStep /\ ConsentBudget /\ [Next]_vars => ConsentBudget'
<1> SUFFICES ASSUME IInv, InStep, ConsentBudget, [Next]_vars PROVE ConsentBudget'
  OBVIOUS
<1>1. ASSUME NEW k \in Tab,
             \/ Serve(k) \/ CallFails(k) \/ Reload(k) \/ SubmitBusiness(k) \/ AddStock(k)
             \/ Continue(k) \/ SubmitConsent(k) \/ NotRightNow(k)
      PROVE  ConsentBudget'
  BY <1>1, TenantRemembers, GrantRemembers, AuditRemembers, FailForgets, QuietRemembers DEF Serve
<1>2. ASSUME DemoLogin \/ SessionEnds \/ UNCHANGED vars PROVE ConsentBudget'
  BY <1>2 DEF DemoLogin, SessionEnds, vars, ConsentBudget, Forgotten
<1> QED
  BY <1>1, <1>2 DEF Next

-----------------------------------------------------------------------------

(* For any number of tabs, failures and reloads, the tenants, the session, *)
(* the pages and the requests keep their types.                            *)
THEOREM TypeCorrect == Spec => []TypeOK
<1>1. IInv => TypeOK
  BY DEF IInv
<1> QED
  BY InvInit, InvNext, <1>1, PTL DEF Spec

(* A tenant that has consented has its owner and its onboarding entry,     *)
(* however the four transactions of tenant.service.ts:31 fail and whoever  *)
(* the session belongs to when the consent arrives.                        *)
THEOREM ActiveTheorem == Spec => []ActiveIsComplete
<1>1. IInv => ActiveIsComplete
  BY DEF IInv
<1> QED
  BY InvInit, InvNext, <1>1, PTL DEF Spec

(* The button of each step is locked exactly while a request of that step  *)
(* is under way (onboarding/page.tsx:61, 74, 87): whatever fails, is       *)
(* refused or changes the session in between, no button stays disabled     *)
(* without a request that will answer.                                     *)
THEOREM LockedTheorem == Spec => []LockedByRequest
<1>1. InStep => LockedByRequest
  BY DEF InStep, Paced, LockedByRequest
<1>2. IInv => TypeOK
  BY DEF IInv
<1>3. IInv /\ InStep /\ TenantBudget /\ [Next]_vars => (IInv /\ InStep /\ TenantBudget)'
  BY InvNext, BudgetStep, <1>2
<1> QED
  BY InvInit, BudgetInit, <1>1, <1>3, PTL DEF Spec

(* However the tabs are used, a tenant more than there are tabs takes a    *)
(* failed request or a tab loaded again.                                   *)
THEOREM TenantsTheorem == Spec => []TenantsAreAccountedFor
<1>1. TypeOK /\ TenantBudget => TenantsAreAccountedFor
  BY Typed, OpeningFinite DEF TenantBudget, TenantsAreAccountedFor
<1>2. IInv => TypeOK
  BY DEF IInv
<1>3. IInv /\ InStep /\ TenantBudget /\ [Next]_vars => (IInv /\ InStep /\ TenantBudget)'
  BY InvNext, BudgetStep, <1>2
<1>4. Spec => [](IInv /\ InStep /\ TenantBudget)
  BY InvInit, BudgetInit, <1>3, PTL DEF Spec
<1> QED
  BY <1>1, <1>2, <1>4, PTL

(* There are no more consents the log will never know of than requests     *)
(* that failed.                                                            *)
THEOREM ForgottenTheorem == Spec => []UnloggedConsentsAreFailures
<1>1. ConsentBudget => UnloggedConsentsAreFailures
  BY DEF ConsentBudget, UnloggedConsentsAreFailures, Forgotten, Entry
<1>2. IInv => TypeOK
  BY DEF IInv
<1>3. IInv /\ InStep /\ TenantBudget /\ ConsentBudget /\ [Next]_vars
        => (IInv /\ InStep /\ TenantBudget /\ ConsentBudget)'
  BY InvNext, BudgetStep, ConsentStep, <1>2
<1>4. Spec => [](IInv /\ InStep /\ TenantBudget /\ ConsentBudget)
  BY InvInit, BudgetInit, ConsentInit, <1>3, PTL DEF Spec
<1> QED
  BY <1>1, <1>4, PTL
=============================================================================
