-------------------------- MODULE OwnerPagesProofs --------------------------
(***************************************************************************)
(* Theorems about OwnerPages, for any number of alerts, tabs, requests,    *)
(* automatic actions and failures.                                         *)
(***************************************************************************)
EXTENDS OwnerPages, SequenceTheorems, TLAPS

(* What is left of a sequence, and that its last element stays.            *)
LEMMA Removed ==
  ASSUME NEW S, NEW s \in Seq(S), NEW i \in DOMAIN s
  PROVE  /\ RemoveAt(s, i) \in Seq(S)
         /\ Len(RemoveAt(s, i)) = Len(s) - 1
         /\ DOMAIN RemoveAt(s, i) = 1..(Len(s) - 1)
         /\ \A j \in 1..(Len(s) - 1) :
               RemoveAt(s, i)[j] = IF j < i THEN s[j] ELSE s[j + 1]
<1>1. Len(s) \in Nat /\ DOMAIN s = 1..Len(s) /\ i \in 1..Len(s)
  OBVIOUS
<1> DEFINE a == SubSeq(s, 1, i - 1)
           b == SubSeq(s, i + 1, Len(s))
<1>2. /\ a \in Seq(S) /\ Len(a) = i - 1 /\ \A j \in 1..(i - 1) : a[j] = s[j]
  BY <1>1
<1>3. /\ b \in Seq(S) /\ Len(b) = Len(s) - i /\ \A j \in 1..(Len(s) - i) : b[j] = s[i + j]
  BY <1>1
<1> HIDE DEF a, b
<1>4. /\ a \o b \in Seq(S) /\ Len(a \o b) = Len(s) - 1
      /\ \A j \in 1..(Len(s) - 1) : (a \o b)[j] = IF j <= i - 1 THEN a[j] ELSE b[j - (i - 1)]
  <2>1. /\ a \o b \in Seq(S) /\ Len(a \o b) = Len(a) + Len(b)
        /\ \A j \in 1..(Len(a) + Len(b)) :
              (a \o b)[j] = IF j <= Len(a) THEN a[j] ELSE b[j - Len(a)]
    BY <1>2, <1>3, ConcatProperties
  <2>2. Len(a) + Len(b) = Len(s) - 1 /\ Len(a) = i - 1
    BY <1>1, <1>2, <1>3
  <2> QED
    BY <2>1, <2>2
<1>5. DOMAIN (a \o b) = 1..(Len(s) - 1)
  BY <1>4, LenProperties
<1>6. ASSUME NEW j \in 1..(Len(s) - 1)
      PROVE  (a \o b)[j] = IF j < i THEN s[j] ELSE s[j + 1]
  <2>1. CASE j < i
    BY <1>1, <1>2, <1>4, <2>1
  <2>2. CASE ~(j < i)
    <3>1. j - (i - 1) \in 1..(Len(s) - i) /\ i + (j - (i - 1)) = j + 1
      BY <1>1, <2>2
    <3>2. (a \o b)[j] = b[j - (i - 1)]
      BY <1>1, <1>4, <2>2
    <3> QED
      BY <1>3, <2>2, <3>1, <3>2
  <2> QED
    BY <2>1, <2>2
<1> QED
  BY <1>4, <1>5, <1>6 DEF RemoveAt, a, b

-----------------------------------------------------------------------------
(* The invariant *)

Reply == [alerts : [Prediction -> Attention], plan : Plan, rules : Nat]

(* The response r shows nothing the server does not have.                  *)
Behind(k, r) == r # NULL =>
    /\ r.rules <= rules
    /\ \A p \in Prediction : r.alerts[p] # "none" => attention[p] # "none"
    /\ IsDetail(k) => /\ r.plan # "none" => plan[page[k]] # "none"
                      /\ r.plan = "decided" => plan[page[k]] = "decided"

(* The attention a shows what the event e is about.                        *)
Seen(a, e) ==
    /\ e[2] = "new" => a[e[1]] # "none"
    /\ e[2] = "escalated" => a[e[1]] \notin {"none", "new"}

(* An event is about something that has happened.                          *)
Happened == \A e \in due \cup announced : Seen(attention, e)

(* The response r shows all that was announced and confirmed to the page.  *)
UpToDate(k, r) ==
    /\ r # NULL
    /\ page[k] = "inbox" => \A e \in announced : Seen(r.alerts, e)
    /\ confirmed[k] > 0 => /\ IsDetail(k) => r.plan = "decided"
                           /\ page[k] = "rules" => r.rules >= confirmed[k]

(* The last response is or will be up to date, if nothing got lost.        *)
Fresh(k) == clean[k] /\ page[k] # "none" =>
    IF gets[k] = <<>> THEN UpToDate(k, shown[k])
    ELSE LET r == gets[k][Len(gets[k])] IN r = NULL \/ UpToDate(k, r)

(* What a page has submitted, and what it was told of it.                  *)
Submitted(k) ==
    /\ post[k] # "none" => IsDetail(k) \/ page[k] = "rules"
    /\ IsDetail(k) => /\ post[k] = "sent" => plan[page[k]] # "none"
                      /\ post[k] = "served" \/ confirmed[k] > 0 => plan[page[k]] = "decided"
    /\ page[k] = "rules" => confirmed[k] + (IF post[k] = "served" THEN 1 ELSE 0) <= rules
    /\ page[k] = "none" => gets[k] = <<>>
    /\ loadError[k] => ~clean[k]

TabOK(k) ==
    /\ Behind(k, shown[k])
    /\ \A i \in DOMAIN gets[k] : Behind(k, gets[k][i])
    /\ Fresh(k)
    /\ Submitted(k)

IInv == TypeOK /\ Happened /\ \A k \in Tab : TabOK(k)

(* The server takes nothing back.                                          *)
Grown ==
    /\ rules \in Nat /\ rules' \in Nat /\ rules <= rules'
    /\ \A p \in Prediction :
        /\ attention[p] # "none" => attention'[p] # "none"
        /\ attention[p] \notin {"none", "new"} => attention'[p] \notin {"none", "new"}
        /\ plan[p] # "none" => plan'[p] # "none"
        /\ plan[p] = "decided" => plan'[p] = "decided"

Same(k) ==
    /\ page'[k] = page[k] /\ shown'[k] = shown[k] /\ gets'[k] = gets[k] /\ post'[k] = post[k]
    /\ confirmed'[k] = confirmed[k] /\ loadError'[k] = loadError[k] /\ clean'[k] = clean[k]

(* The types of what a tab has.                                            *)
LEMMA TabTypes ==
  ASSUME IInv, NEW k \in Tab
  PROVE  /\ page[k] \in Prediction \cup {"none", "inbox", "rules"}
         /\ shown[k] \in Reply \cup {NULL} /\ gets[k] \in Seq(Reply \cup {NULL})
         /\ Len(gets[k]) \in Nat /\ DOMAIN gets[k] = 1..Len(gets[k])
         /\ Len(gets[k]) <= MaxGets
         /\ confirmed[k] \in Nat /\ rules \in Nat /\ clean[k] \in BOOLEAN
         /\ TabOK(k)
<1>1. /\ gets[k] \in Seq(Reply \cup {NULL}) /\ shown[k] \in Reply \cup {NULL}
      /\ page[k] \in Prediction \cup {"none", "inbox", "rules"} /\ clean[k] \in BOOLEAN
      /\ Len(gets[k]) <= MaxGets /\ confirmed[k] \in Nat /\ rules \in Nat /\ TabOK(k)
  BY DEF IInv, TypeOK, Shown, Reply
<1> QED
  BY <1>1, LenProperties

(* A response that was behind the server stays behind it.                  *)
LEMMA BehindKept ==
  ASSUME IInv, Grown, NEW k \in Tab, page'[k] = page[k],
         NEW r \in Reply \cup {NULL}, Behind(k, r)
  PROVE  Behind(k, r)'
<1> SUFFICES ASSUME r # NULL PROVE Behind(k, r)'
  BY DEF Behind
<1>1. r.rules \in Nat
  BY DEF Reply
<1>2. r.rules <= rules'
  BY <1>1 DEF Behind, Grown
<1>3. \A p \in Prediction : r.alerts[p] # "none" => attention'[p] # "none"
  BY Zenon DEF Behind, Grown
<1>4. ASSUME page[k] \in Prediction
      PROVE  /\ r.plan # "none" => plan'[page[k]] # "none"
             /\ r.plan = "decided" => plan'[page[k]] = "decided"
  BY <1>4, Zenon DEF Behind, IsDetail, Grown
<1> QED
  BY <1>2, <1>3, <1>4, Zenon DEF Behind, IsDetail

(* A tab in which nothing happens, while the server goes on.               *)
LEMMA TabKept ==
  ASSUME IInv, Grown, NEW k \in Tab, Same(k), announced' = announced \/ page[k] # "inbox"
  PROVE  TabOK(k)'
<1>1. Behind(k, shown[k])' /\ \A i \in DOMAIN gets'[k] : Behind(k, gets[k][i])'
  <2>1. Behind(k, shown[k])'
    BY TabTypes, BehindKept DEF TabOK, Same, Behind, IsDetail
  <2>2. ASSUME NEW i \in DOMAIN gets[k] PROVE Behind(k, gets[k][i])'
    <3>1. gets[k][i] \in Reply \cup {NULL} /\ Behind(k, gets[k][i])
      BY TabTypes DEF TabOK
    <3> QED
      BY <3>1, BehindKept DEF Same, Behind, IsDetail
  <2> QED
    BY <2>1, <2>2 DEF Same
<1>2. Fresh(k)'
  <2>1. \A r : UpToDate(k, r) => UpToDate(k, r)'
    BY DEF UpToDate, Same, IsDetail
  <2> QED
    BY <2>1, TabTypes DEF Fresh, Same, TabOK
<1>3. Submitted(k)'
  <2>1. Submitted(k) /\ confirmed[k] \in Nat
    BY TabTypes DEF TabOK
  <2>2. IsDetail(k)' => IsDetail(k) /\ page[k] \in Prediction
    BY DEF Same, IsDetail
  <2>3. IsDetail(k)' => /\ post'[k] = "sent" => plan'[page'[k]] # "none"
                        /\ post'[k] = "served" \/ confirmed'[k] > 0 => plan'[page'[k]] = "decided"
    BY <2>1, <2>2, Zenon DEF Submitted, Same, Grown
  <2>4. page'[k] = "rules" => confirmed'[k] + (IF post'[k] = "served" THEN 1 ELSE 0) <= rules'
    BY <2>1 DEF Submitted, Same, Grown
  <2> QED
    BY <2>1, <2>3, <2>4 DEF Submitted, Same, IsDetail
<1> QED
  BY <1>1, <1>2, <1>3 DEF TabOK

-----------------------------------------------------------------------------
(* Requests *)

(* A step of one tab.                                                      *)
LEMMA LocalKeeps ==
  ASSUME IInv, NEW k \in Tab, UNCHANGED server, \A l \in Tab \ {k} : Same(l),
         page' \in [Tab -> Prediction \cup {"none", "inbox", "rules"}],
         shown' \in [Tab -> Reply \cup {NULL}], gets' \in [Tab -> Seq(Reply \cup {NULL})],
         Len(gets'[k]) <= MaxGets, post' \in [Tab -> {"none", "sent", "served"}],
         confirmed' \in [Tab -> Nat], loadError' \in [Tab -> BOOLEAN],
         clean' \in [Tab -> BOOLEAN], failures' \in 0..MaxFailures, TabOK(k)'
  PROVE  IInv'
<1>1. \A l \in Tab : Len(gets'[l]) <= MaxGets
  BY DEF IInv, TypeOK, Same
<1>2. TypeOK'
  BY <1>1 DEF IInv, TypeOK, server, Shown, Reply
<1>3. Happened'
  BY Zenon DEF IInv, Happened, server
<1>4. Grown /\ announced' = announced
  BY DEF Grown, server, IInv, TypeOK
<1>5. \A l \in Tab : TabOK(l)'
  BY <1>4, TabKept
<1> QED
  BY <1>2, <1>3, <1>5 DEF IInv

(* What the server answers now is all there is.                            *)
LEMMA ResponseGood ==
  ASSUME IInv, NEW k \in Tab, page[k] # "none"
  PROVE  /\ Response(k) \in Reply /\ Behind(k, Response(k))
         /\ Response(k) # NULL => UpToDate(k, Response(k))
<1>1. /\ page[k] \in Prediction \cup {"inbox", "rules"} /\ confirmed[k] \in Nat
      /\ Submitted(k) /\ Happened /\ rules \in Nat
  BY TabTypes DEF TabOK, IInv
<1>2. /\ attention \in [Prediction -> Attention] /\ plan \in [Prediction -> Plan]
      /\ Prediction \cap {"none", "inbox", "rules"} = {}
  BY PagesAssumption DEF IInv, TypeOK, PagesAssumption
<1>3. Blank \in Reply
  BY DEF Blank, Reply, Attention, Plan
<1>4. CASE page[k] = "inbox"
  <2>1. Response(k) = [Blank EXCEPT !.alerts = attention] /\ ~IsDetail(k)
    BY <1>2, <1>4 DEF Response, AlertResponse, IsDetail
  <2>2. /\ Response(k) \in Reply /\ Response(k).alerts = attention /\ Response(k).rules = 0
    BY <1>2, <1>3, <2>1 DEF Reply, Blank
  <2>3. Behind(k, Response(k))
    BY <1>1, <2>1, <2>2 DEF Behind
  <2>4. Response(k) # NULL => UpToDate(k, Response(k))
    BY <1>1, <1>4, <2>1, <2>2 DEF UpToDate, Happened
  <2> QED
    BY <2>2, <2>3, <2>4
<1>5. CASE page[k] = "rules"
  <2>1. Response(k) = [Blank EXCEPT !.rules = rules] /\ ~IsDetail(k)
    BY <1>2, <1>5 DEF Response, AutoTriggerRuleResponse, IsDetail
  <2>2. /\ Response(k) \in Reply /\ Response(k).rules = rules
        /\ \A p \in Prediction : Response(k).alerts[p] = "none"
    BY <1>1, <1>3, <2>1 DEF Reply, Blank
  <2>3. Behind(k, Response(k))
    BY <1>1, <2>1, <2>2 DEF Behind
  <2>4. confirmed[k] <= rules
    BY <1>1, <1>5 DEF Submitted
  <2>5. Response(k) # NULL => UpToDate(k, Response(k))
    BY <1>5, <2>1, <2>2, <2>4 DEF UpToDate
  <2> QED
    BY <2>2, <2>3, <2>5
<1>6. CASE page[k] \in Prediction
  <2>1. /\ Response(k) = [Blank EXCEPT !.plan = plan[page[k]]] /\ IsDetail(k)
        /\ page[k] # "inbox" /\ page[k] # "rules"
    BY <1>2, <1>6 DEF Response, RecommendationResponse, IsDetail
  <2>2. /\ Response(k) \in Reply /\ Response(k).rules = 0 /\ Response(k).plan = plan[page[k]]
        /\ \A p \in Prediction : Response(k).alerts[p] = "none"
    BY <1>2, <1>3, <1>6, <2>1 DEF Reply, Blank
  <2>3. Behind(k, Response(k))
    BY <1>1, <2>2 DEF Behind
  <2>4. confirmed[k] > 0 => plan[page[k]] = "decided"
    BY <1>1, <2>1 DEF Submitted
  <2>5. Response(k) # NULL => UpToDate(k, Response(k))
    BY <2>1, <2>2, <2>4 DEF UpToDate
  <2> QED
    BY <2>2, <2>3, <2>5
<1> QED
  BY <1>1, <1>4, <1>5, <1>6

(* A response takes the place of its request.                              *)
LEMMA AnswerKeeps ==
  ASSUME IInv, NEW k \in Tab, NEW i, Answer(k, i) PROVE IInv'
<1> DEFINE q == gets[k]
           r == Response(k)
<1>1. /\ q \in Seq(Reply \cup {NULL}) /\ i \in DOMAIN q /\ DOMAIN q = 1..Len(q) /\ Len(q) \in Nat
      /\ Len(q) <= MaxGets /\ TabOK(k)
      /\ gets \in [Tab -> Seq(Reply \cup {NULL})]
  BY TabTypes DEF Answer, IInv, TypeOK, Shown, Reply
<1>2. page[k] # "none"
  BY <1>1 DEF TabOK, Submitted
<1>3. r \in Reply /\ Behind(k, r) /\ (r # NULL => UpToDate(k, r))
  BY <1>2, ResponseGood
<1>4. /\ gets' = [gets EXCEPT ![k] = [q EXCEPT ![i] = r]]
      /\ UNCHANGED <<server, page, shown, post, confirmed, loadError, clean, failures>>
  BY <1>1 DEF Answer
<1> HIDE DEF r
<1>5. /\ gets'[k] = [q EXCEPT ![i] = r] /\ gets' \in [Tab -> Seq(Reply \cup {NULL})]
      /\ Len(gets'[k]) = Len(q) /\ DOMAIN gets'[k] = DOMAIN q
      /\ \A j \in DOMAIN q : gets'[k][j] = IF j = i THEN r ELSE q[j]
  BY <1>1, <1>3, <1>4
<1>6. \A x : (Behind(k, x) => Behind(k, x)') /\ (UpToDate(k, x) => UpToDate(k, x)')
  BY <1>4 DEF server, Behind, UpToDate, IsDetail
<1>7. Behind(k, shown[k])'
  BY <1>1, <1>4, <1>6 DEF TabOK, Behind, server, IsDetail
<1>8. \A j \in DOMAIN gets'[k] : Behind(k, gets[k][j])'
  <2> SUFFICES ASSUME NEW j \in DOMAIN q PROVE Behind(k, gets[k][j])'
    BY <1>5
  <2>1. Behind(k, gets'[k][j])
    BY <1>1, <1>3, <1>5 DEF TabOK
  <2> QED
    BY <1>4, <2>1 DEF Behind, server, IsDetail
<1>9. Fresh(k)'
  <2>1. /\ clean[k] => q[Len(q)] = NULL \/ UpToDate(k, q[Len(q)])
        /\ q # <<>> /\ gets'[k] # <<>>
    BY <1>1, <1>2, <1>5 DEF TabOK, Fresh
  <2>2. Len(q) \in DOMAIN q
    BY <1>1
  <2>3. clean[k] => gets'[k][Len(gets'[k])] = NULL \/ UpToDate(k, gets'[k][Len(gets'[k])])
    BY <1>3, <1>5, <2>1, <2>2
  <2> QED
    BY <1>4, <2>1, <2>3 DEF Fresh, UpToDate, IsDetail, server
<1>10. Submitted(k)'
  BY <1>1, <1>2, <1>4 DEF TabOK, Submitted, IsDetail, server
<1>11. TabOK(k)'
  BY <1>7, <1>8, <1>9, <1>10 DEF TabOK
<1>12. \A l \in Tab \ {k} : Same(l)
  BY <1>1, <1>4 DEF Same
<1> QED
  BY <1>1, <1>4, <1>5, <1>11, <1>12, LocalKeeps DEF IInv, TypeOK, Shown, Reply

(* What is behind or up to date stays so while nothing of it changes.      *)
LEMMA Quiet ==
  ASSUME UNCHANGED server, NEW k \in Tab, page'[k] = page[k]
  PROVE  /\ \A x : Behind(k, x) => Behind(k, x)'
         /\ confirmed'[k] = confirmed[k] => \A x : UpToDate(k, x) => UpToDate(k, x)'
BY DEF server, Behind, UpToDate, IsDetail

(* The requests of a tab without the i-th of them.                         *)
LEMMA GetRemoved ==
  ASSUME IInv, NEW k \in Tab, NEW i \in DOMAIN gets[k],
         gets' = [gets EXCEPT ![k] = RemoveAt(@, i)]
  PROVE  /\ gets' \in [Tab -> Seq(Reply \cup {NULL})]
         /\ gets'[k] = RemoveAt(gets[k], i)
         /\ Len(gets'[k]) = Len(gets[k]) - 1 /\ Len(gets'[k]) <= MaxGets
         /\ DOMAIN gets'[k] = 1..(Len(gets[k]) - 1)
         /\ \A j \in 1..(Len(gets[k]) - 1) :
               gets'[k][j] = IF j < i THEN gets[k][j] ELSE gets[k][j + 1]
         /\ \A j \in DOMAIN gets'[k] : \E m \in DOMAIN gets[k] : gets'[k][j] = gets[k][m]
<1>1. /\ gets \in [Tab -> Seq(Reply \cup {NULL})] /\ gets[k] \in Seq(Reply \cup {NULL})
      /\ Len(gets[k]) <= MaxGets /\ Len(gets[k]) \in Nat /\ MaxGets \in Nat
      /\ DOMAIN gets[k] = 1..Len(gets[k])
  BY TabTypes, PagesAssumption DEF IInv, TypeOK, Shown, Reply, PagesAssumption
<1>2. /\ RemoveAt(gets[k], i) \in Seq(Reply \cup {NULL})
      /\ Len(RemoveAt(gets[k], i)) = Len(gets[k]) - 1
      /\ DOMAIN RemoveAt(gets[k], i) = 1..(Len(gets[k]) - 1)
      /\ \A j \in 1..(Len(gets[k]) - 1) :
            RemoveAt(gets[k], i)[j] = IF j < i THEN gets[k][j] ELSE gets[k][j + 1]
  BY <1>1, Removed
<1>3. gets' = [gets EXCEPT ![k] = RemoveAt(gets[k], i)]
  OBVIOUS
<1>4. /\ gets' \in [Tab -> Seq(Reply \cup {NULL})] /\ gets'[k] = RemoveAt(gets[k], i)
  BY <1>1, <1>2, <1>3
<1>5. Len(gets[k]) - 1 <= MaxGets
  BY <1>1
<1>6. \A j \in 1..(Len(gets[k]) - 1) : j \in DOMAIN gets[k] /\ j + 1 \in DOMAIN gets[k]
  BY <1>1
<1>7. \A j \in 1..(Len(gets[k]) - 1) : \E m \in DOMAIN gets[k] : gets'[k][j] = gets[k][m]
  BY <1>2, <1>4, <1>6
<1> QED
  BY <1>2, <1>4, <1>5, <1>7

(* The response that arrives is shown; in order, the last one stays last.  *)
LEMMA DeliverKeeps ==
  ASSUME IInv, NEW k \in Tab, NEW i, Deliver(k, i) PROVE IInv'
<1> DEFINE q == gets[k]
<1>1. /\ q \in Seq(Reply \cup {NULL}) /\ i \in DOMAIN q /\ DOMAIN q = 1..Len(q) /\ Len(q) \in Nat
      /\ q[i] \in Reply \cup {NULL} /\ q[i] # NULL /\ TabOK(k)
      /\ shown \in [Tab -> Reply \cup {NULL}] /\ clean \in [Tab -> BOOLEAN]
  BY TabTypes DEF Deliver, IInv, TypeOK, Shown, Reply
<1>2. /\ gets' = [gets EXCEPT ![k] = RemoveAt(@, i)]
      /\ shown' = [shown EXCEPT ![k] = IF loadError[k] THEN NULL ELSE q[i]]
      /\ clean' = [clean EXCEPT ![k] = @ /\ i = 1]
      /\ UNCHANGED <<server, page, post, confirmed, loadError, failures>>
  BY DEF Deliver
<1>3. /\ gets' \in [Tab -> Seq(Reply \cup {NULL})] /\ Len(gets'[k]) <= MaxGets
      /\ Len(gets'[k]) = Len(q) - 1 /\ DOMAIN gets'[k] = 1..(Len(q) - 1)
      /\ \A j \in 1..(Len(q) - 1) : gets'[k][j] = IF j < i THEN q[j] ELSE q[j + 1]
      /\ \A j \in DOMAIN gets'[k] : \E m \in DOMAIN q : gets'[k][j] = q[m]
  BY <1>1, <1>2, GetRemoved
<1>4. /\ shown' \in [Tab -> Reply \cup {NULL}] /\ clean' \in [Tab -> BOOLEAN]
      /\ shown'[k] = (IF loadError[k] THEN NULL ELSE q[i]) /\ clean'[k] = (clean[k] /\ i = 1)
  BY <1>1, <1>2
<1>5. page'[k] = page[k] /\ confirmed'[k] = confirmed[k] /\ UNCHANGED server
  BY <1>2
<1> HIDE DEF q
<1>6. Behind(k, shown[k])'
  <2>1. Behind(k, q[i]) /\ Behind(k, NULL)
    BY <1>1 DEF TabOK, Behind, q
  <2>2. Behind(k, shown'[k])
    BY <1>4, <2>1
  <2> QED
    BY <1>5, <2>2, Zenon DEF Behind, server, IsDetail
<1>7. \A j \in DOMAIN gets'[k] : Behind(k, gets[k][j])'
  <2> SUFFICES ASSUME NEW j \in DOMAIN gets'[k] PROVE Behind(k, gets[k][j])'
    OBVIOUS
  <2>1. Behind(k, gets'[k][j])
    BY <1>1, <1>3 DEF TabOK, q
  <2> QED
    BY <1>5, <2>1, Zenon DEF Behind, server, IsDetail
<1>8. Fresh(k)'
  <2> SUFFICES ASSUME clean'[k], page'[k] # "none"
               PROVE  IF gets'[k] = <<>> THEN UpToDate(k, shown'[k])
                      ELSE LET r == gets'[k][Len(gets'[k])] IN r = NULL \/ UpToDate(k, r)
    BY <1>5, Zenon DEF Fresh, UpToDate, server, IsDetail
  <2>1. clean[k] /\ i = 1 /\ page[k] # "none" /\ ~loadError[k]
    BY <1>1, <1>4, <1>5 DEF TabOK, Submitted
  <2>2. q[Len(q)] = NULL \/ UpToDate(k, q[Len(q)])
    BY <1>1, <2>1 DEF TabOK, Fresh, q
  <2>3. CASE Len(q) = 1
    <3>1. shown'[k] = q[Len(q)] /\ UpToDate(k, q[Len(q)])
      BY <1>1, <1>4, <2>1, <2>2, <2>3
    <3>2. gets'[k] = <<>>
      <4>1. gets'[k] \in Seq(Reply \cup {NULL}) /\ Len(gets'[k]) = 0
        BY <1>3, <2>3
      <4> QED
        BY <4>1
    <3> QED
      BY <3>1, <3>2
  <2>4. CASE Len(q) # 1
    <3>1. Len(q) - 1 \in 1..(Len(q) - 1) /\ (Len(q) - 1) + 1 = Len(q) /\ ~(Len(q) - 1 < 1)
      BY <1>1, <2>4
    <3>2. gets'[k][Len(gets'[k])] = q[Len(q)]
      BY <1>3, <2>1, <3>1
    <3>3. gets'[k] # <<>>
      <4>1. Len(gets'[k]) # 0
        <5>1. Len(q) - 1 # 0
          BY <1>1, <2>4
        <5> QED
          BY <1>3, <5>1, Zenon
      <4>2. Len(<<>>) = 0
        OBVIOUS
      <4> QED
        BY <4>1, <4>2, Zenon
    <3> QED
      BY <2>2, <3>2, <3>3
  <2> QED
    BY <2>3, <2>4
<1>9. Submitted(k)'
  <2>1. page[k] # "none"
    BY <1>1 DEF TabOK, Submitted, q
  <2> QED
    BY <1>1, <1>2, <1>4, <2>1 DEF TabOK, Submitted, IsDetail, server
<1>10. TabOK(k)'
  BY <1>6, <1>7, <1>8, <1>9 DEF TabOK
<1>11. \A l \in Tab \ {k} : Same(l)
  BY <1>1, <1>2 DEF Same, IInv, TypeOK
<1> QED
  BY <1>2, <1>3, <1>4, <1>10, <1>11, LocalKeeps DEF IInv, TypeOK, Shown, Reply

(* A request that fails takes its response along, and the page knows that  *)
(* something is missing.                                                   *)
LEMMA FailGetKeeps ==
  ASSUME IInv, NEW k \in Tab, NEW i, FailGet(k, i) PROVE IInv'
<1> DEFINE q == gets[k]
           s == IF page[k] = "rules" THEN NULL ELSE shown[k]
<1>1. /\ i \in DOMAIN q /\ TabOK(k) /\ shown[k] \in Reply \cup {NULL}
      /\ shown \in [Tab -> Reply \cup {NULL}] /\ clean \in [Tab -> BOOLEAN]
      /\ loadError \in [Tab -> BOOLEAN] /\ failures \in 0..MaxFailures /\ MaxFailures \in Nat
  BY TabTypes, PagesAssumption DEF FailGet, IInv, TypeOK, Shown, Reply, PagesAssumption
<1>2. /\ gets' = [gets EXCEPT ![k] = RemoveAt(@, i)]
      /\ shown' = [shown EXCEPT ![k] = s] /\ clean' = [clean EXCEPT ![k] = FALSE]
      /\ loadError' = [loadError EXCEPT ![k] = @ \/ page[k] = "rules"]
      /\ UNCHANGED <<server, page, post, confirmed>>
      /\ failures < MaxFailures /\ failures' = failures + 1
  BY DEF FailGet, Failure
<1>3. /\ gets' \in [Tab -> Seq(Reply \cup {NULL})] /\ Len(gets'[k]) <= MaxGets
      /\ \A j \in DOMAIN gets'[k] : \E m \in DOMAIN q : gets'[k][j] = q[m]
  BY <1>1, <1>2, GetRemoved
<1>4. /\ shown' \in [Tab -> Reply \cup {NULL}] /\ clean' \in [Tab -> BOOLEAN]
      /\ loadError' \in [Tab -> BOOLEAN] /\ shown'[k] = s /\ clean'[k] = FALSE
  BY <1>1, <1>2
<1>5. page'[k] = page[k] /\ UNCHANGED server /\ failures' \in 0..MaxFailures
  BY <1>1, <1>2
<1>6. Behind(k, shown[k])'
  <2>1. Behind(k, shown'[k])
    BY <1>1, <1>4 DEF TabOK, Behind
  <2> QED
    BY <1>5, <2>1, Zenon DEF Behind, server, IsDetail
<1> HIDE DEF q, s
<1>7. \A j \in DOMAIN gets'[k] : Behind(k, gets[k][j])'
  <2> SUFFICES ASSUME NEW j \in DOMAIN gets'[k] PROVE Behind(k, gets[k][j])'
    OBVIOUS
  <2>1. Behind(k, gets'[k][j])
    BY <1>1, <1>3 DEF TabOK, q
  <2> QED
    BY <1>5, <2>1, Zenon DEF Behind, server, IsDetail
<1>8. Fresh(k)'
  BY <1>4 DEF Fresh
<1>9. Submitted(k)'
  <2>1. page[k] # "none"
    BY <1>1 DEF TabOK, Submitted, q
  <2> QED
    BY <1>1, <1>2, <1>4, <2>1 DEF TabOK, Submitted, IsDetail, server
<1>10. TabOK(k)'
  BY <1>6, <1>7, <1>8, <1>9 DEF TabOK
<1>11. \A l \in Tab \ {k} : Same(l)
  BY <1>1, <1>2 DEF Same, IInv, TypeOK
<1> QED
  BY <1>2, <1>3, <1>4, <1>5, <1>10, <1>11, LocalKeeps DEF IInv, TypeOK, Shown, Reply

(* A page starts with one request and nothing to show.                     *)
LEMMA OpenKeeps ==
  ASSUME IInv, NEW k \in Tab, NEW p, Open(k, p) PROVE IInv'
<1>1. /\ p \in Prediction \cup {"inbox", "rules"} /\ MaxGets \in Nat /\ MaxGets >= 1
      /\ Prediction \cap {"none", "inbox", "rules"} = {} /\ rules \in Nat
  BY PagesAssumption DEF Open, Pages, PagesAssumption, IInv, TypeOK
<1>2. /\ page' = [page EXCEPT ![k] = p] /\ shown' = [shown EXCEPT ![k] = NULL]
      /\ gets' = [gets EXCEPT ![k] = <<NULL>>] /\ confirmed' = [confirmed EXCEPT ![k] = 0]
      /\ loadError' = [loadError EXCEPT ![k] = FALSE] /\ clean' = [clean EXCEPT ![k] = TRUE]
      /\ post' = [post EXCEPT ![k] = "none"] /\ UNCHANGED <<server, failures>>
  BY DEF Open
<1>3. /\ page \in [Tab -> Prediction \cup {"none", "inbox", "rules"}]
      /\ shown \in [Tab -> Reply \cup {NULL}] /\ gets \in [Tab -> Seq(Reply \cup {NULL})]
      /\ post \in [Tab -> {"none", "sent", "served"}] /\ confirmed \in [Tab -> Nat]
      /\ loadError \in [Tab -> BOOLEAN] /\ clean \in [Tab -> BOOLEAN] /\ failures \in 0..MaxFailures
  BY DEF IInv, TypeOK, Shown, Reply
<1>4. <<NULL>> \in Seq(Reply \cup {NULL}) /\ Len(<<NULL>>) = 1 /\ <<NULL>> # <<>>
      /\ DOMAIN <<NULL>> = {1} /\ <<NULL>>[1] = NULL
  OBVIOUS
<1>5. /\ page' \in [Tab -> Prediction \cup {"none", "inbox", "rules"}]
      /\ shown' \in [Tab -> Reply \cup {NULL}] /\ gets' \in [Tab -> Seq(Reply \cup {NULL})]
      /\ post' \in [Tab -> {"none", "sent", "served"}] /\ confirmed' \in [Tab -> Nat]
      /\ loadError' \in [Tab -> BOOLEAN] /\ clean' \in [Tab -> BOOLEAN] /\ failures' \in 0..MaxFailures
  BY <1>1, <1>2, <1>3, <1>4
<1>6. /\ page'[k] = p /\ shown'[k] = NULL /\ gets'[k] = <<NULL>> /\ confirmed'[k] = 0
      /\ loadError'[k] = FALSE /\ post'[k] = "none" /\ UNCHANGED server
  BY <1>2, <1>3
<1>7. Behind(k, shown[k])' /\ \A j \in DOMAIN gets'[k] : Behind(k, gets[k][j])'
  BY <1>4, <1>6 DEF Behind
<1>8. Fresh(k)'
  BY <1>4, <1>6 DEF Fresh
<1>9. Submitted(k)'
  BY <1>1, <1>6 DEF Submitted, server
<1>10. TabOK(k)'
  BY <1>7, <1>8, <1>9 DEF TabOK
<1>11. \A l \in Tab \ {k} : Same(l)
  BY <1>2, <1>3 DEF Same
<1>12. Len(gets'[k]) <= MaxGets
  BY <1>1, <1>4, <1>6
<1> QED
  BY <1>5, <1>6, <1>10, <1>11, <1>12, LocalKeeps

(* What is offered for a plan is offered because the server has the plan.  *)
LEMMA SubmitKeeps ==
  ASSUME IInv, NEW k \in Tab, Submit(k) \/ FailPost(k) PROVE IInv'
<1>1. PICK v \in {"none", "sent"} : post' = [post EXCEPT ![k] = v]
  BY DEF Submit, FailPost
<1>2. UNCHANGED <<server, page, shown, gets, confirmed, loadError, clean>>
  BY DEF Submit, FailPost
<1>3. /\ TabOK(k) /\ post \in [Tab -> {"none", "sent", "served"}]
      /\ failures \in 0..MaxFailures /\ MaxFailures \in Nat /\ confirmed[k] \in Nat /\ rules \in Nat
  BY TabTypes, PagesAssumption DEF IInv, TypeOK, PagesAssumption
<1>4. post'[k] = v /\ post' \in [Tab -> {"none", "sent", "served"}]
  BY <1>1, <1>3
<1>5. failures' \in 0..MaxFailures
  <2>1. failures' = failures \/ (failures < MaxFailures /\ failures' = failures + 1)
    BY DEF Submit, FailPost, Failure
  <2> QED
    BY <1>3, <2>1
<1>6. v = "sent" => /\ IsDetail(k) \/ page[k] = "rules"
                    /\ IsDetail(k) => plan[page[k]] # "none"
  <2> SUFFICES ASSUME v = "sent" PROVE /\ IsDetail(k) \/ page[k] = "rules"
                                       /\ IsDetail(k) => plan[page[k]] # "none"
    OBVIOUS
  <2>1. Submit(k)
    <3>1. ~FailPost(k)
      BY <1>1, <1>3, <1>4 DEF FailPost
    <3> QED
      BY <3>1
  <2>2. PlanButtons(k) \/ page[k] = "rules"
    BY <2>1 DEF Submit, Offers, RuleForm
  <2>3. PlanButtons(k) => IsDetail(k) /\ plan[page[k]] # "none"
    BY <1>3 DEF PlanButtons, TabOK, Behind
  <2>4. page[k] = "rules" => ~IsDetail(k)
    BY PagesAssumption DEF PagesAssumption, IsDetail
  <2> QED
    BY <2>2, <2>3, <2>4
<1>7. Submitted(k)'
  <2>1. /\ IsDetail(k)' <=> IsDetail(k)
        /\ page'[k] = page[k] /\ plan' = plan /\ rules' = rules /\ confirmed'[k] = confirmed[k]
        /\ gets'[k] = gets[k] /\ loadError'[k] = loadError[k] /\ clean'[k] = clean[k]
    BY <1>2 DEF IsDetail, server
  <2>2. page[k] = "rules" => confirmed[k] + (IF v = "served" THEN 1 ELSE 0) <= rules
    BY <1>3 DEF TabOK, Submitted
  <2>3. Submitted(k)
    BY <1>3 DEF TabOK
  <2> QED
    BY <1>4, <1>6, <2>1, <2>2, <2>3 DEF Submitted
<1>8. TabOK(k)'
  <2>1. /\ Behind(k, shown[k])' /\ \A j \in DOMAIN gets'[k] : Behind(k, gets[k][j])'
        /\ Fresh(k)'
    BY <1>2, <1>3, Zenon DEF TabOK, Behind, Fresh, UpToDate, IsDetail, server
  <2> QED
    BY <1>7, <2>1 DEF TabOK
<1>9. \A l \in Tab \ {k} : Same(l)
  BY <1>1, <1>2, <1>3 DEF Same
<1>10. Len(gets'[k]) <= MaxGets
  BY <1>2, TabTypes
<1> QED
  BY <1>2, <1>4, <1>5, <1>8, <1>9, <1>10, LocalKeeps DEF IInv, TypeOK, Shown, Reply

(* A page that was told of its POST asks again.                            *)
LEMMA ConfirmKeeps ==
  ASSUME IInv, NEW k \in Tab, Confirm(k) PROVE IInv'
<1> DEFINE c == IF IsDetail(k) THEN 1 ELSE confirmed[k] + 1
           q == Append(gets[k], NULL)
<1>1. /\ post[k] = "served" /\ Len(gets[k]) < MaxGets
      /\ post' = [post EXCEPT ![k] = "none"] /\ confirmed' = [confirmed EXCEPT ![k] = c]
      /\ gets' = [gets EXCEPT ![k] = q]
      /\ UNCHANGED <<server, page, shown, loadError, clean, failures>>
  BY DEF Confirm, Ask
<1>2. /\ TabOK(k) /\ gets[k] \in Seq(Reply \cup {NULL}) /\ Len(gets[k]) \in Nat
      /\ DOMAIN gets[k] = 1..Len(gets[k]) /\ confirmed[k] \in Nat /\ rules \in Nat
      /\ MaxGets \in Nat
  BY TabTypes, PagesAssumption DEF PagesAssumption
<1>3. /\ gets \in [Tab -> Seq(Reply \cup {NULL})] /\ confirmed \in [Tab -> Nat]
      /\ post \in [Tab -> {"none", "sent", "served"}]
  BY DEF IInv, TypeOK, Shown, Reply
<1>4. /\ q \in Seq(Reply \cup {NULL}) /\ Len(q) = Len(gets[k]) + 1
      /\ DOMAIN q = 1..(Len(gets[k]) + 1) /\ q[Len(gets[k]) + 1] = NULL
      /\ \A j \in 1..Len(gets[k]) : q[j] = gets[k][j]
  BY <1>2
<1>5. c \in Nat
  BY <1>2
<1> HIDE DEF q, c
<1>6. /\ gets' \in [Tab -> Seq(Reply \cup {NULL})] /\ gets'[k] = q
      /\ confirmed' \in [Tab -> Nat] /\ confirmed'[k] = c
      /\ post' \in [Tab -> {"none", "sent", "served"}] /\ post'[k] = "none"
  BY <1>1, <1>3, <1>4, <1>5
<1>7. Len(gets'[k]) <= MaxGets
  BY <1>1, <1>2, <1>4, <1>6
<1>8. Behind(k, shown[k])' /\ \A j \in DOMAIN gets'[k] : Behind(k, gets[k][j])'
  <2>1. Behind(k, shown[k]) /\ \A j \in DOMAIN q : Behind(k, q[j])
    <3>1. ASSUME NEW j \in DOMAIN q PROVE Behind(k, q[j])
      <4>1. CASE j = Len(gets[k]) + 1
        BY <1>4, <4>1 DEF Behind
      <4>2. CASE j \in 1..Len(gets[k])
        BY <1>2, <1>4, <4>2 DEF TabOK
      <4> QED
        BY <1>2, <1>4, <4>1, <4>2
    <3> QED
      BY <1>2, <3>1 DEF TabOK
  <2>2. \A x : Behind(k, x) => Behind(k, x)'
    BY <1>1, Quiet
  <2>3. shown'[k] = shown[k]
    BY <1>1
  <2>4. Behind(k, shown[k])'
    BY <1>1, <2>1, <2>3, Zenon DEF Behind, server, IsDetail
  <2>5. ASSUME NEW j \in DOMAIN gets'[k] PROVE Behind(k, gets[k][j])'
    <3>1. Behind(k, gets'[k][j])
      BY <1>6, <2>1
    <3> QED
      BY <1>1, <3>1, Zenon DEF Behind, server, IsDetail
  <2> QED
    BY <2>4, <2>5
<1>9. Fresh(k)'
  <2>1. gets'[k] # <<>> /\ gets'[k][Len(gets'[k])] = NULL
    BY <1>2, <1>4, <1>6
  <2> QED
    BY <2>1 DEF Fresh
<1>10. Submitted(k)'
  <2>1. Submitted(k) /\ (IsDetail(k) \/ page[k] = "rules")
    BY <1>1, <1>2 DEF TabOK, Submitted
  <2>2. page[k] = "rules" => ~IsDetail(k)
    BY PagesAssumption DEF PagesAssumption, IsDetail
  <2>3. page[k] = "rules" => c <= rules
    BY <1>1, <1>2, <2>1, <2>2 DEF Submitted, c
  <2>4. page[k] # "none"
    BY <2>1, PagesAssumption DEF PagesAssumption, IsDetail
  <2>5. c + 0 = c
    BY <1>5
  <2> QED
    BY <1>1, <1>5, <1>6, <2>1, <2>3, <2>4, <2>5 DEF Submitted, IsDetail, server
<1>11. TabOK(k)'
  BY <1>8, <1>9, <1>10 DEF TabOK
<1>12. \A l \in Tab \ {k} : Same(l)
  BY <1>1, <1>3 DEF Same
<1> QED
  BY <1>1, <1>6, <1>7, <1>11, <1>12, LocalKeeps DEF IInv, TypeOK, Shown, Reply

-----------------------------------------------------------------------------
(* The server *)

(* The server goes on and tells no page of it.                             *)
LEMMA ServerKeeps ==
  ASSUME IInv, Grown, attention' \in [Prediction -> Attention], plan' \in [Prediction -> Plan],
         due' \subseteq Prediction \X {"new", "escalated"}, announced' = announced, Happened',
         UNCHANGED <<page, shown, gets, confirmed, loadError, clean, failures>>,
         post' \in [Tab -> {"none", "sent", "served"}], \A k \in Tab : Submitted(k)'
  PROVE  IInv'
<1>1. TypeOK'
  BY DEF IInv, TypeOK, Grown
<1>2. ASSUME NEW k \in Tab PROVE TabOK(k)'
  <2>1. Behind(k, shown[k])'
    BY TabTypes, BehindKept DEF TabOK, Behind, IsDetail
  <2>2. ASSUME NEW i \in DOMAIN gets[k] PROVE Behind(k, gets[k][i])'
    <3>1. gets[k][i] \in Reply \cup {NULL} /\ Behind(k, gets[k][i])
      BY TabTypes DEF TabOK
    <3> QED
      BY <3>1, BehindKept DEF Behind, IsDetail
  <2>3. Fresh(k)'
    <3>1. \A r : UpToDate(k, r) => UpToDate(k, r)'
      BY DEF UpToDate, IsDetail
    <3> QED
      BY <3>1, TabTypes DEF Fresh, TabOK
  <2> QED
    BY <2>1, <2>2, <2>3 DEF TabOK
<1> QED
  BY <1>1, <1>2 DEF IInv

(* A decision that is taken is there for good; a rule counts.              *)
LEMMA ServeKeeps ==
  ASSUME IInv, NEW k \in Tab, Serve(k) PROVE IInv'
<1>1. /\ post[k] = "sent" /\ post' = [post EXCEPT ![k] = "served"] /\ attention' = attention
      /\ UNCHANGED <<due, announced, page, shown, gets, confirmed, loadError, clean, failures>>
  BY DEF Serve, Server!Settle
<1>2. /\ attention \in [Prediction -> Attention] /\ plan \in [Prediction -> Plan]
      /\ rules \in Nat /\ post \in [Tab -> {"none", "sent", "served"}]
      /\ Prediction \cap {"none", "inbox", "rules"} = {}
      /\ due \subseteq Prediction \X {"new", "escalated"}
  BY PagesAssumption DEF IInv, TypeOK, PagesAssumption
<1>3. /\ plan' \in [Prediction -> Plan] /\ rules' \in Nat /\ rules <= rules'
      /\ \A p \in Prediction : /\ plan[p] # "none" => plan'[p] # "none"
                               /\ plan[p] = "decided" => plan'[p] = "decided"
      /\ IsDetail(k) => plan'[page[k]] = "decided"
      /\ page[k] = "rules" => rules' = rules + 1
  <2>1. CASE IsDetail(k) /\ Server!Settle(page[k]) /\ rules' = rules
    <3>1. plan' = [plan EXCEPT ![page[k]] = "decided"] /\ page[k] \in Prediction
      BY <2>1 DEF Server!Settle, IsDetail
    <3>2. plan' \in [Prediction -> Plan] /\ plan'[page[k]] = "decided"
      BY <1>2, <3>1 DEF Plan
    <3>3. \A p \in Prediction : /\ plan[p] # "none" => plan'[p] # "none"
                                /\ plan[p] = "decided" => plan'[p] = "decided"
      BY <1>2, <3>1
    <3>4. page[k] # "rules"
      BY <1>2, <3>1
    <3> QED
      BY <1>2, <2>1, <3>2, <3>3, <3>4
  <2>2. CASE IsDetail(k) /\ plan[page[k]] = "decided" /\ plan' = plan /\ rules' = rules
    BY <1>2, <2>2 DEF IsDetail
  <2>3. CASE page[k] = "rules" /\ rules' = rules + 1 /\ plan' = plan
    BY <1>2, <2>3 DEF IsDetail
  <2> QED
    BY <2>1, <2>2, <2>3 DEF Serve
<1>4. Grown
  BY <1>1, <1>2, <1>3 DEF Grown
<1>5. Happened'
  BY <1>1, Zenon DEF IInv, Happened
<1>6. post'[k] = "served" /\ post' \in [Tab -> {"none", "sent", "served"}]
  BY <1>1, <1>2
<1>7. ASSUME NEW l \in Tab PROVE Submitted(l)'
  <2>1. CASE l = k
    <3>1. Submitted(k) /\ confirmed[k] \in Nat
      BY TabTypes DEF TabOK
    <3>2. page[k] = "rules" => confirmed[k] + 1 <= rules'
      BY <1>1, <1>2, <1>3, <3>1 DEF Submitted
    <3> QED
      BY <1>1, <1>3, <1>6, <2>1, <3>1, <3>2 DEF Submitted, IsDetail
  <2>2. CASE l # k
    <3>1. Same(l)
      BY <1>1, <1>2, <2>2 DEF Same
    <3> QED
      BY <1>1, <1>4, <3>1, TabKept DEF TabOK
  <2> QED
    BY <2>1, <2>2
<1> QED
  BY <1>1, <1>2, <1>3, <1>4, <1>5, <1>6, <1>7, ServerKeeps

(* What happens on the server happens for good, and events are about it.   *)
LEMMA ServerStepKeeps ==
  ASSUME IInv, NEW p \in Prediction,
         Warn(p) \/ Escalate(p) \/ EscalateHandled(p) \/ Quietly(p)
  PROVE  IInv'
<1>1. /\ attention \in [Prediction -> Attention] /\ plan \in [Prediction -> Plan] /\ rules \in Nat
      /\ due \cup announced \subseteq Prediction \X {"new", "escalated"} /\ Happened
      /\ post \in [Tab -> {"none", "sent", "served"}]
  BY DEF IInv, TypeOK
<1>2. rules' = rules /\ announced' = announced /\ UNCHANGED pages /\ UNCHANGED failures
  BY DEF Warn, Escalate, EscalateHandled, Quietly
<1>3. PICK a \in Attention, n \in Plan, new \in SUBSET {<<p, "new">>, <<p, "escalated">>} :
         /\ attention' = [attention EXCEPT ![p] = a] /\ plan' = [plan EXCEPT ![p] = n]
         /\ due' = due \cup new
         /\ attention[p] # "none" => a # "none"
         /\ attention[p] \notin {"none", "new"} => a \notin {"none", "new"}
         /\ plan[p] # "none" => n # "none"
         /\ plan[p] = "decided" => n = "decided"
         /\ <<p, "new">> \in new => a # "none"
         /\ <<p, "escalated">> \in new => a \notin {"none", "new"}
  <2>0. /\ attention[p] \in Attention /\ plan[p] \in Plan
        /\ attention = [attention EXCEPT ![p] = attention[p]] /\ plan = [plan EXCEPT ![p] = plan[p]]
    BY <1>1
  <2>1. CASE Warn(p)
    <3>1. /\ attention[p] = "none" /\ attention' = [attention EXCEPT ![p] = "new"]
          /\ plan' = [plan EXCEPT ![p] = plan[p]] /\ due' = due \cup {<<p, "new">>}
      BY <2>0, <2>1 DEF Warn, Server!Warn
    <3>2. "new" \in Attention /\ <<p, "escalated">> \notin {<<p, "new">>}
      BY DEF Attention
    <3> QED
      BY <2>0, <3>1, <3>2
  <2>2. CASE Escalate(p) \/ EscalateHandled(p)
    <3>1. /\ attention' = [attention EXCEPT ![p] = "escalated"]
          /\ plan' = [plan EXCEPT ![p] = plan[p]] /\ due' = due \cup {<<p, "escalated">>}
      BY <2>0, <2>2 DEF Escalate, EscalateHandled, Server!Escalate
    <3>2. "escalated" \in Attention /\ <<p, "new">> \notin {<<p, "escalated">>}
      BY DEF Attention
    <3> QED
      BY <2>0, <3>1, <3>2
  <2>3. CASE Quietly(p) /\ (Server!Advise(p) \/ Server!Settle(p))
    <3>1. PICK n \in {"pending", "decided"} :
             /\ attention' = [attention EXCEPT ![p] = attention[p]]
             /\ plan' = [plan EXCEPT ![p] = n] /\ due' = due \cup {}
             /\ plan[p] # "decided"
      BY <2>0, <2>3 DEF Quietly, Server!Advise, Server!Settle
    <3>2. n \in Plan /\ n # "none"
      BY DEF Plan
    <3>3. \E c \in SUBSET {<<p, "new">>, <<p, "escalated">>} :
             /\ due' = due \cup c /\ <<p, "new">> \notin c /\ <<p, "escalated">> \notin c
      <4>1. {} \in SUBSET {<<p, "new">>, <<p, "escalated">>}
        OBVIOUS
      <4> QED
        BY <3>1, <4>1
    <3>4. /\ attention' = [attention EXCEPT ![p] = attention[p]]
          /\ plan' = [plan EXCEPT ![p] = n] /\ plan[p] # "decided"
      BY <3>1
    <3> QED
      BY <2>0, <3>2, <3>3, <3>4, Zenon
  <2>4. CASE Quietly(p) /\ Server!Handle(p)
    <3>1. /\ attention' = [attention EXCEPT ![p] = "handled"]
          /\ plan' = [plan EXCEPT ![p] = plan[p]] /\ due' = due \cup {}
      BY <2>0, <2>4 DEF Quietly, Server!Handle
    <3>2. "handled" \in Attention
      BY DEF Attention
    <3> QED
      BY <2>0, <3>1, <3>2
  <2> QED
    BY <2>1, <2>2, <2>3, <2>4 DEF Quietly
<1>4. /\ attention' \in [Prediction -> Attention] /\ plan' \in [Prediction -> Plan]
      /\ attention'[p] = a /\ plan'[p] = n
      /\ \A o \in Prediction \ {p} : attention'[o] = attention[o] /\ plan'[o] = plan[o]
  BY <1>1, <1>3
<1>5. Grown
  BY <1>1, <1>2, <1>3, <1>4 DEF Grown
<1>6. due' \subseteq Prediction \X {"new", "escalated"}
  BY <1>1, <1>3
<1>7. Happened'
  <2> SUFFICES ASSUME NEW e \in due' \cup announced' PROVE Seen(attention', e)
    BY DEF Happened
  <2>1. CASE e \in due \cup announced
    <3>1. Seen(attention, e) /\ e[1] \in Prediction
      BY <1>1, <2>1 DEF Happened
    <3> QED
      BY <1>5, <3>1, Zenon DEF Seen, Grown
  <2>2. CASE e \in new
    <3>1. e = <<p, "new">> \/ e = <<p, "escalated">>
      BY <1>3, <2>2
    <3> QED
      BY <1>3, <1>4, <2>2, <3>1 DEF Seen
  <2> QED
    BY <1>2, <1>3, <2>1, <2>2
<1>8. \A k \in Tab : Submitted(k)'
  <2> SUFFICES ASSUME NEW k \in Tab PROVE Submitted(k)'
    OBVIOUS
  <2>1. Same(k)
    BY <1>2 DEF Same, pages
  <2> QED
    BY <1>2, <1>5, <2>1, TabKept DEF TabOK
<1>9. post' \in [Tab -> {"none", "sent", "served"}]
  BY <1>1, <1>2 DEF pages
<1> QED
  BY <1>2, <1>4, <1>5, <1>6, <1>7, <1>8, <1>9, ServerKeeps DEF pages

(* One more automatic action, which no page has asked for.                 *)
LEMMA ServeLeftKeeps ==
  ASSUME IInv, ServeLeft PROVE IInv'
<1>1. /\ rules' = rules + 1 /\ rules \in Nat
      /\ UNCHANGED <<attention, plan, due, announced, pages, failures>>
  BY DEF ServeLeft, IInv, TypeOK
<1>2. Grown
  BY <1>1 DEF Grown
<1>3. /\ attention \in [Prediction -> Attention] /\ plan \in [Prediction -> Plan]
      /\ due \subseteq Prediction \X {"new", "escalated"} /\ Happened
      /\ post \in [Tab -> {"none", "sent", "served"}]
  BY DEF IInv, TypeOK
<1>4. Happened'
  BY <1>1, <1>3, Zenon DEF Happened
<1>5. ASSUME NEW k \in Tab PROVE Submitted(k)'
  <2>1. Same(k) /\ announced' = announced
    BY <1>1 DEF Same, pages
  <2> QED
    BY <1>2, <2>1, TabKept DEF TabOK
<1> QED
  BY <1>1, <1>2, <1>3, <1>4, <1>5, ServerKeeps DEF pages

(* An inbox asks again, or knows that it missed something.                 *)
LEMMA AnnounceKeeps ==
  ASSUME IInv, NEW e \in due, Announce(e) PROVE IInv'
<1>1. PICK missed \in SUBSET Inboxes :
         /\ missed = {} \/ Failure
         /\ missed # {} \/ failures' = failures
         /\ gets' = [k \in Tab |->
               IF k \in Inboxes \ missed THEN Append(gets[k], NULL) ELSE gets[k]]
         /\ clean' = [k \in Tab |-> clean[k] /\ k \notin missed]
  BY DEF Announce
<1>2. /\ \A k \in Inboxes : Len(gets[k]) < MaxGets
      /\ due' = due \ {e} /\ announced' = announced \cup {e}
      /\ UNCHANGED <<attention, plan, rules, page, shown, post, confirmed, loadError>>
  BY DEF Announce
<1>3. Grown
  BY <1>2 DEF Grown, IInv, TypeOK
<1>4. failures' \in 0..MaxFailures
  <2>1. failures \in 0..MaxFailures /\ MaxFailures \in Nat
    BY PagesAssumption DEF PagesAssumption, IInv, TypeOK
  <2>2. failures' = failures \/ (failures < MaxFailures /\ failures' = failures + 1)
    BY <1>1 DEF Failure
  <2> QED
    BY <2>1, <2>2
<1>5. Happened'
  BY <1>2, Zenon DEF IInv, Happened
<1>6. ASSUME NEW k \in Tab
      PROVE  /\ gets'[k] \in Seq(Reply \cup {NULL}) /\ Len(gets'[k]) <= MaxGets
             /\ clean'[k] \in BOOLEAN /\ TabOK(k)'
  <2>1. /\ gets[k] \in Seq(Reply \cup {NULL}) /\ Len(gets[k]) \in Nat /\ Len(gets[k]) <= MaxGets
        /\ DOMAIN gets[k] = 1..Len(gets[k]) /\ clean[k] \in BOOLEAN /\ TabOK(k)
        /\ MaxGets \in Nat /\ shown[k] \in Reply \cup {NULL}
    BY TabTypes, PagesAssumption DEF PagesAssumption
  <2>2. clean'[k] = (clean[k] /\ k \notin missed)
    BY <1>1
  <2>3. CASE k \notin Inboxes
    <3>1. gets'[k] = gets[k] /\ clean'[k] = clean[k] /\ page[k] # "inbox"
      BY <1>1, <2>1, <2>3 DEF Inboxes
    <3>2. Same(k)
      BY <1>2, <3>1 DEF Same
    <3>3. TabOK(k)'
      BY <1>3, <3>1, <3>2, TabKept
    <3> QED
      BY <2>1, <3>1, <3>3
  <2>4. CASE k \in Inboxes
    <3>1. page'[k] = "inbox" /\ page[k] = "inbox"
      BY <1>2, <2>4 DEF Inboxes
    <3>2. /\ gets'[k] \in Seq(Reply \cup {NULL}) /\ Len(gets'[k]) <= MaxGets
          /\ \A j \in DOMAIN gets'[k] :
                gets'[k][j] = NULL \/ \E m \in DOMAIN gets[k] : gets'[k][j] = gets[k][m]
          /\ k \notin missed => gets'[k] # <<>> /\ gets'[k][Len(gets'[k])] = NULL
      <4>1. CASE k \in missed
        BY <1>1, <2>1, <4>1
      <4>2. CASE k \notin missed
        <5>1. gets'[k] = Append(gets[k], NULL) /\ Len(gets[k]) < MaxGets
          BY <1>1, <1>2, <2>4, <4>2
        <5>2. /\ Append(gets[k], NULL) \in Seq(Reply \cup {NULL})
              /\ Len(Append(gets[k], NULL)) = Len(gets[k]) + 1
              /\ DOMAIN Append(gets[k], NULL) = 1..(Len(gets[k]) + 1)
              /\ Append(gets[k], NULL)[Len(gets[k]) + 1] = NULL
              /\ \A j \in 1..Len(gets[k]) : Append(gets[k], NULL)[j] = gets[k][j]
          BY <2>1
        <5>3. \A j \in 1..(Len(gets[k]) + 1) : j \in 1..Len(gets[k]) \/ j = Len(gets[k]) + 1
          BY <2>1
        <5>4. Append(gets[k], NULL) # <<>> /\ Len(gets[k]) + 1 <= MaxGets
          BY <2>1, <5>1, <5>2
        <5> QED
          BY <2>1, <5>1, <5>2, <5>3, <5>4
      <4> QED
        BY <4>1, <4>2
    <3>3. \A x : Behind(k, x) => Behind(k, x)'
      BY <1>2 DEF Behind, IsDetail
    <3>4. Behind(k, shown[k])'
      BY <1>2, <2>1, <3>3 DEF TabOK, Behind, IsDetail
    <3>5. ASSUME NEW j \in DOMAIN gets'[k] PROVE Behind(k, gets[k][j])'
      <4>1. Behind(k, gets'[k][j])
        BY <2>1, <3>2 DEF TabOK, Behind
      <4> QED
        BY <1>2, <4>1, Zenon DEF Behind, IsDetail
    <3>6. Fresh(k)'
      BY <2>2, <3>2 DEF Fresh
    <3>7. Submitted(k)'
      BY <1>2, <2>1, <2>2, <3>1 DEF TabOK, Submitted, IsDetail
    <3>8. TabOK(k)'
      BY <3>4, <3>5, <3>6, <3>7 DEF TabOK
    <3> QED
      BY <2>1, <2>2, <3>2, <3>8
  <2> QED
    BY <2>3, <2>4
<1>7. gets' \in [Tab -> Seq(Reply \cup {NULL})] /\ clean' \in [Tab -> BOOLEAN]
  <2>1. \A k \in Tab : gets'[k] \in Seq(Reply \cup {NULL}) /\ clean'[k] \in BOOLEAN
    BY <1>6
  <2> QED
    BY <1>1, <2>1
<1>8. TypeOK'
  BY <1>2, <1>4, <1>6, <1>7 DEF IInv, TypeOK, Shown, Reply
<1> QED
  BY <1>5, <1>6, <1>8 DEF IInv

-----------------------------------------------------------------------------
(* Theorems *)

(* No page is open, nothing has happened.                                  *)
LEMMA InvInit == Init => IInv
<1> SUFFICES ASSUME Init PROVE IInv
  OBVIOUS
<1>1. TypeOK
  BY PagesAssumption
  DEF PagesAssumption, Init, Server!Init, TypeOK, Attention, Plan, Shown
<1>2. Happened
  BY DEF Init, Happened
<1>3. \A k \in Tab : TabOK(k)
  BY PagesAssumption
  DEF PagesAssumption, Init, TabOK, Behind, Fresh, Submitted, IsDetail
<1> QED
  BY <1>1, <1>2, <1>3 DEF IInv

(* Every step keeps it.                                                    *)
LEMMA InvNext == IInv /\ [Next]_vars => IInv'
<1> SUFFICES ASSUME IInv, [Next]_vars PROVE IInv'
  OBVIOUS
<1>1. ASSUME NEW k \in Tab, NEW p, Open(k, p) PROVE IInv'
  BY <1>1, OpenKeeps
<1>2. ASSUME NEW k \in Tab, NEW i, Answer(k, i) \/ Deliver(k, i) \/ FailGet(k, i) PROVE IInv'
  BY <1>2, AnswerKeeps, DeliverKeeps, FailGetKeeps
<1>3. ASSUME NEW k \in Tab, Submit(k) \/ Serve(k) \/ Confirm(k) \/ FailPost(k) PROVE IInv'
  BY <1>3, SubmitKeeps, ServeKeeps, ConfirmKeeps
<1>4. ASSUME NEW p \in Prediction, Warn(p) \/ Escalate(p) \/ EscalateHandled(p) \/ Quietly(p)
      PROVE  IInv'
  BY <1>4, ServerStepKeeps
<1>5. ASSUME NEW e \in due, Announce(e) PROVE IInv'
  BY <1>5, AnnounceKeeps
<1>6. CASE UNCHANGED vars
  <2>1. TypeOK'
    BY <1>6 DEF IInv, TypeOK, vars, server, pages
  <2>2. Happened'
    BY <1>6, Zenon DEF IInv, Happened, vars, server
  <2>3. ASSUME NEW k \in Tab PROVE TabOK(k)'
    <3>1. Grown /\ Same(k) /\ announced' = announced
      BY <1>6 DEF Grown, Same, IInv, TypeOK, vars, server, pages
    <3> QED
      BY <3>1, TabKept
  <2> QED
    BY <2>1, <2>2, <2>3 DEF IInv
<1>7. ASSUME ServeLeft PROVE IInv'
  BY <1>7, ServeLeftKeeps
<1> QED
  BY <1>1, <1>2, <1>3, <1>4, <1>5, <1>6, <1>7 DEF Next

(* The invariant holds throughout.                                         *)
LEMMA InvHolds == Spec => []IInv
  BY InvInit, InvNext, PTL DEF Spec

(* Every variable holds values of the server, a page or a request.         *)
THEOREM TypeCorrect == Spec => []TypeOK
<1>1. IInv => TypeOK
  BY DEF IInv
<1> QED
  BY InvHolds, <1>1, PTL

(* However many requests of however many tabs overtake each other or fail, *)
(* a page neither shows nor decides on what the server does not have.      *)
THEOREM LeadTheorem == Spec => []PagesNeverLead
<1>1. IInv => PagesNeverLead
  BY DEF IInv, TabOK, Behind, Submitted, PagesNeverLead
<1> QED
  BY InvHolds, <1>1, PTL

(* A page whose requests are answered shows what it was told is saved.     *)
THEOREM ConfirmedTheorem == Spec => []ConfirmedIsShown
<1>1. IInv => ConfirmedIsShown
  <2> SUFFICES ASSUME IInv, NEW k \in Tab, confirmed[k] > 0, gets[k] = <<>>, clean[k]
               PROVE  /\ IsDetail(k) => shown[k].plan = "decided"
                      /\ page[k] = "rules" => shown[k].rules >= confirmed[k]
    BY DEF ConfirmedIsShown
  <2>1. IsDetail(k) \/ page[k] = "rules" => page[k] # "none"
    BY PagesAssumption DEF PagesAssumption, IsDetail
  <2>2. TabOK(k)
    BY DEF IInv
  <2> QED
    BY <2>1, <2>2 DEF TabOK, Fresh, UpToDate
<1> QED
  BY InvHolds, <1>1, PTL

(* An inbox that missed nothing shows whatever was announced.              *)
THEOREM InboxTheorem == Spec => []InboxIsCurrent
<1>1. IInv => InboxIsCurrent
  <2> SUFFICES ASSUME IInv, NEW k \in Inboxes, gets[k] = <<>>, clean[k], NEW e \in announced
               PROVE  /\ e[2] = "new" => shown[k].alerts[e[1]] # "none"
                      /\ e[2] = "escalated" => shown[k].alerts[e[1]] \notin {"none", "new"}
    BY DEF InboxIsCurrent
  <2>1. k \in Tab /\ page[k] = "inbox" /\ TabOK(k)
    BY DEF Inboxes, IInv
  <2> QED
    BY <2>1 DEF TabOK, Fresh, UpToDate, Seen
<1> QED
  BY InvHolds, <1>1, PTL

=============================================================================
