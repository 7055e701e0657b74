------------------------ MODULE SweepPipelineProofs ------------------------
(***************************************************************************)
(* Theorems about SweepPipeline, for any tenants and suppliers and any     *)
(* number of sweeping processes, seed runs, failures and edits.            *)
(***************************************************************************)
EXTENDS SweepPipeline, FiniteSetTheorems, TLAPS

Row == [supplier : Supplier, listed : Nat, alerted : BOOLEAN, planned : BOOLEAN]

PassState == [pc : {"sleep", "next", "post", "plan", "done"},
              work : SUBSET Supplier, listed : Nat,
              supplier : Supplier \cup {NULL}, at : Nat,
              source : {"own_backup", "directory", "none"}]

(* None of the predictions there were when the candidates were read is     *)
(* about s.                                                                *)
NotListed(P, n, s) == \A i \in 1..n : P[i].supplier # s

(* What the pass x knows of the predictions P: its candidates had none     *)
(* when it read them, and the plan it works on is for an alert.            *)
Sound(P, x) ==
    /\ x.listed <= Len(P)
    /\ \A s \in x.work : NotListed(P, x.listed, s)
    /\ x.pc = "post" => x.supplier \in Supplier /\ NotListed(P, x.listed, x.supplier)
    /\ x.pc = "plan" => x.at \in DOMAIN P /\ P[x.at].alerted

(* A callback that is late was given up by a failure.                      *)
LateIsFailure == \A s \in Supplier : late[s] <= failures

IInv ==
    /\ TypeOK
    /\ \A w \in Process : Sound(predictions, pass[w])
    /\ LateIsFailure
    /\ DuplicateNeedsOverlap

-----------------------------------------------------------------------------
(* What every step keeps *)

(* Predictions are added, and none is about another supplier later.        *)
Grown ==
    /\ predictions' \in Seq(Row)
    /\ Len(predictions) <= Len(predictions')
    /\ \A i \in DOMAIN predictions :
        /\ predictions'[i].supplier = predictions[i].supplier
        /\ predictions'[i].listed = predictions[i].listed
        /\ predictions[i].alerted => predictions'[i].alerted

(* The types of the tables, in the names of this module.                   *)
LEMMA Types ==
  ASSUME IInv
  PROVE  /\ predictions \in Seq(Row) /\ Len(predictions) \in Nat
         /\ DOMAIN predictions = 1..Len(predictions)
         /\ \A i \in DOMAIN predictions : predictions[i] \in Row
         /\ pass \in [Process -> PassState]
<1>1. predictions \in Seq(Row) /\ pass \in [Process -> PassState]
  BY DEF IInv, TypeOK, Row, PassState
<1> QED
  BY <1>1

(* What a pass knows stays true of more predictions.                       *)
LEMMA SoundKept ==
  ASSUME IInv, Grown, NEW x \in PassState, Sound(predictions, x)
  PROVE  Sound(predictions', x)
<1>1. /\ DOMAIN predictions = 1..Len(predictions) /\ DOMAIN predictions' = 1..Len(predictions')
      /\ Len(predictions) \in Nat /\ Len(predictions') \in Nat
      /\ x.listed \in Nat /\ x.listed <= Len(predictions)
  BY Types DEF Grown, Sound, PassState
<1>2. 1..x.listed \subseteq DOMAIN predictions /\ DOMAIN predictions \subseteq DOMAIN predictions'
  BY <1>1 DEF Grown
<1>3. ASSUME NEW s, NotListed(predictions, x.listed, s)
      PROVE  NotListed(predictions', x.listed, s)
  BY <1>2, <1>3, Zenon DEF NotListed, Grown
<1>4. x.listed <= Len(predictions')
  BY <1>1 DEF Grown
<1>5. x.pc = "plan" => x.at \in DOMAIN predictions' /\ predictions'[x.at].alerted
  BY <1>2, Zenon DEF Sound, Grown
<1> QED
  BY <1>3, <1>4, <1>5, Zenon DEF Sound

(* A step of one process, which goes on as x.                              *)
LEMMA PassKept ==
  ASSUME IInv, Grown, NEW w \in Process, NEW x \in PassState, Sound(predictions', x),
         pass' = [pass EXCEPT ![w] = x]
  PROVE  pass' \in [Process -> PassState] /\ \A v \in Process : Sound(predictions', pass'[v])
<1>1. pass \in [Process -> PassState]
  BY Types
<1>2. ASSUME NEW v \in Process PROVE Sound(predictions', pass'[v])
  <2>1. CASE v = w
    BY <1>1, <2>1
  <2>2. CASE v # w
    <3>1. pass'[v] = pass[v] /\ pass[v] \in PassState /\ Sound(predictions, pass[v])
      BY <1>1, <2>2 DEF IInv
    <3> QED
      BY <3>1, SoundKept
  <2> QED
    BY <2>1, <2>2
<1> QED
  BY <1>1, <1>2

(* Predictions that do not change have grown.                              *)
LEMMA SameGrown ==
  ASSUME IInv, predictions' = predictions PROVE Grown /\ DuplicateNeedsOverlap'
<1>1. predictions \in Seq(Row) /\ Len(predictions) \in Nat /\ DuplicateNeedsOverlap
  BY Types DEF IInv
<1>2. Len(predictions) <= Len(predictions')
  BY <1>1
<1> QED
  BY <1>1, <1>2, Zenon DEF Grown, DuplicateNeedsOverlap

(* One more prediction, about a supplier that had none when the candidates *)
(* were read.                                                              *)
LEMMA AppendGrown ==
  ASSUME IInv, NEW r \in Row, predictions' = Append(predictions, r),
         r.listed <= Len(predictions), NotListed(predictions, r.listed, r.supplier)
  PROVE  /\ Grown /\ DuplicateNeedsOverlap'
         /\ Len(predictions') = Len(predictions) + 1
         /\ DOMAIN predictions' = DOMAIN predictions \cup {Len(predictions')}
         /\ predictions'[Len(predictions')] = r
         /\ \A i \in DOMAIN predictions : predictions'[i] = predictions[i]
<1> DEFINE n == Len(predictions) + 1
<1>1. /\ predictions \in Seq(Row) /\ Len(predictions) \in Nat
      /\ DOMAIN predictions = 1..Len(predictions) /\ r.listed \in Nat
  BY Types DEF Row
<1>2. /\ predictions' \in Seq(Row) /\ Len(predictions') = n /\ DOMAIN predictions' = 1..n
      /\ predictions'[n] = r
      /\ \A i \in DOMAIN predictions : predictions'[i] = predictions[i]
  BY <1>1
<1>3. Grown
  BY <1>1, <1>2 DEF Grown
<1>4. 1..n = DOMAIN predictions \cup {n}
  BY <1>1
<1>5. ASSUME NEW i \in DOMAIN predictions', NEW j \in DOMAIN predictions',
             i < j, predictions'[i].supplier = predictions'[j].supplier
      PROVE  predictions'[j].listed < i
  <2>1. i \in DOMAIN predictions
    BY <1>1, <1>2, <1>5
  <2>2. CASE j \in DOMAIN predictions
    BY <1>2, <1>5, <2>1, <2>2 DEF IInv, DuplicateNeedsOverlap
  <2>3. CASE j = n
    <3>1. predictions[i].supplier = r.supplier /\ predictions'[j] = r
      BY <1>2, <1>5, <2>1, <2>3
    <3>2. i \notin 1..r.listed
      BY <3>1 DEF NotListed
    <3> QED
      BY <1>1, <2>1, <3>1, <3>2
  <2> QED
    BY <1>2, <1>4, <2>2, <2>3
<1>6. DuplicateNeedsOverlap'
  BY <1>5, Zenon DEF DuplicateNeedsOverlap
<1> QED
  BY <1>2, <1>3, <1>4, <1>6

-----------------------------------------------------------------------------
(* The steps of a pass *)

(* A process goes on as x, and no prediction or supplier changes.          *)
LEMMA QuietPass ==
  ASSUME IInv, NEW w \in Process, NEW x \in PassState, Sound(predictions, x),
         pass' = [pass EXCEPT ![w] = x], UNCHANGED <<predictions, owners>>,
         late' \in [Supplier -> 0..MaxFailures], failures' \in 0..MaxFailures, LateIsFailure'
  PROVE  IInv'
<1>1. Grown /\ DuplicateNeedsOverlap' /\ predictions' = predictions
  BY SameGrown
<1>2. pass' \in [Process -> PassState] /\ \A v \in Process : Sound(predictions', pass'[v])
  BY <1>1, PassKept
<1>3. \A v \in Process : pass'[v].pc = "plan" => pass'[v].at \in DOMAIN predictions'
  BY <1>2 DEF Sound
<1>4. TypeOK'
  BY <1>2, <1>3 DEF IInv, TypeOK, owners, PassState
<1> QED
  BY <1>1, <1>2, <1>4 DEF IInv

(* The candidates that are read have no prediction.                        *)
LEMMA FetchKeeps ==
  ASSUME IInv, NEW w \in Process, Fetch(w) PROVE IInv'
<1>0. PICK found \in Found : pass' = [pass EXCEPT ![w] = [Asleep EXCEPT
              !.pc = "next", !.work = {s \in found : Candidate(s)}, !.listed = Len(predictions)]]
  BY DEF Fetch
<1> DEFINE x == [Asleep EXCEPT
              !.pc = "next", !.work = {s \in found : Candidate(s)}, !.listed = Len(predictions)]
<1>1. /\ Len(predictions) \in Nat /\ DOMAIN predictions = 1..Len(predictions)
      /\ found \subseteq Supplier
  BY Types DEF Found
<1>2. x \in PassState
  BY <1>1 DEF PassState, Asleep
<1>3. /\ x.listed = Len(predictions) /\ x.work = {s \in found : Candidate(s)}
      /\ x.pc = "next"
  BY DEF Asleep
<1>4. pass' = [pass EXCEPT ![w] = x] /\ UNCHANGED <<owners, predictions, late, failures>>
  BY <1>0 DEF Fetch
<1> HIDE DEF x
<1>5. Sound(predictions, x)
  BY <1>1, <1>3 DEF Sound, NotListed, Candidate, OpenPrediction
<1>6. late' \in [Supplier -> 0..MaxFailures] /\ failures' \in 0..MaxFailures /\ LateIsFailure'
  BY <1>4 DEF IInv, TypeOK, LateIsFailure
<1> QED
  BY <1>2, <1>4, <1>5, <1>6, QuietPass

(* The script is given its supplier and reads nothing.                     *)
LEMMA SeedKeeps ==
  ASSUME IInv, NEW w \in Process, NEW s \in Supplier, Seed(w, s) PROVE IInv'
<1> DEFINE x == [Asleep EXCEPT !.pc = "next", !.work = {s}]
<1>1. Len(predictions) \in Nat
  BY Types
<1>2. x \in PassState
  BY DEF PassState, Asleep
<1>3. x.listed = 0 /\ x.pc = "next"
  BY DEF Asleep
<1>4. pass' = [pass EXCEPT ![w] = x] /\ UNCHANGED <<owners, predictions, late, failures>>
  BY DEF Seed
<1> HIDE DEF x
<1>5. Sound(predictions, x)
  BY <1>1, <1>3 DEF Sound, NotListed
<1>6. late' \in [Supplier -> 0..MaxFailures] /\ failures' \in 0..MaxFailures /\ LateIsFailure'
  BY <1>4 DEF IInv, TypeOK, LateIsFailure
<1> QED
  BY <1>2, <1>4, <1>5, <1>6, QuietPass

(* A candidate is taken from the work, to be warned about or not at all.   *)
LEMMA PredictKeeps ==
  ASSUME IInv, NEW w \in Process, NEW s \in Supplier, Predict(w, s) PROVE IInv'
<1> DEFINE y == pass[w]
           a == [y EXCEPT !.pc = "post", !.work = y.work \ {s}, !.supplier = s]
           b == [y EXCEPT !.work = y.work \ {s}]
<1>1. y \in PassState /\ pass \in [Process -> PassState] /\ Sound(predictions, y)
  BY Types DEF IInv
<1>2. /\ a \in PassState /\ a.listed = y.listed /\ a.pc = "post"
      /\ a.work = y.work \ {s} /\ a.supplier = s
      /\ b \in PassState /\ b.listed = y.listed /\ b.pc = y.pc
      /\ b.work = y.work \ {s}
  BY <1>1 DEF PassState
<1>3. /\ s \in y.work /\ y.pc = "next" /\ UNCHANGED <<owners, predictions, late, failures>>
      /\ \/ pass' = [pass EXCEPT ![w] = a]
         \/ pass' = [pass EXCEPT ![w] = b]
  BY <1>1 DEF Predict
<1> HIDE DEF a, b, y
<1>4. Sound(predictions, a) /\ Sound(predictions, b)
  BY <1>1, <1>2, <1>3 DEF Sound
<1>5. late' \in [Supplier -> 0..MaxFailures] /\ failures' \in 0..MaxFailures /\ LateIsFailure'
  BY <1>3 DEF IInv, TypeOK, LateIsFailure
<1> QED
  BY <1>2, <1>3, <1>4, <1>5, QuietPass

(* A candidate that is done with, or given up.                             *)
LEMMA NextSound ==
  ASSUME IInv, NEW w \in Process
  PROVE  /\ NextCandidate(w) \in PassState
         /\ NextCandidate(w).pc = "next" /\ NextCandidate(w).listed = pass[w].listed
         /\ NextCandidate(w).work = pass[w].work
         /\ Sound(predictions, NextCandidate(w))
<1>1. pass[w] \in PassState /\ Sound(predictions, pass[w])
  BY Types DEF IInv
<1>2. /\ NextCandidate(w) \in PassState
      /\ NextCandidate(w).pc = "next" /\ NextCandidate(w).listed = pass[w].listed
      /\ NextCandidate(w).work = pass[w].work
  BY <1>1 DEF NextCandidate, PassState
<1>3. Sound(predictions, NextCandidate(w))
  BY <1>1, <1>2 DEF Sound
<1> QED
  BY <1>2, <1>3

(* The end of a pass, or of the process.                                   *)
LEMMA AsleepKeeps ==
  ASSUME IInv, NEW w \in Process, EndPass(w) \/ Crash(w) PROVE IInv'
<1> DEFINE x == [Asleep EXCEPT !.pc = IF w \in Script THEN "done" ELSE "sleep"]
<1>1. Len(predictions) \in Nat
  BY Types
<1>2. x \in PassState /\ x.listed = 0 /\ x.pc \in {"done", "sleep"} /\ x.work = {}
  BY DEF PassState, Asleep
<1>3. pass' = [pass EXCEPT ![w] = x] /\ UNCHANGED <<owners, predictions, late>>
  BY DEF EndPass, Crash
<1> HIDE DEF x
<1>4. Sound(predictions, x)
  BY <1>1, <1>2 DEF Sound
<1>5. /\ failures \in 0..MaxFailures /\ MaxFailures \in Nat
      /\ failures' = failures \/ (failures < MaxFailures /\ failures' = failures + 1)
  BY SweepAssumption DEF IInv, TypeOK, EndPass, Crash, Failure, SweepAssumption
<1>6. failures' \in 0..MaxFailures /\ failures <= failures'
  BY <1>5
<1>7. late \in [Supplier -> 0..MaxFailures]
  BY DEF IInv, TypeOK
<1>8. \A s \in Supplier : late[s] \in Nat /\ late'[s] = late[s] /\ late[s] <= failures
  BY <1>3, <1>5, <1>7 DEF IInv, LateIsFailure
<1>9. LateIsFailure'
  BY <1>5, <1>6, <1>8 DEF LateIsFailure
<1> QED
  BY <1>2, <1>3, <1>4, <1>6, <1>7, <1>9, QuietPass

(* Without consent the candidate is dropped.                               *)
LEMMA RefusedKeeps ==
  ASSUME IInv, NEW w \in Process, Refused(w) PROVE IInv'
<1>1. /\ pass' = [pass EXCEPT ![w] = NextCandidate(w)]
      /\ UNCHANGED <<owners, predictions, late, failures>>
  BY DEF Refused
<1>2. late' \in [Supplier -> 0..MaxFailures] /\ failures' \in 0..MaxFailures /\ LateIsFailure'
  BY <1>1 DEF IInv, TypeOK, LateIsFailure
<1> QED
  BY <1>1, <1>2, NextSound, QuietPass

(* A prediction is added and a process, if any, goes on as x.              *)
LEMMA AppendKeeps ==
  ASSUME IInv, NEW r \in Row, predictions' = Append(predictions, r),
         r.listed <= Len(predictions), NotListed(predictions, r.listed, r.supplier),
         UNCHANGED owners,
         pass' \in [Process -> PassState], \A v \in Process : Sound(predictions', pass'[v]),
         late' \in [Supplier -> 0..MaxFailures], failures' \in 0..MaxFailures, LateIsFailure'
  PROVE  IInv'
<1>1. /\ Grown /\ DuplicateNeedsOverlap'
      /\ DOMAIN predictions' = DOMAIN predictions \cup {Len(predictions')}
      /\ predictions'[Len(predictions')] = r
      /\ \A i \in DOMAIN predictions : predictions'[i] = predictions[i]
  BY AppendGrown
<1>2. \A v \in Process : pass'[v].pc = "plan" => pass'[v].at \in DOMAIN predictions'
  BY DEF Sound
<1>3. TypeOK'
  BY <1>1, <1>2 DEF IInv, TypeOK, owners, PassState, Row, Grown
<1> QED
  BY <1>1, <1>3 DEF IInv

(* The prediction of a candidate is new to the pass that posts it.         *)
LEMMA PostPredictionKeeps ==
  ASSUME IInv, NEW w \in Process, PostPrediction(w) PROVE IInv'
<1> DEFINE y == pass[w]
           t == TenantOf[y.supplier]
           r == NewPrediction(y.supplier, y.listed, TRUE)
           x == [y EXCEPT !.pc = "plan", !.at = Len(predictions'), !.source = Recommend(t)]
<1>1. y \in PassState /\ pass \in [Process -> PassState] /\ Sound(predictions, y) /\ y.pc = "post"
  BY Types DEF IInv, PostPrediction
<1>2. y.supplier \in Supplier /\ NotListed(predictions, y.listed, y.supplier)
  BY <1>1 DEF Sound
<1>3. r \in Row
  BY <1>1, <1>2 DEF NewPrediction, Row, PassState
<1>4. r.listed = y.listed /\ r.supplier = y.supplier /\ r.alerted
  BY DEF NewPrediction
<1>5. predictions' = Append(predictions, r) /\ UNCHANGED <<owners, late, failures>>
  BY DEF PostPrediction
<1>6. pass' = [pass EXCEPT ![w] = x]
  BY <1>1 DEF PostPrediction
<1>7. Recommend(t) \in {"own_backup", "directory", "none"}
  BY DEF Recommend
<1>8. r.listed <= Len(predictions) /\ NotListed(predictions, r.listed, r.supplier)
  BY <1>1, <1>2, <1>4 DEF Sound
<1> HIDE DEF r
<1>9. /\ Grown /\ Len(predictions') = Len(predictions) + 1 /\ Len(predictions) \in Nat
      /\ DOMAIN predictions' = DOMAIN predictions \cup {Len(predictions')}
      /\ predictions'[Len(predictions')] = r
  BY <1>3, <1>5, <1>8, AppendGrown, Types
<1>10. /\ x \in PassState /\ x.pc = "plan" /\ x.at = Len(predictions') /\ x.listed = y.listed
       /\ x.work = y.work
  <2> DEFINE n == Len(predictions')
             c == Recommend(t)
  <2>1. n \in Nat /\ c \in {"own_backup", "directory", "none"} /\ y \in PassState
    BY <1>1, <1>7, <1>9
  <2> HIDE DEF n, c, y
  <2> SUFFICES LET z == [y EXCEPT !.pc = "plan", !.at = n, !.source = c]
               IN  /\ z \in PassState /\ z.pc = "plan" /\ z.at = n /\ z.listed = y.listed
                   /\ z.work = y.work
    BY DEF n, c
  <2> QED
    BY <2>1 DEF PassState
<1> HIDE DEF x
<1>11. Sound(predictions', y)
  BY <1>1, <1>9, SoundKept
<1>12. Sound(predictions', x)
  BY <1>4, <1>9, <1>10, <1>11 DEF Sound
<1>13. pass' \in [Process -> PassState] /\ \A v \in Process : Sound(predictions', pass'[v])
  BY <1>6, <1>9, <1>10, <1>12, PassKept
<1>14. late' \in [Supplier -> 0..MaxFailures] /\ failures' \in 0..MaxFailures /\ LateIsFailure'
  BY <1>5 DEF IInv, TypeOK, LateIsFailure
<1> QED
  BY <1>3, <1>4, <1>5, <1>8, <1>13, <1>14, AppendKeeps

(* The plan is for the alert of the same prediction.                       *)
LEMMA PostPlanKeeps ==
  ASSUME IInv, NEW w \in Process, PostPlan(w) PROVE IInv'
<1> DEFINE i == pass[w].at
           r == [predictions[i] EXCEPT !.planned = TRUE]
<1>1. /\ pass[w] \in PassState /\ pass \in [Process -> PassState]
      /\ Sound(predictions, pass[w]) /\ pass[w].pc = "plan"
  BY Types DEF IInv, PostPlan
<1>2. i \in DOMAIN predictions /\ predictions[i] \in Row
  BY <1>1, Types DEF Sound
<1>3. /\ r \in Row /\ r.supplier = predictions[i].supplier /\ r.listed = predictions[i].listed
      /\ r.alerted = predictions[i].alerted
  BY <1>2 DEF Row
<1>4. /\ predictions' = [predictions EXCEPT ![i] = r]
      /\ pass' = [pass EXCEPT ![w] = NextCandidate(w)]
      /\ UNCHANGED <<owners, late, failures>>
  BY DEF PostPlan
<1> HIDE DEF r, i
<1>5. /\ predictions' \in Seq(Row) /\ Len(predictions') = Len(predictions)
      /\ DOMAIN predictions' = DOMAIN predictions
  BY <1>2, <1>3, <1>4, Types
<1>6. /\ predictions'[i] = r
      /\ \A j \in DOMAIN predictions \ {i} : predictions'[j] = predictions[j]
  BY <1>2, <1>4, Types
<1>7. \A j \in DOMAIN predictions : /\ predictions'[j].supplier = predictions[j].supplier
                                    /\ predictions'[j].listed = predictions[j].listed
                                    /\ predictions[j].alerted => predictions'[j].alerted
  BY <1>3, <1>6, Zenon
<1>8. Grown
  BY <1>5, <1>7, Types DEF Grown
<1>9. DuplicateNeedsOverlap'
  BY <1>5, <1>7 DEF IInv, DuplicateNeedsOverlap
<1>10. /\ NextCandidate(w) \in PassState
       /\ Sound(predictions', NextCandidate(w))
  BY <1>8, NextSound, SoundKept
<1>11. pass' \in [Process -> PassState] /\ \A v \in Process : Sound(predictions', pass'[v])
  BY <1>4, <1>8, <1>10, PassKept
<1>12. \A v \in Process : pass'[v].pc = "plan" => pass'[v].at \in DOMAIN predictions'
  BY <1>11 DEF Sound
<1>13. TypeOK'
  BY <1>4, <1>5, <1>11, <1>12 DEF IInv, TypeOK, owners, PassState, Row
<1>14. LateIsFailure'
  BY <1>4 DEF IInv, LateIsFailure
<1> QED
  BY <1>9, <1>11, <1>13, <1>14 DEF IInv

(* The exception of a candidate ends nothing else, whatever its callback   *)
(* has done by then.                                                       *)
LEMMA GiveUpKeeps ==
  ASSUME IInv, NEW w \in Process, ModelFails(w) \/ GiveUp(w) PROVE IInv'
<1> DEFINE s == pass[w].supplier
<1>1. /\ pass[w] \in PassState /\ pass \in [Process -> PassState]
      /\ Sound(predictions, pass[w]) /\ late \in [Supplier -> 0..MaxFailures]
      /\ MaxFailures \in Nat /\ failures \in 0..MaxFailures
  BY Types, SweepAssumption DEF IInv, TypeOK, SweepAssumption
<1>2. /\ pass' = [pass EXCEPT ![w] = NextCandidate(w)] /\ UNCHANGED owners
      /\ failures' = failures + 1 /\ failures < MaxFailures
  BY DEF ModelFails, GiveUp, Failure
<1>3. failures' \in 0..MaxFailures
  BY <1>1, <1>2
<1>4. \A o \in Supplier : late[o] \in Nat /\ late[o] <= failures
  BY <1>1 DEF IInv, LateIsFailure
<1>5. CASE UNCHANGED <<predictions, late>>
  <2>1. late' \in [Supplier -> 0..MaxFailures] /\ LateIsFailure'
    BY <1>1, <1>2, <1>4, <1>5 DEF LateIsFailure
  <2> QED
    BY <1>2, <1>3, <1>5, <2>1, NextSound, QuietPass
<1>6. ASSUME pass[w].pc = "post", UNCHANGED late, NEW alerted \in BOOLEAN,
             predictions' = Append(predictions, NewPrediction(s, pass[w].listed, alerted))
      PROVE  IInv'
  <2> DEFINE r == NewPrediction(s, pass[w].listed, alerted)
  <2>1. s \in Supplier /\ NotListed(predictions, pass[w].listed, s)
    BY <1>1, <1>6 DEF Sound
  <2>2. r \in Row /\ r.listed = pass[w].listed /\ r.supplier = s
    BY <1>1, <2>1 DEF NewPrediction, Row, PassState
  <2>3. r.listed <= Len(predictions) /\ NotListed(predictions, r.listed, r.supplier)
    BY <1>1, <2>1, <2>2 DEF Sound
  <2>4. predictions' = Append(predictions, r)
    BY <1>6
  <2> HIDE DEF r
  <2>5. Grown
    BY <2>2, <2>3, <2>4, AppendGrown
  <2>6. /\ NextCandidate(w) \in PassState
        /\ Sound(predictions', NextCandidate(w))
    BY <2>5, NextSound, SoundKept
  <2>7. pass' \in [Process -> PassState] /\ \A v \in Process : Sound(predictions', pass'[v])
    BY <1>2, <2>5, <2>6, PassKept
  <2>8. late' \in [Supplier -> 0..MaxFailures] /\ LateIsFailure'
    BY <1>1, <1>2, <1>4, <1>6 DEF LateIsFailure
  <2> QED
    BY <1>2, <1>3, <2>2, <2>3, <2>4, <2>7, <2>8, AppendKeeps
<1>7. CASE late' = [late EXCEPT ![s] = @ + 1] /\ UNCHANGED predictions
  <2>1. \A o \in Supplier : late'[o] = late[o] \/ late'[o] = late[o] + 1
    BY <1>1, <1>7
  <2>2. \A o \in Supplier : late'[o] \in 0..MaxFailures /\ late'[o] <= failures'
    BY <1>1, <1>2, <1>4, <2>1
  <2>3. late' \in [Supplier -> 0..MaxFailures] /\ LateIsFailure'
    BY <1>1, <1>7, <2>2 DEF LateIsFailure
  <2> QED
    BY <1>2, <1>3, <1>7, <2>3, NextSound, QuietPass
<1> QED
  BY <1>5, <1>6, <1>7 DEF ModelFails, GiveUp

(* A callback nobody waits for adds its prediction.                        *)
LEMMA LateKeeps ==
  ASSUME IInv, NEW s \in Supplier, LatePrediction(s) PROVE IInv'
<1>0. PICK alerted \in BOOLEAN : predictions' = Append(predictions, NewPrediction(s, 0, alerted))
  BY DEF LatePrediction
<1> DEFINE r == NewPrediction(s, 0, alerted)
<1>1. /\ pass \in [Process -> PassState] /\ late \in [Supplier -> 0..MaxFailures]
      /\ MaxFailures \in Nat /\ failures \in 0..MaxFailures /\ Len(predictions) \in Nat
  BY Types, SweepAssumption DEF IInv, TypeOK, SweepAssumption
<1>2. r \in Row /\ r.listed = 0 /\ r.supplier = s
  BY DEF NewPrediction, Row
<1>3. /\ predictions' = Append(predictions, r) /\ UNCHANGED <<owners, pass, failures>>
      /\ late[s] > 0 /\ late' = [late EXCEPT ![s] = @ - 1]
  BY <1>0 DEF LatePrediction
<1> HIDE DEF r
<1>4. r.listed <= Len(predictions) /\ NotListed(predictions, r.listed, r.supplier)
  BY <1>1, <1>2 DEF NotListed
<1>5. Grown
  BY <1>2, <1>3, <1>4, AppendGrown
<1>6. pass' \in [Process -> PassState] /\ \A v \in Process : Sound(predictions', pass'[v])
  <2>1. ASSUME NEW v \in Process PROVE Sound(predictions', pass'[v])
    BY <1>1, <1>3, <1>5, SoundKept DEF IInv
  <2> QED
    BY <1>1, <1>3, <2>1
<1>7. \A o \in Supplier : late'[o] \in 0..MaxFailures /\ late'[o] <= failures
  <2>1. \A o \in Supplier : /\ late[o] \in 0..MaxFailures /\ late[o] <= failures
                            /\ late'[o] = late[o] \/ (late[o] > 0 /\ late'[o] = late[o] - 1)
    BY <1>1, <1>3 DEF IInv, LateIsFailure
  <2> QED
    BY <1>1, <2>1
<1>8. late' \in [Supplier -> 0..MaxFailures] /\ failures' \in 0..MaxFailures /\ LateIsFailure'
  BY <1>1, <1>3, <1>7 DEF LateIsFailure
<1> QED
  BY <1>2, <1>3, <1>4, <1>6, <1>8, AppendKeeps

(* The owners change what the next pass will read.                         *)
LEMMA OwnersKeep ==
  ASSUME IInv,
         (\E s \in Supplier \cap Edited : SetKind(s))
            \/ (\E t \in Tenant \cap Edited : SetStock(t) \/ Consent(t))
            \/ UNCHANGED vars
  PROVE  IInv'
<1>1. UNCHANGED <<predictions, pass, late, failures>>
  BY DEF SetKind, SetStock, Consent, vars
<1>2. /\ edits \in 0..MaxEdits /\ MaxEdits \in Nat
      /\ edits' = edits \/ (edits < MaxEdits /\ edits' = edits + 1)
  BY SweepAssumption DEF IInv, TypeOK, SetKind, SetStock, Consent, vars, owners, SweepAssumption
<1>3. edits' \in 0..MaxEdits
  BY <1>2
<1>4. kind' \in [Supplier -> {"none", "primary", "backup"}]
  BY DEF IInv, TypeOK, SetKind, SetStock, Consent, vars, owners
<1>5. consented' \in SUBSET Tenant /\ atRisk' \in SUBSET Tenant
  BY DEF IInv, TypeOK, SetKind, SetStock, Consent, vars, owners
<1>6. TypeOK'
  BY <1>1, <1>3, <1>4, <1>5 DEF IInv, TypeOK
<1>7. \A w \in Process : Sound(predictions', pass'[w])
  BY <1>1 DEF IInv
<1>8. LateIsFailure' /\ DuplicateNeedsOverlap'
  BY <1>1, Zenon DEF IInv, LateIsFailure, DuplicateNeedsOverlap
<1> QED
  BY <1>6, <1>7, <1>8 DEF IInv

(* Nothing has happened yet.                                               *)
LEMMA InvInit == Init => IInv
<1> SUFFICES ASSUME Init PROVE IInv
  OBVIOUS
<1>1. predictions = <<>> /\ Len(predictions) = 0 /\ DOMAIN predictions = {}
  BY DEF Init
<1>2. Asleep \in PassState
  BY DEF Asleep, PassState
<1>3. \A w \in Process : pass[w] = Asleep
  BY DEF Init
<1>4. pass \in [Process -> PassState] /\ predictions \in Seq(Row)
  BY <1>2 DEF Init
<1>5. \A w \in Process : Sound(predictions, pass[w])
  BY <1>1, <1>3 DEF Sound, Asleep
<1>6. LateIsFailure /\ late \in [Supplier -> 0..MaxFailures] /\ failures \in 0..MaxFailures
  BY SweepAssumption DEF Init, LateIsFailure, SweepAssumption
<1>7. DuplicateNeedsOverlap
  BY <1>1 DEF DuplicateNeedsOverlap
<1>8. /\ kind \in [Supplier -> {"none", "primary", "backup"}] /\ edits \in 0..MaxEdits
      /\ consented \in SUBSET Tenant /\ atRisk \in SUBSET Tenant
  BY SweepAssumption DEF Init, SweepAssumption
<1>9. \A w \in Process : pass[w].pc # "plan"
  BY <1>3 DEF Asleep
<1>10. TypeOK
  BY <1>4, <1>6, <1>8, <1>9 DEF TypeOK, PassState, Row
<1> QED
  BY <1>5, <1>6, <1>7, <1>10 DEF IInv

(* Every step keeps the invariant.                                         *)
LEMMA InvNext == IInv /\ [Next]_vars => IInv'
<1> SUFFICES ASSUME IInv, [Next]_vars PROVE IInv'
  OBVIOUS
<1>1. ASSUME NEW w \in Process, Step(w) \/ ModelFails(w) \/ GiveUp(w) \/ Crash(w) PROVE IInv'
  BY <1>1, FetchKeeps, PredictKeeps, PostPredictionKeeps, RefusedKeeps, PostPlanKeeps,
     AsleepKeeps, GiveUpKeeps DEF Step
<1>2. ASSUME NEW w \in Script, NEW s \in Supplier, Seed(w, s) PROVE IInv'
  BY <1>2, SeedKeeps DEF Process
<1>3. ASSUME NEW s \in Supplier, LatePrediction(s) PROVE IInv'
  BY <1>3, LateKeeps
<1>4. CASE \/ \E s \in Supplier \cap Edited : SetKind(s)
           \/ \E t \in Tenant \cap Edited : SetStock(t) \/ Consent(t)
           \/ UNCHANGED vars
  BY <1>4, OwnersKeep
<1> QED
  BY <1>1, <1>2, <1>3, <1>4 DEF Next

-----------------------------------------------------------------------------
(* What is lost *)

Worked(i) == \E w \in Process : pass[w].pc = "plan" /\ pass[w].at = i

Lost == {i \in DOMAIN predictions :
            (~predictions[i].alerted \/ ~predictions[i].planned) /\ ~Worked(i)}

(* One element for each callback nobody waits for.                         *)
Overdue == {x \in Supplier \X Nat : x[2] \in 1..late[x[1]]}

(* What is lost, or may still turn up and be lost, took a failure each.    *)
LossBudget ==
    /\ IsFiniteSet(Overdue)
    /\ Cardinality(Lost) + Cardinality(Overdue) <= failures

(* There are finitely many predictions to lose.                            *)
LEMMA LostFinite ==
  ASSUME IInv PROVE IsFiniteSet(Lost) /\ Cardinality(Lost) \in Nat
<1>1. Len(predictions) \in Nat /\ DOMAIN predictions = 1..Len(predictions)
  BY Types
<1>2. IsFiniteSet(DOMAIN predictions) /\ Lost \subseteq DOMAIN predictions
  BY <1>1, FS_Interval DEF Lost
<1> QED
  BY <1>2, FS_Subset, FS_CardinalityType

(* The budget bounds what the property counts.                             *)
LEMMA BudgetBounds ==
  ASSUME IInv, LossBudget PROVE LossesAreFailures
<1>1. Cardinality(Lost) \in Nat /\ Cardinality(Overdue) \in Nat /\ failures \in Nat
  BY LostFinite, FS_CardinalityType DEF LossBudget, IInv, TypeOK
<1>2. Lost = {i \in DOMAIN predictions :
                 /\ ~predictions[i].alerted \/ ~predictions[i].planned
                 /\ \A w \in Process : ~(pass[w].pc = "plan" /\ pass[w].at = i)}
  BY DEF Lost, Worked
<1>3. Cardinality(Lost) <= failures
  BY <1>1 DEF LossBudget
<1> QED
  BY <1>2, <1>3 DEF LossesAreFailures

(* A step that loses nothing.                                              *)
LEMMA NothingLost ==
  ASSUME IInv, IInv', LossBudget, Lost' \subseteq Lost, late' = late,
         failures' = failures \/ failures' = failures + 1
  PROVE  LossBudget'
<1>1. Cardinality(Lost') <= Cardinality(Lost) /\ Cardinality(Lost') \in Nat
      /\ Cardinality(Lost) \in Nat
  BY LostFinite, FS_Subset, FS_CardinalityType
<1>2. Overdue' = Overdue
  BY DEF Overdue
<1>3. Cardinality(Overdue) \in Nat /\ failures \in Nat
  BY FS_CardinalityType DEF LossBudget, IInv, TypeOK
<1> QED
  BY <1>1, <1>2, <1>3 DEF LossBudget

(* A step that loses one prediction and is a failure.                      *)
LEMMA OneLost ==
  ASSUME IInv, IInv', LossBudget, NEW i, Lost' \subseteq Lost \cup {i}, late' = late,
         failures' = failures + 1
  PROVE  LossBudget'
<1>1. /\ IsFiniteSet(Lost \cup {i}) /\ Cardinality(Lost \cup {i}) \in Nat
      /\ Cardinality(Lost \cup {i}) <= Cardinality(Lost) + 1 /\ Cardinality(Lost) \in Nat
  <2>1. IsFiniteSet(Lost) /\ Cardinality(Lost) \in Nat
    BY LostFinite
  <2>2. /\ IsFiniteSet(Lost \cup {i})
        /\ Cardinality(Lost \cup {i}) = IF i \in Lost THEN Cardinality(Lost)
                                                      ELSE Cardinality(Lost) + 1
    BY <2>1, FS_AddElement
  <2> QED
    BY <2>1, <2>2
<1>2. Cardinality(Lost') <= Cardinality(Lost \cup {i}) /\ Cardinality(Lost') \in Nat
  BY <1>1, FS_Subset, FS_CardinalityType
<1>3. Overdue' = Overdue
  BY DEF Overdue
<1>4. Cardinality(Overdue) \in Nat /\ failures \in Nat
  BY FS_CardinalityType DEF LossBudget, IInv, TypeOK
<1> QED
  BY <1>1, <1>2, <1>3, <1>4 DEF LossBudget

(* Only a process that works on the prediction i can leave it.             *)
LEMMA WorkStays ==
  ASSUME IInv, NEW w \in Process, NEW x, pass' = [pass EXCEPT ![w] = x],
         NEW i, ~(pass[w].pc = "plan" /\ pass[w].at = i), Worked(i)
  PROVE  Worked(i)'
<1>1. pass \in [Process -> PassState]
  BY Types
<1>2. PICK v \in Process : pass[v].pc = "plan" /\ pass[v].at = i
  BY DEF Worked
<1>3. v # w /\ pass'[v] = pass[v]
  BY <1>1, <1>2
<1> QED
  BY <1>2, <1>3 DEF Worked

(* Predictions that stay, and are left by nobody.                          *)
LEMMA LostSame ==
  ASSUME predictions' = predictions, \A i \in DOMAIN predictions : Worked(i) => Worked(i)'
  PROVE  Lost' \subseteq Lost
BY Zenon DEF Lost

(* Of predictions that are added to, only the last can be lost now.        *)
LEMMA LostAppend ==
  ASSUME IInv, NEW r \in Row, predictions' = Append(predictions, r),
         \A i \in DOMAIN predictions : Worked(i) => Worked(i)'
  PROVE  Lost' \subseteq Lost \cup {Len(predictions')}
<1>1. /\ predictions \in Seq(Row) /\ Len(predictions) \in Nat
      /\ DOMAIN predictions = 1..Len(predictions)
  BY Types
<1>2. /\ Len(predictions') = Len(predictions) + 1 /\ DOMAIN predictions' = 1..Len(predictions')
      /\ \A i \in DOMAIN predictions : predictions'[i] = predictions[i]
  BY <1>1
<1>3. \A i \in DOMAIN predictions' : i \in DOMAIN predictions \/ i = Len(predictions')
  BY <1>1, <1>2
<1> QED
  BY <1>2, <1>3, Zenon DEF Lost

(* The steps of a pass that went well, and those of the owners.            *)
LEMMA QuietLoses ==
  ASSUME IInv, IInv', LossBudget, UNCHANGED <<predictions, late, failures>>,
         \/ UNCHANGED pass
         \/ \E w \in Process : pass[w].pc # "plan" /\ \E x : pass' = [pass EXCEPT ![w] = x]
  PROVE  LossBudget'
<1>1. \A i \in DOMAIN predictions : Worked(i) => Worked(i)'
  <2>1. CASE UNCHANGED pass
    BY <2>1 DEF Worked
  <2>2. ASSUME NEW w \in Process, pass[w].pc # "plan", NEW x, pass' = [pass EXCEPT ![w] = x]
        PROVE  \A i \in DOMAIN predictions : Worked(i) => Worked(i)'
    BY <2>2, WorkStays
  <2> QED
    BY <2>1, <2>2
<1> QED
  BY <1>1, LostSame, NothingLost

(* A prediction that its pass goes on with is not lost.                    *)
LEMMA PostPredictionLoses ==
  ASSUME IInv, IInv', LossBudget, NEW w \in Process, PostPrediction(w) PROVE LossBudget'
<1> DEFINE r == NewPrediction(pass[w].supplier, pass[w].listed, TRUE)
<1>0. PICK n : n = Len(predictions')
  OBVIOUS
<1>1. /\ pass \in [Process -> PassState] /\ pass[w] \in PassState /\ pass[w].pc = "post"
      /\ Sound(predictions, pass[w])
  BY Types DEF IInv, PostPrediction
<1>2. r \in Row
  BY <1>1 DEF Sound, NewPrediction, Row, PassState
<1>3. predictions' = Append(predictions, r) /\ UNCHANGED <<late, failures>>
  BY DEF PostPrediction
<1>4. PICK x : pass' = [pass EXCEPT ![w] = x] /\ x.pc = "plan" /\ x.at = n
  <2> DEFINE x == [pass[w] EXCEPT !.pc = "plan", !.at = n,
                                  !.source = Recommend(TenantOf[pass[w].supplier])]
  <2>1. pass' = [pass EXCEPT ![w] = x]
    BY <1>0, <1>1 DEF PostPrediction
  <2>2. x.pc = "plan" /\ x.at = n
    BY <1>1 DEF PassState
  <2> HIDE DEF x
  <2> QED
    BY <2>1, <2>2
<1> HIDE DEF r
<1>5. \A i \in DOMAIN predictions : Worked(i) => Worked(i)'
  BY <1>1, <1>4, WorkStays
<1>6. Lost' \subseteq Lost \cup {n}
  BY <1>0, <1>2, <1>3, <1>5, LostAppend
<1>7. Worked(n)'
  BY <1>1, <1>4 DEF Worked
<1>8. n \notin Lost'
  BY <1>7 DEF Lost
<1>9. Lost' \subseteq Lost
  BY <1>6, <1>8
<1> QED
  BY <1>3, <1>9, NothingLost

(* A plan is posted under an alert: nothing is lost then.                  *)
LEMMA PostPlanLoses ==
  ASSUME IInv, IInv', LossBudget, NEW w \in Process, PostPlan(w) PROVE LossBudget'
<1> DEFINE i == pass[w].at
           r == [predictions[i] EXCEPT !.planned = TRUE]
<1>1. Sound(predictions, pass[w]) /\ pass[w].pc = "plan"
  BY DEF IInv, PostPlan
<1>2. /\ i \in DOMAIN predictions /\ predictions[i] \in Row /\ predictions[i].alerted
      /\ predictions \in Seq(Row)
  BY <1>1, Types DEF Sound
<1>3. r.planned /\ r.alerted
  BY <1>2 DEF Row
<1>4. /\ predictions' = [predictions EXCEPT ![i] = r]
      /\ pass' = [pass EXCEPT ![w] = NextCandidate(w)] /\ UNCHANGED <<late, failures>>
  BY DEF PostPlan
<1> HIDE DEF r, i
<1>5. /\ DOMAIN predictions' = DOMAIN predictions /\ predictions'[i] = r
      /\ \A j \in DOMAIN predictions \ {i} : predictions'[j] = predictions[j]
  BY <1>2, <1>4
<1>6. i = pass[w].at
  BY DEF i
<1>7. \A j \in DOMAIN predictions \ {i} : Worked(j) => Worked(j)'
  BY <1>4, <1>6, WorkStays
<1>8. Lost' \subseteq Lost
  BY <1>3, <1>5, <1>7, Zenon DEF Lost
<1> QED
  BY <1>4, <1>8, NothingLost

(* A process that dies loses at most the prediction it worked on.          *)
LEMMA CrashLoses ==
  ASSUME IInv, IInv', LossBudget, NEW w \in Process, NEW x,
         pass' = [pass EXCEPT ![w] = x], UNCHANGED <<predictions, late>>, Failure
  PROVE  LossBudget'
<1>1. \A i \in DOMAIN predictions \ {pass[w].at} : Worked(i) => Worked(i)'
  BY WorkStays
<1>2. Lost' \subseteq Lost \cup {pass[w].at}
  BY <1>1, Zenon DEF Lost
<1> QED
  BY <1>2, OneLost DEF Failure

(* A candidate that is given up is a failure, and one prediction at most:  *)
(* lost, stored without its alert or plan, or still to be stored.          *)
LEMMA GiveUpLoses ==
  ASSUME IInv, IInv', LossBudget, NEW w \in Process, ModelFails(w) \/ GiveUp(w)
  PROVE  LossBudget'
<1> DEFINE s == pass[w].supplier
<1>1. /\ pass[w] \in PassState /\ Sound(predictions, pass[w])
      /\ late \in [Supplier -> 0..MaxFailures] /\ failures \in Nat
  BY Types DEF IInv, TypeOK
<1>2. pass' = [pass EXCEPT ![w] = NextCandidate(w)] /\ failures' = failures + 1 /\ Failure
  BY DEF ModelFails, GiveUp, Failure
<1>3. CASE UNCHANGED <<predictions, late>>
  BY <1>2, <1>3, CrashLoses
<1>4. ASSUME pass[w].pc = "post", UNCHANGED late, NEW alerted \in BOOLEAN,
             predictions' = Append(predictions, NewPrediction(s, pass[w].listed, alerted))
      PROVE  LossBudget'
  <2> DEFINE r == NewPrediction(s, pass[w].listed, alerted)
  <2>1. r \in Row
    BY <1>1, <1>4 DEF Sound, NewPrediction, Row, PassState
  <2>2. predictions' = Append(predictions, r)
    BY <1>4
  <2> HIDE DEF r
  <2>3. \A i \in DOMAIN predictions : Worked(i) => Worked(i)'
    BY <1>2, <1>4, WorkStays
  <2>4. Lost' \subseteq Lost \cup {Len(predictions')}
    BY <2>1, <2>2, <2>3, LostAppend
  <2> QED
    BY <1>2, <1>4, <2>4, OneLost
<1>5. CASE pass[w].pc = "post" /\ late' = [late EXCEPT ![s] = @ + 1] /\ UNCHANGED predictions
  <2>1. s \in Supplier
    BY <1>1, <1>5 DEF Sound
  <2>2. \A i \in DOMAIN predictions : Worked(i) => Worked(i)'
    BY <1>2, <1>5, WorkStays
  <2>3. Lost' \subseteq Lost
    BY <1>5, <2>2, LostSame
  <2>4. Overdue' = Overdue \cup {<<s, late[s] + 1>>}
    <3>1. /\ late'[s] = late[s] + 1 /\ \A o \in Supplier : late[o] \in Nat
          /\ \A o \in Supplier \ {s} : late'[o] = late[o]
      BY <1>1, <1>5, <2>1
    <3>2. 1..late'[s] = 1..late[s] \cup {late[s] + 1} /\ late[s] + 1 \in Nat
      BY <2>1, <3>1
    <3> HIDE DEF s
    <3> QED
      BY <2>1, <3>1, <3>2 DEF Overdue
  <2>5. /\ IsFiniteSet(Overdue') /\ Cardinality(Overdue') <= Cardinality(Overdue) + 1
        /\ Cardinality(Overdue) \in Nat /\ Cardinality(Overdue') \in Nat
    <3>1. IsFiniteSet(Overdue) /\ Cardinality(Overdue) \in Nat
      BY FS_CardinalityType DEF LossBudget
    <3>2. IsFiniteSet(Overdue') /\ Cardinality(Overdue') =
            IF <<s, late[s] + 1>> \in Overdue THEN Cardinality(Overdue) ELSE Cardinality(Overdue) + 1
      BY <2>4, <3>1, FS_AddElement
    <3> QED
      BY <3>1, <3>2
  <2>6. Cardinality(Lost') <= Cardinality(Lost) /\ Cardinality(Lost') \in Nat /\ Cardinality(Lost) \in Nat
    BY <2>3, LostFinite, FS_Subset, FS_CardinalityType
  <2> QED
    BY <1>1, <1>2, <2>5, <2>6 DEF LossBudget
<1> QED
  BY <1>3, <1>4, <1>5 DEF ModelFails, GiveUp

(* A late callback is one less to come, and one prediction nobody works on.*)
LEMMA LateLoses ==
  ASSUME IInv, IInv', LossBudget, NEW s \in Supplier, LatePrediction(s) PROVE LossBudget'
<1>0. PICK alerted \in BOOLEAN : predictions' = Append(predictions, NewPrediction(s, 0, alerted))
  BY DEF LatePrediction
<1> DEFINE r == NewPrediction(s, 0, alerted)
           o == <<s, late[s]>>
<1>1. late \in [Supplier -> 0..MaxFailures] /\ failures \in Nat /\ MaxFailures \in Nat
  BY SweepAssumption DEF IInv, TypeOK, SweepAssumption
<1>2. r \in Row
  BY DEF NewPrediction, Row
<1>3. /\ predictions' = Append(predictions, r) /\ UNCHANGED <<pass, failures>>
      /\ late[s] > 0 /\ late' = [late EXCEPT ![s] = @ - 1]
  BY <1>0 DEF LatePrediction
<1> HIDE DEF r
<1>4. \A i \in DOMAIN predictions : Worked(i) => Worked(i)'
  BY <1>3 DEF Worked
<1>5. PICK n : n = Len(predictions')
  OBVIOUS
<1>6. Lost' \subseteq Lost \cup {n}
  BY <1>2, <1>3, <1>4, <1>5, LostAppend
<1>7. Overdue' = Overdue \ {o} /\ o \in Overdue
  <2>1. /\ \A x \in Supplier : late[x] \in Nat
        /\ late[s] > 0 /\ late'[s] = late[s] - 1
        /\ \A x \in Supplier \ {s} : late'[x] = late[x]
    BY <1>1, <1>3
  <2>2. 1..late'[s] = 1..late[s] \ {late[s]} /\ late[s] \in 1..late[s] /\ late[s] \in Nat
    BY <2>1
  <2> QED
    BY <2>1, <2>2 DEF Overdue
<1> HIDE DEF o
<1>8. /\ IsFiniteSet(Overdue') /\ Cardinality(Overdue') = Cardinality(Overdue) - 1
      /\ Cardinality(Overdue) \in Nat
  BY <1>7, FS_RemoveElement, FS_CardinalityType DEF LossBudget
<1>9. /\ Cardinality(Lost \cup {n}) \in Nat /\ IsFiniteSet(Lost \cup {n})
      /\ Cardinality(Lost \cup {n}) <= Cardinality(Lost) + 1 /\ Cardinality(Lost) \in Nat
  <2>1. IsFiniteSet(Lost) /\ Cardinality(Lost) \in Nat
    BY LostFinite
  <2>2. /\ IsFiniteSet(Lost \cup {n})
        /\ Cardinality(Lost \cup {n}) = IF n \in Lost THEN Cardinality(Lost)
                                                      ELSE Cardinality(Lost) + 1
    BY <2>1, FS_AddElement
  <2> QED
    BY <2>1, <2>2
<1>10. Cardinality(Lost') <= Cardinality(Lost \cup {n}) /\ Cardinality(Lost') \in Nat
  BY <1>6, <1>9, FS_Subset, FS_CardinalityType
<1> QED
  BY <1>1, <1>3, <1>8, <1>9, <1>10 DEF LossBudget

(* Every step keeps the budget.                                            *)
LEMMA BudgetNext == IInv /\ IInv' /\ LossBudget /\ [Next]_vars => LossBudget'
<1> SUFFICES ASSUME IInv, IInv', LossBudget, [Next]_vars PROVE LossBudget'
  OBVIOUS
<1>1. ASSUME NEW w \in Process, NEW s \in Supplier,
             Fetch(w) \/ Seed(w, s) \/ Predict(w, s) \/ Refused(w) \/ EndPass(w)
      PROVE  LossBudget'
  <2>1. UNCHANGED <<predictions, late, failures>> /\ pass[w].pc # "plan"
    BY <1>1 DEF Fetch, Seed, Predict, Refused, EndPass
  <2>2. \E x : pass' = [pass EXCEPT ![w] = x]
    <3>1. CASE Fetch(w) \/ Seed(w, s) \/ Refused(w) \/ EndPass(w)
      BY <3>1 DEF Fetch, Seed, Refused, EndPass
    <3>2. CASE Predict(w, s)
      BY <3>2 DEF Predict
    <3> QED
      BY <1>1, <3>1, <3>2
  <2> QED
    BY <2>1, <2>2, QuietLoses
<1>2. ASSUME NEW w \in Process, Fetch(w) \/ Refused(w) \/ EndPass(w) PROVE LossBudget'
  <2>1. UNCHANGED <<predictions, late, failures>> /\ pass[w].pc # "plan"
    BY <1>2 DEF Fetch, Refused, EndPass
  <2>2. \E x : pass' = [pass EXCEPT ![w] = x]
    BY <1>2 DEF Fetch, Refused, EndPass
  <2> QED
    BY <2>1, <2>2, QuietLoses
<1>3. ASSUME NEW w \in Process, Crash(w) PROVE LossBudget'
  BY <1>3, CrashLoses DEF Crash
<1>4. ASSUME NEW w \in Process, Step(w) PROVE LossBudget'
  BY <1>1, <1>2, <1>4, PostPredictionLoses, PostPlanLoses DEF Step
<1>5. ASSUME UNCHANGED <<predictions, pass, late, failures>> PROVE LossBudget'
  BY <1>5, QuietLoses
<1>6. CASE \/ \E s \in Supplier \cap Edited : SetKind(s)
           \/ \E t \in Tenant \cap Edited : SetStock(t) \/ Consent(t)
           \/ UNCHANGED vars
  BY <1>5, <1>6 DEF SetKind, SetStock, Consent, vars
<1> QED
  BY <1>1, <1>3, <1>4, <1>6, GiveUpLoses, LateLoses DEF Next, Process

(* No prediction, no callback.                                             *)
LEMMA BudgetInit == Init => LossBudget
<1> SUFFICES ASSUME Init PROVE LossBudget
  OBVIOUS
<1>1. Lost = {} /\ failures = 0
  BY DEF Init, Lost
<1>2. Overdue = {}
  <2>1. \A s \in Supplier : 1..late[s] = {}
    BY DEF Init
  <2> QED
    BY <2>1 DEF Overdue
<1> QED
  BY <1>1, <1>2, FS_EmptySet DEF LossBudget

-----------------------------------------------------------------------------
(* SweepPipeline implements OwnerView *)

(* No owner has been shown anything.                                       *)
LEMMA ViewInit == Init => View!Init
BY DEF Init, View!Init, attentionOf, planOf

(* A prediction that is added shows its alert, if it was raised, and no    *)
(* plan; the others look as before.                                        *)
LEMMA AppendShows ==
  ASSUME IInv, NEW r \in Row, ~r.planned, predictions' = Append(predictions, r)
  PROVE  View!Next \/ UNCHANGED <<attentionOf, planOf>>
<1> DEFINE n == Len(predictions) + 1
<1>1. /\ DOMAIN predictions' = DOMAIN predictions \cup {n} /\ n \notin DOMAIN predictions
      /\ predictions'[n] = r /\ \A i \in DOMAIN predictions : predictions'[i] = predictions[i]
  BY Types
<1> HIDE DEF n
<1>2. planOf' = planOf
  <2>1. \A i \in Slot : (i \in DOMAIN predictions' /\ predictions'[i].planned)
                            <=> (i \in DOMAIN predictions /\ predictions[i].planned)
    BY <1>1
  <2> QED
    BY <2>1, Zenon DEF planOf
<1>3. \A i \in Slot : i # n => attentionOf'[i] = attentionOf[i]
  BY <1>1 DEF attentionOf
<1>4. attentionOf = [i \in Slot |-> attentionOf[i]] /\ attentionOf' = [i \in Slot |-> attentionOf'[i]]
  BY DEF attentionOf
<1>5. CASE n \in Slot /\ r.alerted
  <2>1. attentionOf[n] = "none" /\ attentionOf'[n] = "new"
    BY <1>1, <1>5 DEF attentionOf
  <2>2. attentionOf' = [attentionOf EXCEPT ![n] = "new"]
    BY <1>3, <1>4, <2>1
  <2>3. View!Warn(n)
    BY <1>2, <2>1, <2>2 DEF View!Warn
  <2> QED
    BY <1>5, <2>3 DEF View!Next
<1>6. CASE ~ (n \in Slot /\ r.alerted)
  <2>1. n \in Slot => attentionOf'[n] = attentionOf[n]
    BY <1>1, <1>6 DEF attentionOf
  <2> QED
    BY <1>2, <1>3, <1>4, <2>1
<1> QED
  BY <1>5, <1>6

(* A plan that is stored shows under the alert its pass was answered with. *)
LEMMA PlanShows ==
  ASSUME IInv, NEW w \in Process, PostPlan(w)
  PROVE  View!Next \/ UNCHANGED <<attentionOf, planOf>>
<1> DEFINE n == pass[w].at
<1>1. n \in DOMAIN predictions /\ predictions[n].alerted
  BY DEF PostPlan, IInv, Sound
<1>2. /\ DOMAIN predictions' = DOMAIN predictions /\ predictions'[n].planned
      /\ \A i \in DOMAIN predictions : predictions'[i].alerted = predictions[i].alerted
      /\ \A i \in DOMAIN predictions : i # n => predictions'[i].planned = predictions[i].planned
  BY <1>1, Types DEF PostPlan, Row
<1> HIDE DEF n
<1>3. attentionOf' = attentionOf
  <2>1. \A i \in Slot : (i \in DOMAIN predictions' /\ predictions'[i].alerted)
                            <=> (i \in DOMAIN predictions /\ predictions[i].alerted)
    BY <1>2
  <2> QED
    BY <2>1, Zenon DEF attentionOf
<1>4. \A i \in Slot : i # n => planOf'[i] = planOf[i]
  BY <1>2 DEF planOf
<1>5. planOf = [i \in Slot |-> planOf[i]] /\ planOf' = [i \in Slot |-> planOf'[i]]
  BY DEF planOf
<1>6. CASE n \in Slot /\ ~predictions[n].planned
  <2>1. planOf[n] = "none" /\ planOf'[n] = "pending" /\ attentionOf[n] = "new"
    BY <1>1, <1>2, <1>6 DEF planOf, attentionOf
  <2>2. planOf' = [planOf EXCEPT ![n] = "pending"]
    BY <1>4, <1>5, <2>1
  <2>3. View!Advise(n)
    BY <1>3, <2>1, <2>2 DEF View!Advise
  <2> QED
    BY <1>6, <2>3 DEF View!Next
<1>7. CASE ~ (n \in Slot /\ ~predictions[n].planned)
  <2>1. n \in Slot => planOf'[n] = planOf[n]
    BY <1>1, <1>2, <1>7 DEF planOf
  <2> QED
    BY <1>3, <1>4, <1>5, <2>1
<1> QED
  BY <1>6, <1>7

(* Every step is one the owner may see, or shows nothing.                  *)
LEMMA ViewNext ==
  ASSUME IInv, [Next]_vars
  PROVE  View!Next \/ UNCHANGED <<attentionOf, planOf>>
<1>1. ASSUME NEW w \in Process, PostPrediction(w)
      PROVE  View!Next \/ UNCHANGED <<attentionOf, planOf>>
  <2>1. NewPrediction(pass[w].supplier, pass[w].listed, TRUE) \in Row
    BY <1>1, Types DEF PostPrediction, IInv, Sound, NewPrediction, Row, PassState
  <2> QED
    BY <1>1, <2>1, AppendShows DEF PostPrediction, NewPrediction
<1>2. ASSUME NEW w \in Process, ModelFails(w) \/ GiveUp(w)
      PROVE  View!Next \/ UNCHANGED <<attentionOf, planOf>>
  <2>1. CASE predictions' = predictions
    BY <2>1 DEF attentionOf, planOf
  <2>2. ASSUME pass[w].pc = "post", NEW alerted \in BOOLEAN,
               predictions' = Append(predictions,
                                     NewPrediction(pass[w].supplier, pass[w].listed, alerted))
        PROVE  View!Next \/ UNCHANGED <<attentionOf, planOf>>
    <3>1. NewPrediction(pass[w].supplier, pass[w].listed, alerted) \in Row
      BY <2>2, Types DEF IInv, Sound, NewPrediction, Row, PassState
    <3> QED
      BY <2>2, <3>1, AppendShows DEF NewPrediction
  <2> QED
    BY <1>2, <2>1, <2>2 DEF ModelFails, GiveUp
<1>3. ASSUME NEW s \in Supplier, LatePrediction(s)
      PROVE  View!Next \/ UNCHANGED <<attentionOf, planOf>>
  <2>1. PICK alerted \in BOOLEAN : predictions' = Append(predictions, NewPrediction(s, 0, alerted))
    BY <1>3 DEF LatePrediction
  <2>2. NewPrediction(s, 0, alerted) \in Row
    BY DEF NewPrediction, Row
  <2> QED
    BY <2>1, <2>2, AppendShows DEF NewPrediction
<1>4. ASSUME UNCHANGED predictions PROVE UNCHANGED <<attentionOf, planOf>>
  BY <1>4 DEF attentionOf, planOf
<1>5. ASSUME NEW w \in Process, Step(w) \/ Crash(w)
      PROVE  PostPrediction(w) \/ PostPlan(w) \/ UNCHANGED predictions
  BY <1>5 DEF Step, Fetch, Predict, Refused, EndPass, Crash
<1>6. ASSUME \/ \E w \in Script, s \in Supplier : Seed(w, s)
             \/ \E s \in Supplier \cap Edited : SetKind(s)
             \/ \E t \in Tenant \cap Edited : SetStock(t) \/ Consent(t)
             \/ UNCHANGED vars
      PROVE  UNCHANGED predictions
  BY <1>6 DEF Seed, SetKind, SetStock, Consent, vars
<1> QED
  BY <1>1, <1>2, <1>3, <1>4, <1>5, <1>6, PlanShows DEF Next

-----------------------------------------------------------------------------
(* Theorems *)

(* The tables and the passes keep their types, whatever fails or is edited.*)
THEOREM TypeCorrect == Spec => []TypeOK
<1>1. IInv => TypeOK
  BY DEF IInv
<1> QED
  BY InvInit, InvNext, <1>1, PTL DEF Spec

(* No sweep repeats the warning about a supplier unless it read the        *)
(* candidates before the first was stored (sweep-candidates.service.ts:57).*)
THEOREM DuplicateTheorem == Spec => []DuplicateNeedsOverlap
<1>1. IInv => DuplicateNeedsOverlap
  BY DEF IInv
<1> QED
  BY InvInit, InvNext, <1>1, PTL DEF Spec

(* There are never more alerts and plans missing than there were failures  *)
(* (sweep.py:64, 86).                                                      *)
THEOREM LossTheorem == Spec => []LossesAreFailures
<1>1. Init => IInv /\ LossBudget
  BY InvInit, BudgetInit
<1>2. (IInv /\ LossBudget) /\ [Next]_vars => (IInv /\ LossBudget)'
  BY InvNext, BudgetNext
<1>3. IInv /\ LossBudget => LossesAreFailures
  BY BudgetBounds
<1> QED
  BY <1>1, <1>2, <1>3, PTL DEF Spec

(* What the sweeps show an owner is what OwnerView allows                  *)
(* (callbacks/predictions.py:46, sweep.py:69).                             *)
THEOREM SweepsImplementOwnerView == Spec => ViewSpec
<1>1. IInv /\ [Next]_vars => [View!Next]_<<attentionOf, planOf>>
  BY ViewNext
<1> QED
  BY InvInit, InvNext, ViewInit, <1>1, PTL DEF Spec, ViewSpec, View!Spec, View!vars
=============================================================================
