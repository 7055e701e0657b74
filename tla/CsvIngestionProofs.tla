------------------------- MODULE CsvIngestionProofs -------------------------
(***************************************************************************)
(* Theorems about CsvIngestion, for any files, uploads, workers and bounds.*)
(***************************************************************************)
EXTENDS CsvIngestion, FiniteSetTheorems, SequenceTheorems, TLAPS

RowSet == Supplier \cup (Supplier \X Sku)

WorkerState == [pc : {"idle", "lookup", "commit", "audit"}, job : Upload \cup {NULL},
                known : SUBSET RowSet]

(* A worker that is not idle has a job.                                    *)
Busy == \A w \in Worker : worker[w].pc # "idle" => worker[w].job \in Upload

TypeInv == TypeOK /\ Busy

(* The rows of a file are of its kind.                                     *)
LEMMA RowsOfKind ==
  ASSUME NEW u \in Upload
  PROVE  /\ KindOf(u) = "inventory" => RowsOf(u) \subseteq Sku
         /\ KindOf(u) = "suppliers" => RowsOf(u) \subseteq Supplier
         /\ KindOf(u) = "orders" => RowsOf(u) \subseteq Supplier \X Sku
         /\ KindOf(u) \in {"inventory", "suppliers", "orders"}
  BY IngestionAssumption DEF IngestionAssumption, File, KindOf, RowsOf

(* A lookup finds rows of the file.                                        *)
LEMMA KnownRows ==
  ASSUME NEW u \in Upload PROVE Known(u) \in SUBSET RowSet
<1>1. KindOf(u) \in {"inventory", "suppliers", "orders"}
  BY RowsOfKind
<1>2. CASE KindOf(u) = "inventory"
  BY <1>2 DEF Known
<1>3. CASE KindOf(u) = "suppliers"
  BY <1>3, RowsOfKind DEF Known, RowSet
<1>4. CASE KindOf(u) = "orders"
  BY <1>4, RowsOfKind DEF Known, Resolvable, RowSet
<1> QED
  BY <1>1, <1>2, <1>3, <1>4

(* What can be ordered is of an order file.                                *)
LEMMA ResolvableRows ==
  ASSUME NEW u \in Upload
  PROVE  /\ Resolvable(u) \subseteq Supplier \X Sku
         /\ Resolvable(u) # {} => KindOf(u) = "orders"
         /\ Resolvable(u) \subseteq RowsOf(u)
  BY RowsOfKind DEF Resolvable

-----------------------------------------------------------------------------

(* The tables, the queue and the workers start empty.                      *)
LEMMA TypeInit == Init => TypeInv
<1> SUFFICES ASSUME Init PROVE TypeInv
  OBVIOUS
<1>1. Busy
  BY DEF Init, Busy, NoJob
<1>2. worker \in [Worker -> WorkerState]
  BY DEF Init, NoJob, WorkerState
<1>3. queue \in Seq(Upload)
  BY DEF Init
<1>4. /\ age \in [Upload -> 0..(Threshold + 1) \cup {NULL}]
      /\ item \in [Sku -> Upload \cup {"manual", NULL}]
      /\ holder \in [Upload -> Worker \cup {NULL}]
  BY DEF Init
<1>5. /\ posted \in [Supplier -> 0..MaxPosts]
      /\ faults \in 0..MaxFaults
      /\ stalls \in [Upload -> 0..1]
      /\ registered \in [Supplier -> Nat]
  BY IngestionAssumption DEF Init, IngestionAssumption
<1>6. orders \in [Upload -> [Supplier \X Sku -> Nat]]
  BY DEF Init
<1>7. /\ request \in [Upload -> {"idle", "enqueue", "accepted", "failed"}]
      /\ source \in [Upload -> {"none", "active", "stale"}]
      /\ job \in [Upload -> {"none", "waiting", "active", "completed", "failed"}]
  BY DEF Init
<1>8. ready \in [Upload -> SUBSET (Supplier \X Sku)] /\ outdated \subseteq Upload
  BY DEF Init
<1> QED
  BY <1>1, <1>2, <1>3, <1>4, <1>5, <1>6, <1>7, <1>8 DEF TypeInv, TypeOK, WorkerState, RowSet

(* An upload writes its source, its job and the queue.                     *)
LEMMA TypeUpload ==
  ASSUME TypeInv, NEW u \in Upload, CreateSource(u) \/ Enqueue(u) \/ UploadDies(u)
  PROVE  TypeInv'
<1> USE DEF TypeInv, rows, bullmq, aside
<1>1. CASE CreateSource(u)
  <2>1. ready' \in [Upload -> SUBSET (Supplier \X Sku)]
    BY <1>1, ResolvableRows DEF CreateSource, TypeOK
  <2> QED
    BY <1>1, <2>1 DEF CreateSource, TypeOK, Busy
<1>2. CASE Enqueue(u)
  <2>1. queue' \in Seq(Upload)
    BY <1>2 DEF Enqueue, TypeOK
  <2> QED
    BY <1>2, <2>1 DEF Enqueue, TypeOK, Busy
<1>3. CASE UploadDies(u)
  <2>1. faults' \in 0..MaxFaults
    BY <1>3, IngestionAssumption DEF UploadDies, TypeOK, Fault, IngestionAssumption
  <2> QED
    BY <1>3, <2>1 DEF UploadDies, TypeOK, Busy
<1> QED
  BY <1>1, <1>2, <1>3

(* A delivered job is written row by row, and finished by its holder.      *)
LEMMA TypeWorker ==
  ASSUME TypeInv, NEW w \in Worker, WorkerStep(w) \/ Throw(w) \/ Crash(w)
  PROVE  TypeInv'
<1> USE DEF TypeInv, rows, bullmq, aside
<1>r. /\ worker \in [Worker -> WorkerState] /\ queue \in Seq(Upload)
      /\ faults \in 0..MaxFaults /\ MaxFaults \in Nat
      /\ worker[w].pc # "idle" => worker[w].job \in Upload
  BY IngestionAssumption DEF TypeOK, WorkerState, RowSet, Busy, IngestionAssumption
<1>n. NoJob \in WorkerState /\ NoJob.pc = "idle"
  BY DEF NoJob, WorkerState
<1>w. ASSUME worker' \in [Worker -> WorkerState],
             \A x \in Worker \ {w} : worker'[x] = worker[x],
             worker'[w].pc # "idle" => worker'[w].job \in Upload
      PROVE  Busy'
  BY <1>w DEF Busy
<1>1. CASE Claim(w)
  <2>1. Head(queue) \in Upload /\ queue' \in Seq(Upload)
    BY <1>1, <1>r, HeadTailProperties DEF Claim
  <2>2. /\ worker' \in [Worker -> WorkerState]
        /\ \A x \in Worker \ {w} : worker'[x] = worker[x]
        /\ worker'[w].job \in Upload
    BY <1>1, <1>r, <2>1 DEF Claim, NoJob, WorkerState
  <2>3. /\ job' \in [Upload -> {"none", "waiting", "active", "completed", "failed"}]
        /\ holder' \in [Upload -> Worker \cup {NULL}]
    BY <1>1, <2>1 DEF Claim, TypeOK
  <2> QED
    BY <1>1, <1>w, <2>1, <2>2, <2>3 DEF Claim, TypeOK, WorkerState, RowSet
<1>2. CASE Lookup(w)
  <2>1. Known(worker[w].job) \in SUBSET RowSet
    BY <1>2, <1>r, KnownRows DEF Lookup
  <2>2. /\ worker' \in [Worker -> WorkerState]
        /\ \A x \in Worker \ {w} : worker'[x] = worker[x]
        /\ worker'[w].job \in Upload
    BY <1>2, <1>r, <2>1 DEF Lookup, WorkerState
  <2> QED
    BY <1>2, <1>w, <2>2 DEF Lookup, TypeOK, WorkerState, RowSet
<1>3. CASE Ingest(w)
  <2> DEFINE u == worker[w].job
  <2>1. u \in Upload
    BY <1>3, <1>r DEF Ingest
  <2>2. /\ worker' \in [Worker -> WorkerState]
        /\ \A x \in Worker \ {w} : worker'[x] = worker[x]
        /\ worker'[w].job \in Upload
    BY <1>3, <1>r DEF Ingest, Goto, WorkerState
  <2>3. item' \in [Sku -> Upload \cup {"manual", NULL}]
    BY <1>3, <2>1 DEF Ingest, TypeOK
  <2>4. registered' \in [Supplier -> Nat]
    BY <1>3 DEF Ingest, TypeOK
  <2>5. orders' \in [Upload -> [Supplier \X Sku -> Nat]]
    <3>1. orders[u] \in [Supplier \X Sku -> Nat]
      BY <2>1 DEF TypeOK
    <3>2. [r \in Supplier \X Sku |-> IF KindOf(u) = "orders" /\ r \in worker[w].known
                                     THEN orders[u][r] + 1 ELSE orders[u][r]]
             \in [Supplier \X Sku -> Nat]
      BY <3>1
    <3> QED
      BY <1>3, <2>1, <3>2 DEF Ingest, TypeOK
  <2>6. age' \in [Upload -> 0..(Threshold + 1) \cup {NULL}]
    BY <1>3, <2>1, IngestionAssumption DEF Ingest, TypeOK, IngestionAssumption
  <2> QED
    BY <1>3, <1>w, <2>2, <2>3, <2>4, <2>5, <2>6 DEF Ingest, TypeOK, WorkerState, RowSet
<1>4. ASSUME NEW state \in {"completed", "failed"}, Finish(w, state),
             UNCHANGED <<request, source, age, rows, aside>>, faults' \in 0..MaxFaults
      PROVE  TypeInv'
  <2>1. /\ worker' \in [Worker -> WorkerState]
        /\ \A x \in Worker \ {w} : worker'[x] = worker[x]
        /\ worker'[w].pc = "idle"
    BY <1>4, <1>r, <1>n DEF Finish
  <2>2. /\ job' \in [Upload -> {"none", "waiting", "active", "completed", "failed"}]
        /\ holder' \in [Upload -> Worker \cup {NULL}]
    BY <1>4 DEF Finish, TypeOK
  <2> QED
    BY <1>4, <1>w, <2>1, <2>2 DEF Finish, TypeOK, WorkerState, RowSet
<1>5. CASE AuditAndRefresh(w)
  BY <1>4, <1>5, <1>r DEF AuditAndRefresh
<1>6. CASE Throw(w)
  BY <1>4, <1>6, <1>r DEF Throw, Fault
<1>7. CASE Crash(w)
  <2>1. /\ worker' \in [Worker -> WorkerState]
        /\ \A x \in Worker \ {w} : worker'[x] = worker[x]
        /\ worker'[w].pc = "idle"
        /\ faults' \in 0..MaxFaults
    BY <1>7, <1>r, <1>n DEF Crash, Fault
  <2> QED
    BY <1>7, <1>w, <2>1 DEF Crash, TypeOK, WorkerState, RowSet
<1> QED
  BY <1>1, <1>2, <1>3, <1>5, <1>6, <1>7 DEF WorkerStep

(* A stall, a form, the clock and the freshness checker write their parts. *)
LEMMA TypeOther ==
  ASSUME TypeInv,
         \/ \E u \in Upload : Stall(u)
         \/ \E i \in Sku : PostItem(i)
         \/ \E s \in Supplier : PostSupplier(s)
         \/ Tick \/ ReadOutdated \/ FlagStale \/ UNCHANGED vars
  PROVE  TypeInv'
<1> USE DEF TypeInv, rows, bullmq, aside
<1>1. ASSUME NEW u \in Upload, Stall(u) PROVE TypeInv'
  <2>1. queue' \in Seq(Upload)
    <3>1. queue \in Seq(Upload) /\ <<u>> \in Seq(Upload)
      BY DEF TypeOK
    <3>2. <<u>> \o queue \in Seq(Upload)
      BY <3>1, ConcatProperties
    <3> QED
      BY <1>1, <3>1, <3>2 DEF Stall
  <2>2. faults' \in 0..MaxFaults
    BY <1>1, IngestionAssumption DEF Stall, TypeOK, Fault, IngestionAssumption
  <2>3. holder' \in [Upload -> Worker \cup {NULL}]
    BY <1>1 DEF Stall, TypeOK
  <2>a. \/ /\ stalls' = [stalls EXCEPT ![u] = 1]
           /\ job' = [job EXCEPT ![u] = "waiting"]
        \/ /\ stalls' = stalls
           /\ job' = [job EXCEPT ![u] = "failed"]
    BY <1>1 DEF Stall
  <2>4. stalls' \in [Upload -> 0..1]
    <3>1. stalls \in [Upload -> 0..1] /\ 1 \in 0..1
      BY DEF TypeOK
    <3> QED
      BY <2>a, <3>1
  <2>5. job' \in [Upload -> {"none", "waiting", "active", "completed", "failed"}]
    BY <2>a DEF TypeOK
  <2>6. UNCHANGED <<request, source, age, worker, rows, aside>>
    BY <1>1 DEF Stall
  <2> QED
    BY <2>1, <2>2, <2>3, <2>4, <2>5, <2>6 DEF TypeOK, Busy
<1>2. ASSUME NEW i \in Sku, PostItem(i) PROVE TypeInv'
  BY <1>2 DEF PostItem, TypeOK, Busy
<1>3. ASSUME NEW s \in Supplier, PostSupplier(s) PROVE TypeInv'
  <2>1. posted' \in [Supplier -> 0..MaxPosts]
    BY <1>3, IngestionAssumption DEF PostSupplier, TypeOK, IngestionAssumption
  <2>2. registered' \in [Supplier -> Nat]
    BY <1>3 DEF PostSupplier, TypeOK
  <2> QED
    BY <1>3, <2>1, <2>2 DEF PostSupplier, TypeOK, Busy
<1>4. CASE Tick
  <2>1. age' \in [Upload -> 0..(Threshold + 1) \cup {NULL}]
    BY <1>4, IngestionAssumption DEF Tick, TypeOK, IngestionAssumption
  <2> QED
    BY <1>4, <2>1 DEF Tick, TypeOK, Busy
<1>5. CASE ReadOutdated \/ FlagStale
  <2>1. outdated' \subseteq Upload
    BY <1>5 DEF ReadOutdated, FlagStale, Outdated, TypeOK
  <2>2. source' \in [Upload -> {"none", "active", "stale"}]
    BY <1>5 DEF ReadOutdated, FlagStale, TypeOK
  <2> QED
    BY <1>5, <2>1, <2>2 DEF ReadOutdated, FlagStale, TypeOK, Busy
<1>6. CASE UNCHANGED vars
  BY <1>6 DEF vars, TypeOK, Busy
<1> QED
  BY <1>1, <1>2, <1>3, <1>4, <1>5, <1>6

(* Every step keeps the types.                                             *)
LEMMA TypeStep == TypeInv /\ [Next]_vars => TypeInv'
  BY TypeUpload, TypeWorker, TypeOther DEF Next

-----------------------------------------------------------------------------
(* Rows and sync mark                                                      *)

(* A supplier that a lookup found stays.                                   *)
FoundStays ==
  \A w \in Worker : worker[w].pc = "commit" /\ KindOf(worker[w].job) = "suppliers"
     => \A s \in worker[w].known : s \in Supplier /\ registered[s] > 0

SyncInv == RowsFollowMark /\ FoundStays

(* A step that writes no row and no first sync mark keeps it.              *)
LEMMA SyncQuiet ==
  ASSUME SyncInv, UNCHANGED rows,
         \A u \in Upload : age'[u] = NULL <=> age[u] = NULL,
         \A w \in Worker : worker'[w].pc = "commit" => worker'[w] = worker[w]
  PROVE  SyncInv'
<1>1. RowsFollowMark'
  BY DEF SyncInv, RowsFollowMark, rows
<1>2. FoundStays'
  BY DEF SyncInv, FoundStays, rows
<1> QED
  BY <1>1, <1>2 DEF SyncInv

(* The worker's steps: only Ingest writes rows, and the mark with them.    *)
LEMMA SyncWorker ==
  ASSUME TypeInv, SyncInv, NEW w \in Worker, WorkerStep(w) \/ Throw(w) \/ Crash(w)
  PROVE  SyncInv'
<1> DEFINE Others == \A x \in Worker \ {w} : worker'[x] = worker[x]
<1>r. worker \in [Worker -> WorkerState] /\ NoJob.pc = "idle"
  BY DEF TypeInv, TypeOK, WorkerState, RowSet, NoJob
<1>q. ASSUME UNCHANGED <<age, rows>>, Others, worker'[w].pc # "commit" PROVE SyncInv'
  BY <1>q, SyncQuiet
<1>1. CASE Claim(w)
  BY <1>1, <1>q, <1>r DEF Claim, NoJob
<1>2. CASE Lookup(w)
  <2>1. RowsFollowMark'
    BY <1>2 DEF Lookup, SyncInv, RowsFollowMark, rows
  <2>2. Others /\ worker'[w].job = worker[w].job /\ worker'[w].known = Known(worker[w].job)
    BY <1>2, <1>r DEF Lookup, WorkerState
  <2>3. KindOf(worker[w].job) = "suppliers" =>
           \A s \in worker'[w].known : s \in Supplier /\ registered[s] > 0
    <3>1. worker[w].job \in Upload
      BY <1>2 DEF Lookup, TypeInv, Busy
    <3> QED
      BY <2>2, <3>1, RowsOfKind DEF Known
  <2>4. FoundStays'
    BY <1>2, <2>2, <2>3 DEF Lookup, SyncInv, FoundStays, rows
  <2> QED
    BY <2>1, <2>4 DEF SyncInv
<1>3. CASE Ingest(w)
  <2> DEFINE u == worker[w].job
             v == worker[w].known
  <2>1. u \in Upload /\ u # NULL
    BY <1>3, IngestionAssumption DEF Ingest, TypeInv, Busy, IngestionAssumption
  <2>2. Others /\ worker'[w].pc = "audit"
    BY <1>3, <1>r DEF Ingest, Goto, WorkerState
  <2>3. \A s \in Supplier : /\ registered[s] > 0 => registered'[s] > 0
                            /\ KindOf(u) = "suppliers" /\ s \in RowsOf(u) \ v => registered'[s] > 0
    BY <1>3 DEF Ingest, TypeInv, TypeOK
  <2>4. KindOf(u) = "suppliers" => \A s \in v : registered[s] > 0
    BY <1>3 DEF Ingest, SyncInv, FoundStays
  <2>5. KindOf(u) = "suppliers" => \A s \in RowsOf(u) : registered'[s] > 0
    BY <2>1, <2>3, <2>4, RowsOfKind
  <2>6. \A i \in Sku : /\ item[i] # NULL => item'[i] # NULL
                       /\ KindOf(u) = "inventory" /\ i \in RowsOf(u) => item'[i] # NULL
                       /\ \A x \in Upload \ {u} : item[i] # x => item'[i] # x
    BY <1>3, <2>1 DEF Ingest
  <2>7. KindOf(u) = "inventory" => \A i \in RowsOf(u) : item'[i] # NULL
    BY <2>1, <2>6, RowsOfKind
  <2>8. \A x \in Upload \ {u} : orders'[x] = orders[x] /\ age'[x] = age[x]
    BY <1>3, <2>1 DEF Ingest, TypeInv, TypeOK
  <2>9. age'[u] = 0 /\ 0 # NULL
    <3>1. 0 # NULL
      BY IngestionAssumption DEF IngestionAssumption
    <3> QED
      BY <1>3, <2>1, <3>1 DEF Ingest, TypeInv, TypeOK
  <2>10. \A x \in Upload \ {u} :
           /\ age[x] # NULL => /\ KindOf(x) = "inventory" => \A i \in RowsOf(x) : item'[i] # NULL
                               /\ KindOf(x) = "suppliers" => \A s \in RowsOf(x) : registered'[s] > 0
    BY <2>3, <2>6, RowsOfKind DEF SyncInv, RowsFollowMark
  <2>11. RowsFollowMark'
    BY <2>5, <2>6, <2>7, <2>8, <2>9, <2>10 DEF SyncInv, RowsFollowMark, KindOf, RowsOf
  <2>12. FoundStays'
    BY <2>2, <2>3 DEF SyncInv, FoundStays, KindOf
  <2> QED
    BY <2>11, <2>12 DEF SyncInv
<1>4. ASSUME NEW state, Finish(w, state), UNCHANGED <<age, rows>> PROVE SyncInv'
  BY <1>4, <1>q, <1>r DEF Finish
<1>5. CASE AuditAndRefresh(w)
  BY <1>4, <1>5 DEF AuditAndRefresh
<1>6. CASE Throw(w)
  BY <1>4, <1>6 DEF Throw
<1>7. CASE Crash(w)
  BY <1>7, <1>q, <1>r DEF Crash
<1> QED
  BY <1>1, <1>2, <1>3, <1>5, <1>6, <1>7 DEF WorkerStep

(* The forms, the clock, the freshness checker, uploads and stalls.        *)
LEMMA SyncOther ==
  ASSUME TypeInv, SyncInv,
         \/ \E u \in Upload : CreateSource(u) \/ Enqueue(u) \/ UploadDies(u) \/ Stall(u)
         \/ \E i \in Sku : PostItem(i)
         \/ \E s \in Supplier : PostSupplier(s)
         \/ Tick \/ ReadOutdated \/ FlagStale \/ UNCHANGED vars
  PROVE  SyncInv'
<1>n. NULL # "manual" /\ "manual" \notin {NULL} /\ \A n \in Nat : n # NULL
  BY IngestionAssumption DEF IngestionAssumption
<1>1. CASE \E u \in Upload : CreateSource(u) \/ Enqueue(u) \/ UploadDies(u) \/ Stall(u)
  BY <1>1, SyncQuiet DEF CreateSource, Enqueue, UploadDies, Stall, rows, bullmq
<1>2. CASE ReadOutdated \/ FlagStale \/ UNCHANGED vars
  BY <1>2, SyncQuiet DEF ReadOutdated, FlagStale, vars, rows
<1>3. CASE Tick
  <2>1. ASSUME NEW u \in Upload PROVE age'[u] = NULL <=> age[u] = NULL
    BY <1>3, <1>n, IngestionAssumption DEF Tick, TypeInv, TypeOK, IngestionAssumption
  <2> QED
    BY <1>3, <2>1, SyncQuiet DEF Tick, rows
<1>4. ASSUME NEW i \in Sku, PostItem(i) PROVE SyncInv'
  <2>1. \A j \in Sku : item[j] # NULL => item'[j] = item[j]
    BY <1>4 DEF PostItem, TypeInv, TypeOK
  <2>2. \A j \in Sku : item'[j] = item[j] \/ item'[j] = "manual"
    BY <1>4 DEF PostItem, TypeInv, TypeOK
  <2>3. \A u \in Upload : KindOf(u) = "inventory" => RowsOf(u) \subseteq Sku
    BY RowsOfKind
  <2>4. RowsFollowMark'
    <3> SUFFICES ASSUME NEW u \in Upload
                 PROVE  /\ age[u] = NULL => /\ \A j \in Sku : item'[j] # u
                                            /\ \A r \in Supplier \X Sku : orders[u][r] = 0
                        /\ age[u] # NULL =>
                              /\ KindOf(u) = "inventory" => \A j \in RowsOf(u) : item'[j] # NULL
                              /\ KindOf(u) = "suppliers" => \A s \in RowsOf(u) : registered[s] > 0
      BY <1>4 DEF PostItem, RowsFollowMark, KindOf, RowsOf
    <3>1. u # "manual"
      BY IngestionAssumption DEF IngestionAssumption
    <3> QED
      BY <2>1, <2>2, <2>3, <3>1 DEF SyncInv, RowsFollowMark
  <2>5. FoundStays'
    BY <1>4 DEF PostItem, SyncInv, FoundStays
  <2> QED
    BY <2>4, <2>5 DEF SyncInv
<1>5. ASSUME NEW s \in Supplier, PostSupplier(s) PROVE SyncInv'
  <2>1. \A x \in Supplier : registered[x] > 0 => registered'[x] > 0
    BY <1>5 DEF PostSupplier, TypeInv, TypeOK
  <2>2. \A u \in Upload : KindOf(u) = "suppliers" => RowsOf(u) \subseteq Supplier
    BY RowsOfKind
  <2>3. RowsFollowMark'
    BY <1>5, <2>1, <2>2 DEF PostSupplier, SyncInv, RowsFollowMark, KindOf, RowsOf
  <2>4. FoundStays'
    BY <1>5, <2>1 DEF PostSupplier, SyncInv, FoundStays, KindOf
  <2> QED
    BY <2>3, <2>4 DEF SyncInv
<1> QED
  BY <1>1, <1>2, <1>3, <1>4, <1>5

(* Nothing is ingested and nothing synced at first.                        *)
LEMMA SyncInit == Init => SyncInv
<1> SUFFICES ASSUME Init PROVE SyncInv
  OBVIOUS
<1>1. \A u \in Upload : u # NULL
  BY IngestionAssumption DEF IngestionAssumption
<1>2. RowsFollowMark
  BY <1>1 DEF Init, RowsFollowMark
<1>3. FoundStays
  BY DEF Init, FoundStays, NoJob
<1> QED
  BY <1>2, <1>3 DEF SyncInv

LEMMA SyncStep == TypeInv /\ SyncInv /\ [Next]_vars => SyncInv'
  BY SyncWorker, SyncOther DEF Next

-----------------------------------------------------------------------------
(* Why a source is not synced                                              *)

AuditsSynced == \A w \in Worker : worker[w].pc = "audit" => age[worker[w].job] # NULL

UnsyncedInv ==
  /\ \A u \in Upload :
       /\ source[u] = "stale" => age[u] # NULL
       /\ source[u] # "none" => request[u] # "idle"
       /\ request[u] = "accepted" => job[u] # "none"
       /\ job[u] = "completed" => age[u] # NULL
       /\ u \in outdated => age[u] # NULL /\ source[u] # "none"
  /\ AuditsSynced

(* No job is un-queued, and only that of a synced source is completed.     *)
JobsMove == \A u \in Upload :
  \/ job'[u] = job[u]
  \/ job'[u] \in {"waiting", "active", "failed"}
  \/ job'[u] = "completed" /\ age'[u] # NULL

(* No source is un-synced.                                                 *)
MarksStay == \A u \in Upload : age[u] # NULL => age'[u] # NULL

(* With requests and sources left alone that is all a step has to keep.    *)
LEMMA UnsyncedQuiet ==
  ASSUME UnsyncedInv, request' = request, source' = source, outdated' = outdated, JobsMove, MarksStay, AuditsSynced'
  PROVE  UnsyncedInv'
  BY DEF UnsyncedInv, JobsMove, MarksStay, AuditsSynced

LEMMA UnsyncedWorker ==
  ASSUME TypeInv, UnsyncedInv, NEW w \in Worker, WorkerStep(w) \/ Throw(w) \/ Crash(w)
  PROVE  UnsyncedInv'
<1> DEFINE Others == \A x \in Worker \ {w} : worker'[x] = worker[x]
<1>r. worker \in [Worker -> WorkerState] /\ NoJob.pc = "idle"
  BY DEF TypeInv, TypeOK, WorkerState, RowSet, NoJob
<1>j. job \in [Upload -> {"none", "waiting", "active", "completed", "failed"}]
  BY DEF TypeInv, TypeOK
<1>q. ASSUME request' = request, source' = source, age' = age, outdated' = outdated, JobsMove, Others,
             worker'[w].pc # "audit"
      PROVE  UnsyncedInv'
  <2>1. AuditsSynced'
    BY <1>q DEF UnsyncedInv, AuditsSynced
  <2>2. MarksStay
    BY <1>q DEF MarksStay
  <2> QED
    BY <1>q, <2>1, <2>2, UnsyncedQuiet
<1>1. CASE Claim(w)
  <2>1. Others /\ worker'[w].pc = "lookup"
    BY <1>1, <1>r DEF Claim, aside, NoJob
  <2>2. JobsMove
    BY <1>1, <1>j DEF Claim, aside, JobsMove
  <2>3. UNCHANGED <<request, source, age, outdated>>
    BY <1>1 DEF Claim, aside
  <2> QED
    BY <1>q, <2>1, <2>2, <2>3
<1>2. CASE Lookup(w)
  <2>1. Others /\ worker'[w].pc = "commit"
    BY <1>2, <1>r DEF Lookup, WorkerState
  <2>2. UNCHANGED <<request, source, age, outdated>> /\ JobsMove
    BY <1>2 DEF Lookup, bullmq, aside, JobsMove
  <2> QED
    BY <1>q, <2>1, <2>2
<1>3. CASE Ingest(w)
  <2>1. worker[w].job \in Upload /\ 0 # NULL
    BY <1>3, IngestionAssumption DEF Ingest, TypeInv, Busy, IngestionAssumption
  <2>2. Others /\ worker'[w].pc = "audit" /\ worker'[w].job = worker[w].job
    BY <1>3, <1>r DEF Ingest, Goto, WorkerState
  <2>3. \A x \in Upload : age'[x] = age[x] \/ age'[x] = 0
    BY <1>3, <2>1 DEF Ingest, TypeInv, TypeOK
  <2>4. age'[worker[w].job] = 0
    BY <1>3, <2>1 DEF Ingest, TypeInv, TypeOK
  <2>5. AuditsSynced'
    <3> SUFFICES ASSUME NEW x \in Worker \ {w}, worker'[x].pc = "audit"
                 PROVE  age'[worker'[x].job] # NULL
      BY <2>1, <2>2, <2>4 DEF AuditsSynced
    <3>1. worker[x].job \in Upload /\ age[worker[x].job] # NULL /\ worker'[x] = worker[x]
      BY <2>2 DEF TypeInv, Busy, UnsyncedInv, AuditsSynced
    <3> QED
      BY <2>1, <2>3, <3>1
  <2>6. MarksStay
    BY <2>1, <2>3 DEF MarksStay
  <2>7. UNCHANGED <<request, source, job, outdated>>
    BY <1>3 DEF Ingest, bullmq, aside
  <2>8. JobsMove
    BY <2>7 DEF JobsMove
  <2> QED
    BY <2>5, <2>6, <2>7, <2>8, UnsyncedQuiet
<1>4. ASSUME NEW state \in {"completed", "failed"}, Finish(w, state),
             worker[w].job \in Upload, request' = request, source' = source, age' = age, outdated' = outdated,
             state = "completed" => age[worker[w].job] # NULL
      PROVE  UnsyncedInv'
  <2>1. Others /\ worker'[w].pc = "idle"
    BY <1>4, <1>r DEF Finish
  <2>2. JobsMove
    <3>1. job' = [job EXCEPT ![worker[w].job] = state] \/ job' = job
      BY <1>4 DEF Finish
    <3>2. CASE job' = job
      BY <3>2 DEF JobsMove
    <3>3. CASE job' = [job EXCEPT ![worker[w].job] = state]
      <4>1. \A u \in Upload : u # worker[w].job => job'[u] = job[u]
        BY <1>4, <1>j, <3>3
      <4>2. job'[worker[w].job] = state
        BY <1>4, <1>j, <3>3
      <4> QED
        BY <1>4, <4>1, <4>2 DEF JobsMove
    <3> QED
      BY <3>1, <3>2, <3>3
  <2> QED
    BY <1>4, <1>q, <2>1, <2>2
<1>5. CASE AuditAndRefresh(w)
  BY <1>4, <1>5 DEF AuditAndRefresh, aside, TypeInv, Busy, UnsyncedInv, AuditsSynced
<1>6. CASE Throw(w)
  BY <1>4, <1>6 DEF Throw, aside, TypeInv, Busy
<1>7. CASE Crash(w)
  <2>1. Others /\ worker'[w].pc = "idle"
    BY <1>7, <1>r DEF Crash
  <2>2. UNCHANGED <<request, source, age, outdated>> /\ JobsMove
    BY <1>7 DEF Crash, bullmq, aside, JobsMove
  <2> QED
    BY <1>q, <2>1, <2>2
<1> QED
  BY <1>1, <1>2, <1>3, <1>5, <1>6, <1>7 DEF WorkerStep

LEMMA UnsyncedOther ==
  ASSUME TypeInv, UnsyncedInv,
         \/ \E u \in Upload : CreateSource(u) \/ Enqueue(u) \/ UploadDies(u) \/ Stall(u)
         \/ \E i \in Sku : PostItem(i)
         \/ \E s \in Supplier : PostSupplier(s)
         \/ Tick \/ ReadOutdated \/ FlagStale \/ UNCHANGED vars
  PROVE  UnsyncedInv'
<1>t. /\ request \in [Upload -> {"idle", "enqueue", "accepted", "failed"}]
      /\ source \in [Upload -> {"none", "active", "stale"}]
      /\ job \in [Upload -> {"none", "waiting", "active", "completed", "failed"}]
  BY DEF TypeInv, TypeOK
<1>1. ASSUME NEW u \in Upload, CreateSource(u) PROVE UnsyncedInv'
  BY <1>1, <1>t DEF CreateSource, UnsyncedInv, bullmq, aside, AuditsSynced
<1>2. ASSUME NEW u \in Upload, Enqueue(u) PROVE UnsyncedInv'
  BY <1>2, <1>t DEF Enqueue, aside, UnsyncedInv, AuditsSynced
<1>3. ASSUME NEW u \in Upload, UploadDies(u) PROVE UnsyncedInv'
  BY <1>3, <1>t DEF UploadDies, UnsyncedInv, bullmq, aside, AuditsSynced
<1>4. ASSUME NEW u \in Upload, Stall(u) PROVE UnsyncedInv'
  <2>1. job' = [job EXCEPT ![u] = "waiting"] \/ job' = [job EXCEPT ![u] = "failed"]
    BY <1>4 DEF Stall, aside
  <2>2. JobsMove
    BY <1>t, <2>1 DEF JobsMove
  <2>3. UNCHANGED <<request, source, age, worker, outdated>>
    BY <1>4 DEF Stall, aside
  <2>4. AuditsSynced' /\ MarksStay
    BY <2>3 DEF UnsyncedInv, AuditsSynced, MarksStay
  <2> QED
    BY <2>2, <2>3, <2>4, UnsyncedQuiet
<1>5. CASE \/ \E i \in Sku : PostItem(i)
           \/ \E s \in Supplier : PostSupplier(s)
           \/ UNCHANGED vars
  BY <1>5 DEF PostItem, PostSupplier, vars, bullmq, aside, UnsyncedInv, AuditsSynced
<1>6. CASE Tick
  <2>1. ASSUME NEW u \in Upload, age[u] # NULL PROVE age'[u] # NULL
    BY <1>6, <2>1, IngestionAssumption DEF Tick, aside, TypeInv, TypeOK, IngestionAssumption
  <2>2. AuditsSynced'
    BY <1>6, <2>1 DEF Tick, aside, UnsyncedInv, AuditsSynced, TypeInv, Busy
  <2>3. UNCHANGED <<request, source, job, outdated>>
    BY <1>6 DEF Tick, aside, bullmq, aside
  <2>4. JobsMove /\ MarksStay
    BY <2>1, <2>3 DEF JobsMove, MarksStay
  <2> QED
    BY <2>2, <2>3, <2>4, UnsyncedQuiet
<1>7. CASE ReadOutdated \/ FlagStale
  BY <1>7, <1>t DEF ReadOutdated, FlagStale, Outdated, UnsyncedInv, bullmq, aside, AuditsSynced
<1> QED
  BY <1>1, <1>2, <1>3, <1>4, <1>5, <1>6, <1>7

LEMMA UnsyncedInit == Init => UnsyncedInv
  BY DEF Init, UnsyncedInv, NoJob, AuditsSynced

LEMMA UnsyncedStep == TypeInv /\ UnsyncedInv /\ [Next]_vars => UnsyncedInv'
  BY UnsyncedWorker, UnsyncedOther DEF Next

LEMMA UnsyncedExplains == TypeInv /\ UnsyncedInv => UnsyncedIsExplained
  BY DEF TypeInv, TypeOK, UnsyncedInv, UnsyncedIsExplained

-----------------------------------------------------------------------------
(* Deliveries                                                              *)

(* A job waits once, its lock is held while it is active, and an upload    *)
(* that is not answered has no job.                                        *)
QueueInv ==
  /\ \A i \in 1..Len(queue) : job[queue[i]] = "waiting"
  /\ \A i, j \in 1..Len(queue) : queue[i] = queue[j] => i = j
  /\ \A u \in Upload : holder[u] # NULL => job[u] = "active"
  /\ \A u \in Upload : request[u] \in {"idle", "enqueue"} => job[u] = "none"

(* The workers that have yet to write the orders of u, and the delivery    *)
(* that is still to come.                                                  *)
Pending(u) == {w \in Worker : worker[w].pc \in {"lookup", "commit"} /\ worker[w].job = u}
Coming(u) == IF job[u] \in {"none", "waiting"} THEN 1 ELSE 0

(* What is written, being written and to come never exceeds one delivery   *)
(* and one more for each stall.                                            *)
Within(u) ==
  \A r \in Supplier \X Sku : orders[u][r] + Cardinality(Pending(u)) + Coming(u) <= 1 + stalls[u]

Budget == \A u \in Upload : Within(u)

LEMMA PendingFinite ==
  ASSUME NEW u
  PROVE  IsFiniteSet(Pending(u)) /\ Cardinality(Pending(u)) \in Nat
<1>1. Pending(u) \subseteq Worker /\ IsFiniteSet(Worker)
  BY IngestionAssumption DEF Pending, IngestionAssumption
<1> QED
  BY <1>1, FS_Subset, FS_CardinalityType

LEMMA PendingFinitePrime ==
  ASSUME NEW u
  PROVE  IsFiniteSet(Pending(u)') /\ Cardinality(Pending(u)') \in Nat
<1>1. Pending(u)' \subseteq Worker /\ IsFiniteSet(Worker)
  BY IngestionAssumption DEF Pending, IngestionAssumption
<1> QED
  BY <1>1, FS_Subset, FS_CardinalityType

LEMMA Counts ==
  ASSUME TypeInv, NEW u \in Upload
  PROVE  stalls[u] \in Nat /\ \A r \in Supplier \X Sku : orders[u][r] \in Nat
<1>1. stalls \in [Upload -> 0..1] /\ orders \in [Upload -> [Supplier \X Sku -> Nat]]
  BY DEF TypeInv, TypeOK
<1>2. stalls[u] \in 0..1
  BY <1>1
<1>3. orders[u] \in [Supplier \X Sku -> Nat]
  BY <1>1
<1> QED
  BY <1>2, <1>3

(* Fewer pending workers, no new delivery, no new order: still within.     *)
LEMMA WithinLess ==
  ASSUME TypeInv, NEW u \in Upload, Within(u), Pending(u)' \subseteq Pending(u),
         Coming(u)' <= Coming(u), orders'[u] = orders[u], stalls'[u] = stalls[u]
  PROVE  Within(u)'
<1>1. Cardinality(Pending(u)') <= Cardinality(Pending(u))
  BY PendingFinite, FS_Subset
<1>2. Coming(u) \in Nat /\ Coming(u)' \in Nat
  BY DEF Coming
<1>3. Cardinality(Pending(u)) \in Nat /\ Cardinality(Pending(u)') \in Nat
  BY PendingFinite, PendingFinitePrime
<1>4. stalls[u] \in Nat /\ \A r \in Supplier \X Sku : orders[u][r] \in Nat
  BY Counts
<1>5. ASSUME NEW r \in Supplier \X Sku
      PROVE  orders[u][r] + Cardinality(Pending(u)') + Coming(u)' <= 1 + stalls[u]
  <2>1. orders[u][r] + Cardinality(Pending(u)) + Coming(u) <= 1 + stalls[u]
    BY DEF Within
  <2>2. orders[u][r] \in Nat
    BY <1>4
  <2> QED
    BY <1>1, <1>2, <1>3, <1>4, <2>1, <2>2
<1> QED
  BY <1>5 DEF Within

LEMMA DeliveryInit == Init => QueueInv /\ Budget
<1> SUFFICES ASSUME Init PROVE QueueInv /\ Budget
  OBVIOUS
<1>1. QueueInv
  BY DEF Init, QueueInv
<1>2. ASSUME NEW u \in Upload PROVE Within(u)
  <2>1. Pending(u) = {}
    BY DEF Init, Pending, NoJob
  <2>2. Cardinality(Pending(u)) = 0
    BY <2>1, FS_EmptySet
  <2> QED
    BY <2>2 DEF Init, Within, Coming
<1> QED
  BY <1>1, <1>2 DEF Budget

(* The queue: what enters it was not in it.                                *)
LEMMA QueueUpload ==
  ASSUME TypeInv, QueueInv, NEW u \in Upload,
         CreateSource(u) \/ Enqueue(u) \/ UploadDies(u) \/ Stall(u)
  PROVE  QueueInv'
<1>t. /\ request \in [Upload -> {"idle", "enqueue", "accepted", "failed"}]
      /\ job \in [Upload -> {"none", "waiting", "active", "completed", "failed"}]
      /\ holder \in [Upload -> Worker \cup {NULL}]
      /\ queue \in Seq(Upload)
  BY DEF TypeInv, TypeOK
<1>1. CASE CreateSource(u) \/ UploadDies(u)
  BY <1>1, <1>t DEF CreateSource, UploadDies, QueueInv, bullmq
<1>2. CASE Enqueue(u)
  <2>1. job[u] = "none" /\ job' = [job EXCEPT ![u] = "waiting"]
    BY <1>2 DEF Enqueue, QueueInv
  <2>2. \A i \in 1..Len(queue) : queue[i] # u
    BY <2>1 DEF QueueInv
  <2>3. /\ queue' = Append(queue, u) /\ Len(queue') = Len(queue) + 1
        /\ queue'[Len(queue) + 1] = u /\ \A i \in 1..Len(queue) : queue'[i] = queue[i]
    BY <1>2, <1>t, AppendProperties DEF Enqueue
  <2>4. \A i \in 1..Len(queue') : job'[queue'[i]] = "waiting"
    BY <1>t, <2>1, <2>2, <2>3 DEF QueueInv
  <2>5. \A i, j \in 1..Len(queue') : queue'[i] = queue'[j] => i = j
    BY <1>t, <2>2, <2>3 DEF QueueInv
  <2>6. \A x \in Upload : holder'[x] # NULL => job'[x] = "active"
    BY <1>2, <1>t, <2>1 DEF Enqueue, QueueInv
  <2>7. \A x \in Upload : request'[x] \in {"idle", "enqueue"} => job'[x] = "none"
    BY <1>2, <1>t, <2>1 DEF Enqueue, QueueInv
  <2> QED
    BY <2>4, <2>5, <2>6, <2>7 DEF QueueInv
<1>3. CASE Stall(u)
  <2>1. job[u] = "active" /\ holder' = [holder EXCEPT ![u] = NULL] /\ request' = request
    BY <1>3 DEF Stall
  <2>2. \A i \in 1..Len(queue) : queue[i] # u
    BY <2>1 DEF QueueInv
  <2>3. request[u] \notin {"idle", "enqueue"}
    BY <2>1 DEF QueueInv
  <2>4. ASSUME NEW state \in {"waiting", "failed"}, job' = [job EXCEPT ![u] = state]
        PROVE  /\ \A x \in Upload : holder'[x] # NULL => job'[x] = "active"
               /\ \A x \in Upload : request'[x] \in {"idle", "enqueue"} => job'[x] = "none"
    BY <1>t, <2>1, <2>3, <2>4 DEF QueueInv
  <2>5. CASE job' = [job EXCEPT ![u] = "waiting"] /\ queue' = <<u>> \o queue
    <3>1. /\ Len(queue') = 1 + Len(queue) /\ queue'[1] = u
          /\ \A i \in 2..Len(queue') : queue'[i] = queue[i - 1] /\ i - 1 \in 1..Len(queue)
      BY <1>t, <2>5
    <3>2. \A i \in 1..Len(queue') : job'[queue'[i]] = "waiting"
      BY <1>t, <2>2, <2>5, <3>1 DEF QueueInv
    <3>3. \A i, j \in 1..Len(queue') : queue'[i] = queue'[j] => i = j
      <4> SUFFICES ASSUME NEW i \in 1..Len(queue'), NEW j \in 1..Len(queue'),
                          queue'[i] = queue'[j]
                   PROVE  i = j
        OBVIOUS
      <4>1. CASE i = 1 /\ j = 1
        BY <4>1
      <4>2. CASE i \in 2..Len(queue') /\ j \in 2..Len(queue')
        BY <1>t, <3>1, <4>2 DEF QueueInv
      <4>3. ~(i = 1 /\ j \in 2..Len(queue')) /\ ~(j = 1 /\ i \in 2..Len(queue'))
        BY <2>2, <3>1
      <4>4. Len(queue') \in Nat /\ i \in Nat /\ j \in Nat
        BY <1>t, <3>1
      <4>5. (i = 1 \/ i \in 2..Len(queue')) /\ (j = 1 \/ j \in 2..Len(queue'))
        BY <4>4
      <4> QED
        BY <4>1, <4>2, <4>3, <4>5
    <3> QED
      BY <2>4, <2>5, <3>2, <3>3 DEF QueueInv
  <2>6. CASE job' = [job EXCEPT ![u] = "failed"] /\ queue' = queue
    <3>1. \A i \in 1..Len(queue) : queue[i] \in Upload
      BY <1>t
    <3>2. \A i \in 1..Len(queue) : job'[queue[i]] = "waiting"
      BY <1>t, <2>2, <2>6, <3>1 DEF QueueInv
    <3> QED
      BY <2>4, <2>6, <3>2 DEF QueueInv
  <2> QED
    BY <1>3, <2>5, <2>6 DEF Stall
<1> QED
  BY <1>1, <1>2, <1>3

LEMMA QueueWorker ==
  ASSUME TypeInv, QueueInv, NEW w \in Worker, WorkerStep(w) \/ Throw(w) \/ Crash(w)
  PROVE  QueueInv'
<1>t. /\ job \in [Upload -> {"none", "waiting", "active", "completed", "failed"}]
      /\ holder \in [Upload -> Worker \cup {NULL}]
      /\ queue \in Seq(Upload)
      /\ w # NULL
  BY IngestionAssumption DEF TypeInv, TypeOK, IngestionAssumption
<1>1. CASE Claim(w)
  <2> DEFINE u == Head(queue)
  <2>1. /\ queue # <<>> /\ queue' = Tail(queue) /\ request' = request
        /\ job' = [job EXCEPT ![u] = "active"] /\ holder' = [holder EXCEPT ![u] = w]
    BY <1>1 DEF Claim
  <2>2. /\ Len(queue) > 0 /\ u = queue[1] /\ u \in Upload /\ Len(queue') = Len(queue) - 1
        /\ \A i \in 1..Len(queue') : queue'[i] = queue[i + 1] /\ i + 1 \in 1..Len(queue)
    BY <1>t, <2>1
  <2>3. job[u] = "waiting"
    BY <1>t, <2>2 DEF QueueInv
  <2>4. \A i \in 1..Len(queue') : queue'[i] # u /\ queue'[i] \in Upload
    <3> SUFFICES ASSUME NEW i \in 1..Len(queue') PROVE queue'[i] # u /\ queue'[i] \in Upload
      OBVIOUS
    <3>1. 1 \in 1..Len(queue) /\ i + 1 # 1
      BY <1>t, <2>2
    <3> QED
      BY <1>t, <2>2, <3>1 DEF QueueInv
  <2> HIDE DEF u
  <2>5. \A i \in 1..Len(queue') : job'[queue'[i]] = "waiting"
    BY <1>t, <2>1, <2>2, <2>4 DEF QueueInv
  <2>6. \A i, j \in 1..Len(queue') : queue'[i] = queue'[j] => i = j
    <3> SUFFICES ASSUME NEW i \in 1..Len(queue'), NEW j \in 1..Len(queue'),
                        queue'[i] = queue'[j]
                 PROVE  i = j
      OBVIOUS
    <3>1. i + 1 \in 1..Len(queue) /\ j + 1 \in 1..Len(queue) /\ queue[i + 1] = queue[j + 1]
      BY <2>2
    <3>2. i + 1 = j + 1
      BY <3>1, Zenon DEF QueueInv
    <3>3. i \in Int /\ j \in Int
      OBVIOUS
    <3> QED
      BY <3>2, <3>3
  <2>7. \A x \in Upload : holder'[x] # NULL => job'[x] = "active"
    BY <1>t, <2>1, <2>2 DEF QueueInv
  <2>8. \A x \in Upload : request'[x] \in {"idle", "enqueue"} => job'[x] = "none"
    BY <1>t, <2>1, <2>3 DEF QueueInv
  <2> QED
    BY <2>5, <2>6, <2>7, <2>8 DEF QueueInv
<1>2. CASE Lookup(w) \/ Ingest(w) \/ Crash(w)
  BY <1>2 DEF Lookup, Ingest, Crash, QueueInv, bullmq
<1>3. ASSUME NEW state, Finish(w, state), request' = request, worker[w].job \in Upload
      PROVE  QueueInv'
  <2> DEFINE u == worker[w].job
  <2>1. CASE holder[u] = w
    <3>1. job[u] = "active"
      BY <1>3, <1>t, <2>1 DEF QueueInv
    <3>2. /\ job' = [job EXCEPT ![u] = state] /\ holder' = [holder EXCEPT ![u] = NULL]
          /\ queue' = queue
      BY <1>3, <2>1 DEF Finish
    <3>3. \A i \in 1..Len(queue) : queue[i] # u /\ queue[i] \in Upload
      BY <1>t, <3>1 DEF QueueInv
    <3> HIDE DEF u
    <3>4. \A i \in 1..Len(queue) : job'[queue[i]] = "waiting"
      BY <1>t, <3>2, <3>3 DEF QueueInv
    <3>5. \A x \in Upload : holder'[x] # NULL => job'[x] = "active"
      BY <1>t, <3>2 DEF QueueInv
    <3>6. \A x \in Upload : request'[x] \in {"idle", "enqueue"} => job'[x] = "none"
      BY <1>3, <1>t, <3>1, <3>2 DEF QueueInv
    <3> QED
      BY <3>2, <3>4, <3>5, <3>6 DEF QueueInv
  <2>2. CASE holder[u] # w
    BY <1>3, <2>2 DEF Finish, QueueInv
  <2> QED
    BY <2>1, <2>2
<1>4. CASE AuditAndRefresh(w)
  BY <1>3, <1>4 DEF AuditAndRefresh, TypeInv, Busy
<1>5. CASE Throw(w)
  BY <1>3, <1>5 DEF Throw, TypeInv, Busy
<1> QED
  BY <1>1, <1>2, <1>4, <1>5 DEF WorkerStep

(* The budget: a claim turns the delivery to come into a pending worker,   *)
(* an ingest a pending worker into an order, a stall adds a delivery.      *)
LEMMA BudgetUpload ==
  ASSUME TypeInv, QueueInv, Budget, NEW u \in Upload,
         CreateSource(u) \/ Enqueue(u) \/ UploadDies(u) \/ Stall(u)
  PROVE  Budget'
<1>t. /\ job \in [Upload -> {"none", "waiting", "active", "completed", "failed"}]
      /\ stalls \in [Upload -> 0..1]
  BY DEF TypeInv, TypeOK
<1>p. UNCHANGED <<worker, orders>>
  BY DEF CreateSource, Enqueue, UploadDies, Stall, rows
<1>q. \A x \in Upload : Pending(x)' = Pending(x) /\ Within(x)
  BY <1>p DEF Pending, Budget
<1>1. CASE CreateSource(u) \/ UploadDies(u)
  <2>1. UNCHANGED <<job, stalls>>
    BY <1>1 DEF CreateSource, UploadDies, bullmq
  <2>2. \A x \in Upload : Coming(x)' <= Coming(x)
    BY <2>1 DEF Coming
  <2> QED
    BY <1>p, <1>q, <2>1, <2>2, WithinLess DEF Budget
<1>2. CASE Enqueue(u)
  <2>1. job[u] = "none" /\ job' = [job EXCEPT ![u] = "waiting"] /\ stalls' = stalls
    BY <1>2 DEF Enqueue, QueueInv
  <2>2. \A x \in Upload : Coming(x)' <= Coming(x)
    BY <1>t, <2>1 DEF Coming
  <2> QED
    BY <1>p, <1>q, <2>1, <2>2, WithinLess DEF Budget
<1>3. CASE Stall(u)
  <2>1. job[u] = "active" /\ \/ /\ stalls[u] = 0 /\ stalls' = [stalls EXCEPT ![u] = 1]
                                /\ job' = [job EXCEPT ![u] = "waiting"]
                             \/ stalls' = stalls /\ job' = [job EXCEPT ![u] = "failed"]
    BY <1>3 DEF Stall
  <2>2. \A x \in Upload \ {u} : Within(x)'
    <3>1. \A x \in Upload \ {u} : job'[x] = job[x] /\ stalls'[x] = stalls[x]
      BY <1>t, <2>1
    <3>2. \A x \in Upload \ {u} : Coming(x)' <= Coming(x)
      BY <3>1 DEF Coming
    <3> QED
      BY <1>p, <1>q, <3>1, <3>2, WithinLess
  <2>3. CASE stalls' = stalls /\ job' = [job EXCEPT ![u] = "failed"]
    <3>1. Coming(u)' <= Coming(u)
      BY <1>t, <2>1, <2>3 DEF Coming
    <3> QED
      BY <1>p, <1>q, <2>2, <2>3, <3>1, WithinLess DEF Budget
  <2>4. CASE /\ stalls[u] = 0 /\ stalls' = [stalls EXCEPT ![u] = 1]
             /\ job' = [job EXCEPT ![u] = "waiting"]
    <3>1. Coming(u) = 0 /\ Coming(u)' = 1 /\ stalls'[u] = 1
      BY <1>t, <2>1, <2>4 DEF Coming
    <3>2. ASSUME NEW r \in Supplier \X Sku
          PROVE  orders[u][r] + Cardinality(Pending(u)) + 1 <= 1 + 1
      <4>1. orders[u][r] + Cardinality(Pending(u)) + 0 <= 1 + 0
        BY <1>q, <2>4, <3>1 DEF Within
      <4>2. orders[u][r] \in Nat
        BY DEF TypeInv, TypeOK
      <4> QED
        BY <4>1, <4>2, PendingFinite
    <3>3. Within(u)'
      BY <1>p, <1>q, <3>1, <3>2 DEF Within
    <3> QED
      BY <2>2, <3>3 DEF Budget
  <2> QED
    BY <2>1, <2>3, <2>4
<1> QED
  BY <1>1, <1>2, <1>3

LEMMA BudgetWorker ==
  ASSUME TypeInv, QueueInv, Budget, NEW w \in Worker, WorkerStep(w) \/ Throw(w) \/ Crash(w)
  PROVE  Budget'
<1> DEFINE Others == \A x \in Worker \ {w} : worker'[x] = worker[x]
<1>r. worker \in [Worker -> WorkerState] /\ NoJob.pc = "idle"
  BY DEF TypeInv, TypeOK, WorkerState, RowSet, NoJob
<1>t. /\ job \in [Upload -> {"none", "waiting", "active", "completed", "failed"}]
      /\ holder \in [Upload -> Worker \cup {NULL}]
      /\ queue \in Seq(Upload)
      /\ w # NULL
  BY IngestionAssumption DEF TypeInv, TypeOK, IngestionAssumption
<1>b. \A u \in Upload : Within(u)
  BY DEF Budget
<1>1. CASE Claim(w)
  <2>0. PICK u \in Upload : u = Head(queue)
    BY <1>1, <1>t DEF Claim
  <2>1. u \in Upload /\ job[u] = "waiting"
    <3>1. Len(queue) > 0 /\ u = queue[1]
      BY <1>1, <1>t, <2>0 DEF Claim
    <3> QED
      BY <1>t, <3>1 DEF QueueInv
  <2>2. /\ job' = [job EXCEPT ![u] = "active"] /\ UNCHANGED <<stalls, orders>>
        /\ worker[w].pc = "idle"
    BY <1>1, <2>0 DEF Claim, rows
  <2>3. Others /\ worker'[w].pc = "lookup" /\ worker'[w].job = u
    BY <1>1, <1>r, <2>0 DEF Claim, NoJob
  <2>4. ASSUME NEW x \in Upload \ {u} PROVE Within(x)'
    <3>1. Pending(x)' \subseteq Pending(x)
      BY <2>3 DEF Pending
    <3>2. Coming(x)' <= Coming(x)
      BY <1>t, <2>1, <2>2 DEF Coming
    <3> QED
      BY <1>b, <2>2, <3>1, <3>2, WithinLess
  <2>5. Within(u)'
    <3>1. w \notin Pending(u) /\ Pending(u)' = Pending(u) \cup {w}
      BY <2>2, <2>3 DEF Pending
    <3>2. Cardinality(Pending(u)') = Cardinality(Pending(u)) + 1
      BY <3>1, PendingFinite, FS_AddElement
    <3>3. Coming(u) = 1 /\ Coming(u)' = 0
      BY <1>t, <2>1, <2>2 DEF Coming
    <3>4. ASSUME NEW r \in Supplier \X Sku
          PROVE  orders[u][r] + (Cardinality(Pending(u)) + 1) + 0 <= 1 + stalls[u]
      <4>1. orders[u][r] + Cardinality(Pending(u)) + 1 <= 1 + stalls[u]
        BY <1>b, <2>1, <3>3 DEF Within
      <4>2. orders[u][r] \in Nat /\ stalls[u] \in Nat
        BY Counts
      <4> QED
        BY <4>1, <4>2, PendingFinite
    <3> QED
      BY <2>2, <3>2, <3>3, <3>4 DEF Within
  <2> QED
    BY <2>4, <2>5 DEF Budget
<1>2. CASE Lookup(w)
  <2>1. /\ Others /\ worker'[w].pc = "commit" /\ worker'[w].job = worker[w].job
        /\ worker[w].pc = "lookup"
    BY <1>2, <1>r DEF Lookup, WorkerState
  <2>2. \A u \in Upload : Pending(u)' \subseteq Pending(u)
    BY <2>1 DEF Pending
  <2>3. UNCHANGED <<job, stalls, orders>>
    BY <1>2 DEF Lookup, bullmq, rows
  <2>4. \A u \in Upload : Coming(u)' <= Coming(u)
    BY <2>3 DEF Coming
  <2> QED
    BY <1>b, <2>2, <2>3, <2>4, WithinLess DEF Budget
<1>3. CASE Ingest(w)
  <2>0. PICK u \in Upload : u = worker[w].job
    BY <1>3 DEF Ingest, TypeInv, Busy
  <2>1. u \in Upload /\ worker[w].pc = "commit"
    BY <1>3 DEF Ingest
  <2>2. Others /\ worker'[w].pc = "audit" /\ worker'[w].job = u
    BY <1>3, <1>r, <2>0 DEF Ingest, Goto, WorkerState
  <2>3. UNCHANGED <<job, stalls>>
    BY <1>3 DEF Ingest, bullmq
  <2>4. \A x \in Upload : Coming(x)' = Coming(x) /\ Coming(x) \in Nat
    BY <2>3 DEF Coming
  <2>5. \A x \in Upload \ {u} : orders'[x] = orders[x]
    BY <1>3, <2>0 DEF Ingest, TypeInv, TypeOK
  <2>6. \A r \in Supplier \X Sku : orders'[u][r] = orders[u][r] \/ orders'[u][r] = orders[u][r] + 1
    BY <1>3, <2>0 DEF Ingest, TypeInv, TypeOK
  <2>7. ASSUME NEW x \in Upload \ {u} PROVE Within(x)'
    <3>1. Pending(x)' \subseteq Pending(x)
      BY <2>2 DEF Pending
    <3> QED
      BY <1>b, <2>3, <2>4, <2>5, <3>1, WithinLess
  <2>8. Within(u)'
    <3>1. w \in Pending(u) /\ Pending(u)' = Pending(u) \ {w}
      BY <2>0, <2>1, <2>2 DEF Pending
    <3>2. Cardinality(Pending(u)') = Cardinality(Pending(u)) - 1
      BY <3>1, PendingFinite, FS_RemoveElement
    <3>3. ASSUME NEW r \in Supplier \X Sku
          PROVE  orders'[u][r] + (Cardinality(Pending(u)) - 1) + Coming(u) <= 1 + stalls[u]
      <4>1. orders[u][r] + Cardinality(Pending(u)) + Coming(u) <= 1 + stalls[u]
        BY <1>b, <2>1 DEF Within
      <4>2. orders[u][r] \in Nat /\ stalls[u] \in Nat
        BY Counts
      <4> QED
        BY <2>1, <2>4, <2>6, <4>1, <4>2, PendingFinite
    <3> QED
      BY <2>1, <2>3, <2>4, <3>2, <3>3 DEF Within
  <2> QED
    BY <2>7, <2>8 DEF Budget
<1>4. ASSUME Others, worker'[w].pc = "idle", UNCHANGED <<stalls, orders>>,
             \A u \in Upload : Coming(u)' <= Coming(u)
      PROVE  Budget'
  <2>1. \A u \in Upload : Pending(u)' \subseteq Pending(u)
    BY <1>4 DEF Pending
  <2> QED
    BY <1>4, <1>b, <2>1, WithinLess DEF Budget
<1>5. ASSUME NEW state \in {"completed", "failed"}, Finish(w, state), worker[w].job \in Upload,
             orders' = orders
      PROVE  Budget'
  <2>1. Others /\ worker'[w].pc = "idle" /\ stalls' = stalls
    BY <1>5, <1>r DEF Finish
  <2>2. job' = [job EXCEPT ![worker[w].job] = state] \/ job' = job
    BY <1>5 DEF Finish
  <2>3. \A u \in Upload : Coming(u)' <= Coming(u)
    <3>1. CASE job' = job
      BY <3>1 DEF Coming
    <3>2. CASE job' = [job EXCEPT ![worker[w].job] = state]
      <4>1. \A u \in Upload : u # worker[w].job => job'[u] = job[u]
        BY <1>5, <1>t, <3>2
      <4>2. job'[worker[w].job] = state
        BY <1>5, <1>t, <3>2
      <4> QED
        BY <1>5, <4>1, <4>2 DEF Coming
    <3> QED
      BY <2>2, <3>1, <3>2
  <2> QED
    BY <1>4, <1>5, <2>1, <2>3
<1>6. CASE AuditAndRefresh(w)
  BY <1>5, <1>6 DEF AuditAndRefresh, TypeInv, Busy, rows
<1>7. CASE Throw(w)
  BY <1>5, <1>7 DEF Throw, TypeInv, Busy, rows
<1>8. CASE Crash(w)
  <2>1. Others /\ worker'[w].pc = "idle"
    BY <1>8, <1>r DEF Crash
  <2>2. UNCHANGED <<job, stalls, orders>>
    BY <1>8 DEF Crash, bullmq, rows
  <2>3. \A u \in Upload : Coming(u)' <= Coming(u)
    BY <2>2 DEF Coming
  <2> QED
    BY <1>4, <2>1, <2>2, <2>3
<1> QED
  BY <1>1, <1>2, <1>3, <1>6, <1>7, <1>8 DEF WorkerStep

LEMMA DeliveryOther ==
  ASSUME TypeInv, QueueInv, Budget,
         \/ \E i \in Sku : PostItem(i)
         \/ \E s \in Supplier : PostSupplier(s)
         \/ Tick \/ ReadOutdated \/ FlagStale \/ UNCHANGED vars
  PROVE  QueueInv' /\ Budget'
<1>1. UNCHANGED <<request, bullmq, worker, orders>>
  BY DEF PostItem, PostSupplier, Tick, ReadOutdated, FlagStale, vars, rows
<1>2. QueueInv'
  BY <1>1 DEF QueueInv, bullmq
<1>3. \A u \in Upload : Pending(u)' = Pending(u) /\ Coming(u)' = Coming(u)
  BY <1>1 DEF Pending, Coming, bullmq
<1>4. Budget'
  BY <1>1, <1>3 DEF Budget, Within, bullmq
<1> QED
  BY <1>2, <1>4

LEMMA DeliveryStep == TypeInv /\ QueueInv /\ Budget /\ [Next]_vars => QueueInv' /\ Budget'
  BY QueueUpload, QueueWorker, BudgetUpload, BudgetWorker, DeliveryOther DEF Next

LEMMA BudgetBounds == TypeInv /\ Budget => OrdersOncePerDelivery
<1> SUFFICES ASSUME TypeInv, Budget, NEW u \in Upload, NEW r \in Supplier \X Sku
             PROVE  orders[u][r] <= 1 + stalls[u]
  BY DEF OrdersOncePerDelivery
<1>1. orders[u][r] + Cardinality(Pending(u)) + Coming(u) <= 1 + stalls[u]
  BY DEF Budget, Within
<1>2. orders[u][r] \in Nat /\ stalls[u] \in Nat /\ Coming(u) \in Nat
  BY Counts DEF Coming
<1> QED
  BY <1>1, <1>2, PendingFinite

-----------------------------------------------------------------------------
(* Names                                                                   *)

(* The workers that are about to create a supplier of the name s: they     *)
(* looked it up while there was none.                                      *)
Inserting(s) ==
  {w \in Worker : /\ worker[w].pc = "commit" /\ KindOf(worker[w].job) = "suppliers"
                  /\ s \in RowsOf(worker[w].job) \ worker[w].known}

(* What is registered and what is about to be never exceeds what was       *)
(* entered by hand and one for each worker.                                *)
Named(s) == registered[s] + Cardinality(Inserting(s)) <= posted[s] + Cardinality(Worker)

NameBudget == \A s \in Supplier : Named(s)

(* Few workers insert a name, before a step and after it.                  *)
LEMMA InsertingFinite ==
  ASSUME NEW s
  PROVE  /\ IsFiniteSet(Inserting(s)) /\ Cardinality(Inserting(s)) \in Nat
         /\ Cardinality(Inserting(s)) <= Cardinality(Worker)
         /\ IsFiniteSet(Inserting(s)') /\ Cardinality(Inserting(s)') \in Nat
         /\ Cardinality(Inserting(s)') <= Cardinality(Worker)
         /\ Cardinality(Worker) \in Nat
<1>1. IsFiniteSet(Worker)
  BY IngestionAssumption DEF IngestionAssumption
<1>2. Inserting(s) \subseteq Worker /\ Inserting(s)' \subseteq Worker
  BY DEF Inserting
<1>3. /\ IsFiniteSet(Inserting(s)) /\ Cardinality(Inserting(s)) <= Cardinality(Worker)
      /\ IsFiniteSet(Inserting(s)') /\ Cardinality(Inserting(s)') <= Cardinality(Worker)
  BY <1>1, <1>2, FS_Subset
<1> QED
  BY <1>1, <1>3, FS_CardinalityType

(* A name has been registered and entered a number of times.               *)
LEMMA NameCounts ==
  ASSUME TypeInv, NEW s \in Supplier
  PROVE  registered[s] \in Nat /\ posted[s] \in Nat
<1>1. registered \in [Supplier -> Nat] /\ posted \in [Supplier -> 0..MaxPosts]
  BY DEF TypeInv, TypeOK
<1>2. posted[s] \in 0..MaxPosts
  BY <1>1
<1> QED
  BY <1>1, <1>2

(* No worker more, and no name more than was entered by hand.              *)
LEMMA NamedLess ==
  ASSUME TypeInv, TypeInv', NEW s \in Supplier, Named(s), Inserting(s)' \subseteq Inserting(s),
         \/ registered'[s] = registered[s] /\ posted'[s] = posted[s]
         \/ registered'[s] = registered[s] + 1 /\ posted'[s] = posted[s] + 1
  PROVE  Named(s)'
<1>1. Cardinality(Inserting(s)') <= Cardinality(Inserting(s))
  BY InsertingFinite, FS_Subset
<1>2. registered[s] \in Nat /\ posted[s] \in Nat
  BY NameCounts
<1> QED
  BY <1>1, <1>2, InsertingFinite DEF Named

(* A lookup lets its worker insert only names that are not there yet.      *)
LEMMA NamedLookup ==
  ASSUME TypeInv, TypeInv', NameBudget, NEW w \in Worker, Lookup(w) PROVE NameBudget'
<1> SUFFICES ASSUME NEW s \in Supplier PROVE Named(s)'
  BY DEF NameBudget
<1>1. registered'[s] = registered[s] /\ posted'[s] = posted[s]
  BY DEF Lookup, rows
<1>2. registered[s] \in Nat /\ posted[s] \in Nat
  BY NameCounts
<1>3. CASE registered[s] = 0
  BY <1>1, <1>2, <1>3, InsertingFinite DEF Named
<1>4. CASE registered[s] > 0
  <2> DEFINE u == worker[w].job
  <2>1. /\ worker \in [Worker -> WorkerState]
        /\ worker' = [worker EXCEPT ![w].pc = "commit", ![w].known = Known(u)]
    BY DEF Lookup, TypeInv, TypeOK, WorkerState, RowSet
  <2>2. worker'[w].job = u /\ worker'[w].known = Known(u)
    BY <2>1 DEF WorkerState
  <2>3. KindOf(u) = "suppliers" /\ s \in RowsOf(u) => s \in Known(u)
    BY <1>4 DEF Known
  <2>4. w \notin Inserting(s)'
    BY <2>2, <2>3 DEF Inserting
  <2>5. \A x \in Worker \ {w} : worker'[x] = worker[x]
    BY <2>1
  <2>6. Inserting(s)' \subseteq Inserting(s)
    BY <2>4, <2>5, Zenon DEF Inserting
  <2> QED
    BY <1>1, <2>6, NamedLess DEF NameBudget
<1> QED
  BY <1>2, <1>3, <1>4

(* A worker that creates a supplier is one less to create it.              *)
LEMMA NamedIngest ==
  ASSUME TypeInv, TypeInv', NameBudget, NEW w \in Worker, Ingest(w) PROVE NameBudget'
<1> SUFFICES ASSUME NEW s \in Supplier PROVE Named(s)'
  BY DEF NameBudget
<1> DEFINE u == worker[w].job
           Creates == KindOf(u) = "suppliers" /\ s \in RowsOf(u) \ worker[w].known
<1>1. /\ worker \in [Worker -> WorkerState] /\ worker[w].pc = "commit"
      /\ worker' = [worker EXCEPT ![w].pc = "audit"]
  BY DEF Ingest, Goto, TypeInv, TypeOK, WorkerState, RowSet
<1>2. worker'[w].pc = "audit" /\ \A x \in Worker \ {w} : worker'[x] = worker[x]
  BY <1>1 DEF WorkerState
<1>3. w \notin Inserting(s)' /\ (Creates => w \in Inserting(s))
  BY <1>1, <1>2 DEF Inserting
<1>4. Inserting(s)' \subseteq Inserting(s) \ {w}
  BY <1>2, <1>3, Zenon DEF Inserting
<1>5. posted'[s] = posted[s] /\ registered'[s] = IF Creates THEN registered[s] + 1 ELSE registered[s]
  BY DEF Ingest
<1>6. CASE ~Creates
  BY <1>4, <1>5, <1>6, NamedLess DEF NameBudget
<1>7. CASE Creates
  <2>1. Cardinality(Inserting(s) \ {w}) = Cardinality(Inserting(s)) - 1
    BY <1>3, <1>7, InsertingFinite, FS_RemoveElement
  <2>2. Cardinality(Inserting(s)') <= Cardinality(Inserting(s) \ {w})
    BY <1>4, InsertingFinite, FS_RemoveElement, FS_Subset
  <2>3. registered[s] + Cardinality(Inserting(s)) <= posted[s] + Cardinality(Worker)
    BY DEF NameBudget, Named
  <2>4. registered'[s] = registered[s] + 1
    BY <1>5, <1>7
  <2> HIDE DEF Creates
  <2>5. registered'[s] + Cardinality(Inserting(s)') <= posted'[s] + Cardinality(Worker)
    BY <1>5, <2>1, <2>2, <2>3, <2>4, NameCounts, InsertingFinite
  <2> QED
    BY <2>5 DEF Named
<1> QED
  BY <1>6, <1>7

(* No other step lets a worker insert, and none but a supplier entered by  *)
(* hand registers a name.                                                  *)
LEMMA NamedQuiet ==
  ASSUME TypeInv, TypeInv', NameBudget, [Next]_vars,
         \A w \in Worker : ~Lookup(w) /\ ~Ingest(w)
  PROVE  NameBudget'
<1> SUFFICES ASSUME NEW s \in Supplier PROVE Named(s)'
  BY DEF NameBudget
<1>1. worker \in [Worker -> WorkerState] /\ NoJob.pc = "idle"
  BY DEF TypeInv, TypeOK, WorkerState, RowSet, NoJob
<1>2. ASSUME NEW w \in Worker, Claim(w) \/ AuditAndRefresh(w) \/ Throw(w) \/ Crash(w)
      PROVE  Inserting(s)' \subseteq Inserting(s) /\ UNCHANGED <<registered, posted>>
  <2>1. UNCHANGED <<registered, posted>>
    BY <1>2 DEF Claim, AuditAndRefresh, Throw, Crash, rows
  <2>2. PICK c : c.pc # "commit" /\ worker' = [worker EXCEPT ![w] = c]
    BY <1>1, <1>2 DEF Claim, AuditAndRefresh, Throw, Crash, Finish, NoJob
  <2>3. worker'[w].pc # "commit" /\ \A x \in Worker \ {w} : worker'[x] = worker[x]
    BY <1>1, <2>2
  <2>4. Inserting(s)' \subseteq Inserting(s)
    BY <2>3, Zenon DEF Inserting
  <2> QED
    BY <2>1, <2>4
<1>3. ASSUME \/ \E u \in Upload : CreateSource(u) \/ Enqueue(u) \/ UploadDies(u) \/ Stall(u)
             \/ \E i \in Sku : PostItem(i)
             \/ Tick \/ ReadOutdated \/ FlagStale \/ UNCHANGED vars
      PROVE  UNCHANGED <<worker, registered, posted>>
  BY <1>3 DEF CreateSource, Enqueue, UploadDies, Stall, PostItem, Tick, ReadOutdated, FlagStale, rows, vars
<1>4. ASSUME NEW x \in Supplier, PostSupplier(x)
      PROVE  /\ UNCHANGED worker
             /\ \/ registered'[s] = registered[s] /\ posted'[s] = posted[s]
                \/ registered'[s] = registered[s] + 1 /\ posted'[s] = posted[s] + 1
  BY <1>4 DEF PostSupplier, TypeInv, TypeOK
<1>5. UNCHANGED worker => Inserting(s)' = Inserting(s)
  BY DEF Inserting
<1>6. /\ Inserting(s)' \subseteq Inserting(s)
      /\ \/ registered'[s] = registered[s] /\ posted'[s] = posted[s]
         \/ registered'[s] = registered[s] + 1 /\ posted'[s] = posted[s] + 1
  BY <1>2, <1>3, <1>4, <1>5 DEF Next, WorkerStep
<1> QED
  BY <1>6, NamedLess DEF NameBudget

LEMMA NamedInit == Init => NameBudget
<1> SUFFICES ASSUME Init, NEW s \in Supplier PROVE Named(s)
  BY DEF NameBudget
<1>1. registered[s] = 0 /\ posted[s] = 0
  BY DEF Init
<1> QED
  BY <1>1, InsertingFinite DEF Named

LEMMA NamedStep == TypeInv /\ NameBudget /\ [Next]_vars => NameBudget'
  BY TypeStep, NamedLookup, NamedIngest, NamedQuiet

LEMMA NamedBounds == TypeInv /\ NameBudget => SuppliersNotMultiplied
<1> SUFFICES ASSUME TypeInv, NameBudget, NEW s \in Supplier
             PROVE  registered[s] <= posted[s] + Cardinality(Worker)
  BY DEF SuppliersNotMultiplied
<1>1. registered[s] + Cardinality(Inserting(s)) <= posted[s] + Cardinality(Worker)
  BY DEF NameBudget, Named
<1> QED
  BY <1>1, NameCounts, InsertingFinite

-----------------------------------------------------------------------------
(* Names of files, and rows that were ready                                *)

(* Only a supplier file that is synced registers a name that nobody entered. *)
LEMMA FileNamesStep ==
  ASSUME TypeInv, NamesFollowMark, [Next]_vars PROVE NamesFollowMark'
<1>n. 0 # NULL /\ \A k \in Nat : k # NULL
  BY IngestionAssumption DEF IngestionAssumption
<1>t. /\ age \in [Upload -> 0..(Threshold + 1) \cup {NULL}] /\ Threshold \in Nat
      /\ registered \in [Supplier -> Nat] /\ posted \in [Supplier -> 0..MaxPosts]
  BY IngestionAssumption DEF TypeInv, TypeOK, IngestionAssumption
<1>1. ASSUME NEW w \in Worker, Ingest(w) PROVE NamesFollowMark'
  <2> DEFINE u == worker[w].job
  <2>1. u \in Upload /\ age'[u] = 0 /\ \A x \in Upload \ {u} : age'[x] = age[x]
    BY <1>1, <1>t DEF Ingest, TypeInv, Busy
  <2>2. ASSUME NEW s \in Supplier, ~(KindOf(u) = "suppliers" /\ s \in RowsOf(u))
        PROVE  registered'[s] = registered[s] /\ posted'[s] = posted[s]
    BY <1>1, <2>2 DEF Ingest
  <2> QED
    BY <1>n, <2>1, <2>2 DEF NamesFollowMark, KindOf, RowsOf
<1>2. ASSUME NEW s \in Supplier, PostSupplier(s) PROVE NamesFollowMark'
  <2>1. age' = age
    BY <1>2 DEF PostSupplier
  <2>2. \A x \in Supplier : \/ registered'[x] = registered[x] /\ posted'[x] = posted[x]
                            \/ registered'[x] = registered[x] + 1 /\ posted'[x] = posted[x] + 1
    BY <1>2, <1>t DEF PostSupplier
  <2>3. \A x \in Supplier : registered'[x] # posted'[x] => registered[x] # posted[x]
    BY <2>2
  <2> QED
    BY <2>1, <2>3 DEF NamesFollowMark, KindOf, RowsOf
<1>3. ASSUME UNCHANGED <<registered, posted>>, MarksStay PROVE NamesFollowMark'
  BY <1>3 DEF NamesFollowMark, MarksStay, KindOf, RowsOf
<1>4. CASE Tick
  <2>1. MarksStay
    BY <1>4, <1>t, <1>n DEF Tick, MarksStay
  <2> QED
    BY <1>3, <1>4, <2>1 DEF Tick, rows
<1>5. ASSUME age' = age PROVE MarksStay
  BY <1>5 DEF MarksStay
<1>6. CASE \E u \in Upload : CreateSource(u) \/ Enqueue(u) \/ UploadDies(u) \/ Stall(u)
  BY <1>3, <1>5, <1>6 DEF CreateSource, Enqueue, UploadDies, Stall, rows
<1>7. CASE \E w \in Worker : Claim(w) \/ Lookup(w) \/ AuditAndRefresh(w) \/ Throw(w) \/ Crash(w)
  BY <1>3, <1>5, <1>7 DEF Claim, Lookup, AuditAndRefresh, Throw, Crash, rows
<1>8. CASE \/ \E i \in Sku : PostItem(i)
           \/ ReadOutdated \/ FlagStale \/ UNCHANGED vars
  BY <1>3, <1>5, <1>8 DEF PostItem, ReadOutdated, FlagStale, vars, rows
<1> QED
  BY <1>1, <1>2, <1>4, <1>6, <1>7, <1>8 DEF Next, WorkerStep

(* A ready row stays resolvable, a worker that looked its file up found it, *)
(* and only files that were uploaded are worked on or synced.              *)
ReadyInv ==
  /\ \A u \in Upload : ready[u] \subseteq Resolvable(u)
  /\ \A w \in Worker : worker[w].pc = "commit" => ready[worker[w].job] \subseteq worker[w].known
  /\ \A w \in Worker : worker[w].pc # "idle" => request[worker[w].job] # "idle"
  /\ \A u \in Upload : age[u] # NULL => request[u] # "idle"
  /\ ReadyIsOrdered

(* What was resolvable stays so.                                           *)
LEMMA ResolvableStays ==
  ASSUME TypeInv, [Next]_vars, NEW u \in Upload PROVE Resolvable(u) \subseteq Resolvable(u)'
<1>1. \A i \in Sku : item[i] # NULL => item'[i] # NULL
  <2>1. \A w \in Worker : worker[w].pc = "commit" => worker[w].job # NULL
    BY IngestionAssumption DEF TypeInv, Busy, IngestionAssumption
  <2>2. \/ \E w \in Worker : Ingest(w)
        \/ \E i \in Sku : PostItem(i)
        \/ item' = item
    BY DEF Next, WorkerStep, CreateSource, Enqueue, UploadDies, Stall, Claim, Lookup,
           AuditAndRefresh, Throw, Crash, PostSupplier, Tick, ReadOutdated, FlagStale, rows, vars
  <2>3. ASSUME NEW w \in Worker, Ingest(w) PROVE \A i \in Sku : item[i] # NULL => item'[i] # NULL
    BY <2>1, <2>3 DEF Ingest
  <2>4. ASSUME NEW j \in Sku, PostItem(j) PROVE \A i \in Sku : item[i] # NULL => item'[i] # NULL
    BY <2>4, IngestionAssumption DEF PostItem, TypeInv, TypeOK, IngestionAssumption
  <2> QED
    BY <2>2, <2>3, <2>4
<1>2. \A s \in Supplier : registered[s] > 0 => registered'[s] > 0
  <2>1. registered \in [Supplier -> Nat]
    BY DEF TypeInv, TypeOK
  <2>2. \/ \E w \in Worker : Ingest(w)
        \/ \E s \in Supplier : PostSupplier(s)
        \/ registered' = registered
    BY DEF Next, WorkerStep, CreateSource, Enqueue, UploadDies, Stall, Claim, Lookup,
           AuditAndRefresh, Throw, Crash, PostItem, Tick, ReadOutdated, FlagStale, rows, vars
  <2>3. ASSUME NEW w \in Worker, Ingest(w)
        PROVE  \A s \in Supplier : registered[s] > 0 => registered'[s] > 0
    BY <2>1, <2>3 DEF Ingest
  <2>4. ASSUME NEW x \in Supplier, PostSupplier(x)
        PROVE  \A s \in Supplier : registered[s] > 0 => registered'[s] > 0
    BY <2>1, <2>4 DEF PostSupplier
  <2> QED
    BY <2>2, <2>3, <2>4
<1>3. ASSUME NEW r \in Resolvable(u) PROVE r \in Resolvable(u)'
  <2>1. r \in Supplier \X Sku /\ r \in RowsOf(u) /\ KindOf(u) = "orders"
    BY ResolvableRows DEF Resolvable
  <2>2. r[1] \in Supplier /\ r[2] \in Sku
    BY <2>1
  <2> QED
    BY <1>1, <1>2, <2>1, <2>2 DEF Resolvable, RowsOf, KindOf
<1> QED
  BY <1>3

LEMMA ReadyInit == Init => NamesFollowMark /\ ReadyInv
  BY DEF Init, NamesFollowMark, ReadyInv, ReadyIsOrdered, NoJob

(* Steps of a worker.                                                      *)
LEMMA ReadyWorker ==
  ASSUME TypeInv, QueueInv, ReadyInv, [Next]_vars,
         NEW w \in Worker, WorkerStep(w) \/ Throw(w) \/ Crash(w)
  PROVE  ReadyInv'
<1> DEFINE Others == \A x \in Worker \ {w} : worker'[x] = worker[x]
<1>r. /\ worker \in [Worker -> WorkerState] /\ NoJob.pc = "idle"
      /\ age \in [Upload -> 0..(Threshold + 1) \cup {NULL}]
      /\ \A x \in Worker : worker[x].pc # "idle" => worker[x].job \in Upload
  BY DEF TypeInv, TypeOK, Busy, WorkerState, RowSet, NoJob
<1>a. request' = request /\ ready' = ready
  BY DEF WorkerStep, Claim, Lookup, Ingest, AuditAndRefresh, Throw, Crash, aside
<1>b. \A u \in Upload : ready'[u] \subseteq Resolvable(u)'
  BY <1>a, ResolvableStays DEF ReadyInv
<1>q. ASSUME UNCHANGED <<age, orders>>, Others,
             worker'[w].pc # "idle" => request[worker'[w].job] # "idle",
             worker'[w].pc = "commit" => ready[worker'[w].job] \subseteq worker'[w].known
      PROVE  ReadyInv'
  BY <1>a, <1>b, <1>q DEF ReadyInv, ReadyIsOrdered
<1>1. CASE Claim(w)
  <2>1. Head(queue) \in Upload /\ job[Head(queue)] = "waiting"
    <3>1. queue \in Seq(Upload) /\ queue # <<>>
      BY <1>1 DEF Claim, TypeInv, TypeOK
    <3>2. Head(queue) = queue[1] /\ 1 \in 1..Len(queue) /\ Head(queue) \in Upload
      BY <3>1
    <3> QED
      BY <3>2 DEF QueueInv
  <2>2. request[Head(queue)] # "idle"
    BY <2>1 DEF QueueInv
  <2>3. worker'[w].pc = "lookup" /\ worker'[w].job = Head(queue) /\ Others
    BY <1>1, <1>r DEF Claim, NoJob
  <2> QED
    BY <1>1, <1>q, <2>2, <2>3 DEF Claim, rows
<1>2. CASE Lookup(w)
  <2> DEFINE u == worker[w].job
  <2>1. /\ Others /\ worker'[w].job = u /\ worker'[w].known = Known(u)
        /\ worker[w].pc = "lookup" /\ u \in Upload
    BY <1>2, <1>r DEF Lookup, WorkerState
  <2>2. ready[u] \subseteq Known(u)
    BY <2>1, ResolvableRows DEF ReadyInv, Known
  <2>3. request[u] # "idle"
    BY <2>1 DEF ReadyInv
  <2> QED
    BY <1>2, <1>q, <2>1, <2>2, <2>3 DEF Lookup, rows
<1>3. CASE Ingest(w)
  <2> DEFINE u == worker[w].job
  <2>1. /\ Others /\ worker'[w].pc = "audit" /\ worker'[w].job = u
        /\ worker[w].pc = "commit" /\ u \in Upload
    BY <1>3, <1>r DEF Ingest, Goto, WorkerState
  <2>2. \A x \in Upload \ {u} : orders'[x] = orders[x] /\ age'[x] = age[x]
    BY <1>3, <1>r, <2>1 DEF Ingest, TypeInv, TypeOK
  <2>3. ASSUME NEW r \in ready[u] PROVE orders'[u][r] > 0
    <3>1. r \in worker[w].known /\ r \in Supplier \X Sku /\ KindOf(u) = "orders"
      BY <2>1, ResolvableRows DEF ReadyInv
    <3>2. orders'[u][r] = orders[u][r] + 1 /\ orders[u][r] \in Nat
      BY <1>3, <2>1, <3>1, Counts DEF Ingest, TypeInv, TypeOK
    <3> QED
      BY <3>2
  <2>4. ReadyIsOrdered'
    BY <1>a, <2>1, <2>2, <2>3 DEF ReadyInv, ReadyIsOrdered
  <2>5. \A x \in Upload : age'[x] # NULL => request[x] # "idle"
    BY <2>1, <2>2 DEF ReadyInv
  <2> QED
    BY <1>a, <1>b, <2>1, <2>4, <2>5 DEF ReadyInv
<1>4. CASE AuditAndRefresh(w) \/ Throw(w) \/ Crash(w)
  BY <1>4, <1>q, <1>r DEF AuditAndRefresh, Throw, Crash, Finish, rows
<1> QED
  BY <1>1, <1>2, <1>3, <1>4 DEF WorkerStep

(* The other steps: an upload fixes the rows that are ready while nobody   *)
(* works on its file.                                                      *)
LEMMA ReadyOther ==
  ASSUME TypeInv, ReadyInv, [Next]_vars,
         \/ \E u \in Upload : CreateSource(u) \/ Enqueue(u) \/ UploadDies(u) \/ Stall(u)
         \/ \E i \in Sku : PostItem(i)
         \/ \E s \in Supplier : PostSupplier(s)
         \/ Tick \/ ReadOutdated \/ FlagStale \/ UNCHANGED vars
  PROVE  ReadyInv'
<1>t. /\ request \in [Upload -> {"idle", "enqueue", "accepted", "failed"}]
      /\ age \in [Upload -> 0..(Threshold + 1) \cup {NULL}]
      /\ ready \in [Upload -> SUBSET (Supplier \X Sku)]
      /\ \A x \in Worker : worker[x].pc # "idle" => worker[x].job \in Upload
  BY DEF TypeInv, TypeOK, Busy
<1>q. ASSUME UNCHANGED <<worker, orders, ready>>,
             \A u \in Upload : age'[u] # NULL => age[u] # NULL,
             \A u \in Upload : request[u] # "idle" => request'[u] # "idle"
      PROVE  ReadyInv'
  <2>1. \A u \in Upload : ready'[u] \subseteq Resolvable(u)'
    BY <1>q, ResolvableStays DEF ReadyInv
  <2> QED
    BY <1>q, <1>t, <2>1 DEF ReadyInv, ReadyIsOrdered
<1>1. ASSUME NEW u \in Upload, CreateSource(u) PROVE ReadyInv'
  <2>1. /\ request[u] = "idle" /\ ready'[u] = Resolvable(u)
        /\ \A x \in Upload \ {u} : ready'[x] = ready[x]
        /\ \A x \in Upload : request[x] # "idle" => request'[x] # "idle"
        /\ UNCHANGED <<age, worker, orders>>
    BY <1>1, <1>t DEF CreateSource, rows
  <2>2. age[u] = NULL /\ \A w \in Worker : worker[w].pc # "idle" => worker[w].job # u
    BY <2>1 DEF ReadyInv
  <2>3. \A x \in Upload : ready'[x] \subseteq Resolvable(x)'
    BY <2>1, ResolvableStays DEF ReadyInv
  <2>4. ReadyIsOrdered'
    BY <2>1, <2>2 DEF ReadyInv, ReadyIsOrdered
  <2> QED
    BY <1>t, <2>1, <2>2, <2>3, <2>4 DEF ReadyInv
<1>2. CASE \E u \in Upload : Enqueue(u) \/ UploadDies(u) \/ Stall(u)
  BY <1>2, <1>q, <1>t DEF Enqueue, UploadDies, Stall, rows, aside
<1>3. CASE Tick
  <2>1. \A u \in Upload : age'[u] # NULL => age[u] # NULL
    BY <1>3 DEF Tick
  <2> QED
    BY <1>3, <1>q, <2>1 DEF Tick, rows, aside
<1>4. CASE \/ \E i \in Sku : PostItem(i)
           \/ \E s \in Supplier : PostSupplier(s)
           \/ ReadOutdated \/ FlagStale \/ UNCHANGED vars
  BY <1>4, <1>q DEF PostItem, PostSupplier, ReadOutdated, FlagStale, vars, rows, aside
<1> QED
  BY <1>1, <1>2, <1>3, <1>4

LEMMA ReadyStep ==
  TypeInv /\ QueueInv /\ ReadyInv /\ [Next]_vars => ReadyInv'
  BY ReadyWorker, ReadyOther DEF Next

-----------------------------------------------------------------------------
(* Theorems                                                                *)

(* Every reachable state is well typed.                                    *)
THEOREM TypeCorrect == Spec => []TypeOK
<1>1. Spec => []TypeInv
  BY TypeInit, TypeStep, PTL DEF Spec
<1> QED
  BY <1>1, PTL DEF TypeInv

(* What the sync mark of a file says about its rows: all of its items or   *)
(* suppliers and, of its orders, those that could be written when it was   *)
(* uploaded; without the mark there is none, whichever request, job or     *)
(* worker dies.                                                            *)
THEOREM SyncedTheorem == Spec => []SyncedIsIngested
<1> DEFINE Inv == /\ TypeInv /\ SyncInv /\ QueueInv /\ Budget
                  /\ NamesFollowMark /\ ReadyInv
<1>1. Init => Inv
  BY TypeInit, SyncInit, DeliveryInit, ReadyInit
<1>2. Inv /\ [Next]_vars => Inv'
  BY TypeStep, SyncStep, DeliveryStep, FileNamesStep, ReadyStep
<1>3. Inv => SyncedIsIngested
  BY DEF SyncInv, ReadyInv, SyncedIsIngested
<1> QED
  BY <1>1, <1>2, <1>3, PTL DEF Spec

(* A source that is never flagged although it never synced has a reason.   *)
THEOREM UnsyncedTheorem == Spec => []UnsyncedIsExplained
<1>1. TypeInv /\ UnsyncedInv /\ [Next]_vars => (TypeInv /\ UnsyncedInv)'
  BY TypeStep, UnsyncedStep
<1>2. Spec => [](TypeInv /\ UnsyncedInv)
  BY TypeInit, UnsyncedInit, <1>1, PTL DEF Spec
<1> QED
  BY <1>2, UnsyncedExplains, PTL

(* A row of an order file is written once for each delivery, at most.      *)
THEOREM DeliveryTheorem == Spec => []OrdersOncePerDelivery
<1>1. /\ Init => TypeInv /\ QueueInv /\ Budget
      /\ TypeInv /\ QueueInv /\ Budget /\ [Next]_vars => (TypeInv /\ QueueInv /\ Budget)'
  BY TypeInit, DeliveryInit, TypeStep, DeliveryStep
<1>2. Spec => [](TypeInv /\ QueueInv /\ Budget)
  BY <1>1, PTL DEF Spec
<1> QED
  BY <1>2, BudgetBounds, PTL

(* Lookups that race create no more suppliers of a name than there are     *)
(* workers, beyond those entered by hand.                                  *)
THEOREM NamesTheorem == Spec => []SuppliersNotMultiplied
<1>1. TypeInv /\ NameBudget /\ [Next]_vars => (TypeInv /\ NameBudget)'
  BY TypeStep, NamedStep
<1>2. Spec => [](TypeInv /\ NameBudget)
  BY TypeInit, NamedInit, <1>1, PTL DEF Spec
<1> QED
  BY <1>2, NamedBounds, PTL
=============================================================================
