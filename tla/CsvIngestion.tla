---------------------------- MODULE CsvIngestion ----------------------------
(***************************************************************************)
(* How operational data gets into apps/api: a CSV upload becomes a data    *)
(* source and a BullMQ job, a worker writes the rows of the file in one    *)
(* transaction, single items and suppliers are posted by hand, and a cron  *)
(* job flags sources that have not been synced for a while.                *)
(*                                                                         *)
(* BullMQ delivers at least once: a job whose worker loses its lock (the   *)
(* process died or its event loop was blocked) is put back in front of the *)
(* queue once, and fails the second time.  A job that throws fails at once *)
(* (queue.add sets no attempts).  What is ingested belongs to one tenant:  *)
(* names and skus are looked up inside the tenant of the job.              *)
(***************************************************************************)
EXTENDS Integers, Sequences, FiniteSets

CONSTANTS
    Upload,     \* POST /data-sources/csv-upload requests, each with its data source and job
    Worker,     \* BullMQ workers, one in every API process
    Sku,        \* inventory item codes
    Supplier,   \* supplier names
    FileOf,     \* the data_type and the rows of each uploaded file
    Threshold,  \* DATA_FRESHNESS_THRESHOLD_MINUTES, in ticks
    MaxPosts,   \* bound: suppliers entered by hand under one name
    MaxFaults,  \* bound: requests, jobs and workers that fail
    NULL        \* SQL NULL, or no row

File == [kind : {"inventory"}, rows : SUBSET Sku]
            \cup [kind : {"suppliers"}, rows : SUBSET Supplier]
            \cup [kind : {"orders"}, rows : SUBSET (Supplier \X Sku)]

ASSUME IngestionAssumption ==
    /\ FileOf \in [Upload -> File]
    /\ IsFiniteSet(Worker) /\ Worker # {}
    /\ Threshold \in Nat /\ MaxPosts \in Nat /\ MaxFaults \in Nat
    /\ NULL \notin Upload \cup Worker \cup {"manual"} /\ NULL \notin Nat
    /\ "manual" \notin Upload

VARIABLES
    request,    \* progress of each upload request
    source,     \* data_sources.status
    age,        \* ticks since data_sources.last_synced_at, up to Threshold + 1
    job,        \* state of each upload's job
    queue,      \* the jobs that wait, the next one first
    holder,     \* the worker that holds a job's lock
    stalls,     \* how often a job has been put back
    worker,     \* what each worker is doing
    item,       \* inventory_items.data_source_id of each sku
    registered, \* how many suppliers carry each name
    posted,     \* how many of them were entered by hand
    orders,     \* how many orders each row of each file has created
    ready,      \* history: the rows of an order file that it could order when it was uploaded
    outdated,   \* the data sources that the freshness checker has read
    faults      \* faults so far

rows   == <<item, registered, posted, orders>>
bullmq == <<job, queue, holder, stalls>>
aside  == <<ready, outdated>>
vars   == <<request, source, age, bullmq, worker, rows, aside, faults>>

KindOf(u) == FileOf[u].kind
RowsOf(u) == FileOf[u].rows

(* known: the rows whose supplier, or whose supplier and item, was found.  *)
NoJob == [pc |-> "idle", job |-> NULL, known |-> {}]

Init ==
    /\ request = [u \in Upload |-> "idle"]
    /\ source = [u \in Upload |-> "none"]
    /\ age = [u \in Upload |-> NULL]
    /\ job = [u \in Upload |-> "none"]
    /\ queue = <<>>
    /\ holder = [u \in Upload |-> NULL]
    /\ stalls = [u \in Upload |-> 0]
    /\ worker = [w \in Worker |-> NoJob]
    /\ item = [i \in Sku |-> NULL]
    /\ registered = [s \in Supplier |-> 0]
    /\ posted = [s \in Supplier |-> 0]
    /\ orders = [u \in Upload |-> [r \in Supplier \X Sku |-> 0]]
    /\ ready = [u \in Upload |-> {}]
    /\ outdated = {}
    /\ faults = 0

Fault == faults < MaxFaults /\ faults' = faults + 1

(* The rows of an order file whose supplier and item are both there: the   *)
(* others are skipped with a warning, and the file still counts as synced. *)
Resolvable(u) ==
    {r \in RowsOf(u) : KindOf(u) = "orders" /\ registered[r[1]] > 0 /\ item[r[2]] # NULL}

-----------------------------------------------------------------------------
(* POST /data-sources/csv-upload *)

CreateSource(u) ==
    /\ request[u] = "idle"
    /\ source' = [source EXCEPT ![u] = "active"]
    /\ request' = [request EXCEPT ![u] = "enqueue"]
    /\ ready' = [ready EXCEPT ![u] = Resolvable(u)]
    /\ UNCHANGED <<age, bullmq, worker, rows, outdated, faults>>

(* Broken: the response does not wait for the queue, which never got the job. *)
EnqueueLost(u) ==
    /\ request[u] = "enqueue"
    /\ request' = [request EXCEPT ![u] = "accepted"]
    /\ UNCHANGED <<source, age, bullmq, worker, rows, faults, aside>>

(* The job is added and the 202 goes out. *)
Enqueue(u) ==
    /\ request[u] = "enqueue"
    /\ queue' = Append(queue, u)
    /\ job' = [job EXCEPT ![u] = "waiting"]
    /\ request' = [request EXCEPT ![u] = "accepted"]
    /\ UNCHANGED <<source, age, holder, stalls, worker, rows, faults, aside>>

(* Redis is down or the process dies: the data source stays behind. *)
UploadDies(u) ==
    /\ request[u] = "enqueue"
    /\ request' = [request EXCEPT ![u] = "failed"]
    /\ Fault
    /\ UNCHANGED <<source, age, bullmq, worker, rows, aside>>

-----------------------------------------------------------------------------
(* The worker: CsvIngestionQueue.process *)

Goto(w, pc) == worker' = [worker EXCEPT ![w].pc = pc]

Claim(w) ==
    /\ worker[w].pc = "idle"
    /\ queue # <<>>
    /\ queue' = Tail(queue)
    /\ job' = [job EXCEPT ![Head(queue)] = "active"]
    /\ holder' = [holder EXCEPT ![Head(queue)] = w]
    /\ worker' = [worker EXCEPT ![w] = [NoJob EXCEPT !.pc = "lookup", !.job = Head(queue)]]
    /\ UNCHANGED <<request, source, age, stalls, rows, faults, aside>>

(* Broken: suppliers are inserted without looking for the name. *)
KnownOrdersOnly(u) == Resolvable(u)

(* What the queries of the transaction find.  An inventory row is upserted *)
(* and needs none; nothing that was found is ever deleted.                 *)
Known(u) ==
    CASE KindOf(u) = "inventory" -> {}
      [] KindOf(u) = "suppliers" -> {s \in RowsOf(u) : registered[s] > 0}
      [] KindOf(u) = "orders" -> Resolvable(u)

(* Broken: the sync mark is a transaction of its own, before the rows. *)
LookupMarks(w) ==
    /\ worker[w].pc = "lookup"
    /\ age' = [age EXCEPT ![worker[w].job] = 0]
    /\ worker' = [worker EXCEPT ![w].pc = "commit", ![w].known = Known(worker[w].job)]
    /\ UNCHANGED <<request, source, bullmq, rows, faults, aside>>

Lookup(w) ==
    /\ worker[w].pc = "lookup"
    /\ worker' = [worker EXCEPT ![w].pc = "commit", ![w].known = Known(worker[w].job)]
    /\ UNCHANGED <<request, source, age, bullmq, rows, faults, aside>>

(* All rows and the sync mark commit together: items are upserted, known   *)
(* suppliers updated and the others created, orders created for the known  *)
(* rows.                                                                   *)
Ingest(w) ==
    LET u == worker[w].job IN
    /\ worker[w].pc = "commit"
    /\ item' = [i \in Sku |->
          IF KindOf(u) = "inventory" /\ i \in RowsOf(u) THEN u ELSE item[i]]
    /\ registered' = [s \in Supplier |->
          IF KindOf(u) = "suppliers" /\ s \in RowsOf(u) \ worker[w].known
          THEN registered[s] + 1 ELSE registered[s]]
    /\ orders' = [orders EXCEPT ![u] = [r \in Supplier \X Sku |->
          IF KindOf(u) = "orders" /\ r \in worker[w].known THEN @[r] + 1 ELSE @[r]]]
    /\ age' = [age EXCEPT ![u] = 0]
    /\ Goto(w, "audit")
    /\ UNCHANGED <<request, source, bullmq, posted, faults, aside>>

(* Only the worker that holds the lock can move the job on. *)
Finish(w, state) ==
    LET u == worker[w].job IN
    /\ job' = IF holder[u] = w THEN [job EXCEPT ![u] = state] ELSE job
    /\ holder' = IF holder[u] = w THEN [holder EXCEPT ![u] = NULL] ELSE holder
    /\ worker' = [worker EXCEPT ![w] = NoJob]
    /\ UNCHANGED <<queue, stalls>>

(* The audit entry and TwinService.refreshAndNotify (module TwinCache) end  *)
(* the job; one that throws between them is a Throw here.                  *)
AuditAndRefresh(w) ==
    /\ worker[w].pc = "audit"
    /\ Finish(w, "completed")
    /\ UNCHANGED <<request, source, age, rows, faults, aside>>

(* Broken: a job that throws is tried again. *)
ThrowRetried(w) ==
    LET u == worker[w].job IN
    /\ worker[w].pc # "idle" /\ holder[u] = w
    /\ Fault
    /\ job' = [job EXCEPT ![u] = "waiting"]
    /\ queue' = Append(queue, u)
    /\ holder' = [holder EXCEPT ![u] = NULL]
    /\ worker' = [worker EXCEPT ![w] = NoJob]
    /\ UNCHANGED <<request, source, age, stalls, rows, aside>>

(* A malformed file, a bad number or a transaction that times out: the     *)
(* processor throws, what it has committed stays, and the job has failed.  *)
Throw(w) ==
    /\ worker[w].pc # "idle"
    /\ Fault
    /\ Finish(w, "failed")
    /\ UNCHANGED <<request, source, age, rows, aside>>

(* The process dies and is started again; its locks run out. *)
Crash(w) ==
    /\ worker[w].pc # "idle"
    /\ Fault
    /\ worker' = [worker EXCEPT ![w] = NoJob]
    /\ UNCHANGED <<request, source, age, bullmq, rows, aside>>

(* Broken: a job may stall any number of times. *)
StallForever(u) ==
    /\ job[u] = "active" /\ stalls[u] < 2
    /\ IF worker[holder[u]].job = u THEN Fault ELSE UNCHANGED faults
    /\ holder' = [holder EXCEPT ![u] = NULL]
    /\ stalls' = [stalls EXCEPT ![u] = @ + 1]
    /\ job' = [job EXCEPT ![u] = "waiting"]
    /\ queue' = <<u>> \o queue
    /\ UNCHANGED <<request, source, age, worker, rows, aside>>

(* The lock of an active job has run out.  It costs a fault when the       *)
(* holder is alive: it goes on with the job beside the next worker.        *)
Stall(u) ==
    /\ job[u] = "active"
    /\ IF worker[holder[u]].job = u THEN Fault ELSE UNCHANGED faults
    /\ holder' = [holder EXCEPT ![u] = NULL]
    /\ \/ /\ stalls[u] = 0
          /\ stalls' = [stalls EXCEPT ![u] = 1]
          /\ job' = [job EXCEPT ![u] = "waiting"]
          /\ queue' = <<u>> \o queue
       \/ /\ stalls[u] > 0
          /\ job' = [job EXCEPT ![u] = "failed"]
          /\ UNCHANGED <<queue, stalls>>
    /\ UNCHANGED <<request, source, age, worker, rows, aside>>

-----------------------------------------------------------------------------
(* POST /inventory-items and POST /suppliers *)

(* The upsert leaves the data_source_id of an existing item alone. *)
PostItem(i) ==
    /\ item[i] = NULL
    /\ item' = [item EXCEPT ![i] = "manual"]
    /\ UNCHANGED <<request, source, age, bullmq, worker, registered, posted, orders, faults, aside>>

(* Every request creates a supplier, whatever the names that exist. *)
PostSupplier(s) ==
    /\ posted[s] < MaxPosts
    /\ posted' = [posted EXCEPT ![s] = @ + 1]
    /\ registered' = [registered EXCEPT ![s] = @ + 1]
    /\ UNCHANGED <<request, source, age, bullmq, worker, item, orders, faults, aside>>

-----------------------------------------------------------------------------
(* Time and FreshnessCheckerService.runOnce *)

(* Ages beyond the threshold need no telling apart. *)
Tick ==
    /\ age' = [u \in Upload |->
          IF age[u] = NULL \/ age[u] > Threshold THEN age[u] ELSE age[u] + 1]
    /\ UNCHANGED <<request, source, bullmq, worker, rows, faults, aside>>

Outdated == {u \in Upload : source[u] = "active" /\ age[u] # NULL /\ age[u] > Threshold}

(* The read of the checker's transaction.  A check that died after it has  *)
(* flagged nothing, and the next one reads again.                          *)
ReadOutdated ==
    /\ Outdated # {}
    /\ outdated' = Outdated
    /\ UNCHANGED <<request, source, age, bullmq, worker, rows, ready, faults>>

(* Its update goes by the ids that were read: a source that has been synced *)
(* in between is flagged too, and nothing sets a source active again.      *)
FlagStale ==
    /\ outdated # {}
    /\ source' = [u \in Upload |-> IF u \in outdated THEN "stale" ELSE source[u]]
    /\ outdated' = {}
    /\ UNCHANGED <<request, age, bullmq, worker, rows, ready, faults>>

-----------------------------------------------------------------------------

WorkerStep(w) ==
    Claim(w) \/ Lookup(w) \/ Ingest(w) \/ AuditAndRefresh(w)

Next ==
    \/ \E u \in Upload : CreateSource(u) \/ Enqueue(u) \/ UploadDies(u) \/ Stall(u)
    \/ \E w \in Worker : WorkerStep(w) \/ Throw(w) \/ Crash(w)
    \/ \E i \in Sku : PostItem(i)
    \/ \E s \in Supplier : PostSupplier(s)
    \/ Tick
    \/ ReadOutdated \/ FlagStale

Spec == Init /\ [][Next]_vars

-----------------------------------------------------------------------------
(* Properties *)

(* Every variable holds values of its table, request or queue. *)
TypeOK ==
    /\ request \in [Upload -> {"idle", "enqueue", "accepted", "failed"}]
    /\ source \in [Upload -> {"none", "active", "stale"}]
    /\ age \in [Upload -> 0..(Threshold + 1) \cup {NULL}]
    /\ job \in [Upload -> {"none", "waiting", "active", "completed", "failed"}]
    /\ queue \in Seq(Upload)
    /\ holder \in [Upload -> Worker \cup {NULL}]
    /\ stalls \in [Upload -> 0..1]
    /\ worker \in [Worker -> [pc : {"idle", "lookup", "commit", "audit"},
                              job : Upload \cup {NULL},
                              known : SUBSET (Supplier \cup (Supplier \X Sku))]]
    /\ item \in [Sku -> Upload \cup {"manual", NULL}]
    /\ registered \in [Supplier -> Nat]
    /\ posted \in [Supplier -> 0..MaxPosts]
    /\ orders \in [Upload -> [Supplier \X Sku -> Nat]]
    /\ ready \in [Upload -> SUBSET (Supplier \X Sku)]
    /\ outdated \subseteq Upload
    /\ faults \in 0..MaxFaults

(* A row of an order file becomes one order for each time its job was      *)
(* delivered, which is twice at most: only a stalled job, never a failed   *)
(* one, duplicates an order (csv-ingestion.queue.ts:127).                  *)
OrdersOncePerDelivery ==
    \A u \in Upload : \A r \in Supplier \X Sku : orders[u][r] <= 1 + stalls[u]

(* last_synced_at and the rows of a file are one transaction              *)
(* (csv-ingestion.queue.ts:144), however requests, jobs and workers end: a *)
(* source that looks synced has its items or its suppliers in, and one that *)
(* does not has neither items nor orders.                                  *)
RowsFollowMark ==
    \A u \in Upload :
        IF age[u] = NULL
        THEN /\ \A i \in Sku : item[i] # u
             /\ \A r \in Supplier \X Sku : orders[u][r] = 0
        ELSE /\ KindOf(u) = "inventory" => \A i \in RowsOf(u) : item[i] # NULL
             /\ KindOf(u) = "suppliers" => \A s \in RowsOf(u) : registered[s] > 0

(* Suppliers carry no source.  A name that no synced file holds was only   *)
(* ever entered by hand (csv-ingestion.queue.ts:107).                      *)
NamesFollowMark ==
    \A s \in Supplier : registered[s] # posted[s] =>
        \E u \in Upload : KindOf(u) = "suppliers" /\ s \in RowsOf(u) /\ age[u] # NULL

(* Of an order file that looks synced only this much is in: the rows whose *)
(* supplier and item were there when the file was uploaded.  Any other row *)
(* may have been skipped for good (csv-ingestion.queue.ts:121-126).        *)
ReadyIsOrdered ==
    \A u \in Upload : age[u] # NULL => \A r \in ready[u] : orders[u][r] > 0

(* What the sync mark of a file says about its rows, kind by kind.         *)
SyncedIsIngested == RowsFollowMark /\ NamesFollowMark /\ ReadyIsOrdered

(* Files alone never multiply a supplier: beyond those entered by hand     *)
(* there is at most one of a name for each worker that may have looked it  *)
(* up before any of them created it (no unique index backs the lookup at   *)
(* csv-ingestion.queue.ts:100).                                            *)
SuppliersNotMultiplied ==
    \A s \in Supplier : registered[s] <= posted[s] + Cardinality(Worker)

(* FR-013 promises that data which stops syncing is flagged.  A source     *)
(* that was never synced can not be, and looks active for as long as its   *)
(* job is not done: for ever when the request died before the job was      *)
(* queued or when the job failed, and for no other reason                  *)
(* (csv-upload.controller.ts:56).                                          *)
UnsyncedIsExplained ==
    \A u \in Upload : source[u] # "none" /\ age[u] = NULL =>
        /\ source[u] = "active"
        /\ request[u] \in {"enqueue", "failed"} \/ job[u] \in {"waiting", "active", "failed"}
=============================================================================
