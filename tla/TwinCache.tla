----------------------------- MODULE TwinCache ------------------------------
(***************************************************************************)
(* The digital twin of one business: a snapshot computed from the tables   *)
(* by four queries, cached in Redis under scdt:twin:<tenant>, recomputed   *)
(* by every write that affects it and announced over SSE to the /twin page *)
(* (twin/twin.service.ts, apps/web/app/twin/page.tsx).                     *)
(*                                                                         *)
(* Snapshots of different tenants share nothing, so one tenant is enough.  *)
(* A table is a version number: how many writes to it have committed.  The *)
(* transaction of computeSnapshot is READ COMMITTED (no isolation level is *)
(* set), so each of its queries sees the commits made before that query.   *)
(***************************************************************************)
EXTENDS Integers, FiniteSets

CONSTANTS
    Area,        \* the parts of a snapshot, one per query of computeSnapshot
    Writer,      \* committed changes: a POST, a CSV job or a freshness run
    Fetch,       \* GET /twin requests
    MaxFailures, \* bound: requests that die and connections that break
    NULL

(* Every announcement can start one more request of the page. *)
ASSUME TwinAssumption ==
    /\ IsFiniteSet(Writer) /\ IsFiniteSet(Fetch)
    /\ Cardinality(Fetch) > Cardinality(Writer)
    /\ MaxFailures \in Nat
    /\ NULL \notin Nat \cup [Area -> Nat]

VARIABLES
    stored,      \* the tables
    cached,      \* the Redis key, NULL when it is absent
    writer,      \* progress of each write
    fetch,       \* progress of each GET /twin
    page,        \* the /twin page: "closed", "connecting" or "live"
    shown,       \* the snapshot the page shows
    raced,       \* history: a snapshot overtook a newer one
    failures

vars == <<stored, cached, writer, fetch, page, shown, raced, failures>>

Version == Nat
Snapshot == [Area -> Version]

(* What a computeSnapshot in progress has read so far. *)
Partial == [Area -> Version \cup {NULL}]
Unread == [a \in Area |-> NULL]

(* late is history only: the entry was out of date when it was stored.     *)
CacheEntry == [snapshot: Snapshot, expires: BOOLEAN, late: BOOLEAN]

(* heard is history only: the page was connected when this was announced.  *)
WriterState == [pc: {"idle", "del", "query", "set", "publish", "done", "failed"},
                area: Area \cup {NULL}, version: Version, seen: Partial, heard: BOOLEAN]

(* tab: the request is the page's own, and not another client's.           *)
FetchState == [pc: {"idle", "get", "query", "set", "respond", "done", "failed"},
               tab: BOOLEAN, seen: Partial]

Init ==
    /\ stored = [a \in Area |-> 0]
    /\ cached = NULL
    /\ writer = [w \in Writer |-> [pc |-> "idle", area |-> NULL, version |-> 0,
                                  seen |-> Unread, heard |-> FALSE]]
    /\ fetch = [f \in Fetch |-> [pc |-> "idle", tab |-> FALSE, seen |-> Unread]]
    /\ page = "closed"
    /\ shown = NULL
    /\ raced = FALSE
    /\ failures = 0

(* The next query of computeSnapshot reads area a. *)
Read(seen, a) == [seen EXCEPT ![a] = stored[a]]

(* Broken: the snapshot is stored before the queries have all returned. *)
AfterReadEarly(seen) == "set"

AfterRead(seen) == IF \E a \in Area : seen[a] = NULL THEN "query" ELSE "set"

(* Broken: SET without EX. *)
PutForever(snapshot) ==
    /\ cached' = [snapshot |-> snapshot, expires |-> FALSE, late |-> snapshot # stored]
    /\ raced' = (raced \/ snapshot # stored)

(* SET key snapshot EX 30 *)
Put(snapshot) ==
    /\ cached' = [snapshot |-> snapshot, expires |-> TRUE, late |-> snapshot # stored]
    /\ raced' = (raced \/ snapshot # stored)

(* Redis drops the key 30 seconds after the SET. *)
Expire ==
    /\ cached # NULL /\ cached.expires
    /\ cached' = NULL
    /\ UNCHANGED <<stored, writer, fetch, page, shown, raced, failures>>

-----------------------------------------------------------------------------
(* A write and its refreshAndNotify *)

(* The transaction of InventoryController.create, SupplierController       *)
(* .create, CsvIngestionQueue.process or FreshnessCheckerService.runOnce.  *)
Commit(w, a) ==
    /\ writer[w].pc = "idle"
    /\ stored' = [stored EXCEPT ![a] = @ + 1]
    /\ writer' = [writer EXCEPT ![w] =
                    [pc |-> "del", area |-> a, version |-> stored[a] + 1,
                     seen |-> Unread, heard |-> FALSE]]
    /\ UNCHANGED <<cached, fetch, page, shown, raced, failures>>

(* Broken: the old entry is left to be overwritten. *)
InvalidateForgotten(w) ==
    /\ writer[w].pc = "del"
    /\ writer' = [writer EXCEPT ![w].pc = "query"]
    /\ UNCHANGED <<stored, cached, fetch, page, shown, raced, failures>>

Invalidate(w) ==
    /\ writer[w].pc = "del"
    /\ cached' = NULL
    /\ writer' = [writer EXCEPT ![w].pc = "query"]
    /\ UNCHANGED <<stored, fetch, page, shown, raced, failures>>

RefreshQuery(w, a) ==
    LET seen == Read(writer[w].seen, a) IN
    /\ writer[w].pc = "query" /\ writer[w].seen[a] = NULL
    /\ writer' = [writer EXCEPT ![w].seen = seen, ![w].pc = AfterRead(seen)]
    /\ UNCHANGED <<stored, cached, fetch, page, shown, raced, failures>>

RefreshPut(w) ==
    /\ writer[w].pc = "set"
    /\ Put(writer[w].seen)
    /\ writer' = [writer EXCEPT ![w].pc = "publish"]
    /\ UNCHANGED <<stored, fetch, page, shown, failures>>

(* Broken: the announcement reaches the page, which does not ask again. *)
PublishUnheard(w) ==
    /\ writer[w].pc = "publish"
    /\ writer' = [writer EXCEPT ![w].pc = "done", ![w].heard = (page = "live")]
    /\ UNCHANGED <<stored, cached, fetch, page, shown, raced, failures>>

(* A page that is connected asks again; a page that is not never learns.   *)
Publish(w) ==
    /\ writer[w].pc = "publish"
    /\ writer' = [writer EXCEPT ![w].pc = "done", ![w].heard = (page = "live")]
    /\ \/ /\ page = "live"
          /\ \E f \in Fetch : /\ fetch[f].pc = "idle"
                              /\ fetch' = [fetch EXCEPT ![f].pc = "get", ![f].tab = TRUE]
       \/ /\ page # "live"
          /\ UNCHANGED fetch
    /\ UNCHANGED <<stored, cached, page, shown, raced, failures>>

-----------------------------------------------------------------------------
(* GET /twin *)

(* The requests kept back are those that announcements may still start:    *)
(* a bound of the model.                                                   *)
Spare == Cardinality({f \in Fetch : fetch[f].pc = "idle"})
            > Cardinality({w \in Writer : writer[w].pc # "done"})

(* Another client of the tenant. *)
Visit(f) ==
    /\ fetch[f].pc = "idle" /\ Spare
    /\ fetch' = [fetch EXCEPT ![f].pc = "get"]
    /\ UNCHANGED <<stored, cached, writer, page, shown, raced, failures>>

Get(f) ==
    /\ fetch[f].pc = "get"
    /\ fetch' = [fetch EXCEPT
            ![f].pc = IF cached = NULL THEN "query" ELSE "respond",
            ![f].seen = IF cached = NULL THEN Unread ELSE cached.snapshot]
    /\ UNCHANGED <<stored, cached, writer, page, shown, raced, failures>>

FetchQuery(f, a) ==
    LET seen == Read(fetch[f].seen, a) IN
    /\ fetch[f].pc = "query" /\ fetch[f].seen[a] = NULL
    /\ fetch' = [fetch EXCEPT ![f].seen = seen, ![f].pc = AfterRead(seen)]
    /\ UNCHANGED <<stored, cached, writer, page, shown, raced, failures>>

FetchPut(f) ==
    /\ fetch[f].pc = "set"
    /\ Put(fetch[f].seen)
    /\ fetch' = [fetch EXCEPT ![f].pc = "respond"]
    /\ UNCHANGED <<stored, writer, page, shown, failures>>

(* Responses of one page may overtake each other: the last to arrive wins. *)
Respond(f) ==
    /\ fetch[f].pc = "respond"
    /\ shown' = IF fetch[f].tab THEN fetch[f].seen ELSE shown
    /\ raced' = (raced \/ \E a \in Area : shown # NULL /\ shown'[a] < shown[a])
    /\ fetch' = [fetch EXCEPT ![f].pc = "done"]
    /\ UNCHANGED <<stored, cached, writer, page, failures>>

-----------------------------------------------------------------------------
(* The /twin page *)

(* Mounting asks once and opens the EventSource. *)
Open(f) ==
    /\ page = "closed"
    /\ fetch[f].pc = "idle" /\ Spare
    /\ page' = "connecting"
    /\ fetch' = [fetch EXCEPT ![f].pc = "get", ![f].tab = TRUE]
    /\ UNCHANGED <<stored, cached, writer, shown, raced, failures>>

(* EventSource (re)connects by itself; the page does not ask again then.   *)
Connect ==
    /\ page = "connecting"
    /\ page' = "live"
    /\ UNCHANGED <<stored, cached, writer, fetch, shown, raced, failures>>

-----------------------------------------------------------------------------

(* The connection breaks, or Redis, Postgres or the process fails under a  *)
(* request: what has committed stays, and nobody repeats the request.      *)
Fail ==
    /\ failures < MaxFailures
    /\ failures' = failures + 1
    /\ \/ /\ page = "live" /\ page' = "connecting"
          /\ UNCHANGED <<writer, fetch>>
       \/ /\ \E w \in Writer : /\ writer[w].pc \in {"del", "query", "set", "publish"}
                               /\ writer' = [writer EXCEPT ![w].pc = "failed"]
          /\ UNCHANGED <<fetch, page>>
       \/ /\ \E f \in Fetch : /\ fetch[f].pc \in {"get", "query", "set", "respond"}
                              /\ fetch' = [fetch EXCEPT ![f].pc = "failed"]
          /\ UNCHANGED <<writer, page>>
    /\ UNCHANGED <<stored, cached, shown, raced>>

WriterStep(w) ==
    \/ Invalidate(w)
    \/ \E a \in Area : RefreshQuery(w, a)
    \/ RefreshPut(w)
    \/ Publish(w)

FetchStep(f) ==
    \/ Get(f)
    \/ \E a \in Area : FetchQuery(f, a)
    \/ FetchPut(f)
    \/ Respond(f)

Next ==
    \/ \E w \in Writer : WriterStep(w) \/ \E a \in Area : Commit(w, a)
    \/ \E f \in Fetch : FetchStep(f) \/ Visit(f) \/ Open(f)
    \/ Connect
    \/ Expire
    \/ Fail

Spec == Init /\ [][Next]_vars

(* A request that has started runs on, keys expire, browsers reconnect.    *)
(* Nothing makes anybody write, visit or open the page.                    *)
Fairness ==
    /\ \A w \in Writer : WF_vars(WriterStep(w))
    /\ \A f \in Fetch : WF_vars(FetchStep(f))
    /\ WF_vars(Connect)
    /\ WF_vars(Expire)

FairSpec == Spec /\ Fairness

-----------------------------------------------------------------------------
(* Properties *)

(* Every variable holds snapshots and request states of the kinds above.   *)
TypeOK ==
    /\ stored \in Snapshot
    /\ cached \in CacheEntry \cup {NULL}
    /\ writer \in [Writer -> WriterState]
    /\ fetch \in [Fetch -> FetchState]
    /\ page \in {"closed", "connecting", "live"}
    /\ shown \in Snapshot \cup {NULL}
    /\ raced \in BOOLEAN
    /\ failures \in 0..MaxFailures

(* Once a write has invalidated the cache, no GET is served a snapshot     *)
(* without it, and that includes the GETs its own announcement starts,     *)
(* unless the entry was overtaken while it was being computed: only the    *)
(* race of computeSnapshot against a commit can hide a write.              *)
InvalidatedWritesAreVisible ==
    \A w \in Writer :
        /\ writer[w].pc \in {"query", "set", "publish", "done"}
        /\ cached # NULL /\ ~cached.late
        => cached.snapshot[writer[w].area] >= writer[w].version

(* A page that heard of a write shows it as soon as its requests are all   *)
(* answered, and goes on showing it: the request it makes then, served     *)
(* from the cache of another reader or overtaking one it made before,      *)
(* returns that write, unless a snapshot overtook a newer one              *)
(* (twin/page.tsx:81, twin.service.ts:46).                                 *)
HeardIsShown ==
    \A w \in Writer :
        /\ writer[w].heard /\ ~raced
        /\ \A f \in Fetch : fetch[f].tab => fetch[f].pc = "done"
        => shown # NULL /\ shown[writer[w].area] >= writer[w].version

(* Whatever stale snapshot a late SET leaves behind, and even when a write *)
(* dies before its refresh, the cache ends up empty or current: the TTL is *)
(* the safety net under the explicit invalidation.                         *)
CacheHeals == <>[](cached = NULL \/ cached.snapshot = stored)

(* spec.md:34-37 (US1, Scenario 2): the twin reflects a change without the *)
(* owner refreshing.  A page that is live when a write commits ends up     *)
(* showing that write and goes on showing it, unless something failed or a *)
(* snapshot overtook a newer one, in the cache or on its way to the page.  *)
PageFollows ==
    \A w \in Writer :
        writer[w].pc = "del" /\ page = "live" ~>
            [](\/ failures > 0 \/ raced
               \/ /\ shown # NULL /\ writer[w].area # NULL
                  /\ shown[writer[w].area] >= writer[w].version)

(* twin.service.ts:20-23: the cache is "explicitly invalidated by every    *)
(* write that affects it, rather than relying on TTL alone", so that when  *)
(* every refresh has run its course the cached snapshot is the current one.*)
InvalidatedByEveryWrite ==
    /\ failures = 0
    /\ \A w \in Writer : writer[w].pc \in {"idle", "done"}
    => cached = NULL \/ cached.snapshot = stored
=============================================================================
