--------------------------- MODULE TwinCacheProofs ---------------------------
(***************************************************************************)
(* Theorems about TwinCache, for any number of tables, writers and reads.  *)
(***************************************************************************)
EXTENDS TwinCache, TLAPS

(* A snapshot is stored or shown only when every query has returned.       *)
Complete ==
    /\ \A w \in Writer : writer[w].pc = "set" => writer[w].seen \in Snapshot
    /\ \A f \in Fetch : fetch[f].pc \in {"set", "respond"} => fetch[f].seen \in Snapshot

(* A write that has begun knows its table, and has made it that version.   *)
Written ==
    \A w \in Writer : writer[w].pc # "idle" =>
        writer[w].area \in Area /\ writer[w].version <= stored[writer[w].area]

IInv == TypeOK /\ Complete /\ Written /\ InvalidatedWritesAreVisible

-----------------------------------------------------------------------------

(* The query of a computeSnapshot adds one area; the last completes it.    *)
LEMMA ReadAnArea ==
  ASSUME stored \in Snapshot, NEW seen \in Partial, NEW a \in Area
  PROVE  /\ Read(seen, a) \in Partial
         /\ AfterRead(Read(seen, a)) \in {"query", "set"}
         /\ AfterRead(Read(seen, a)) = "set" => Read(seen, a) \in Snapshot
<1>1. Read(seen, a) \in Partial
  BY DEF Read, Partial, Snapshot, Version
<1> HIDE DEF Read
<1> QED
  BY <1>1 DEF AfterRead, Partial, Snapshot, Version

(* The tables start at version 0 with nothing cached.                      *)
LEMMA InvInit == Init => IInv
<1> SUFFICES ASSUME Init PROVE IInv
  OBVIOUS
<1>1. TypeOK
  <2>1. Unread \in Partial
    BY DEF Unread, Partial
  <2>2. writer \in [Writer -> WriterState] /\ fetch \in [Fetch -> FetchState]
    BY <2>1 DEF Init, WriterState, FetchState, Version
  <2>3. stored \in Snapshot
    BY DEF Init, Snapshot, Version
  <2>4. failures \in 0..MaxFailures
    BY TwinAssumption DEF Init, TwinAssumption
  <2> QED
    BY <2>2, <2>3, <2>4 DEF Init, TypeOK
<1>2. Complete /\ Written /\ InvalidatedWritesAreVisible
  BY DEF Init, Complete, Written, InvalidatedWritesAreVisible
<1> QED
  BY <1>1, <1>2 DEF IInv

(* A committed change makes a table newer than every cached snapshot, and  *)
(* leaves what earlier writes made visible.                                *)
LEMMA CommitKeeps ==
  ASSUME IInv, NEW w \in Writer, NEW a \in Area, Commit(w, a) PROVE IInv'
<1> USE DEF IInv
<1>r. /\ stored \in [Area -> Nat] /\ writer \in [Writer -> WriterState]
      /\ stored' = [stored EXCEPT ![a] = @ + 1]
      /\ UNCHANGED <<cached, fetch, page, shown, raced, failures>>
  BY DEF Commit, TypeOK, Snapshot, Version
<1>1. /\ \A x \in Writer \ {w} : writer'[x] = writer[x]
      /\ writer' \in [Writer -> WriterState]
      /\ writer'[w].pc = "del" /\ writer'[w].area = a /\ writer'[w].version = stored[a] + 1
  BY <1>r DEF Commit, WriterState, Version, Partial, Unread
<1>2. stored' \in [Area -> Nat] /\ \A x \in Area : stored[x] <= stored'[x]
  BY <1>r
<1>3. TypeOK'
  BY <1>r, <1>1, <1>2 DEF TypeOK, Snapshot, Version
<1>4. Complete'
  BY <1>r, <1>1 DEF Complete
<1>5. Written'
  <2> SUFFICES ASSUME NEW x \in Writer, writer'[x].pc # "idle"
               PROVE  writer'[x].area \in Area /\ writer'[x].version <= stored'[writer'[x].area]
    BY DEF Written
  <2>1. CASE x = w
    BY <1>r, <1>1, <2>1
  <2>2. CASE x # w
    <3>1. writer'[x] = writer[x] /\ writer[x].area \in Area
          /\ writer[x].version <= stored[writer[x].area] /\ writer[x].version \in Nat
      BY <1>r, <1>1, <2>2 DEF Written, WriterState, Version
    <3> QED
      BY <1>r, <1>2, <3>1
  <2> QED
    BY <2>1, <2>2
<1>6. InvalidatedWritesAreVisible'
  BY <1>r, <1>1 DEF InvalidatedWritesAreVisible
<1> QED
  BY <1>3, <1>4, <1>5, <1>6

(* A SET stores a complete snapshot.  One that is not out of date has the  *)
(* version of every write in it.                                           *)
LEMMA PutKeeps ==
  ASSUME IInv, NEW snapshot \in Snapshot, Put(snapshot), stored' = stored,
         \A w \in Writer : /\ writer'[w].area = writer[w].area
                           /\ writer'[w].version = writer[w].version
                           /\ writer'[w].pc # "idle" => writer[w].pc # "idle"
  PROVE  /\ cached' \in CacheEntry /\ raced' \in BOOLEAN
         /\ InvalidatedWritesAreVisible'
<1>1. cached' = [snapshot |-> snapshot, expires |-> TRUE, late |-> snapshot # stored]
  BY DEF Put
<1>2. cached' \in CacheEntry
  BY <1>1 DEF CacheEntry
<1>3. raced' \in BOOLEAN
  BY DEF Put, IInv, TypeOK
<1>4. ASSUME NEW w \in Writer, writer'[w].pc \in {"query", "set", "publish", "done"},
             ~cached'.late
      PROVE  cached'.snapshot[writer'[w].area] >= writer'[w].version
  <2>1. cached'.snapshot = stored
    BY <1>1, <1>4
  <2>2. writer[w].area \in Area /\ writer[w].version <= stored[writer[w].area]
    BY <1>4 DEF IInv, Written
  <2>3. writer[w].version \in Nat /\ stored[writer[w].area] \in Nat
    BY <2>2 DEF IInv, TypeOK, WriterState, Version, Snapshot
  <2> QED
    BY <2>1, <2>2, <2>3
<1> QED
  BY <1>2, <1>3, <1>4 DEF InvalidatedWritesAreVisible

(* A refresh asks again what it may read, and announces what it stored.    *)
LEMMA WriterKeeps ==
  ASSUME IInv, NEW w \in Writer, WriterStep(w) PROVE IInv'
<1> USE DEF IInv
<1>r. /\ stored \in Snapshot /\ writer \in [Writer -> WriterState] /\ fetch \in [Fetch -> FetchState]
      /\ cached \in CacheEntry \cup {NULL}
  BY DEF TypeOK
<1>1. CASE Invalidate(w)
  <2>1. /\ writer' \in [Writer -> WriterState]
        /\ \A x \in Writer \ {w} : writer'[x] = writer[x]
        /\ writer'[w].pc = "query" /\ writer'[w].area = writer[w].area
        /\ writer'[w].version = writer[w].version /\ writer[w].pc = "del"
    BY <1>1, <1>r DEF Invalidate, WriterState
  <2>2. cached' = NULL /\ UNCHANGED <<stored, fetch, page, shown, raced, failures>>
    BY <1>1 DEF Invalidate
  <2>3. TypeOK' /\ Complete'
    BY <2>1, <2>2 DEF TypeOK, Complete
  <2>4. Written' /\ InvalidatedWritesAreVisible'
    BY <2>1, <2>2 DEF Written, InvalidatedWritesAreVisible
  <2> QED
    BY <2>3, <2>4
<1>2. ASSUME NEW a \in Area, RefreshQuery(w, a) PROVE IInv'
  <2> DEFINE seen == Read(writer[w].seen, a)
  <2>1. /\ seen \in Partial /\ AfterRead(seen) \in {"query", "set"}
        /\ AfterRead(seen) = "set" => seen \in Snapshot
    BY <1>r, ReadAnArea DEF WriterState
  <2>2. writer' = [writer EXCEPT ![w].seen = seen, ![w].pc = AfterRead(seen)]
        /\ writer[w].pc = "query"
        /\ UNCHANGED <<stored, cached, fetch, page, shown, raced, failures>>
    BY <1>2 DEF RefreshQuery
  <2> HIDE DEF seen
  <2>3. /\ writer' \in [Writer -> WriterState]
        /\ \A x \in Writer \ {w} : writer'[x] = writer[x]
        /\ writer'[w].area = writer[w].area /\ writer'[w].version = writer[w].version
        /\ writer'[w].pc \in {"query", "set"}
        /\ writer'[w].pc = "set" => writer'[w].seen \in Snapshot
    BY <1>r, <2>1, <2>2 DEF WriterState
  <2>4. TypeOK' /\ Complete'
    BY <2>2, <2>3 DEF TypeOK, Complete
  <2>5. Written' /\ InvalidatedWritesAreVisible'
    BY <2>2, <2>3 DEF Written, InvalidatedWritesAreVisible
  <2> QED
    BY <2>4, <2>5
<1>3. CASE RefreshPut(w)
  <2>1. /\ writer' \in [Writer -> WriterState]
        /\ \A x \in Writer \ {w} : writer'[x] = writer[x]
        /\ writer'[w].pc = "publish" /\ writer'[w].area = writer[w].area
        /\ writer'[w].version = writer[w].version /\ writer[w].pc = "set"
    BY <1>3, <1>r DEF RefreshPut, WriterState
  <2>2. Put(writer[w].seen) /\ UNCHANGED <<stored, fetch, page, shown, failures>>
    BY <1>3 DEF RefreshPut
  <2>3. writer[w].seen \in Snapshot
    BY <2>1 DEF Complete
  <2>4. cached' \in CacheEntry /\ raced' \in BOOLEAN /\ InvalidatedWritesAreVisible'
    BY <2>1, <2>2, <2>3, PutKeeps
  <2>5. TypeOK' /\ Complete' /\ Written'
    BY <2>1, <2>2, <2>4 DEF TypeOK, Complete, Written
  <2> QED
    BY <2>4, <2>5
<1>4. CASE Publish(w)
  <2>1. /\ writer' \in [Writer -> WriterState]
        /\ \A x \in Writer \ {w} : writer'[x] = writer[x]
        /\ writer'[w].pc = "done" /\ writer'[w].area = writer[w].area
        /\ writer'[w].version = writer[w].version /\ writer[w].pc = "publish"
    BY <1>4, <1>r DEF Publish, WriterState
  <2>2. UNCHANGED <<stored, cached, page, shown, raced, failures>>
    BY <1>4 DEF Publish
  <2>3. /\ fetch' \in [Fetch -> FetchState]
        /\ \A f \in Fetch : fetch'[f] = fetch[f] \/ fetch'[f].pc = "get"
    <3>1. CASE fetch' = fetch
      BY <1>r, <3>1
    <3>2. ASSUME NEW f \in Fetch, fetch' = [fetch EXCEPT ![f].pc = "get", ![f].tab = TRUE]
          PROVE  <2>3!:
      BY <1>r, <3>2 DEF FetchState
    <3> QED
      BY <1>4, <3>1, <3>2 DEF Publish
  <2>4. TypeOK' /\ Complete'
    BY <2>1, <2>2, <2>3 DEF TypeOK, Complete
  <2>5. Written' /\ InvalidatedWritesAreVisible'
    BY <2>1, <2>2 DEF Written, InvalidatedWritesAreVisible
  <2> QED
    BY <2>4, <2>5
<1> QED
  BY <1>1, <1>2, <1>3, <1>4 DEF WriterStep

(* A read fills the cache only with what it has read completely.           *)
LEMMA FetchKeeps ==
  ASSUME IInv, NEW f \in Fetch, FetchStep(f) \/ Visit(f) \/ Open(f) PROVE IInv'
<1> USE DEF IInv
<1>r. /\ stored \in Snapshot /\ fetch \in [Fetch -> FetchState] /\ cached \in CacheEntry \cup {NULL}
      /\ shown \in Snapshot \cup {NULL} /\ raced \in BOOLEAN
  BY DEF TypeOK
<1>s. ASSUME UNCHANGED <<stored, writer, failures>>,
             page' \in {"closed", "connecting", "live"}, shown' \in Snapshot \cup {NULL},
             raced' \in BOOLEAN, cached' \in CacheEntry \cup {NULL},
             cached' = cached \/ InvalidatedWritesAreVisible',
             fetch' \in [Fetch -> FetchState],
             \A x \in Fetch \ {f} : fetch'[x] = fetch[x],
             fetch'[f].pc \in {"set", "respond"} => fetch'[f].seen \in Snapshot
      PROVE  IInv'
  <2>1. TypeOK' /\ Complete'
    BY <1>s DEF TypeOK, Complete
  <2>2. Written' /\ InvalidatedWritesAreVisible'
    BY <1>s DEF Written, InvalidatedWritesAreVisible
  <2> QED
    BY <2>1, <2>2
<1>u. Unread \in Partial /\ page \in {"closed", "connecting", "live"}
  BY DEF Unread, Partial, TypeOK
<1>1. CASE Get(f)
  <2>1. UNCHANGED <<stored, cached, writer, page, shown, raced, failures>>
    BY <1>1 DEF Get
  <2>2. cached # NULL => cached.snapshot \in Snapshot /\ cached.snapshot \in Partial
    BY <1>r DEF CacheEntry, Snapshot, Partial
  <2>3. /\ fetch' \in [Fetch -> FetchState]
        /\ \A x \in Fetch \ {f} : fetch'[x] = fetch[x]
        /\ fetch'[f].pc \in {"set", "respond"} => fetch'[f].seen \in Snapshot
    <3> DEFINE pc == IF cached = NULL THEN "query" ELSE "respond"
               seen == IF cached = NULL THEN Unread ELSE cached.snapshot
    <3>1. fetch' = [fetch EXCEPT ![f].pc = pc, ![f].seen = seen]
      BY <1>1 DEF Get
    <3>2. pc \in {"query", "respond"} /\ seen \in Partial
      BY <1>u, <2>2
    <3>3. pc \in {"set", "respond"} => seen \in Snapshot
      BY <2>2
    <3> HIDE DEF pc, seen
    <3>4. fetch' = [fetch EXCEPT ![f] = [fetch[f] EXCEPT !.pc = pc, !.seen = seen]]
      BY <1>r, <3>1
    <3>5. fetch[f] \in FetchState
      BY <1>r
    <3>6. /\ [fetch[f] EXCEPT !.pc = pc, !.seen = seen] \in FetchState
          /\ [fetch[f] EXCEPT !.pc = pc, !.seen = seen].pc = pc
          /\ [fetch[f] EXCEPT !.pc = pc, !.seen = seen].seen = seen
      BY <3>2, <3>5 DEF FetchState
    <3> QED
      BY <1>r, <3>3, <3>4, <3>6
  <2> QED
    BY <1>r, <1>s, <1>u, <2>1, <2>3
<1>2. ASSUME NEW a \in Area, FetchQuery(f, a) PROVE IInv'
  <2> DEFINE seen == Read(fetch[f].seen, a)
  <2>1. /\ seen \in Partial /\ AfterRead(seen) \in {"query", "set"}
        /\ AfterRead(seen) = "set" => seen \in Snapshot
    BY <1>r, ReadAnArea DEF FetchState
  <2>2. fetch' = [fetch EXCEPT ![f].seen = seen, ![f].pc = AfterRead(seen)]
        /\ UNCHANGED <<stored, cached, writer, page, shown, raced, failures>>
    BY <1>2 DEF FetchQuery
  <2> HIDE DEF seen
  <2>3. /\ fetch' \in [Fetch -> FetchState]
        /\ \A x \in Fetch \ {f} : fetch'[x] = fetch[x]
        /\ fetch'[f].pc \in {"set", "respond"} => fetch'[f].seen \in Snapshot
    BY <1>r, <2>1, <2>2 DEF FetchState
  <2> QED
    BY <1>r, <1>s, <1>u, <2>2, <2>3
<1>3. CASE FetchPut(f)
  <2>1. Put(fetch[f].seen) /\ UNCHANGED <<stored, writer, page, shown, failures>>
    BY <1>3 DEF FetchPut
  <2>2. fetch[f].seen \in Snapshot
    BY <1>3 DEF FetchPut, Complete
  <2>3. cached' \in CacheEntry /\ raced' \in BOOLEAN /\ InvalidatedWritesAreVisible'
    BY <2>1, <2>2, PutKeeps
  <2>4. /\ fetch' \in [Fetch -> FetchState]
        /\ \A x \in Fetch \ {f} : fetch'[x] = fetch[x]
        /\ fetch'[f].seen \in Snapshot
    BY <1>3, <1>r, <2>2 DEF FetchPut, FetchState
  <2> QED
    BY <1>r, <1>s, <1>u, <2>1, <2>3, <2>4
<1>4. CASE Respond(f)
  <2>1. UNCHANGED <<stored, cached, writer, page, failures>>
    BY <1>4 DEF Respond
  <2>2. shown' \in Snapshot \cup {NULL} /\ raced' \in BOOLEAN
    BY <1>4, <1>r DEF Respond, Complete
  <2>3. /\ fetch' \in [Fetch -> FetchState]
        /\ \A x \in Fetch \ {f} : fetch'[x] = fetch[x]
        /\ fetch'[f].pc = "done"
    BY <1>4, <1>r DEF Respond, FetchState
  <2> QED
    BY <1>r, <1>s, <1>u, <2>1, <2>2, <2>3
<1>5. CASE Visit(f) \/ Open(f)
  <2>1. /\ UNCHANGED <<stored, cached, writer, shown, raced, failures>>
        /\ page' \in {"closed", "connecting", "live"}
    BY <1>5, <1>u DEF Visit, Open
  <2>2. /\ fetch' \in [Fetch -> FetchState]
        /\ \A x \in Fetch \ {f} : fetch'[x] = fetch[x]
        /\ fetch'[f].pc = "get"
    BY <1>5, <1>r DEF Visit, Open, FetchState
  <2> QED
    BY <1>r, <1>s, <2>1, <2>2
<1> QED
  BY <1>1, <1>2, <1>3, <1>4, <1>5 DEF FetchStep

(* Reconnecting, expiring and failing hide no write.                       *)
LEMMA OtherKeeps ==
  ASSUME IInv, Connect \/ Expire \/ Fail \/ UNCHANGED vars PROVE IInv'
<1> USE DEF IInv
<1>1. CASE Connect \/ Expire \/ UNCHANGED vars
  <2>1. /\ UNCHANGED <<stored, writer, fetch, shown, raced, failures>>
        /\ cached' = cached \/ cached' = NULL
        /\ page' = page \/ page' = "live"
    BY <1>1 DEF Connect, Expire, vars
  <2>2. TypeOK' /\ Complete'
    BY <2>1 DEF TypeOK, Complete
  <2>3. Written' /\ InvalidatedWritesAreVisible'
    BY <2>1 DEF Written, InvalidatedWritesAreVisible
  <2> QED
    BY <2>2, <2>3
<1>2. CASE Fail
  <2>r. /\ writer \in [Writer -> WriterState] /\ fetch \in [Fetch -> FetchState]
        /\ failures \in 0..MaxFailures
    BY DEF TypeOK
  <2>1. /\ UNCHANGED <<stored, cached, shown, raced>>
        /\ failures' \in 0..MaxFailures
        /\ page' = page \/ page' = "connecting"
    BY <1>2, <2>r, TwinAssumption DEF Fail, TwinAssumption
  <2>2. /\ writer' \in [Writer -> WriterState]
        /\ \A x \in Writer : \/ writer'[x] = writer[x]
                             \/ /\ writer'[x].pc = "failed" /\ writer[x].pc # "idle"
                                /\ writer'[x].area = writer[x].area
                                /\ writer'[x].version = writer[x].version
    <3>1. CASE writer' = writer
      BY <2>r, <3>1
    <3>2. ASSUME NEW w \in Writer, writer[w].pc \in {"del", "query", "set", "publish"},
                 writer' = [writer EXCEPT ![w].pc = "failed"]
          PROVE  <2>2!:
      BY <2>r, <3>2 DEF WriterState
    <3> QED
      BY <1>2, <3>1, <3>2 DEF Fail
  <2>3. /\ fetch' \in [Fetch -> FetchState]
        /\ \A x \in Fetch : fetch'[x] = fetch[x] \/ fetch'[x].pc = "failed"
    <3>1. CASE fetch' = fetch
      BY <2>r, <3>1
    <3>2. ASSUME NEW f \in Fetch, fetch' = [fetch EXCEPT ![f].pc = "failed"] PROVE <2>3!:
      BY <2>r, <3>2 DEF FetchState
    <3> QED
      BY <1>2, <3>1, <3>2 DEF Fail
  <2>4. TypeOK' /\ Complete'
    BY <2>1, <2>2, <2>3 DEF TypeOK, Complete
  <2>5. Written' /\ InvalidatedWritesAreVisible'
    BY <2>1, <2>2 DEF Written, InvalidatedWritesAreVisible
  <2> QED
    BY <2>4, <2>5
<1> QED
  BY <1>1, <1>2

-----------------------------------------------------------------------------

(* No step breaks the invariant.                                           *)
LEMMA InvStays == IInv /\ [Next]_vars => IInv'
  BY CommitKeeps, WriterKeeps, FetchKeeps, OtherKeeps DEF Next

(* The invariant holds in every reachable state.                           *)
LEMMA Invariance == Spec => []IInv
  BY InvInit, InvStays, PTL DEF Spec

(* Every reachable state is well typed.                                    *)
THEOREM TypeCorrect == Spec => []TypeOK
<1>1. IInv => TypeOK
  BY DEF IInv
<1> QED
  BY <1>1, Invariance, PTL

(* Only a snapshot that was overtaken while it was computed can hide a     *)
(* write that has invalidated the cache, with any number of writers and    *)
(* readers and whatever fails.                                             *)
THEOREM VisibleTheorem == Spec => []InvalidatedWritesAreVisible
<1>1. IInv => InvalidatedWritesAreVisible
  BY DEF IInv
<1> QED
  BY <1>1, Invariance, PTL

-----------------------------------------------------------------------------
(* What the page shows *)

(* An entry that is out of date when it is stored is a race.               *)
LateIsRaced == cached # NULL /\ cached.late => raced

(* A request of the page that will bring the write w, or has failed.       *)
Brings(f, w) ==
    LET a == writer[w].area
        v == writer[w].version IN
    /\ fetch[f].tab
    /\ \/ fetch[f].pc \in {"get", "failed"}
       \/ fetch[f].pc = "query" /\ (fetch[f].seen[a] = NULL \/ fetch[f].seen[a] >= v)
       \/ fetch[f].pc \in {"set", "respond"} /\ fetch[f].seen[a] >= v

Shows(w) == shown # NULL /\ shown[writer[w].area] >= writer[w].version

(* A write the page heard of is over, and shown or on its way.             *)
Heard ==
    \A w \in Writer : writer[w].heard =>
        /\ writer[w].pc = "done"
        /\ raced \/ Shows(w) \/ \E f \in Fetch : Brings(f, w)

(* No snapshot is the absence of one.                                      *)
LEMMA NullIsNoSnapshot == NULL \notin Snapshot
BY TwinAssumption DEF TwinAssumption, Snapshot, Version

(* A race is never forgotten.                                              *)
LEMMA RacedStays ==
  ASSUME IInv, [Next]_vars, raced PROVE raced'
<1>1. raced \in BOOLEAN
  BY DEF IInv, TypeOK
<1>2. ASSUME NEW w \in Writer, WriterStep(w) \/ \E a \in Area : Commit(w, a) PROVE raced'
  BY <1>1, <1>2 DEF WriterStep, Commit, Invalidate, RefreshQuery, RefreshPut, Publish, Put
<1>3. ASSUME NEW f \in Fetch, FetchStep(f) \/ Visit(f) \/ Open(f) PROVE raced'
  BY <1>1, <1>3 DEF FetchStep, Get, FetchQuery, FetchPut, Respond, Visit, Open, Put
<1>4. CASE Connect \/ Expire \/ Fail \/ UNCHANGED vars
  BY <1>4 DEF Connect, Expire, Fail, vars
<1> QED
  BY <1>2, <1>3, <1>4 DEF Next

(* Every SET knows whether it was late.                                    *)
LEMMA LateStep ==
  ASSUME IInv, LateIsRaced, [Next]_vars PROVE LateIsRaced'
<1>1. ASSUME NEW s, Put(s) PROVE LateIsRaced'
  BY <1>1 DEF Put, LateIsRaced
<1>2. CASE cached' \in {cached, NULL}
  BY <1>2, RacedStays DEF LateIsRaced
<1>3. ASSUME NEW w \in Writer, WriterStep(w) \/ \E a \in Area : Commit(w, a)
      PROVE  cached' \in {cached, NULL} \/ \E s : Put(s)
  BY <1>3 DEF WriterStep, Commit, Invalidate, RefreshQuery, RefreshPut, Publish
<1>4. ASSUME NEW f \in Fetch, FetchStep(f) \/ Visit(f) \/ Open(f)
      PROVE  cached' \in {cached, NULL} \/ \E s : Put(s)
  BY <1>4 DEF FetchStep, Get, FetchQuery, FetchPut, Respond, Visit, Open
<1>5. CASE Connect \/ Expire \/ Fail \/ UNCHANGED vars
  BY <1>2, <1>5 DEF Connect, Expire, Fail, vars
<1> QED
  BY <1>1, <1>2, <1>3, <1>4, <1>5 DEF Next

(* A writer that is done stays as it is; hearing is the end of a writer.   *)
LEMMA WriterEnds ==
  ASSUME IInv, [Next]_vars, NEW w \in Writer
  PROVE  \/ writer'[w] = writer[w]
         \/ writer[w].pc # "done" /\ (writer'[w].heard = writer[w].heard \/ ~writer'[w].heard)
         \/ Publish(w)
<1>r. writer \in [Writer -> WriterState]
  BY DEF IInv, TypeOK
<1>1. ASSUME NEW x \in Writer, NEW a \in Area, Commit(x, a)
      PROVE  \/ writer'[w] = writer[w]
             \/ writer[w].pc # "done" /\ ~writer'[w].heard
  BY <1>1, <1>r DEF Commit
<1>2. ASSUME NEW x \in Writer, WriterStep(x), ~Publish(w)
      PROVE  \/ writer'[w] = writer[w]
             \/ writer[w].pc # "done" /\ writer'[w].heard = writer[w].heard
  <2>1. CASE x # w
    BY <1>2, <1>r, <2>1 DEF WriterStep, Invalidate, RefreshQuery, RefreshPut, Publish
  <2>2. CASE Invalidate(w) \/ RefreshPut(w)
    BY <1>r, <2>2 DEF Invalidate, RefreshPut, WriterState
  <2>3. ASSUME NEW a \in Area, RefreshQuery(w, a)
        PROVE  writer[w].pc # "done" /\ writer'[w].heard = writer[w].heard
    <3> DEFINE seen == Read(writer[w].seen, a)
               pc == AfterRead(seen)
    <3>1. writer[w].pc = "query" /\ writer' = [writer EXCEPT ![w].seen = seen, ![w].pc = pc]
      BY <2>3 DEF RefreshQuery
    <3> HIDE DEF seen, pc
    <3> QED
      BY <1>r, <3>1 DEF WriterState
  <2> QED
    BY <1>2, <2>1, <2>2, <2>3 DEF WriterStep
<1>3. ASSUME NEW f \in Fetch, FetchStep(f) \/ Visit(f) \/ Open(f) PROVE writer'[w] = writer[w]
  BY <1>3 DEF FetchStep, Get, FetchQuery, FetchPut, Respond, Visit, Open
<1>4. CASE Fail
  <2>1. CASE writer' = writer
    BY <2>1
  <2>2. ASSUME NEW x \in Writer, writer[x].pc \in {"del", "query", "set", "publish"},
               writer' = [writer EXCEPT ![x].pc = "failed"]
        PROVE  \/ writer'[w] = writer[w]
               \/ writer[w].pc # "done" /\ writer'[w].heard = writer[w].heard
    BY <2>2, <1>r DEF WriterState
  <2> QED
    BY <1>4, <2>1, <2>2 DEF Fail
<1>5. CASE Connect \/ Expire \/ UNCHANGED vars
  BY <1>5 DEF Connect, Expire, vars
<1> QED
  BY <1>1, <1>2, <1>3, <1>4, <1>5 DEF Next

(* Only a response changes what is shown, and unless it is a race it shows *)
(* nothing older.                                                          *)
LEMMA ShownGrows ==
  ASSUME IInv, [Next]_vars, ~raced', shown # NULL, NEW a \in Area
  PROVE  shown' # NULL /\ shown'[a] >= shown[a]
<1>r. /\ shown \in Snapshot /\ shown[a] \in Nat /\ NULL \notin Snapshot
      /\ fetch \in [Fetch -> FetchState]
  <2>1. shown \in Snapshot /\ shown[a] \in Nat /\ fetch \in [Fetch -> FetchState]
    BY DEF IInv, TypeOK, Snapshot, Version
  <2> QED
    BY <2>1, NullIsNoSnapshot
<1>1. CASE shown' = shown
  BY <1>1, <1>r
<1>2. ASSUME NEW f \in Fetch, Respond(f), shown' # shown
      PROVE  shown' # NULL /\ shown'[a] >= shown[a]
  <2>1. shown' = fetch[f].seen /\ fetch[f].pc = "respond" /\ ~(shown'[a] < shown[a])
    BY <1>2 DEF Respond
  <2>2. shown' \in Snapshot
    BY <2>1 DEF IInv, Complete
  <2>3. shown'[a] \in Nat
    BY <2>2 DEF Snapshot, Version
  <2> QED
    BY <1>r, <2>1, <2>2, <2>3
<1>3. ASSUME NEW w \in Writer, WriterStep(w) \/ \E x \in Area : Commit(w, x) PROVE shown' = shown
  BY <1>3 DEF WriterStep, Commit, Invalidate, RefreshQuery, RefreshPut, Publish
<1>4. ASSUME NEW f \in Fetch, FetchStep(f) \/ Visit(f) \/ Open(f) PROVE shown' = shown \/ Respond(f)
  BY <1>4 DEF FetchStep, Get, FetchQuery, FetchPut, Visit, Open
<1>5. CASE Connect \/ Expire \/ Fail \/ UNCHANGED vars
  BY <1>1, <1>5 DEF Connect, Expire, Fail, vars
<1> QED
  BY <1>1, <1>2, <1>3, <1>4, <1>5 DEF Next

(* A request moves by its own steps, is idle and started, or fails.        *)
LEMMA FetchMoves ==
  ASSUME IInv, [Next]_vars, NEW f \in Fetch, fetch[f].pc # "idle"
  PROVE  \/ fetch'[f] = fetch[f] \/ FetchStep(f)
         \/ fetch'[f] = [fetch[f] EXCEPT !.pc = "failed"]
<1>r. fetch \in [Fetch -> FetchState]
  BY DEF IInv, TypeOK
<1>1. ASSUME NEW w \in Writer, WriterStep(w) \/ \E a \in Area : Commit(w, a)
      PROVE  fetch'[f] = fetch[f]
  <2>1. CASE Publish(w)
    BY <2>1, <1>r DEF Publish
  <2>2. CASE ~Publish(w)
    BY <1>1, <2>2 DEF WriterStep, Commit, Invalidate, RefreshQuery, RefreshPut
  <2> QED
    BY <2>1, <2>2
<1>2. ASSUME NEW x \in Fetch, x # f, FetchStep(x) PROVE fetch'[f] = fetch[f]
  BY <1>2, <1>r DEF FetchStep, Get, FetchQuery, FetchPut, Respond
<1>3. ASSUME NEW x \in Fetch, Visit(x) \/ Open(x) PROVE fetch'[f] = fetch[f]
  BY <1>3, <1>r DEF Visit, Open
<1>4. CASE Connect \/ Expire \/ UNCHANGED vars
  BY <1>4 DEF Connect, Expire, vars
<1>5. CASE Fail
  <2>1. CASE fetch' = fetch
    BY <2>1
  <2>2. ASSUME NEW x \in Fetch, fetch' = [fetch EXCEPT ![x].pc = "failed"]
        PROVE  fetch'[f] = fetch[f] \/ fetch'[f] = [fetch[f] EXCEPT !.pc = "failed"]
    BY <2>2, <1>r
  <2> QED
    BY <1>5, <2>1, <2>2 DEF Fail
<1> QED
  BY <1>1, <1>2, <1>3, <1>4, <1>5 DEF Next

(* A request that brings a write goes on to bring it, or has shown it.     *)
LEMMA BringsStep ==
  ASSUME IInv, LateIsRaced, [Next]_vars, ~raced, NEW w \in Writer, NEW f \in Fetch,
         writer[w].pc = "done", writer'[w] = writer[w], Brings(f, w)
  PROVE  Brings(f, w)' \/ Shows(w)'
<1> DEFINE a == writer[w].area
           v == writer[w].version
<1>r. /\ fetch \in [Fetch -> FetchState] /\ stored \in Snapshot /\ a \in Area /\ v \in Nat
      /\ v <= stored[a] /\ stored[a] \in Nat /\ NULL \notin Nat
      /\ cached \in CacheEntry \cup {NULL}
  BY TwinAssumption DEF IInv, TypeOK, Written, WriterState, Snapshot, Version, TwinAssumption
<1>b. /\ fetch[f].tab /\ fetch[f].pc \notin {"idle", "done"}
      /\ fetch[f].pc = "query" => fetch[f].seen[a] = NULL \/ fetch[f].seen[a] >= v
      /\ fetch[f].pc \in {"set", "respond"} => fetch[f].seen[a] >= v
  BY DEF Brings
<1>w. writer'[w].area = a /\ writer'[w].version = v
  OBVIOUS
<1> HIDE DEF a, v
<1>1. CASE fetch'[f] = fetch[f]
  BY <1>1, <1>w DEF Brings, a, v
<1>2. CASE fetch'[f] = [fetch[f] EXCEPT !.pc = "failed"]
  <2>1. fetch'[f].pc = "failed" /\ fetch'[f].tab
    BY <1>2, <1>b, <1>r DEF FetchState
  <2> QED
    BY <2>1 DEF Brings
<1>3. CASE Get(f)
  <2>1. CASE cached = NULL
    <3>1. fetch'[f].pc = "query" /\ fetch'[f].seen = Unread /\ fetch'[f].tab
      BY <1>3, <1>b, <1>r, <2>1 DEF Get, FetchState
    <3> QED
      BY <1>r, <1>w, <3>1 DEF Brings, Unread
  <2>2. CASE cached # NULL
    <3>1. fetch'[f].pc = "respond" /\ fetch'[f].seen = cached.snapshot /\ fetch'[f].tab
      BY <1>3, <1>b, <1>r, <2>2 DEF Get, FetchState
    <3>2. cached.snapshot[a] >= v
      BY <2>2 DEF LateIsRaced, IInv, InvalidatedWritesAreVisible, a, v
    <3> QED
      BY <1>w, <3>1, <3>2 DEF Brings
  <2> QED
    BY <2>1, <2>2
<1>4. ASSUME NEW x \in Area, FetchQuery(f, x) PROVE Brings(f, w)'
  <2> DEFINE seen == Read(fetch[f].seen, x)
  <2>1. fetch[f].pc = "query" /\ fetch[f].seen \in Partial
    BY <1>4, <1>r DEF FetchQuery, FetchState
  <2>2. seen[a] = IF a = x THEN stored[a] ELSE fetch[f].seen[a]
    BY <1>r, <2>1 DEF Read, Partial
  <2>3. seen[a] = NULL \/ seen[a] >= v
    BY <1>b, <1>r, <2>1, <2>2
  <2>4. /\ AfterRead(seen) \in {"query", "set"}
        /\ AfterRead(seen) = "set" => seen[a] # NULL
    BY <1>r DEF AfterRead
  <2>5. fetch' = [fetch EXCEPT ![f].seen = seen, ![f].pc = AfterRead(seen)]
    BY <1>4 DEF FetchQuery
  <2> HIDE DEF seen
  <2>6. fetch'[f].pc = AfterRead(seen) /\ fetch'[f].seen = seen /\ fetch'[f].tab
    BY <1>b, <1>r, <2>5 DEF FetchState
  <2> QED
    BY <1>w, <2>3, <2>4, <2>6 DEF Brings
<1>5. CASE FetchPut(f)
  <2>1. /\ fetch[f].pc = "set" /\ fetch'[f].pc = "respond" /\ fetch'[f].seen = fetch[f].seen
        /\ fetch'[f].tab
    BY <1>5, <1>b, <1>r DEF FetchPut, FetchState
  <2> QED
    BY <1>b, <1>w, <2>1 DEF Brings
<1>6. CASE Respond(f)
  <2>1. shown' = fetch[f].seen /\ fetch[f].pc = "respond"
    BY <1>6, <1>b DEF Respond
  <2>2. shown' # NULL
    BY <2>1, NullIsNoSnapshot DEF IInv, Complete
  <2> QED
    BY <1>b, <1>w, <2>1, <2>2 DEF Shows
<1> QED
  BY <1>b, <1>1, <1>2, <1>3, <1>4, <1>5, <1>6, FetchMoves DEF FetchStep

(* What is heard is shown, or on its way, unless there is a race.          *)
LEMMA HeardStep ==
  ASSUME IInv, LateIsRaced, Heard, [Next]_vars PROVE Heard'
<1>r. /\ writer \in [Writer -> WriterState] /\ fetch \in [Fetch -> FetchState]
      /\ raced \in BOOLEAN
  BY DEF IInv, TypeOK
<1> SUFFICES ASSUME NEW w \in Writer, writer'[w].heard
             PROVE  /\ writer'[w].pc = "done"
                    /\ raced' \/ Shows(w)' \/ \E f \in Fetch : Brings(f, w)'
  BY Zenon DEF Heard
<1>1. CASE Publish(w)
  <2>1. writer'[w].pc = "done" /\ page = "live"
    BY <1>1, <1>r DEF Publish, WriterState
  <2>2. PICK f \in Fetch : fetch' = [fetch EXCEPT ![f].pc = "get", ![f].tab = TRUE]
    BY <1>1, <2>1 DEF Publish
  <2>3. fetch'[f].pc = "get" /\ fetch'[f].tab
    BY <1>r, <2>2 DEF FetchState
  <2> QED
    BY <2>1, <2>3 DEF Brings
<1>2. CASE writer'[w] = writer[w]
  <2>1. /\ writer[w].pc = "done" /\ writer'[w].pc = "done"
        /\ raced \/ Shows(w) \/ \E f \in Fetch : Brings(f, w)
    BY <1>2 DEF Heard
  <2>2. CASE raced
    BY <2>1, <2>2, RacedStays
  <2>3. CASE Shows(w) /\ ~raced'
    <3>1. writer[w].area \in Area /\ writer[w].version \in Nat
      BY <1>r, <2>1 DEF IInv, Written, WriterState, Version
    <3>2. shown' # NULL /\ shown'[writer[w].area] >= shown[writer[w].area]
      BY <2>3, <3>1, ShownGrows DEF Shows
    <3>3. shown' \in Snapshot /\ shown \in Snapshot
      BY <2>3, <3>2, InvStays DEF Shows, IInv, TypeOK
    <3>4. shown'[writer[w].area] \in Nat /\ shown[writer[w].area] \in Nat
      BY <3>1, <3>3 DEF Snapshot, Version
    <3> QED
      BY <1>2, <2>1, <2>3, <3>1, <3>2, <3>4 DEF Shows
  <2>4. ASSUME ~raced, NEW f \in Fetch, Brings(f, w) PROVE Brings(f, w)' \/ Shows(w)'
    BY <1>2, <2>1, <2>4, BringsStep
  <2> QED
    BY <2>1, <2>2, <2>3, <2>4
<1>3. CASE writer[w].pc # "done" /\ (writer'[w].heard = writer[w].heard \/ ~writer'[w].heard)
  BY <1>3 DEF Heard
<1> QED
  BY <1>1, <1>2, <1>3, WriterEnds

(* A page that hears of a write shows it when its requests are answered,   *)
(* for any number of writers and readers, unless a snapshot overtook a     *)
(* newer one.                                                              *)
THEOREM ShownTheorem == Spec => []HeardIsShown
<1>1. Init => LateIsRaced /\ Heard
  BY DEF Init, LateIsRaced, Heard
<1>2. IInv /\ LateIsRaced /\ Heard /\ [Next]_vars => (LateIsRaced /\ Heard)'
  BY LateStep, HeardStep
<1>3. Heard => HeardIsShown
  BY DEF Heard, HeardIsShown, Shows, Brings
<1> QED
  BY <1>1, <1>2, <1>3, Invariance, PTL DEF Spec
=============================================================================
