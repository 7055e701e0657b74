--------------------------- MODULE MCCsvIngestion ---------------------------
(* A bounded instance of CsvIngestion: two supplier files with one name, a *)
(* file of items and one of orders.                                        *)
EXTENDS CsvIngestion, TLC, Functions

CONSTANTS u1, u2, u3, u4, s1, i1

MCSymmetry == Permutations({u1, u2}) \cup Permutations(Worker)

MCFiles == u1 :> [kind |-> "suppliers", rows |-> {s1}]
        @@ u2 :> [kind |-> "suppliers", rows |-> {s1}]
        @@ u3 :> [kind |-> "inventory", rows |-> {i1}]
        @@ u4 :> [kind |-> "orders", rows |-> {<<s1, i1>>}]

(* Bound: no source ages past the threshold before every file is uploaded *)
(* and its job delivered, or while two workers are at a job.               *)
MCLateTick ==
    (\E u \in Upload : age[u] # NULL /\ age[u] > Threshold) =>
        /\ \A u \in Upload : request[u] \in {"accepted", "failed"} /\ u \notin Range(queue)
        /\ Cardinality({w \in Worker : worker[w].pc # "idle"}) <= 1
=============================================================================
