-------------------------- MODULE MCSweepPipeline --------------------------
(* A bounded instance of SweepPipeline: a business with a primary supplier  *)
(* and another of the same name, at the floor, that is yet to be entered,   *)
(* and a business with a primary supplier, at the floor too.                *)
EXTENDS SweepPipeline, TLC

CONSTANTS t1, t2, s1, s2, s3

MCTenantOf == [s \in Supplier |-> IF s = s3 THEN t2 ELSE t1]
MCRank == [s \in Supplier |-> 1]
MCFirstKind == [s \in Supplier |-> IF s = s2 THEN "none" ELSE "primary"]
MCLeadOf == [s \in Supplier |-> IF s = s1 THEN 3 ELSE 2]
=============================================================================
