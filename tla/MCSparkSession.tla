--------------------------- MODULE MCSparkSession ---------------------------
(***************************************************************************)
(* Instances of SparkSession.                                              *)
(***************************************************************************)
EXTENDS SparkSession

Times(names) == [k \in Faults |-> IF k \in names THEN 1 ELSE 0]

EveryFault  == Times(Faults)
BreakAndSlow == Times({"break", "slow"})
=============================================================================
