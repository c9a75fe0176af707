----------------------------- MODULE MCScheduler -----------------------------
(* Small instances of ExecutionScheduler: the second job depends on the first. *)
EXTENDS ExecutionScheduler

OneAfterAnother == [j \in Jobs |-> IF j = 1 THEN {} ELSE {j - 1}]
=============================================================================
