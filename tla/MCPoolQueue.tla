---------------------------- MODULE MCPoolQueue ----------------------------
(* Instances of PoolQueue for TLC. Every task inherits one token, as those  *)
(* submitted from one execution context do (TaskPool::submit).              *)
EXTENDS PoolQueue, TLC

CONSTANTS k1

SharedToken == [t \in Task |-> k1]

\* Tasks and workers are interchangeable in the runs that check safety only.
Symmetry == Permutations(Task) \cup Permutations(Worker)

=============================================================================
