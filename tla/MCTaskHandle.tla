---------------------------- MODULE MCTaskHandle ----------------------------
(* Instances of TaskHandle for TLC: the constants of MCPoolQueue.           *)
EXTENDS MCPoolQueue, TaskHandle

=============================================================================
