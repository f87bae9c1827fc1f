---------------------------- MODULE MCSharedLock ----------------------------
(* Instances of SharedLock for TLC: two threads share a token, as those that *)
(* run for one execution context do; the third locks without any.           *)
EXTENDS SharedLock

CONSTANTS thrA, thrB, thrC, tokA

MCTokenOf == [x \in Thread |-> IF x = thrC THEN NoToken ELSE tokA]

=============================================================================
