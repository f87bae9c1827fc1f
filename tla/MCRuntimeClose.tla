--------------------------- MODULE MCRuntimeClose ---------------------------
(* Instances of RuntimeClose for TLC: threads are named after their pool.   *)
EXTENDS RuntimeClose, TLC

CONSTANTS poolP, poolQ, workP, workQ, helpP, helpQ, actA, actB, actD, extE, extF

MCPoolOf == [t \in Thread |-> IF t \in {workP, helpP} THEN poolP ELSE poolQ]

\* actB runs on poolQ (or on a thread of its own), the others are tasks of poolP.
TwoPools   == [x \in Act |-> IF x = actB THEN poolQ ELSE poolP]
WithThread == [x \in Act |-> IF x = actB THEN Own ELSE poolP]

=============================================================================
