---------------------------- MODULE MCEntryLock ----------------------------
(* Instances of EntryLock for TLC: one process locks the entry twice.       *)
EXTENDS EntryLock

CONSTANTS r1, r2, r3

TwiceByOne == [x \in Process |-> IF x = r1 THEN 2 ELSE 1]

=============================================================================
