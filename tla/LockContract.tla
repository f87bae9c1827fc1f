---------------------------- MODULE LockContract ----------------------------
(***************************************************************************)
(* What a lock promises those that lock: one of them is inside at a time,   *)
(* unless the lock has lapsed, and whoever asks is let in or, for a reason   *)
(* of its own, sent away. How it waits and is woken, what is left behind by *)
(* the dead and who removes it is not said.                                 *)
(*                                                                         *)
(* SharedLock and EntryLock are shown to implement it, and PackageOps and    *)
(* ArtifactCache, whose locks are ideal, to ask no more of them.            *)
(***************************************************************************)
CONSTANT Client

VARIABLES
  place,     \* "out", "waiting", "in", or "gone" for good
  excused,   \* clients that may be sent away; never taken back
  lapsed     \* the lock has lost its right to be believed

vars == <<place, excused, lapsed>>

Init ==
  /\ place = [c \in Client |-> "out"]
  /\ excused \in SUBSET Client
  /\ lapsed \in BOOLEAN

Move(c, from, to) ==
  /\ place[c] = from /\ place' = [place EXCEPT ![c] = to]
  /\ UNCHANGED <<excused, lapsed>>

Alone(c) == \A d \in Client \ {c} : place[d] # "in"

Request(c) == Move(c, "out", "waiting")

Grant(c) == (lapsed \/ Alone(c)) /\ Move(c, "waiting", "in")

Refuse(c) == c \in excused /\ Move(c, "waiting", "out")

Release(c) == Move(c, "in", "out")

\* A client that dies inside excludes nobody any longer.
Die(c) == Move(c, place[c], "gone")

Excuse ==
  /\ excused \subseteq excused' /\ excused' \subseteq Client
  /\ UNCHANGED <<place, lapsed>>

Lapse == lapsed' = TRUE /\ UNCHANGED <<place, excused>>

Next ==
  \/ \E c \in Client : Request(c) \/ Grant(c) \/ Refuse(c) \/ Release(c) \/ Die(c)
  \/ Excuse \/ Lapse

Spec == Init /\ [][Next]_vars

=============================================================================
