---------------------------- MODULE PoolContract ----------------------------
(***************************************************************************)
(* What a task pool of the Xiao runtime promises its callers, without       *)
(* threads, locks, hooks or counters: bounded admission, start in order of  *)
(* submission, and one answer for each admitted task.                       *)
(***************************************************************************)
EXTENDS Integers, Sequences

CONSTANTS Task, Capacity

VARIABLES
  waiting,   \* admitted tasks that nobody has started, oldest first
  shut,      \* no further admission
  phase,     \* the life of each task
  answer     \* what its handle will be given

vars == <<waiting, shut, phase, answer>>

Init ==
  /\ waiting = <<>> /\ shut = FALSE
  /\ phase = [t \in Task |-> "new"]
  /\ answer = [t \in Task |-> "none"]

Move(t, from, to) == phase[t] = from /\ phase' = [phase EXCEPT ![t] = to]

Admit(t) ==
  /\ ~shut /\ Len(waiting) < Capacity
  /\ Move(t, "new", "waiting")
  /\ waiting' = Append(waiting, t)
  /\ UNCHANGED <<shut, answer>>

\* The oldest waiting task is started.
Start(t) ==
  /\ waiting # <<>> /\ t = Head(waiting)
  /\ Move(t, "waiting", "running")
  /\ waiting' = Tail(waiting)
  /\ UNCHANGED <<shut, answer>>

\* A waiting task is cancelled: its place is free at once.
Revoke(t) ==
  /\ Move(t, "waiting", "revoked")
  /\ \E i \in DOMAIN waiting :
       /\ waiting[i] = t
       /\ waiting' = SubSeq(waiting, 1, i - 1) \o SubSeq(waiting, i + 1, Len(waiting))
  /\ UNCHANGED <<shut, answer>>

Answer(t, a) ==
  /\ \/ Move(t, "running", "answered") /\ a \in {"reply", "cancelled"}
     \/ Move(t, "revoked", "answered") /\ a = "cancelled"
  /\ answer' = [answer EXCEPT ![t] = a]
  /\ UNCHANGED <<waiting, shut>>

Shut ==
  /\ ~shut /\ shut' = TRUE
  /\ UNCHANGED <<waiting, phase, answer>>

Next ==
  \/ \E t \in Task : \/ Admit(t) \/ Start(t) \/ Revoke(t)
                     \/ \E a \in {"reply", "cancelled"} : Answer(t, a)
  \/ Shut

Spec == Init /\ [][Next]_vars

\* An admitted task is eventually answered.
Answered == \A t \in Task : phase[t] = "waiting" ~> phase[t] = "answered"

=============================================================================
