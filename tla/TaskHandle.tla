----------------------------- MODULE TaskHandle -----------------------------
(***************************************************************************)
(* What becomes of the handle of an accepted task (TaskHandle in            *)
(* xiao-runtime/src/scheduler.rs, beside the pool of PoolQueue): its holder *)
(* waits for the result, with or without an interrupt source of its own, or *)
(* gives it to the detached reapers, which collect results in order of      *)
(* arrival. VmTaskValue::drop and the native handles always do the one or   *)
(* the other, so a handle is never just dropped here.                       *)
(*                                                                         *)
(* Every step is a step of PoolQueue or changes the handles only. "Defect"  *)
(* definitions are not part of the specification.                           *)
(***************************************************************************)
EXTENDS PoolQueue

CONSTANTS
  Detached,        \* tasks whose handle is given to the reapers
  Watchful,        \* tasks waited for with an interrupt source
  Reapers          \* detached_reaper's threads, 4 in the code

ASSUME HandleAssumption ==
  Detached \subseteq Task /\ Watchful \subseteq Task \ Detached /\ Reapers \in Nat \ {0}

VARIABLES
  handle,          \* what has become of each handle
  reapQueue        \* handles sent to the reapers that none has received yet

handleVars == <<handle, reapQueue>>
allVars == <<vars, handleVars>>

HandleState == {"held", "waiting", "asking", "settled", "listed", "reaping"}

HandleTypeOK ==
  handle \in [Task -> HandleState] /\ reapQueue \in Seq(Task)

HandleInit ==
  Init /\ handle = [t \in Task |-> "held"] /\ reapQueue = <<>>

Turn(t, from, to) == handle[t] = from /\ handle' = [handle EXCEPT ![t] = to]

\* The program has the handle: submit has returned it.
Accepted(t) == submit[t] = "returned" /\ outcome[t] = "ok"

BeginWait(t) ==
  /\ Accepted(t) /\ t \notin Detached
  /\ Turn(t, "held", "waiting")
  /\ UNCHANGED <<vars, reapQueue>>

\* Defect: as in ThreadHandle::join_interruptible, the wait ends with the interrupt.
AskAndLeave(t) ==
  /\ t \in Watchful
  /\ Turn(t, "waiting", "settled")
  /\ CancelStore(TokenOf[t])
  /\ UNCHANGED reapQueue

\* Defect: the waiter raises the flag of the token and runs no hook.
AskByFlag(t) ==
  /\ t \in Watchful /\ cancelling[TokenOf[t]] = "idle"
  /\ Turn(t, "waiting", "asking")
  /\ cancelled' = [cancelled EXCEPT ![TokenOf[t]] = TRUE]
  /\ cancelling' = [cancelling EXCEPT ![TokenOf[t]] = "done"]
  /\ UNCHANGED <<queueVars, rtClosed, active, submitVars, message, remover,
                 result, threadVars, scan, hooks, reapQueue>>

\* interrupted() is true, before or after the result is received, and the token
\* is not cancelled: the waiter calls cancel itself. A second cancel that has
\* begun in between would only look for the same messages once more.
Ask(t) ==
  /\ t \in Watchful
  /\ Turn(t, "waiting", "asking")
  /\ CancelStore(TokenOf[t])
  /\ UNCHANGED reapQueue

\* cancel has run its hooks; back to recv_timeout.
Asked(t) ==
  /\ cancelling[TokenOf[t]] = "done"
  /\ Turn(t, "asking", "waiting")
  /\ UNCHANGED <<vars, reapQueue>>

\* The result is received and the wait returns it, or 027 if it was cancelled.
Receive(t) ==
  /\ Turn(t, "waiting", "settled")
  /\ Wait(t)
  /\ UNCHANGED reapQueue

\* detach_with sends the receiver and the hook to the reapers.
Detach(t) ==
  /\ Accepted(t) /\ t \in Detached
  /\ Turn(t, "held", "listed")
  /\ reapQueue' = Append(reapQueue, t)
  /\ UNCHANGED vars

Reaping == {t \in Task : handle[t] = "reaping"}

\* A free reaper receives the oldest entry and blocks on its result.
BeginReap(t) ==
  /\ reapQueue # <<>> /\ t = Head(reapQueue)
  /\ Cardinality(Reaping) < Reapers
  /\ reapQueue' = Tail(reapQueue)
  /\ Turn(t, "listed", "reaping")
  /\ UNCHANGED vars

\* The result is there: it is reported, and the hook dropped.
Reap(t) ==
  /\ Turn(t, "reaping", "settled")
  /\ Wait(t)
  /\ UNCHANGED reapQueue

HandleStep(t) == Asked(t) \/ Receive(t) \/ BeginReap(t) \/ Reap(t)

HandleNext ==
  \/ PoolStep /\ UNCHANGED handleVars
  \/ \E t \in Task : BeginWait(t) \/ Ask(t) \/ Detach(t) \/ HandleStep(t)

HandleSpec == HandleInit /\ [][HandleNext]_allVars

-----------------------------------------------------------------------------
(* Properties.                                                              *)

\* Whatever ends a wait, and whoever cancels while it lasts, the function of
\* the task is over when the holder goes on: never started, or returned with
\* its clean-up done.
SettledTaskIsOver ==
  \A t \in Task : handle[t] = "settled" => message[t] \in {"replied", "finished"}

(* Fairness: as in PoolQueue; a wait and a reaper go on once they can.        *)
FairHandleSpec ==
  HandleSpec /\ Fairness /\ \A t \in Task : WF_allVars(HandleStep(t))

\* The interrupt of a waiter takes effect although no worker is ever idle again:
\* its wait ends, unless a worker has claimed the task and keeps it; and with
\* live workers every wait ends and every detached task is reported.
HandlesSettle ==
  /\ \A t \in Watchful :
       handle[t] = "asking" ~> handle[t] = "settled" \/ message[t] \in {"claimed", "body"}
  /\ WorkersRun => \A t \in Task : handle[t] \in {"waiting", "listed"} ~> handle[t] = "settled"

=============================================================================
