------------------------------ MODULE PoolQueue ------------------------------
(***************************************************************************)
(* One bounded task pool of the Xiao runtime (xiao-runtime/src/scheduler.rs): *)
(* the queue with its single mutex and condition variable, the threads that *)
(* submit into it, the workers and shutdown helpers that take from it, and  *)
(* the cancellation tokens whose hooks remove queued messages.              *)
(*                                                                         *)
(* A task stands for one call of submit_policy, the thread that makes it,   *)
(* the PoolMessage it builds and the TaskHandle it returns. Definitions     *)
(* marked "Defect" are not part of the specification: each is the code with  *)
(* one plausible mistake and shows that a property notices it.              *)
(***************************************************************************)
EXTENDS Integers, FiniteSets, SequencesExt

CONSTANTS
  Task,            \* submissions, one thread each
  NoTask,          \* "no task": an idle thread, a free queue lock
  Worker,          \* the min(capacity, 4) threads TaskPool::create starts
  Helper,          \* the threads start_drain_helpers may start
  Capacity,        \* of the queue, 1..256 in the code
  Token,           \* cancellation tokens
  NoToken,         \* no remover
  TokenOf,         \* the token each submission was made with (may be shared)
  Interruptible,   \* submissions with a host interrupt source that may fire
  Cooperative      \* submissions through submit_cooperative

ASSUME PoolAssumption ==
  /\ IsFiniteSet(Task) /\ IsFiniteSet(Worker)
  /\ NoTask \notin Task
  /\ Worker # {} /\ Worker \cap Helper = {} /\ Task \cap (Worker \cup Helper) = {}
  /\ Capacity \in Nat \ {0}
  /\ NoToken \notin Token \cup Task /\ Token \cap Task = {}
  /\ TokenOf \in [Task -> Token]
  /\ Interruptible \subseteq Task /\ Cooperative \subseteq Task

Thread == Worker \cup Helper

VARIABLES
  queue,           \* PoolQueueState.messages
  closed,          \* PoolInner.closed and PoolQueueState.closed, set together
  drained,         \* a closer has seen pending_submissions = 0 after the close
  rtClosed,        \* RuntimeInner.closed
  lock,            \* the submitter that holds the queue mutex across steps
  parked,          \* threads blocked on PoolQueue.changed
  active,          \* RuntimeInner.active
  pending,         \* PoolInner.pending_submissions
  submit,          \* where each submission stands
  outcome,         \* what submit returned
  message,         \* the life of each PoolMessage
  remover,         \* who took a message out of the queue to cancel it
  result,          \* the content of the one-slot result channel
  thread,          \* state of the workers and helpers
  doing,           \* the message a thread has claimed
  cancelled,       \* the flag of each token
  cancelling,      \* where the thread in LockCancellation::cancel stands
  scan,            \* the hooks that thread has collected and not yet run
  hooks,           \* submissions whose cancel hook is alive in its token
  interrupted      \* submissions that a host interrupt has stopped

queueVars  == <<queue, closed, drained, lock, parked>>
submitVars == <<submit, outcome, pending, interrupted>>
cancelVars == <<cancelled, cancelling, scan>>
threadVars == <<thread, doing>>
vars == <<queueVars, rtClosed, active, submitVars, message, remover, result,
          threadVars, cancelVars, hooks>>

SubmitState  == {"idle", "active", "enqueue", "pushed", "withdraw",
                 "withdrawing", "leaving", "returned"}
Outcome      == {"none", "ok", "cancelled", "runtimeClosed", "poolClosed"}
MessageState == {"unsent", "queued", "claimed", "body", "replied",
                 "removed", "released", "finished"}
Reply        == {"reply", "cancelled"}

TypeOK ==
  /\ queue \in Seq(Task)
  /\ closed \in BOOLEAN /\ drained \in BOOLEAN /\ rtClosed \in BOOLEAN
  /\ lock \in Task \cup {NoTask}
  /\ parked \subseteq Task \cup Thread
  /\ active \in Nat /\ pending \in Nat
  /\ submit \in [Task -> SubmitState]
  /\ outcome \in [Task -> Outcome]
  /\ message \in [Task -> MessageState]
  /\ remover \in [Task -> Token \cup Task \cup {NoToken}]
  /\ result \in [Task -> Reply \cup {"none"}]
  /\ thread \in [Thread -> {"absent", "taking", "running", "exited"}]
  /\ doing \in [Thread -> Task \cup {NoTask}]
  /\ cancelled \in [Token -> BOOLEAN]
  /\ cancelling \in [Token -> {"idle", "stored", "running", "done"}]
  /\ scan \in [Token -> SUBSET Task]
  /\ hooks \subseteq Task
  /\ interrupted \subseteq Task

Init ==
  /\ queue = <<>> /\ closed = FALSE /\ drained = FALSE /\ rtClosed = FALSE
  /\ lock = NoTask /\ parked = {}
  /\ active = 0 /\ pending = 0
  /\ submit = [t \in Task |-> "idle"]
  /\ outcome = [t \in Task |-> "none"]
  /\ message = [t \in Task |-> "unsent"]
  /\ remover = [t \in Task |-> NoToken]
  /\ result = [t \in Task |-> "none"]
  /\ thread = [w \in Thread |-> IF w \in Worker THEN "taking" ELSE "absent"]
  /\ doing = [w \in Thread |-> NoTask]
  /\ cancelled = [k \in Token |-> FALSE]
  /\ cancelling = [k \in Token |-> "idle"]
  /\ scan = [k \in Token |-> {}]
  /\ hooks = {} /\ interrupted = {}

-----------------------------------------------------------------------------
(* Condition variable and queue operations shared by the handlers.          *)

IsQueued(t) == \E i \in DOMAIN queue : queue[i] = t

\* Defect: nobody is notified.
NotifyNobody == parked' = parked

\* notify_one wakes some parked thread, whichever kind it is.
NotifyOne ==
  IF parked = {} THEN parked' = parked
  ELSE \E p \in parked : parked' = parked \ {p}

NotifyAll == parked' = {}

\* Defect: a lease is forgotten.
KeepLease == UNCHANGED active

\* ActivityLease is dropped.
ReleaseLease == active' = active - 1

\* The host's interrupt source answers that it has fired when it is asked.
Interrupt(t) == t \in Interruptible /\ interrupted' = interrupted \cup {t}

\* The two sources a submission asks before and after its insertion.
Stop(t)    == (cancelled[TokenOf[t]] /\ UNCHANGED interrupted) \/ Interrupt(t)
Proceed(t) == ~cancelled[TokenOf[t]] /\ UNCHANGED interrupted

\* PoolQueue::remove up to the end of its critical section; `by` goes on to
\* drop the closure and to send the cancelled result.
RemoveQueued(t, by) ==
  IF IsQueued(t)
  THEN /\ \E i \in DOMAIN queue : queue[i] = t /\ queue' = RemoveAt(queue, i)
       /\ NotifyAll
       /\ message' = [message EXCEPT ![t] = "removed"]
       /\ remover' = [remover EXCEPT ![t] = by]
  ELSE UNCHANGED <<queue, parked, message, remover>>

\* What `by` still has to do for a message it removed.
Removing(by) ==
  \E t \in Task : remover[t] = by /\ message[t] \in {"removed", "released"}

-----------------------------------------------------------------------------
(* submit_policy and enqueue_message, by the submitting thread.             *)

BeginActivity(t) ==
  /\ submit[t] = "idle"
  /\ IF rtClosed
     THEN /\ submit' = [submit EXCEPT ![t] = "returned"]
          /\ outcome' = [outcome EXCEPT ![t] = "runtimeClosed"]
          /\ UNCHANGED active
     ELSE /\ submit' = [submit EXCEPT ![t] = "active"]
          /\ active' = active + 1
          /\ UNCHANGED outcome
  /\ UNCHANGED <<queueVars, rtClosed, pending, interrupted, message, remover,
                 result, threadVars, cancelVars, hooks>>

\* Defect: no hook is registered.
NoHook(t) == hooks

\* If the token is cancelled already the hook runs at once and removes nothing.
WithHook(t) == IF cancelled[TokenOf[t]] THEN hooks ELSE hooks \cup {t}

\* The submission lease is taken and the cancel hook registered.
BeginSubmission(t) ==
  /\ submit[t] = "active"
  /\ submit' = [submit EXCEPT ![t] = "enqueue"]
  /\ pending' = pending + 1
  /\ hooks' = WithHook(t)
  /\ UNCHANGED <<queueVars, rtClosed, active, outcome, interrupted, message,
                 remover, result, threadVars, cancelVars>>

\* One turn of the loop of enqueue_message reaches the queue mutex.
InLoop(t) == submit[t] = "enqueue" /\ t \notin parked /\ lock = NoTask

\* The refused message is dropped on the way out and with it its activity.
Refuse(t, code) ==
  /\ submit' = [submit EXCEPT ![t] = "leaving"]
  /\ outcome' = [outcome EXCEPT ![t] = code]
  /\ message' = [message EXCEPT ![t] = "finished"]
  /\ ReleaseLease
  /\ UNCHANGED <<queueVars, rtClosed, pending, remover, result, threadVars,
                 cancelVars, hooks>>

EnqueueRefused(t) ==
  /\ InLoop(t)
  /\ \/ Stop(t) /\ Refuse(t, "cancelled")
     \/ Proceed(t) /\ rtClosed /\ Refuse(t, "runtimeClosed")
     \/ Proceed(t) /\ ~rtClosed /\ closed /\ Refuse(t, "poolClosed")

\* Defect: the closed flag of the pool is not looked at under the mutex.
AdmittedAfterClose(t) == ~cancelled[TokenOf[t]] /\ ~rtClosed

Admitted(t) == ~cancelled[TokenOf[t]] /\ ~rtClosed /\ ~closed

\* push_back and notify_one; the mutex stays held until Recheck.
Push(t) ==
  /\ InLoop(t) /\ Admitted(t)
  /\ Len(queue) < Capacity
  /\ queue' = Append(queue, t)
  /\ message' = [message EXCEPT ![t] = "queued"]
  /\ lock' = t
  /\ NotifyOne
  /\ submit' = [submit EXCEPT ![t] = "pushed"]
  /\ UNCHANGED <<closed, drained, rtClosed, active, outcome, pending, interrupted,
                 remover, result, threadVars, cancelVars, hooks>>

\* A full queue: wait_timeout(2ms) on the condition variable.
Backpressure(t) ==
  /\ InLoop(t) /\ Admitted(t)
  /\ Len(queue) >= Capacity
  /\ parked' = parked \cup {t}
  /\ UNCHANGED <<queue, closed, drained, lock, rtClosed, active, submitVars, message,
                 remover, result, threadVars, cancelVars, hooks>>

\* Defect: the wait for space ends only once the pool is closed.
SubmitUntimed(t) ==
  /\ t \in parked /\ closed
  /\ parked' = parked \ {t}
  /\ UNCHANGED <<queue, closed, drained, lock, rtClosed, active, submitVars, message,
                 remover, result, threadVars, cancelVars, hooks>>

SubmitTimeout(t) ==
  /\ t \in parked
  /\ parked' = parked \ {t}
  /\ UNCHANGED <<queue, closed, drained, lock, rtClosed, active, submitVars, message,
                 remover, result, threadVars, cancelVars, hooks>>

\* Defect: PoolQueue::remove is called with the mutex still held.
RecheckKeepsLock(t) ==
  /\ submit[t] = "pushed"
  /\ \/ /\ Stop(t)
        /\ submit' = [submit EXCEPT ![t] = "withdraw"]
        /\ UNCHANGED <<lock, outcome>>
     \/ /\ Proceed(t)
        /\ submit' = [submit EXCEPT ![t] = "leaving"]
        /\ outcome' = [outcome EXCEPT ![t] = "ok"]
        /\ lock' = NoTask
  /\ UNCHANGED <<queue, closed, drained, parked, rtClosed, active, pending, message,
                 remover, result, threadVars, cancelVars, hooks>>

\* The check after the insertion, still under the mutex.
Recheck(t) ==
  /\ submit[t] = "pushed"
  /\ lock' = NoTask
  /\ \/ /\ Stop(t)
        /\ submit' = [submit EXCEPT ![t] = "withdraw"]
        /\ UNCHANGED outcome
     \/ /\ Proceed(t)
        /\ submit' = [submit EXCEPT ![t] = "leaving"]
        /\ outcome' = [outcome EXCEPT ![t] = "ok"]
  /\ UNCHANGED <<queue, closed, drained, parked, rtClosed, active, pending, message,
                 remover, result, threadVars, cancelVars, hooks>>

Withdraw(t) ==
  /\ submit[t] = "withdraw" /\ lock = NoTask
  /\ RemoveQueued(t, t)
  /\ submit' = [submit EXCEPT ![t] = "withdrawing"]
  /\ UNCHANGED <<closed, drained, lock, rtClosed, active, outcome, pending, interrupted,
                 result, threadVars, cancelVars, hooks>>

Withdrawn(t) ==
  /\ submit[t] = "withdrawing" /\ ~Removing(t)
  /\ submit' = [submit EXCEPT ![t] = "leaving"]
  /\ outcome' = [outcome EXCEPT ![t] = "cancelled"]
  /\ UNCHANGED <<queueVars, rtClosed, active, pending, interrupted, message,
                 remover, result, threadVars, cancelVars, hooks>>

\* submit_policy returns: the submission lease is released; the hook lives on
\* only in the handle of an accepted task.
EndSubmission(t) ==
  /\ submit[t] = "leaving"
  /\ submit' = [submit EXCEPT ![t] = "returned"]
  /\ pending' = pending - 1
  /\ hooks' = IF outcome[t] = "ok" THEN hooks ELSE hooks \ {t}
  /\ UNCHANGED <<queueVars, rtClosed, active, outcome, interrupted, message,
                 remover, result, threadVars, cancelVars>>

-----------------------------------------------------------------------------
(* PoolQueue::take and the run closure, by workers and shutdown helpers.    *)

Awake(w) == thread[w] = "taking" /\ w \notin parked

\* Defect: the closed flag is looked at before the queue.
ClosedOrEmpty == closed \/ queue = <<>>

NothingQueued == queue = <<>>

Take(w) ==
  /\ Awake(w) /\ lock = NoTask
  /\ queue # <<>>
  /\ queue' = Tail(queue)
  /\ NotifyAll
  /\ message' = [message EXCEPT ![Head(queue)] = "claimed"]
  /\ thread' = [thread EXCEPT ![w] = "running"]
  /\ doing' = [doing EXCEPT ![w] = Head(queue)]
  /\ UNCHANGED <<closed, drained, lock, rtClosed, active, submitVars, remover, result,
                 cancelVars, hooks>>

\* Nothing to take: leave if the pool is closed or the caller does not wait
\* (helpers call take(false)), otherwise sleep without a timeout.
TakeNothing(w) ==
  /\ Awake(w) /\ lock = NoTask /\ NothingQueued
  /\ IF closed \/ w \in Helper
     THEN /\ thread' = [thread EXCEPT ![w] = "exited"]
          /\ UNCHANGED parked
     ELSE /\ parked' = parked \cup {w}
          /\ UNCHANGED thread
  /\ UNCHANGED <<queue, closed, drained, lock, rtClosed, active, submitVars, message,
                 remover, result, doing, cancelVars, hooks>>

\* A condition variable may wake without a notification.
SpuriousWakeup(w) ==
  /\ w \in parked \cap Thread
  /\ parked' = parked \ {w}
  /\ UNCHANGED <<queue, closed, drained, lock, rtClosed, active, submitVars, message,
                 remover, result, threadVars, cancelVars, hooks>>

\* Defect: the token is not looked at before the function is called.
CalledAnyway(t) == FALSE

Forestalled(t) == cancelled[TokenOf[t]]

\* The run closure enters its contexts and looks at the token once.
StartRun(w) ==
  LET t == doing[w] IN
  /\ thread[w] = "running" /\ message[t] = "claimed"
  /\ IF Forestalled(t)
     THEN /\ message' = [message EXCEPT ![t] = "replied"]
          /\ result' = [result EXCEPT ![t] = "cancelled"]
     ELSE /\ message' = [message EXCEPT ![t] = "body"]
          /\ UNCHANGED result
  /\ UNCHANGED <<queueVars, rtClosed, active, submitVars, remover,
                 threadVars, cancelVars, hooks>>

\* The function returns or panics (a "reply" is its value or JoinFailed) and
\* the result is sent.
FinishBody(w) ==
  LET t == doing[w] IN
  /\ thread[w] = "running" /\ message[t] = "body"
  /\ message' = [message EXCEPT ![t] = "replied"]
  /\ \E panics \in BOOLEAN :
       result' = [result EXCEPT ![t] =
         IF ~panics /\ t \notin Cooperative /\ cancelled[TokenOf[t]]
         THEN "cancelled" ELSE "reply"]
  /\ UNCHANGED <<queueVars, rtClosed, active, submitVars, remover,
                 threadVars, cancelVars, hooks>>

\* The closure's locals are dropped, the activity lease last.
EndRun(w) ==
  LET t == doing[w] IN
  /\ thread[w] = "running" /\ message[t] = "replied"
  /\ message' = [message EXCEPT ![t] = "finished"]
  /\ ReleaseLease
  /\ thread' = [thread EXCEPT ![w] = "taking"]
  /\ doing' = [doing EXCEPT ![w] = NoTask]
  /\ UNCHANGED <<queueVars, rtClosed, submitVars, remover, result, cancelVars, hooks>>

-----------------------------------------------------------------------------
(* LockCancellation::cancel and the two last steps of PoolQueue::remove.    *)

CancelStore(k) ==
  /\ cancelling[k] = "idle"
  /\ cancelled' = [cancelled EXCEPT ![k] = TRUE]
  /\ cancelling' = [cancelling EXCEPT ![k] = "stored"]
  /\ UNCHANGED <<queueVars, rtClosed, active, submitVars, message, remover,
                 result, threadVars, scan, hooks>>

CancelCollect(k) ==
  /\ cancelling[k] = "stored"
  /\ cancelling' = [cancelling EXCEPT ![k] = "running"]
  /\ scan' = [scan EXCEPT ![k] = {t \in hooks : TokenOf[t] = k}]
  /\ UNCHANGED <<queueVars, rtClosed, active, submitVars, message, remover,
                 result, threadVars, cancelled, hooks>>

CancelHook(k, t) ==
  /\ cancelling[k] = "running" /\ t \in scan[k]
  /\ lock = NoTask /\ ~Removing(k)
  /\ scan' = [scan EXCEPT ![k] = @ \ {t}]
  /\ RemoveQueued(t, k)
  /\ UNCHANGED <<closed, drained, lock, rtClosed, active, submitVars, result, threadVars, cancelled, cancelling, hooks>>

CancelReturn(k) ==
  /\ cancelling[k] = "running" /\ scan[k] = {} /\ ~Removing(k)
  /\ cancelling' = [cancelling EXCEPT ![k] = "done"]
  /\ UNCHANGED <<queueVars, rtClosed, active, submitVars, message, remover,
                 result, threadVars, cancelled, scan, hooks>>

DropRun(t) ==
  /\ message[t] = "removed"
  /\ message' = [message EXCEPT ![t] = "released"]
  /\ ReleaseLease
  /\ UNCHANGED <<queueVars, rtClosed, submitVars, remover, result, threadVars, cancelVars, hooks>>

SendCancelled(t) ==
  /\ message[t] = "released"
  /\ message' = [message EXCEPT ![t] = "finished"]
  /\ result' = [result EXCEPT ![t] = "cancelled"]
  /\ UNCHANGED <<queueVars, rtClosed, active, submitVars, remover,
                 threadVars, cancelVars, hooks>>

-----------------------------------------------------------------------------
(* The wait of a task handle, and the shutdown path as this component sees it. *)

\* A result is received and the hook given up (TaskHandle has the whole wait).
Wait(t) ==
  /\ submit[t] = "returned" /\ outcome[t] = "ok"
  /\ result[t] # "none"
  /\ t \in hooks
  /\ hooks' = hooks \ {t}
  /\ UNCHANGED <<queueVars, rtClosed, active, submitVars, message, remover,
                 result, threadVars, cancelVars>>

\* RuntimeHandle::close_inner raises the flag before it closes the queues.
CloseRuntime ==
  /\ ~rtClosed
  /\ rtClosed' = TRUE
  /\ UNCHANGED <<queueVars, active, submitVars, message, remover, result,
                 threadVars, cancelVars, hooks>>

\* PoolQueue::close; a second call changes nothing.
Close ==
  /\ lock = NoTask /\ ~closed
  /\ closed' = TRUE
  /\ NotifyAll
  /\ UNCHANGED <<queue, drained, lock, rtClosed, active, submitVars, message, remover,
                 result, threadVars, cancelVars, hooks>>

\* A closer leaves the wait on submissions_drained.
SubmissionsDrained ==
  /\ closed /\ pending = 0 /\ ~drained
  /\ drained' = TRUE
  /\ UNCHANGED <<queue, closed, lock, parked, rtClosed, active, submitVars,
                 message, remover, result, threadVars, cancelVars,
                 hooks>>

\* start_drain_helpers, after that wait. When a helper cannot be created, the closer
\* drains the queue in its place and starts no more: one thread less, or several.
StartHelpers ==
  /\ drained
  /\ \A h \in Helper : thread[h] = "absent"
  /\ \E started \in SUBSET Helper \ {{}} :
       thread' = [w \in Thread |-> IF w \in started THEN "taking" ELSE thread[w]]
  /\ UNCHANGED <<queueVars, rtClosed, active, submitVars, message, remover,
                 result, doing, cancelVars, hooks>>

-----------------------------------------------------------------------------
SubmitStep(t) ==
  \/ BeginSubmission(t) \/ EnqueueRefused(t) \/ Push(t)
  \/ Backpressure(t) \/ SubmitTimeout(t) \/ Recheck(t) \/ Withdraw(t)
  \/ Withdrawn(t) \/ EndSubmission(t)

ThreadStep(w) ==
  Take(w) \/ TakeNothing(w) \/ StartRun(w) \/ FinishBody(w) \/ EndRun(w)

CancelStep(k) ==
  CancelCollect(k) \/ CancelReturn(k) \/ (\E t \in Task : CancelHook(k, t))

RemoveStep(t) == DropRun(t) \/ SendCancelled(t)

\* Everything but a wait for a result.
PoolStep ==
  \/ \E t \in Task : BeginActivity(t) \/ SubmitStep(t) \/ RemoveStep(t)
  \/ \E w \in Thread : ThreadStep(w) \/ SpuriousWakeup(w)
  \/ \E k \in Token : CancelStore(k) \/ CancelStep(k)
  \/ CloseRuntime \/ Close \/ SubmissionsDrained \/ StartHelpers

Next == PoolStep \/ \E t \in Task : Wait(t)

Spec == Init /\ [][Next]_vars

-----------------------------------------------------------------------------
(* Properties.                                                              *)

Submitting == {t \in Task : submit[t] \notin {"idle", "active", "returned"}}

\* Submissions whose ActivityLease is alive.
Leased ==
  {t \in Task : \/ submit[t] \in {"active", "enqueue"}
                \/ message[t] \in {"queued", "claimed", "body", "replied", "removed"}}

\* The two counters a close waits on are exact: `active` counts the live
\* activity leases and `pending_submissions` the live submission leases,
\* whichever of the four paths (refusal, withdrawal, cancellation, run) a
\* submission leaves by.
LeasesCounted ==
  /\ active = Cardinality(Leased)
  /\ pending = Cardinality(Submitting)

\* notify_one after a push cannot be swallowed by a submitter: a submitter
\* sleeps on the shared condition variable only while the queue is full and
\* the pool open, because every pop and removal notifies all.
SubmittersSleepOnlyWhenFull ==
  parked \cap Task # {} => Len(queue) = Capacity /\ ~closed

\* No lost wakeup: while any worker sleeps, at least as many workers are awake
\* and on their way to the queue as there are messages in it.
NoLostWakeup ==
  parked \cap Worker # {} =>
    Len(queue) <= Cardinality({w \in Worker : Awake(w)})

\* A cancellation cannot strand a queued message: once cancel() and submit
\* have both returned, the task is not in the queue, wherever the cancellation
\* fell between registering the hook, the insertion and the recheck.
NoStrandedCancelled ==
  \A t \in Task :
    submit[t] = "returned" /\ cancelling[TokenOf[t]] = "done" => ~IsQueued(t)

\* A submission refused for its token or for a close never executes the
\* function, although its message may have been in the queue for a moment.
RefusedNeverRuns ==
  \A t \in Task :
    outcome[t] \in {"cancelled", "runtimeClosed", "poolClosed"} /\ t \notin interrupted
      => message[t] # "body" /\ result[t] # "reply"

\* One result per message: the channel has one slot, and a second send by the
\* worker, the canceller or the submitter would block its thread for ever.
OneResult ==
  [][\A t \in Task : result[t] # "none" => result'[t] = result[t]]_vars

\* After a closer has seen no pending submission, nothing is admitted any more
\* and the queue only shrinks, so the helpers it starts see all there is.
DrainedQueueOnlyShrinks ==
  [][drained => /\ Len(queue') <= Len(queue)
                /\ \A t \in Task : outcome'[t] = "ok" => outcome[t] = "ok"]_vars

-----------------------------------------------------------------------------
(* The pool implements PoolContract: what a caller was promised, whatever    *)
(* the threads do. A message removed by a canceller or by its submitter is   *)
(* "revoked" until its result is sent, and one refused before the insertion  *)
(* has never been there.                                                     *)

PhaseOf(t) ==
  CASE message[t] = "unsent"                              -> "new"
    [] message[t] = "queued"                              -> "waiting"
    [] message[t] \in {"claimed", "body"}                 -> "running"
    [] message[t] \in {"removed", "released"}             -> "revoked"
    [] message[t] = "replied"                             -> "answered"
    [] message[t] = "finished" /\ result[t] # "none"      -> "answered"
    [] message[t] = "finished" /\ result[t] = "none"      -> "new"

Contract == INSTANCE PoolContract WITH
  waiting <- queue, shut <- closed, phase <- [t \in Task |-> PhaseOf(t)],
  answer <- result

\* Admission up to the capacity and never after the close, start in order of
\* submission, one result per admitted task, "cancelled" only without a run
\* or from the run itself.
ImplementsContract == Contract!Spec

-----------------------------------------------------------------------------
(* Fairness: submissions, removals and cancellations are calls that keep      *)
(* running; nothing obliges anyone to submit, to cancel, to close or to wait. *)
(* That the workers and helpers keep running and every task body returns is   *)
(* an assumption of the properties that need it: a body may hang.             *)

Fairness ==
  /\ \A t \in Task : WF_vars(SubmitStep(t)) /\ WF_vars(RemoveStep(t))
  /\ \A k \in Token : WF_vars(CancelStep(k))

FairSpec == Spec /\ Fairness

WorkersRun == \A w \in Thread : WF_vars(ThreadStep(w))

\* Every admitted task is eventually answered, when the workers run.
AnswersAll == WorkersRun => Contract!Answered

\* Backpressure ends: with live workers every submission returns.
SubmitReturns ==
  WorkersRun => \A t \in Task : submit[t] = "active" ~> submit[t] = "returned"

\* A cancelled task leaves the queue and frees its slot although no worker is
\* ever idle again.
CancelFreesSlot ==
  \A t \in Task : cancelled[TokenOf[t]] /\ IsQueued(t) ~> ~IsQueued(t)

\* Closing the pool or the runtime ends every blocked submission, although no
\* worker is ever idle again.
CloseReleasesSubmitters ==
  \A t \in Task :
    (closed \/ rtClosed) /\ submit[t] = "enqueue" ~> submit[t] = "returned"

=============================================================================
