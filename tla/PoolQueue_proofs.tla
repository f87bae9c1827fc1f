-------------------------- MODULE PoolQueue_proofs --------------------------
(***************************************************************************)
(* Proofs about PoolQueue for every number of submissions, workers, helpers, *)
(* tokens and every capacity.                                               *)
(***************************************************************************)
EXTENDS PoolQueue, FiniteSetTheorems, TLAPS

-----------------------------------------------------------------------------
(* What every step keeps true: PoolInv is inductive and each property a      *)
(* consequence of it.                                                        *)

Refused == {"cancelled", "runtimeClosed", "poolClosed"}

\* The queue holds the queued messages, each once, up to the capacity.
Line ==
  /\ Len(queue) <= Capacity
  /\ \A i, j \in DOMAIN queue : queue[i] = queue[j] => i = j
  /\ \A t \in Task : message[t] = "queued" <=> IsQueued(t)

\* Who may sleep: submitters in their loop and workers, in an open pool only.
Sleepers ==
  /\ parked \subseteq {t \in Task : submit[t] = "enqueue"}
                \cup {w \in Worker : thread[w] = "taking"}
  /\ closed => parked = {}
  /\ SubmittersSleepOnlyWhenFull

\* How far a message can be, given its submitter and its result.
Stages ==
  /\ \A t \in Task :
       /\ message[t] # "unsent" => submit[t] \notin {"idle", "active", "enqueue"}
       /\ message[t] \notin {"replied", "finished"} => result[t] = "none"
       /\ message[t] = "replied" => result[t] # "none"
       /\ submit[t] = "pushed" => lock = t /\ message[t] = "queued"
       /\ outcome[t] = "none" <=> submit[t] \notin {"leaving", "returned"}
  /\ \A w \in Thread : thread[w] = "running" => doing[w] \in Task

\* A submission on its way to a refusal will not have its function called.
Refusals ==
  \A t \in Task \ interrupted :
    submit[t] \in {"withdraw", "withdrawing"} \/ outcome[t] \in Refused =>
      /\ cancelled[TokenOf[t]] \/ message[t] \in {"unsent", "finished"}
      /\ message[t] # "body" /\ result[t] # "reply"

\* A queued message is always in somebody's reach: the recheck's, the
\* withdrawal's, or that of a hook a canceller has still to collect or to run.
Hooked ==
  /\ \A k \in Token : /\ cancelling[k] # "idle" <=> cancelled[k]
                      /\ cancelling[k] = "done" => scan[k] = {}
  /\ \A t \in Task :
       /\ submit[t] \in {"enqueue", "pushed"} /\ ~cancelled[TokenOf[t]] => t \in hooks
       /\ submit[t] = "withdrawing" \/ outcome[t] \in Refused => message[t] # "queued"
       /\ message[t] = "queued" /\ submit[t] \in {"leaving", "returned"} =>
            /\ t \in hooks
            /\ cancelling[TokenOf[t]] \in {"running", "done"} => t \in scan[TokenOf[t]]

\* After the wait for pending submissions nobody is inside the critical section.
Drained == drained => closed /\ \A t \in Task : submit[t] # "pushed"

PoolInv ==
  /\ TypeOK /\ Line /\ Sleepers /\ Stages /\ Refusals /\ Hooked /\ Drained
  /\ LeasesCounted /\ NoLostWakeup

-----------------------------------------------------------------------------
USE DEF ReleaseLease, WithHook, NothingQueued, Forestalled

-----------------------------------------------------------------------------
(* The queue: what the three operations on it do to its length, its order    *)
(* and its members.                                                         *)

Once(s) == \A i, j \in DOMAIN s : s[i] = s[j] => i = j
In(t, s) == \E i \in DOMAIN s : s[i] = t

\* push_back of a message that is not in the queue.
LEMMA AppendOnce ==
  ASSUME NEW s \in Seq(Task), Once(s), NEW t \in Task, ~In(t, s)
  PROVE  /\ Append(s, t) \in Seq(Task) /\ Len(Append(s, t)) = Len(s) + 1
         /\ Once(Append(s, t))
         /\ \A u \in Task : In(u, Append(s, t)) <=> In(u, s) \/ u = t
<1>1. Append(s, t) \in Seq(Task) /\ Len(Append(s, t)) = Len(s) + 1
  OBVIOUS
<1>2. \A i \in 1..Len(s) + 1 : Append(s, t)[i] = IF i = Len(s) + 1 THEN t ELSE s[i]
  OBVIOUS
<1> QED BY <1>1, <1>2 DEF Once, In

\* pop_front of the oldest message.
LEMMA TailOnce ==
  ASSUME NEW s \in Seq(Task), Once(s), s # <<>>
  PROVE  /\ Head(s) \in Task /\ Tail(s) \in Seq(Task) /\ Len(Tail(s)) = Len(s) - 1
         /\ Once(Tail(s))
         /\ \A u \in Task : In(u, Tail(s)) <=> In(u, s) /\ u # Head(s)
<1>1. Head(s) = s[1] /\ Head(s) \in Task /\ Tail(s) \in Seq(Task) /\ Len(Tail(s)) = Len(s) - 1
  OBVIOUS
<1>2. \A i \in 1..Len(s) - 1 : Tail(s)[i] = s[i + 1]
  OBVIOUS
<1>3. ASSUME NEW u \in Task, NEW i \in 1..Len(s), s[i] = u, u # s[1] PROVE In(u, Tail(s))
  <2>1. i - 1 \in 1..Len(s) - 1 /\ Tail(s)[i - 1] = u
    BY <1>2, <1>3
  <2>2. DOMAIN Tail(s) = 1..Len(s) - 1
    BY <1>1
  <2> QED BY <2>1, <2>2 DEF In
<1>4. \A x, y \in 1..Len(s) : s[x] = s[y] => x = y
  BY DEF Once
<1>5. DOMAIN Tail(s) = 1..Len(s) - 1
  BY <1>1
<1>6. Once(Tail(s))
  BY <1>2, <1>4, <1>5 DEF Once
<1>7. ASSUME NEW u \in Task, In(u, Tail(s)) PROVE In(u, s) /\ u # s[1]
  <2>1. PICK i \in 1..Len(s) - 1 : Tail(s)[i] = u
    BY <1>5, <1>7 DEF In
  <2>2. s[i + 1] = u /\ i + 1 \in 1..Len(s) /\ i + 1 # 1 /\ 1 \in 1..Len(s)
    BY <1>2, <2>1
  <2> QED BY <1>4, <2>2 DEF In
<1> QED BY <1>1, <1>3, <1>6, <1>7 DEF In

\* PoolQueue::remove takes out the message it was called for and no other.
LEMMA RemoveOnce ==
  ASSUME NEW s \in Seq(Task), Once(s), NEW i \in DOMAIN s
  PROVE  /\ RemoveAt(s, i) \in Seq(Task) /\ Len(RemoveAt(s, i)) = Len(s) - 1
         /\ Once(RemoveAt(s, i))
         /\ \A u \in Task : In(u, RemoveAt(s, i)) <=> In(u, s) /\ u # s[i]
<1> DEFINE r == RemoveAt(s, i)
<1> DEFINE front == SubSeq(s, 1, i - 1)
           back == SubSeq(s, i + 1, Len(s))
<1>1. i \in 1..Len(s) /\ Len(s) \in Nat
  OBVIOUS
<1>2. /\ front \in Seq(Task) /\ Len(front) = i - 1
      /\ \A j \in 1..i - 1 : front[j] = s[j]
  BY <1>1
<1>3. /\ back \in Seq(Task) /\ Len(back) = Len(s) - i
      /\ \A j \in 1..Len(s) - i : back[j] = s[i + j]
  BY <1>1
<1>r. r = front \o back
  BY DEF RemoveAt
<1> HIDE DEF r, front, back
<1>4. r \in Seq(Task) /\ Len(r) = Len(s) - 1
  BY <1>1, <1>2, <1>3, <1>r
<1>5. \A j \in 1..Len(s) - 1 : r[j] = IF j < i THEN s[j] ELSE s[j + 1]
  <2> SUFFICES ASSUME NEW j \in 1..Len(s) - 1
               PROVE  r[j] = IF j < i THEN s[j] ELSE s[j + 1]
    OBVIOUS
  <2>1. r[j] = IF j <= Len(front) THEN front[j] ELSE back[j - Len(front)]
    BY <1>1, <1>2, <1>3, <1>r
  <2>2. CASE j < i
    BY <1>1, <1>2, <2>1, <2>2
  <2>3. CASE ~(j < i)
    <3>1. r[j] = back[j - (i - 1)] /\ j - (i - 1) \in 1..Len(s) - i
      BY <1>1, <1>2, <2>1, <2>3
    <3>2. i + (j - (i - 1)) = j + 1
      BY <1>1
    <3> QED BY <1>3, <2>3, <3>1, <3>2
  <2> QED BY <2>2, <2>3
<1>6. Once(r)
  <2> SUFFICES ASSUME NEW j \in 1..Len(s) - 1, NEW k \in 1..Len(s) - 1, r[j] = r[k]
               PROVE  j = k
    BY <1>1, <1>4 DEF Once
  <2>1. \A x, y \in 1..Len(s) : s[x] = s[y] => x = y
    BY <1>1 DEF Once
  <2> QED BY <1>1, <1>5, <2>1
<1>7. ASSUME NEW u \in Task, NEW j \in 1..Len(s), s[j] = u, u # s[i] PROVE In(u, r)
  <2>1. CASE j < i
    BY <1>1, <1>4, <1>5, <1>7, <2>1 DEF In
  <2>2. CASE j > i
    <3>1. j - 1 \in 1..Len(s) - 1 /\ r[j - 1] = u
      BY <1>1, <1>5, <1>7, <2>2
    <3> QED BY <1>4, <3>1 DEF In
  <2> QED BY <1>1, <1>7, <2>1, <2>2
<1>8. ASSUME NEW u \in Task, In(u, r) PROVE In(u, s) /\ u # s[i]
  <2>1. PICK j \in 1..Len(s) - 1 : r[j] = u
    BY <1>4, <1>8 DEF In
  <2> QED BY <1>1, <1>5, <2>1 DEF In, Once
<1> QED BY <1>4, <1>6, <1>7, <1>8 DEF In, r

\* PoolQueue::remove keeps the types of what it changes.
LEMMA RemovalType ==
  ASSUME TypeOK, Line, NEW t \in Task, NEW by \in Token \cup Task, RemoveQueued(t, by)
  PROVE  /\ queue' \in Seq(Task) /\ parked' \subseteq Task \cup Thread
         /\ message' \in [Task -> MessageState]
         /\ remover' \in [Task -> Token \cup Task \cup {NoToken}]
<1>1. CASE IsQueued(t)
  <2>1. PICK i \in DOMAIN queue : queue[i] = t /\ queue' = RemoveAt(queue, i)
    BY <1>1 DEF RemoveQueued
  <2>2. queue' \in Seq(Task)
    BY <2>1, RemoveOnce DEF TypeOK, Line, Once
  <2> QED BY <1>1, <2>2 DEF RemoveQueued, NotifyAll, TypeOK, MessageState
<1>2. CASE ~IsQueued(t)
  BY <1>2 DEF RemoveQueued, TypeOK
<1> QED BY <1>1, <1>2

\* And keeps the queue and the states of the messages in step.
LEMMA RemovalLine ==
  ASSUME TypeOK, Line, NEW t \in Task, NEW by, RemoveQueued(t, by)
  PROVE  Line'
<1>1. CASE IsQueued(t)
  <2>1. PICK i \in DOMAIN queue : queue[i] = t /\ queue' = RemoveAt(queue, i)
    BY <1>1 DEF RemoveQueued
  <2>2. message' = [message EXCEPT ![t] = "removed"]
    BY <1>1 DEF RemoveQueued
  <2>3. /\ Len(queue') = Len(queue) - 1 /\ Once(queue')
        /\ \A u \in Task : In(u, queue') <=> In(u, queue) /\ u # t
    BY <2>1, RemoveOnce DEF TypeOK, Line, Once
  <2>4. Len(queue) \in Nat
    BY DEF TypeOK
  <2>5. Len(queue') <= Capacity
    BY <2>3, <2>4, PoolAssumption DEF Line, PoolAssumption
  <2>6. \A u \in Task : message'[u] = "queued" <=> In(u, queue')
    BY <2>2, <2>3 DEF Line, IsQueued, In, TypeOK
  <2> QED BY <2>3, <2>5, <2>6 DEF Line, Once, In, IsQueued
<1>2. CASE ~IsQueued(t)
  BY <1>2 DEF RemoveQueued, Line, IsQueued
<1> QED BY <1>1, <1>2

-----------------------------------------------------------------------------
(* The parts of PoolInv that speak of one message or one thread: one step    *)
(* per action, and under it one per conjunct.                               *)

\* A new pool has an empty queue and nobody in it.
LEMMA InitPool == Init => PoolInv
<1> USE PoolAssumption DEF PoolAssumption
<1> SUFFICES ASSUME Init PROVE PoolInv
  OBVIOUS
<1>1. TypeOK
  <2>1. queue \in Seq(Task) /\ thread \in [Thread -> {"absent", "taking", "running", "exited"}]
    BY DEF Init
  <2>2. /\ submit \in [Task -> SubmitState] /\ outcome \in [Task -> Outcome]
        /\ message \in [Task -> MessageState]
    BY DEF Init, SubmitState, Outcome, MessageState
  <2>3. /\ closed \in BOOLEAN /\ drained \in BOOLEAN /\ rtClosed \in BOOLEAN
        /\ cancelled \in [Token -> BOOLEAN]
        /\ cancelling \in [Token -> {"idle", "stored", "running", "done"}]
        /\ scan \in [Token -> SUBSET Task]
    BY DEF Init
  <2>4. /\ remover \in [Task -> Token \cup Task \cup {NoToken}]
        /\ result \in [Task -> Reply \cup {"none"}]
        /\ doing \in [Thread -> Task \cup {NoTask}]
    BY DEF Init
  <2> QED BY <2>1, <2>2, <2>3, <2>4 DEF Init, TypeOK
<1>2. Line /\ Sleepers /\ Stages /\ Refusals /\ Hooked /\ Drained
  BY DEF Init, Line, IsQueued, Sleepers, SubmittersSleepOnlyWhenFull, Stages, Refusals,
         Refused, Hooked, Drained, Thread
<1>3. LeasesCounted
  <2>1. Leased = {} /\ Submitting = {}
    BY DEF Init, Leased, Submitting
  <2> QED BY <2>1, FS_EmptySet DEF Init, LeasesCounted
<1>4. NoLostWakeup
  BY DEF Init, NoLostWakeup
<1> QED BY <1>1, <1>2, <1>3, <1>4 DEF PoolInv

\* The sets the counters count are finite.
LEMMA CountedFinite == IsFiniteSet(Leased) /\ IsFiniteSet(Submitting)
<1>1. Leased \subseteq Task /\ Submitting \subseteq Task /\ IsFiniteSet(Task)
  BY PoolAssumption DEF Leased, Submitting, PoolAssumption
<1> QED BY <1>1, FS_Subset

\* No decrement underflows: who holds a lease has been counted.
LEMMA LeasesPositive ==
  ASSUME TypeOK, LeasesCounted
  PROVE  /\ \A t \in Leased : active - 1 \in Nat
         /\ \A t \in Submitting : pending - 1 \in Nat
<1>1. Leased # {} => Cardinality(Leased) # 0
  BY CountedFinite, FS_EmptySet
<1>2. Submitting # {} => Cardinality(Submitting) # 0
  BY CountedFinite, FS_EmptySet
<1> QED BY <1>1, <1>2 DEF TypeOK, LeasesCounted

LocalInv == TypeOK /\ Line /\ Sleepers /\ Stages /\ Refusals /\ Hooked /\ Drained

\* Every action of every thread keeps the parts other than the counters.
LEMMA StepLocal == PoolInv /\ [Next]_vars => LocalInv'
<1> USE PoolAssumption
    DEF PoolAssumption, PoolInv, LocalInv, TypeOK, NotifyOne, NotifyAll, Stop, Interrupt,
        Proceed, IsQueued, Once, In, InLoop, Refuse, Admitted, Awake, queueVars,
        submitVars, cancelVars, threadVars, Thread, SubmitState, Outcome, MessageState, Reply, Refused
<1> SUFFICES ASSUME PoolInv, [Next]_vars PROVE LocalInv'
  OBVIOUS
<1>1. ASSUME NEW t \in Task, BeginActivity(t) PROVE LocalInv'
  <2>1. TypeOK'
    BY <1>1 DEF BeginActivity, Stages
  <2>2. Line'
    BY <1>1 DEF BeginActivity, Line
  <2>3. Sleepers'
    BY <1>1 DEF BeginActivity, Sleepers, SubmittersSleepOnlyWhenFull
  <2>4. Stages'
    BY <1>1 DEF BeginActivity, Stages
  <2>5. Refusals'
    BY <1>1 DEF BeginActivity, Refusals, Stages
  <2>6. Hooked'
    BY <1>1 DEF BeginActivity, Hooked, Stages
  <2>7. Drained'
    BY <1>1 DEF BeginActivity, Drained
  <2> QED BY <2>1, <2>2, <2>3, <2>4, <2>5, <2>6, <2>7
<1>2. ASSUME NEW t \in Task, BeginSubmission(t) PROVE LocalInv'
  <2>1. TypeOK'
    BY <1>2 DEF BeginSubmission
  <2>2. Line'
    BY <1>2 DEF BeginSubmission, Line
  <2>3. Sleepers'
    BY <1>2 DEF BeginSubmission, Sleepers, SubmittersSleepOnlyWhenFull
  <2>4. Stages'
    BY <1>2 DEF BeginSubmission, Stages
  <2>5. Refusals'
    BY <1>2 DEF BeginSubmission, Refusals
  <2>6. Hooked'
    BY <1>2 DEF BeginSubmission, Hooked
  <2>7. Drained'
    BY <1>2 DEF BeginSubmission, Drained
  <2> QED BY <2>1, <2>2, <2>3, <2>4, <2>5, <2>6, <2>7
<1>3. ASSUME NEW t \in Task, EnqueueRefused(t) PROVE LocalInv'
  <2>1. TypeOK'
    <3>1. PICK code \in Refused : Refuse(t, code)
      BY <1>3 DEF EnqueueRefused
    <3>2. active - 1 \in Nat
      BY <1>3, LeasesPositive DEF EnqueueRefused, Leased
    <3>3. (interrupted \subseteq Task)'
      BY <1>3 DEF EnqueueRefused
    <3> QED BY <3>1, <3>2, <3>3
  <2>2. Line'
    <3>1. UNCHANGED queue /\ message' = [message EXCEPT ![t] = "finished"]
      BY <1>3 DEF EnqueueRefused
    <3>2. message[t] = "unsent"
      <4>1. submit[t] = "enqueue"
        BY <1>3 DEF EnqueueRefused
      <4> QED BY <4>1 DEF Stages
    <3> QED BY <3>1, <3>2 DEF Line
  <2>3. Sleepers'
    BY <1>3 DEF EnqueueRefused, Sleepers, SubmittersSleepOnlyWhenFull
  <2>4. Stages'
    <3>1. PICK code \in Refused : Refuse(t, code)
      BY <1>3 DEF EnqueueRefused
    <3> QED BY <3>1 DEF Stages
  <2>5. Refusals'
    BY <1>3 DEF EnqueueRefused, Refusals, Stages
  <2>6. Hooked'
    BY <1>3 DEF EnqueueRefused, Hooked
  <2>7. Drained'
    <3>1. UNCHANGED <<closed, drained>> /\ submit' = [submit EXCEPT ![t] = "leaving"]
      BY <1>3 DEF EnqueueRefused
    <3> QED BY <3>1 DEF Drained
  <2> QED BY <2>1, <2>2, <2>3, <2>4, <2>5, <2>6, <2>7
<1>4. ASSUME NEW t \in Task, Push(t) PROVE LocalInv'
  <2>1. TypeOK'
    BY <1>4 DEF Push
  <2>2. Line'
    <3>1. ~IsQueued(t)
      BY <1>4 DEF Push, Stages, Line
    <3>2. /\ queue' = Append(queue, t) /\ Len(queue) < Capacity
          /\ message' = [message EXCEPT ![t] = "queued"]
      BY <1>4 DEF Push
    <3>3. Once(queue) /\ ~In(t, queue)
      BY <3>1 DEF Line
    <3>4. /\ Len(queue') = Len(queue) + 1 /\ Once(queue')
          /\ \A u \in Task : In(u, queue') <=> In(u, queue) \/ u = t
      <4> HIDE DEF Once, In
      <4> QED BY <3>2, <3>3, AppendOnce
    <3> QED BY <3>2, <3>4 DEF Line
  <2>3. Sleepers'
    BY <1>4 DEF Push, Sleepers, SubmittersSleepOnlyWhenFull
  <2>4. Stages'
    BY <1>4 DEF Push, Stages
  <2>5. Refusals'
    BY <1>4 DEF Push, Refusals, Stages
  <2>6. Hooked'
    BY <1>4 DEF Push, Hooked, Stages
  <2>7. Drained'
    BY <1>4 DEF Push, Drained
  <2> QED BY <2>1, <2>2, <2>3, <2>4, <2>5, <2>6, <2>7
<1>5. ASSUME NEW t \in Task, Backpressure(t) PROVE LocalInv'
  <2>1. TypeOK'
    BY <1>5 DEF Backpressure
  <2>2. Line'
    BY <1>5 DEF Backpressure, Line
  <2>3. Sleepers'
    BY <1>5 DEF Backpressure, Sleepers, SubmittersSleepOnlyWhenFull, Line
  <2>4. Stages'
    BY <1>5 DEF Backpressure, Stages
  <2>5. Refusals'
    BY <1>5 DEF Backpressure, Refusals
  <2>6. Hooked'
    BY <1>5 DEF Backpressure, Hooked
  <2>7. Drained'
    BY <1>5 DEF Backpressure, Drained
  <2> QED BY <2>1, <2>2, <2>3, <2>4, <2>5, <2>6, <2>7
<1>6. ASSUME NEW t \in Task, SubmitTimeout(t) PROVE LocalInv'
  <2>1. TypeOK'
    BY <1>6 DEF SubmitTimeout
  <2>2. Line'
    BY <1>6 DEF SubmitTimeout, Line
  <2>3. Sleepers'
    BY <1>6 DEF SubmitTimeout, Sleepers, SubmittersSleepOnlyWhenFull
  <2>4. Stages'
    BY <1>6 DEF SubmitTimeout, Stages
  <2>5. Refusals'
    BY <1>6 DEF SubmitTimeout, Refusals
  <2>6. Hooked'
    BY <1>6 DEF SubmitTimeout, Hooked
  <2>7. Drained'
    BY <1>6 DEF SubmitTimeout, Drained
  <2> QED BY <2>1, <2>2, <2>3, <2>4, <2>5, <2>6, <2>7
<1>7. ASSUME NEW t \in Task, Recheck(t) PROVE LocalInv'
  <2>1. TypeOK'
    BY <1>7 DEF Recheck
  <2>2. Line'
    BY <1>7 DEF Recheck, Line
  <2>3. Sleepers'
    BY <1>7 DEF Recheck, Sleepers, SubmittersSleepOnlyWhenFull
  <2>4. Stages'
    BY <1>7 DEF Recheck, Stages
  <2>5. Refusals'
    BY <1>7 DEF Recheck, Refusals, Stages
  <2>6. Hooked'
    BY <1>7 DEF Recheck, Hooked
  <2>7. Drained'
    BY <1>7 DEF Recheck, Drained
  <2> QED BY <2>1, <2>2, <2>3, <2>4, <2>5, <2>6, <2>7
<1>8. ASSUME NEW t \in Task, Withdraw(t) PROVE LocalInv'
  <2>1. TypeOK'
    <3>1. /\ submit' = [submit EXCEPT ![t] = "withdrawing"]
          /\ UNCHANGED <<closed, drained, lock, rtClosed, active, outcome, pending,
                        interrupted, result, threadVars, cancelVars, hooks>>
      BY <1>8 DEF Withdraw
    <3>2. RemoveQueued(t, t)
      BY <1>8 DEF Withdraw
    <3> QED BY <3>1, <3>2, RemovalType
  <2>2. Line'
    BY <1>8, RemovalLine DEF Withdraw
  <2>3. Sleepers'
    BY <1>8 DEF Withdraw, Sleepers, SubmittersSleepOnlyWhenFull, RemoveQueued
  <2>4. Stages'
    BY <1>8 DEF Withdraw, Stages, Line, RemoveQueued
  <2>5. Refusals'
    BY <1>8 DEF Withdraw, Refusals, Line, RemoveQueued
  <2>6. Hooked'
    BY <1>8 DEF Withdraw, Hooked, Line, RemoveQueued
  <2>7. Drained'
    BY <1>8 DEF Withdraw, Drained, RemoveQueued
  <2> QED BY <2>1, <2>2, <2>3, <2>4, <2>5, <2>6, <2>7
<1>9. ASSUME NEW t \in Task, Withdrawn(t) PROVE LocalInv'
  <2>1. TypeOK'
    BY <1>9 DEF Withdrawn
  <2>2. Line'
    BY <1>9 DEF Withdrawn, Line
  <2>3. Sleepers'
    BY <1>9 DEF Withdrawn, Sleepers, SubmittersSleepOnlyWhenFull
  <2>4. Stages'
    BY <1>9 DEF Withdrawn, Stages
  <2>5. Refusals'
    BY <1>9 DEF Withdrawn, Refusals
  <2>6. Hooked'
    BY <1>9 DEF Withdrawn, Hooked
  <2>7. Drained'
    BY <1>9 DEF Withdrawn, Drained
  <2> QED BY <2>1, <2>2, <2>3, <2>4, <2>5, <2>6, <2>7
<1>10. ASSUME NEW t \in Task, EndSubmission(t) PROVE LocalInv'
  <2>1. TypeOK'
    <3>1. pending - 1 \in Nat
      BY <1>10, LeasesPositive DEF EndSubmission, Submitting
    <3> QED BY <1>10, <3>1 DEF EndSubmission
  <2>2. Line'
    BY <1>10 DEF EndSubmission, Line
  <2>3. Sleepers'
    BY <1>10 DEF EndSubmission, Sleepers, SubmittersSleepOnlyWhenFull
  <2>4. Stages'
    BY <1>10 DEF EndSubmission, Stages
  <2>5. Refusals'
    BY <1>10 DEF EndSubmission, Refusals
  <2>6. Hooked'
    BY <1>10 DEF EndSubmission, Hooked, Stages
  <2>7. Drained'
    BY <1>10 DEF EndSubmission, Drained
  <2> QED BY <2>1, <2>2, <2>3, <2>4, <2>5, <2>6, <2>7
<1>12. ASSUME NEW t \in Task, DropRun(t) PROVE LocalInv'
  <2>1. TypeOK'
    <3>1. active - 1 \in Nat
      BY <1>12, LeasesPositive DEF DropRun, Leased
    <3> QED BY <1>12, <3>1 DEF DropRun
  <2>2. Line'
    BY <1>12 DEF DropRun, Line
  <2>3. Sleepers'
    BY <1>12 DEF DropRun, Sleepers, SubmittersSleepOnlyWhenFull
  <2>4. Stages'
    BY <1>12 DEF DropRun, Stages
  <2>5. Refusals'
    BY <1>12 DEF DropRun, Refusals
  <2>6. Hooked'
    BY <1>12 DEF DropRun, Hooked
  <2>7. Drained'
    BY <1>12 DEF DropRun, Drained
  <2> QED BY <2>1, <2>2, <2>3, <2>4, <2>5, <2>6, <2>7
<1>13. ASSUME NEW t \in Task, SendCancelled(t) PROVE LocalInv'
  <2>1. TypeOK'
    BY <1>13 DEF SendCancelled
  <2>2. Line'
    BY <1>13 DEF SendCancelled, Line
  <2>3. Sleepers'
    BY <1>13 DEF SendCancelled, Sleepers, SubmittersSleepOnlyWhenFull
  <2>4. Stages'
    BY <1>13 DEF SendCancelled, Stages
  <2>5. Refusals'
    BY <1>13 DEF SendCancelled, Refusals
  <2>6. Hooked'
    BY <1>13 DEF SendCancelled, Hooked
  <2>7. Drained'
    BY <1>13 DEF SendCancelled, Drained
  <2> QED BY <2>1, <2>2, <2>3, <2>4, <2>5, <2>6, <2>7
<1>14. ASSUME NEW t \in Task, Wait(t) PROVE LocalInv'
  <2>1. TypeOK'
    BY <1>14 DEF Wait
  <2>2. Line'
    BY <1>14 DEF Wait, Line
  <2>3. Sleepers'
    BY <1>14 DEF Wait, Sleepers, SubmittersSleepOnlyWhenFull
  <2>4. Stages'
    BY <1>14 DEF Wait, Stages
  <2>5. Refusals'
    BY <1>14 DEF Wait, Refusals
  <2>6. Hooked'
    BY <1>14 DEF Wait, Hooked, Stages
  <2>7. Drained'
    BY <1>14 DEF Wait, Drained
  <2> QED BY <2>1, <2>2, <2>3, <2>4, <2>5, <2>6, <2>7
<1>15. ASSUME NEW w \in Thread, Take(w) PROVE LocalInv'
  <2>1. TypeOK'
    BY <1>15 DEF Take
  <2>2. Line'
    <3>1. /\ queue # <<>> /\ queue' = Tail(queue)
          /\ message' = [message EXCEPT ![Head(queue)] = "claimed"]
      BY <1>15 DEF Take
    <3>2. /\ Head(queue) \in Task /\ Len(queue') = Len(queue) - 1 /\ Once(queue')
          /\ \A u \in Task : In(u, queue') <=> In(u, queue) /\ u # Head(queue)
      <4>1. Once(queue)
        BY DEF Line
      <4> HIDE DEF Once, In
      <4> QED BY <3>1, <4>1, TailOnce
    <3> QED BY <3>1, <3>2 DEF Line
  <2>3. Sleepers'
    BY <1>15 DEF Take, Sleepers, SubmittersSleepOnlyWhenFull
  <2>4. Stages'
    BY <1>15 DEF Take, Stages, Line
  <2>5. Refusals'
    BY <1>15 DEF Take, Refusals, Line
  <2>6. Hooked'
    BY <1>15 DEF Take, Hooked
  <2>7. Drained'
    BY <1>15 DEF Take, Drained
  <2> QED BY <2>1, <2>2, <2>3, <2>4, <2>5, <2>6, <2>7
<1>16. ASSUME NEW w \in Thread, TakeNothing(w) PROVE LocalInv'
  <2>1. TypeOK'
    BY <1>16 DEF TakeNothing
  <2>2. Line'
    BY <1>16 DEF TakeNothing, Line
  <2>3. Sleepers'
    BY <1>16 DEF TakeNothing, Sleepers, SubmittersSleepOnlyWhenFull
  <2>4. Stages'
    BY <1>16 DEF TakeNothing, Stages
  <2>5. Refusals'
    BY <1>16 DEF TakeNothing, Refusals
  <2>6. Hooked'
    BY <1>16 DEF TakeNothing, Hooked
  <2>7. Drained'
    BY <1>16 DEF TakeNothing, Drained
  <2> QED BY <2>1, <2>2, <2>3, <2>4, <2>5, <2>6, <2>7
<1>17. ASSUME NEW w \in Thread, StartRun(w) PROVE LocalInv'
  <2>1. TypeOK'
    BY <1>17 DEF StartRun
  <2>2. Line'
    BY <1>17 DEF StartRun, Line
  <2>3. Sleepers'
    BY <1>17 DEF StartRun, Sleepers, SubmittersSleepOnlyWhenFull
  <2>4. Stages'
    BY <1>17 DEF StartRun, Stages
  <2>5. Refusals'
    BY <1>17 DEF StartRun, Refusals
  <2>6. Hooked'
    BY <1>17 DEF StartRun, Hooked
  <2>7. Drained'
    BY <1>17 DEF StartRun, Drained
  <2> QED BY <2>1, <2>2, <2>3, <2>4, <2>5, <2>6, <2>7
<1>18. ASSUME NEW w \in Thread, FinishBody(w) PROVE LocalInv'
  <2>1. TypeOK'
    <3> DEFINE t == doing[w]
    <3>1. t \in Task
      BY <1>18 DEF FinishBody, Stages
    <3>2. \E r \in Reply : result' = [result EXCEPT ![t] = r]
      BY <1>18 DEF FinishBody
    <3> QED BY <1>18, <3>1, <3>2 DEF FinishBody
  <2>2. Line'
    BY <1>18 DEF FinishBody, Line
  <2>3. Sleepers'
    BY <1>18 DEF FinishBody, Sleepers, SubmittersSleepOnlyWhenFull
  <2>4. Stages'
    BY <1>18 DEF FinishBody, Stages
  <2>5. Refusals'
    BY <1>18 DEF FinishBody, Refusals
  <2>6. Hooked'
    BY <1>18 DEF FinishBody, Hooked
  <2>7. Drained'
    BY <1>18 DEF FinishBody, Drained
  <2> QED BY <2>1, <2>2, <2>3, <2>4, <2>5, <2>6, <2>7
<1>19. ASSUME NEW w \in Thread, EndRun(w) PROVE LocalInv'
  <2>1. TypeOK'
    <3>1. doing[w] \in Leased
      BY <1>19 DEF EndRun, Leased, Stages
    <3>2. active - 1 \in Nat
      BY <3>1, LeasesPositive
    <3> QED BY <1>19, <3>2 DEF EndRun, Stages
  <2>2. Line'
    BY <1>19 DEF EndRun, Line
  <2>3. Sleepers'
    BY <1>19 DEF EndRun, Sleepers, SubmittersSleepOnlyWhenFull
  <2>4. Stages'
    BY <1>19 DEF EndRun, Stages
  <2>5. Refusals'
    BY <1>19 DEF EndRun, Refusals
  <2>6. Hooked'
    BY <1>19 DEF EndRun, Hooked
  <2>7. Drained'
    BY <1>19 DEF EndRun, Drained
  <2> QED BY <2>1, <2>2, <2>3, <2>4, <2>5, <2>6, <2>7
<1>20. ASSUME NEW w \in Thread, SpuriousWakeup(w) PROVE LocalInv'
  <2>1. TypeOK'
    BY <1>20 DEF SpuriousWakeup
  <2>2. Line'
    BY <1>20 DEF SpuriousWakeup, Line
  <2>3. Sleepers'
    BY <1>20 DEF SpuriousWakeup, Sleepers, SubmittersSleepOnlyWhenFull
  <2>4. Stages'
    BY <1>20 DEF SpuriousWakeup, Stages
  <2>5. Refusals'
    BY <1>20 DEF SpuriousWakeup, Refusals
  <2>6. Hooked'
    BY <1>20 DEF SpuriousWakeup, Hooked
  <2>7. Drained'
    BY <1>20 DEF SpuriousWakeup, Drained
  <2> QED BY <2>1, <2>2, <2>3, <2>4, <2>5, <2>6, <2>7
<1>21. ASSUME NEW k \in Token, CancelStore(k) PROVE LocalInv'
  <2>1. TypeOK'
    BY <1>21 DEF CancelStore
  <2>2. Line'
    BY <1>21 DEF CancelStore, Line
  <2>3. Sleepers'
    BY <1>21 DEF CancelStore, Sleepers, SubmittersSleepOnlyWhenFull
  <2>4. Stages'
    BY <1>21 DEF CancelStore, Stages
  <2>5. Refusals'
    BY <1>21 DEF CancelStore, Refusals
  <2>6. Hooked'
    BY <1>21 DEF CancelStore, Hooked
  <2>7. Drained'
    BY <1>21 DEF CancelStore, Drained
  <2> QED BY <2>1, <2>2, <2>3, <2>4, <2>5, <2>6, <2>7
<1>22. ASSUME NEW k \in Token, CancelCollect(k) PROVE LocalInv'
  <2>1. TypeOK'
    BY <1>22 DEF CancelCollect
  <2>2. Line'
    BY <1>22 DEF CancelCollect, Line
  <2>3. Sleepers'
    BY <1>22 DEF CancelCollect, Sleepers, SubmittersSleepOnlyWhenFull
  <2>4. Stages'
    BY <1>22 DEF CancelCollect, Stages
  <2>5. Refusals'
    BY <1>22 DEF CancelCollect, Refusals
  <2>6. Hooked'
    BY <1>22 DEF CancelCollect, Hooked
  <2>7. Drained'
    BY <1>22 DEF CancelCollect, Drained
  <2> QED BY <2>1, <2>2, <2>3, <2>4, <2>5, <2>6, <2>7
<1>23. ASSUME NEW k \in Token, CancelReturn(k) PROVE LocalInv'
  <2>1. TypeOK'
    BY <1>23 DEF CancelReturn
  <2>2. Line'
    BY <1>23 DEF CancelReturn, Line
  <2>3. Sleepers'
    BY <1>23 DEF CancelReturn, Sleepers, SubmittersSleepOnlyWhenFull
  <2>4. Stages'
    BY <1>23 DEF CancelReturn, Stages
  <2>5. Refusals'
    BY <1>23 DEF CancelReturn, Refusals
  <2>6. Hooked'
    BY <1>23 DEF CancelReturn, Hooked
  <2>7. Drained'
    BY <1>23 DEF CancelReturn, Drained
  <2> QED BY <2>1, <2>2, <2>3, <2>4, <2>5, <2>6, <2>7
<1>24. ASSUME NEW k \in Token, NEW t \in Task, CancelHook(k, t) PROVE LocalInv'
  <2>1. TypeOK'
    <3>1. /\ scan' = [scan EXCEPT ![k] = @ \ {t}]
          /\ UNCHANGED <<closed, drained, lock, rtClosed, active, submitVars, result,
                        threadVars, cancelled, cancelling, hooks>>
      BY <1>24 DEF CancelHook
    <3>2. RemoveQueued(t, k)
      BY <1>24 DEF CancelHook
    <3> QED BY <3>1, <3>2, RemovalType
  <2>2. Line'
    BY <1>24, RemovalLine DEF CancelHook
  <2>3. Sleepers'
    BY <1>24 DEF CancelHook, Sleepers, SubmittersSleepOnlyWhenFull, RemoveQueued
  <2>4. Stages'
    BY <1>24 DEF CancelHook, Stages, Line, RemoveQueued
  <2>5. Refusals'
    BY <1>24 DEF CancelHook, Refusals, Line, RemoveQueued
  <2>6. Hooked'
    BY <1>24 DEF CancelHook, Hooked, Line, RemoveQueued
  <2>7. Drained'
    BY <1>24 DEF CancelHook, Drained, RemoveQueued
  <2> QED BY <2>1, <2>2, <2>3, <2>4, <2>5, <2>6, <2>7
<1>25. CASE CloseRuntime
  <2>1. TypeOK'
    BY <1>25 DEF CloseRuntime
  <2>2. Line'
    BY <1>25 DEF CloseRuntime, Line
  <2>3. Sleepers'
    BY <1>25 DEF CloseRuntime, Sleepers, SubmittersSleepOnlyWhenFull
  <2>4. Stages'
    BY <1>25 DEF CloseRuntime, Stages
  <2>5. Refusals'
    BY <1>25 DEF CloseRuntime, Refusals
  <2>6. Hooked'
    BY <1>25 DEF CloseRuntime, Hooked
  <2>7. Drained'
    BY <1>25 DEF CloseRuntime, Drained
  <2> QED BY <2>1, <2>2, <2>3, <2>4, <2>5, <2>6, <2>7
<1>26. CASE Close
  <2>1. TypeOK'
    BY <1>26 DEF Close
  <2>2. Line'
    BY <1>26 DEF Close, Line
  <2>3. Sleepers'
    BY <1>26 DEF Close, Sleepers, SubmittersSleepOnlyWhenFull
  <2>4. Stages'
    BY <1>26 DEF Close, Stages
  <2>5. Refusals'
    BY <1>26 DEF Close, Refusals
  <2>6. Hooked'
    BY <1>26 DEF Close, Hooked
  <2>7. Drained'
    BY <1>26 DEF Close, Drained
  <2> QED BY <2>1, <2>2, <2>3, <2>4, <2>5, <2>6, <2>7
<1>27. CASE SubmissionsDrained
  <2>1. TypeOK'
    BY <1>27 DEF SubmissionsDrained
  <2>2. Line'
    BY <1>27 DEF SubmissionsDrained, Line
  <2>3. Sleepers'
    BY <1>27 DEF SubmissionsDrained, Sleepers, SubmittersSleepOnlyWhenFull
  <2>4. Stages'
    BY <1>27 DEF SubmissionsDrained, Stages
  <2>5. Refusals'
    BY <1>27 DEF SubmissionsDrained, Refusals
  <2>6. Hooked'
    BY <1>27 DEF SubmissionsDrained, Hooked
  <2>7. Drained'
    <3>1. pending = Cardinality(Submitting) /\ IsFiniteSet(Submitting)
      BY FS_Subset DEF LeasesCounted, Submitting
    <3>2. Submitting = {}
      BY <1>27, <3>1, FS_EmptySet DEF SubmissionsDrained
    <3> QED BY <1>27, <3>2 DEF SubmissionsDrained, Submitting, Drained
  <2> QED BY <2>1, <2>2, <2>3, <2>4, <2>5, <2>6, <2>7
<1>28. CASE StartHelpers
  <2>1. TypeOK'
    BY <1>28 DEF StartHelpers
  <2>2. Line'
    BY <1>28 DEF StartHelpers, Line
  <2>3. Sleepers'
    BY <1>28 DEF StartHelpers, Sleepers, SubmittersSleepOnlyWhenFull
  <2>4. Stages'
    BY <1>28 DEF StartHelpers, Stages
  <2>5. Refusals'
    BY <1>28 DEF StartHelpers, Refusals
  <2>6. Hooked'
    BY <1>28 DEF StartHelpers, Hooked
  <2>7. Drained'
    BY <1>28 DEF StartHelpers, Drained
  <2> QED BY <2>1, <2>2, <2>3, <2>4, <2>5, <2>6, <2>7
<1>29. CASE UNCHANGED vars
  BY <1>29 DEF vars, Line, Sleepers, SubmittersSleepOnlyWhenFull, Stages, Refusals, Hooked,
               Drained
<1> QED
  BY <1>1, <1>2, <1>3, <1>4, <1>5, <1>6, <1>7, <1>8, <1>9, <1>10, <1>12, <1>13,
     <1>14, <1>15, <1>16, <1>17, <1>18, <1>19, <1>20, <1>21, <1>22, <1>23, <1>24, <1>25, <1>26, <1>27, <1>28, <1>29
  DEF Next, PoolStep, SubmitStep, RemoveStep, ThreadStep, CancelStep

-----------------------------------------------------------------------------
(* The two counters.                                                        *)

ActiveExact == active = Cardinality(Leased)
PendingExact == pending = Cardinality(Submitting)

\* RuntimeInner.active follows the activity leases: one more with
\* begin_activity, one less by refusal, by the end of a run, by a removal.
LEMMA StepActive ==
  ASSUME PoolInv, [Next]_vars
  PROVE  ActiveExact'
<1> USE DEF PoolInv, TypeOK, queueVars, submitVars, cancelVars, threadVars
<1>1. ASSUME Leased' = Leased, active' = active PROVE ActiveExact'
  BY <1>1 DEF LeasesCounted, ActiveExact
<1>2. ASSUME NEW t \in Task, t \notin Leased, Leased' = Leased \cup {t}, active' = active + 1
      PROVE  ActiveExact'
  BY <1>2, CountedFinite, FS_AddElement DEF LeasesCounted, ActiveExact
<1>3. ASSUME NEW t \in Leased, Leased' = Leased \ {t}, active' = active - 1
      PROVE  ActiveExact'
  BY <1>3, CountedFinite, FS_RemoveElement DEF LeasesCounted, ActiveExact
<1>4. ASSUME NEW t \in Task, BeginActivity(t) PROVE ActiveExact'
  <2>1. CASE rtClosed
    <3>1. Leased' = Leased /\ active' = active
      BY <1>4, <2>1 DEF BeginActivity, Leased
    <3> QED BY <1>1, <3>1
  <2>2. CASE ~rtClosed
    <3>1. t \notin Leased /\ Leased' = Leased \cup {t} /\ active' = active + 1
      BY <1>4, <2>2 DEF BeginActivity, Leased, Stages
    <3> QED BY <1>2, <3>1
  <2> QED BY <2>1, <2>2
<1>5. ASSUME NEW t \in Task, EnqueueRefused(t) PROVE ActiveExact'
  <2>1. /\ submit[t] = "enqueue" /\ submit' = [submit EXCEPT ![t] = "leaving"]
        /\ message' = [message EXCEPT ![t] = "finished"] /\ active' = active - 1
    BY <1>5 DEF EnqueueRefused, InLoop, Refuse
  <2>2. t \in Leased /\ Leased' = Leased \ {t}
    BY <2>1 DEF Leased
  <2> QED BY <1>3, <2>1, <2>2
<1>6. ASSUME NEW t \in Task, DropRun(t) PROVE ActiveExact'
  <2>1. t \in Leased /\ Leased' = Leased \ {t} /\ active' = active - 1
    BY <1>6 DEF DropRun, Leased, Stages
  <2> QED BY <1>3, <2>1
<1>7. ASSUME NEW w \in Thread, EndRun(w) PROVE ActiveExact'
  <2>1. doing[w] \in Leased /\ Leased' = Leased \ {doing[w]} /\ active' = active - 1
    BY <1>7 DEF EndRun, Leased, Stages
  <2> QED BY <1>3, <2>1
<1>8. ASSUME NEW t \in Task, Push(t) PROVE ActiveExact'
  <2>1. Leased' = Leased /\ active' = active
    BY <1>8 DEF Push, InLoop, Leased
  <2> QED BY <1>1, <2>1
<1>9. ASSUME NEW t \in Task, BeginSubmission(t) \/ Recheck(t) \/ Withdrawn(t) \/ EndSubmission(t)
      PROVE  ActiveExact'
  <2>1. Leased' = Leased /\ active' = active
    BY <1>9 DEF BeginSubmission, Recheck, Withdrawn, EndSubmission, Leased
  <2> QED BY <1>1, <2>1
<1>10. ASSUME NEW t \in Task, NEW by, RemoveQueued(t, by), active' = active,
              submit' = submit \/ (/\ submit[t] = "withdraw"
                                  /\ submit' = [submit EXCEPT ![t] = "withdrawing"])
       PROVE  ActiveExact'
  <2>1. UNCHANGED message \/ (message[t] = "queued" /\ message' = [message EXCEPT ![t] = "removed"])
    BY <1>10 DEF RemoveQueued, Line
  <2>2. Leased' = Leased
    BY <1>10, <2>1 DEF Leased
  <2> QED BY <1>1, <1>10, <2>2
<1>11. ASSUME NEW t \in Task, Withdraw(t) PROVE ActiveExact'
  BY <1>10, <1>11 DEF Withdraw
<1>12. ASSUME NEW k \in Token, NEW t \in Task, CancelHook(k, t) PROVE ActiveExact'
  BY <1>10, <1>12 DEF CancelHook
<1>13. ASSUME NEW w \in Thread, Take(w) PROVE ActiveExact'
  <2>1. Head(queue) \in Task /\ message[Head(queue)] = "queued"
    BY <1>13 DEF Take, Line, IsQueued
  <2>2. Leased' = Leased /\ active' = active
    BY <1>13, <2>1 DEF Take, Leased
  <2> QED BY <1>1, <2>2
<1>14. ASSUME NEW w \in Thread, StartRun(w) \/ FinishBody(w) PROVE ActiveExact'
  <2>1. Leased' = Leased /\ active' = active
    BY <1>14 DEF StartRun, FinishBody, Leased, Stages
  <2> QED BY <1>1, <2>1
<1>15. ASSUME NEW t \in Task, SendCancelled(t) PROVE ActiveExact'
  <2>1. Leased' = Leased /\ active' = active
    BY <1>15 DEF SendCancelled, Leased
  <2> QED BY <1>1, <2>1
<1>16. CASE UNCHANGED <<submit, message, active>>
  BY <1>1, <1>16 DEF Leased
<1>17. ASSUME NEW t \in Task, Backpressure(t) \/ SubmitTimeout(t) \/ Wait(t)
       PROVE  UNCHANGED <<submit, message, active>>
  BY <1>17 DEF Backpressure, SubmitTimeout, Wait
<1>18. ASSUME NEW w \in Thread, TakeNothing(w) \/ SpuriousWakeup(w)
       PROVE  UNCHANGED <<submit, message, active>>
  BY <1>18 DEF TakeNothing, SpuriousWakeup
<1>19. ASSUME NEW k \in Token, CancelStore(k) \/ CancelCollect(k) \/ CancelReturn(k)
       PROVE  UNCHANGED <<submit, message, active>>
  BY <1>19 DEF CancelStore, CancelCollect, CancelReturn
<1>20. CASE CloseRuntime \/ Close \/ SubmissionsDrained \/ StartHelpers
  BY <1>16, <1>20 DEF CloseRuntime, Close, SubmissionsDrained, StartHelpers
<1>21. CASE UNCHANGED vars
  BY <1>16, <1>21 DEF vars
<1> QED
  BY <1>4, <1>5, <1>6, <1>7, <1>8, <1>9, <1>11, <1>12, <1>13, <1>14, <1>15, <1>16, <1>17,
     <1>18, <1>19, <1>20, <1>21
  DEF Next, PoolStep, SubmitStep, RemoveStep, ThreadStep, CancelStep

\* PoolInner.pending_submissions follows the submission leases.
LEMMA StepPending ==
  ASSUME PoolInv, [Next]_vars
  PROVE  PendingExact'
<1> USE DEF PoolInv, TypeOK, queueVars, submitVars, cancelVars, threadVars
<1>1. ASSUME Submitting' = Submitting, pending' = pending PROVE PendingExact'
  BY <1>1 DEF LeasesCounted, PendingExact
<1>2. ASSUME NEW t \in Task, BeginSubmission(t) PROVE PendingExact'
  <2>1. /\ t \notin Submitting /\ Submitting' = Submitting \cup {t}
        /\ pending' = pending + 1
    BY <1>2 DEF BeginSubmission, Submitting
  <2> QED BY <2>1, CountedFinite, FS_AddElement DEF LeasesCounted, PendingExact
<1>3. ASSUME NEW t \in Task, EndSubmission(t) PROVE PendingExact'
  <2>1. /\ t \in Submitting /\ Submitting' = Submitting \ {t}
        /\ pending' = pending - 1
    BY <1>3 DEF EndSubmission, Submitting
  <2> QED BY <2>1, CountedFinite, FS_RemoveElement DEF LeasesCounted, PendingExact
<1>4. ASSUME NEW t \in Task, BeginActivity(t) \/ EnqueueRefused(t) \/ Push(t) \/ Recheck(t)
                             \/ Withdraw(t) \/ Withdrawn(t)
      PROVE  PendingExact'
  <2>1. /\ pending' = pending
        /\ \E from, to \in SubmitState :
             /\ submit[t] = from /\ submit' = [submit EXCEPT ![t] = to]
             /\ from \in {"idle", "active", "returned"} <=> to \in {"idle", "active", "returned"}
    BY <1>4 DEF BeginActivity, EnqueueRefused, InLoop, Refuse, Push, Recheck, Withdraw,
                Withdrawn, SubmitState
  <2>2. Submitting' = Submitting
    BY <2>1 DEF Submitting
  <2> QED BY <1>1, <2>1, <2>2
<1>5. CASE UNCHANGED <<submit, pending>>
  BY <1>1, <1>5 DEF Submitting
<1>6. ASSUME NEW t \in Task, Backpressure(t) \/ SubmitTimeout(t) \/ Wait(t)
                             \/ DropRun(t) \/ SendCancelled(t)
      PROVE  UNCHANGED <<submit, pending>>
  BY <1>6 DEF Backpressure, SubmitTimeout, Wait, DropRun, SendCancelled
<1>7. ASSUME NEW w \in Thread, ThreadStep(w) \/ SpuriousWakeup(w)
      PROVE  UNCHANGED <<submit, pending>>
  BY <1>7 DEF ThreadStep, Take, TakeNothing, StartRun, FinishBody, EndRun, SpuriousWakeup
<1>8. ASSUME NEW k \in Token, CancelStore(k) \/ CancelStep(k)
      PROVE  UNCHANGED <<submit, pending>>
  BY <1>8 DEF CancelStore, CancelStep, CancelCollect, CancelReturn, CancelHook
<1>9. CASE CloseRuntime \/ Close \/ SubmissionsDrained \/ StartHelpers
  BY <1>5, <1>9 DEF CloseRuntime, Close, SubmissionsDrained, StartHelpers
<1>10. CASE UNCHANGED vars
  BY <1>5, <1>10 DEF vars
<1> QED
  BY <1>2, <1>3, <1>4, <1>5, <1>6, <1>7, <1>8, <1>9, <1>10
  DEF Next, PoolStep, SubmitStep, RemoveStep

-----------------------------------------------------------------------------
(* NoLostWakeup.                                                            *)

AwakeWorkers == {w \in Worker : Awake(w)}

\* A push into a pool with a sleeping worker wakes a worker: the queue is not
\* full, so no submitter sleeps that could take the notification instead.
LEMMA StepWakeup == PoolInv /\ [Next]_vars => NoLostWakeup'
<1> USE PoolAssumption
    DEF PoolAssumption, PoolInv, TypeOK, queueVars, submitVars, cancelVars, threadVars
<1> SUFFICES ASSUME PoolInv, [Next]_vars PROVE NoLostWakeup'
  OBVIOUS
<1>1. IsFiniteSet(AwakeWorkers) /\ IsFiniteSet(AwakeWorkers') /\ Cardinality(AwakeWorkers) \in Nat
  <2>1. AwakeWorkers \subseteq Worker /\ AwakeWorkers' \subseteq Worker
    BY DEF AwakeWorkers
  <2> QED BY <2>1, FS_Subset, FS_CardinalityType
<1>2. CASE parked' = {}
  BY <1>2 DEF NoLostWakeup
<1>3. ASSUME UNCHANGED queue, parked' \cap Worker \subseteq parked,
             AwakeWorkers \subseteq AwakeWorkers'
      PROVE  NoLostWakeup'
  <2>1. Cardinality(AwakeWorkers) <= Cardinality(AwakeWorkers') /\ Cardinality(AwakeWorkers') \in Nat
    BY <1>1, <1>3, FS_Subset, FS_CardinalityType
  <2>2. Len(queue) \in Nat
    OBVIOUS
  <2> QED BY <1>1, <1>3, <2>1, <2>2 DEF NoLostWakeup, AwakeWorkers
<1>4. ASSUME NEW t \in Task, Push(t) PROVE NoLostWakeup'
  <2> SUFFICES ASSUME parked' \cap Worker # {} PROVE (Len(queue) <= Cardinality(AwakeWorkers))'
    BY DEF NoLostWakeup, AwakeWorkers
  <2>1. Len(queue) < Capacity /\ Len(queue) \in Nat /\ Len(queue') = Len(queue) + 1 /\ UNCHANGED thread
    BY <1>4 DEF Push
  <2>2. parked \cap Task = {}
    BY <2>1 DEF Sleepers, SubmittersSleepOnlyWhenFull
  <2>3. PICK p \in parked : parked' = parked \ {p}
    BY <1>4 DEF Push, NotifyOne
  <2>4. p \in Worker /\ thread[p] = "taking" /\ p \notin AwakeWorkers
    BY <2>2, <2>3 DEF Sleepers, AwakeWorkers, Awake
  <2>5. AwakeWorkers' = AwakeWorkers \cup {p}
    BY <2>1, <2>3, <2>4 DEF AwakeWorkers, Awake
  <2>6. Cardinality(AwakeWorkers') = Cardinality(AwakeWorkers) + 1
    BY <1>1, <2>4, <2>5, FS_AddElement
  <2>7. Len(queue) <= Cardinality(AwakeWorkers)
    BY <2>3 DEF NoLostWakeup, AwakeWorkers
  <2> QED BY <1>1, <2>1, <2>6, <2>7
<1>5. ASSUME NEW t \in Task, Backpressure(t) \/ SubmitTimeout(t) PROVE NoLostWakeup'
  <2>1. UNCHANGED queue /\ parked' \cap Worker \subseteq parked
        /\ AwakeWorkers \subseteq AwakeWorkers'
    BY <1>5 DEF Backpressure, SubmitTimeout, AwakeWorkers, Awake
  <2> QED BY <1>3, <2>1
<1>6. ASSUME NEW t \in Task, NEW by, RemoveQueued(t, by), UNCHANGED thread PROVE NoLostWakeup'
  <2>1. CASE UNCHANGED <<queue, parked>>
    <3>1. AwakeWorkers' = AwakeWorkers
      BY <1>6, <2>1 DEF AwakeWorkers, Awake
    <3> QED BY <1>3, <2>1, <3>1
  <2> QED BY <1>2, <1>6, <2>1 DEF RemoveQueued, NotifyAll
<1>7. ASSUME NEW t \in Task, Withdraw(t) PROVE NoLostWakeup'
  BY <1>6, <1>7 DEF Withdraw
<1>8. ASSUME NEW k \in Token, NEW t \in Task, CancelHook(k, t) PROVE NoLostWakeup'
  BY <1>6, <1>8 DEF CancelHook
<1>9. ASSUME NEW w \in Thread, Take(w) PROVE NoLostWakeup'
  BY <1>2, <1>9 DEF Take, NotifyAll
<1>10. ASSUME NEW w \in Thread, TakeNothing(w) PROVE NoLostWakeup'
  <2>1. Len(queue') = 0
    BY <1>10 DEF TakeNothing
  <2>2. Cardinality(AwakeWorkers') \in Nat
    BY <1>1, FS_CardinalityType
  <2> QED BY <2>1, <2>2 DEF NoLostWakeup, AwakeWorkers
<1>11. ASSUME NEW w \in Thread, StartRun(w) \/ FinishBody(w) \/ EndRun(w) \/ SpuriousWakeup(w)
       PROVE  NoLostWakeup'
  <2>1. UNCHANGED queue /\ parked' \subseteq parked
    BY <1>11 DEF StartRun, FinishBody, EndRun, SpuriousWakeup
  <2>2. AwakeWorkers \subseteq AwakeWorkers'
    BY <1>11, <2>1 DEF StartRun, FinishBody, EndRun, SpuriousWakeup, AwakeWorkers, Awake, Thread
  <2> QED BY <1>3, <2>1, <2>2
<1>12. CASE Close
  BY <1>2, <1>12 DEF Close, NotifyAll
<1>13. CASE StartHelpers
  <2>1. UNCHANGED <<queue, parked>> /\ AwakeWorkers' = AwakeWorkers
    BY <1>13 DEF StartHelpers, AwakeWorkers, Awake, Thread
  <2> QED BY <1>3, <2>1
<1>14. CASE UNCHANGED <<queue, parked, thread>>
  BY <1>14 DEF NoLostWakeup, Awake
<1>15. ASSUME NEW t \in Task, BeginActivity(t) \/ BeginSubmission(t) \/ EnqueueRefused(t) \/ Recheck(t)
                              \/ Withdrawn(t) \/ EndSubmission(t)
                              \/ RemoveStep(t) \/ Wait(t)
       PROVE  UNCHANGED <<queue, parked, thread>>
  BY <1>15 DEF BeginActivity, BeginSubmission, EnqueueRefused, Refuse, Recheck, Withdrawn,
               EndSubmission, RemoveStep, DropRun, SendCancelled, Wait
<1>16. ASSUME NEW k \in Token, CancelStore(k) \/ CancelCollect(k) \/ CancelReturn(k)
       PROVE  UNCHANGED <<queue, parked, thread>>
  BY <1>16 DEF CancelStore, CancelCollect, CancelReturn
<1>17. CASE CloseRuntime \/ SubmissionsDrained
  BY <1>14, <1>17 DEF CloseRuntime, SubmissionsDrained
<1>18. CASE UNCHANGED vars
  BY <1>14, <1>18 DEF vars
<1> QED
  BY <1>4, <1>5, <1>7, <1>8, <1>9, <1>10, <1>11, <1>12, <1>13, <1>14, <1>15, <1>16, <1>17,
     <1>18
  DEF Next, PoolStep, SubmitStep, ThreadStep, CancelStep

-----------------------------------------------------------------------------
(* PoolInv is inductive, and what follows from it.                          *)

\* All parts together.
LEMMA StepPool == PoolInv /\ [Next]_vars => PoolInv'
<1>1. PoolInv /\ [Next]_vars => LeasesCounted'
  BY StepActive, StepPending DEF LeasesCounted, ActiveExact, PendingExact
<1> QED BY <1>1, StepLocal, StepWakeup DEF PoolInv, LocalInv

\* PoolInv holds in every reachable state.
LEMMA Inductive == Spec => []PoolInv
BY InitPool, StepPool, PTL DEF Spec

\* Every variable keeps its type.
THEOREM TypeCorrect == Spec => []TypeOK
<1>1. PoolInv => TypeOK
  BY DEF PoolInv
<1> QED BY <1>1, Inductive, PTL

\* `active` and `pending_submissions` count the live leases exactly, so a close
\* that waits for them waits neither too short nor for ever.
THEOREM CountersExact == Spec => []LeasesCounted
<1>1. PoolInv => LeasesCounted
  BY DEF PoolInv
<1> QED BY <1>1, Inductive, PTL

\* A submitter sleeps on the shared condition variable only while the pool is
\* open and its queue full.
THEOREM SubmittersSleepRightly == Spec => []SubmittersSleepOnlyWhenFull
<1>1. PoolInv => SubmittersSleepOnlyWhenFull
  BY DEF PoolInv, Sleepers
<1> QED BY <1>1, Inductive, PTL

\* No worker sleeps through a message: notify_one after a push is enough, for
\* any number of workers and submitters on the one condition variable.
THEOREM WakeupsSuffice == Spec => []NoLostWakeup
<1>1. PoolInv => NoLostWakeup
  BY DEF PoolInv
<1> QED BY <1>1, Inductive, PTL

\* When cancel() and submit have returned, a cancelled task is not in the queue:
\* flag, hook registration, insertion and recheck leave no gap.
THEOREM CancelledNotStranded == Spec => []NoStrandedCancelled
<1>1. PoolInv => NoStrandedCancelled
  <2> SUFFICES ASSUME PoolInv, NEW t \in Task, submit[t] = "returned",
                      cancelling[TokenOf[t]] = "done", message[t] = "queued"
               PROVE  FALSE
    BY DEF NoStrandedCancelled, PoolInv, Line
  <2>1. TokenOf[t] \in Token
    BY PoolAssumption DEF PoolAssumption
  <2> QED BY <2>1 DEF PoolInv, Hooked
<1> QED BY <1>1, Inductive, PTL

\* A refused submission never has its function called.
THEOREM RefusedStaysOut == Spec => []RefusedNeverRuns
<1>1. PoolInv => RefusedNeverRuns
  BY DEF PoolInv, Refusals, Refused, RefusedNeverRuns
<1> QED BY <1>1, Inductive, PTL

\* After a closer has seen no pending submission, the queue only shrinks and no
\* submission is accepted any more.
THEOREM DrainIsFinal == Spec => DrainedQueueOnlyShrinks
<1> DEFINE Shrinks == drained => /\ Len(queue') <= Len(queue)
                                 /\ \A t \in Task : outcome'[t] = "ok" => outcome[t] = "ok"
<1>1. ASSUME PoolInv, Next PROVE Shrinks
  <2> USE <1>1 DEF PoolInv, TypeOK, Refuse, NotifyAll, queueVars, submitVars, cancelVars, threadVars
  <2> SUFFICES ASSUME drained PROVE Shrinks
    OBVIOUS
  <2>1. closed /\ \A t \in Task : submit[t] # "pushed"
    BY DEF Drained
  <2>2. Len(queue) \in Nat
    OBVIOUS
  <2>3. CASE UNCHANGED <<queue, outcome>>
    BY <2>2, <2>3
  <2>4. ASSUME NEW t \in Task, NEW code \in Refused, outcome' = [outcome EXCEPT ![t] = code],
               UNCHANGED queue
        PROVE  Shrinks
    BY <2>2, <2>4 DEF Refused
  <2>5. ASSUME NEW t \in Task, BeginActivity(t) \/ EnqueueRefused(t) \/ Withdrawn(t)
        PROVE  Shrinks
    <3>1. UNCHANGED <<queue, outcome>>
             \/ (UNCHANGED queue /\ \E code \in Refused : outcome' = [outcome EXCEPT ![t] = code])
      BY <2>5 DEF BeginActivity, EnqueueRefused, Withdrawn, Refused
    <3> QED BY <2>3, <2>4, <3>1
  <2>6. ASSUME NEW t \in Task, Push(t) PROVE FALSE
    BY <2>1, <2>6 DEF Push, Admitted
  <2>7. ASSUME NEW t \in Task, Recheck(t) PROVE FALSE
    BY <2>1, <2>7 DEF Recheck
  <2>8. ASSUME NEW t \in Task, NEW by, RemoveQueued(t, by), UNCHANGED outcome PROVE Shrinks
    <3>1. CASE IsQueued(t)
      <4>1. PICK i \in DOMAIN queue : queue' = RemoveAt(queue, i)
        BY <2>8, <3>1 DEF RemoveQueued
      <4>2. Len(queue') = Len(queue) - 1
        BY <4>1, RemoveOnce DEF Line, Once
      <4> QED BY <2>2, <2>8, <4>2
    <3> QED BY <2>3, <2>8, <3>1 DEF RemoveQueued
  <2>9. ASSUME NEW t \in Task, Withdraw(t) PROVE Shrinks
    BY <2>8, <2>9 DEF Withdraw
  <2>10. ASSUME NEW k \in Token, NEW t \in Task, CancelHook(k, t) PROVE Shrinks
    BY <2>8, <2>10 DEF CancelHook
  <2>11. ASSUME NEW w \in Thread, Take(w) PROVE Shrinks
    <3>1. queue # <<>> /\ queue' = Tail(queue) /\ UNCHANGED outcome
      BY <2>11 DEF Take
    <3> QED BY <2>2, <3>1
  <2>12. ASSUME NEW t \in Task, BeginSubmission(t) \/ Backpressure(t) \/ SubmitTimeout(t)
                                \/ EndSubmission(t) \/ RemoveStep(t) \/ Wait(t)
         PROVE  UNCHANGED <<queue, outcome>>
    BY <2>12 DEF BeginSubmission, Backpressure, SubmitTimeout, EndSubmission,
                 RemoveStep, DropRun, SendCancelled, Wait
  <2>13. ASSUME NEW w \in Thread, TakeNothing(w) \/ StartRun(w) \/ FinishBody(w) \/ EndRun(w)
                                  \/ SpuriousWakeup(w)
         PROVE  UNCHANGED <<queue, outcome>>
    BY <2>13 DEF TakeNothing, StartRun, FinishBody, EndRun, SpuriousWakeup
  <2>14. ASSUME NEW k \in Token, CancelStore(k) \/ CancelCollect(k) \/ CancelReturn(k)
         PROVE  UNCHANGED <<queue, outcome>>
    BY <2>14 DEF CancelStore, CancelCollect, CancelReturn
  <2>15. CASE CloseRuntime \/ Close \/ SubmissionsDrained \/ StartHelpers
    BY <2>3, <2>15 DEF CloseRuntime, Close, SubmissionsDrained, StartHelpers
  <2> HIDE DEF Shrinks
  <2> QED
    BY <2>3, <2>5, <2>6, <2>7, <2>9, <2>10, <2>11, <2>12, <2>13, <2>14, <2>15
    DEF Next, PoolStep, SubmitStep, ThreadStep, CancelStep
<1>2. PoolInv /\ [Next]_vars => [Shrinks]_vars
  BY <1>1
<1>3. Spec => [][Shrinks]_vars
  BY <1>2, Inductive, PTL DEF Spec
<1> QED BY <1>3 DEF DrainedQueueOnlyShrinks

-----------------------------------------------------------------------------
(* The pool implements PoolContract. A step that answers a task, and only    *)
(* such a step, fills its result slot, once.                                 *)

Phases == [t \in Task |-> PhaseOf(t)]
Mapped == <<queue, closed, Phases, result>>
Implemented == Contract!Next \/ UNCHANGED Mapped

\* A step that moves one message moves one phase.
LEMMA PhaseMoves ==
  ASSUME TypeOK, NEW t \in Task, NEW m \in MessageState,
         message' = [message EXCEPT ![t] = m],
         \A u \in Task \ {t} : result'[u] = result[u]
  PROVE  Phases' = [Phases EXCEPT ![t] = PhaseOf(t)']
<1>1. \A u \in Task \ {t} : message'[u] = message[u]
  BY DEF TypeOK
<1>2. \A u \in Task \ {t} : PhaseOf(u)' = PhaseOf(u)
  BY <1>1 DEF PhaseOf
<1> QED BY <1>2 DEF Phases

\* A step that changes neither a message nor a result moves no phase.
LEMMA PhasesStay ==
  ASSUME UNCHANGED <<message, result>>
  PROVE  Phases' = Phases
BY DEF Phases, PhaseOf

\* Every step of the pool is a step of the contract, or none.
LEMMA StepContract ==
  ASSUME PoolInv, Next
  PROVE  Implemented
<1> USE DEF PoolInv, queueVars, submitVars, cancelVars, threadVars
<1>1. CASE UNCHANGED <<queue, closed, message, result>>
  BY <1>1, PhasesStay DEF Implemented, Mapped
<1>2. ASSUME NEW t \in Task, EnqueueRefused(t) PROVE Implemented
  <2>1. /\ message[t] = "unsent" /\ result[t] = "none"
        /\ message' = [message EXCEPT ![t] = "finished"]
        /\ UNCHANGED <<queue, closed, result>>
    BY <1>2 DEF EnqueueRefused, InLoop, Refuse, Stages
  <2>2. PhaseOf(t) = "new" /\ PhaseOf(t)' = "new"
    BY <2>1 DEF PhaseOf, TypeOK
  <2>3. Phases' = [Phases EXCEPT ![t] = "new"]
    BY <2>1, <2>2, PhaseMoves DEF MessageState
  <2>4. Phases' = Phases
    BY <2>2, <2>3 DEF Phases
  <2> QED BY <2>1, <2>4 DEF Implemented, Mapped
<1>3. ASSUME NEW t \in Task, Push(t) PROVE Implemented
  <2>1. /\ message[t] = "unsent"
        /\ message' = [message EXCEPT ![t] = "queued"]
        /\ UNCHANGED <<closed, result>>
        /\ ~closed /\ Len(queue) < Capacity /\ queue' = Append(queue, t)
    BY <1>3 DEF Push, InLoop, Admitted, Stages
  <2>2. PhaseOf(t) = "new" /\ PhaseOf(t)' = "waiting"
    BY <2>1 DEF PhaseOf, TypeOK
  <2>3. Phases' = [Phases EXCEPT ![t] = "waiting"] /\ Phases[t] = "new"
    BY <2>1, <2>2, PhaseMoves DEF MessageState, Phases
  <2>4. Contract!Admit(t)
    BY <2>1, <2>3 DEF Contract!Admit, Contract!Move, Phases
  <2> QED BY <2>4 DEF Implemented, Contract!Next
<1>4. ASSUME NEW t \in Task, NEW by, RemoveQueued(t, by), UNCHANGED <<closed, result>>
      PROVE  Implemented
  <2>1. CASE IsQueued(t)
    <3>1. message[t] = "queued" /\ message' = [message EXCEPT ![t] = "removed"]
      BY <1>4, <2>1 DEF RemoveQueued, Line
    <3>2. PhaseOf(t) = "waiting" /\ PhaseOf(t)' = "revoked"
      BY <3>1 DEF PhaseOf, TypeOK
    <3>3. Phases' = [Phases EXCEPT ![t] = "revoked"] /\ Phases[t] = "waiting"
      BY <1>4, <3>1, <3>2, PhaseMoves DEF MessageState, Phases
    <3>4. \E i \in DOMAIN queue : queue[i] = t /\ queue' = RemoveAt(queue, i)
      BY <1>4, <2>1 DEF RemoveQueued
    <3>5. Contract!Revoke(t)
      BY <1>4, <3>3, <3>4 DEF Contract!Revoke, Contract!Move, Phases, RemoveAt
    <3> QED BY <3>5 DEF Implemented, Contract!Next
  <2>2. CASE ~IsQueued(t)
    BY <1>1, <1>4, <2>2 DEF RemoveQueued
  <2> QED BY <2>1, <2>2
<1>5. ASSUME NEW w \in Thread, Take(w) PROVE Implemented
  <2>0. PICK t \in Task : t = Head(queue)
    BY <1>5 DEF Take, TypeOK
  <2>1. /\ queue # <<>> /\ queue' = Tail(queue)
        /\ message' = [message EXCEPT ![t] = "claimed"]
        /\ UNCHANGED <<closed, result>>
    BY <1>5, <2>0 DEF Take
  <2>2. t \in Task /\ message[t] = "queued"
    BY <2>0, <2>1 DEF TypeOK, Line, IsQueued
  <2>3. PhaseOf(t) = "waiting" /\ PhaseOf(t)' = "running"
    BY <2>1, <2>2 DEF PhaseOf, TypeOK
  <2>4. Phases' = [Phases EXCEPT ![t] = "running"] /\ Phases[t] = "waiting"
    BY <2>1, <2>2, <2>3, PhaseMoves DEF MessageState, Phases
  <2>5. Contract!Start(t)
    BY <2>0, <2>1, <2>4 DEF Contract!Start, Contract!Move, Phases
  <2> QED BY <2>2, <2>5 DEF Implemented, Contract!Next
<1>6. ASSUME NEW w \in Thread, StartRun(w) PROVE Implemented
  <2>0. PICK t \in Task : t = doing[w]
    BY <1>6 DEF StartRun, Stages
  <2>1. t \in Task /\ message[t] = "claimed" /\ UNCHANGED <<queue, closed>>
    BY <1>6, <2>0 DEF StartRun, Stages
  <2>2. CASE cancelled[TokenOf[t]]
    <3>1. /\ message' = [message EXCEPT ![t] = "replied"]
          /\ result' = [result EXCEPT ![t] = "cancelled"]
      BY <1>6, <2>0, <2>2 DEF StartRun
    <3>2. PhaseOf(t) = "running" /\ PhaseOf(t)' = "answered"
      BY <2>1, <3>1 DEF PhaseOf, TypeOK
    <3>3. Phases' = [Phases EXCEPT ![t] = "answered"] /\ Phases[t] = "running"
      BY <2>1, <3>1, <3>2, PhaseMoves DEF MessageState, Phases, TypeOK
    <3>4. Contract!Answer(t, "cancelled")
      BY <2>1, <3>1, <3>3 DEF Contract!Answer, Contract!Move, Phases
    <3> QED BY <2>1, <3>4 DEF Implemented, Contract!Next
  <2>3. CASE ~cancelled[TokenOf[t]]
    <3>1. message' = [message EXCEPT ![t] = "body"] /\ UNCHANGED result
      BY <1>6, <2>0, <2>3 DEF StartRun
    <3>2. PhaseOf(t) = "running" /\ PhaseOf(t)' = "running"
      BY <2>1, <3>1 DEF PhaseOf, TypeOK
    <3>3. Phases' = [Phases EXCEPT ![t] = "running"]
      BY <2>1, <3>1, <3>2, PhaseMoves DEF MessageState
    <3>4. Phases' = Phases
      BY <2>1, <3>2, <3>3 DEF Phases
    <3> QED BY <2>1, <3>1, <3>4 DEF Implemented, Mapped
  <2> QED BY <2>2, <2>3
<1>7. ASSUME NEW w \in Thread, FinishBody(w) PROVE Implemented
  <2>0. PICK t \in Task : t = doing[w]
    BY <1>7 DEF FinishBody, Stages
  <2>1. /\ t \in Task /\ message[t] = "body"
        /\ message' = [message EXCEPT ![t] = "replied"]
        /\ UNCHANGED <<queue, closed>>
    BY <1>7, <2>0 DEF FinishBody, Stages
  <2>2. PICK a \in {"reply", "cancelled"} : result' = [result EXCEPT ![t] = a]
    BY <1>7, <2>0 DEF FinishBody
  <2>3. PhaseOf(t) = "running" /\ PhaseOf(t)' = "answered"
    BY <2>1 DEF PhaseOf, TypeOK
  <2>4. Phases' = [Phases EXCEPT ![t] = "answered"] /\ Phases[t] = "running"
    BY <2>1, <2>2, <2>3, PhaseMoves DEF MessageState, Phases, TypeOK
  <2>5. Contract!Answer(t, a)
    BY <2>1, <2>2, <2>4 DEF Contract!Answer, Contract!Move, Phases
  <2> QED BY <2>1, <2>5 DEF Implemented, Contract!Next
<1>8. ASSUME NEW w \in Thread, EndRun(w) PROVE Implemented
  <2>0. PICK t \in Task : t = doing[w]
    BY <1>8 DEF EndRun, Stages
  <2>1. /\ t \in Task /\ message[t] = "replied" /\ result[t] # "none"
        /\ message' = [message EXCEPT ![t] = "finished"]
        /\ UNCHANGED <<queue, closed, result>>
    BY <1>8, <2>0 DEF EndRun, Stages
  <2>2. PhaseOf(t) = "answered" /\ PhaseOf(t)' = "answered"
    BY <2>1 DEF PhaseOf, TypeOK
  <2>3. Phases' = [Phases EXCEPT ![t] = "answered"]
    BY <2>1, <2>2, PhaseMoves DEF MessageState
  <2>4. Phases' = Phases
    BY <2>1, <2>2, <2>3 DEF Phases
  <2> QED BY <2>1, <2>4 DEF Implemented, Mapped
<1>9. ASSUME NEW t \in Task, DropRun(t) PROVE Implemented
  <2>1. /\ message[t] = "removed" /\ message' = [message EXCEPT ![t] = "released"]
        /\ UNCHANGED <<queue, closed, result>>
    BY <1>9 DEF DropRun
  <2>2. PhaseOf(t) = "revoked" /\ PhaseOf(t)' = "revoked"
    BY <2>1 DEF PhaseOf, TypeOK
  <2>3. Phases' = [Phases EXCEPT ![t] = "revoked"]
    BY <2>1, <2>2, PhaseMoves DEF MessageState
  <2>4. Phases' = Phases
    BY <2>2, <2>3 DEF Phases
  <2> QED BY <2>1, <2>4 DEF Implemented, Mapped
<1>10. ASSUME NEW t \in Task, SendCancelled(t) PROVE Implemented
  <2>1. /\ message[t] = "released" /\ message' = [message EXCEPT ![t] = "finished"]
        /\ result' = [result EXCEPT ![t] = "cancelled"] /\ UNCHANGED <<queue, closed>>
    BY <1>10 DEF SendCancelled
  <2>2. PhaseOf(t) = "revoked" /\ PhaseOf(t)' = "answered"
    BY <2>1 DEF PhaseOf, TypeOK
  <2>3. Phases' = [Phases EXCEPT ![t] = "answered"] /\ Phases[t] = "revoked"
    BY <2>1, <2>2, PhaseMoves DEF MessageState, Phases, TypeOK
  <2>4. Contract!Answer(t, "cancelled")
    BY <2>1, <2>3 DEF Contract!Answer, Contract!Move, Phases
  <2> QED BY <2>4 DEF Implemented, Contract!Next
<1>11. CASE Close
  <2>1. ~closed /\ closed' = TRUE /\ UNCHANGED <<queue, message, result>>
    BY <1>11 DEF Close
  <2>2. Contract!Shut
    BY <2>1, PhasesStay DEF Contract!Shut, Phases
  <2> QED BY <2>2 DEF Implemented, Contract!Next
<1>12. ASSUME NEW t \in Task, Withdraw(t) PROVE Implemented
  BY <1>4, <1>12 DEF Withdraw
<1>13. ASSUME NEW k \in Token, NEW t \in Task, CancelHook(k, t) PROVE Implemented
  BY <1>4, <1>13 DEF CancelHook
<1>14. ASSUME NEW t \in Task, BeginActivity(t) \/ BeginSubmission(t) \/ Backpressure(t)
                               \/ SubmitTimeout(t) \/ Recheck(t) \/ Withdrawn(t)
                               \/ EndSubmission(t) \/ Wait(t)
       PROVE  UNCHANGED <<queue, closed, message, result>>
  BY <1>14 DEF BeginActivity, BeginSubmission, Backpressure, SubmitTimeout, Recheck, Withdrawn,
               EndSubmission, Wait
<1>15. ASSUME NEW w \in Thread, TakeNothing(w) \/ SpuriousWakeup(w)
       PROVE  UNCHANGED <<queue, closed, message, result>>
  BY <1>15 DEF TakeNothing, SpuriousWakeup
<1>16. ASSUME NEW k \in Token, CancelStore(k) \/ CancelCollect(k) \/ CancelReturn(k)
       PROVE  UNCHANGED <<queue, closed, message, result>>
  BY <1>16 DEF CancelStore, CancelCollect, CancelReturn
<1>17. CASE CloseRuntime \/ SubmissionsDrained \/ StartHelpers
  BY <1>1, <1>17 DEF CloseRuntime, SubmissionsDrained, StartHelpers
<1> QED
  BY <1>1, <1>2, <1>3, <1>5, <1>6, <1>7, <1>8, <1>9, <1>10, <1>11, <1>12, <1>13, <1>14,
     <1>15, <1>16, <1>17
  DEF Next, PoolStep, SubmitStep, RemoveStep, ThreadStep, CancelStep

\* Whatever the threads, hooks and closers do, the pool admits up to its
\* capacity and not after the close, starts in order, and answers each admitted
\* task once.
THEOREM PoolImplementsContract == Spec => ImplementsContract
<1>1. Init => Contract!Init
  BY DEF Init, Contract!Init, PhaseOf
<1>2. PoolInv /\ [Next]_vars => [Contract!Next]_(Contract!vars)
  <2>1. UNCHANGED Mapped => UNCHANGED Contract!vars
    BY DEF Mapped, Phases, Contract!vars
  <2>2. UNCHANGED vars => UNCHANGED Mapped
    BY PhasesStay DEF vars, queueVars, Mapped
  <2> QED BY <2>1, <2>2, StepContract DEF Implemented
<1> QED BY <1>1, <1>2, Inductive, PTL DEF Spec, ImplementsContract, Contract!Spec

Kept == \A t \in Task : result[t] # "none" => result'[t] = result[t]

\* A result that has been sent stays.
LEMMA StepKept == ASSUME PoolInv, [Next]_vars PROVE Kept
<1> USE DEF PoolInv, TypeOK, Stages, queueVars, submitVars, cancelVars, threadVars
<1>1. ASSUME NEW t \in Task, NEW r, result[t] = "none", result' = [result EXCEPT ![t] = r]
      PROVE  Kept
  BY <1>1 DEF Kept
<1>2. ASSUME NEW w \in Thread, StartRun(w) \/ FinishBody(w) PROVE Kept
  BY <1>1, <1>2 DEF StartRun, FinishBody
<1>3. ASSUME NEW t \in Task, SendCancelled(t) PROVE Kept
  BY <1>1, <1>3 DEF SendCancelled
<1>4. CASE UNCHANGED result
  BY <1>4 DEF Kept
<1>5. ASSUME NEW t \in Task, BeginActivity(t) \/ SubmitStep(t) \/ DropRun(t) \/ Wait(t)
      PROVE  UNCHANGED result
  BY <1>5 DEF BeginActivity, SubmitStep, BeginSubmission, EnqueueRefused, Refuse, Push, Backpressure,
              SubmitTimeout, Recheck, Withdraw, Withdrawn, EndSubmission, DropRun, Wait
<1>6. ASSUME NEW w \in Thread, Take(w) \/ TakeNothing(w) \/ EndRun(w) \/ SpuriousWakeup(w)
      PROVE  UNCHANGED result
  BY <1>6 DEF Take, TakeNothing, EndRun, SpuriousWakeup
<1>7. ASSUME NEW k \in Token, CancelStore(k) \/ CancelStep(k) PROVE UNCHANGED result
  BY <1>7 DEF CancelStore, CancelStep, CancelCollect, CancelReturn, CancelHook
<1>8. CASE CloseRuntime \/ Close \/ SubmissionsDrained \/ StartHelpers
  BY <1>4, <1>8 DEF CloseRuntime, Close, SubmissionsDrained, StartHelpers
<1>9. CASE UNCHANGED vars
  BY <1>4, <1>9 DEF vars
<1> QED BY <1>2, <1>3, <1>4, <1>5, <1>6, <1>7, <1>8, <1>9 DEF Next, PoolStep, RemoveStep, ThreadStep

\* The one-slot result channel of a task is filled at most once: no sender can
\* block on it.
THEOREM ResultsSentOnce == Spec => OneResult
<1>1. PoolInv /\ [Next]_vars => [Kept]_vars
  BY StepKept
<1>2. Spec => [][Kept]_vars
  BY <1>1, Inductive, PTL DEF Spec
<1> QED BY <1>2 DEF OneResult, Kept

=============================================================================
