-------------------------- MODULE TaskHandle_proofs --------------------------
(***************************************************************************)
(* Proofs about TaskHandle: it is a pool, so everything PoolQueue_proofs     *)
(* shows of a pool holds with its waiters and reapers, and a task is over    *)
(* when its handle is settled.                                              *)
(***************************************************************************)
EXTENDS TaskHandle, PoolQueue_proofs

\* A handle is settled with its result, and the line of the reapers has each
\* listed handle once and no other.
HandleInv ==
  /\ HandleTypeOK
  /\ \A t \in Task : handle[t] = "settled" => result[t] # "none"
  /\ Once(reapQueue)
  /\ \A t \in Task : handle[t] = "listed" <=> In(t, reapQueue)

\* The steps of the handles that are steps of the pool.
LEMMA StepIsPoolStep == [HandleNext]_allVars => [Next]_vars
<1> SUFFICES ASSUME [HandleNext]_allVars PROVE [Next]_vars
  OBVIOUS
<1>1. ASSUME NEW t \in Task, BeginWait(t) \/ Asked(t) \/ Detach(t) \/ BeginReap(t)
      PROVE  UNCHANGED vars
  BY <1>1 DEF BeginWait, Asked, Detach, BeginReap
<1>2. ASSUME NEW t \in Task, Ask(t) PROVE PoolStep
  <2>1. TokenOf[t] \in Token /\ CancelStore(TokenOf[t])
    BY <1>2, PoolAssumption DEF Ask, PoolAssumption
  <2> QED BY <2>1 DEF PoolStep
<1>3. ASSUME NEW t \in Task, Receive(t) \/ Reap(t) PROVE Wait(t)
  BY <1>3 DEF Receive, Reap
<1> QED BY <1>1, <1>2, <1>3 DEF HandleNext, HandleStep, Next, allVars

\* With its waits and reapers the pool still is the pool of PoolQueue: all its
\* safety theorems carry over.
THEOREM HandlesRunPool == HandleSpec => Spec
<1>1. HandleInit => Init
  BY DEF HandleInit
<1> QED BY <1>1, StepIsPoolStep, PTL DEF HandleSpec, Spec

\* What each step does to the handles.
LEMMA StepHandles ==
  ASSUME PoolInv, HandleInv, [HandleNext]_allVars
  PROVE  HandleInv'
<1> USE DEF HandleInv, HandleTypeOK, HandleState
<1>1. PoolInv' /\ Kept
  BY StepIsPoolStep, StepPool, StepKept
<1>2. ASSUME UNCHANGED handleVars PROVE HandleInv'
  BY <1>1, <1>2 DEF handleVars, Kept
<1>3. ASSUME NEW t \in Task, NEW from, NEW to \in HandleState,
             from # "listed", to # "listed",
             Turn(t, from, to), UNCHANGED reapQueue, to = "settled" => result'[t] # "none"
      PROVE  HandleInv'
  <2>1. handle' = [handle EXCEPT ![t] = to] /\ handle[t] # "listed"
    BY <1>3 DEF Turn
  <2>2. \A u \in Task : handle'[u] = "settled" => result'[u] # "none"
    BY <1>1, <1>3, <2>1 DEF Kept
  <2>3. \A u \in Task : handle'[u] = "listed" <=> In(u, reapQueue)
    BY <1>3, <2>1
  <2> QED BY <1>3, <2>1, <2>2, <2>3
<1>4. ASSUME NEW t \in Task, BeginWait(t) \/ Ask(t) \/ Asked(t) PROVE HandleInv'
  BY <1>3, <1>4 DEF BeginWait, Ask, Asked
<1>5. ASSUME NEW t \in Task, Receive(t) \/ Reap(t) PROVE HandleInv'
  <2>1. result[t] # "none" /\ UNCHANGED result
    BY <1>5 DEF Receive, Reap, Wait
  <2> QED BY <1>3, <1>5, <2>1 DEF Receive, Reap
<1>6. ASSUME NEW t \in Task, Detach(t) PROVE HandleInv'
  <2>1. handle' = [handle EXCEPT ![t] = "listed"] /\ reapQueue' = Append(reapQueue, t)
        /\ UNCHANGED result
    BY <1>6 DEF Detach, Turn, vars
  <2>2. handle[t] = "held" /\ ~In(t, reapQueue)
    BY <1>6 DEF Detach, Turn
  <2>3. /\ reapQueue' \in Seq(Task) /\ Once(reapQueue')
        /\ \A u \in Task : In(u, reapQueue') <=> In(u, reapQueue) \/ u = t
    BY <2>1, <2>2, AppendOnce
  <2>4. /\ handle' \in [Task -> HandleState]
        /\ \A u \in Task : handle'[u] = IF u = t THEN "listed" ELSE handle[u]
    BY <2>1
  <2> QED BY <2>1, <2>3, <2>4
<1>7. ASSUME NEW t \in Task, BeginReap(t) PROVE HandleInv'
  <2>1. handle' = [handle EXCEPT ![t] = "reaping"] /\ UNCHANGED result
    BY <1>7 DEF BeginReap, Turn, vars
  <2>2. reapQueue # <<>> /\ reapQueue' = Tail(reapQueue) /\ t = Head(reapQueue)
    BY <1>7 DEF BeginReap
  <2>3. /\ reapQueue' \in Seq(Task) /\ Once(reapQueue')
        /\ \A u \in Task : In(u, reapQueue') <=> In(u, reapQueue) /\ u # t
    BY <2>2, TailOnce
  <2>4. /\ handle' \in [Task -> HandleState]
        /\ \A u \in Task : handle'[u] = IF u = t THEN "reaping" ELSE handle[u]
    BY <2>1
  <2> QED BY <2>1, <2>3, <2>4
<1>8. CASE UNCHANGED allVars
  BY <1>2, <1>8 DEF allVars
<1> QED BY <1>2, <1>4, <1>5, <1>6, <1>7, <1>8 DEF HandleNext, HandleStep

\* HandleInv holds in every reachable state, with the invariant of the pool.
LEMMA HandlesInductive == HandleSpec => [](PoolInv /\ HandleInv)
<1>1. HandleInit => HandleInv
  BY DEF HandleInit, HandleInv, HandleTypeOK, HandleState, Once, In
<1> QED BY <1>1, StepHandles, HandlesRunPool, Inductive, PTL DEF HandleSpec

\* Handles and the line of the reapers keep their types.
THEOREM HandleTypes == HandleSpec => []HandleTypeOK
<1>1. HandleInv => HandleTypeOK
  BY DEF HandleInv
<1> QED BY <1>1, HandlesInductive, PTL

\* However a wait ends, and however many handles share the reapers, the function
\* of a task is over when its handle is settled.
THEOREM SettledIsOver == HandleSpec => []SettledTaskIsOver
<1>1. PoolInv /\ HandleInv => SettledTaskIsOver
  BY DEF PoolInv, HandleInv, Stages, SettledTaskIsOver
<1> QED BY <1>1, HandlesInductive, PTL

=============================================================================
