-------------------------- MODULE RuntimeClose_pools --------------------------
(***************************************************************************)
(* Proofs about RuntimeClose, continued: what a close and a shutdown have    *)
(* done to the pools when they return.                                      *)
(***************************************************************************)
EXTENDS RuntimeClose_proofs

USE DEF Accepted, OnActivity, OnlyClosersLeft, Handles

-----------------------------------------------------------------------------
(* FinishedClosesPools: who still has to close a pool.                       *)

\* The call that owns the close, from taking the registered pools to the end.
Owner(c) ==
  op[c] = "close" /\ pc[c] \in {"pools", "qclose", "pending", "helpers", "join",
                                "joinhelpers", "await", "finish"}

\* The owner has still to close pool p.
Owes(c, p) == Owner(c) /\ (p \in todo[c] \/ (pc[c] = "qclose" /\ cur[c] = p))

\* Before the close every usable pool is registered; afterwards each open one is
\* owed by the one owner, who is past its pools only when it owes none.
PoolsOwed ==
  /\ ~rtClosed => usable \subseteq registered /\ ~finished
  /\ rtClosed => \A p \in usable \ poolClosed : \E c \in Caller : Owes(c, p)
  /\ \A c \in Caller : Owner(c) => rtClosed /\ ~finished
  /\ \A c1, c2 \in Caller : Owner(c1) /\ Owner(c2) => c1 = c2
  /\ \A c \in Caller : pc[c] \in {"await", "finish"} => todo[c] = {}

\* A step of c that leaves the roles alone and forgets no pool keeps them owed.
Undisturbed(c) ==
  /\ UNCHANGED <<rtClosed, finished, registered, usable>>
  /\ \A x \in Caller \ {c} : /\ pc'[x] = pc[x] /\ op'[x] = op[x]
                             /\ cur'[x] = cur[x] /\ todo'[x] = todo[x]

LEMMA OwedKept ==
  ASSUME PoolsOwed, NEW c \in Caller, Undisturbed(c), poolClosed \subseteq poolClosed',
         Owner(c)' => Owner(c),
         \A p \in Pool : Owes(c, p) => Owes(c, p)' \/ p \in poolClosed',
         pc'[c] \in {"await", "finish"} => todo'[c] = {},
         usable \subseteq Pool
  PROVE  PoolsOwed'
<1>1. \A x \in Caller : Owner(x)' => Owner(x)
  BY DEF Undisturbed, Owner
<1>2. \A x \in Caller : \A p \in Pool : Owes(x, p) => Owes(x, p)' \/ p \in poolClosed'
  BY DEF Undisturbed, Owes, Owner
<1>3. \A x \in Caller : pc'[x] \in {"await", "finish"} => todo'[x] = {}
  BY DEF Undisturbed, PoolsOwed
<1>4. (rtClosed => \A p \in usable \ poolClosed : \E x \in Caller : Owes(x, p))'
  BY <1>2 DEF PoolsOwed, Undisturbed
<1> QED BY <1>1, <1>3, <1>4 DEF PoolsOwed, Undisturbed

\* Every step keeps the open pools owed.
LEMMA StepOwed ==
  ASSUME CloseInv, PoolsOwed, [Next]_vars
  PROVE  PoolsOwed'
<1> USE DEF Goto, Call, MayCall, gateVars, poolVars, runVars, joinVars, callVars
<1> USE DEF CloseInv, TypeOK
<1>1. ASSUME UNCHANGED <<rtClosed, finished, registered, usable, poolClosed, todo,
                         op, cur, pc>>
      PROVE  PoolsOwed'
  BY <1>1 DEF PoolsOwed, Owner, Owes
<1>2. ASSUME NEW a \in Act, BeginActivity(a) \/ ActStep(a) PROVE PoolsOwed'
  BY <1>1, <1>2
  DEF BeginActivity, ActStep, StartThread, BeginSubmission, Enqueue, EndActivity
<1>3. ASSUME NEW w \in Thread, Take(w) \/ Exit(w) PROVE PoolsOwed'
  BY <1>1, <1>3 DEF Take, Exit
<1>4. ASSUME NEW c \in Caller, CallClose(c) PROVE PoolsOwed'
  <2>1. Undisturbed(c) /\ poolClosed \subseteq poolClosed'
    BY <1>4 DEF CallClose, Undisturbed
  <2>2. Owner(c)' => Owner(c)
    BY <1>4 DEF CallClose, Owner, PoolsOwed, Calling
  <2>3. \A p \in Pool : Owes(c, p) => Owes(c, p)' \/ p \in poolClosed'
    BY <1>4 DEF CallClose, Owner, Owes
  <2>4. pc'[c] \in {"await", "finish"} => todo'[c] = {}
    BY <1>4 DEF CallClose, PoolsOwed
  <2> QED BY <2>1, <2>2, <2>3, <2>4, OwedKept
<1>5. ASSUME NEW c \in Caller, NEW q \in Pool, CallShutdown(c, q) PROVE PoolsOwed'
  <2>1. Undisturbed(c) /\ poolClosed \subseteq poolClosed'
    BY <1>5 DEF CallShutdown, Undisturbed
  <2>2. Owner(c)' => Owner(c)
    BY <1>5 DEF CallShutdown, Owner, PoolsOwed, Calling
  <2>3. \A p \in Pool : Owes(c, p) => Owes(c, p)' \/ p \in poolClosed'
    BY <1>5 DEF CallShutdown, Owner, Owes
  <2>4. pc'[c] \in {"await", "finish"} => todo'[c] = {}
    BY <1>5 DEF CallShutdown, PoolsOwed
  <2> QED BY <2>1, <2>2, <2>3, <2>4, OwedKept
<1>6. ASSUME NEW c \in Caller, NEW q \in Pool, CallCreate(c, q) PROVE PoolsOwed'
  <2>1. Undisturbed(c) /\ poolClosed \subseteq poolClosed'
    BY <1>6 DEF CallCreate, Undisturbed
  <2>2. Owner(c)' => Owner(c)
    BY <1>6 DEF CallCreate, Owner, PoolsOwed, Calling
  <2>3. \A p \in Pool : Owes(c, p) => Owes(c, p)' \/ p \in poolClosed'
    BY <1>6 DEF CallCreate, Owner, Owes
  <2>4. pc'[c] \in {"await", "finish"} => todo'[c] = {}
    BY <1>6 DEF CallCreate, PoolsOwed
  <2> QED BY <2>1, <2>2, <2>3, <2>4, OwedKept
<1>7. ASSUME NEW c \in Caller, Register(c) PROVE PoolsOwed'
  <2>1. op[c] = "create" /\ UNCHANGED <<rtClosed, finished, poolClosed, op, cur, todo>>
    BY <1>7 DEF Register, Calling
  <2>2. pc'[c] \in {"qclose", "leave"} /\ \A x \in Caller \ {c} : pc'[x] = pc[x]
    BY <1>7 DEF Register
  <2>3. CASE UNCHANGED <<registered, usable>>
    <3>1. ~Owner(c) /\ ~Owner(c)'
      BY <2>1 DEF Owner
    <3>2. Undisturbed(c)
      BY <2>1, <2>2, <2>3 DEF Undisturbed
    <3> QED BY <2>1, <2>2, <3>1, <3>2, OwedKept DEF Owes
  <2>4. CASE /\ ~rtClosed
             /\ registered' = registered \cup {cur[c]} /\ usable' = usable \cup {cur[c]}
    BY <2>1, <2>2, <2>4 DEF PoolsOwed, Owner
  <2> QED BY <1>7, <2>3, <2>4 DEF Register, Accepted
<1>8. ASSUME NEW c \in Caller, EnterClosing(c) PROVE PoolsOwed'
  <2>1. Undisturbed(c) /\ poolClosed \subseteq poolClosed'
    BY <1>8 DEF EnterClosing, Undisturbed
  <2>2. Owner(c)' => Owner(c)
    BY <1>8 DEF EnterClosing, Owner, PoolsOwed, Calling
  <2>3. \A p \in Pool : Owes(c, p) => Owes(c, p)' \/ p \in poolClosed'
    BY <1>8 DEF EnterClosing, Owner, Owes
  <2>4. pc'[c] \in {"await", "finish"} => todo'[c] = {}
    BY <1>8 DEF EnterClosing, PoolsOwed
  <2> QED BY <2>1, <2>2, <2>3, <2>4, OwedKept
<1>9. ASSUME NEW c \in Caller, ChooseRole(c) PROVE PoolsOwed'
  <2>1. CASE rtClosed
    <3>1. /\ pc'[c] \in {"follow", "leave"} /\ pc[c] = "gate"
          /\ \A x \in Caller \ {c} : pc'[x] = pc[x]
          /\ UNCHANGED <<rtClosed, finished, registered, usable, poolClosed, op, cur, todo>>
      BY <1>9, <2>1 DEF ChooseRole
    <3>2. Undisturbed(c) /\ ~Owner(c) /\ ~Owner(c)'
      BY <3>1 DEF Undisturbed, Owner
    <3> QED BY <3>1, <3>2, OwedKept DEF Owes
  <2>2. CASE ~rtClosed
    <3>1. /\ rtClosed' /\ ~finished' /\ todo'[c] = registered /\ pc'[c] = "pools"
          /\ UNCHANGED <<usable, poolClosed, op, cur>>
          /\ \A x \in Caller \ {c} : pc'[x] = pc[x] /\ todo'[x] = todo[x]
      BY <1>9, <2>2 DEF ChooseRole
    <3>2. op[c] = "close" /\ \A x \in Caller : ~Owner(x)
      BY <1>9, <2>2 DEF ChooseRole, Calling, PoolsOwed
    <3>3. \A x \in Caller : Owner(x)' <=> x = c
      BY <3>1, <3>2 DEF Owner
    <3>4. \A p \in usable : Owes(c, p)'
      BY <2>2, <3>1, <3>3 DEF PoolsOwed, Owes
    <3> QED BY <3>1, <3>3, <3>4 DEF PoolsOwed
  <2> QED BY <2>1, <2>2
<1>10. ASSUME NEW c \in Caller, NextPool(c) PROVE PoolsOwed'
  <2>1. op[c] = "close" /\ pc[c] = "pools" /\ Owner(c)
    BY <1>10 DEF NextPool, Calling, Owner
  <2>2. Undisturbed(c) /\ UNCHANGED <<poolClosed, op>>
    BY <1>10 DEF NextPool, Undisturbed
  <2>3. CASE todo[c] = {}
    <3>1. pc'[c] = "await" /\ todo'[c] = {}
      BY <1>10, <2>3 DEF NextPool
    <3>2. \A p \in Pool : ~Owes(c, p)
      BY <2>1, <2>3 DEF Owes
    <3> QED BY <2>1, <2>2, <3>1, <3>2, OwedKept
  <2>4. CASE todo[c] # {}
    <3>1. PICK q \in todo[c] : /\ todo' = [todo EXCEPT ![c] = @ \ {q}]
                               /\ cur' = [cur EXCEPT ![c] = q] /\ Goto(c, "qclose")
      BY <1>10, <2>4 DEF NextPool
    <3>2. todo'[c] = todo[c] \ {q} /\ cur'[c] = q /\ pc'[c] = "qclose"
      BY <3>1
    <3>3. \A p \in Pool : Owes(c, p) => Owes(c, p)'
      BY <2>1, <2>2, <3>2 DEF Owes, Owner
    <3> QED BY <2>1, <2>2, <3>2, <3>3, OwedKept
  <2> QED BY <2>3, <2>4
<1>11. ASSUME NEW c \in Caller, AwaitActive(c) PROVE PoolsOwed'
  <2>1. Undisturbed(c) /\ poolClosed \subseteq poolClosed'
    BY <1>11 DEF AwaitActive, Undisturbed
  <2>2. Owner(c)' => Owner(c)
    BY <1>11 DEF AwaitActive, Owner, PoolsOwed, Calling
  <2>3. \A p \in Pool : Owes(c, p) => Owes(c, p)' \/ p \in poolClosed'
    BY <1>11 DEF AwaitActive, Owner, Owes
  <2>4. pc'[c] \in {"await", "finish"} => todo'[c] = {}
    BY <1>11 DEF AwaitActive, PoolsOwed
  <2> QED BY <2>1, <2>2, <2>3, <2>4, OwedKept
<1>12. ASSUME NEW c \in Caller, FinishClose(c) PROVE PoolsOwed'
  <2>1. /\ Owner(c) /\ rtClosed /\ todo[c] = {}
        /\ finished' /\ UNCHANGED <<rtClosed, usable, poolClosed, op, cur, todo>>
    BY <1>12 DEF FinishClose, Calling, Owner, PoolsOwed
  <2>2. pc'[c] = "leave" /\ pc[c] = "finish" /\ \A x \in Caller \ {c} : pc'[x] = pc[x]
    BY <1>12 DEF FinishClose
  <2>3. \A x \in Caller : ~Owner(x)'
    BY <2>1, <2>2 DEF PoolsOwed, Owner
  <2>4. \A x \in Caller : \A p \in Pool : ~Owes(x, p)
    BY <2>1, <2>2 DEF PoolsOwed, Owes
  <2> QED BY <2>1, <2>2, <2>3, <2>4 DEF PoolsOwed
<1>13. ASSUME NEW c \in Caller, Follow(c) PROVE PoolsOwed'
  <2>1. Undisturbed(c) /\ poolClosed \subseteq poolClosed'
    BY <1>13 DEF Follow, Undisturbed
  <2>2. Owner(c)' => Owner(c)
    BY <1>13 DEF Follow, Owner, PoolsOwed, Calling
  <2>3. \A p \in Pool : Owes(c, p) => Owes(c, p)' \/ p \in poolClosed'
    BY <1>13 DEF Follow, Owner, Owes
  <2>4. pc'[c] \in {"await", "finish"} => todo'[c] = {}
    BY <1>13 DEF Follow, PoolsOwed
  <2> QED BY <2>1, <2>2, <2>3, <2>4, OwedKept
<1>14. ASSUME NEW c \in Caller, Leave(c) PROVE PoolsOwed'
  <2>1. Undisturbed(c) /\ poolClosed \subseteq poolClosed'
    BY <1>14 DEF Leave, Undisturbed
  <2>2. Owner(c)' => Owner(c)
    BY <1>14 DEF Leave, Owner, PoolsOwed, Calling
  <2>3. \A p \in Pool : Owes(c, p) => Owes(c, p)' \/ p \in poolClosed'
    BY <1>14 DEF Leave, Owner, Owes
  <2>4. pc'[c] \in {"await", "finish"} => todo'[c] = {}
    BY <1>14 DEF Leave, PoolsOwed
  <2> QED BY <2>1, <2>2, <2>3, <2>4, OwedKept
<1>15. ASSUME NEW c \in Caller, CloseQueue(c) PROVE PoolsOwed'
  <2>1. Undisturbed(c) /\ poolClosed \subseteq poolClosed'
    BY <1>15 DEF CloseQueue, Undisturbed
  <2>2. Owner(c)' => Owner(c)
    BY <1>15 DEF CloseQueue, Owner, PoolsOwed, Calling
  <2>3. \A p \in Pool : Owes(c, p) => Owes(c, p)' \/ p \in poolClosed'
    BY <1>15 DEF CloseQueue, Owner, Owes
  <2>4. pc'[c] \in {"await", "finish"} => todo'[c] = {}
    BY <1>15 DEF CloseQueue, PoolsOwed
  <2> QED BY <2>1, <2>2, <2>3, <2>4, OwedKept
<1>16. ASSUME NEW c \in Caller, AwaitSubmissions(c) PROVE PoolsOwed'
  <2>1. Undisturbed(c) /\ poolClosed \subseteq poolClosed'
    BY <1>16 DEF AwaitSubmissions, Undisturbed
  <2>2. Owner(c)' => Owner(c)
    BY <1>16 DEF AwaitSubmissions, Owner, PoolsOwed, Calling
  <2>3. \A p \in Pool : Owes(c, p) => Owes(c, p)' \/ p \in poolClosed'
    BY <1>16 DEF AwaitSubmissions, Owner, Owes
  <2>4. pc'[c] \in {"await", "finish"} => todo'[c] = {}
    BY <1>16 DEF AwaitSubmissions, PoolsOwed
  <2> QED BY <2>1, <2>2, <2>3, <2>4, OwedKept
<1>17. ASSUME NEW c \in Caller, StartHelpers(c) PROVE PoolsOwed'
  <2>1. Undisturbed(c) /\ poolClosed \subseteq poolClosed'
    BY <1>17 DEF StartHelpers, Undisturbed
  <2>2. Owner(c)' => Owner(c)
    BY <1>17 DEF StartHelpers, Owner, PoolsOwed, Calling
  <2>3. \A p \in Pool : Owes(c, p) => Owes(c, p)' \/ p \in poolClosed'
    BY <1>17 DEF StartHelpers, Owner, Owes
  <2>4. pc'[c] \in {"await", "finish"} => todo'[c] = {}
    BY <1>17 DEF StartHelpers, PoolsOwed
  <2> QED BY <2>1, <2>2, <2>3, <2>4, OwedKept
<1>18. ASSUME NEW c \in Caller, JoinNext(c) \/ Joined(c) PROVE PoolsOwed'
  BY <1>1, <1>18 DEF JoinNext, Joined
<1>19. ASSUME NEW c \in Caller, AllJoined(c) PROVE PoolsOwed'
  <2>1. Undisturbed(c) /\ poolClosed \subseteq poolClosed'
    BY <1>19 DEF AllJoined, Undisturbed
  <2>2. Owner(c)' => Owner(c)
    BY <1>19 DEF AllJoined, Owner, PoolsOwed, Calling
  <2>3. \A p \in Pool : Owes(c, p) => Owes(c, p)' \/ p \in poolClosed'
    BY <1>19 DEF AllJoined, Owner, Owes
  <2>4. pc'[c] \in {"await", "finish"} => todo'[c] = {}
    BY <1>19 DEF AllJoined, PoolsOwed
  <2> QED BY <2>1, <2>2, <2>3, <2>4, OwedKept
<1>20. ASSUME NEW c \in Caller, EndShutdown(c) PROVE PoolsOwed'
  <2>1. Undisturbed(c) /\ poolClosed \subseteq poolClosed'
    BY <1>20 DEF EndShutdown, Undisturbed
  <2>2. Owner(c)' => Owner(c)
    BY <1>20 DEF EndShutdown, Owner, PoolsOwed, Calling
  <2>3. \A p \in Pool : Owes(c, p) => Owes(c, p)' \/ p \in poolClosed'
    BY <1>20 DEF EndShutdown, Owner, Owes
  <2>4. pc'[c] \in {"await", "finish"} => todo'[c] = {}
    BY <1>20 DEF EndShutdown, PoolsOwed
  <2> QED BY <2>1, <2>2, <2>3, <2>4, OwedKept
<1>21. CASE UNCHANGED vars
  BY <1>1, <1>21 DEF vars
<1> QED
  BY <1>2, <1>3, <1>4, <1>5, <1>6, <1>7, <1>8, <1>9, <1>10, <1>11, <1>12, <1>13, <1>14,
     <1>15, <1>16, <1>17, <1>18, <1>19, <1>20, <1>21
  DEF Next, CallStep

\* A close that has finished leaves no pool open that create has handed out,
\* however creating and closing interleave.
THEOREM FinishedClosed == Spec => []FinishedClosesPools
<1>1. Init => CloseInv /\ PoolsOwed
  BY InitClose DEF Init, PoolsOwed, Owner
<1>2. CloseInv /\ PoolsOwed /\ [Next]_vars => CloseInv' /\ PoolsOwed'
  BY StepClose, StepOwed
<1>3. PoolsOwed => FinishedClosesPools
  BY DEF PoolsOwed, FinishedClosesPools, Owes
<1> QED BY <1>1, <1>2, <1>3, PTL DEF Spec

-----------------------------------------------------------------------------
(* FirstShutdownDrains: what the worker handles of a pool stand for.         *)

\* The workers create started for pool p.
WorkersOf(p) == {w \in Worker : PoolOf[w] = p}

\* No task of pool p has made a call.
Quiet(p) == \A b \in Act : Target[b] = p => calls[b] = 0

\* Tasks are where their life says; helpers exist only where a task has called.
TasksPlaced ==
  /\ \A w \in Thread : doing[w] # None => Target[doing[w]] = PoolOf[w]
  /\ \A a \in Act : act[a] = "running" /\ Target[a] # Own => \E w \in Thread : doing[w] = a
  /\ \A a \in Act : act[a] = "queued" =>
       Target[a] # Own /\ \E i \in DOMAIN queue[Target[a]] : queue[Target[a]][i] = a
  /\ \A w \in Worker : thread[w] = "exited" =>
       PoolOf[w] \in poolClosed /\ queue[PoolOf[w]] = <<>>
  /\ \A p \in drainStarted : ~Quiet(p)

\* The call that closed a pool has still to take its handles.
Taking(c) == first[c] /\ pc[c] \in {"pending", "helpers"}

\* An open pool has all its worker handles, and so has one that is being closed
\* until the one call that closed it takes them.
HandlesKept ==
  /\ registered \subseteq created
  /\ \A c \in Caller :
       /\ todo[c] \subseteq created
       /\ op[c] = "shutdown" \/ pc[c] \in {"qclose", "pending", "helpers"}
            => cur[c] \in created
       /\ Taking(c) => cur[c] \in poolClosed /\ workers[cur[c]] = WorkersOf(cur[c])
  /\ \A p \in created \ poolClosed : workers[p] = WorkersOf(p)
  /\ \A c1, c2 \in Caller : Taking(c1) /\ Taking(c2) /\ cur[c1] = cur[c2] => c1 = c2

\* The shutdown that closed a quiet pool skips none of its workers.
AllJoinedOf(c) ==
  op[c] = "shutdown" /\ first[c] /\ Quiet(cur[c]) =>
    \A w \in WorkersOf(cur[c]) :
      /\ pc[c] = "join" => w \in joins[c] \/ joining[c] = w \/ thread[w] = "exited"
      /\ pc[c] \in {"joinhelpers", "leave"} => thread[w] = "exited"

WorkersJoined == \A c \in Caller : AllJoinedOf(c)

\* A quiet pool has been quiet before: calls are only ever made.
LEMMA CallsGrow ==
  ASSUME CloseInv, [Next]_vars
  PROVE  \A b \in Act : calls'[b] >= calls[b]
<1> USE DEF CloseInv, TypeOK, Call, callVars, Caller
<1>1. ASSUME UNCHANGED calls PROVE \A b \in Act : calls'[b] >= calls[b]
  BY <1>1
<1>2. ASSUME NEW c \in Caller,
             CallClose(c) \/ \E q \in Pool : CallShutdown(c, q) \/ CallCreate(c, q)
      PROVE  \A b \in Act : calls'[b] >= calls[b]
  <2>1. calls' = [calls EXCEPT ![c] = @ + 1]
    BY <1>2 DEF CallClose, CallShutdown, CallCreate
  <2> QED BY <2>1
<1>3. ASSUME NEW a \in Act, BeginActivity(a) \/ ActStep(a) PROVE UNCHANGED calls
  BY <1>3 DEF BeginActivity, ActStep, StartThread, BeginSubmission, Enqueue, EndActivity
<1>4. ASSUME NEW w \in Thread, Take(w) \/ Exit(w) PROVE UNCHANGED calls
  BY <1>4 DEF Take, Exit
<1>5. ASSUME NEW c \in Caller, CallStep(c) PROVE UNCHANGED calls
  BY <1>5
  DEF CallStep, Register, EnterClosing, ChooseRole, NextPool, AwaitActive, FinishClose,
      Follow, Leave, CloseQueue, AwaitSubmissions, StartHelpers, JoinNext, Joined,
      AllJoined, EndShutdown
<1>6. CASE UNCHANGED vars
  BY <1>1, <1>6 DEF vars
<1> QED BY <1>1, <1>2, <1>3, <1>4, <1>5, <1>6 DEF Next

\* A worker that has left its pool does not come back.
LEMMA ExitedStays ==
  ASSUME CloseInv, [Next]_vars, NEW v \in Worker, thread[v] = "exited", PoolOf[v] \in created
  PROVE  thread'[v] = "exited"
<1> USE CloseAssumption DEF CloseAssumption, CloseInv, TypeOK, poolVars, runVars, Thread
<1>1. ASSUME UNCHANGED thread PROVE thread'[v] = "exited"
  BY <1>1
<1>2. ASSUME NEW a \in Act, EndActivity(a) PROVE thread'[v] = "exited"
  <2>1. v \in Thread /\ doing[v] = None /\ None \notin Act
    <3>1. \A w \in Thread : doing[w] # None => thread[w] = "running"
      BY DEF Lives
    <3> QED BY <3>1
  <2>2. thread' = [w \in Thread |-> IF doing[w] = a THEN "idle" ELSE thread[w]]
    BY <1>2 DEF EndActivity
  <2> QED BY <2>1, <2>2
<1>3. ASSUME NEW a \in Act, BeginActivity(a) \/ (ActStep(a) /\ ~EndActivity(a))
      PROVE  UNCHANGED thread
  BY <1>3 DEF BeginActivity, ActStep, StartThread, BeginSubmission, Enqueue
<1>4. ASSUME NEW w \in Thread, Take(w) \/ Exit(w) PROVE thread'[v] = "exited"
  BY <1>4 DEF Take, Exit
<1>5. ASSUME NEW c \in Caller, NEW q \in Pool, CallCreate(c, q) PROVE thread'[v] = "exited"
  BY <1>5 DEF CallCreate
<1>6. ASSUME NEW c \in Caller, NEW q \in Pool, CallShutdown(c, q) PROVE UNCHANGED thread
  BY <1>6 DEF CallShutdown
<1>7. ASSUME NEW c \in Caller, StartHelpers(c) PROVE thread'[v] = "exited"
  BY <1>7 DEF StartHelpers
<1>8. ASSUME NEW c \in Caller, CallStep(c), ~StartHelpers(c) PROVE UNCHANGED thread
  BY <1>8
  DEF CallStep, Register, EnterClosing, ChooseRole, NextPool, AwaitActive, FinishClose,
      Follow, Leave, CloseQueue, AwaitSubmissions, JoinNext, Joined, AllJoined, EndShutdown
<1>9. CASE UNCHANGED vars
  BY <1>1, <1>9 DEF vars
<1>10. ASSUME NEW c \in Caller, CallClose(c) PROVE UNCHANGED thread
  BY <1>10 DEF CallClose
<1> QED BY <1>1, <1>2, <1>3, <1>4, <1>5, <1>6, <1>7, <1>8, <1>9, <1>10 DEF Next

\* Every step keeps the tasks where their life says.
LEMMA StepPlaced ==
  ASSUME CloseInv, TasksPlaced, [Next]_vars
  PROVE  TasksPlaced'
<1> USE CloseAssumption
    DEF CloseAssumption, CloseInv, TypeOK, Become, Goto, Call, MayCall, gateVars,
        poolVars, runVars, joinVars, callVars, Thread, Caller
<1>1. ASSUME NEW a \in Act, BeginActivity(a) PROVE TasksPlaced'
  <2>0. /\ queue \in [Pool -> Seq(Act)]
        /\ act \in [Act -> {"new", "leased", "listed", "queued", "running",
                       "gone", "refused"}]
        /\ usable \subseteq Pool
        /\ thread \in [Thread -> {"absent", "idle", "running", "exited"}]
        /\ doing \in [Thread -> Act \cup {None}] /\ None \notin Act /\ Own \notin Pool
        /\ PoolOf \in [Thread -> Pool] /\ Target \in [Act -> Pool \cup {Own}]
        /\ Worker \subseteq Thread
    OBVIOUS
  <2> HIDE CloseAssumption DEF CloseAssumption, CloseInv, TypeOK, Thread, Caller
  <2>1. /\ act[a] = "new"
        /\ act'[a] \in {"refused", "leased"} /\ \A b \in Act \ {a} : act'[b] = act[b]
    BY <2>0, <1>1 DEF BeginActivity
  <2>2. UNCHANGED <<doing, queue, thread, poolClosed, drainStarted, calls>>
    BY <1>1 DEF BeginActivity
  <2>3. \A b \in Act : act'[b] \in {"running", "queued"} => act'[b] = act[b]
    BY <2>0, <2>1
  <2>4. (\A b \in Act :
           act[b] = "running" /\ Target[b] # Own => \E w \in Thread : doing[w] = b)'
    BY <2>2, <2>3 DEF TasksPlaced
  <2>5. (\A b \in Act : act[b] = "queued" =>
           Target[b] # Own /\ \E i \in DOMAIN queue[Target[b]] : queue[Target[b]][i] = b)'
    BY <2>2, <2>3 DEF TasksPlaced
  <2> QED BY <2>2, <2>4, <2>5 DEF TasksPlaced, Quiet
<1>2. ASSUME NEW a \in Act, StartThread(a) PROVE TasksPlaced'
  <2>1. /\ Target[a] = Own /\ act[a] = "leased" /\ act'[a] \in {"running", "refused"}
        /\ \A b \in Act \ {a} : act'[b] = act[b]
    BY <1>2 DEF StartThread
  <2>2. UNCHANGED <<doing, queue, thread, poolClosed, drainStarted, calls>>
    BY <1>2 DEF StartThread
  <2>3. (\A b \in Act :
           act[b] = "running" /\ Target[b] # Own => \E w \in Thread : doing[w] = b)'
    BY <2>1, <2>2 DEF TasksPlaced
  <2>4. (\A b \in Act : act[b] = "queued" =>
           Target[b] # Own /\ \E i \in DOMAIN queue[Target[b]] : queue[Target[b]][i] = b)'
    BY <2>1, <2>2 DEF TasksPlaced
  <2> QED BY <2>2, <2>3, <2>4 DEF TasksPlaced, Quiet
<1>3. ASSUME NEW a \in Act, BeginSubmission(a) PROVE TasksPlaced'
  BY <1>3 DEF BeginSubmission, TasksPlaced, Quiet
<1>4. ASSUME NEW a \in Act, Enqueue(a) PROVE TasksPlaced'
  <2>0. /\ queue \in [Pool -> Seq(Act)]
        /\ act \in [Act -> {"new", "leased", "listed", "queued", "running",
                       "gone", "refused"}]
        /\ usable \subseteq Pool
        /\ thread \in [Thread -> {"absent", "idle", "running", "exited"}]
        /\ doing \in [Thread -> Act \cup {None}] /\ None \notin Act /\ Own \notin Pool
        /\ PoolOf \in [Thread -> Pool] /\ Target \in [Act -> Pool \cup {Own}]
        /\ Worker \subseteq Thread
    OBVIOUS
  <2> HIDE CloseAssumption DEF CloseAssumption, CloseInv, TypeOK, Thread, Caller
  <2>1. UNCHANGED <<doing, thread, poolClosed, drainStarted, calls>>
    BY <2>0, <1>4 DEF Enqueue
  <2>2. CASE rtClosed \/ Target[a] \in poolClosed
    <3>1. Become(a, "refused") /\ act[a] = "listed" /\ UNCHANGED queue
      BY <2>0, <1>4, <2>2 DEF Enqueue
    <3> QED BY <2>0, <2>1, <3>1 DEF TasksPlaced, Quiet
  <2>3. CASE ~(rtClosed \/ Target[a] \in poolClosed)
    <3> DEFINE p == Target[a]
    <3>0. /\ Become(a, "queued") /\ act[a] = "listed" /\ p \notin poolClosed
          /\ queue' = [queue EXCEPT ![p] = Append(@, a)]
      BY <2>0, <1>4, <2>3 DEF Enqueue
    <3>1. p \in Pool /\ Become(a, "queued") /\ act[a] = "listed" /\ p \notin poolClosed
      BY <2>0, <3>0 DEF CloseInv, FreshPools
    <3>2. /\ queue[p] \in Seq(Act) /\ queue'[p] = Append(queue[p], a)
          /\ \A q \in Pool \ {p} : queue'[q] = queue[q]
      BY <2>0, <3>0, <3>1
    <3>3. \A b \in Act : act'[b] = "queued" => act[b] = "queued" \/ b = a
      BY <2>0, <3>1
    <3>4. \A b \in Act : act'[b] = "queued" =>
            Target[b] # Own /\ \E i \in DOMAIN queue'[Target[b]] : queue'[Target[b]][i] = b
      <4> SUFFICES ASSUME NEW b \in Act, act'[b] = "queued"
                   PROVE  Target[b] # Own
                          /\ \E i \in DOMAIN queue'[Target[b]] : queue'[Target[b]][i] = b
        OBVIOUS
      <4>1. CASE b = a
        <5>1. /\ Len(queue[p]) + 1 \in DOMAIN queue'[p]
              /\ queue'[p][Len(queue[p]) + 1] = a
          BY <2>0, <3>2
        <5> QED BY <2>0, <3>1, <4>1, <5>1
      <4>2. CASE b # a
        <5>1. act[b] = "queued"
          BY <2>0, <3>3, <4>2
        <5>2. PICK i \in DOMAIN queue[Target[b]] : queue[Target[b]][i] = b
          BY <2>0, <5>1 DEF TasksPlaced
        <5>3. Target[b] \in Pool
          BY <2>0, <5>1 DEF TasksPlaced
        <5>4. i \in DOMAIN queue'[Target[b]] /\ queue'[Target[b]][i] = b
          <6>1. CASE Target[b] = p
            <7>1. i \in 1..Len(queue[p]) /\ queue[p][i] = b
              BY <2>0, <3>2, <5>2, <6>1
            <7>2. i \in DOMAIN Append(queue[p], a) /\ Append(queue[p], a)[i] = queue[p][i]
              BY <2>0, <3>2, <7>1
            <7> QED BY <2>0, <3>2, <6>1, <7>1, <7>2
          <6>2. CASE Target[b] # p
            BY <2>0, <3>2, <5>2, <5>3, <6>2
          <6> QED BY <2>0, <6>1, <6>2
        <5> QED BY <2>0, <5>1, <5>4 DEF TasksPlaced
      <4> QED BY <2>0, <4>1, <4>2
    <3>5. \A w \in Worker : thread[w] = "exited" =>
            PoolOf[w] \in poolClosed /\ queue'[PoolOf[w]] = <<>>
      BY <2>0, <3>1, <3>2 DEF TasksPlaced
    <3> QED BY <2>0, <2>1, <3>1, <3>4, <3>5 DEF TasksPlaced, Quiet
  <2> QED BY <2>0, <2>2, <2>3
<1>5. ASSUME NEW a \in Act, EndActivity(a) PROVE TasksPlaced'
  BY <1>5 DEF EndActivity, TasksPlaced, Quiet
<1>6. ASSUME NEW w \in Thread, Take(w) PROVE TasksPlaced'
  <2>0. /\ queue \in [Pool -> Seq(Act)]
        /\ act \in [Act -> {"new", "leased", "listed", "queued", "running",
                       "gone", "refused"}]
        /\ usable \subseteq Pool
        /\ thread \in [Thread -> {"absent", "idle", "running", "exited"}]
        /\ doing \in [Thread -> Act \cup {None}] /\ None \notin Act /\ Own \notin Pool
        /\ PoolOf \in [Thread -> Pool] /\ Target \in [Act -> Pool \cup {Own}]
        /\ Worker \subseteq Thread
    OBVIOUS
  <2> HIDE CloseAssumption DEF CloseAssumption, CloseInv, TypeOK, Thread, Caller
  <2> DEFINE p == PoolOf[w]
             h == Head(queue[p])
  <2>1. p \in Pool /\ queue[p] \in Seq(Act) /\ queue[p] # <<>>
    <3>1. p \in Pool
      BY <2>0, <1>6
    <3> QED BY <2>0, <1>6, <3>1 DEF Take
  <2>2. /\ h = queue[p][1] /\ 1 \in DOMAIN queue[p] /\ h \in Act /\ act[h] = "queued"
        /\ Target[h] = p
    BY <2>0, <2>1 DEF CloseInv, Lives
  <2>3. /\ queue' = [queue EXCEPT ![p] = Tail(@)] /\ thread[w] = "idle"
        /\ thread' = [thread EXCEPT ![w] = "running"]
        /\ doing' = [doing EXCEPT ![w] = h] /\ Become(h, "running")
        /\ UNCHANGED <<poolClosed, drainStarted, calls>>
    BY <2>0, <1>6 DEF Take
  <2>4. doing[w] = None
    BY <2>0, <2>3 DEF CloseInv, Lives
  <2>5. (\A x \in Thread : doing[x] # None => Target[doing[x]] = PoolOf[x])'
    BY <2>0, <2>2, <2>3 DEF TasksPlaced
  <2>6. (\A a \in Act :
           act[a] = "running" /\ Target[a] # Own => \E x \in Thread : doing[x] = a)'
    <3> SUFFICES ASSUME NEW a \in Act, act'[a] = "running", Target[a] # Own
                 PROVE  \E x \in Thread : doing'[x] = a
      OBVIOUS
    <3>1. CASE a = h
      BY <2>0, <2>3, <3>1
    <3>2. CASE a # h
      <4>1. PICK x \in Thread : doing[x] = a
        BY <2>0, <2>3, <3>2 DEF TasksPlaced
      <4>2. doing'[x] = a
        BY <2>0, <2>3, <2>4, <4>1
      <4> QED BY <2>0, <4>2
    <3> QED BY <2>0, <3>1, <3>2
  <2>7. (\A a \in Act : act[a] = "queued" =>
           Target[a] # Own /\ \E i \in DOMAIN queue[Target[a]] : queue[Target[a]][i] = a)'
    <3> SUFFICES ASSUME NEW a \in Act, act'[a] = "queued"
                 PROVE  Target[a] # Own
                        /\ \E i \in DOMAIN queue'[Target[a]] : queue'[Target[a]][i] = a
      OBVIOUS
    <3>1. a # h /\ act[a] = "queued"
      BY <2>0, <2>2, <2>3
    <3>2. PICK i \in DOMAIN queue[Target[a]] : queue[Target[a]][i] = a
      BY <2>0, <3>1 DEF TasksPlaced
    <3>3. Target[a] \in Pool
      BY <2>0, <3>1 DEF TasksPlaced
    <3>4. CASE Target[a] = p
      <4>1. i # 1 /\ i \in 1..Len(queue[p]) /\ queue[p][i] = a
        BY <2>0, <2>1, <2>2, <3>1, <3>2, <3>4
      <4>2. i - 1 \in 1..(Len(queue[p]) - 1)
        BY <2>0, <2>1, <4>1
      <4>3. /\ Tail(queue[p]) \in Seq(Act) /\ Len(Tail(queue[p])) = Len(queue[p]) - 1
            /\ \A j \in 1..(Len(queue[p]) - 1) : Tail(queue[p])[j] = queue[p][j + 1]
        BY <2>0, <2>1
      <4>4. i - 1 \in DOMAIN Tail(queue[p]) /\ Tail(queue[p])[i - 1] = a
        BY <2>0, <4>1, <4>2, <4>3
      <4>5. queue'[Target[a]] = Tail(queue[p])
        BY <2>0, <2>1, <2>3, <3>4
      <4>6. Target[a] # Own
        BY <2>0, <3>1 DEF TasksPlaced
      <4> QED BY <2>0, <4>4, <4>5, <4>6
    <3>5. CASE Target[a] # p
      <4>1. Target[a] # Own
        BY <2>0, <3>1 DEF TasksPlaced
      <4> QED BY <2>0, <2>3, <3>2, <3>3, <3>5, <4>1
    <3> QED BY <2>0, <3>4, <3>5
  <2>8. (\A x \in Worker : thread[x] = "exited" =>
           PoolOf[x] \in poolClosed /\ queue[PoolOf[x]] = <<>>)'
    BY <2>0, <2>1, <2>3 DEF TasksPlaced
  <2> QED BY <2>0, <2>3, <2>5, <2>6, <2>7, <2>8 DEF TasksPlaced, Quiet
<1>7. ASSUME NEW w \in Thread, Exit(w) PROVE TasksPlaced'
  BY <1>7 DEF Exit, TasksPlaced, Quiet
<1>8. ASSUME NEW c \in Caller, CallClose(c) PROVE TasksPlaced'
  BY <1>8 DEF CallClose, TasksPlaced, Quiet
<1>9. ASSUME NEW c \in Caller, NEW q \in Pool, CallShutdown(c, q) PROVE TasksPlaced'
  BY <1>9 DEF CallShutdown, TasksPlaced, Quiet
<1>10. ASSUME NEW c \in Caller, NEW q \in Pool, CallCreate(c, q) PROVE TasksPlaced'
  BY <1>10 DEF CallCreate, TasksPlaced, Quiet
<1>11. ASSUME NEW c \in Caller, Register(c) PROVE TasksPlaced'
  BY <1>11 DEF Register, TasksPlaced, Quiet
<1>12. ASSUME NEW c \in Caller, EnterClosing(c) PROVE TasksPlaced'
  BY <1>12 DEF EnterClosing, TasksPlaced, Quiet
<1>13. ASSUME NEW c \in Caller, ChooseRole(c) PROVE TasksPlaced'
  BY <1>13 DEF ChooseRole, TasksPlaced, Quiet
<1>14. ASSUME NEW c \in Caller, NextPool(c) PROVE TasksPlaced'
  BY <1>14 DEF NextPool, TasksPlaced, Quiet
<1>15. ASSUME NEW c \in Caller, AwaitActive(c) PROVE TasksPlaced'
  BY <1>15 DEF AwaitActive, TasksPlaced, Quiet
<1>16. ASSUME NEW c \in Caller, FinishClose(c) PROVE TasksPlaced'
  BY <1>16 DEF FinishClose, TasksPlaced, Quiet
<1>17. ASSUME NEW c \in Caller, Follow(c) PROVE TasksPlaced'
  BY <1>17 DEF Follow, TasksPlaced, Quiet
<1>18. ASSUME NEW c \in Caller, Leave(c) PROVE TasksPlaced'
  BY <1>18 DEF Leave, TasksPlaced, Quiet
<1>19. ASSUME NEW c \in Caller, CloseQueue(c) PROVE TasksPlaced'
  BY <1>19 DEF CloseQueue, TasksPlaced, Quiet
<1>20. ASSUME NEW c \in Caller, AwaitSubmissions(c) PROVE TasksPlaced'
  BY <1>20 DEF AwaitSubmissions, TasksPlaced, Quiet
<1>21. ASSUME NEW c \in Caller, StartHelpers(c) PROVE TasksPlaced'
  <2> DEFINE p == cur[c]
             start == /\ p \notin drainStarted
                      /\ \E w \in Worker : PoolOf[w] = p /\ OnWorker(c, w)
  <2>1. /\ drainStarted' = IF start THEN drainStarted \cup {p} ELSE drainStarted
        /\ UNCHANGED <<doing, act, queue, poolClosed, calls>>
        /\ pc[c] = "helpers" /\ \A w \in Worker : thread'[w] = thread[w]
    BY <1>21 DEF StartHelpers
  <2>2. start => ~Quiet(p)
    <3> SUFFICES ASSUME NEW w \in Worker, PoolOf[w] = p, OnWorker(c, w) PROVE ~Quiet(p)
      OBVIOUS
    <3>1. c \in Act /\ doing[w] = c /\ c # None
      BY DEF OnWorker
    <3>2. Target[c] = p /\ calls[c] > 0
      BY <2>1, <3>1 DEF TasksPlaced, Lives
    <3> QED BY <3>1, <3>2 DEF Quiet
  <2>3. \A q \in drainStarted' : ~Quiet(q)
    BY <2>1, <2>2 DEF TasksPlaced
  <2> QED BY <2>1, <2>3 DEF TasksPlaced, Quiet
<1>22. ASSUME NEW c \in Caller, JoinNext(c) PROVE TasksPlaced'
  BY <1>22 DEF JoinNext, TasksPlaced, Quiet
<1>23. ASSUME NEW c \in Caller, Joined(c) PROVE TasksPlaced'
  BY <1>23 DEF Joined, TasksPlaced, Quiet
<1>24. ASSUME NEW c \in Caller, AllJoined(c) PROVE TasksPlaced'
  BY <1>24 DEF AllJoined, TasksPlaced, Quiet
<1>25. ASSUME NEW c \in Caller, EndShutdown(c) PROVE TasksPlaced'
  BY <1>25 DEF EndShutdown, TasksPlaced, Quiet
<1>26. CASE UNCHANGED vars
  BY <1>26 DEF vars, TasksPlaced, Quiet
<1> QED
  BY <1>1, <1>2, <1>3, <1>4, <1>5, <1>6, <1>7, <1>8, <1>9, <1>10, <1>11, <1>12, <1>13,
     <1>14, <1>15, <1>16, <1>17, <1>18, <1>19, <1>20, <1>21, <1>22, <1>23, <1>24, <1>25,
     <1>26
  DEF Next, ActStep, CallStep

\* Every step keeps the handles of open pools together.
LEMMA StepHandles ==
  ASSUME CloseInv, HandlesKept, [Next]_vars
  PROVE  HandlesKept'
<1> USE CloseAssumption
    DEF CloseAssumption, CloseInv, TypeOK, Become, Goto, Call, MayCall, gateVars,
        poolVars, runVars, joinVars, callVars, Thread, Caller
<1>1. ASSUME NEW a \in Act, BeginActivity(a) PROVE HandlesKept'
  BY <1>1 DEF BeginActivity, HandlesKept, Taking, WorkersOf, Calling
<1>2. ASSUME NEW a \in Act, StartThread(a) PROVE HandlesKept'
  BY <1>2 DEF StartThread, HandlesKept, Taking, WorkersOf, Calling
<1>3. ASSUME NEW a \in Act, BeginSubmission(a) PROVE HandlesKept'
  BY <1>3 DEF BeginSubmission, HandlesKept, Taking, WorkersOf, Calling
<1>4. ASSUME NEW a \in Act, Enqueue(a) PROVE HandlesKept'
  BY <1>4 DEF Enqueue, HandlesKept, Taking, WorkersOf, Calling
<1>5. ASSUME NEW a \in Act, EndActivity(a) PROVE HandlesKept'
  BY <1>5 DEF EndActivity, HandlesKept, Taking, WorkersOf, Calling
<1>6. ASSUME NEW w \in Thread, Take(w) PROVE HandlesKept'
  BY <1>6 DEF Take, HandlesKept, Taking, WorkersOf, Calling
<1>7. ASSUME NEW w \in Thread, Exit(w) PROVE HandlesKept'
  BY <1>7 DEF Exit, HandlesKept, Taking, WorkersOf, Calling
<1>8. ASSUME NEW c \in Caller, CallClose(c) PROVE HandlesKept'
  BY <1>8 DEF CallClose, HandlesKept, Taking, WorkersOf, Calling
<1>9. ASSUME NEW c \in Caller, NEW q \in Pool, CallShutdown(c, q) PROVE HandlesKept'
  <2>1. /\ op'[c] = "shutdown" /\ cur'[c] = q /\ pc'[c] = "guard"
        /\ \A x \in Caller \ {c} : pc'[x] = pc[x] /\ op'[x] = op[x] /\ cur'[x] = cur[x]
        /\ UNCHANGED <<registered, created, poolClosed, workers, todo, first>>
        /\ q \in usable
    BY <1>9 DEF CallShutdown
  <2>2. q \in created
    BY <2>1 DEF FreshPools
  <2>3. \A x \in Caller : Taking(x)' => Taking(x) /\ cur'[x] = cur[x]
    BY <2>1 DEF Taking
  <2>4. (\A x \in Caller :
           /\ todo[x] \subseteq created
           /\ op[x] = "shutdown" \/ pc[x] \in {"qclose", "pending", "helpers"}
                => cur[x] \in created
           /\ Taking(x) => cur[x] \in poolClosed /\ workers[cur[x]] = WorkersOf(cur[x]))'
    BY <2>1, <2>2, <2>3 DEF HandlesKept, WorkersOf
  <2> QED BY <2>1, <2>3, <2>4 DEF HandlesKept, WorkersOf
<1>10. ASSUME NEW c \in Caller, NEW q \in Pool, CallCreate(c, q) PROVE HandlesKept'
  BY <1>10 DEF CallCreate, HandlesKept, Taking, WorkersOf, Calling
<1>11. ASSUME NEW c \in Caller, Register(c) PROVE HandlesKept'
  <2>1. op[c] = "create" /\ pc[c] = "register" /\ cur[c] \in created /\ cur[c] \in Pool
    BY <1>11 DEF Register, Calling, FreshPools, Creating
  <2>2. /\ pc'[c] \in {"qclose", "leave"} /\ \A x \in Caller \ {c} : pc'[x] = pc[x]
        /\ registered' \subseteq registered \cup {cur[c]}
        /\ UNCHANGED <<created, poolClosed, workers, todo, first, op, cur>>
    BY <1>11 DEF Register
  <2>3. \A x \in Caller : Taking(x)' <=> Taking(x)
    BY <2>1, <2>2 DEF Taking
  <2> QED BY <2>1, <2>2, <2>3 DEF HandlesKept
<1>12. ASSUME NEW c \in Caller, EnterClosing(c) PROVE HandlesKept'
  BY <1>12 DEF EnterClosing, HandlesKept, Taking, WorkersOf, Calling
<1>13. ASSUME NEW c \in Caller, ChooseRole(c) PROVE HandlesKept'
  <2>1. /\ pc[c] = "gate" /\ pc'[c] \in {"pools", "follow", "leave"}
        /\ \A x \in Caller \ {c} : pc'[x] = pc[x] /\ todo'[x] = todo[x]
        /\ UNCHANGED <<created, poolClosed, workers, first, op, cur>>
    BY <1>13 DEF ChooseRole
  <2>2. registered' \subseteq registered /\ todo'[c] \subseteq registered \cup todo[c]
    BY <1>13 DEF ChooseRole
  <2>3. \A x \in Caller : Taking(x)' <=> Taking(x)
    BY <2>1 DEF Taking
  <2> QED BY <2>1, <2>2, <2>3 DEF HandlesKept
<1>14. ASSUME NEW c \in Caller, NextPool(c) PROVE HandlesKept'
  <2>0. /\ pc \in [Caller -> PC] /\ cur \in [Caller -> Pool \cup {None}]
        /\ todo \in [Caller -> SUBSET Pool] /\ first \in [Caller -> BOOLEAN]
    OBVIOUS
  <2> HIDE CloseAssumption DEF CloseAssumption, CloseInv, TypeOK, Thread, Caller
  <2>1. /\ pc[c] = "pools" /\ op[c] = "close"
        /\ UNCHANGED <<registered, created, poolClosed, workers, first, op>>
        /\ \A x \in Caller \ {c} : pc'[x] = pc[x] /\ cur'[x] = cur[x] /\ todo'[x] = todo[x]
    BY <2>0, <1>14 DEF NextPool, CloseInv, Calling
  <2>2. CASE todo[c] = {}
    BY <2>0, <1>14, <2>1, <2>2 DEF NextPool, HandlesKept, Taking
  <2>3. CASE todo[c] # {}
    <3>1. PICK p \in todo[c] : /\ todo' = [todo EXCEPT ![c] = @ \ {p}]
                               /\ cur' = [cur EXCEPT ![c] = p]
                               /\ pc' = [pc EXCEPT ![c] = "qclose"]
      BY <2>0, <1>14, <2>3 DEF NextPool
    <3>2. todo'[c] \subseteq todo[c] /\ cur'[c] = p /\ pc'[c] = "qclose"
      BY <2>0, <3>1
    <3>4. p \in created
      BY <2>0, <3>1 DEF HandlesKept
    <3>3. \A x \in Caller : Taking(x)' <=> Taking(x)
      BY <2>0, <2>1, <3>2 DEF Taking
    <3>5. \A x \in Caller : Taking(x) => x # c /\ cur'[x] = cur[x]
      BY <2>0, <2>1 DEF Taking
    <3>6. (\A x \in Caller :
             /\ todo[x] \subseteq created
             /\ op[x] = "shutdown" \/ pc[x] \in {"qclose", "pending", "helpers"}
                  => cur[x] \in created)'
      BY <2>0, <2>1, <3>2, <3>4 DEF HandlesKept
    <3>7. (\A x \in Caller :
             Taking(x) => cur[x] \in poolClosed /\ workers[cur[x]] = WorkersOf(cur[x]))'
      BY <2>0, <2>1, <3>3, <3>5 DEF HandlesKept, WorkersOf
    <3>8. (\A c1, c2 \in Caller : Taking(c1) /\ Taking(c2) /\ cur[c1] = cur[c2] => c1 = c2)'
      BY <2>0, <3>3, <3>5 DEF HandlesKept
    <3> QED BY <2>0, <2>1, <3>6, <3>7, <3>8 DEF HandlesKept, WorkersOf
  <2> QED BY <2>0, <2>2, <2>3
<1>15. ASSUME NEW c \in Caller, AwaitActive(c) PROVE HandlesKept'
  BY <1>15 DEF AwaitActive, HandlesKept, Taking, WorkersOf, Calling
<1>16. ASSUME NEW c \in Caller, FinishClose(c) PROVE HandlesKept'
  BY <1>16 DEF FinishClose, HandlesKept, Taking, WorkersOf, Calling
<1>17. ASSUME NEW c \in Caller, Follow(c) PROVE HandlesKept'
  BY <1>17 DEF Follow, HandlesKept, Taking, WorkersOf, Calling
<1>18. ASSUME NEW c \in Caller, Leave(c) PROVE HandlesKept'
  BY <1>18 DEF Leave, HandlesKept, Taking, WorkersOf, Calling
<1>19. ASSUME NEW c \in Caller, CloseQueue(c) PROVE HandlesKept'
  <2>0. /\ pc \in [Caller -> PC] /\ cur \in [Caller -> Pool \cup {None}]
        /\ todo \in [Caller -> SUBSET Pool] /\ first \in [Caller -> BOOLEAN]
    OBVIOUS
  <2> HIDE CloseAssumption DEF CloseAssumption, CloseInv, TypeOK, Thread, Caller
  <2> DEFINE p == cur[c]
  <2>1. /\ pc[c] = "qclose" /\ first'[c] = (p \notin poolClosed) /\ pc'[c] = "pending"
        /\ poolClosed' = poolClosed \cup {p}
        /\ UNCHANGED <<registered, created, workers, todo, op, cur>>
        /\ \A x \in Caller \ {c} : pc'[x] = pc[x] /\ first'[x] = first[x]
    BY <2>0, <1>19 DEF CloseQueue
  <2>2. p \in created
    BY <2>0, <2>1 DEF HandlesKept
  <2>3. \A x \in Caller : Taking(x)' => Taking(x) \/ (x = c /\ p \notin poolClosed)
    BY <2>0, <2>1 DEF Taking
  <2>4. \A x \in Caller : Taking(x) => cur[x] \in poolClosed
    BY DEF HandlesKept
  <2>5. (\A x \in Caller :
           Taking(x) => cur[x] \in poolClosed /\ workers[cur[x]] = WorkersOf(cur[x]))'
    BY <2>0, <2>1, <2>2, <2>3 DEF HandlesKept, WorkersOf
  <2>6. (\A c1, c2 \in Caller : Taking(c1) /\ Taking(c2) /\ cur[c1] = cur[c2] => c1 = c2)'
    BY <2>0, <2>1, <2>3, <2>4 DEF HandlesKept
  <2>7. (\A x \in Caller :
           /\ todo[x] \subseteq created
           /\ op[x] = "shutdown" \/ pc[x] \in {"qclose", "pending", "helpers"}
                => cur[x] \in created)'
    BY <2>0, <2>1 DEF HandlesKept
  <2> QED BY <2>0, <2>1, <2>5, <2>6, <2>7 DEF HandlesKept, WorkersOf
<1>20. ASSUME NEW c \in Caller, AwaitSubmissions(c) PROVE HandlesKept'
  BY <1>20 DEF AwaitSubmissions, HandlesKept, Taking, WorkersOf, Calling
<1>21. ASSUME NEW c \in Caller, StartHelpers(c) PROVE HandlesKept'
  BY <1>21 DEF StartHelpers, HandlesKept, Taking, WorkersOf, Calling
<1>22. ASSUME NEW c \in Caller, JoinNext(c) PROVE HandlesKept'
  BY <1>22 DEF JoinNext, HandlesKept, Taking, WorkersOf, Calling
<1>23. ASSUME NEW c \in Caller, Joined(c) PROVE HandlesKept'
  BY <1>23 DEF Joined, HandlesKept, Taking, WorkersOf, Calling
<1>24. ASSUME NEW c \in Caller, AllJoined(c) PROVE HandlesKept'
  BY <1>24 DEF AllJoined, HandlesKept, Taking, WorkersOf, Calling
<1>25. ASSUME NEW c \in Caller, EndShutdown(c) PROVE HandlesKept'
  BY <1>25 DEF EndShutdown, HandlesKept, Taking, WorkersOf, Calling
<1>26. CASE UNCHANGED vars
  BY <1>26 DEF vars, HandlesKept, Taking, WorkersOf, Calling
<1> QED
  BY <1>1, <1>2, <1>3, <1>4, <1>5, <1>6, <1>7, <1>8, <1>9, <1>10, <1>11, <1>12, <1>13,
     <1>14, <1>15, <1>16, <1>17, <1>18, <1>19, <1>20, <1>21, <1>22, <1>23, <1>24, <1>25,
     <1>26
  DEF Next, ActStep, CallStep

\* A step that does not concern the call of x.
Same(x) == /\ pc'[x] = pc[x] /\ op'[x] = op[x] /\ cur'[x] = cur[x] /\ first'[x] = first[x]
           /\ joins'[x] = joins[x] /\ joining'[x] = joining[x]

\* What is joined of the pool of a call stays joined.
LEMMA JoinedKept ==
  ASSUME CloseInv, HandlesKept, WorkersJoined, [Next]_vars,
         \A x \in Caller : Same(x) \/ AllJoinedOf(x)'
  PROVE  WorkersJoined'
<1> SUFFICES ASSUME NEW x \in Caller, Same(x), op[x] = "shutdown", first[x], Quiet(cur[x])',
                    NEW w \in WorkersOf(cur[x])
             PROVE  /\ pc[x] = "join" =>
                         w \in joins[x] \/ joining[x] = w \/ thread'[w] = "exited"
                    /\ pc[x] \in {"joinhelpers", "leave"} => thread'[w] = "exited"
  BY DEF WorkersJoined, AllJoinedOf, Same, WorkersOf
<1>1. \A b \in Act : calls'[b] = 0 => calls[b] = 0
  BY CallsGrow DEF CloseInv, TypeOK, Caller
<1>2. Quiet(cur[x])
  BY <1>1 DEF Quiet, Same
<1>3. thread[w] = "exited" => thread'[w] = "exited"
  BY ExitedStays DEF WorkersOf, HandlesKept
<1> QED BY <1>2, <1>3 DEF WorkersJoined, AllJoinedOf

\* Only a task that has called makes shutdown_inner skip a worker.
LEMMA QuietNotSkipped ==
  ASSUME CloseInv, TasksPlaced, NEW c \in Caller, pc[c] # "idle",
         NEW w \in WorkersOf(cur[c]), Quiet(cur[c])
  PROVE  ~Skipped(c, w)
<1> USE CloseAssumption DEF CloseAssumption, CloseInv, TypeOK, Caller, Thread
<1>1. w \in Worker /\ PoolOf[w] = cur[c]
  BY DEF WorkersOf
<1>2. ASSUME NEW a \in Act, doing[w] = a, pc[a] # "idle" PROVE FALSE
  <2>1. calls[a] > 0 /\ a # None
    BY <1>2 DEF Lives
  <2>2. Target[a] = cur[c]
    BY <1>1, <1>2, <2>1 DEF TasksPlaced
  <2> QED BY <2>1, <2>2 DEF Quiet
<1>3. ~OnWorker(c, w)
  BY <1>2 DEF OnWorker
<1>4. doing[w] \in closing => FALSE
  BY <1>2 DEF Lives
<1> QED BY <1>3, <1>4 DEF Skipped

\* Every step keeps the joins of a quiet pool complete.
LEMMA StepJoined ==
  ASSUME CloseInv, CloseInv', TasksPlaced, HandlesKept, WorkersJoined, [Next]_vars
  PROVE  WorkersJoined'
<1> USE CloseAssumption
    DEF CloseAssumption, CloseInv, TypeOK, Become, Goto, Call, MayCall, gateVars,
        poolVars, runVars, joinVars, callVars, Thread, Caller
<1>1. ASSUME UNCHANGED <<pc, op, cur, joinVars>> PROVE WorkersJoined'
  BY <1>1, JoinedKept DEF Same
<1>2. ASSUME NEW c \in Caller, \A x \in Caller \ {c} : Same(x),
             op'[c] # "shutdown" \/ pc'[c] \notin {"join", "joinhelpers", "leave"}
      PROVE  WorkersJoined'
  BY <1>2, JoinedKept DEF AllJoinedOf
<1>3. ASSUME NEW a \in Act, BeginActivity(a) \/ ActStep(a) PROVE WorkersJoined'
  BY <1>1, <1>3
  DEF BeginActivity, ActStep, StartThread, BeginSubmission, Enqueue, EndActivity
<1>4. ASSUME NEW w \in Thread, Take(w) \/ Exit(w) PROVE WorkersJoined'
  BY <1>1, <1>4 DEF Take, Exit
<1>5. ASSUME NEW c \in Caller, CallClose(c) PROVE WorkersJoined'
  BY <1>2, <1>5 DEF CallClose, Same
<1>6. ASSUME NEW c \in Caller, NEW q \in Pool, CallShutdown(c, q) PROVE WorkersJoined'
  BY <1>2, <1>6 DEF CallShutdown, Same
<1>7. ASSUME NEW c \in Caller, NEW q \in Pool, CallCreate(c, q) PROVE WorkersJoined'
  BY <1>2, <1>7 DEF CallCreate, Same
<1>8. ASSUME NEW c \in Caller,
             Register(c) \/ ChooseRole(c) \/ AwaitActive(c) \/ FinishClose(c) \/ Follow(c)
      PROVE  WorkersJoined'
  <2>1. op[c] # "shutdown" /\ UNCHANGED op
    BY <1>8 DEF Register, ChooseRole, AwaitActive, FinishClose, Follow, Calling
  <2>2. \A x \in Caller \ {c} : Same(x)
    BY <1>8 DEF Register, ChooseRole, AwaitActive, FinishClose, Follow, Same
  <2> QED BY <1>2, <2>1, <2>2
<1>9. ASSUME NEW c \in Caller, NextPool(c) PROVE WorkersJoined'
  <2>1. op[c] # "shutdown" /\ UNCHANGED op
    BY <1>9 DEF NextPool, Calling
  <2>2. \A x \in Caller \ {c} : Same(x)
    BY <1>9 DEF NextPool, Same
  <2> QED BY <1>2, <2>1, <2>2
<1>10. ASSUME NEW c \in Caller, EnterClosing(c) \/ CloseQueue(c) \/ AwaitSubmissions(c)
       PROVE  WorkersJoined'
  <2>1. pc'[c] \notin {"join", "joinhelpers", "leave"}
    BY <1>10 DEF EnterClosing, CloseQueue, AwaitSubmissions
  <2>2. \A x \in Caller \ {c} : Same(x)
    BY <1>10 DEF EnterClosing, CloseQueue, AwaitSubmissions, Same
  <2> QED BY <1>2, <2>1, <2>2
<1>11. ASSUME NEW c \in Caller, Leave(c) PROVE WorkersJoined'
  BY <1>2, <1>11 DEF Leave, Same
<1>12. ASSUME NEW c \in Caller, StartHelpers(c) PROVE WorkersJoined'
  <2>1. /\ pc[c] = "helpers" /\ UNCHANGED <<cur, first, op, calls>> /\ pc'[c] = "join"
        /\ joins' = [joins EXCEPT ![c] = Handles(c)]
        /\ \A x \in Caller \ {c} : Same(x)
    BY <1>12 DEF StartHelpers, Same
  <2>2. first[c] => joins'[c] = WorkersOf(cur[c])
    BY <2>1 DEF HandlesKept, Taking
  <2>3. AllJoinedOf(c)'
    BY <2>1, <2>2 DEF AllJoinedOf, WorkersOf
  <2> QED BY <2>1, <2>3, JoinedKept
<1>13. ASSUME NEW c \in Caller, JoinNext(c) PROVE WorkersJoined'
  <2>1. /\ pc[c] = "join" /\ joining[c] = None
        /\ UNCHANGED <<pc, cur, first, op, calls, thread>>
        /\ \A x \in Caller \ {c} : Same(x)
    BY <1>13 DEF JoinNext, Same
  <2>2. PICK w \in joins[c] :
          /\ joins'[c] = joins[c] \ {w}
          /\ joining'[c] = IF Skipped(c, w) THEN None ELSE w
    BY <1>13 DEF JoinNext
  <2>3. ASSUME op[c] = "shutdown", first[c], Quiet(cur[c]), w \in WorkersOf(cur[c])
        PROVE  joining'[c] = w
    BY <2>1, <2>2, <2>3, QuietNotSkipped
  <2>4. \A v \in WorkersOf(cur[c]) : v # None
    BY DEF WorkersOf
  <2>5. AllJoinedOf(c)'
    BY <2>1, <2>2, <2>3, <2>4 DEF AllJoinedOf, WorkersJoined, Quiet, WorkersOf
  <2> QED BY <2>1, <2>5, JoinedKept
<1>14. ASSUME NEW c \in Caller, Joined(c) PROVE WorkersJoined'
  <2>1. /\ joining'[c] = None /\ thread[joining[c]] = "exited" /\ pc[c] = "join"
        /\ UNCHANGED <<pc, cur, first, op, calls, thread, joins>>
        /\ \A x \in Caller \ {c} : Same(x)
    BY <1>14 DEF Joined, Same, Calling
  <2>2. AllJoinedOf(c)'
    BY <2>1 DEF AllJoinedOf, WorkersJoined, Quiet, WorkersOf
  <2> QED BY <2>1, <2>2, JoinedKept
<1>15. ASSUME NEW c \in Caller, AllJoined(c) PROVE WorkersJoined'
  <2>1. /\ pc[c] = "join" /\ joins[c] = {} /\ joining[c] = None /\ pc'[c] = "joinhelpers"
        /\ UNCHANGED <<cur, first, op, calls, thread, joins, joining>>
        /\ \A x \in Caller \ {c} : Same(x)
    BY <1>15 DEF AllJoined, Same
  <2>2. \A v \in WorkersOf(cur[c]) : v # None
    BY DEF WorkersOf
  <2>3. AllJoinedOf(c)'
    BY <2>1, <2>2 DEF AllJoinedOf, WorkersJoined, Quiet, WorkersOf
  <2> QED BY <2>1, <2>3, JoinedKept
<1>16. ASSUME NEW c \in Caller, EndShutdown(c) PROVE WorkersJoined'
  <2>1. /\ pc[c] = "joinhelpers" /\ pc'[c] \in {"pools", "leave"}
        /\ UNCHANGED <<cur, first, op, calls, thread, joins, joining>>
        /\ \A x \in Caller \ {c} : Same(x)
    BY <1>16 DEF EndShutdown, Same
  <2>2. AllJoinedOf(c)'
    BY <2>1 DEF AllJoinedOf, WorkersJoined, Quiet, WorkersOf
  <2> QED BY <2>1, <2>2, JoinedKept
<1>17. CASE UNCHANGED vars
  BY <1>1, <1>17 DEF vars
<1> QED
  BY <1>3, <1>4, <1>5, <1>6, <1>7, <1>8, <1>9, <1>10, <1>11, <1>12, <1>13, <1>14, <1>15,
     <1>16, <1>17
  DEF Next, CallStep

\* Nobody has taken a handle or a task when the runtime starts.
LEMMA InitPlaced == Init => TasksPlaced /\ HandlesKept
<1> SUFFICES ASSUME Init PROVE TasksPlaced /\ HandlesKept
  OBVIOUS
<1>1. TasksPlaced
  BY CloseAssumption DEF Init, TasksPlaced, CloseAssumption, Thread
<1>2. HandlesKept
  BY CloseAssumption DEF Init, HandlesKept, Taking, WorkersOf, CloseAssumption
<1> QED BY <1>1, <1>2

\* The shutdown that closes a pool returns only when all the pool has admitted is
\* over, unless a task of the pool has itself called: every worker has been joined
\* and has left an empty queue behind.
THEOREM ShutdownDrains == Spec => []FirstShutdownDrains
<1>1. Init => CloseInv /\ TasksPlaced /\ HandlesKept /\ WorkersJoined
  BY InitClose, InitPlaced DEF Init, WorkersJoined, AllJoinedOf
<1>2. CloseInv /\ TasksPlaced /\ HandlesKept /\ WorkersJoined /\ [Next]_vars
        => CloseInv' /\ TasksPlaced' /\ HandlesKept' /\ WorkersJoined'
  BY StepClose, StepPlaced, StepHandles, StepJoined
<1>3. CloseInv /\ TasksPlaced /\ HandlesKept /\ WorkersJoined => FirstShutdownDrains
  <2> SUFFICES ASSUME CloseInv, TasksPlaced, HandlesKept, WorkersJoined,
                      NEW c \in Caller, pc[c] = "leave", op[c] = "shutdown", first[c],
                      NEW a \in Act, Target[a] = cur[c], act[a] \in {"queued", "running"},
                      Quiet(cur[c])
               PROVE  FALSE
    BY DEF FirstShutdownDrains, Quiet, CloseInv, TypeOK, Caller
  <2> USE CloseAssumption DEF CloseAssumption, CloseInv, TypeOK, Thread
  <2>1. cur[c] \in Pool
    BY DEF Calling
  <2>2. \A w \in WorkersOf(cur[c]) : thread[w] = "exited"
    BY DEF WorkersJoined, AllJoinedOf
  <2>3. queue[cur[c]] = <<>>
    BY <2>1, <2>2, WorkersAssumption DEF WorkersAssumption, WorkersOf, TasksPlaced
  <2>4. act[a] = "running"
    BY <2>3 DEF TasksPlaced
  <2>5. PICK w \in Thread : doing[w] = a
    BY <2>1, <2>4 DEF TasksPlaced
  <2>6. PoolOf[w] = cur[c] /\ thread[w] = "running"
    BY <2>5 DEF TasksPlaced, Lives
  <2>7. w \in Helper /\ cur[c] \in drainStarted
    BY <2>2, <2>5, <2>6 DEF WorkersOf, Lives
  <2> QED BY <2>7 DEF TasksPlaced
<1> QED BY <1>1, <1>2, <1>3, PTL DEF Spec

-----------------------------------------------------------------------------
(* StandsOnlyBehindCallers: why nothing else can stand still.                *)

\* A submission lease belongs to a task on its way into the pool.
PendingListed ==
  \A p \in Pool : \A a \in pending[p] : act[a] = "listed" /\ Target[a] = p

\* Somebody owns a close that drains, and no activity follows one.
DrainOwned ==
  /\ draining => \E c \in Caller : Owner(c)
  /\ \A c \in Caller : pc[c] = "follow" => c \in Ext

\* The threads of a pool exist, and a busy one runs a running activity.
ThreadsThere ==
  /\ \A w \in Worker : PoolOf[w] \in created => thread[w] # "absent"
  /\ \A h \in Helper : PoolOf[h] \in drainStarted => thread[h] # "absent"
  /\ \A w \in Thread : thread[w] = "running" => doing[w] # None /\ act[doing[w]] = "running"

\* shutdown_inner joins only threads of the pool it has closed.
JoinsClosed ==
  \A c \in Caller :
    /\ pc[c] \in {"pending", "helpers", "join", "joinhelpers"}
         => cur[c] \in created \cap poolClosed
    /\ helps[c] => cur[c] \in drainStarted
    /\ pc[c] = "join" => \A w \in joins[c] : PoolOf[w] = cur[c]
    /\ joining[c] # None => PoolOf[joining[c]] = cur[c]

ToStandStill == PendingListed /\ DrainOwned /\ ThreadsThere /\ JoinsClosed

\* Every step keeps the submission leases with their tasks.
LEMMA StepPending ==
  ASSUME CloseInv, PendingListed, [Next]_vars
  PROVE  PendingListed'
<1> USE CloseAssumption
    DEF CloseAssumption, CloseInv, TypeOK, Become, Goto, Call, MayCall, gateVars,
        poolVars, runVars, joinVars, callVars, Thread, Caller
<1>1. ASSUME UNCHANGED <<pending, act>> PROVE PendingListed'
  BY <1>1 DEF PendingListed
<1>2. ASSUME NEW a \in Act, BeginActivity(a) PROVE PendingListed'
  BY <1>2 DEF BeginActivity, PendingListed
<1>3. ASSUME NEW a \in Act, StartThread(a) PROVE PendingListed'
  BY <1>3 DEF StartThread, PendingListed
<1>4. ASSUME NEW a \in Act, BeginSubmission(a) PROVE PendingListed'
  BY <1>4 DEF BeginSubmission, PendingListed
<1>5. ASSUME NEW a \in Act, Enqueue(a) PROVE PendingListed'
  BY <1>5 DEF Enqueue, PendingListed
<1>6. ASSUME NEW a \in Act, EndActivity(a) PROVE PendingListed'
  BY <1>6 DEF EndActivity, PendingListed
<1>7. ASSUME NEW w \in Thread, Take(w) PROVE PendingListed'
  BY <1>7 DEF Take, PendingListed, Lives
<1>8. ASSUME NEW w \in Thread, Exit(w) PROVE PendingListed'
  BY <1>1, <1>8 DEF Exit
<1>9. ASSUME NEW c \in Caller, NEW q \in Pool, CallShutdown(c, q) \/ CallCreate(c, q)
      PROVE  PendingListed'
  BY <1>1, <1>9 DEF CallShutdown, CallCreate
<1>10. ASSUME NEW c \in Caller, CallClose(c) PROVE PendingListed'
  BY <1>1, <1>10 DEF CallClose
<1>11. ASSUME NEW c \in Caller, CallStep(c) PROVE PendingListed'
  BY <1>1, <1>11
  DEF CallStep, Register, EnterClosing, ChooseRole, NextPool, AwaitActive, FinishClose,
      Follow, Leave, CloseQueue, AwaitSubmissions, StartHelpers, JoinNext, Joined,
      AllJoined, EndShutdown
<1>12. CASE UNCHANGED vars
  BY <1>1, <1>12 DEF vars
<1> QED
  BY <1>2, <1>3, <1>4, <1>5, <1>6, <1>7, <1>8, <1>9, <1>10, <1>11, <1>12 DEF Next, ActStep

\* Every step keeps an owner for the draining close.
LEMMA StepDrain ==
  ASSUME CloseInv, DrainOwned, [Next]_vars
  PROVE  DrainOwned'
<1> USE CloseAssumption
    DEF CloseAssumption, CloseInv, TypeOK, Become, Goto, Call, MayCall, gateVars,
        poolVars, runVars, joinVars, callVars, Thread, Caller
<1>1. ASSUME NEW c \in Caller, draining' => draining,
             \A x \in Caller \ {c} : pc'[x] = pc[x] /\ op'[x] = op[x],
             Owner(c) => Owner(c)', pc'[c] = "follow" => pc[c] = "follow"
      PROVE  DrainOwned'
  BY <1>1 DEF DrainOwned, Owner
<1>2. ASSUME UNCHANGED <<draining, pc, op>> PROVE DrainOwned'
  BY <1>2 DEF DrainOwned, Owner
<1>3. ASSUME NEW a \in Act, BeginActivity(a) \/ ActStep(a) PROVE DrainOwned'
  BY <1>2, <1>3
  DEF BeginActivity, ActStep, StartThread, BeginSubmission, Enqueue, EndActivity
<1>4. ASSUME NEW w \in Thread, Take(w) \/ Exit(w) PROVE DrainOwned'
  BY <1>2, <1>4 DEF Take, Exit
<1>5. ASSUME NEW c \in Caller, CallClose(c) PROVE DrainOwned'
  BY <1>1, <1>5 DEF CallClose, Owner
<1>6. ASSUME NEW c \in Caller, NEW q \in Pool, CallShutdown(c, q) \/ CallCreate(c, q)
      PROVE  DrainOwned'
  <2>1. /\ UNCHANGED draining /\ pc[c] = "idle" /\ pc'[c] # "follow"
        /\ \A x \in Caller \ {c} : pc'[x] = pc[x] /\ op'[x] = op[x]
    BY <1>6 DEF CallShutdown, CallCreate
  <2> QED BY <1>1, <2>1 DEF Owner
<1>7. ASSUME NEW c \in Caller, ChooseRole(c) PROVE DrainOwned'
  BY <1>7 DEF ChooseRole, DrainOwned, Owner, Calling
<1>8. ASSUME NEW c \in Caller, FinishClose(c) PROVE DrainOwned'
  BY <1>8 DEF FinishClose, DrainOwned
<1>9. ASSUME NEW c \in Caller,
             \/ Register(c) \/ EnterClosing(c) \/ NextPool(c) \/ AwaitActive(c)
             \/ Follow(c) \/ Leave(c) \/ CloseQueue(c) \/ AwaitSubmissions(c)
             \/ StartHelpers(c) \/ AllJoined(c) \/ EndShutdown(c)
      PROVE  DrainOwned'
  <2>1. UNCHANGED draining /\ \A x \in Caller \ {c} : pc'[x] = pc[x] /\ op'[x] = op[x]
    BY <1>9
    DEF Register, EnterClosing, NextPool, AwaitActive, Follow, Leave, CloseQueue,
        AwaitSubmissions, StartHelpers, AllJoined, EndShutdown
  <2>2. (Owner(c) => Owner(c)') /\ pc'[c] # "follow"
    BY <1>9
    DEF Register, EnterClosing, NextPool, AwaitActive, Follow, Leave, CloseQueue,
        AwaitSubmissions, StartHelpers, AllJoined, EndShutdown, Owner, Calling
  <2> QED BY <1>1, <2>1, <2>2
<1>10. ASSUME NEW c \in Caller, JoinNext(c) \/ Joined(c) PROVE DrainOwned'
  BY <1>2, <1>10 DEF JoinNext, Joined
<1>11. CASE UNCHANGED vars
  BY <1>2, <1>11 DEF vars
<1> QED
  BY <1>3, <1>4, <1>5, <1>6, <1>7, <1>8, <1>9, <1>10, <1>11 DEF Next, CallStep

\* Every step keeps the threads of the pools.
LEMMA StepThreads ==
  ASSUME CloseInv, ThreadsThere, [Next]_vars
  PROVE  ThreadsThere'
<1> USE CloseAssumption
    DEF CloseAssumption, CloseInv, TypeOK, Become, Goto, Call, MayCall, gateVars,
        poolVars, runVars, joinVars, callVars, Thread, Caller
<1>1. ASSUME UNCHANGED <<created, drainStarted, thread, doing, act>> PROVE ThreadsThere'
  BY <1>1 DEF ThreadsThere
<1>2. ASSUME NEW a \in Act, BeginActivity(a) PROVE ThreadsThere'
  BY <1>2 DEF BeginActivity, ThreadsThere
<1>3. ASSUME NEW a \in Act, StartThread(a) PROVE ThreadsThere'
  BY <1>3 DEF StartThread, ThreadsThere
<1>4. ASSUME NEW a \in Act, BeginSubmission(a) PROVE ThreadsThere'
  BY <1>4 DEF BeginSubmission, ThreadsThere
<1>5. ASSUME NEW a \in Act, Enqueue(a) PROVE ThreadsThere'
  BY <1>5 DEF Enqueue, ThreadsThere
<1>6. ASSUME NEW a \in Act, EndActivity(a) PROVE ThreadsThere'
  BY <1>6 DEF EndActivity, ThreadsThere
<1>7. ASSUME NEW w \in Thread, Take(w) PROVE ThreadsThere'
  BY <1>7 DEF Take, ThreadsThere, Lives
<1>8. ASSUME NEW w \in Thread, Exit(w) PROVE ThreadsThere'
  BY <1>8 DEF Exit, ThreadsThere
<1>9. ASSUME NEW c \in Caller, CallClose(c) PROVE ThreadsThere'
  BY <1>1, <1>9 DEF CallClose
<1>10. ASSUME NEW c \in Caller, NEW q \in Pool, CallShutdown(c, q) PROVE ThreadsThere'
  BY <1>1, <1>10 DEF CallShutdown
<1>11. ASSUME NEW c \in Caller, NEW q \in Pool, CallCreate(c, q) PROVE ThreadsThere'
  BY <1>11 DEF CallCreate, ThreadsThere
<1>12. ASSUME NEW c \in Caller, StartHelpers(c) PROVE ThreadsThere'
  BY <1>12 DEF StartHelpers, ThreadsThere
<1>13. ASSUME NEW c \in Caller, CallStep(c), ~StartHelpers(c) PROVE ThreadsThere'
  BY <1>1, <1>13
  DEF CallStep, Register, EnterClosing, ChooseRole, NextPool, AwaitActive, FinishClose,
      Follow, Leave, CloseQueue, AwaitSubmissions, JoinNext, Joined, AllJoined, EndShutdown
<1>14. CASE UNCHANGED vars
  BY <1>1, <1>14 DEF vars
<1> QED
  BY <1>2, <1>3, <1>4, <1>5, <1>6, <1>7, <1>8, <1>9, <1>10, <1>11, <1>12, <1>13, <1>14
  DEF Next, ActStep

\* Every step keeps the joins of a shutdown within the pool it has closed.
LEMMA StepJoinsClosed ==
  ASSUME CloseInv, HandlesKept, JoinsClosed, [Next]_vars
  PROVE  JoinsClosed'
<1> USE CloseAssumption
    DEF CloseAssumption, CloseInv, TypeOK, Become, Goto, Call, MayCall, gateVars,
        poolVars, runVars, joinVars, callVars, Thread, Caller
<1>1. ASSUME UNCHANGED <<created, poolClosed, drainStarted, pc, cur, joinVars>>
      PROVE  JoinsClosed'
  BY <1>1 DEF JoinsClosed
<1>2. ASSUME NEW a \in Act, BeginActivity(a) \/ ActStep(a) PROVE JoinsClosed'
  BY <1>1, <1>2
  DEF BeginActivity, ActStep, StartThread, BeginSubmission, Enqueue, EndActivity
<1>3. ASSUME NEW w \in Thread, Take(w) \/ Exit(w) PROVE JoinsClosed'
  BY <1>1, <1>3 DEF Take, Exit
<1>4. ASSUME NEW c \in Caller, CallClose(c) PROVE JoinsClosed'
  BY <1>4 DEF CallClose, JoinsClosed, Calling
<1>5. ASSUME NEW c \in Caller, NEW q \in Pool, CallShutdown(c, q) PROVE JoinsClosed'
  BY <1>5 DEF CallShutdown, JoinsClosed, Calling
<1>6. ASSUME NEW c \in Caller, NEW q \in Pool, CallCreate(c, q) PROVE JoinsClosed'
  BY <1>6 DEF CallCreate, JoinsClosed, Calling
<1>7. ASSUME NEW c \in Caller, Register(c) PROVE JoinsClosed'
  BY <1>7 DEF Register, JoinsClosed
<1>8. ASSUME NEW c \in Caller, EnterClosing(c) PROVE JoinsClosed'
  BY <1>8 DEF EnterClosing, JoinsClosed
<1>9. ASSUME NEW c \in Caller, ChooseRole(c) PROVE JoinsClosed'
  BY <1>9 DEF ChooseRole, JoinsClosed
<1>10. ASSUME NEW c \in Caller, NextPool(c) PROVE JoinsClosed'
  BY <1>10 DEF NextPool, JoinsClosed, Calling
<1>11. ASSUME NEW c \in Caller, AwaitActive(c) PROVE JoinsClosed'
  BY <1>11 DEF AwaitActive, JoinsClosed
<1>12. ASSUME NEW c \in Caller, FinishClose(c) PROVE JoinsClosed'
  BY <1>12 DEF FinishClose, JoinsClosed
<1>13. ASSUME NEW c \in Caller, Follow(c) PROVE JoinsClosed'
  BY <1>13 DEF Follow, JoinsClosed
<1>14. ASSUME NEW c \in Caller, Leave(c) PROVE JoinsClosed'
  BY <1>14 DEF Leave, JoinsClosed, Calling
<1>15. ASSUME NEW c \in Caller, CloseQueue(c) PROVE JoinsClosed'
  BY <1>15 DEF CloseQueue, JoinsClosed, HandlesKept
<1>16. ASSUME NEW c \in Caller, AwaitSubmissions(c) PROVE JoinsClosed'
  BY <1>16 DEF AwaitSubmissions, JoinsClosed
<1>17. ASSUME NEW c \in Caller, StartHelpers(c) PROVE JoinsClosed'
  BY <1>17 DEF StartHelpers, JoinsClosed, Calling
<1>18. ASSUME NEW c \in Caller, JoinNext(c) PROVE JoinsClosed'
  BY <1>18 DEF JoinNext, JoinsClosed
<1>19. ASSUME NEW c \in Caller, Joined(c) PROVE JoinsClosed'
  BY <1>19 DEF Joined, JoinsClosed
<1>20. ASSUME NEW c \in Caller, AllJoined(c) PROVE JoinsClosed'
  BY <1>20 DEF AllJoined, JoinsClosed
<1>21. ASSUME NEW c \in Caller, EndShutdown(c) PROVE JoinsClosed'
  BY <1>21 DEF EndShutdown, JoinsClosed
<1>22. CASE UNCHANGED vars
  BY <1>1, <1>22 DEF vars
<1> QED
  BY <1>2, <1>3, <1>4, <1>5, <1>6, <1>7, <1>8, <1>9, <1>10, <1>11, <1>12, <1>13, <1>14,
     <1>15, <1>16, <1>17, <1>18, <1>19, <1>20, <1>21, <1>22
  DEF Next, CallStep

\* CallMoves, ActMoves and ThreadMoves hold where there is a step: in a standstill
\* no call, no activity and no thread takes one.
LEMMA NothingMoves ==
  ASSUME CloseInv, Standstill
  PROVE  /\ \A c \in Caller : ~CallStep(c)
         /\ \A a \in Act : ~ActStep(a)
         /\ \A w \in Thread : ~(Take(w) \/ Exit(w))
<1> USE DEF CloseInv
<1>1. ASSUME NEW c \in Caller, CallStep(c) PROVE FALSE
  <2>1. CallMoves(c)
    <3>1. CASE Joined(c)
      BY <3>1 DEF Joined, CallMoves, Calling
    <3>2. CASE ~Joined(c)
      BY <1>1, <3>2
      DEF CallStep, CallMoves, Register, EnterClosing, ChooseRole, NextPool, AwaitActive,
          FinishClose, Follow, Leave, CloseQueue, AwaitSubmissions, StartHelpers, JoinNext,
          AllJoined, EndShutdown, Calling
    <3> QED BY <3>1, <3>2
  <2> QED BY <2>1 DEF Standstill
<1>2. ASSUME NEW a \in Act, ActStep(a) PROVE FALSE
  BY <1>2
  DEF Standstill, ActStep, ActMoves, StartThread, BeginSubmission, Enqueue, EndActivity
<1>3. ASSUME NEW w \in Thread, Take(w) \/ Exit(w) PROVE FALSE
  BY <1>3 DEF Standstill, ThreadMoves, Take, Exit
<1> QED BY <1>1, <1>2, <1>3

\* A thread that c joins, or a helper that c has started, runs b.
HeldBy(c, b) ==
  \/ \E w \in Worker : joining[c] = w /\ doing[w] = b
  \/ helps[c] /\ \E h \in Helper : PoolOf[h] = cur[c] /\ doing[h] = b

\* In a standstill a live worker of a closed pool, or a live helper, runs an
\* activity that is inside a call.
LEMMA BusyInCall ==
  ASSUME CloseInv, ThreadsThere, Standstill, NEW w \in Thread,
         thread[w] \in {"idle", "running"},
         thread[w] = "idle" => PoolOf[w] \in poolClosed \/ w \in Helper
  PROVE  doing[w] \in Act /\ pc[doing[w]] # "idle"
<1> USE CloseAssumption DEF CloseInv, TypeOK
<1>1. thread[w] = "running"
  BY DEF Standstill, ThreadMoves
<1>2. doing[w] \in Act /\ act[doing[w]] = "running"
  BY <1>1 DEF ThreadsThere
<1> QED BY <1>2 DEF Standstill, ActMoves

\* In a standstill a call is held up as the owner, as a follower, or by a thread
\* whose activity is inside a call too.
LEMMA HeldUp ==
  ASSUME CloseInv, ToStandStill, Standstill, NEW c \in Caller, pc[c] # "idle"
  PROVE  \/ pc[c] = "await" /\ ~OnlyClosersLeft
         \/ pc[c] = "follow" /\ draining
         \/ \E b \in Act : pc[b] # "idle" /\ HeldBy(c, b)
<1> USE CloseAssumption DEF CloseAssumption, CloseInv, TypeOK, Thread, Caller, ToStandStill
<1>1. ~CallMoves(c)
  BY DEF Standstill
<1>2. CASE pc[c] = "pending" /\ pending[cur[c]] # {}
  <2>1. cur[c] \in Pool /\ cur[c] \in poolClosed
    BY <1>2 DEF JoinsClosed
  <2>2. PICK a \in pending[cur[c]] : act[a] = "listed" /\ Target[a] = cur[c]
    BY <1>2, <2>1 DEF PendingListed
  <2>3. a \in Act /\ ActMoves(a)
    BY <2>1, <2>2 DEF ActMoves
  <2> QED BY <2>3 DEF Standstill
<1>3. CASE joining[c] # None /\ thread[joining[c]] # "exited"
  <2> DEFINE w == joining[c]
  <2>1. w \in Worker /\ PoolOf[w] = cur[c] /\ cur[c] \in created \cap poolClosed
    BY <1>3 DEF JoinsClosed, Calling
  <2>2. w \in Thread /\ thread[w] \in {"idle", "running"}
    BY <1>3, <2>1 DEF ThreadsThere
  <2>3. doing[w] \in Act /\ pc[doing[w]] # "idle"
    BY <2>1, <2>2, BusyInCall
  <2> QED BY <2>1, <2>3 DEF HeldBy
<1>4. CASE /\ helps[c]
           /\ \E h \in Helper : PoolOf[h] = cur[c] /\ thread[h] # "exited"
  <2>1. PICK h \in Helper : PoolOf[h] = cur[c] /\ thread[h] # "exited"
    BY <1>4
  <2>2. h \in Thread /\ thread[h] \in {"idle", "running"}
    BY <1>4, <2>1 DEF ThreadsThere, JoinsClosed
  <2>3. doing[h] \in Act /\ pc[doing[h]] # "idle"
    BY <2>2, BusyInCall
  <2> QED BY <1>4, <2>1, <2>3 DEF HeldBy
<1> QED BY <1>1, <1>2, <1>3, <1>4 DEF CallMoves

\* Activities inside calls cannot all be held by threads: one of them is the owner.
LEMMA OwnerAmongThem ==
  ASSUME CloseInv, ToStandStill, NoWaitCycle, Standstill,
         NEW x \in Act, pc[x] # "idle"
  PROVE  \E o \in Act : pc[o] = "await" /\ ~OnlyClosersLeft
<1> DEFINE S == {a \in Act : pc[a] # "idle"}
<1>1. PICK o \in S : \A b \in S : ~WaitsFor(o, b)
  BY DEF NoWaitCycle
<1>2. o \in Act /\ pc[o] # "idle" /\ o \notin Ext
  BY CloseAssumption DEF CloseAssumption
<1>3. ~\E b \in Act : pc[b] # "idle" /\ HeldBy(o, b)
  BY <1>1 DEF HeldBy, WaitsFor
<1>4. pc[o] # "follow"
  BY <1>2 DEF ToStandStill, DrainOwned, Caller
<1> QED BY <1>2, <1>3, <1>4, HeldUp DEF Caller

\* The activity such an owner awaits is still queued behind callers.
LEMMA AwaitsQueued ==
  ASSUME CloseInv, TasksPlaced, ToStandStill, Counted, Standstill,
         NEW o \in Caller, pc[o] = "await", ~OnlyClosersLeft
  PROVE  \E a \in Act :
           /\ act[a] = "queued" /\ Target[a] \in Pool
           /\ \A w \in Worker : PoolOf[w] = Target[a] =>
                doing[w] \in Act /\ pc[doing[w]] # "idle"
<1> USE CloseAssumption DEF CloseAssumption, CloseInv, TypeOK, Thread, Caller, ToStandStill
<1>1. rtClosed
  BY DEF Calling
<1>2. PICK a \in Leased : a \notin closing
  <2>1. CASE Leased \subseteq closing
    <3>1. closing \subseteq Leased
      BY DEF Lives, Leased
    <3>2. Leased = closing /\ Cardinality(Leased) \in Nat
      BY <2>1, <3>1, LeasedFinite, FS_CardinalityType
    <3> QED BY <3>2 DEF Counted
  <2> QED BY <2>1
<1>3. act[a] # "running"
  <2> SUFFICES ASSUME act[a] = "running" PROVE FALSE
    OBVIOUS
  <2>1. pc[a] # "idle" /\ a \in Caller
    BY DEF Standstill, ActMoves, Leased
  <2>2. op[a] = "create" \/ pc[a] = "guard"
    BY <1>2, <2>1 DEF Calling, Leased
  <2>3. pc[a] # "await" /\ pc[a] # "follow"
    BY <2>1, <2>2 DEF Calling
  <2>4. PICK b \in Act : HeldBy(a, b)
    BY <2>1, <2>3, HeldUp
  <2>5. PICK w \in Worker : joining[a] = w /\ doing[w] = b
    BY <2>1, <2>2, <2>4 DEF HeldBy, Calling
  <2>6. op[a] = "create" /\ pc[a] = "join" /\ PoolOf[w] = cur[a]
    BY <2>1, <2>2, <2>5 DEF Calling
  <2>7. PoolOf[w] \in Pool \ usable
    BY <2>1, <2>6 DEF FreshPools, Creating
  <2> QED BY <2>5, <2>7 DEF FreshPools
<1>4. a \in Act /\ act[a] = "queued"
  BY <1>1, <1>3 DEF Leased, Standstill, ActMoves
<1>5. /\ Target[a] \in Pool /\ queue[Target[a]] # <<>>
  BY <1>4 DEF TasksPlaced
<1>6. Target[a] \in created
  BY <1>5 DEF FreshPools
<1>7. ASSUME NEW w \in Worker, PoolOf[w] = Target[a]
      PROVE  doing[w] \in Act /\ pc[doing[w]] # "idle"
  <2>1. thread[w] \notin {"absent", "exited"}
    BY <1>5, <1>6, <1>7 DEF ThreadsThere, TasksPlaced
  <2>2. thread[w] # "idle"
    BY <1>5, <1>7 DEF Standstill, ThreadMoves
  <2> QED BY <2>1, <2>2, BusyInCall
<1> QED BY <1>4, <1>5, <1>7

\* A runtime stands still in one way only, whatever overlaps in it: an activity
\* owns the close and awaits a task that is queued behind workers inside calls.
THEOREM NothingElseStands == Spec => []StandsOnlyBehindCallers
<1> DEFINE Inv == /\ CloseInv /\ Counted /\ TasksPlaced /\ HandlesKept
                  /\ ToStandStill
<1>1. Init => Inv
  <2> SUFFICES ASSUME Init PROVE Inv
    OBVIOUS
  <2>1. CloseInv /\ TasksPlaced /\ HandlesKept
    BY InitClose, InitPlaced
  <2>2. Leased = {} /\ Counted
    BY FS_EmptySet DEF Init, Leased, Counted
  <2>3. ToStandStill
    BY CloseAssumption
    DEF Init, ToStandStill, PendingListed, DrainOwned, ThreadsThere, JoinsClosed,
        CloseAssumption, Thread
  <2> QED BY <2>1, <2>2, <2>3
<1>2. Inv /\ [Next]_vars => Inv'
  BY StepClose, StepCount, StepPlaced, StepHandles, StepPending, StepDrain, StepThreads,
     StepJoinsClosed DEF ToStandStill
<1>3. Inv /\ NoWaitCycle => StandsOnlyBehindCallers
  <2> SUFFICES ASSUME Inv, NoWaitCycle, Standstill
               PROVE  \E o, a \in Act :
                        /\ pc[o] = "await" /\ act[a] = "queued"
                        /\ \A w \in Worker : PoolOf[w] = Target[a] =>
                             doing[w] # None /\ pc[doing[w]] # "idle"
    BY DEF StandsOnlyBehindCallers
  <2>1. PICK o \in Caller : pc[o] = "await" /\ ~OnlyClosersLeft
    <3>1. CASE \E x \in Act : pc[x] # "idle"
      BY <3>1, OwnerAmongThem DEF Caller
    <3>2. CASE \A x \in Act : pc[x] = "idle"
      <4>1. \A c \in Caller : pc[c] # "idle" =>
              (pc[c] = "await" /\ ~OnlyClosersLeft) \/ (pc[c] = "follow" /\ draining)
        BY <3>2, HeldUp
      <4>2. PICK c \in Caller : pc[c] # "idle"
        BY DEF Standstill
      <4>3. CASE pc[c] = "follow" /\ draining
        <5>1. PICK p \in Caller : Owner(p)
          BY <4>3 DEF ToStandStill, DrainOwned
        <5> QED BY <4>1, <5>1 DEF Owner
      <4> QED BY <4>1, <4>2, <4>3
    <3> QED BY <3>1, <3>2
  <2>2. PICK a \in Act :
          /\ act[a] = "queued" /\ Target[a] \in Pool
          /\ \A w \in Worker : PoolOf[w] = Target[a] =>
               doing[w] \in Act /\ pc[doing[w]] # "idle"
    BY <2>1, AwaitsQueued
  <2>3. PICK w \in Worker : PoolOf[w] = Target[a]
    BY <2>2, WorkersAssumption DEF WorkersAssumption
  <2>4. PICK x \in Act : pc[x] = "await"
    BY <2>2, <2>3, OwnerAmongThem
  <2> QED BY <2>2, <2>4, CloseAssumption DEF CloseAssumption
<1>4. Spec => []Inv
  BY <1>1, <1>2, PTL DEF Spec
<1> QED BY <1>3, <1>4, NoDeadlock, PTL

-----------------------------------------------------------------------------
(* PoolContract: every pool of the runtime keeps what one pool promises.     *)

Phases(p) == [a \in TasksOf(p) |-> PhaseOf(a)]
Answers(p) == [a \in TasksOf(p) |-> IF act[a] = "gone" THEN "reply" ELSE "none"]

\* The contract of pool p sees a step of its own or nothing.
Keeps(p) == Contract(p)!Next \/ UNCHANGED <<queue[p], p \in poolClosed, Phases(p), Answers(p)>>

\* A step that leaves the queue, the close and the tasks' phases of a pool alone.
LEMMA NothingSeen ==
  ASSUME NEW p \in Pool, queue'[p] = queue[p], p \in poolClosed' <=> p \in poolClosed,
         \A a \in TasksOf(p) : /\ PhaseOf(a)' = PhaseOf(a)
                               /\ act'[a] = "gone" <=> act[a] = "gone"
  PROVE  Keeps(p)
<1>1. Phases(p)' = Phases(p)
  BY DEF TasksOf, Phases
<1>2. Answers(p)' = Answers(p)
  BY DEF TasksOf, Answers
<1> QED BY <1>1, <1>2 DEF Keeps

\* When one activity changes its state, no other one's phase or answer changes.
LEMMA OnlyPhase ==
  ASSUME TypeOK, NEW a \in Act, NEW state, Become(a, state), NEW p \in Pool
  PROVE  /\ act'[a] = state
         /\ \A b \in Act \ {a} : PhaseOf(b)' = PhaseOf(b) /\ act'[b] = act[b]
         /\ a \in TasksOf(p) => Phases(p)' = [Phases(p) EXCEPT ![a] = PhaseOf(a)']
         /\ a \in TasksOf(p) /\ state # "gone" /\ act[a] # "gone" => Answers(p)' = Answers(p)
         /\ a \in TasksOf(p) /\ state = "gone" =>
              Answers(p)' = [Answers(p) EXCEPT ![a] = "reply"]
<1>1. act'[a] = state /\ \A b \in Act \ {a} : act'[b] = act[b]
  BY DEF TypeOK, Become
<1>2. \A b \in Act \ {a} : PhaseOf(b)' = PhaseOf(b)
  BY <1>1 DEF PhaseOf
<1>3. TasksOf(p)' = TasksOf(p) /\ TasksOf(p) \subseteq Act
  BY DEF TasksOf
<1>4. Phases(p)' = [b \in TasksOf(p) |-> PhaseOf(b)']
  BY DEF Phases, TasksOf
<1>5. a \in TasksOf(p) => Phases(p)' = [Phases(p) EXCEPT ![a] = PhaseOf(a)']
  BY <1>2, <1>3, <1>4 DEF Phases
<1>6. Answers(p)' = [b \in TasksOf(p) |-> IF act'[b] = "gone" THEN "reply" ELSE "none"]
  BY DEF Answers, TasksOf
<1> QED BY <1>1, <1>2, <1>3, <1>5, <1>6 DEF Answers

\* A step of a caller or of a leaving thread touches the contract only to shut.
LEMMA CallerKeeps ==
  ASSUME CloseInv, NEW p \in Pool, UNCHANGED <<queue, act, poolClosed>>
  PROVE  Keeps(p)
<1>1. \A a \in TasksOf(p) : PhaseOf(a)' = PhaseOf(a) /\ (act'[a] = "gone" <=> act[a] = "gone")
  BY DEF PhaseOf
<1> QED BY <1>1, NothingSeen

\* Admission: at the end of the queue, within the capacity, before the close.
LEMMA EnqueueKeeps ==
  ASSUME CloseInv, NEW a \in Act, Enqueue(a), NEW p \in Pool
  PROVE  Keeps(p)
<1> USE DEF CloseInv
<1>0. act[a] = "listed" /\ queue \in [Pool -> Seq(Act)] /\ UNCHANGED poolClosed
  BY DEF Enqueue, TypeOK
<1>1. CASE rtClosed \/ Target[a] \in poolClosed
  <2>1. Become(a, "refused") /\ UNCHANGED queue
    BY <1>1 DEF Enqueue
  <2>2. act'[a] = "refused" /\ PhaseOf(a)' = PhaseOf(a)
    BY <1>0, <2>1, OnlyPhase DEF PhaseOf
  <2>3. \A b \in Act \ {a} : PhaseOf(b)' = PhaseOf(b) /\ act'[b] = act[b]
    BY <1>0, <2>1, OnlyPhase
  <2>4. \A b \in TasksOf(p) : /\ PhaseOf(b)' = PhaseOf(b)
                              /\ act'[b] = "gone" <=> act[b] = "gone"
    BY <1>0, <2>2, <2>3 DEF TasksOf
  <2> QED BY <1>0, <2>1, <2>4, NothingSeen
<1>2. CASE ~(rtClosed \/ Target[a] \in poolClosed)
  <2>1. /\ Become(a, "queued") /\ Len(queue[Target[a]]) < Capacity
        /\ queue' = [queue EXCEPT ![Target[a]] = Append(@, a)]
    BY <1>2 DEF Enqueue
  <2>2. CASE Target[a] # p
    <3>1. queue'[p] = queue[p] /\ a \notin TasksOf(p)
      BY <1>0, <2>1, <2>2 DEF TasksOf
    <3> QED BY <1>0, <2>1, <3>1, OnlyPhase, NothingSeen DEF TasksOf
  <2>3. CASE Target[a] = p
    <3>1. a \in TasksOf(p) /\ queue'[p] = Append(queue[p], a)
      BY <1>0, <2>1, <2>3 DEF TasksOf
    <3>2. PhaseOf(a) = "new" /\ PhaseOf(a)' = "waiting"
      BY <1>0, <2>1, OnlyPhase DEF PhaseOf
    <3>3. /\ Phases(p)' = [Phases(p) EXCEPT ![a] = "waiting"] /\ Phases(p)[a] = "new"
          /\ Answers(p)' = Answers(p)
      BY <1>0, <2>1, <3>1, <3>2, OnlyPhase DEF Phases
    <3>4. Contract(p)!Admit(a)
      BY <1>0, <1>2, <2>1, <2>3, <3>1, <3>3
      DEF Contract!Admit, Contract!Move, Phases, Answers
    <3> QED BY <3>1, <3>4 DEF Keeps, Contract!Next
  <2> QED BY <2>2, <2>3
<1> QED BY <1>1, <1>2

\* A worker or a helper starts the oldest task of its own pool.
LEMMA TakeKeeps ==
  ASSUME CloseInv, NEW w \in Thread, Take(w), NEW p \in Pool
  PROVE  Keeps(p)
<1> DEFINE q == PoolOf[w]
<1> USE DEF CloseInv
<1>0. q \in Pool /\ queue \in [Pool -> Seq(Act)] /\ UNCHANGED poolClosed
  BY CloseAssumption DEF CloseAssumption, Take, TypeOK
<1>1. /\ queue[q] # <<>> /\ queue' = [queue EXCEPT ![q] = Tail(@)]
      /\ Become(Head(queue[q]), "running")
  BY DEF Take
<1>2. PICK h \in Act : /\ h = Head(queue[q]) /\ act[h] = "queued" /\ Target[h] = q
                      /\ Become(h, "running")
  BY <1>0, <1>1 DEF Lives
<1>3. CASE p # q
  <2>1. queue'[p] = queue[p] /\ h \notin TasksOf(p)
    BY <1>0, <1>1, <1>2, <1>3 DEF TasksOf
  <2>2. \A b \in Act \ {h} : PhaseOf(b)' = PhaseOf(b) /\ act'[b] = act[b]
    BY <1>1, <1>2, OnlyPhase
  <2> QED BY <1>0, <2>1, <2>2, NothingSeen DEF TasksOf
<1>4. CASE p = q
  <2>1. h \in TasksOf(p) /\ queue'[p] = Tail(queue[p])
    BY <1>0, <1>1, <1>2, <1>4 DEF TasksOf
  <2>2. act'[h] = "running"
    BY <1>1, <1>2, OnlyPhase
  <2>3. PhaseOf(h) = "waiting" /\ PhaseOf(h)' = "running"
    BY <1>2, <2>2 DEF PhaseOf
  <2>4. /\ Phases(p)' = [Phases(p) EXCEPT ![h] = "running"] /\ Phases(p)[h] = "waiting"
        /\ Answers(p)' = Answers(p)
    <3>1. act[h] # "gone"
      BY <1>2
    <3> QED BY <1>1, <1>2, <2>1, <2>3, <3>1, OnlyPhase DEF Phases
  <2>5. Contract(p)!Start(h)
    BY <1>0, <1>1, <1>2, <1>4, <2>1, <2>4
    DEF Contract!Start, Contract!Move, Phases, Answers
  <2> QED BY <2>1, <2>5 DEF Keeps, Contract!Next
<1> QED BY <1>3, <1>4

\* The end of a started task is its one answer.
LEMMA EndKeeps ==
  ASSUME CloseInv, NEW a \in Act, EndActivity(a), NEW p \in Pool
  PROVE  Keeps(p)
<1> USE DEF CloseInv
<1>1. act[a] = "running" /\ Become(a, "gone") /\ UNCHANGED <<queue, poolClosed>>
  BY DEF EndActivity, poolVars
<1>2. CASE a \notin TasksOf(p)
  <2>1. \A b \in Act \ {a} : PhaseOf(b)' = PhaseOf(b) /\ act'[b] = act[b]
    BY <1>1, OnlyPhase
  <2> QED BY <1>1, <1>2, <2>1, NothingSeen DEF TasksOf
<1>3. CASE a \in TasksOf(p)
  <2>1. act'[a] = "gone"
    BY <1>1, OnlyPhase
  <2>2. PhaseOf(a) = "running" /\ PhaseOf(a)' = "answered"
    BY <1>1, <2>1 DEF PhaseOf
  <2>3. /\ Phases(p)' = [Phases(p) EXCEPT ![a] = "answered"] /\ Phases(p)[a] = "running"
        /\ Answers(p)' = [Answers(p) EXCEPT ![a] = "reply"]
    BY <1>1, <1>3, <2>2, OnlyPhase DEF Phases
  <2>4. Contract(p)!Answer(a, "reply")
    BY <1>1, <2>3 DEF Contract!Answer, Contract!Move, Phases, Answers
  <2> QED BY <1>3, <2>4 DEF Keeps, Contract!Next
<1> QED BY <1>2, <1>3

\* Every step of every thread, activity and caller keeps the contract of every pool.
LEMMA StepKeeps ==
  ASSUME CloseInv, [Next]_vars, NEW p \in Pool
  PROVE  Keeps(p)
<1> USE DEF gateVars, poolVars, runVars, joinVars, callVars
<1>1. ASSUME NEW a \in Act, BeginActivity(a) \/ BeginSubmission(a) PROVE Keeps(p)
  <2>1. PICK state \in {"refused", "leased", "listed"} : Become(a, state)
    BY <1>1 DEF BeginActivity, BeginSubmission
  <2>2. /\ act[a] \in {"new", "leased"} /\ UNCHANGED <<queue, poolClosed>>
    BY <1>1 DEF BeginActivity, BeginSubmission
  <2>3. /\ act'[a] = state
        /\ \A b \in Act \ {a} : PhaseOf(b)' = PhaseOf(b) /\ act'[b] = act[b]
    BY <2>1, OnlyPhase DEF CloseInv
  <2>4. PhaseOf(a)' = PhaseOf(a) /\ act[a] # "gone" /\ act'[a] # "gone"
    BY <2>2, <2>3 DEF PhaseOf
  <2> QED BY <2>2, <2>3, <2>4, NothingSeen DEF TasksOf
<1>2. ASSUME NEW a \in Act, StartThread(a) PROVE Keeps(p)
  <2>0. PICK state \in {"running", "refused"} : Become(a, state)
    BY <1>2 DEF StartThread
  <2>1. Target[a] = Own /\ UNCHANGED <<queue, poolClosed>>
    BY <1>2 DEF StartThread
  <2>2. a \notin TasksOf(p)
    BY <2>1, CloseAssumption DEF TasksOf, CloseAssumption
  <2>3. \A b \in Act \ {a} : PhaseOf(b)' = PhaseOf(b) /\ act'[b] = act[b]
    BY <2>0, OnlyPhase DEF CloseInv
  <2> QED BY <2>1, <2>2, <2>3, NothingSeen DEF TasksOf
<1>3. ASSUME NEW c \in Caller, CloseQueue(c) PROVE Keeps(p)
  <2>1. poolClosed' = poolClosed \cup {cur[c]} /\ UNCHANGED <<queue, act>>
    BY <1>3 DEF CloseQueue
  <2>2. \A a \in TasksOf(p) : PhaseOf(a)' = PhaseOf(a)
    BY <2>1 DEF PhaseOf
  <2>3. CASE p \in poolClosed \/ p # cur[c]
    BY <2>1, <2>2, <2>3, NothingSeen
  <2>4. CASE p \notin poolClosed /\ p = cur[c]
    <3>1. Phases(p)' = Phases(p) /\ Answers(p)' = Answers(p)
      BY <2>1, <2>2 DEF Phases, Answers, TasksOf
    <3>2. Contract(p)!Shut
      BY <2>1, <2>4, <3>1 DEF Contract!Shut, Phases, Answers
    <3> QED BY <3>2 DEF Keeps, Contract!Next
  <2> QED BY <2>3, <2>4
<1>4. ASSUME NEW c \in Caller, CallStep(c), ~CloseQueue(c) PROVE Keeps(p)
  <2>1. UNCHANGED <<queue, act, poolClosed>>
    BY <1>4
    DEF CallStep, Register, EnterClosing, ChooseRole, NextPool, AwaitActive, FinishClose,
        Follow, Leave, AwaitSubmissions, StartHelpers, JoinNext, Joined, AllJoined,
        EndShutdown
  <2> QED BY <2>1, CallerKeeps
<1>5. ASSUME NEW c \in Caller,
             CallClose(c) \/ \E q \in Pool : CallShutdown(c, q) \/ CallCreate(c, q)
      PROVE  Keeps(p)
  <2>1. UNCHANGED <<queue, act, poolClosed>>
    BY <1>5 DEF CallClose, CallShutdown, CallCreate
  <2> QED BY <2>1, CallerKeeps
<1>6. ASSUME NEW w \in Thread, Exit(w) PROVE Keeps(p)
  BY <1>6, CallerKeeps DEF Exit
<1>7. CASE UNCHANGED vars
  BY <1>7, CallerKeeps DEF vars
<1> QED
  BY <1>1, <1>2, <1>3, <1>4, <1>5, <1>6, <1>7, EnqueueKeeps, TakeKeeps, EndKeeps
  DEF Next, ActStep

\* Closing, shutting down and creating pools, however they overlap, break no
\* promise that a single pool makes: bounded admission that ends with the close,
\* start in order of submission and one answer for each admitted task.
THEOREM PoolsKeepContract == ASSUME NEW p \in Pool PROVE Spec => Contract(p)!Spec
<1>1. Init => Contract(p)!Init
  BY DEF Init, Contract!Init, PhaseOf, TasksOf
<1>2. CloseInv /\ [Next]_vars => [Contract(p)!Next]_(Contract(p)!vars)
  <2>1. Keeps(p) => [Contract(p)!Next]_(Contract(p)!vars)
    BY DEF Keeps, Phases, Answers, Contract!vars
  <2> QED BY <2>1, StepKeeps
<1>3. Spec => []CloseInv
  BY InitClose, StepClose, PTL DEF Spec
<1> QED BY <1>1, <1>2, <1>3, PTL DEF Spec, Contract!Spec

=============================================================================
