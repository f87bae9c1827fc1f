------------------------ MODULE RuntimeClose_proofs ------------------------
(***************************************************************************)
(* Proofs about RuntimeClose for every number of pools, workers, helpers,   *)
(* activities, external threads, calls and every capacity.                  *)
(***************************************************************************)
EXTENDS RuntimeClose, FiniteSetTheorems, TLAPS

-----------------------------------------------------------------------------
(* What every call keeps true: CloseInv is inductive.                       *)

Creating(c) == op[c] = "create" /\ pc[c] \notin {"idle", "leave"}

\* A pool that create has not handed out is empty, and one creator has it.
FreshPools ==
  /\ usable \subseteq created
  /\ \A c \in Caller : Creating(c) => cur[c] \in created \ usable
  /\ \A c1, c2 \in Caller :
       Creating(c1) /\ Creating(c2) /\ cur[c1] = cur[c2] => c1 = c2
  /\ \A a \in Act : /\ act[a] = "leased" => Target[a] \in usable \cup {Own}
                    /\ act[a] = "listed" => Target[a] \in usable
  /\ \A p \in Pool \ usable :
       /\ queue[p] = <<>>
       /\ \A w \in Thread : PoolOf[w] = p => doing[w] = None

\* A queue holds queued activities of its pool, each once; only running ones
\* call, and only inside a call do they close.
Lives ==
  /\ \A p \in Pool : \A i, j \in DOMAIN queue[p] :
       /\ act[queue[p][i]] = "queued" /\ Target[queue[p][i]] = p
       /\ queue[p][i] = queue[p][j] => i = j
  /\ \A a \in Act : pc[a] # "idle" => act[a] = "running" /\ calls[a] > 0
  /\ \A a \in closing : pc[a] # "idle"
  /\ \A w \in Thread : doing[w] # None => thread[w] = "running"
  /\ \A h \in Helper : PoolOf[h] \notin drainStarted => thread[h] = "absent"

\* Past its guard an activity is closing, except while it creates a pool; it
\* joins and helps only inside shutdown_inner.
Calling ==
  /\ \A c \in Caller :
       /\ pc[c] \notin {"idle", "guard"} /\ op[c] # "create" /\ c \in Act
            => c \in closing
       /\ pc[c] \in {"gate", "pools", "await", "finish", "follow"} => op[c] = "close"
       /\ pc[c] = "register" => op[c] = "create"
       /\ pc[c] = "guard" => op[c] \in {"close", "shutdown"}
       /\ op[c] \in {"shutdown", "create"} => cur[c] \in Pool
       /\ op[c] = "close" /\ pc[c] \notin {"idle", "guard", "gate"} => rtClosed
       /\ pc[c] \in {"qclose", "pending", "helpers", "join", "joinhelpers"}
            => cur[c] \in Pool
       /\ helps[c] => pc[c] \in {"join", "joinhelpers"}
       /\ joining[c] # None => pc[c] = "join"
       /\ op[c] = "create" =>
            /\ ~helps[c]
            /\ \A w \in joins[c] : pc[c] = "join" => PoolOf[w] = cur[c]
            /\ joining[c] # None => PoolOf[joining[c]] = cur[c]
  /\ \A p \in Pool : \A w \in workers[p] : PoolOf[w] = p

\* From the moment the owner has compared the counters, only callers remain.
OnlyCallersLeft ==
  /\ finished => rtClosed
  /\ finished \/ (\E c \in Caller : pc[c] = "finish") =>
       \A a \in Leased : act[a] = "running" /\ calls[a] > 0

CloseInv == TypeOK /\ FreshPools /\ Lives /\ Calling

-----------------------------------------------------------------------------
USE DEF Accepted, OnActivity, OnlyClosersLeft, Handles

-----------------------------------------------------------------------------
(* CloseInv, the inductive invariant: one step per action, and under it one  *)
(* per conjunct.                                                            *)

\* The initial state satisfies the typing and the bookkeeping of the calls.
LEMMA InitClose == Init => CloseInv
<1> USE CloseAssumption DEF CloseAssumption
<1> SUFFICES ASSUME Init PROVE CloseInv
  OBVIOUS
<1>1. TypeOK
  <2>1. workers \in [Pool -> SUBSET Worker]
    BY DEF Init
  <2>2. queue \in [Pool -> Seq(Act)]
    BY DEF Init
  <2>3. thread \in [Thread -> {"absent", "idle", "running", "exited"}]
    BY DEF Init
  <2>4. rtClosed \in BOOLEAN /\ draining \in BOOLEAN /\ finished \in BOOLEAN
    BY DEF Init
  <2>5. /\ pc \in [Caller -> PC]
        /\ op \in [Caller -> {"none", "close", "shutdown", "create"}]
        /\ first \in [Caller -> BOOLEAN] /\ helps \in [Caller -> BOOLEAN]
    BY DEF Init, PC
  <2>6. /\ cur \in [Caller -> Pool \cup {None}]
        /\ joining \in [Caller -> Worker \cup {None}]
    BY DEF Init
  <2> QED BY <2>1, <2>2, <2>3, <2>4, <2>5, <2>6 DEF Init, TypeOK
<1>2. FreshPools
  BY DEF Init, FreshPools, Creating
<1>3. Lives
  BY DEF Init, Lives, Thread, Caller
<1>4. Calling
  BY DEF Init, Calling, Thread, Caller
<1> QED BY <1>1, <1>2, <1>3, <1>4 DEF CloseInv

\* Every action of every thread preserves them.
LEMMA StepClose == CloseInv /\ [Next]_vars => CloseInv'
<1> USE CloseAssumption
    DEF CloseAssumption, CloseInv, TypeOK, Become, Goto, Call, MayCall, PC, gateVars,
        poolVars, runVars, joinVars, callVars, Thread, Caller
<1> SUFFICES ASSUME CloseInv, [Next]_vars PROVE CloseInv'
  OBVIOUS
<1>1. ASSUME NEW a \in Act, BeginActivity(a) PROVE CloseInv'
  <2>1. TypeOK'
    <3>1. CASE rtClosed
      <4>1. Become(a, "refused") /\ UNCHANGED active
        BY <1>1, <3>1 DEF BeginActivity
      <4> QED BY <1>1, <4>1 DEF BeginActivity
    <3>2. CASE ~rtClosed
      <4>1. Become(a, "leased") /\ active' = active + 1
        BY <1>1, <3>2 DEF BeginActivity
      <4> QED BY <1>1, <4>1 DEF BeginActivity
    <3> QED BY <3>1, <3>2
  <2>2. FreshPools'
    BY <1>1 DEF BeginActivity, FreshPools, Creating
  <2>3. Lives'
    BY <1>1 DEF BeginActivity, Lives
  <2>4. Calling'
    BY <1>1 DEF BeginActivity, Calling
  <2> QED BY <2>1, <2>2, <2>3, <2>4
<1>2. ASSUME NEW a \in Act, StartThread(a) PROVE CloseInv'
  <2>1. TypeOK'
    <3>1. CASE Become(a, "running") /\ UNCHANGED active
      BY <1>2, <3>1 DEF StartThread
    <3>2. CASE Become(a, "refused") /\ active' = active - 1
      BY <1>2, <3>2 DEF StartThread
    <3> QED BY <1>2, <3>1, <3>2 DEF StartThread
  <2>2. FreshPools'
    BY <1>2 DEF StartThread, FreshPools, Creating
  <2>3. Lives'
    BY <1>2 DEF StartThread, Lives
  <2>4. Calling'
    BY <1>2 DEF StartThread, Calling
  <2> QED BY <2>1, <2>2, <2>3, <2>4
<1>3. ASSUME NEW a \in Act, BeginSubmission(a) PROVE CloseInv'
  <2>1. TypeOK'
    BY <1>3 DEF BeginSubmission
  <2>2. FreshPools'
    BY <1>3 DEF BeginSubmission, FreshPools, Creating
  <2>3. Lives'
    BY <1>3 DEF BeginSubmission, Lives
  <2>4. Calling'
    BY <1>3 DEF BeginSubmission, Calling
  <2> QED BY <2>1, <2>2, <2>3, <2>4
<1>4. ASSUME NEW a \in Act, Enqueue(a) PROVE CloseInv'
  <2> DEFINE p == Target[a]
             Frame == /\ pending' = [pending EXCEPT ![p] = @ \ {a}]
                      /\ UNCHANGED <<gateVars, closing, created, usable, poolClosed,
                                    drainStarted, workers, thread, doing, pc, callVars>>
  <2>1. p \in Pool /\ p \in usable /\ act[a] = "listed"
    BY <1>4 DEF Enqueue, FreshPools
  <2>2. CASE rtClosed \/ p \in poolClosed
    <3>1. Become(a, "refused") /\ active' = active - 1 /\ UNCHANGED queue /\ Frame
      BY <1>4, <2>2 DEF Enqueue
    <3>2. TypeOK'
      BY <2>1, <3>1
    <3>3. FreshPools'
      BY <2>1, <3>1 DEF FreshPools, Creating
    <3>4. Lives'
      BY <2>1, <3>1 DEF Lives
    <3>5. Calling'
      BY <3>1 DEF Calling
    <3> QED BY <3>2, <3>3, <3>4, <3>5
  <2>3. CASE ~(rtClosed \/ p \in poolClosed)
    <3>1. /\ Become(a, "queued") /\ UNCHANGED active
          /\ queue' = [queue EXCEPT ![p] = Append(@, a)] /\ Frame
      BY <1>4, <2>3 DEF Enqueue
    <3>2. TypeOK'
      <4>1. Append(queue[p], a) \in Seq(Act)
        BY <2>1
      <4> QED BY <2>1, <3>1, <4>1
    <3>3. FreshPools'
      BY <2>1, <3>1, <3>2 DEF FreshPools, Creating
    <3>4. Lives'
      BY <2>1, <3>1, <3>2 DEF Lives
    <3>5. Calling'
      BY <3>1 DEF Calling
    <3> QED BY <3>2, <3>3, <3>4, <3>5
  <2> QED BY <2>2, <2>3
<1>5. ASSUME NEW a \in Act, EndActivity(a) PROVE CloseInv'
  <2>1. TypeOK'
    BY <1>5 DEF EndActivity
  <2>2. FreshPools'
    BY <1>5 DEF EndActivity, FreshPools, Creating
  <2>3. Lives'
    <3>1. act[a] = "running" /\ a \notin closing
      BY <1>5 DEF EndActivity, Lives
    <3>2. (\A q \in Pool : \A i, j \in DOMAIN queue[q] :
             /\ act[queue[q][i]] = "queued" /\ Target[queue[q][i]] = q
             /\ queue[q][i] = queue[q][j] => i = j)'
      BY <1>5, <3>1 DEF EndActivity, Lives
    <3>3. (\A b \in Act : pc[b] # "idle" => act[b] = "running" /\ calls[b] > 0)'
      BY <1>5 DEF EndActivity, Lives
    <3>4. (\A w \in Thread : doing[w] # None => thread[w] = "running")'
      BY <1>5 DEF EndActivity, Lives
    <3>5. (\A h \in Helper : PoolOf[h] \notin drainStarted => thread[h] = "absent")'
      BY <1>5 DEF EndActivity, Lives
    <3> QED BY <1>5, <3>2, <3>3, <3>4, <3>5 DEF EndActivity, Lives
  <2>4. Calling'
    BY <1>5 DEF EndActivity, Calling
  <2> QED BY <2>1, <2>2, <2>3, <2>4
<1>6. ASSUME NEW w \in Thread, Take(w) PROVE CloseInv'
  <2>1. TypeOK'
    BY <1>6 DEF Take
  <2>2. FreshPools'
    BY <1>6 DEF Take, FreshPools, Creating
  <2>3. Lives'
    BY <1>6 DEF Take, Lives
  <2>4. Calling'
    BY <1>6 DEF Take, Calling
  <2> QED BY <2>1, <2>2, <2>3, <2>4
<1>7. ASSUME NEW w \in Thread, Exit(w) PROVE CloseInv'
  <2>1. TypeOK'
    BY <1>7 DEF Exit
  <2>2. FreshPools'
    BY <1>7 DEF Exit, FreshPools, Creating
  <2>3. Lives'
    BY <1>7 DEF Exit, Lives
  <2>4. Calling'
    BY <1>7 DEF Exit, Calling
  <2> QED BY <2>1, <2>2, <2>3, <2>4
<1>8. ASSUME NEW c \in Caller, CallClose(c) PROVE CloseInv'
  <2>1. TypeOK'
    BY <1>8 DEF CallClose
  <2>2. FreshPools'
    BY <1>8 DEF CallClose, FreshPools, Creating
  <2>3. Lives'
    BY <1>8 DEF CallClose, Lives
  <2>4. Calling'
    BY <1>8 DEF CallClose, Calling
  <2> QED BY <2>1, <2>2, <2>3, <2>4
<1>9. ASSUME NEW c \in Caller, NEW p \in Pool, CallShutdown(c, p) PROVE CloseInv'
  <2>1. TypeOK'
    BY <1>9 DEF CallShutdown
  <2>2. FreshPools'
    BY <1>9 DEF CallShutdown, FreshPools, Creating
  <2>3. Lives'
    BY <1>9 DEF CallShutdown, Lives
  <2>4. Calling'
    BY <1>9 DEF CallShutdown, Calling
  <2> QED BY <2>1, <2>2, <2>3, <2>4
<1>10. ASSUME NEW c \in Caller, NEW p \in Pool, CallCreate(c, p) PROVE CloseInv'
  <2>1. TypeOK'
    BY <1>10 DEF CallCreate
  <2>2. FreshPools'
    BY <1>10 DEF CallCreate, FreshPools, Creating
  <2>3. Lives'
    <3>1. \A w \in Worker : PoolOf[w] = p => doing[w] = None
      BY <1>10 DEF CallCreate, FreshPools
    <3>2. UNCHANGED <<queue, act, closing, doing, drainStarted>> /\ Goto(c, "register")
      BY <1>10 DEF CallCreate
    <3>3. (\A a \in Act : pc[a] # "idle" => act[a] = "running" /\ calls[a] > 0)'
      BY <1>10 DEF Lives, CallCreate
    <3>4. (\A w \in Thread : doing[w] # None => thread[w] = "running")'
      BY <1>10, <3>1 DEF Lives, CallCreate
    <3>5. (\A h \in Helper : PoolOf[h] \notin drainStarted => thread[h] = "absent")'
      BY <1>10 DEF Lives, CallCreate
    <3> QED BY <3>2, <3>3, <3>4, <3>5 DEF Lives
  <2>4. Calling'
    BY <1>10 DEF CallCreate, Calling
  <2> QED BY <2>1, <2>2, <2>3, <2>4
<1>11. ASSUME NEW c \in Caller, Register(c) PROVE CloseInv'
  <2> DEFINE Frame == UNCHANGED <<rtClosed, draining, finished, active, closing, created,
                                  poolClosed, drainStarted, workers, pending, queue,
                                  runVars, callVars>>
  <2>1. cur[c] \in Pool /\ Creating(c)
    BY <1>11 DEF Register, FreshPools, Creating, Calling
  <2>2. CASE Goto(c, "qclose") /\ UNCHANGED <<registered, usable>>
    <3>1. Goto(c, "qclose") /\ UNCHANGED <<registered, usable>> /\ Frame
      BY <1>11, <2>2 DEF Register
    <3>2. TypeOK'
      BY <3>1
    <3>3. FreshPools'
      BY <2>1, <3>1 DEF FreshPools, Creating
    <3>4. Lives'
      BY <1>11, <3>1 DEF Lives, Register
    <3>5. Calling'
      BY <1>11, <2>1, <3>1 DEF Calling, Register
    <3> QED BY <3>2, <3>3, <3>4, <3>5
  <2>3. CASE /\ Goto(c, "leave") /\ registered' = registered \cup {cur[c]}
             /\ usable' = usable \cup {cur[c]}
    <3>1. /\ Goto(c, "leave") /\ registered' = registered \cup {cur[c]}
          /\ usable' = usable \cup {cur[c]} /\ Frame
      BY <1>11, <2>3 DEF Register
    <3>2. TypeOK'
      BY <2>1, <3>1
    <3>3. FreshPools'
      <4>1. \A x \in Caller : Creating(x)' => Creating(x) /\ cur'[x] = cur[x] /\ x # c
        BY <3>1 DEF Creating
      <4>2. \A x \in Caller : Creating(x) /\ x # c => cur[x] # cur[c]
        BY <2>1 DEF FreshPools
      <4>3. (usable \subseteq created)'
        BY <2>1, <3>1 DEF FreshPools
      <4>4. (\A x \in Caller : Creating(x) => cur[x] \in created \ usable)'
        BY <3>1, <4>1, <4>2 DEF FreshPools
      <4>5. (\A c1, c2 \in Caller :
               Creating(c1) /\ Creating(c2) /\ cur[c1] = cur[c2] => c1 = c2)'
        BY <4>1 DEF FreshPools
      <4> QED BY <3>1, <4>3, <4>4, <4>5 DEF FreshPools
    <3>4. Lives'
      BY <1>11, <3>1 DEF Lives, Register
    <3>5. Calling'
      BY <1>11, <2>1, <3>1 DEF Calling, Register
    <3> QED BY <3>2, <3>3, <3>4, <3>5
  <2> QED BY <1>11, <2>2, <2>3 DEF Register
<1>12. ASSUME NEW c \in Caller, EnterClosing(c) PROVE CloseInv'
  <2>1. TypeOK'
    BY <1>12 DEF EnterClosing
  <2>2. FreshPools'
    BY <1>12 DEF EnterClosing, FreshPools, Creating
  <2>3. Lives'
    BY <1>12 DEF EnterClosing, Lives
  <2>4. Calling'
    BY <1>12 DEF EnterClosing, Calling
  <2> QED BY <2>1, <2>2, <2>3, <2>4
<1>13. ASSUME NEW c \in Caller, ChooseRole(c) PROVE CloseInv'
  <2>1. TypeOK'
    <3>1. CASE rtClosed
      BY <1>13, <3>1 DEF ChooseRole
    <3>2. CASE ~rtClosed
      <4>1. /\ rtClosed' = TRUE /\ draining' = TRUE /\ finished' = FALSE
            /\ todo' = [todo EXCEPT ![c] = registered] /\ registered' = {}
            /\ Goto(c, "pools")
            /\ UNCHANGED <<active, closing, poolVars, runVars, calls, op, cur, joinVars>>
        BY <1>13, <3>2 DEF ChooseRole
      <4> QED BY <4>1
    <3> QED BY <3>1, <3>2
  <2>2. FreshPools'
    BY <1>13 DEF ChooseRole, FreshPools, Creating
  <2>3. Lives'
    BY <1>13 DEF ChooseRole, Lives
  <2>4. Calling'
    <3>1. /\ pc[c] = "gate" /\ pc'[c] \in {"pools", "follow", "leave"}
          /\ pc'[c] = "pools" => rtClosed'
          /\ \A x \in Caller \ {c} : pc'[x] = pc[x]
      BY <1>13 DEF ChooseRole
    <3>2. /\ UNCHANGED <<closing, op, cur, helps, joins, joining, workers>>
          /\ rtClosed => rtClosed'
      BY <1>13 DEF ChooseRole
    <3>3. op[c] = "close" /\ rtClosed'
      BY <1>13, <3>1 DEF ChooseRole, Calling
    <3> HIDE CloseAssumption
        DEF CloseAssumption, CloseInv, TypeOK, PC, Thread, Caller, gateVars, poolVars,
            runVars, joinVars, callVars
    <3>4. Calling
      BY DEF CloseInv
    <3> QED BY <3>1, <3>2, <3>3, <3>4 DEF Calling
  <2> QED BY <2>1, <2>2, <2>3, <2>4
<1>14. ASSUME NEW c \in Caller, NextPool(c) PROVE CloseInv'
  <2>1. CASE todo[c] = {}
    <3>1. Goto(c, "await") /\ UNCHANGED <<todo, cur>>
      BY <1>14, <2>1 DEF NextPool
    <3>2. TypeOK'
      BY <1>14, <3>1 DEF NextPool
    <3>3. FreshPools'
      BY <1>14, <3>1 DEF NextPool, FreshPools, Creating, Calling
    <3>4. Lives'
      BY <1>14, <3>1 DEF NextPool, Lives
    <3>5. Calling'
      BY <1>14, <3>1 DEF NextPool, Calling
    <3> QED BY <3>2, <3>3, <3>4, <3>5
  <2>2. CASE todo[c] # {}
    <3>1. PICK p \in todo[c] : /\ todo' = [todo EXCEPT ![c] = @ \ {p}]
                               /\ cur' = [cur EXCEPT ![c] = p]
                               /\ Goto(c, "qclose")
      BY <1>14, <2>2 DEF NextPool
    <3>2. TypeOK'
      BY <1>14, <3>1 DEF NextPool
    <3>3. FreshPools'
      BY <1>14, <3>1 DEF NextPool, FreshPools, Creating, Calling
    <3>4. Lives'
      BY <1>14, <3>1 DEF NextPool, Lives
    <3>5. Calling'
      BY <1>14, <3>1 DEF NextPool, Calling
    <3> QED BY <3>2, <3>3, <3>4, <3>5
  <2> QED BY <2>1, <2>2
<1>15. ASSUME NEW c \in Caller, AwaitActive(c) PROVE CloseInv'
  <2>1. TypeOK'
    BY <1>15 DEF AwaitActive
  <2>2. FreshPools'
    BY <1>15 DEF AwaitActive, FreshPools, Creating
  <2>3. Lives'
    BY <1>15 DEF AwaitActive, Lives
  <2>4. Calling'
    BY <1>15 DEF AwaitActive, Calling
  <2> QED BY <2>1, <2>2, <2>3, <2>4
<1>16. ASSUME NEW c \in Caller, FinishClose(c) PROVE CloseInv'
  <2>1. TypeOK'
    BY <1>16 DEF FinishClose
  <2>2. FreshPools'
    BY <1>16 DEF FinishClose, FreshPools, Creating
  <2>3. Lives'
    BY <1>16 DEF FinishClose, Lives
  <2>4. Calling'
    BY <1>16 DEF FinishClose, Calling
  <2> QED BY <2>1, <2>2, <2>3, <2>4
<1>17. ASSUME NEW c \in Caller, Follow(c) PROVE CloseInv'
  <2>1. TypeOK'
    BY <1>17 DEF Follow
  <2>2. FreshPools'
    BY <1>17 DEF Follow, FreshPools, Creating
  <2>3. Lives'
    BY <1>17 DEF Follow, Lives
  <2>4. Calling'
    BY <1>17 DEF Follow, Calling
  <2> QED BY <2>1, <2>2, <2>3, <2>4
<1>18. ASSUME NEW c \in Caller, Leave(c) PROVE CloseInv'
  <2>1. TypeOK'
    BY <1>18 DEF Leave
  <2>2. FreshPools'
    BY <1>18 DEF Leave, FreshPools, Creating
  <2>3. Lives'
    BY <1>18 DEF Leave, Lives
  <2>4. Calling'
    BY <1>18 DEF Leave, Calling
  <2> QED BY <2>1, <2>2, <2>3, <2>4
<1>19. ASSUME NEW c \in Caller, CloseQueue(c) PROVE CloseInv'
  <2>1. TypeOK'
    <3>1. cur[c] \in Pool
      BY <1>19 DEF CloseQueue, Calling
    <3> QED BY <1>19, <3>1 DEF CloseQueue
  <2>2. FreshPools'
    BY <1>19 DEF CloseQueue, FreshPools, Creating
  <2>3. Lives'
    BY <1>19 DEF CloseQueue, Lives
  <2>4. Calling'
    BY <1>19 DEF CloseQueue, Calling
  <2> QED BY <2>1, <2>2, <2>3, <2>4
<1>20. ASSUME NEW c \in Caller, AwaitSubmissions(c) PROVE CloseInv'
  <2>1. TypeOK'
    BY <1>20 DEF AwaitSubmissions
  <2>2. FreshPools'
    BY <1>20 DEF AwaitSubmissions, FreshPools, Creating
  <2>3. Lives'
    BY <1>20 DEF AwaitSubmissions, Lives
  <2>4. Calling'
    BY <1>20 DEF AwaitSubmissions, Calling
  <2> QED BY <2>1, <2>2, <2>3, <2>4
<1>21. ASSUME NEW c \in Caller, StartHelpers(c) PROVE CloseInv'
  <2>1. cur[c] \in Pool
    BY <1>21 DEF StartHelpers, Calling
  <2>2. TypeOK'
    <3>1. CASE first[c]
      BY <1>21, <2>1, <3>1 DEF StartHelpers
    <3>2. CASE ~first[c]
      BY <1>21, <2>1, <3>2 DEF StartHelpers
    <3> QED BY <3>1, <3>2
  <2>3. FreshPools'
    BY <1>21 DEF StartHelpers, FreshPools, Creating
  <2>4. Lives'
    BY <1>21 DEF StartHelpers, Lives
  <2>5. Calling'
    <3>1. ASSUME op[c] = "create", NEW w \in Worker, PoolOf[w] = cur[c]
          PROVE  ~OnWorker(c, w)
      <4>1. Creating(c)
        BY <1>21, <3>1 DEF StartHelpers, Creating
      <4>2. doing[w] = None
        BY <2>1, <3>1, <4>1 DEF FreshPools
      <4> QED BY <4>2 DEF OnWorker
    <3>2. CASE first[c]
      BY <1>21, <2>1, <3>1, <3>2 DEF StartHelpers, Calling
    <3>3. CASE ~first[c]
      BY <1>21, <2>1, <3>1, <3>3 DEF StartHelpers, Calling
    <3> QED BY <3>2, <3>3
  <2> QED BY <2>2, <2>3, <2>4, <2>5
<1>22. ASSUME NEW c \in Caller, JoinNext(c) PROVE CloseInv'
  <2>1. TypeOK'
    BY <1>22 DEF JoinNext
  <2>2. FreshPools'
    BY <1>22 DEF JoinNext, FreshPools, Creating
  <2>3. Lives'
    BY <1>22 DEF JoinNext, Lives
  <2>4. Calling'
    BY <1>22 DEF JoinNext, Calling
  <2> QED BY <2>1, <2>2, <2>3, <2>4
<1>23. ASSUME NEW c \in Caller, Joined(c) PROVE CloseInv'
  <2>1. TypeOK'
    BY <1>23 DEF Joined
  <2>2. FreshPools'
    BY <1>23 DEF Joined, FreshPools, Creating
  <2>3. Lives'
    BY <1>23 DEF Joined, Lives
  <2>4. Calling'
    BY <1>23 DEF Joined, Calling
  <2> QED BY <2>1, <2>2, <2>3, <2>4
<1>24. ASSUME NEW c \in Caller, AllJoined(c) PROVE CloseInv'
  <2>1. TypeOK'
    BY <1>24 DEF AllJoined
  <2>2. FreshPools'
    BY <1>24 DEF AllJoined, FreshPools, Creating
  <2>3. Lives'
    BY <1>24 DEF AllJoined, Lives
  <2>4. Calling'
    BY <1>24 DEF AllJoined, Calling
  <2> QED BY <2>1, <2>2, <2>3, <2>4
<1>25. ASSUME NEW c \in Caller, EndShutdown(c) PROVE CloseInv'
  <2>1. TypeOK'
    BY <1>25 DEF EndShutdown
  <2>2. FreshPools'
    BY <1>25 DEF EndShutdown, FreshPools, Creating
  <2>3. Lives'
    BY <1>25 DEF EndShutdown, Lives
  <2>4. Calling'
    BY <1>25 DEF EndShutdown, Calling
  <2> QED BY <2>1, <2>2, <2>3, <2>4
<1>26. CASE UNCHANGED vars
  BY <1>26 DEF vars, FreshPools, Creating, Lives, Calling
<1> QED
  BY <1>1, <1>2, <1>3, <1>4, <1>5, <1>6, <1>7, <1>8, <1>9, <1>10, <1>11, <1>12, <1>13,
     <1>14, <1>15, <1>16, <1>17, <1>18, <1>19, <1>20, <1>21, <1>22, <1>23, <1>24, <1>25, <1>26
  DEF Next, ActStep, CallStep

\* Types and bookkeeping hold in every reachable state.
THEOREM TypeCorrect == Spec => []TypeOK
<1>1. Spec => []CloseInv
  BY InitClose, StepClose, PTL DEF Spec
<1>2. CloseInv => TypeOK
  BY DEF CloseInv
<1> QED BY <1>1, <1>2, PTL

-----------------------------------------------------------------------------
(* NoWaitCycle. An activity waits only while it is closing, and a step can   *)
(* make it wait only for one that is not: new edges lead to sinks.           *)

\* An activity that waits for another has announced that it is closing.
LEMMA WaitersClose == CloseInv => \A x, y \in Act : WaitsFor(x, y) => x \in closing
<1> SUFFICES ASSUME CloseInv, NEW a \in Act, NEW b \in Act, WaitsFor(a, b)
             PROVE  a \in closing
  OBVIOUS
<1> USE CloseAssumption DEF CloseAssumption, CloseInv, TypeOK, Thread, Caller
<1>1. ASSUME NEW w \in Worker, joining[a] = w, doing[w] = b
      PROVE  a \in closing
  <2>1. pc[a] = "join" /\ (op[a] = "create" => PoolOf[w] = cur[a])
    BY <1>1 DEF Calling
  <2>2. op[a] # "create"
    BY <1>1, <2>1 DEF Creating, FreshPools
  <2> QED BY <2>1, <2>2 DEF Calling
<1>2. ASSUME helps[a] PROVE a \in closing
  BY <1>2 DEF Calling
<1>3. ASSUME pc[a] = "await" PROVE a \in closing
  BY <1>3 DEF Calling
<1> QED BY <1>1, <1>2, <1>3 DEF WaitsFor

\* A step makes a wait for b only if b is then outside every closing path.
LEMMA NewWaits ==
  ASSUME CloseInv, [Next]_vars, NEW a \in Act, NEW b \in Act, WaitsFor(a, b)'
  PROVE  WaitsFor(a, b) \/ b \notin closing'
<1> USE CloseAssumption
    DEF CloseAssumption, CloseInv, TypeOK, Become, Goto, Call, MayCall, gateVars,
        poolVars, runVars, joinVars, callVars, Thread, Caller, WaitsFor
<1>1. ASSUME NEW x \in Act, BeginActivity(x) PROVE WaitsFor(a, b) \/ b \notin closing'
  BY <1>1 DEF BeginActivity
<1>2. ASSUME NEW x \in Act, StartThread(x) PROVE WaitsFor(a, b) \/ b \notin closing'
  BY <1>2 DEF StartThread, Lives
<1>3. ASSUME NEW x \in Act, BeginSubmission(x) PROVE WaitsFor(a, b) \/ b \notin closing'
  BY <1>3 DEF BeginSubmission
<1>4. ASSUME NEW x \in Act, Enqueue(x) PROVE WaitsFor(a, b) \/ b \notin closing'
  BY <1>4 DEF Enqueue
<1>5. ASSUME NEW x \in Act, EndActivity(x) PROVE WaitsFor(a, b) \/ b \notin closing'
  BY <1>5 DEF EndActivity
<1>6. ASSUME NEW w \in Thread, Take(w) PROVE WaitsFor(a, b) \/ b \notin closing'
  <2> DEFINE x == Head(queue[PoolOf[w]])
  <2>1. x \in Act /\ x \notin closing
    BY <1>6 DEF Take, Lives
  <2>2. CASE b = x
    BY <1>6, <2>1, <2>2 DEF Take
  <2>3. CASE b # x
    BY <1>6, <2>1, <2>3 DEF Take
  <2> QED BY <2>2, <2>3
<1>7. ASSUME NEW w \in Thread, Exit(w) PROVE WaitsFor(a, b) \/ b \notin closing'
  BY <1>7 DEF Exit
<1>8. ASSUME NEW c \in Caller, CallClose(c) PROVE WaitsFor(a, b) \/ b \notin closing'
  BY <1>8 DEF CallClose, Calling
<1>9. ASSUME NEW c \in Caller, NEW p \in Pool, CallShutdown(c, p)
      PROVE  WaitsFor(a, b) \/ b \notin closing'
  BY <1>9 DEF CallShutdown, Calling
<1>10. ASSUME NEW c \in Caller, NEW p \in Pool, CallCreate(c, p)
       PROVE  WaitsFor(a, b) \/ b \notin closing'
  BY <1>10 DEF CallCreate, Calling
<1>11. ASSUME NEW c \in Caller, Register(c) PROVE WaitsFor(a, b) \/ b \notin closing'
  BY <1>11 DEF Register
<1>12. ASSUME NEW c \in Caller, EnterClosing(c) PROVE WaitsFor(a, b) \/ b \notin closing'
  BY <1>12 DEF EnterClosing
<1>13. ASSUME NEW c \in Caller, ChooseRole(c) PROVE WaitsFor(a, b) \/ b \notin closing'
  BY <1>13 DEF ChooseRole
<1>14. ASSUME NEW c \in Caller, NextPool(c) PROVE WaitsFor(a, b) \/ b \notin closing'
  <2>1. ~helps[c] /\ \A x \in Caller \ {c} : cur'[x] = cur[x]
    <3>1. ~helps[c]
      BY <1>14 DEF NextPool, Calling
    <3>2. cur' = cur \/ \E p \in Pool : cur' = [cur EXCEPT ![c] = p]
      BY <1>14 DEF NextPool
    <3> QED BY <3>1, <3>2
  <2>2. UNCHANGED <<closing, doing, act, joining, helps>>
    BY <1>14 DEF NextPool
  <2>3. WaitsFor(a, b) \/ (pc'[a] = "await" /\ b \notin closing)
    BY <2>1, <2>2
  <2> QED BY <2>2, <2>3
<1>15. ASSUME NEW c \in Caller, AwaitActive(c) PROVE WaitsFor(a, b) \/ b \notin closing'
  BY <1>15 DEF AwaitActive
<1>16. ASSUME NEW c \in Caller, FinishClose(c) PROVE WaitsFor(a, b) \/ b \notin closing'
  BY <1>16 DEF FinishClose
<1>17. ASSUME NEW c \in Caller, Follow(c) PROVE WaitsFor(a, b) \/ b \notin closing'
  BY <1>17 DEF Follow
<1>18. ASSUME NEW c \in Caller, Leave(c) PROVE WaitsFor(a, b) \/ b \notin closing'
  BY <1>18 DEF Leave, Calling
<1>19. ASSUME NEW c \in Caller, CloseQueue(c) PROVE WaitsFor(a, b) \/ b \notin closing'
  BY <1>19 DEF CloseQueue
<1>20. ASSUME NEW c \in Caller, AwaitSubmissions(c) PROVE WaitsFor(a, b) \/ b \notin closing'
  BY <1>20 DEF AwaitSubmissions
<1>21. ASSUME NEW c \in Caller, StartHelpers(c) PROVE WaitsFor(a, b) \/ b \notin closing'
  <2>1. ASSUME cur[c] \notin drainStarted, NEW h \in Helper, PoolOf[h] = cur[c]
        PROVE  doing[h] = None
    BY <2>1 DEF Lives
  <2>2. UNCHANGED <<doing, cur, joining, act, closing>> /\ Goto(c, "join")
    BY <1>21 DEF StartHelpers
  <2>3. \A x \in Caller : helps'[x] /\ ~helps[x] => x = c /\ cur[c] \notin drainStarted
    BY <1>21 DEF StartHelpers
  <2> QED BY <2>1, <2>2, <2>3
<1>22. ASSUME NEW c \in Caller, JoinNext(c) PROVE WaitsFor(a, b) \/ b \notin closing'
  BY <1>22 DEF JoinNext, Skipped
<1>23. ASSUME NEW c \in Caller, Joined(c) PROVE WaitsFor(a, b) \/ b \notin closing'
  BY <1>23 DEF Joined
<1>24. ASSUME NEW c \in Caller, AllJoined(c) PROVE WaitsFor(a, b) \/ b \notin closing'
  BY <1>24 DEF AllJoined
<1>25. ASSUME NEW c \in Caller, EndShutdown(c) PROVE WaitsFor(a, b) \/ b \notin closing'
  BY <1>25 DEF EndShutdown
<1>26. CASE UNCHANGED vars
  BY <1>26 DEF vars
<1> QED
  BY <1>1, <1>2, <1>3, <1>4, <1>5, <1>6, <1>7, <1>8, <1>9, <1>10, <1>11, <1>12, <1>13,
     <1>14, <1>15, <1>16, <1>17, <1>18, <1>19, <1>20, <1>21, <1>22, <1>23, <1>24,
     <1>25, <1>26
  DEF Next, ActStep, CallStep

\* No mix of reentrant closes and shutdowns makes a set of activities wait in a
\* circle: the rule of shutdown_inner and wait_for_non_closing_active that skips
\* whoever is already closing is enough, for any number of pools and tasks.
THEOREM NoDeadlock == Spec => []NoWaitCycle
<1>1. Init => NoWaitCycle
  <2> SUFFICES ASSUME Init, NEW a \in Act, NEW b \in Act PROVE ~WaitsFor(a, b)
    BY DEF NoWaitCycle
  <2>1. joining[a] = None /\ ~helps[a] /\ pc[a] = "idle"
    BY DEF Init, Caller
  <2> QED BY <2>1, CloseAssumption DEF WaitsFor, CloseAssumption, Thread
<1>2. (CloseInv => \A x, y \in Act : WaitsFor(x, y) => x \in closing)'
  BY WaitersClose, PTL
<1>3. ASSUME CloseInv, NoWaitCycle, [Next]_vars PROVE NoWaitCycle'
  <2>1. CloseInv'
    BY <1>3, StepClose
  <2> SUFFICES ASSUME NEW S \in SUBSET Act, S # {}
               PROVE  \E a \in S : \A b \in S : ~WaitsFor(a, b)'
    BY DEF NoWaitCycle
  <2>2. CASE \E a \in S : a \notin closing'
    <3>1. PICK a \in S : a \notin closing'
      BY <2>2
    <3>2. ASSUME NEW b \in S, WaitsFor(a, b)' PROVE FALSE
      <4>1. (a \in closing)'
        BY <1>2, <2>1, <3>2
      <4> QED BY <3>1, <4>1
    <3> QED BY <3>2
  <2>3. CASE S \subseteq closing'
    <3>1. PICK a \in S : \A b \in S : ~WaitsFor(a, b)
      BY <1>3 DEF NoWaitCycle
    <3>2. ASSUME NEW b \in S, WaitsFor(a, b)' PROVE FALSE
      BY <1>3, <2>3, <3>1, <3>2, NewWaits
    <3> QED BY <3>2
  <2> QED BY <2>2, <2>3
<1>4. CloseInv /\ NoWaitCycle /\ [Next]_vars => CloseInv' /\ NoWaitCycle'
  BY <1>3, StepClose
<1> QED BY <1>1, <1>4, InitClose, PTL DEF Spec

-----------------------------------------------------------------------------
(* FinishedOnlyClosersRemain: the counter is exact, so equal counts mean     *)
(* equal sets.                                                              *)

Counted == active = Cardinality(Leased)

\* The activities that hold a lease are finitely many.
LEMMA LeasedFinite == IsFiniteSet(Leased)
<1>1. Leased \subseteq Act /\ IsFiniteSet(Act)
  BY CloseAssumption DEF Leased, CloseAssumption
<1> QED BY <1>1, FS_Subset

\* RuntimeInner.active counts the activity leases, step by step.
LEMMA StepCount ==
  ASSUME CloseInv, CloseInv', Counted, [Next]_vars
  PROVE  Counted'
<1> USE DEF Become, gateVars, poolVars, runVars, joinVars, callVars
<1>1. CASE Leased' = Leased /\ active' = active
  BY <1>1 DEF Counted
<1>2. ASSUME NEW a \in Act, a \notin Leased, Leased' = Leased \cup {a}, active' = active + 1
      PROVE  Counted'
  BY <1>2, LeasedFinite, FS_AddElement DEF Counted
<1>3. ASSUME NEW a \in Leased, Leased' = Leased \ {a}, active' = active - 1
      PROVE  Counted'
  BY <1>3, LeasedFinite, FS_RemoveElement DEF Counted
<1>4. ASSUME NEW a \in Act, BeginActivity(a) PROVE Counted'
  <2>1. CASE rtClosed
    <3>1. Leased' = Leased /\ active' = active
      BY <1>4, <2>1 DEF BeginActivity, Leased, CloseInv, TypeOK
    <3> QED BY <1>1, <3>1
  <2>2. CASE ~rtClosed
    <3>1. a \notin Leased /\ Leased' = Leased \cup {a} /\ active' = active + 1
      BY <1>4, <2>2 DEF BeginActivity, Leased, CloseInv, TypeOK
    <3> QED BY <1>2, <3>1
  <2> QED BY <2>1, <2>2
<1>5. ASSUME NEW a \in Act, ActStep(a) PROVE Counted'
  <2>1. CASE BeginSubmission(a)
    <3>1. Leased' = Leased /\ active' = active
      BY <2>1 DEF BeginSubmission, Leased, CloseInv, TypeOK
    <3> QED BY <1>1, <3>1
  <2>2. CASE Enqueue(a) /\ (rtClosed \/ Target[a] \in poolClosed)
    <3>1. Become(a, "refused") /\ act[a] = "listed" /\ active' = active - 1
      BY <2>2 DEF Enqueue
    <3>2. a \in Leased /\ Leased' = Leased \ {a}
      BY <3>1 DEF Leased, CloseInv, TypeOK
    <3> QED BY <1>3, <3>1, <3>2
  <2>3. CASE Enqueue(a) /\ ~(rtClosed \/ Target[a] \in poolClosed)
    <3>1. Become(a, "queued") /\ act[a] = "listed" /\ active' = active
      BY <2>3 DEF Enqueue
    <3>2. Leased' = Leased
      BY <3>1 DEF Leased, CloseInv, TypeOK
    <3> QED BY <1>1, <3>1, <3>2
  <2>4. CASE EndActivity(a)
    <3>1. a \in Leased /\ Leased' = Leased \ {a} /\ active' = active - 1
      BY <2>4 DEF EndActivity, Leased, CloseInv, TypeOK
    <3> QED BY <1>3, <3>1
  <2>5. CASE StartThread(a)
    <3>1. CASE Become(a, "running") /\ UNCHANGED active
      <4>1. Leased' = Leased
        BY <2>5, <3>1 DEF StartThread, Leased, CloseInv, TypeOK
      <4> QED BY <1>1, <3>1, <4>1
    <3>2. CASE Become(a, "refused") /\ active' = active - 1
      <4>1. a \in Leased /\ Leased' = Leased \ {a}
        BY <2>5, <3>2 DEF StartThread, Leased, CloseInv, TypeOK
      <4> QED BY <1>3, <3>2, <4>1
    <3> QED BY <2>5, <3>1, <3>2 DEF StartThread
  <2> QED BY <1>5, <2>1, <2>2, <2>3, <2>4, <2>5 DEF ActStep
<1>6. ASSUME NEW w \in Thread, Take(w) PROVE Counted'
  <2>1. /\ Head(queue[PoolOf[w]]) \in Act
        /\ act[Head(queue[PoolOf[w]])] = "queued"
    BY <1>6, CloseAssumption DEF Take, CloseInv, TypeOK, Lives, CloseAssumption
  <2>2. Leased' = Leased /\ active' = active
    BY <1>6, <2>1 DEF Take, Leased, CloseInv, TypeOK
  <2> QED BY <1>1, <2>2
<1>7. ASSUME UNCHANGED <<act, active>> PROVE Counted'
  <2>1. Leased' = Leased /\ active' = active
    BY <1>7 DEF Leased
  <2> QED BY <1>1, <2>1
<1>8. ASSUME NEW c \in Caller, CallStep(c) PROVE UNCHANGED <<act, active>>
  BY <1>8
  DEF CallStep, Register, EnterClosing, ChooseRole, NextPool, AwaitActive, FinishClose,
      Follow, Leave, CloseQueue, AwaitSubmissions, StartHelpers, JoinNext, Joined,
      AllJoined, EndShutdown
<1>9. ASSUME NEW c \in Caller, NEW p \in Pool,
             CallShutdown(c, p) \/ CallCreate(c, p)
      PROVE  UNCHANGED <<act, active>>
  BY <1>9 DEF CallShutdown, CallCreate, Call
<1>10. ASSUME NEW c \in Caller, CallClose(c) PROVE UNCHANGED <<act, active>>
  BY <1>10 DEF CallClose, Call
<1>11. ASSUME NEW w \in Thread, Exit(w) PROVE UNCHANGED <<act, active>>
  BY <1>11 DEF Exit
<1>12. CASE UNCHANGED vars
  BY <1>7, <1>12 DEF vars
<1> QED BY <1>4, <1>5, <1>6, <1>7, <1>8, <1>9, <1>10, <1>11, <1>12 DEF Next

\* Once the owner has found as many leases as closers, nothing but callers is
\* left, and a closed runtime admits nobody else.
LEMMA StepCallers ==
  ASSUME CloseInv, CloseInv', Counted, OnlyCallersLeft, [Next]_vars
  PROVE  OnlyCallersLeft'
<1> USE DEF Become, Goto, Call, gateVars, poolVars, runVars, joinVars, callVars
<1> DEFINE Over == finished \/ \E c \in Caller : pc[c] = "finish"
           Left == \A a \in Leased : act[a] = "running" /\ calls[a] > 0
<1>1. Over => rtClosed
  BY DEF CloseInv, Calling, OnlyCallersLeft
<1>2. (Over => Left)'
  <2>1. ASSUME NEW a \in Act, BeginActivity(a) PROVE (Over => Left)'
    BY <1>1, <2>1 DEF BeginActivity, OnlyCallersLeft, Leased, CloseInv, TypeOK
  <2>2. ASSUME NEW a \in Act, ActStep(a) PROVE (Over => Left)'
    <3>1. UNCHANGED <<finished, pc, calls>>
      BY <2>2 DEF ActStep, StartThread, BeginSubmission, Enqueue, EndActivity
    <3>2. Over => act' = act \/ Become(a, "gone")
      <4>1. Over => ~(act[a] \in {"leased", "listed"})
        BY DEF OnlyCallersLeft, Leased
      <4> QED BY <2>2, <4>1 DEF ActStep, StartThread, BeginSubmission, Enqueue, EndActivity
    <3> QED BY <3>1, <3>2 DEF OnlyCallersLeft, Leased, CloseInv, TypeOK
  <2>3. ASSUME NEW w \in Thread, Take(w) PROVE (Over => Left)'
    <3>1. /\ Head(queue[PoolOf[w]]) \in Act
          /\ act[Head(queue[PoolOf[w]])] = "queued"
      BY <2>3, CloseAssumption DEF Take, CloseInv, TypeOK, Lives, CloseAssumption
    <3>2. ~Over /\ UNCHANGED <<finished, pc>>
      BY <2>3, <3>1 DEF Take, OnlyCallersLeft, Leased
    <3> QED BY <3>2
  <2>4. ASSUME NEW c \in Caller, AwaitActive(c) PROVE (Over => Left)'
    <3>1. closing \subseteq Leased /\ \A a \in closing : act[a] = "running" /\ calls[a] > 0
      BY DEF CloseInv, TypeOK, Lives, Leased
    <3>2. Cardinality(Leased) <= Cardinality(closing)
      BY <2>4 DEF AwaitActive, Counted
    <3>3. IsFiniteSet(closing) /\ Cardinality(closing) <= Cardinality(Leased)
      BY <3>1, LeasedFinite, FS_Subset
    <3>4. Leased = closing
      BY <3>1, <3>2, <3>3, LeasedFinite, FS_Subset, FS_CardinalityType
    <3>5. UNCHANGED <<act, calls>>
      BY <2>4 DEF AwaitActive
    <3> QED BY <3>1, <3>4, <3>5 DEF Leased
  <2>5. ASSUME NEW c \in Caller, CallStep(c), ~AwaitActive(c) PROVE (Over => Left)'
    <3>1. UNCHANGED <<act, calls>>
      BY <2>5
      DEF CallStep, Register, EnterClosing, ChooseRole, NextPool, FinishClose, Follow,
          Leave, CloseQueue, AwaitSubmissions, StartHelpers, JoinNext, Joined,
          AllJoined, EndShutdown
    <3>2. Over' => Over
      BY <2>5
      DEF CallStep, Register, EnterClosing, ChooseRole, NextPool, FinishClose, Follow,
          Leave, CloseQueue, AwaitSubmissions, StartHelpers, JoinNext, Joined,
          AllJoined, EndShutdown, CloseInv, TypeOK
    <3> QED BY <3>1, <3>2 DEF OnlyCallersLeft, Leased
  <2>6. ASSUME NEW c \in Caller, NEW p \in Pool,
               CallShutdown(c, p) \/ CallCreate(c, p)
        PROVE  (Over => Left)'
    <3>1. UNCHANGED <<act, finished>> /\ calls' = [calls EXCEPT ![c] = @ + 1]
      BY <2>6 DEF CallShutdown, CallCreate
    <3>2. Over' => Over
      BY <2>6 DEF CallShutdown, CallCreate, CloseInv, TypeOK
    <3>3. \A a \in Act : calls[a] > 0 => calls'[a] > 0
      BY <3>1 DEF CloseInv, TypeOK, Caller
    <3> QED BY <3>1, <3>2, <3>3 DEF OnlyCallersLeft, Leased
  <2>7. ASSUME NEW c \in Caller, CallClose(c) PROVE (Over => Left)'
    <3>1. UNCHANGED <<act, finished>> /\ calls' = [calls EXCEPT ![c] = @ + 1]
      BY <2>7 DEF CallClose
    <3>2. Over' => Over
      BY <2>7 DEF CallClose, CloseInv, TypeOK
    <3>3. \A a \in Act : calls[a] > 0 => calls'[a] > 0
      BY <3>1 DEF CloseInv, TypeOK, Caller
    <3> QED BY <3>1, <3>2, <3>3 DEF OnlyCallersLeft, Leased
  <2>8. ASSUME NEW w \in Thread, Exit(w) PROVE (Over => Left)'
    BY <2>8 DEF Exit, OnlyCallersLeft, Leased
  <2>9. CASE UNCHANGED vars
    BY <2>9 DEF vars, OnlyCallersLeft, Leased
  <2> QED BY <2>1, <2>2, <2>3, <2>4, <2>5, <2>6, <2>7, <2>8, <2>9 DEF Next
<1>3. (finished => rtClosed)'
  <2>1. ASSUME NEW c \in Caller, FinishClose(c) PROVE rtClosed'
    BY <2>1, <1>1 DEF FinishClose
  <2>2. ASSUME NEW c \in Caller, ChooseRole(c) PROVE rtClosed'
    BY <2>2 DEF ChooseRole
  <2>3. UNCHANGED <<finished, rtClosed>> \/ \E c \in Caller : FinishClose(c) \/ ChooseRole(c)
    BY DEF Next, ActStep, CallStep, vars, BeginActivity, StartThread, BeginSubmission,
           Enqueue, EndActivity, Take, Exit, CallClose, CallShutdown, CallCreate,
           Register, EnterClosing, NextPool, AwaitActive, Follow, Leave, CloseQueue,
           AwaitSubmissions, StartHelpers, JoinNext, Joined, AllJoined, EndShutdown
  <2> QED BY <2>1, <2>2, <2>3 DEF OnlyCallersLeft
<1> QED BY <1>2, <1>3 DEF OnlyCallersLeft

\* When a close has finished, no submission, queued task or starting thread of
\* the runtime is left and whoever still runs has made a call of its own.
THEOREM FinishedIsQuiet == Spec => []FinishedOnlyClosersRemain
<1>1. Init => CloseInv /\ Counted /\ OnlyCallersLeft
  <2> SUFFICES ASSUME Init PROVE Counted /\ OnlyCallersLeft
    BY InitClose
  <2>1. Leased = {} /\ ~finished /\ \A c \in Caller : pc[c] # "finish"
    BY DEF Init, Leased
  <2> QED BY <2>1, FS_EmptySet DEF Init, Counted, OnlyCallersLeft
<1>2. CloseInv /\ Counted /\ OnlyCallersLeft /\ [Next]_vars
        => CloseInv' /\ Counted' /\ OnlyCallersLeft'
  BY StepClose, StepCount, StepCallers
<1>3. Counted /\ OnlyCallersLeft => FinishedOnlyClosersRemain
  BY DEF Counted, OnlyCallersLeft, FinishedOnlyClosersRemain
<1> QED BY <1>1, <1>2, <1>3, PTL DEF Spec

=============================================================================
