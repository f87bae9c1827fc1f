---------------------------- MODULE RuntimeClose ----------------------------
(***************************************************************************)
(* Closing one Xiao runtime (xiao-runtime/src/scheduler.rs): close_inner,   *)
(* TaskPool::shutdown and TaskPool::create called at any time by external   *)
(* threads and by the activities themselves, over several pools. The queue  *)
(* of a pool is the abstract one that PoolQueue implements.                 *)
(*                                                                         *)
(* An activity is a submitted task or a spawned thread: what an             *)
(* ActivityLease stands for. A caller is an activity or an external thread. *)
(* Definitions marked "Defect" are not part of the specification: each is    *)
(* the code with one plausible mistake that a property has to notice.       *)
(***************************************************************************)
EXTENDS Integers, Sequences, FiniteSets

CONSTANTS
  Pool, Initial,    \* pools; those registered before the behaviour starts
  Worker, Helper,   \* pool workers and shutdown drain helpers
  PoolOf,           \* the pool of each of them
  Act, Target,      \* activities; where each runs: a pool or its Own thread
  Ext,              \* external threads, without any activity
  Own, None,
  Capacity,         \* of each queue
  MaxCalls          \* bound on the calls one caller makes

Thread == Worker \cup Helper
Caller == Act \cup Ext

ASSUME CloseAssumption ==
  /\ IsFiniteSet(Act)
  /\ Initial \subseteq Pool
  /\ Worker \cap Helper = {} /\ Act \cap Ext = {}
  /\ PoolOf \in [Thread -> Pool]
  /\ Own \notin Pool /\ Target \in [Act -> Pool \cup {Own}]
  /\ None \notin Pool \cup Thread \cup Act
  /\ Capacity \in Nat \ {0} /\ MaxCalls \in Nat

\* create refuses a pool without workers.
ASSUME WorkersAssumption == \A p \in Pool : \E w \in Worker : PoolOf[w] = p

VARIABLES
  rtClosed,         \* RuntimeInner.closed
  draining,         \* RuntimeCloseState.draining
  finished,         \* RuntimeCloseState.finished
  registered,       \* RuntimeInner.pools
  active,           \* RuntimeInner.active
  closing,          \* RuntimeInner.closing_threads, by the activity of the thread
  created,          \* pools whose workers have been started
  usable,           \* pools that create has handed out
  poolClosed,       \* PoolInner.closed
  drainStarted,     \* PoolInner.drain_started
  workers,          \* PoolInner.workers: handles nobody has joined or dropped
  pending,          \* submissions that hold a SubmissionLease, per pool
  queue,            \* admitted activities nobody has started, per pool
  thread,           \* state of workers and helpers
  doing,            \* the activity each of them runs
  act,              \* the life of each activity
  calls,            \* calls each caller has started
  pc, op, cur,      \* where a caller's call stands, which call, on which pool
  todo,             \* close owner: pools still to shut down
  first,            \* shutdown_inner's should_join
  joins, joining,   \* workers still to look at; the one being joined
  helps             \* shutdown_inner started the helpers and will join them

gateVars == <<rtClosed, draining, finished, registered>>
poolVars == <<created, usable, poolClosed, drainStarted, workers, pending, queue>>
runVars  == <<thread, doing, act>>
joinVars == <<first, joins, joining, helps>>
callVars == <<calls, op, cur, todo, joinVars>>
vars == <<gateVars, active, closing, poolVars, runVars, pc, callVars>>

PC == {"idle", "guard", "gate", "pools", "qclose", "pending", "helpers", "join",
       "joinhelpers", "await", "finish", "follow", "register", "leave"}

TypeOK ==
  /\ rtClosed \in BOOLEAN /\ draining \in BOOLEAN /\ finished \in BOOLEAN
  /\ registered \subseteq Pool /\ created \subseteq Pool
  /\ usable \subseteq Pool
  /\ active \in Int /\ closing \subseteq Act
  /\ poolClosed \subseteq Pool /\ drainStarted \subseteq Pool
  /\ workers \in [Pool -> SUBSET Worker]
  /\ pending \in [Pool -> SUBSET Act]
  /\ queue \in [Pool -> Seq(Act)]
  /\ thread \in [Thread -> {"absent", "idle", "running", "exited"}]
  /\ doing \in [Thread -> Act \cup {None}]
  /\ act \in [Act -> {"new", "leased", "listed", "queued", "running",
                       "gone", "refused"}]
  /\ calls \in [Caller -> Nat]
  /\ pc \in [Caller -> PC]
  /\ op \in [Caller -> {"none", "close", "shutdown", "create"}]
  /\ cur \in [Caller -> Pool \cup {None}]
  /\ todo \in [Caller -> SUBSET Pool]
  /\ first \in [Caller -> BOOLEAN] /\ helps \in [Caller -> BOOLEAN]
  /\ joins \in [Caller -> SUBSET Worker]
  /\ joining \in [Caller -> Worker \cup {None}]

Init ==
  /\ rtClosed = FALSE /\ draining = FALSE /\ finished = FALSE
  /\ registered = Initial /\ created = Initial /\ usable = Initial
  /\ active = 0 /\ closing = {}
  /\ poolClosed = {} /\ drainStarted = {}
  /\ workers = [p \in Pool |-> IF p \in Initial
                               THEN {w \in Worker : PoolOf[w] = p} ELSE {}]
  /\ pending = [p \in Pool |-> {}]
  /\ queue = [p \in Pool |-> <<>>]
  /\ thread = [w \in Thread |-> IF w \in Worker /\ PoolOf[w] \in Initial
                                THEN "idle" ELSE "absent"]
  /\ doing = [w \in Thread |-> None]
  /\ act = [a \in Act |-> "new"]
  /\ calls = [c \in Caller |-> 0]
  /\ pc = [c \in Caller |-> "idle"]
  /\ op = [c \in Caller |-> "none"]
  /\ cur = [c \in Caller |-> None]
  /\ todo = [c \in Caller |-> {}]
  /\ first = [c \in Caller |-> FALSE] /\ helps = [c \in Caller |-> FALSE]
  /\ joins = [c \in Caller |-> {}]
  /\ joining = [c \in Caller |-> None]

-----------------------------------------------------------------------------
(* Activities: begin_activity and the enqueueing of tasks, spawn_policy, the *)
(* workers and helpers, and the end of an ActivityLease.                     *)

Become(a, state) == act' = [act EXCEPT ![a] = state]

\* begin_activity refuses once the runtime is closed.
BeginActivity(a) ==
  /\ act[a] = "new"
  /\ Target[a] = Own \/ Target[a] \in usable
  /\ IF rtClosed THEN Become(a, "refused") /\ UNCHANGED active
                 ELSE Become(a, "leased") /\ active' = active + 1
  /\ UNCHANGED <<gateVars, closing, poolVars, thread, doing, pc, callVars>>

\* A spawned thread has started and marks itself running; if it cannot be
\* created, its lease is dropped with the closure.
StartThread(a) ==
  /\ act[a] = "leased" /\ Target[a] = Own
  /\ \/ Become(a, "running") /\ UNCHANGED active
     \/ Become(a, "refused") /\ active' = active - 1
  /\ UNCHANGED <<gateVars, closing, poolVars, thread, doing, pc, callVars>>

BeginSubmission(a) ==
  /\ act[a] = "leased" /\ Target[a] # Own
  /\ Become(a, "listed")
  /\ pending' = [pending EXCEPT ![Target[a]] = @ \cup {a}]
  /\ UNCHANGED <<gateVars, active, closing, created, usable, poolClosed, drainStarted,
                 workers, queue, thread, doing, pc, callVars>>

Enqueue(a) ==
  LET p == Target[a] IN
  /\ act[a] = "listed"
  /\ pending' = [pending EXCEPT ![p] = @ \ {a}]
  /\ IF rtClosed \/ p \in poolClosed
     THEN Become(a, "refused") /\ active' = active - 1 /\ UNCHANGED queue
     ELSE /\ Len(queue[p]) < Capacity
          /\ queue' = [queue EXCEPT ![p] = Append(@, a)]
          /\ Become(a, "queued") /\ UNCHANGED active
  /\ UNCHANGED <<gateVars, closing, created, usable, poolClosed, drainStarted, workers,
                 thread, doing, pc, callVars>>

Take(w) ==
  LET p == PoolOf[w] IN
  /\ thread[w] = "idle" /\ queue[p] # <<>>
  /\ queue' = [queue EXCEPT ![p] = Tail(@)]
  /\ thread' = [thread EXCEPT ![w] = "running"]
  /\ doing' = [doing EXCEPT ![w] = Head(queue[p])]
  /\ Become(Head(queue[p]), "running")
  /\ UNCHANGED <<gateVars, active, closing, created, usable, poolClosed, drainStarted,
                 workers, pending, pc, callVars>>

Exit(w) ==
  /\ thread[w] = "idle" /\ queue[PoolOf[w]] = <<>>
  /\ PoolOf[w] \in poolClosed \/ w \in Helper
  /\ thread' = [thread EXCEPT ![w] = "exited"]
  /\ UNCHANGED <<gateVars, active, closing, poolVars, doing, act, pc, callVars>>

\* The body ends outside any call and the lease is dropped.
EndActivity(a) ==
  /\ act[a] = "running" /\ pc[a] = "idle"
  /\ Become(a, "gone")
  /\ active' = active - 1
  /\ thread' = [w \in Thread |-> IF doing[w] = a THEN "idle" ELSE thread[w]]
  /\ doing' = [w \in Thread |-> IF doing[w] = a THEN None ELSE doing[w]]
  /\ UNCHANGED <<gateVars, closing, poolVars, pc, callVars>>

-----------------------------------------------------------------------------
(* Calls.                                                                   *)

Goto(c, l) == pc' = [pc EXCEPT ![c] = l]

MayCall(c) ==
  pc[c] = "idle" /\ calls[c] < MaxCalls /\ (c \in Act => act[c] = "running")

Call(c, name, p) ==
  /\ calls' = [calls EXCEPT ![c] = @ + 1]
  /\ op' = [op EXCEPT ![c] = name]
  /\ cur' = [cur EXCEPT ![c] = p]
  /\ UNCHANGED <<gateVars, active, closing, todo, joinVars>>

CallClose(c) ==
  /\ MayCall(c)
  /\ Goto(c, "guard") /\ Call(c, "close", None)
  /\ UNCHANGED <<poolVars, runVars>>

\* A closed runtime rejects shutdown at once.
CallShutdown(c, p) ==
  /\ MayCall(c) /\ p \in usable /\ ~rtClosed
  /\ Goto(c, "guard") /\ Call(c, "shutdown", p)
  /\ UNCHANGED <<poolVars, runVars>>

\* create starts the workers and registers the pool afterwards.
CallCreate(c, p) ==
  /\ MayCall(c) /\ p \notin created
  /\ Goto(c, "register") /\ Call(c, "create", p)
  /\ created' = created \cup {p}
  /\ workers' = [workers EXCEPT ![p] = {w \in Worker : PoolOf[w] = p}]
  /\ thread' = [w \in Thread |-> IF w \in Worker /\ PoolOf[w] = p
                                 THEN "idle" ELSE thread[w]]
  /\ UNCHANGED <<usable, poolClosed, drainStarted, pending, queue, doing, act>>

\* Defect: a runtime that is closed still accepts the pool.
AcceptedAlways == TRUE

Accepted == ~rtClosed

\* Refused by a closed runtime, or when one of its workers could not be created,
\* the new pool is closed and the workers it has are joined.
Register(c) ==
  /\ pc[c] = "register"
  /\ \/ Goto(c, "qclose") /\ UNCHANGED <<registered, usable>>
     \/ /\ Accepted
        /\ Goto(c, "leave")
        /\ registered' = registered \cup {cur[c]}
        /\ usable' = usable \cup {cur[c]}
  /\ UNCHANGED <<rtClosed, draining, finished, active, closing, created,
                 poolClosed, drainStarted, workers, pending, queue, runVars,
                 callVars>>

OnActivity(c) == c \in Act

\* enter_current_thread_closing: an activity announces that it is closing
\* before it looks at anything else.
EnterClosing(c) ==
  /\ pc[c] = "guard"
  /\ closing' = IF OnActivity(c) THEN closing \cup {c} ELSE closing
  /\ Goto(c, IF op[c] = "close" THEN "gate" ELSE "qclose")
  /\ UNCHANGED <<gateVars, active, poolVars, runVars, callVars>>

\* The role of a close is decided under close_gate.
ChooseRole(c) ==
  /\ pc[c] = "gate"
  /\ \/ /\ ~rtClosed
        /\ rtClosed' = TRUE /\ draining' = TRUE /\ finished' = FALSE
        /\ todo' = [todo EXCEPT ![c] = registered] /\ registered' = {}
        /\ Goto(c, "pools")
     \/ /\ rtClosed
        /\ Goto(c, IF draining /\ c \in Ext THEN "follow" ELSE "leave")
        /\ UNCHANGED <<gateVars, todo>>
  /\ UNCHANGED <<active, closing, poolVars, runVars, calls, op, cur, joinVars>>

NextPool(c) ==
  /\ pc[c] = "pools"
  /\ IF todo[c] = {}
     THEN Goto(c, "await") /\ UNCHANGED <<todo, cur>>
     ELSE \E p \in todo[c] :
            /\ todo' = [todo EXCEPT ![c] = @ \ {p}]
            /\ cur' = [cur EXCEPT ![c] = p]
            /\ Goto(c, "qclose")
  /\ UNCHANGED <<gateVars, active, closing, poolVars, runVars, calls, op, joinVars>>

\* Defects: one activity too many is tolerated; the comparison is strict.
AllButOneClosing == active <= Cardinality(closing) + 1
FewerThanClosing == active < Cardinality(closing)

OnlyClosersLeft == active <= Cardinality(closing)

\* wait_for_non_closing_active compares the two counters.
AwaitActive(c) ==
  /\ pc[c] = "await" /\ OnlyClosersLeft
  /\ Goto(c, "finish")
  /\ UNCHANGED <<gateVars, active, closing, poolVars, runVars, callVars>>

FinishClose(c) ==
  /\ pc[c] = "finish"
  /\ draining' = FALSE /\ finished' = TRUE
  /\ Goto(c, "leave")
  /\ UNCHANGED <<rtClosed, registered, active, closing, poolVars, runVars, callVars>>

\* A passive follower polls until the owner has finished.
Follow(c) ==
  /\ pc[c] = "follow"
  /\ ~draining \/ finished
  /\ Goto(c, "leave")
  /\ UNCHANGED <<gateVars, active, closing, poolVars, runVars, callVars>>

\* The call returns and its ClosingActivityGuard is dropped.
Leave(c) ==
  /\ pc[c] = "leave"
  /\ closing' = closing \ {c}
  /\ Goto(c, "idle")
  /\ op' = [op EXCEPT ![c] = "none"] /\ cur' = [cur EXCEPT ![c] = None]
  /\ first' = [first EXCEPT ![c] = FALSE]
  /\ UNCHANGED <<gateVars, active, poolVars, runVars, calls, todo, joins,
                 joining, helps>>

-----------------------------------------------------------------------------
(* shutdown_inner on pool cur[c].                                           *)

\* The worker of pool p that runs the caller, if any.
OnWorker(c, w) == w \in Worker /\ c \in Act /\ doing[w] = c

CloseQueue(c) ==
  LET p == cur[c] IN
  /\ pc[c] = "qclose"
  /\ first' = [first EXCEPT ![c] = p \notin poolClosed]
  /\ poolClosed' = poolClosed \cup {p}
  /\ Goto(c, "pending")
  /\ UNCHANGED <<gateVars, active, closing, created, usable, drainStarted, workers,
                 pending, queue, runVars, calls, op, cur, todo, joins, joining, helps>>

AwaitSubmissions(c) ==
  /\ pc[c] = "pending" /\ pending[cur[c]] = {}
  /\ Goto(c, "helpers")
  /\ UNCHANGED <<gateVars, active, closing, poolVars, runVars, callVars>>

\* Defect: the worker handles are dropped without being joined.
NoHandles(c) == {}

\* Whoever closed the pool takes the worker handles it still has.
Handles(c) == IF first[c] THEN workers[cur[c]] ELSE {}

\* A caller that is itself a worker of the pool hands the queue to helpers,
\* once per pool; the handles are drained while they are joined. That no helper
\* can be created, so that the caller runs the queue itself, is left out.
StartHelpers(c) ==
  LET p == cur[c]
      start == /\ p \notin drainStarted
               /\ \E w \in Worker : PoolOf[w] = p /\ OnWorker(c, w) IN
  /\ pc[c] = "helpers"
  /\ helps' = [helps EXCEPT ![c] = start]
  /\ drainStarted' = IF start THEN drainStarted \cup {p} ELSE drainStarted
  /\ thread' = [h \in Thread |-> IF start /\ h \in Helper /\ PoolOf[h] = p
                                 THEN "idle" ELSE thread[h]]
  /\ joins' = [joins EXCEPT ![c] = Handles(c)]
  /\ workers' = IF first[c] THEN [workers EXCEPT ![p] = {}] ELSE workers
  /\ Goto(c, "join")
  /\ UNCHANGED <<gateVars, active, closing, created, usable, poolClosed, pending, queue,
                 doing, act, calls, op, cur, todo, first, joining>>

\* Defect: a worker inside another closing path is joined.
SkippedSelf(c, w) == OnWorker(c, w)

\* The caller's own worker and one already inside a closing path are skipped.
Skipped(c, w) == OnWorker(c, w) \/ (doing[w] # None /\ doing[w] \in closing)

JoinNext(c) ==
  /\ pc[c] = "join" /\ joining[c] = None
  /\ \E w \in joins[c] :
       /\ joins' = [joins EXCEPT ![c] = @ \ {w}]
       /\ joining' = [joining EXCEPT ![c] = IF Skipped(c, w) THEN None ELSE w]
  /\ UNCHANGED <<gateVars, active, closing, poolVars, runVars, pc, calls, op,
                 cur, todo, first, helps>>

Joined(c) ==
  /\ joining[c] # None /\ thread[joining[c]] = "exited"
  /\ joining' = [joining EXCEPT ![c] = None]
  /\ UNCHANGED <<gateVars, active, closing, poolVars, runVars, pc, calls, op,
                 cur, todo, first, joins, helps>>

AllJoined(c) ==
  /\ pc[c] = "join" /\ joins[c] = {} /\ joining[c] = None
  /\ Goto(c, "joinhelpers")
  /\ UNCHANGED <<gateVars, active, closing, poolVars, runVars, callVars>>

EndShutdown(c) ==
  /\ pc[c] = "joinhelpers"
  /\ helps[c] => \A h \in Helper : PoolOf[h] = cur[c] => thread[h] = "exited"
  /\ helps' = [helps EXCEPT ![c] = FALSE]
  /\ Goto(c, IF op[c] = "close" THEN "pools" ELSE "leave")
  /\ UNCHANGED <<gateVars, active, closing, poolVars, runVars, calls, op, cur,
                 todo, first, joins, joining>>

-----------------------------------------------------------------------------
CallStep(c) ==
  \/ Register(c) \/ EnterClosing(c) \/ ChooseRole(c) \/ NextPool(c)
  \/ AwaitActive(c) \/ FinishClose(c) \/ Follow(c) \/ Leave(c)
  \/ CloseQueue(c) \/ AwaitSubmissions(c) \/ StartHelpers(c)
  \/ JoinNext(c) \/ Joined(c) \/ AllJoined(c) \/ EndShutdown(c)

ActStep(a) ==
  StartThread(a) \/ BeginSubmission(a) \/ Enqueue(a) \/ EndActivity(a)

Next ==
  \/ \E a \in Act : BeginActivity(a) \/ ActStep(a)
  \/ \E w \in Thread : Take(w) \/ Exit(w)
  \/ \E c \in Caller : \/ CallClose(c) \/ CallStep(c)
                       \/ \E p \in Pool : CallShutdown(c, p) \/ CallCreate(c, p)

Spec == Init /\ [][Next]_vars

-----------------------------------------------------------------------------
(* Properties.                                                              *)

Leased == {a \in Act : act[a] \in {"leased", "listed", "queued", "running"}}

\* What c cannot go on without: a worker it joins, a helper it has started, or,
\* as the close owner, an activity that has not announced that it is closing.
WaitsFor(c, a) ==
  \/ \E w \in Worker : joining[c] = w /\ doing[w] = a
  \/ helps[c] /\ \E h \in Helper : PoolOf[h] = cur[c] /\ doing[h] = a
  \/ pc[c] = "await" /\ act[a] = "running" /\ a \notin closing

\* No set of activities waits in a circle, whatever mix of close, shutdown of
\* their own or of each other's pools and drain helpers they are in: each set
\* has a member that waits for no other.
NoWaitCycle ==
  \A S \in SUBSET Act :
    S # {} => \E a \in S : \A b \in S : ~WaitsFor(a, b)

\* `active` is exact, so comparing it with the closing count is meaningful:
\* when the owner has finished, no submission, queued task or thread about to
\* start is left, and whoever still runs has made a call of its own.
FinishedOnlyClosersRemain ==
  /\ active = Cardinality(Leased)
  /\ finished => \A a \in Leased : act[a] = "running" /\ calls[a] > 0

\* A pool created while the runtime closes is closed by the owner or by its
\* creator, never by nobody: a finished close leaves no usable pool open.
FinishedClosesPools == finished => usable \subseteq poolClosed

\* The shutdown that closes a pool returns only after everything the pool has
\* admitted is over, unless one of its tasks is itself a caller.
FirstShutdownDrains ==
  \A c \in Caller :
    pc[c] = "leave" /\ op[c] = "shutdown" /\ first[c] =>
      \A a \in Act : Target[a] = cur[c] /\ act[a] \in {"queued", "running"} =>
        \E b \in Act : Target[b] = cur[c] /\ calls[b] > 0

\* The guards of the steps that somebody inside a call, an activity or a thread of
\* a pool has to take next.
CallMoves(c) ==
  /\ pc[c] # "idle"
  /\ pc[c] = "pending" => pending[cur[c]] = {}
  /\ pc[c] = "await" => OnlyClosersLeft
  /\ pc[c] = "follow" => ~draining \/ finished
  /\ joining[c] # None => thread[joining[c]] = "exited"
  /\ pc[c] = "joinhelpers" /\ helps[c] =>
       \A h \in Helper : PoolOf[h] = cur[c] => thread[h] = "exited"

ActMoves(a) ==
  \/ act[a] = "leased"
  \/ /\ act[a] = "listed"
     /\ \/ rtClosed \/ Target[a] \in poolClosed
        \/ Len(queue[Target[a]]) < Capacity
  \/ act[a] = "running" /\ pc[a] = "idle"

ThreadMoves(w) ==
  /\ thread[w] = "idle"
  /\ queue[PoolOf[w]] # <<>> \/ PoolOf[w] \in poolClosed \/ w \in Helper

\* Somebody is inside a call and nothing in the runtime can move.
Standstill ==
  /\ \E c \in Caller : pc[c] # "idle"
  /\ \A c \in Caller : ~CallMoves(c)
  /\ \A a \in Act : ~ActMoves(a)
  /\ \A w \in Thread : ~ThreadMoves(w)

\* No mix of close, shutdown and create brings a runtime to a standstill, but one:
\* an activity owns the close and awaits a task that is queued in a pool whose
\* workers are all inside calls. An external owner never stands still.
StandsOnlyBehindCallers ==
  Standstill =>
    \E o, a \in Act :
      /\ pc[o] = "await" /\ act[a] = "queued"
      /\ \A w \in Worker : PoolOf[w] = Target[a] =>
           doing[w] # None /\ pc[doing[w]] # "idle"

\* What a test says of a shutdown and a close that overlap: the joins of the one
\* and the drain of the other never wait for each other.
NeverStands == ~Standstill

\* The documented promise of shutdown to an ordinary caller: it waits for the
\* submitted tasks of the pool, and repeating it succeeds like the first time.
\* No activity is a caller here, so the reentrancy rules do not apply.
ShutdownAwaitsSubmitted ==
  \A c \in Ext :
    /\ pc[c] = "leave" /\ op[c] = "shutdown" /\ ~rtClosed
    /\ \A a \in Act : calls[a] = 0
    => \A a \in Act : Target[a] = cur[c] => act[a] \notin {"queued", "running"}

-----------------------------------------------------------------------------
(* What each pool still promises those who submit to it while the runtime    *)
(* closes around it: the contract that PoolQueue implements for one pool.    *)

\* The life of an activity as a task of its pool; a refused one was never there.
PhaseOf(a) ==
  CASE act[a] \in {"new", "leased", "listed", "refused"} -> "new"
    [] act[a] = "queued"                                -> "waiting"
    [] act[a] = "running"                               -> "running"
    [] act[a] = "gone"                                  -> "answered"

TasksOf(p) == {a \in Act : Target[a] = p}

Contract(p) == INSTANCE PoolContract WITH
  Task <- TasksOf(p), waiting <- queue[p], shut <- p \in poolClosed,
  phase <- [a \in TasksOf(p) |-> PhaseOf(a)],
  answer <- [a \in TasksOf(p) |-> IF act[a] = "gone" THEN "reply" ELSE "none"]

-----------------------------------------------------------------------------
(* Every thread keeps running and every body returns from its own code;     *)
(* nobody is obliged to submit or to call.                                  *)
FairSpec ==
  /\ Spec
  /\ \A a \in Act : WF_vars(ActStep(a))
  /\ \A w \in Thread : WF_vars(Take(w) \/ Exit(w))
  /\ \A c \in Caller : WF_vars(CallStep(c))

\* Every close, shutdown and create returns.
CallsReturn == \A c \in Caller : pc[c] # "idle" ~> pc[c] = "idle"

\* A closed runtime ends every activity and leaves no worker or helper behind.
CloseStopsEverything ==
  rtClosed ~> /\ \A w \in Thread : thread[w] \in {"absent", "exited"}
              /\ Leased = {}

=============================================================================
