------------------------------ MODULE SharedLock ------------------------------
(***************************************************************************)
(* The exclusive lock of one shared object (xiao-runtime/src/concurrency.rs): *)
(* the atomic word in the object's header, the condition variable that the  *)
(* contenders find through a process-wide registry of weak entries, and the *)
(* cancellation tokens that wake them.                                      *)
(*                                                                         *)
(* A generation is one LockWaiters instance: a gate (mutex) and a condition *)
(* variable. Generations are counted, and the registry keeps the latest.    *)
(* Definitions marked "Defect" are not part of the specification: each is    *)
(* the code with one plausible mistake that a property has to notice.       *)
(***************************************************************************)
EXTENDS Integers

CONSTANTS
  Thread,          \* the threads that lock the object, each one guard at a time
  Token,           \* cancellation tokens
  NoToken,         \* SharedHandle::lock passes none
  TokenOf,         \* the token each thread locks with (may be shared)
  Interruptible,   \* threads whose `interrupted` closure may turn true
  MaxGen           \* bounds the generations

ASSUME SharedLockAssumption ==
  /\ NoToken \notin Token
  /\ TokenOf \in [Thread -> Token \cup {NoToken}]
  /\ Interruptible \subseteq Thread
  /\ MaxGen \in Nat

VARIABLES
  word,            \* SharedHeader.lock_state
  registry,        \* the generation that WAITERS holds weakly, 0 for none
  pc,              \* where each thread stands
  gen,             \* the generation it holds an Arc of, 0 for none
  registered,      \* LockCancellationInner.waiters: weakly held generations
  cancelling,      \* where LockCancellation::cancel stands, per token
  collected,       \* the Arcs it has still to notify
  interrupted      \* threads whose host interrupt has fired

vars == <<word, registry, pc, gen, registered, cancelling, collected, interrupted>>

Generation == 1 .. MaxGen

TypeOK ==
  /\ word \in {"free", "locked", "contended", "stray"}
  /\ registry \in 0 .. MaxGen
  /\ pc \in [Thread -> {"idle", "check", "register", "gate", "try", "mark",
                        "parked", "woken", "held"}]
  /\ gen \in [Thread -> 0 .. MaxGen]
  /\ registered \in [Token -> SUBSET Generation]
  /\ cancelling \in [Token -> {"idle", "stored", "notifying"}]
  /\ collected \in [Token -> SUBSET Generation]
  /\ interrupted \subseteq Thread

Init ==
  /\ word = "free" /\ registry = 0
  /\ pc = [t \in Thread |-> "idle"]
  /\ gen = [t \in Thread |-> 0]
  /\ registered = [k \in Token |-> {}]
  /\ cancelling = [k \in Token |-> "idle"]
  /\ collected = [k \in Token |-> {}]
  /\ interrupted = {}

Goto(t, l) == pc' = [pc EXCEPT ![t] = l]

\* A generation is alive while somebody holds an Arc of it.
Alive(g) ==
  (\E t \in Thread : gen[t] = g) \/ (\E k \in Token : g \in collected[k])

\* The token of t has been cancelled.
Cancelled(t) == TokenOf[t] \in Token /\ cancelling[TokenOf[t]] # "idle"

\* Whoever is between taking the gate and the CAS or the wait holds it.
GateFree(g) == \A t \in Thread : gen[t] = g => pc[t] \notin {"try", "mark"}

Woken(g) == [t \in Thread |-> IF pc[t] = "parked" /\ gen[t] = g
                              THEN "woken" ELSE pc[t]]

-----------------------------------------------------------------------------
(* acquire_lock_interruptible.                                              *)

\* Defect: the registry's entry is always replaced.
AlwaysFresh == registry + 1

\* lock_waiters: the live instance of the registry or a new one.
Lookup == IF registry # 0 /\ Alive(registry) THEN registry ELSE registry + 1

Enter(t) ==
  /\ pc[t] = "idle" /\ Lookup <= MaxGen
  /\ registry' = Lookup
  /\ gen' = [gen EXCEPT ![t] = Lookup]
  /\ Goto(t, "check")
  /\ UNCHANGED <<word, registered, cancelling, collected, interrupted>>

\* Err(Cancelled): the locals are dropped.
Abandon(t) == Goto(t, "idle") /\ gen' = [gen EXCEPT ![t] = 0]

\* The head of the loop.
Check(t) ==
  /\ pc[t] = "check"
  /\ IF t \in interrupted \/ Cancelled(t)
     THEN Abandon(t)
     ELSE /\ Goto(t, IF TokenOf[t] \in Token THEN "register" ELSE "gate")
          /\ UNCHANGED gen
  /\ UNCHANGED <<word, registry, registered, cancelling, collected, interrupted>>

\* Defect: the waiter is not registered with its token.
RegisterNothing(t) ==
  /\ pc[t] = "register"
  /\ IF Cancelled(t) THEN Abandon(t) ELSE Goto(t, "gate") /\ UNCHANGED gen
  /\ UNCHANGED <<word, registry, registered, cancelling, collected, interrupted>>

\* The token learns of the instance before its flag is read again.
Register(t) ==
  /\ pc[t] = "register"
  /\ registered' = [registered EXCEPT ![TokenOf[t]] = @ \cup {gen[t]}]
  /\ IF Cancelled(t) THEN Abandon(t) ELSE Goto(t, "gate") /\ UNCHANGED gen
  /\ UNCHANGED <<word, registry, cancelling, collected, interrupted>>

\* Defect: the flag is not read under the gate.
EnterGateBlindly(t) ==
  /\ pc[t] = "gate" /\ GateFree(gen[t])
  /\ Goto(t, "try")
  /\ UNCHANGED <<word, registry, gen, registered, cancelling, collected, interrupted>>

EnterGate(t) ==
  /\ pc[t] = "gate" /\ GateFree(gen[t])
  /\ IF Cancelled(t) THEN Abandon(t) ELSE Goto(t, "try") /\ UNCHANGED gen
  /\ UNCHANGED <<word, registry, registered, cancelling, collected, interrupted>>

\* compare_exchange of the word, under the gate.
Try(t) ==
  /\ pc[t] = "try"
  /\ IF word = "free"
     THEN word' = "locked" /\ Goto(t, "held")
     ELSE Goto(t, "mark") /\ UNCHANGED word
  /\ UNCHANGED <<registry, gen, registered, cancelling, collected, interrupted>>

\* fetch_or of the waiters bit, and wait_timeout, which opens the gate.
Park(t) ==
  /\ pc[t] = "mark"
  /\ word' = IF word \in {"free", "stray"} THEN "stray" ELSE "contended"
  /\ Goto(t, "parked")
  /\ UNCHANGED <<registry, gen, registered, cancelling, collected, interrupted>>

\* Defect: the wait has no time limit.
NeverTimeout(t) == FALSE

\* Defect: the end of a slice of waiting is taken for the end of the call.
TimeoutAbandons(t) ==
  /\ pc[t] = "parked"
  /\ Abandon(t)
  /\ UNCHANGED <<word, registry, registered, cancelling, collected, interrupted>>

\* Five milliseconds have passed, or the wakeup is spurious.
Timeout(t) ==
  /\ pc[t] = "parked"
  /\ Goto(t, "woken")
  /\ UNCHANGED <<word, registry, gen, registered, cancelling, collected, interrupted>>

\* wait_timeout takes the gate again before it returns, and the loop restarts.
Rewake(t) ==
  /\ pc[t] = "woken" /\ GateFree(gen[t])
  /\ Goto(t, "check")
  /\ UNCHANGED <<word, registry, gen, registered, cancelling, collected, interrupted>>

-----------------------------------------------------------------------------
(* Drop for the guards.                                                     *)

\* Defect: the word is cleared and the others notified outside the gate.
UnlockOutside(t) ==
  /\ pc[t] = "held"
  /\ word' = "free"
  /\ pc' = [Woken(gen[t]) EXCEPT ![t] = "idle"]
  /\ gen' = [gen EXCEPT ![t] = 0]
  /\ UNCHANGED <<registry, registered, cancelling, collected, interrupted>>

\* Defect: one sleeper is notified.
UnlockOne(t) ==
  /\ pc[t] = "held" /\ GateFree(gen[t])
  /\ word' = "free"
  /\ \E u \in Thread : pc' = [pc EXCEPT ![u] = Woken(gen[t])[u], ![t] = "idle"]
  /\ gen' = [gen EXCEPT ![t] = 0]
  /\ UNCHANGED <<registry, registered, cancelling, collected, interrupted>>

Unlock(t) ==
  /\ pc[t] = "held" /\ GateFree(gen[t])
  /\ word' = "free"
  /\ pc' = [Woken(gen[t]) EXCEPT ![t] = "idle"]
  /\ gen' = [gen EXCEPT ![t] = 0]
  /\ UNCHANGED <<registry, registered, cancelling, collected, interrupted>>

-----------------------------------------------------------------------------
(* LockCancellation::cancel up to its hooks, and the host's interrupt.       *)

CancelStore(k) ==
  /\ cancelling[k] = "idle"
  /\ cancelling' = [cancelling EXCEPT ![k] = "stored"]
  /\ UNCHANGED <<word, registry, pc, gen, registered, collected, interrupted>>

\* The live entries are upgraded, the dead ones forgotten.
CancelCollect(k) ==
  LET live == {g \in registered[k] : Alive(g)} IN
  /\ cancelling[k] = "stored"
  /\ cancelling' = [cancelling EXCEPT ![k] = "notifying"]
  /\ collected' = [collected EXCEPT ![k] = live]
  /\ registered' = [registered EXCEPT ![k] = live]
  /\ UNCHANGED <<word, registry, pc, gen, interrupted>>

CancelNotify(k) ==
  /\ \E g \in collected[k] :
       /\ GateFree(g)
       /\ pc' = Woken(g)
       /\ collected' = [collected EXCEPT ![k] = @ \ {g}]
  /\ UNCHANGED <<word, registry, gen, registered, cancelling, interrupted>>

Interrupt(t) ==
  /\ t \in Interruptible \ interrupted
  /\ interrupted' = interrupted \cup {t}
  /\ UNCHANGED <<word, registry, pc, gen, registered, cancelling, collected>>

-----------------------------------------------------------------------------
GateStep(t) == EnterGate(t) \/ Rewake(t)

LocalStep(t) == Check(t) \/ Register(t) \/ Try(t) \/ Park(t)

Next ==
  \/ \E t \in Thread : \/ Enter(t) \/ LocalStep(t) \/ GateStep(t) \/ Timeout(t)
                       \/ Unlock(t) \/ Interrupt(t)
  \/ \E k \in Token : CancelStore(k) \/ CancelCollect(k) \/ CancelNotify(k)

Spec == Init /\ [][Next]_vars

-----------------------------------------------------------------------------
(* What the threads see of the lock.                                        *)

Place(t) ==
  IF pc[t] = "idle" THEN "out" ELSE IF pc[t] = "held" THEN "in" ELSE "waiting"

Excused == {t \in Thread : t \in interrupted \/ Cancelled(t)}

Contract == INSTANCE LockContract WITH
  Client <- Thread, place <- [t \in Thread |-> Place(t)], excused <- Excused,
  lapsed <- FALSE

\* A lock that never lapses: a thread gets the guard only while nobody has it,
\* and its call fails only once its token has been cancelled or its host has
\* interrupted it, never because of a wait that ended, a wakeup meant for
\* another or a condition variable that has been replaced.
ImplementsLock == Contract!Spec

-----------------------------------------------------------------------------
(* Properties.                                                              *)

\* The word tells the truth: it is free exactly while nobody has the guard, at
\* most one thread has it, and a waiters bit set late is never left behind in
\* a free word, where it would lock the object for ever.
LockWordExact ==
  /\ \A t, u \in Thread : pc[t] = "held" /\ pc[u] = "held" => t = u
  /\ word = "free" <=> \A t \in Thread : pc[t] # "held"
  /\ word # "stray"

\* All contenders, the owner of the guard and the cancellers at work meet at one
\* condition variable, although the registry holds it weakly and makes a new
\* one whenever the last of them has gone.
OneCondvar ==
  /\ \A t, u \in Thread : pc[t] # "idle" /\ pc[u] # "idle" => gen[t] = gen[u]
  /\ \A t \in Thread, k \in Token : pc[t] # "idle" => collected[k] \subseteq {gen[t]}

\* No lost wakeup at release: whoever sleeps, sleeps because of somebody who
\* has the guard and will wake it, and not until its time limit.
SleepersHaveHolder ==
  \A t \in Thread : pc[t] = "parked" => \E u \in Thread : pc[u] = "held"

\* No lost wakeup at cancellation: a sleeper whose token is cancelled will be
\* notified by the canceller, wherever the flag was raised between its checks.
CancelledAwake ==
  \A t \in Thread : pc[t] = "parked" /\ Cancelled(t) =>
    LET k == TokenOf[t] IN cancelling[k] = "stored" \/ gen[t] \in collected[k]

\* Threads go on, a mutex that is free again and again is obtained, and cancel
\* goes on once called. Nobody has to unlock, and no wait has to time out.
FairSpec ==
  /\ Spec
  /\ \A t \in Thread : WF_vars(LocalStep(t)) /\ SF_vars(GateStep(t))
  /\ \A k \in Token : WF_vars(CancelCollect(k)) /\ SF_vars(CancelNotify(k))

Waiting(t) == pc[t] \notin {"idle", "held"}

\* A cancelled acquisition returns although the guard is never released and
\* without the help of the time limit.
CancelReturns ==
  \A t \in Thread : Waiting(t) /\ Cancelled(t) ~> ~Waiting(t)

\* An interrupt wakes nobody: the acquisition ends because each wait is limited,
\* again without any release.
InterruptReturns ==
  (\A t \in Thread : WF_vars(Timeout(t))) =>
    \A t \in Thread : Waiting(t) /\ t \in interrupted ~> ~Waiting(t)

=============================================================================
