--------------------------- MODULE SharedLock_proofs ---------------------------
(* What the lock of a shared object guarantees for any number of threads and *)
(* tokens. Everything follows from one inductive invariant, LockInv.        *)
EXTENDS SharedLock, TLAPS

\* An Arc is held exactly during a call and by the guard it returns, and every
\* live Arc is of the generation the registry holds.
ArcsLatest ==
  /\ \A t \in Thread : pc[t] = "idle" <=> gen[t] = 0
  /\ \A t \in Thread : gen[t] \in {0, registry}
  /\ \A k \in Token : collected[k] \subseteq {registry}

\* The gate of the latest generation is held by one thread at most.
GateExclusive ==
  \A t, u \in Thread : pc[t] \in {"try", "mark"} /\ pc[u] \in {"try", "mark"} => t = u

\* Nobody sleeps, or is about to, beside a free word.
BesideOwner == \A t \in Thread : pc[t] \in {"mark", "parked"} => word # "free"

\* Past the registration a token knows the thread's generation.
KnownToToken ==
  \A t \in Thread : pc[t] \in {"gate", "try", "mark", "parked"} /\ TokenOf[t] \in Token
    => gen[t] \in registered[TokenOf[t]]

\* What CancelledAwake says of sleepers holds from the look under the gate on.
WillBeNotified ==
  \A t \in Thread : pc[t] \in {"try", "mark", "parked"} /\ Cancelled(t) =>
    \/ cancelling[TokenOf[t]] = "stored"
    \/ gen[t] \in collected[TokenOf[t]]

LockInv ==
  /\ TypeOK /\ ArcsLatest /\ GateExclusive /\ LockWordExact /\ BesideOwner
  /\ KnownToToken /\ WillBeNotified

-----------------------------------------------------------------------------
LEMMA InitLockInv == ASSUME Init PROVE LockInv
  BY SharedLockAssumption
  DEF Init, LockInv, TypeOK, Generation, ArcsLatest, GateExclusive, LockWordExact,
      BesideOwner, KnownToToken, WillBeNotified, Cancelled

-----------------------------------------------------------------------------
(* Steps of one thread.                                                     *)

\* A token may learn of more generations on the way.
RegisteredGrows ==
  /\ registered' \in [Token -> SUBSET Generation]
  /\ \A k \in Token : registered[k] \subseteq registered'[k]

\* A call that is given up keeps the invariant: its thread had nothing yet.
LEMMA AbandonKeeps ==
  ASSUME LockInv, NEW t \in Thread, pc[t] \in {"check", "register", "gate"},
         Abandon(t), RegisteredGrows,
         UNCHANGED <<word, registry, cancelling, collected, interrupted>>
  PROVE  LockInv'
<1> USE SharedLockAssumption DEF Generation, Goto, Abandon, RegisteredGrows
<1>1. TypeOK'
  BY DEF LockInv, TypeOK, ArcsLatest
<1>2. ArcsLatest'
  BY DEF LockInv, TypeOK, ArcsLatest
<1>3. GateExclusive'
  BY DEF LockInv, TypeOK, ArcsLatest, GateExclusive
<1>4. LockWordExact'
  BY DEF LockInv, TypeOK, ArcsLatest, LockWordExact
<1>5. BesideOwner'
  BY DEF LockInv, TypeOK, ArcsLatest, BesideOwner
<1>6. KnownToToken'
  BY DEF LockInv, TypeOK, ArcsLatest, KnownToToken
<1>7. WillBeNotified'
  BY DEF LockInv, TypeOK, ArcsLatest, WillBeNotified, Cancelled
<1> QED BY <1>1, <1>2, <1>3, <1>4, <1>5, <1>6, <1>7 DEF LockInv

\* A contender that moves on before the gate, or back to the loop, disturbs
\* nothing, provided that its token knows it when it goes to the gate.
LEMMA MoveKeeps ==
  ASSUME LockInv, NEW t \in Thread, pc[t] \in {"check", "register", "parked", "woken"},
         NEW l \in {"check", "register", "woken", "gate"}, Goto(t, l), RegisteredGrows,
         l = "gate" /\ TokenOf[t] \in Token => gen[t] \in registered'[TokenOf[t]],
         UNCHANGED <<word, registry, gen, cancelling, collected, interrupted>>
  PROVE  LockInv'
<1> USE SharedLockAssumption DEF Generation, Goto, RegisteredGrows
<1>1. TypeOK'
  BY DEF LockInv, TypeOK, ArcsLatest
<1>2. ArcsLatest'
  BY DEF LockInv, TypeOK, ArcsLatest
<1>3. GateExclusive'
  BY DEF LockInv, TypeOK, ArcsLatest, GateExclusive
<1>4. LockWordExact'
  BY DEF LockInv, TypeOK, ArcsLatest, LockWordExact
<1>5. BesideOwner'
  BY DEF LockInv, TypeOK, ArcsLatest, BesideOwner
<1>6. KnownToToken'
  BY DEF LockInv, TypeOK, ArcsLatest, KnownToToken
<1>7. WillBeNotified'
  BY DEF LockInv, TypeOK, ArcsLatest, WillBeNotified, Cancelled
<1> QED BY <1>1, <1>2, <1>3, <1>4, <1>5, <1>6, <1>7 DEF LockInv

\* A new generation is made only when nobody has an Arc of the old one.
LEMMA EnterKeeps == ASSUME LockInv, NEW t \in Thread, Enter(t) PROVE LockInv'
<1>0. /\ Lookup \in 1 .. MaxGen
      /\ \/ Lookup = registry
         \/ (\A u \in Thread : gen[u] = 0) /\ (\A k \in Token : collected[k] = {})
  <2> USE SharedLockAssumption DEF LockInv, TypeOK, ArcsLatest, Generation
  <2>1. registry \in Nat /\ Lookup <= MaxGen
    BY DEF Enter
  <2>2. CASE registry # 0 /\ Alive(registry)
    <3>1. Lookup = registry
      BY <2>2 DEF Lookup
    <3> QED BY <2>1, <2>2, <3>1
  <2>3. CASE ~(registry # 0 /\ Alive(registry))
    <3>1. Lookup = registry + 1
      BY <2>3 DEF Lookup
    <3>2. \A u \in Thread : gen[u] = 0
      BY <2>3 DEF Alive
    <3>3. \A k \in Token : registry \notin collected[k] /\ collected[k] \subseteq {registry}
      BY <2>3 DEF Alive
    <3> QED BY <2>1, <3>1, <3>2, <3>3
  <2> QED BY <2>2, <2>3
<1> HIDE DEF Lookup
<1>9. /\ pc[t] = "idle" /\ registry' = Lookup
      /\ gen' = [gen EXCEPT ![t] = Lookup] /\ pc' = [pc EXCEPT ![t] = "check"]
      /\ UNCHANGED <<word, registered, cancelling, collected, interrupted>>
  BY DEF Enter, Goto
<1> USE SharedLockAssumption, <1>0, <1>9 DEF Generation
<1>1. TypeOK'
  BY DEF LockInv, TypeOK, ArcsLatest
<1>2. ArcsLatest'
  BY DEF LockInv, TypeOK, ArcsLatest
<1>3. GateExclusive'
  BY DEF LockInv, TypeOK, ArcsLatest, GateExclusive
<1>4. LockWordExact'
  BY DEF LockInv, TypeOK, ArcsLatest, LockWordExact
<1>5. BesideOwner'
  BY DEF LockInv, TypeOK, ArcsLatest, BesideOwner
<1>6. KnownToToken'
  BY DEF LockInv, TypeOK, ArcsLatest, KnownToToken
<1>7. WillBeNotified'
  BY DEF LockInv, TypeOK, ArcsLatest, WillBeNotified, Cancelled
<1> QED BY <1>1, <1>2, <1>3, <1>4, <1>5, <1>6, <1>7 DEF LockInv

\* Check, Register, Timeout and Rewake are such moves.
LEMMA LoopKeeps ==
  ASSUME LockInv, NEW t \in Thread, Check(t) \/ Register(t) \/ Timeout(t) \/ Rewake(t)
  PROVE  LockInv'
<1>0. registered \in [Token -> SUBSET Generation] /\ gen[t] \in 0 .. MaxGen
  BY DEF LockInv, TypeOK
<1>1. CASE Check(t)
  <2>1. RegisteredGrows
    BY <1>0, <1>1 DEF Check, RegisteredGrows
  <2>2. CASE t \in interrupted \/ Cancelled(t)
    BY <1>1, <2>1, <2>2, AbandonKeeps DEF Check
  <2>3. CASE ~(t \in interrupted \/ Cancelled(t))
    <3>1. CASE TokenOf[t] \in Token
      BY <1>1, <2>1, <2>3, <3>1, MoveKeeps DEF Check
    <3>2. CASE TokenOf[t] \notin Token
      BY <1>1, <2>1, <2>3, <3>2, MoveKeeps DEF Check
    <3> QED BY <3>1, <3>2
  <2> QED BY <2>2, <2>3
<1>2. CASE Register(t)
  <2>1. gen[t] \in Generation /\ TokenOf[t] \in Token \cup {NoToken}
    BY <1>0, <1>2, SharedLockAssumption DEF Register, LockInv, ArcsLatest, Generation
  <2>2. /\ RegisteredGrows
        /\ TokenOf[t] \in Token => gen[t] \in registered'[TokenOf[t]]
    BY <1>0, <1>2, <2>1 DEF Register, RegisteredGrows
  <2>3. CASE Cancelled(t)
    BY <1>2, <2>2, <2>3, AbandonKeeps DEF Register
  <2>4. CASE ~Cancelled(t)
    BY <1>2, <2>2, <2>4, MoveKeeps DEF Register
  <2> QED BY <2>3, <2>4
<1>3. CASE Timeout(t)
  <2>1. RegisteredGrows
    BY <1>0, <1>3 DEF Timeout, RegisteredGrows
  <2> QED BY <1>3, <2>1, MoveKeeps DEF Timeout
<1>4. CASE Rewake(t)
  <2>1. RegisteredGrows
    BY <1>0, <1>4 DEF Rewake, RegisteredGrows
  <2> QED BY <1>4, <2>1, MoveKeeps DEF Rewake
<1> QED BY <1>1, <1>2, <1>3, <1>4

\* The gate is taken when it is free, and only by a thread not cancelled.
LEMMA EnterGateKeeps == ASSUME LockInv, NEW t \in Thread, EnterGate(t) PROVE LockInv'
<1>0. CASE Cancelled(t)
  <2>1. RegisteredGrows
    BY DEF LockInv, TypeOK, EnterGate, RegisteredGrows
  <2> QED BY <1>0, <2>1, AbandonKeeps DEF EnterGate
<1>1. CASE ~Cancelled(t)
  <2>9. /\ pc[t] = "gate" /\ pc' = [pc EXCEPT ![t] = "try"]
        /\ \A u \in Thread : gen[u] = gen[t] => pc[u] \notin {"try", "mark"}
        /\ UNCHANGED <<word, registry, gen, registered, cancelling, collected, interrupted>>
    BY <1>1 DEF EnterGate, GateFree, Goto
<2> USE SharedLockAssumption, <1>1, <2>9 DEF Generation
<2>1. TypeOK'
    BY DEF LockInv, TypeOK, ArcsLatest
<2>2. ArcsLatest'
    BY DEF LockInv, TypeOK, ArcsLatest
<2>3. GateExclusive'
    BY DEF LockInv, TypeOK, ArcsLatest, GateExclusive
<2>4. LockWordExact'
    BY DEF LockInv, TypeOK, ArcsLatest, LockWordExact
<2>5. BesideOwner'
    BY DEF LockInv, TypeOK, ArcsLatest, BesideOwner
<2>6. KnownToToken'
    BY DEF LockInv, TypeOK, ArcsLatest, KnownToToken
<2>7. WillBeNotified'
    BY DEF LockInv, TypeOK, ArcsLatest, WillBeNotified, Cancelled
<2> QED BY <2>1, <2>2, <2>3, <2>4, <2>5, <2>6, <2>7 DEF LockInv
<1> QED BY <1>0, <1>1

\* The CAS succeeds only on a free word, which nobody else has.
LEMMA TryKeeps == ASSUME LockInv, NEW t \in Thread, Try(t) PROVE LockInv'
<1> USE SharedLockAssumption DEF Generation, Goto, Try
<1>1. TypeOK'
  BY DEF LockInv, TypeOK, ArcsLatest
<1>2. ArcsLatest'
  BY DEF LockInv, TypeOK, ArcsLatest
<1>3. GateExclusive'
  BY DEF LockInv, TypeOK, ArcsLatest, GateExclusive
<1>4. LockWordExact'
  BY DEF LockInv, TypeOK, ArcsLatest, LockWordExact
<1>5. BesideOwner'
  BY DEF LockInv, TypeOK, ArcsLatest, BesideOwner
<1>6. KnownToToken'
  BY DEF LockInv, TypeOK, ArcsLatest, KnownToToken
<1>7. WillBeNotified'
  BY DEF LockInv, TypeOK, ArcsLatest, WillBeNotified, Cancelled
<1> QED BY <1>1, <1>2, <1>3, <1>4, <1>5, <1>6, <1>7 DEF LockInv

\* The waiters bit meets a word that cannot have been freed since the CAS.
LEMMA ParkKeeps == ASSUME LockInv, NEW t \in Thread, Park(t) PROVE LockInv'
<1> USE SharedLockAssumption DEF Generation, Goto, Park, BesideOwner
<1>1. TypeOK'
  BY DEF LockInv, TypeOK, ArcsLatest
<1>2. ArcsLatest'
  BY DEF LockInv, TypeOK, ArcsLatest
<1>3. GateExclusive'
  BY DEF LockInv, TypeOK, ArcsLatest, GateExclusive
<1>4. LockWordExact'
  BY DEF LockInv, TypeOK, ArcsLatest, LockWordExact
<1>5. BesideOwner'
  BY DEF LockInv, TypeOK, ArcsLatest, BesideOwner
<1>6. KnownToToken'
  BY DEF LockInv, TypeOK, ArcsLatest, KnownToToken
<1>7. WillBeNotified'
  BY DEF LockInv, TypeOK, ArcsLatest, WillBeNotified, Cancelled
<1> QED BY <1>1, <1>2, <1>3, <1>4, <1>5, <1>6, <1>7 DEF LockInv

-----------------------------------------------------------------------------
(* Steps that wake the sleepers of a generation.                            *)

\* What a notification does to each thread.
LEMMA WokenFact ==
  ASSUME TypeOK, NEW g
  PROVE  /\ Woken(g) \in [Thread -> {"idle", "check", "register", "gate", "try", "mark",
                                     "parked", "woken", "held"}]
         /\ \A u \in Thread :
              Woken(g)[u] = IF pc[u] = "parked" /\ gen[u] = g THEN "woken" ELSE pc[u]
  BY DEF TypeOK, Woken

\* The word is freed under the gate: nobody is between the CAS and the wait.
LEMMA UnlockKeeps == ASSUME LockInv, NEW t \in Thread, Unlock(t) PROVE LockInv'
<1>9. /\ pc[t] = "held" /\ word' = "free"
      /\ \A u \in Thread : gen[u] = gen[t] => pc[u] \notin {"try", "mark"}
      /\ pc' \in [Thread -> {"idle", "check", "register", "gate", "try", "mark",
                             "parked", "woken", "held"}]
      /\ \A u \in Thread : pc'[u] = IF u = t THEN "idle"
                                    ELSE IF pc[u] = "parked" /\ gen[u] = gen[t]
                                    THEN "woken" ELSE pc[u]
      /\ gen' = [gen EXCEPT ![t] = 0]
      /\ UNCHANGED <<registry, registered, cancelling, collected, interrupted>>
  BY WokenFact DEF Unlock, GateFree, LockInv
<1> USE SharedLockAssumption, <1>9 DEF Generation
<1>1. TypeOK'
  BY DEF LockInv, TypeOK, ArcsLatest
<1>2. ArcsLatest'
  BY DEF LockInv, TypeOK, ArcsLatest
<1>3. GateExclusive'
  BY DEF LockInv, TypeOK, ArcsLatest, GateExclusive
<1>4. LockWordExact'
  BY DEF LockInv, TypeOK, ArcsLatest, LockWordExact
<1>5. BesideOwner'
  BY DEF LockInv, TypeOK, ArcsLatest, BesideOwner
<1>6. KnownToToken'
  BY DEF LockInv, TypeOK, ArcsLatest, KnownToToken
<1>7. WillBeNotified'
  BY DEF LockInv, TypeOK, ArcsLatest, WillBeNotified, Cancelled
<1> QED BY <1>1, <1>2, <1>3, <1>4, <1>5, <1>6, <1>7 DEF LockInv

\* A canceller that has notified a generation leaves no sleeper of it.
LEMMA CancelNotifyKeeps == ASSUME LockInv, NEW k \in Token, CancelNotify(k) PROVE LockInv'
<1>8. PICK g \in collected[k] : /\ GateFree(g) /\ pc' = Woken(g)
                                /\ collected' = [collected EXCEPT ![k] = @ \ {g}]
  BY DEF CancelNotify
<1>9. /\ \A u \in Thread : gen[u] = g => pc[u] \notin {"try", "mark"}
      /\ pc' \in [Thread -> {"idle", "check", "register", "gate", "try", "mark",
                             "parked", "woken", "held"}]
      /\ \A u \in Thread : pc'[u] = IF pc[u] = "parked" /\ gen[u] = g
                                    THEN "woken" ELSE pc[u]
      /\ UNCHANGED <<word, registry, gen, registered, cancelling, interrupted>>
  BY <1>8, WokenFact DEF CancelNotify, GateFree, LockInv
<1> USE SharedLockAssumption, <1>8, <1>9 DEF Generation
<1>1. TypeOK'
  BY DEF LockInv, TypeOK, ArcsLatest
<1>2. ArcsLatest'
  BY DEF LockInv, TypeOK, ArcsLatest
<1>3. GateExclusive'
  BY DEF LockInv, TypeOK, ArcsLatest, GateExclusive
<1>4. LockWordExact'
  BY DEF LockInv, TypeOK, ArcsLatest, LockWordExact
<1>5. BesideOwner'
  BY DEF LockInv, TypeOK, ArcsLatest, BesideOwner
<1>6. KnownToToken'
  BY DEF LockInv, TypeOK, ArcsLatest, KnownToToken
<1>7. WillBeNotified'
  BY DEF LockInv, TypeOK, ArcsLatest, WillBeNotified, Cancelled
<1> QED BY <1>1, <1>2, <1>3, <1>4, <1>5, <1>6, <1>7 DEF LockInv

-----------------------------------------------------------------------------
(* The other steps of a canceller, and the interrupt.                       *)

\* A flag raised now finds every contender known to its token.
LEMMA CancelStoreKeeps == ASSUME LockInv, NEW k \in Token, CancelStore(k) PROVE LockInv'
<1> USE SharedLockAssumption DEF Generation, CancelStore
<1>1. TypeOK'
  BY DEF LockInv, TypeOK, ArcsLatest
<1>2. ArcsLatest'
  BY DEF LockInv, TypeOK, ArcsLatest
<1>3. GateExclusive'
  BY DEF LockInv, TypeOK, ArcsLatest, GateExclusive
<1>4. LockWordExact'
  BY DEF LockInv, TypeOK, ArcsLatest, LockWordExact
<1>5. BesideOwner'
  BY DEF LockInv, TypeOK, ArcsLatest, BesideOwner
<1>6. KnownToToken'
  BY DEF LockInv, TypeOK, ArcsLatest, KnownToToken
<1>7. WillBeNotified'
  BY DEF LockInv, TypeOK, ArcsLatest, WillBeNotified, Cancelled
<1> QED BY <1>1, <1>2, <1>3, <1>4, <1>5, <1>6, <1>7 DEF LockInv

\* Whoever contends holds an Arc, so its generation is collected and kept.
LEMMA CancelCollectKeeps == ASSUME LockInv, NEW k \in Token, CancelCollect(k) PROVE LockInv'
<1>9. PICK live \in SUBSET registered[k] :
        /\ \A t \in Thread : gen[t] \in registered[k] => gen[t] \in live
        /\ live \subseteq {registry}
        /\ cancelling[k] = "stored"
        /\ cancelling' = [cancelling EXCEPT ![k] = "notifying"]
        /\ collected' = [collected EXCEPT ![k] = live]
        /\ registered' = [registered EXCEPT ![k] = live]
        /\ UNCHANGED <<word, registry, pc, gen, interrupted>>
  <2>1. \A g \in registered[k] : Alive(g) => g = registry
    BY DEF LockInv, TypeOK, ArcsLatest, Alive, Generation
  <2> QED BY <2>1 DEF CancelCollect, Alive
<1> USE SharedLockAssumption, <1>9 DEF Generation
<1>1. TypeOK'
  BY DEF LockInv, TypeOK, ArcsLatest
<1>2. ArcsLatest'
  BY DEF LockInv, TypeOK, ArcsLatest
<1>3. GateExclusive'
  BY DEF LockInv, TypeOK, ArcsLatest, GateExclusive
<1>4. LockWordExact'
  BY DEF LockInv, TypeOK, ArcsLatest, LockWordExact
<1>5. BesideOwner'
  BY DEF LockInv, TypeOK, ArcsLatest, BesideOwner
<1>6. KnownToToken'
  BY DEF LockInv, TypeOK, ArcsLatest, KnownToToken
<1>7. WillBeNotified'
  BY DEF LockInv, TypeOK, ArcsLatest, WillBeNotified, Cancelled, KnownToToken
<1> QED BY <1>1, <1>2, <1>3, <1>4, <1>5, <1>6, <1>7 DEF LockInv

\* An interrupt only records itself.
LEMMA InterruptKeeps == ASSUME LockInv, NEW t \in Thread, Interrupt(t) PROVE LockInv'
<1> USE SharedLockAssumption DEF Generation, Interrupt
<1>1. TypeOK'
  BY DEF LockInv, TypeOK, ArcsLatest
<1>2. ArcsLatest'
  BY DEF LockInv, TypeOK, ArcsLatest
<1>3. GateExclusive'
  BY DEF LockInv, TypeOK, ArcsLatest, GateExclusive
<1>4. LockWordExact'
  BY DEF LockInv, TypeOK, ArcsLatest, LockWordExact
<1>5. BesideOwner'
  BY DEF LockInv, TypeOK, ArcsLatest, BesideOwner
<1>6. KnownToToken'
  BY DEF LockInv, TypeOK, ArcsLatest, KnownToToken
<1>7. WillBeNotified'
  BY DEF LockInv, TypeOK, ArcsLatest, WillBeNotified, Cancelled
<1> QED BY <1>1, <1>2, <1>3, <1>4, <1>5, <1>6, <1>7 DEF LockInv

-----------------------------------------------------------------------------
\* The invariant holds in every reachable state.
THEOREM Invariant == Spec => []LockInv
<1>1. LockInv /\ [Next]_vars => LockInv'
  <2> SUFFICES ASSUME LockInv, [Next]_vars PROVE LockInv'
    OBVIOUS
  <2>1. CASE UNCHANGED vars
    BY <2>1 DEF vars, LockInv, TypeOK, ArcsLatest, GateExclusive, LockWordExact,
                BesideOwner, KnownToToken, WillBeNotified, Cancelled
  <2>2. CASE Next
    BY <2>2, EnterKeeps, LoopKeeps, EnterGateKeeps, TryKeeps, ParkKeeps, UnlockKeeps,
       InterruptKeeps, CancelStoreKeeps, CancelCollectKeeps, CancelNotifyKeeps
       DEF Next, LocalStep, GateStep
  <2> QED BY <2>1, <2>2
<1> QED BY InitLockInv, <1>1, PTL DEF Spec

\* Type correctness.
THEOREM TypeCorrect == Spec => []TypeOK
<1>1. LockInv => TypeOK
  BY DEF LockInv
<1> QED BY Invariant, <1>1, PTL

\* The word names its one owner, and no waiters bit is ever left behind.
THEOREM WordTellsTheTruth == Spec => []LockWordExact
<1>1. LockInv => LockWordExact
  BY DEF LockInv
<1> QED BY Invariant, <1>1, PTL

\* Contenders, owner and cancellers share one condition variable.
THEOREM CondvarIsShared == Spec => []OneCondvar
<1>1. LockInv => OneCondvar
  BY DEF LockInv, TypeOK, ArcsLatest, OneCondvar
<1> QED BY Invariant, <1>1, PTL

\* A sleeper has an owner of the guard to wait for.
THEOREM ReleaseWakesAll == Spec => []SleepersHaveHolder
<1>1. LockInv => SleepersHaveHolder
  BY DEF LockInv, BesideOwner, LockWordExact, SleepersHaveHolder
<1> QED BY Invariant, <1>1, PTL

\* A cancelled sleeper is still to be notified by its canceller.
THEOREM CancellationWakes == Spec => []CancelledAwake
<1>1. LockInv => CancelledAwake
  BY DEF LockInv, WillBeNotified, CancelledAwake
<1> QED BY Invariant, <1>1, PTL

-----------------------------------------------------------------------------
(* The lock implements LockContract. A step is seen by the threads when it   *)
(* lets one of them in or out; the rest only moves contenders about.        *)

Mapped == <<[t \in Thread |-> Place(t)], Excused>>

Seen == Contract!Next \/ UNCHANGED Mapped

\* A step of thread t that changes its place alone, and no token or interrupt.
LEMMA PlacesMove ==
  ASSUME TypeOK, NEW t \in Thread, NEW l, Goto(t, l), UNCHANGED <<cancelling, interrupted>>
  PROVE  /\ Excused' = Excused
         /\ [u \in Thread |-> Place(u)]' =
              [[u \in Thread |-> Place(u)] EXCEPT ![t] =
                 IF l = "idle" THEN "out" ELSE IF l = "held" THEN "in" ELSE "waiting"]
<1>1. Excused' = Excused
  BY DEF Excused, Cancelled
<1>2. \A u \in Thread : Place(u)' =
        IF u = t THEN (IF l = "idle" THEN "out" ELSE IF l = "held" THEN "in" ELSE "waiting")
        ELSE Place(u)
  BY DEF TypeOK, Goto, Place
<1> QED BY <1>1, <1>2

\* Contenders that go from one place before the guard to another are not seen.
LEMMA WaitingUnseen ==
  ASSUME TypeOK, UNCHANGED <<cancelling, interrupted>>,
         \A u \in Thread : \/ pc'[u] = pc[u]
                           \/ /\ pc[u] \notin {"idle", "held"}
                              /\ pc'[u] \notin {"idle", "held"}
  PROVE  Seen
<1>1. Excused' = Excused
  BY DEF Excused, Cancelled
<1>2. \A u \in Thread : Place(u)' = Place(u)
  BY DEF Place
<1> QED BY <1>1, <1>2 DEF Seen, Mapped

\* A call is given up only by a thread that is cancelled or interrupted.
LEMMA AbandonRefuses ==
  ASSUME TypeOK, NEW t \in Thread, pc[t] \in {"check", "register", "gate"}, t \in Excused,
         Abandon(t), UNCHANGED <<cancelling, interrupted>>
  PROVE  Seen
<1>1. Contract!Refuse(t)
  BY PlacesMove DEF Abandon, Contract!Refuse, Contract!Move, Place
<1> QED BY <1>1 DEF Seen, Contract!Next

LEMMA LoopSeen ==
  ASSUME LockInv, NEW t \in Thread,
         Check(t) \/ Register(t) \/ EnterGate(t) \/ Park(t) \/ Timeout(t) \/ Rewake(t)
  PROVE  Seen
<1> USE DEF LockInv
<1>0. TypeOK /\ UNCHANGED <<cancelling, interrupted>>
  BY DEF Check, Register, EnterGate, Park, Timeout, Rewake
<1>1. CASE /\ pc[t] \in {"check", "register", "gate"}
           /\ t \in interrupted \/ Cancelled(t)
           /\ Abandon(t)
  BY <1>0, <1>1, AbandonRefuses DEF Excused
<1>2. CASE /\ pc[t] \notin {"idle", "held"}
           /\ \E l \in {"register", "gate", "try", "parked", "woken", "check"} : Goto(t, l)
  BY <1>0, <1>2, WaitingUnseen DEF TypeOK, Goto
<1> QED BY <1>1, <1>2 DEF Check, Register, EnterGate, Park, Timeout, Rewake

\* A call that begins asks for the guard.
LEMMA EnterSeen == ASSUME LockInv, NEW t \in Thread, Enter(t) PROVE Seen
<1>1. Contract!Request(t)
  BY PlacesMove DEF LockInv, Enter, Contract!Request, Contract!Move, Place
<1> QED BY <1>1 DEF Seen, Contract!Next

\* The CAS that succeeds lets the thread in; the word says that nobody is.
LEMMA TrySeen == ASSUME LockInv, NEW t \in Thread, Try(t) PROVE Seen
<1>0. TypeOK /\ LockWordExact /\ pc[t] = "try" /\ UNCHANGED <<cancelling, interrupted>>
  BY DEF LockInv, Try
<1>1. CASE word = "free"
  <2>1. Goto(t, "held")
    BY <1>1 DEF Try
  <2>2. Contract!Alone(t)
    BY <1>0, <1>1 DEF LockWordExact, Contract!Alone, Place
  <2>3. Contract!Grant(t)
    BY <1>0, <2>1, <2>2, PlacesMove DEF Contract!Grant, Contract!Move, Place
  <2> QED BY <2>3 DEF Seen, Contract!Next
<1>2. CASE word # "free"
  BY <1>0, <1>2, WaitingUnseen DEF Try, TypeOK, Goto
<1> QED BY <1>1, <1>2

\* The guard is dropped; that it wakes the sleepers is not seen.
LEMMA UnlockSeen == ASSUME LockInv, NEW t \in Thread, Unlock(t) PROVE Seen
<1>1. /\ pc[t] = "held" /\ UNCHANGED <<cancelling, interrupted>>
      /\ \A u \in Thread : pc'[u] = IF u = t THEN "idle"
                                    ELSE IF pc[u] = "parked" /\ gen[u] = gen[t]
                                    THEN "woken" ELSE pc[u]
  BY WokenFact DEF Unlock, LockInv
<1>2. Excused' = Excused
  BY <1>1 DEF Excused, Cancelled
<1>3. \A u \in Thread : Place(u)' = IF u = t THEN "out" ELSE Place(u)
  BY <1>1 DEF Place
<1>4. Contract!Release(t)
  BY <1>1, <1>2, <1>3 DEF Contract!Release, Contract!Move, Place
<1> QED BY <1>4 DEF Seen, Contract!Next

\* A flag or an interrupt excuses; a notification moves sleepers only.
LEMMA ExcuseSeen ==
  ASSUME LockInv,
         \/ \E t \in Thread : Interrupt(t)
         \/ \E k \in Token : CancelStore(k) \/ CancelCollect(k) \/ CancelNotify(k)
  PROVE  Seen
<1>1. CASE \E k \in Token : CancelNotify(k)
  <2>1. PICK k \in Token : CancelNotify(k)
    BY <1>1
  <2>2. PICK g \in collected[k] : pc' = Woken(g)
    BY <2>1 DEF CancelNotify
  <2>3. \A u \in Thread : pc'[u] = IF pc[u] = "parked" /\ gen[u] = g THEN "woken" ELSE pc[u]
    BY <2>2, WokenFact DEF LockInv
  <2> QED BY <2>1, <2>3, WaitingUnseen DEF LockInv, CancelNotify
<1>2. CASE \/ \E t \in Thread : Interrupt(t)
           \/ \E k \in Token : CancelStore(k) \/ CancelCollect(k)
  <2>1. UNCHANGED pc /\ Excused \subseteq Excused'
    BY <1>2, SharedLockAssumption
    DEF LockInv, TypeOK, Excused, Cancelled, Interrupt, CancelStore, CancelCollect
  <2>2. [t \in Thread |-> Place(t)]' = [t \in Thread |-> Place(t)]
    BY <2>1 DEF Place
  <2>3. Contract!Excuse
    BY <2>1, <2>2 DEF Contract!Excuse, Excused
  <2> QED BY <2>3 DEF Seen, Contract!Next
<1> QED BY <1>1, <1>2

\* For any threads and tokens, the lock of a shared object is an exclusive lock
\* that never lapses and sends away only the cancelled and the interrupted.
THEOREM SharedLockImplements == Spec => ImplementsLock
<1>1. Init => Contract!Init
  BY DEF Init, Contract!Init, Place, Excused
<1>2. LockInv /\ [Next]_vars => [Contract!Next]_(Contract!vars)
  <2> SUFFICES ASSUME LockInv, [Next]_vars PROVE Seen
    BY DEF Seen, Mapped, Contract!vars
  <2>1. CASE UNCHANGED vars
    BY <2>1, WaitingUnseen DEF vars, LockInv
  <2>2. CASE Next
    BY <2>2, LoopSeen, EnterSeen, TrySeen, UnlockSeen, ExcuseSeen
       DEF Next, LocalStep, GateStep
  <2> QED BY <2>1, <2>2
<1> QED BY <1>1, <1>2, Invariant, PTL DEF Spec, ImplementsLock, Contract!Spec

=============================================================================
