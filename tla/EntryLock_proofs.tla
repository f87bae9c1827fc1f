--------------------------- MODULE EntryLock_proofs ---------------------------
(***************************************************************************)
(* Proofs about EntryLock, for any set of processes and any number of       *)
(* acquisitions: type correctness, that nobody but a dead process leaves a  *)
(* lock file behind, and that exclusion holds unless recoveries overlap.    *)
(***************************************************************************)
EXTENDS EntryLock, TLAPS

USE LockAssumption DEF File, Goto, Forget, StopClock, Mine, TimedOut, InUse, OwnerDead,
                       Aged

\* Type correctness, for every instance.
THEOREM TypeCorrect == Spec => []TypeOK
<1>1. Init => TypeOK
  BY DEF Init, TypeOK
<1>2. TypeOK /\ [Next]_vars => TypeOK'
  <2> SUFFICES ASSUME TypeOK, [Next]_vars PROVE TypeOK'
    OBVIOUS
  <2>1. CASE UNCHANGED vars
    BY <2>1 DEF TypeOK, vars
  <2>2. CASE Next
    <3>1. PICK p \in Process :
            \/ Acquire(p) \/ AcquireStep(p) \/ Expire(p) \/ WriteFails(p)
            \/ AcquireFails(p) \/ Release(p) \/ Unlink(p) \/ CleanupFails(p) \/ Crash(p)
      BY <2>2 DEF Next
    <3>2. CASE Acquire(p) \/ Expire(p) \/ WriteFails(p) \/ AcquireFails(p)
      BY <3>2 DEF TypeOK, Acquire, Expire, WriteFails, AcquireFails
    <3>3. CASE Release(p) \/ Unlink(p) \/ CleanupFails(p) \/ Crash(p)
      BY <3>3 DEF TypeOK, Release, Unlink, CleanupFails, Crash
    <3>4. CASE Create(p)
      <4>1. CASE file = NoFile
        <5>1. /\ file' = [by |-> p, no |-> nonce[p] + 1, full |-> FALSE]
              /\ nonce' = [nonce EXCEPT ![p] = @ + 1] /\ pc' = [pc EXCEPT ![p] = "write"]
              /\ late' = late \ {p} /\ UNCHANGED <<seen, mishaps>>
          BY <3>4, <4>1 DEF Create
        <5>2. file' \in File
          BY <5>1 DEF TypeOK
        <5> HIDE DEF File
        <5> QED BY <5>1, <5>2 DEF TypeOK
      <4>2. CASE file # NoFile
        BY <3>4, <4>2 DEF TypeOK, Create
      <4> QED BY <4>1, <4>2
    <3>5. CASE Write(p)
      BY <3>5 DEF TypeOK, Write
    <3>7. CASE Sleep(p) \/ GiveUp(p) \/ Remove(p)
      BY <3>7 DEF TypeOK, Sleep, GiveUp, Remove
    <3>9. CASE Read(p)
      <4>1. CASE file = NoFile
        BY <3>9, <4>1 DEF TypeOK, Read
      <4>2. CASE file # NoFile
        BY <3>9, <4>2 DEF TypeOK, Read
      <4> QED BY <4>1, <4>2
    <3>8. CASE Confirm(p)
      BY <3>8 DEF TypeOK, Confirm
    <3>6. CASE Judge(p)
      BY <3>6 DEF TypeOK, Judge, Mishaps
    <3> QED BY <3>1, <3>2, <3>3, <3>4, <3>5, <3>6, <3>7, <3>8, <3>9 DEF AcquireStep
  <2> QED BY <2>1, <2>2
<1> QED BY <1>1, <1>2, PTL DEF Spec

-----------------------------------------------------------------------------
(* NoAbandonedFile is inductive once it says which of its creator's files   *)
(* is at the path: without that, a process could give up a lock file of its *)
(* own while an earlier one of the same process is at the path.             *)

Kept ==
  "leak" \notin mishaps /\ file # NoFile =>
    pc[file.by] = "dead" \/ (InUse(file) /\ (pc[file.by] # "write" => file.full))

LEMMA KeptInductive == TypeOK /\ Kept /\ [Next]_vars => Kept'
<1> SUFFICES ASSUME TypeOK, Kept, [Next]_vars PROVE Kept'
  OBVIOUS
<1> USE DEF Kept, TypeOK
<1>1. CASE UNCHANGED vars
  BY <1>1 DEF vars
<1>2. CASE Next
  <2>1. PICK p \in Process :
          \/ Acquire(p) \/ AcquireStep(p) \/ Expire(p) \/ WriteFails(p)
          \/ AcquireFails(p) \/ Release(p) \/ Unlink(p) \/ CleanupFails(p) \/ Crash(p)
    BY <1>2 DEF Next
  <2>2. CASE Acquire(p) \/ Expire(p) \/ WriteFails(p) \/ AcquireFails(p)
    BY <2>2 DEF Acquire, Expire, WriteFails, AcquireFails
  <2>3. CASE Release(p) \/ Unlink(p)
    BY <2>3 DEF Release, Unlink
  <2>4. CASE CleanupFails(p) \/ Crash(p)
    BY <2>4 DEF CleanupFails, Crash
  <2>5. CASE Create(p)
    BY <2>5 DEF Create
  <2>6. CASE Write(p)
    BY <2>6 DEF Write
  <2>7. CASE Sleep(p) \/ GiveUp(p) \/ Read(p) \/ Confirm(p) \/ Remove(p)
    BY <2>7 DEF Sleep, GiveUp, Read, Confirm, Remove
  <2>8. CASE Judge(p)
    BY <2>8 DEF Judge
  <2> QED BY <2>1, <2>2, <2>3, <2>4, <2>5, <2>6, <2>7, <2>8 DEF AcquireStep
<1> QED BY <1>1, <1>2

\* A lock file has a creator that is writing it, holds it or is about to delete
\* it, or that is dead, as long as no clean-up has failed.
THEOREM NobodyAbandons == Spec => []NoAbandonedFile
<1>1. Init => Kept
  BY DEF Init, Kept
<1>2. Kept => NoAbandonedFile
  BY DEF Kept, NoAbandonedFile
<1> QED BY <1>1, <1>2, TypeCorrect, KeptInductive, PTL DEF Spec

-----------------------------------------------------------------------------
(* Exclusion. While nothing questionable has happened, whoever writes or    *)
(* holds owns the file at the path, at most one process is between verdict  *)
(* and removal, and the file it would delete is in nobody's use.            *)

Recovering(p) == pc[p] \in {"confirm", "remove"}

Owned ==
  \A p \in Process : pc[p] \in {"write", "held", "unlink"} => Mine(p)

OneRecovery ==
  \A p, q \in Process : Recovering(p) /\ Recovering(q) => p = q

Disused ==
  /\ \A p \in Process : pc[p] = "remove" => file # NoFile /\ ~InUse(file)
  /\ \A p \in Process :
       pc[p] = "confirm" =>
         IF seen[p].full THEN OwnerDead(seen[p]) ELSE file # NoFile /\ ~InUse(file)
  /\ \A p \in Process : pc[p] \in {"judge", "confirm"} => seen[p] # NoFile

Clean == mishaps \cap {"overlap", "slow"} = {}

LockInv == Clean => Owned /\ OneRecovery /\ Disused

LEMMA LockInductive == TypeOK /\ LockInv /\ [Next]_vars => LockInv'
<1> SUFFICES ASSUME TypeOK, LockInv, [Next]_vars, Clean' PROVE Owned' /\ OneRecovery' /\ Disused'
  BY DEF LockInv
<1> USE DEF TypeOK, Recovering
<1>1. CASE UNCHANGED vars
  BY <1>1 DEF vars, LockInv, Clean, Owned, OneRecovery, Disused
<1>2. CASE Next
  <2>1. PICK p \in Process :
          \/ Acquire(p) \/ AcquireStep(p) \/ Expire(p) \/ WriteFails(p)
          \/ AcquireFails(p) \/ Release(p) \/ Unlink(p) \/ CleanupFails(p) \/ Crash(p)
    BY <1>2 DEF Next
  <2>2. Owned /\ OneRecovery /\ Disused
    <3>1. mishaps \subseteq mishaps'
      BY <2>1 DEF AcquireStep, Acquire, Create, Write, Sleep, GiveUp, Read, Judge, Confirm,
                  Remove, Expire, WriteFails, AcquireFails, Release, Unlink, CleanupFails, Crash
    <3> QED BY <3>1 DEF Clean, LockInv
  <2>3. CASE Acquire(p) \/ Expire(p) \/ AcquireFails(p)
    BY <2>2, <2>3 DEF Acquire, Expire, AcquireFails, Owned, OneRecovery, Disused
  <2>4. CASE WriteFails(p)
    BY <2>2, <2>4 DEF WriteFails, Owned, OneRecovery, Disused
  <2>5. CASE Release(p) \/ Unlink(p)
    BY <2>2, <2>5 DEF Release, Unlink, Owned, OneRecovery, Disused
  <2>6. CASE CleanupFails(p) \/ Crash(p)
    BY <2>2, <2>6 DEF CleanupFails, Crash, Owned, OneRecovery, Disused
  <2>7. CASE Create(p)
    <3>1. CASE file # NoFile
      BY <2>2, <2>7, <3>1 DEF Create, Owned, OneRecovery, Disused
    <3>2. CASE file = NoFile
      <4>1. \A q \in Process : pc[q] \notin {"write", "held", "unlink"}
        BY <2>2, <3>2 DEF Owned
      <4>2. \A q \in Process : pc[q] = "remove" => FALSE
        BY <2>2, <3>2 DEF Disused
      <4>3. \A q \in Process : pc[q] = "confirm" =>
              seen[q].full /\ OwnerDead(seen[q])
        BY <2>2, <3>2 DEF Disused
      <4>4. /\ file' = [by |-> p, no |-> nonce[p] + 1, full |-> FALSE]
            /\ nonce' = [nonce EXCEPT ![p] = @ + 1] /\ pc' = [pc EXCEPT ![p] = "write"]
            /\ pc[p] = "create" /\ UNCHANGED <<seen, mishaps>>
        BY <2>7, <3>2 DEF Create
      <4>11. file' \in File /\ file'.by = p /\ file'.no = nonce'[p]
        BY <4>4
      <4>5. Owned'
        <5> HIDE DEF File
        <5>1. \A q \in Process : pc'[q] \in {"write", "held", "unlink"} => q = p
          BY <4>1, <4>4
        <5> QED BY <4>11, <5>1 DEF Owned
      <4>6. OneRecovery'
        BY <2>2, <4>4 DEF OneRecovery
      <4>7. ASSUME NEW q \in Process, pc'[q] = "confirm"
            PROVE  seen'[q].full /\ OwnerDead(seen[q])'
        <5>1. pc[q] = "confirm" /\ seen'[q] = seen[q] /\ seen[q] \in File
          BY <2>2, <4>4, <4>7 DEF Disused
        <5>2. seen[q].full /\ pc[seen[q].by] = "dead" /\ seen[q].by \in Process
          BY <4>3, <5>1
        <5> QED BY <4>4, <5>1, <5>2
      <4>8. ASSUME NEW q \in Process, pc'[q] \in {"judge", "confirm"}
            PROVE  seen'[q] # NoFile
        BY <2>2, <4>4, <4>8 DEF Disused
      <4>9. ASSUME NEW q \in Process PROVE pc'[q] # "remove"
        BY <4>2, <4>4
      <4>10. Disused'
        BY <4>7, <4>8, <4>9 DEF Disused
      <4> QED BY <4>5, <4>6, <4>10
    <3> QED BY <3>1, <3>2
  <2>8. CASE Write(p)
    <3>1. Mine(p) /\ file # NoFile /\ file \in File
      BY <2>2, <2>8 DEF Write, Owned
    <3>2. /\ file' = [file EXCEPT !.full = TRUE] /\ pc' = [pc EXCEPT ![p] = "held"]
          /\ pc[p] = "write" /\ UNCHANGED <<nonce, seen, late, mishaps>>
      BY <2>8, <3>1 DEF Write
    <3>3. file'.by = file.by /\ file'.no = file.no /\ file' # NoFile
      BY <3>1, <3>2
    <3>4. Owned'
      BY <2>2, <3>2, <3>3 DEF Owned
    <3>5. OneRecovery'
      BY <2>2, <3>2 DEF OneRecovery
    <3>6. Disused'
      BY <2>2, <3>1, <3>2, <3>3 DEF Disused
    <3> QED BY <3>4, <3>5, <3>6
  <2>9. CASE Sleep(p) \/ GiveUp(p) \/ Read(p)
    BY <2>2, <2>9 DEF Sleep, GiveUp, Read, Owned, OneRecovery, Disused
  <2>10. CASE Judge(p)
    <3>1. CASE pc' = [pc EXCEPT ![p] = "sleep"]
      BY <2>2, <2>10, <3>1 DEF Judge, Owned, OneRecovery, Disused
    <3>2. CASE pc' # [pc EXCEPT ![p] = "sleep"]
      <4>1. /\ pc[p] = "judge" /\ pc' = [pc EXCEPT ![p] = "confirm"]
            /\ mishaps' = mishaps \cup Mishaps(p)
            /\ IF seen[p].full THEN OwnerDead(seen[p]) ELSE Aged
            /\ UNCHANGED <<file, nonce, seen, late>>
        BY <2>10, <3>2 DEF Judge
      <4>2. \A q \in Process \ {p} : ~Recovering(q)
        BY <4>1 DEF Mishaps, Clean
      <4>3. ~seen[p].full => file # NoFile /\ ~InUse(file)
        BY <4>1 DEF Mishaps, Clean
      <4>4. Owned'
        BY <2>2, <4>1 DEF Owned
      <4>5. OneRecovery'
        BY <4>1, <4>2 DEF OneRecovery
      <4>6. Disused'
        BY <2>2, <4>1, <4>2, <4>3 DEF Disused
      <4> QED BY <4>4, <4>5, <4>6
    <3> QED BY <3>1, <3>2
  <2>11. CASE Confirm(p)
    BY <2>2, <2>11 DEF Confirm, SameBytes, Owned, OneRecovery, Disused
  <2>12. CASE Remove(p)
    BY <2>2, <2>12 DEF Remove, Owned, OneRecovery, Disused
  <2> QED BY <2>1, <2>3, <2>4, <2>5, <2>6, <2>7, <2>8, <2>9, <2>10, <2>11, <2>12
      DEF AcquireStep
<1> QED BY <1>1, <1>2

\* Two processes hold the lock together only after recoveries have overlapped,
\* or after one has found old a file that was in use.
THEOREM OverlapIsTheOnlyWay == Spec => []ExclusiveUnlessOverlap
<1>1. Init => LockInv
  BY DEF Init, LockInv, Owned, OneRecovery, Disused, Recovering
<1>2. LockInv => ExclusiveUnlessOverlap
  BY DEF LockInv, Clean, Owned, ExclusiveUnlessOverlap, Exclusion
<1> QED BY <1>1, <1>2, TypeCorrect, LockInductive, PTL DEF Spec

-----------------------------------------------------------------------------
(* The lock file implements LockContract until something questionable has    *)
(* happened: Write lets a process in, Release lets it out, and the creation, *)
(* the recovery and the removal of the file are not seen.                   *)

Lapsed == mishaps \cap {"overlap", "slow"} # {}

Seen == Contract!Next \/ UNCHANGED <<[p \in Process |-> Place(p)], Lapsed>>

\* A step of process p that changes its place alone.
LEMMA PlacesMove ==
  ASSUME TypeOK, NEW p \in Process, NEW l, Goto(p, l), NEW to,
         to = IF l \in {"idle", "unlink"} THEN "out" ELSE IF l = "held" THEN "in"
              ELSE IF l = "dead" THEN "gone" ELSE "waiting"
  PROVE  [q \in Process |-> Place(q)]' = [[q \in Process |-> Place(q)] EXCEPT ![p] = to]
<1>1. \A q \in Process : Place(q)' = IF q = p THEN to ELSE Place(q)
  BY DEF TypeOK, Place
<1> QED BY <1>1

\* A process between the call and the lock that stays there is not seen.
LEMMA WaitingUnseen ==
  ASSUME TypeOK, NEW p \in Process, UNCHANGED Lapsed,
         pc[p] \in {"create", "write", "read", "judge", "confirm", "remove", "sleep"},
         NEW l \in {"create", "write", "read", "judge", "confirm", "remove", "sleep"},
         Goto(p, l)
  PROVE  Seen
<1>1. \A q \in Process : Place(q)' = Place(q)
  BY DEF TypeOK, Place
<1> QED BY <1>1 DEF Seen

\* An acquisition may fail at any step.
LEMMA RefusalSeen ==
  ASSUME TypeOK, NEW p \in Process, UNCHANGED Lapsed, Goto(p, "idle"),
         pc[p] \in {"create", "write", "read", "judge", "remove", "sleep"}
  PROVE  Seen
<1>1. Place(p) = "waiting"
  BY DEF Place
<1>2. Contract!Refuse(p)
  BY <1>1, PlacesMove DEF Contract!Refuse, Contract!Move, Lapsed
<1> QED BY <1>2 DEF Seen, Contract!Next

\* Leaving the lock, whether its file is then deleted or has gone already.
LEMMA ReleaseSeen ==
  ASSUME TypeOK, NEW p \in Process, UNCHANGED Lapsed, pc[p] \in {"held", "unlink"},
         NEW l \in {"idle", "unlink"}, Goto(p, l)
  PROVE  Seen
<1>1. CASE pc[p] = "held"
  <2>1. Contract!Release(p)
    BY <1>1, PlacesMove DEF Contract!Release, Contract!Move, Lapsed, Place
  <2> QED BY <2>1 DEF Seen, Contract!Next
<1>2. CASE pc[p] = "unlink"
  <2>1. \A q \in Process : Place(q)' = Place(q)
    BY <1>2 DEF TypeOK, Place
  <2> QED BY <2>1 DEF Seen
<1> QED BY <1>1, <1>2

\* Whoever has written its record is inside; while the lock has not lapsed it
\* owns the file at the path, so that nobody else can be inside.
LEMMA WriteSeen == ASSUME TypeOK, LockInv, NEW p \in Process, Write(p) PROVE Seen
<1>1. pc[p] = "write" /\ Goto(p, "held") /\ UNCHANGED Lapsed
  BY DEF Write, Lapsed
<1>2. ASSUME ~Lapsed, NEW q \in Process, pc[q] = "held" PROVE q = p
  BY <1>1, <1>2 DEF Lapsed, LockInv, Clean, Owned
<1>3. Lapsed \/ Contract!Alone(p)
  BY <1>2 DEF Contract!Alone, Place
<1>4. Contract!Grant(p)
  BY <1>1, <1>3, PlacesMove DEF Contract!Grant, Contract!Move, Lapsed, Place
<1> QED BY <1>4 DEF Seen, Contract!Next

\* A verdict moves nobody in or out; it may be the one the lock lapses by.
LEMMA JudgeSeen == ASSUME TypeOK, NEW p \in Process, Judge(p) PROVE Seen
<1>1. \A q \in Process : Place(q)' = Place(q)
  BY DEF TypeOK, Judge, Place
<1>2. Lapsed => Lapsed'
  BY DEF Judge, Lapsed
<1>3. CASE Lapsed' = Lapsed
  BY <1>1, <1>3 DEF Seen
<1>4. CASE Lapsed' # Lapsed
  <2>1. Lapsed' = TRUE
    BY <1>2, <1>4 DEF Lapsed
  <2>2. Contract!Lapse
    BY <1>1, <2>1 DEF Contract!Lapse, Lapsed
  <2> QED BY <2>2 DEF Seen, Contract!Next
<1> QED BY <1>3, <1>4

\* A call begins, or a process dies.
LEMMA EndsSeen ==
  ASSUME TypeOK, NEW p \in Process, Acquire(p) \/ Crash(p) PROVE Seen
<1>1. CASE Acquire(p)
  <2>1. Place(p) = "out" /\ Goto(p, "create") /\ UNCHANGED Lapsed
    BY <1>1 DEF Acquire, Place, Lapsed
  <2>2. \A q \in Process : Place(q)' = IF q = p THEN "waiting" ELSE Place(q)
    BY <2>1 DEF TypeOK, Place
  <2>3. Contract!Request(p)
    BY <2>1, <2>2 DEF Contract!Request, Contract!Move, Lapsed
  <2> QED BY <2>3 DEF Seen, Contract!Next
<1>2. CASE Crash(p)
  <2>1. Contract!Die(p)
    BY <1>2, PlacesMove DEF Crash, Contract!Die, Contract!Move, Lapsed
  <2> QED BY <2>1 DEF Seen, Contract!Next
<1> QED BY <1>1, <1>2

\* For any number of processes, the lock file is an exclusive lock until
\* recoveries have overlapped or a file in use was found old.
THEOREM EntryLockImplements == Spec => ImplementsLock
<1>1. Init => Contract!Init /\ LockInv
  BY DEF Init, Contract!Init, Place, LockInv, Owned, OneRecovery, Disused, Recovering
<1>2. TypeOK /\ LockInv /\ [Next]_vars => [Contract!Next]_(Contract!vars)
  <2> SUFFICES ASSUME TypeOK, LockInv, [Next]_vars PROVE Seen
    BY DEF Seen, Lapsed, Contract!vars
  <2>1. CASE UNCHANGED vars
    BY <2>1 DEF vars, Seen, Place, Lapsed
  <2>2. CASE Next
    <3>1. PICK p \in Process :
            \/ Acquire(p) \/ AcquireStep(p) \/ Expire(p) \/ WriteFails(p)
            \/ AcquireFails(p) \/ Release(p) \/ Unlink(p) \/ CleanupFails(p) \/ Crash(p)
      BY <2>2 DEF Next
    <3>2. CASE Create(p) \/ Sleep(p) \/ Read(p) \/ Confirm(p) \/ Remove(p)
      BY <3>2, WaitingUnseen DEF Create, Sleep, Read, Confirm, Remove, Lapsed
    <3>3. CASE GiveUp(p) \/ WriteFails(p) \/ AcquireFails(p)
      BY <3>3, RefusalSeen DEF GiveUp, WriteFails, AcquireFails, Lapsed
    <3>4. CASE Release(p) \/ Unlink(p)
      BY <3>4, ReleaseSeen DEF Release, Unlink, Lapsed
    <3>5. CASE CleanupFails(p)
      <4>1. UNCHANGED Lapsed /\ Goto(p, "idle")
        BY <3>5 DEF CleanupFails, Lapsed
      <4> QED BY <3>5, <4>1, RefusalSeen, ReleaseSeen DEF CleanupFails
    <3>6. CASE Expire(p)
      BY <3>6 DEF Expire, Seen, Place, Lapsed
    <3> QED BY <3>1, <3>2, <3>3, <3>4, <3>5, <3>6, WriteSeen, JudgeSeen, EndsSeen
        DEF AcquireStep
  <2> QED BY <2>1, <2>2
<1> QED BY <1>1, <1>2, TypeCorrect, LockInductive, PTL
    DEF Spec, ImplementsLock, Contract!Spec

=============================================================================
