------------------------------ MODULE EntryLock ------------------------------
(***************************************************************************)
(* The lock file of a cache entry (xiao-lock/src/lib.rs): EntryLock::acquire, *)
(* the recovery of stale locks, and the release when the guard is dropped,  *)
(* one file-system call per step. A process may be killed before any step   *)
(* and process identifiers are not reused.                                  *)
(*                                                                         *)
(* The content of the file is a complete owner record, unique to one        *)
(* acquisition, or incomplete; two incomplete contents look the same.       *)
(* Definitions marked "Defect" are not part of the specification: each is    *)
(* the code with one plausible mistake that a property has to notice.       *)
(***************************************************************************)
EXTENDS Integers

CONSTANTS
  Process,     \* the processes that want the entry, one acquisition at a time
  NoFile,
  MaxLocks     \* bounds the lock files each process creates

\* A lock file: who has created it, which of its files it is, and whether the
\* owner record is complete.
File == [by : Process, no : Nat, full : BOOLEAN]

ASSUME LockAssumption == NoFile \notin File /\ MaxLocks \in [Process -> Nat]

VARIABLES
  file,        \* what is at the lock path
  nonce,       \* NEXT_LOCK of each process
  pc,          \* where each process stands
  seen,        \* the content stale_owner has read
  late,        \* processes for which LOCK_WAIT has elapsed
  mishaps      \* history: what may have gone wrong so far

vars == <<file, nonce, pc, seen, late, mishaps>>

TypeOK ==
  /\ file \in File \cup {NoFile}
  /\ nonce \in [Process -> Nat]
  /\ pc \in [Process -> {"idle", "create", "write", "held", "read", "judge",
                         "confirm", "remove", "sleep", "unlink", "dead"}]
  /\ seen \in [Process -> File \cup {NoFile}]
  /\ late \subseteq Process
  /\ mishaps \subseteq {"overlap", "slow", "leak"}

Init ==
  /\ file = NoFile
  /\ nonce = [p \in Process |-> 0]
  /\ pc = [p \in Process |-> "idle"]
  /\ seen = [p \in Process |-> NoFile]
  /\ late = {} /\ mishaps = {}

Goto(p, l) == pc' = [pc EXCEPT ![p] = l]

\* The locals of a call end with it: the bytes read, the time it started.
Forget(p) == seen' = [seen EXCEPT ![p] = NoFile]
StopClock(p) == late' = late \ {p}

\* The file at the path is the one p has created last.
Mine(p) == file # NoFile /\ file.by = p /\ file.no = nonce[p]

-----------------------------------------------------------------------------
(* EntryLock::acquire.                                                      *)

Acquire(p) ==
  /\ pc[p] = "idle" /\ nonce[p] < MaxLocks[p]
  /\ Goto(p, "create")
  /\ UNCHANGED <<file, nonce, seen, late, mishaps>>

\* create_new: exclusive creation of an empty file.
Create(p) ==
  /\ pc[p] = "create"
  /\ IF file = NoFile
     THEN /\ file' = [by |-> p, no |-> nonce[p] + 1, full |-> FALSE]
          /\ nonce' = [nonce EXCEPT ![p] = @ + 1]
          /\ Goto(p, "write") /\ StopClock(p)
     ELSE Goto(p, "read") /\ UNCHANGED <<file, nonce, late>>
  /\ UNCHANGED <<seen, mishaps>>

\* The record goes to the file that was opened, at the path or not.
Write(p) ==
  /\ pc[p] = "write"
  /\ file' = IF Mine(p) THEN [file EXCEPT !.full = TRUE] ELSE file
  /\ Goto(p, "held")
  /\ UNCHANGED <<nonce, seen, late, mishaps>>

\* Defect: the half-written file is left where it is.
WriteFailsAndStays(p) ==
  /\ pc[p] = "write"
  /\ Goto(p, "idle")
  /\ UNCHANGED <<file, nonce, seen, late, mishaps>>

\* write_all or sync_all fails: what is at the path is removed.
WriteFails(p) ==
  /\ pc[p] = "write"
  /\ file' = NoFile
  /\ Goto(p, "idle")
  /\ UNCHANGED <<nonce, seen, late, mishaps>>

\* Defect: the deadline is measured from the latest attempt.
NeverLate(p) == FALSE

TimedOut(p) == p \in late

Sleep(p) ==
  /\ pc[p] = "sleep" /\ ~TimedOut(p)
  /\ Goto(p, "create")
  /\ UNCHANGED <<file, nonce, seen, late, mishaps>>

GiveUp(p) ==
  /\ pc[p] = "sleep" /\ TimedOut(p)
  /\ Goto(p, "idle") /\ StopClock(p)
  /\ UNCHANGED <<file, nonce, seen, mishaps>>

\* The clock passes LOCK_WAIT.
Expire(p) ==
  /\ pc[p] \in {"create", "read", "judge", "confirm", "remove", "sleep"}
  /\ late' = late \cup {p}
  /\ UNCHANGED <<file, nonce, pc, seen, mishaps>>

\* Any other file-system error ends the acquisition.
AcquireFails(p) ==
  /\ pc[p] \in {"create", "read", "judge", "remove"}
  /\ Goto(p, "idle") /\ Forget(p) /\ StopClock(p)
  /\ UNCHANGED <<file, nonce, mishaps>>

-----------------------------------------------------------------------------
(* stale_owner.                                                             *)

Read(p) ==
  /\ pc[p] = "read"
  /\ IF file = NoFile
     THEN Goto(p, "sleep") /\ UNCHANGED seen
     ELSE Goto(p, "judge") /\ seen' = [seen EXCEPT ![p] = file]
  /\ UNCHANGED <<file, nonce, late, mishaps>>

\* Defect: the process identifier in the record is not looked up.
AnyOwner(f) == TRUE

OwnerDead(f) == pc[f.by] = "dead"

InUse(f) == pc[f.by] \in {"write", "held", "unlink"} /\ f.no = nonce[f.by]

\* The age looked at is that of the file now at the path, and any may be old.
Aged == file # NoFile

\* Recorded for the properties: p takes a file for stale while another recovery
\* is between its verdict and its removal, or finds old what is still in use.
Mishaps(p) ==
  {m \in {"overlap"} : \E q \in Process \ {p} : pc[q] \in {"confirm", "remove"}}
    \cup {m \in {"slow"} : ~seen[p].full /\ InUse(file)}

\* A complete record needs a dead owner, an incomplete one an old file. A clock
\* that was set back or a process that cannot be looked up is "not stale".
Judge(p) ==
  /\ pc[p] = "judge"
  /\ \/ /\ IF seen[p].full THEN OwnerDead(seen[p]) ELSE Aged
        /\ Goto(p, "confirm")
        /\ mishaps' = mishaps \cup Mishaps(p)
        /\ UNCHANGED seen
     \/ /\ Goto(p, "sleep") /\ Forget(p)
        /\ UNCHANGED mishaps
  /\ UNCHANGED <<file, nonce, late>>

\* Two incomplete contents are equal whoever created the files.
SameBytes(f) == file # NoFile /\ (IF f.full THEN file = f ELSE ~file.full)

\* The second read, before the removal.
Confirm(p) ==
  /\ pc[p] = "confirm"
  /\ Goto(p, IF SameBytes(seen[p]) THEN "remove" ELSE "sleep")
  /\ Forget(p)
  /\ UNCHANGED <<file, nonce, late, mishaps>>

\* remove_file deletes whatever is at the path; the loop starts over without
\* looking at the clock.
Remove(p) ==
  /\ pc[p] = "remove"
  /\ file' = NoFile
  /\ Goto(p, "create")
  /\ UNCHANGED <<nonce, seen, late, mishaps>>

-----------------------------------------------------------------------------
(* Drop for EntryLock, and the death of a process.                          *)

\* The content is compared before the removal.
Release(p) ==
  /\ pc[p] = "held"
  /\ Goto(p, IF Mine(p) /\ file.full THEN "unlink" ELSE "idle")
  /\ UNCHANGED <<file, nonce, seen, late, mishaps>>

Unlink(p) ==
  /\ pc[p] = "unlink"
  /\ file' = NoFile
  /\ Goto(p, "idle")
  /\ UNCHANGED <<nonce, seen, late, mishaps>>

\* An error while releasing, or while cleaning up after a failed write, is
\* ignored: the file stays.
CleanupFails(p) ==
  /\ pc[p] \in {"write", "held", "unlink"}
  /\ Goto(p, "idle")
  /\ mishaps' = mishaps \cup {"leak"}
  /\ UNCHANGED <<file, nonce, seen, late>>

Crash(p) ==
  /\ pc[p] # "dead"
  /\ Goto(p, "dead") /\ Forget(p) /\ StopClock(p)
  /\ UNCHANGED <<file, nonce, mishaps>>

-----------------------------------------------------------------------------
AcquireStep(p) ==
  \/ Create(p) \/ Write(p) \/ Sleep(p) \/ GiveUp(p)
  \/ Read(p) \/ Judge(p) \/ Confirm(p) \/ Remove(p)

Next == \E p \in Process :
  \/ Acquire(p) \/ AcquireStep(p) \/ Expire(p) \/ WriteFails(p) \/ AcquireFails(p)
  \/ Release(p) \/ Unlink(p) \/ CleanupFails(p) \/ Crash(p)

Spec == Init /\ [][Next]_vars

-----------------------------------------------------------------------------
(* Properties.                                                              *)

Exclusion == \A p, q \in Process : pc[p] = "held" /\ pc[q] = "held" => p = q

\* The one promise of the module: two processes never hold the lock together,
\* provided that nobody needs the lock file for longer than the grace period
\* and no release fails.
ExclusiveLock == mishaps \subseteq {"overlap"} => Exclusion

\* Exclusion can be lost in no other way than by two recoveries that overlap
\* between verdict and removal, or by a verdict on an incomplete file while the
\* path has been in use for longer than the grace period: no crash, time-out,
\* failed write or failed release can lose it, and a recovery that is alone
\* never deletes the lock of a live process.
ExclusiveUnlessOverlap == mishaps \cap {"overlap", "slow"} = {} => Exclusion

\* Nobody but a dead process leaves a lock file behind: its creator is writing
\* it, holds the lock or is about to delete it, even when another process has
\* deleted the wrong file.
NoAbandonedFile ==
  "leak" \notin mishaps /\ file # NoFile =>
    pc[file.by] \in {"write", "held", "unlink", "dead"}

\* What the processes see: a lock that may send anybody away, with an error or
\* after LOCK_WAIT, and that has lapsed once recoveries have overlapped or a
\* file in use was found old. A process that is deleting its file is out.
Place(p) ==
  IF pc[p] \in {"idle", "unlink"} THEN "out" ELSE IF pc[p] = "held" THEN "in"
  ELSE IF pc[p] = "dead" THEN "gone" ELSE "waiting"

Contract == INSTANCE LockContract WITH
  Client <- Process, place <- [p \in Process |-> Place(p)], excused <- Process,
  lapsed <- mishaps \cap {"overlap", "slow"} # {}

ImplementsLock == Contract!Spec

FairSpec ==
  Spec /\ \A p \in Process : WF_vars(AcquireStep(p)) /\ WF_vars(Expire(p))

\* An acquisition ends, with the lock or with an error, whatever the others do.
AcquireReturns ==
  \A p \in Process : pc[p] = "create" ~> pc[p] \in {"held", "idle", "dead"}

=============================================================================
