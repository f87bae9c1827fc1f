---------------------------- MODULE ArtifactCache ----------------------------
(***************************************************************************)
(* The compiled modules one cache root shares: the content-addressed store  *)
(* and the global index (xiao-artifacts/src/lib.rs), the archive builds that *)
(* look modules up and publish them (xiao-driver/src/archive.rs), and `cache *)
(* clean` and `cache rebuild` (xiao-driver/src/protocol/verify.rs), each in  *)
(* a process of its own, while the disk may damage an object and any        *)
(* process may fail or die.                                                 *)
(*                                                                         *)
(* A request key covers everything a module is compiled from, so that the   *)
(* key determines the digest and an index is the set of the keys it has a   *)
(* record for; a missing index is an empty one. maintenance.lock and        *)
(* global.index.lock are ideal here; EntryLock is the module about them.    *)
(* Definitions marked "Defect" are not part of the specification: each is   *)
(* the code with one plausible mistake that a property has to notice.       *)
(***************************************************************************)
EXTENDS Integers

CONSTANTS
  Process,         \* driver processes, one request at a time
  Key, Digest,     \* request keys of modules, and digests of objects
  DigestOf,        \* what the compilation of each key yields
  Debug,           \* the keys of modules compiled with debug symbols, and
  StrippedOf,      \*   what an archive keeps of each of them
  Output,          \* paths archives are written to
  Nobody, NoKey, NoArchive,
  MaxRequests,     \* bounds the requests made, and
  MaxDamage        \*   the objects the disk damages

ASSUME CacheAssumption ==
  /\ DigestOf \in [Key -> Digest]
  /\ Debug \subseteq Key /\ StrippedOf \in [Debug -> Digest]
  /\ \A k \in Debug, j \in Key : StrippedOf[k] # DigestOf[j]
  /\ Nobody \notin Process /\ NoKey \notin Key
  /\ \A ks \in SUBSET Key : NoArchive # ks
  /\ MaxRequests \in Nat /\ MaxDamage \in Nat

VARIABLES
  object,          \* the file of each digest
  index,           \* the keys global.index.pb has a record for
  archive,         \* the modules packed in each archive, or NoArchive
  maintenance,     \* the holder of maintenance.lock; a put holds it for one step
  indexing,        \* the holder of global.index.lock
  job,             \* where each process stands and what it has read
  requests, damages,
  recorded, late   \* history, see below

\* History, read by the properties and by no guard. `recorded`: keys of the
\* records some build has committed since the last rebuilt index was written;
\* `late`: archives written since a process last read them.
history == <<recorded, late>>
locks == <<maintenance, indexing>>
vars == <<object, index, archive, locks, job, requests, damages, history>>

\* `todo`: modules still to add; `cached`: the index as the build read it;
\* `module`: the one at hand; `records`: those added; `seen`: the index as the
\* upsert read it; `sources`: the archives a clean was told of; `unread`: those
\* it has yet to read; `refs`: the digests it protects so far; `plan`, `invalid`:
\* what it found to delete, to isolate.
Building == {"snapshot", "next", "put", "read", "isolate", "merge", "commit", "publish"}

JobRecord ==
  [pc : Building \cup {"idle", "plan", "collect", "enter", "sweep", "scan", "reset"},
   output : Output \cup {Nobody}, todo : SUBSET Key, cached : SUBSET Key,
   module : Key \cup {NoKey}, records : SUBSET Key, seen : SUBSET Key,
   sources : SUBSET Output, unread : SUBSET Output, refs : SUBSET Digest,
   plan : SUBSET Digest, invalid : SUBSET Digest]

Job == {r \in JobRecord : r.pc \in Building => r.output \in Output}

Idle == [pc |-> "idle", output |-> Nobody, todo |-> {}, cached |-> {},
         module |-> NoKey, records |-> {}, seen |-> {}, sources |-> {},
         unread |-> {}, refs |-> {}, plan |-> {}, invalid |-> {}]

\* `never`: not put yet; `bad`: a file whose bytes do not have the digest.
TypeOK ==
  /\ object \in [Digest -> {"never", "good", "bad", "isolated", "removed"}]
  /\ index \subseteq Key
  /\ archive \in [Output -> {NoArchive} \cup SUBSET Key]
  /\ maintenance \in Process \cup {Nobody} /\ indexing \in Process \cup {Nobody}
  /\ job \in [Process -> Job]
  /\ requests \in 0 .. MaxRequests /\ damages \in 0 .. MaxDamage
  /\ recorded \subseteq Key /\ late \in [Process -> SUBSET Output]

Init ==
  /\ object = [d \in Digest |-> "never"]
  /\ index = {}
  /\ archive = [o \in Output |-> NoArchive]
  /\ maintenance = Nobody /\ indexing = Nobody
  /\ job = [w \in Process |-> Idle]
  /\ requests = 0 /\ damages = 0
  /\ recorded = {} /\ late = [w \in Process |-> {}]

At(w, step) == job[w].pc = step

Goto(w, step) == job' = [job EXCEPT ![w].pc = step]

\* Defect: a request leaves maintenance.lock behind.
EndKeepsMaintenance(w) ==
  /\ job' = [job EXCEPT ![w] = Idle]
  /\ indexing' = IF indexing = w THEN Nobody ELSE indexing
  /\ UNCHANGED <<maintenance, requests, damages>>

\* The end of a request, on whatever path: its guards release the locks.
End(w) ==
  /\ job' = [job EXCEPT ![w] = Idle]
  /\ maintenance' = IF maintenance = w THEN Nobody ELSE maintenance
  /\ indexing' = IF indexing = w THEN Nobody ELSE indexing
  /\ UNCHANGED <<requests, damages>>

KeepJob == UNCHANGED <<locks, requests, damages>>

Exists(d) == object[d] \in {"good", "bad"}

\* quarantine_path: the file is moved away if there is one, whatever it is now.
Isolated(d) == IF Exists(d) THEN [object EXCEPT ![d] = "isolated"] ELSE object

-----------------------------------------------------------------------------
(* build_archive.                                                           *)

\* A build compiles all its modules with debug symbols or none of them.
RequestBuild(w, o, keys) ==
  /\ At(w, "idle") /\ requests < MaxRequests
  /\ keys \subseteq Debug \/ keys \cap Debug = {}
  /\ requests' = requests + 1
  /\ job' = [job EXCEPT ![w] = [Idle EXCEPT !.pc = "snapshot", !.output = o, !.todo = keys]]
  /\ UNCHANGED <<object, index, archive, locks, damages, history>>

ReadIndex(w) ==
  /\ At(w, "snapshot")
  /\ job' = [job EXCEPT ![w].pc = "next", ![w].cached = index]
  /\ KeepJob /\ UNCHANGED <<object, index, archive, history>>

\* Defect: a module is recorded without being stored.
CachedModuleUnstored(w, k) ==
  /\ At(w, "next") /\ k \in job[w].todo
  /\ job' = [job EXCEPT ![w].module = k, ![w].pc = "read"]
  /\ KeepJob /\ UNCHANGED <<object, index, archive, history>>

\* cached_module: a key with a record is a hit and is read; any other module
\* is compiled, stored and read back.
CachedModule(w, k) ==
  /\ At(w, "next") /\ k \in job[w].todo
  /\ job' = [job EXCEPT ![w].module = k, ![w].pc =
               IF k \in job[w].cached THEN "read" ELSE "put"]
  /\ KeepJob /\ UNCHANGED <<object, index, archive, history>>

\* put: an equal object is reused; a different one is a collision, and both
\* are moved into quarantine.
Put(w) ==
  LET d == DigestOf[job[w].module]
  IN /\ At(w, "put") /\ maintenance = Nobody
     /\ \/ /\ object[d] # "bad"
           /\ object' = [object EXCEPT ![d] = "good"]
           /\ Goto(w, "read") /\ KeepJob /\ UNCHANGED <<index, archive, history>>
        \/ /\ object[d] = "bad"
           /\ object' = Isolated(d)
           /\ End(w) /\ UNCHANGED <<index, archive, history>>

\* read_checked: a missing object fails the build, hit or not; a damaged one
\* is isolated first.
ReadObject(w) ==
  LET d == DigestOf[job[w].module]
  IN /\ At(w, "read")
     /\ \/ /\ object[d] = "good"
           /\ job' = [job EXCEPT
                ![w].pc = IF job[w].todo = {job[w].module} THEN "merge" ELSE "next",
                ![w].todo = @ \ {job[w].module},
                ![w].records = @ \cup {job[w].module}, ![w].module = NoKey]
           /\ KeepJob
        \/ object[d] = "bad" /\ Goto(w, "isolate") /\ KeepJob
        \/ ~Exists(d) /\ End(w)
     /\ UNCHANGED <<object, index, archive, history>>

IsolateObject(w) ==
  /\ At(w, "isolate")
  /\ object' = Isolated(DigestOf[job[w].module])
  /\ End(w) /\ UNCHANGED <<index, archive, history>>

\* Defect: the index is read and written without its lock.
BeginUpsertUnlocked(w) ==
  /\ At(w, "merge")
  /\ job' = [job EXCEPT ![w].pc = "commit", ![w].seen = index]
  /\ UNCHANGED <<object, index, archive, locks, requests, damages, history>>

\* upsert_global reads the index and replaces it under its lock.
BeginUpsert(w) ==
  /\ At(w, "merge") /\ indexing = Nobody
  /\ indexing' = w
  /\ job' = [job EXCEPT ![w].pc = "commit", ![w].seen = index]
  /\ UNCHANGED <<object, index, archive, maintenance, requests, damages, history>>

CommitUpsert(w) ==
  /\ At(w, "commit")
  /\ index' = job[w].seen \cup job[w].records
  /\ recorded' = recorded \cup job[w].records
  /\ indexing' = IF indexing = w THEN Nobody ELSE indexing
  /\ Goto(w, "publish")
  /\ UNCHANGED <<object, archive, maintenance, requests, damages, late>>

\* The archive is written last.
Publish(w) ==
  /\ At(w, "publish")
  /\ archive' = [archive EXCEPT ![job[w].output] = job[w].records]
  /\ late' = [v \in Process |-> late[v] \cup {job[w].output}]
  /\ End(w) /\ UNCHANGED <<object, index, recorded>>

\* An archive holds its modules encoded again, without debug symbols, and its
\* index has the digests of these bytes: those of the cached objects for release
\* modules, digests the store never has for modules with debug symbols.
ArchivedDigest(k) == IF k \in Debug THEN StrippedOf[k] ELSE DigestOf[k]

Indexed(o) == {ArchivedDigest(k) : k \in archive[o]}

-----------------------------------------------------------------------------
(* cache clean --apply, told of some archives; told of none it protects      *)
(* every object. Builds are not paused.                                     *)

\* What a collection starts from.
Unreferenced(outputs) == IF outputs = {} THEN Digest ELSE {}

RequestClean(w, outputs) ==
  /\ At(w, "idle") /\ requests < MaxRequests
  /\ requests' = requests + 1
  /\ job' = [job EXCEPT ![w] = [Idle EXCEPT !.pc = "plan", !.sources = outputs,
                !.unread = outputs, !.refs = Unreferenced(outputs)]]
  /\ UNCHANGED <<object, index, archive, locks, damages, history>>

\* The archives are read one after the other; one that cannot be read is an error.
ReadArchive(w, o) ==
  /\ At(w, "plan") \/ At(w, "collect")
  /\ o \in job[w].unread
  /\ \/ /\ archive[o] # NoArchive
        /\ job' = [job EXCEPT ![w].unread = @ \ {o}, ![w].refs = @ \cup Indexed(o)]
        /\ late' = [late EXCEPT ![w] = @ \ {o}] /\ KeepJob
     \/ archive[o] = NoArchive /\ End(w) /\ late' = late
  /\ UNCHANGED <<object, index, archive, recorded>>

\* The scan of the store, after which the references are collected once more.
PlanCleanup(w) ==
  /\ At(w, "plan") /\ job[w].unread = {}
  /\ job' = [job EXCEPT ![w].pc = "collect",
       ![w].plan = {d \in Digest : object[d] = "good"} \ job[w].refs,
       ![w].invalid = {d \in Digest : object[d] = "bad"},
       ![w].unread = job[w].sources, ![w].refs = Unreferenced(job[w].sources)]
  /\ KeepJob /\ UNCHANGED <<object, index, archive, history>>

Recollected(w) ==
  /\ At(w, "collect") /\ job[w].unread = {}
  /\ Goto(w, "enter")
  /\ KeepJob /\ UNCHANGED <<object, index, archive, history>>

EnterMaintenance(w) ==
  /\ At(w, "enter") /\ maintenance = Nobody
  /\ maintenance' = w
  /\ Goto(w, "sweep")
  /\ UNCHANGED <<object, index, archive, indexing, requests, damages, history>>

\* Defect: the plan is executed without a look at the new references.
NeverProtected(w, d) == FALSE

Protected(w, d) == d \in job[w].refs

\* apply_cleanup, one path at a time: first what the plan found damaged, which
\* is isolated unseen, then the candidates, which are read again.
Sweep(w) ==
  /\ At(w, "sweep")
  /\ \/ \E d \in job[w].invalid :
          /\ object' = Isolated(d)
          /\ job' = [job EXCEPT ![w].invalid = @ \ {d}] /\ KeepJob
     \/ \E d \in job[w].plan :
          /\ job[w].invalid = {}
          /\ object' = IF Protected(w, d) THEN object
                       ELSE IF object[d] = "good" THEN [object EXCEPT ![d] = "removed"]
                       ELSE Isolated(d)
          /\ job' = [job EXCEPT ![w].plan = @ \ {d}] /\ KeepJob
     \/ /\ job[w].invalid = {} /\ job[w].plan = {}
        /\ object' = object /\ End(w)
  /\ UNCHANGED <<index, archive, history>>

-----------------------------------------------------------------------------
(* cache rebuild: every object is read, damaged ones are isolated, and an    *)
(* index is written whose keys name objects, none of them a build's key.     *)

RequestRebuild(w) ==
  /\ At(w, "idle") /\ requests < MaxRequests
  /\ requests' = requests + 1
  /\ job' = [job EXCEPT ![w] = [Idle EXCEPT !.pc = "scan"]]
  /\ UNCHANGED <<object, index, archive, locks, damages, history>>

Scan(w) ==
  /\ At(w, "scan")
  /\ object' = [d \in Digest |-> IF object[d] = "bad" THEN "isolated" ELSE object[d]]
  /\ Goto(w, "reset")
  /\ KeepJob /\ UNCHANGED <<index, archive, history>>

WriteRebuilt(w) ==
  /\ At(w, "reset") /\ indexing = Nobody
  /\ index' = {} /\ recorded' = {}
  /\ End(w) /\ UNCHANGED <<object, archive, late>>

-----------------------------------------------------------------------------
\* A step fails or the process dies; a dead holder's lock is recovered.
Fail(w) ==
  /\ ~At(w, "idle")
  /\ End(w) /\ UNCHANGED <<object, index, archive, history>>

Damage(d) ==
  /\ object[d] = "good" /\ damages < MaxDamage
  /\ object' = [object EXCEPT ![d] = "bad"]
  /\ damages' = damages + 1
  /\ UNCHANGED <<index, archive, locks, job, requests, history>>

Request(w) ==
  \/ \E o \in Output, keys \in SUBSET Key \ {{}} : RequestBuild(w, o, keys)
  \/ \E outputs \in SUBSET Output : RequestClean(w, outputs)
  \/ RequestRebuild(w)

Progress(w) ==
  \/ ReadIndex(w) \/ (\E k \in Key : CachedModule(w, k)) \/ Put(w)
  \/ ReadObject(w) \/ IsolateObject(w) \/ BeginUpsert(w) \/ CommitUpsert(w) \/ Publish(w)
  \/ (\E o \in Output : ReadArchive(w, o)) \/ PlanCleanup(w) \/ Recollected(w)
  \/ EnterMaintenance(w) \/ Sweep(w)
  \/ Scan(w) \/ WriteRebuilt(w)

Next ==
  \/ \E w \in Process : Request(w) \/ Progress(w) \/ Fail(w)
  \/ \E d \in Digest : Damage(d)

Spec == Init /\ [][Next]_vars

\* A process that runs goes on; nothing obliges it to fail.
FairSpec == Spec /\ \A w \in Process : WF_vars(Progress(w))

-----------------------------------------------------------------------------
(* Properties.                                                              *)

\* No record a build has committed is lost to another build: only a rebuilt
\* index replaces the records (upsert_global merges under its lock).
RecordsKept == recorded \subseteq index

\* Whatever a build takes for a hit, has stored or has committed is the key of
\* an object that was stored: the only ways to miss it are damage and cleaning.
NamesStored ==
  /\ \A k \in index : object[DigestOf[k]] # "never"
  /\ \A w \in Process :
       /\ \A k \in job[w].cached \cup job[w].records : object[DigestOf[k]] # "never"
       /\ job[w].pc \in {"read", "isolate"} => object[DigestOf[job[w].module]] # "never"

\* A clean never removes the object of a release module that is packed in an
\* archive it was told of, even in one that was published after the plan was made;
\* only an archive that replaces another after it was last read comes too late. No
\* such thing holds of a module with debug symbols: its object is not the one the
\* archive refers to, so that the clean removes it.
DeclaredArchivesSurvive ==
  [][\A d \in Digest : object[d] = "good" /\ object'[d] = "removed" =>
       \E w \in Process :
         /\ At(w, "sweep") /\ job[w].sources # {}
         /\ \A o \in job[w].sources \ late[w] :
              archive[o] # NoArchive /\ \A k \in archive[o] \ Debug : DigestOf[k] # d]_vars

\* Every request ends: no two of them wait for each other's locks.
RequestsEnd == \A w \in Process : ~At(w, "idle") ~> At(w, "idle")

\* The documented promise (16b-cache-maintenance.md: damaged objects go into
\* quarantine and take no part in hits), which the code does not keep: the
\* index keeps the record of an isolated object, so that a build which starts
\* afterwards, with nothing else going on, takes it for a hit and fails.
IsolatedNeverHits ==
  [][\A w \in Process, k \in Key :
       /\ At(w, "snapshot") /\ job'[w].pc = "next"
       /\ k \in job[w].todo \cap job'[w].cached
       /\ \A v \in Process \ {w} : At(v, "idle")
       => object[DigestOf[k]] # "isolated"]_vars

-----------------------------------------------------------------------------
(* The two locks as their users need them. A put and the end of a rebuild     *)
(* hold theirs for one step, in which nobody else may be inside.              *)

Asking(lock) == IF lock = "index" THEN "merge" ELSE "enter"
Inside(lock) == IF lock = "index" THEN "commit" ELSE "sweep"

Place(w, lock) ==
  IF At(w, Asking(lock)) THEN "waiting" ELSE IF At(w, Inside(lock)) THEN "in" ELSE "out"

CacheLock(lock) == INSTANCE LockContract WITH
  Client <- Process, place <- [w \in Process |-> Place(w, lock)], excused <- Process,
  lapsed <- FALSE

\* No object is stored or isolated by a put while a clean works off its plan, and
\* no rebuilt index is written between an upsert's read and its write.
BriefHoldersAlone ==
  [][\A w, v \in Process : /\ Put(w) => Place(v, "maintenance") # "in"
                           /\ WriteRebuilt(w) => Place(v, "index") # "in"]_vars

=============================================================================
