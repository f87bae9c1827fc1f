------------------------- MODULE ArtifactCache_proofs -------------------------
(* What the shared cache guarantees for any number of processes, modules,   *)
(* archives and damaged objects. Everything follows from CacheInv.          *)
EXTENDS ArtifactCache, TLAPS

Stored(k) == object[DigestOf[k]] # "never"

\* An upsert that has read the index holds its lock, so that no record was
\* committed since.
UpsertAlone(w) ==
  job[w].pc = "commit" => indexing = w /\ recorded \subseteq job[w].seen

\* Every key a process carries is the key of a stored object.
CarriesStored(w) ==
  /\ \A k \in job[w].cached \cup job[w].records \cup job[w].seen : Stored(k)
  /\ job[w].pc \in {"put", "read", "isolate"} => job[w].module \in Key
  /\ job[w].pc \in {"read", "isolate"} => Stored(job[w].module)

\* A clean that has its plan protects what the archives it has read since refer to,
\* but for those that were written after it read them; it has read them all before
\* it deletes anything.
Protects(w) ==
  /\ job[w].pc \in {"enter", "sweep"} => job[w].unread = {}
  /\ job[w].pc \in {"collect", "enter", "sweep"} =>
       /\ job[w].sources = {} => job[w].refs = Digest
       /\ \A o \in job[w].sources \ (job[w].unread \cup late[w]) :
            archive[o] # NoArchive /\ Indexed(o) \subseteq job[w].refs

IndexStored == \A k \in index : Stored(k)

CacheInv ==
  /\ TypeOK /\ RecordsKept /\ IndexStored
  /\ \A w \in Process : UpsertAlone(w) /\ CarriesStored(w) /\ Protects(w)

-----------------------------------------------------------------------------
LEMMA InitCacheInv == ASSUME Init PROVE CacheInv
<1> USE CacheAssumption
<1>1. TypeOK
  BY DEF Init, TypeOK, Job, JobRecord, Building, Idle
<1>2. \A w \in Process : job[w] = Idle
  BY DEF Init
<1>3. \A w \in Process : UpsertAlone(w) /\ CarriesStored(w) /\ Protects(w)
  <2> TAKE w \in Process
  <2>1. /\ job[w].pc = "idle" /\ job[w].cached = {} /\ job[w].records = {}
        /\ job[w].seen = {}
    BY <1>2 DEF Idle
  <2> QED BY <2>1 DEF UpsertAlone, CarriesStored, Protects
<1> QED BY <1>1, <1>3 DEF Init, CacheInv, RecordsKept, IndexStored

\* A step of process w that leaves the other jobs alone keeps the invariant
\* when its own job does, no stored object is forgotten, and what it changes
\* of the shared files the others may rely on.
Steps(w) ==
  /\ job' \in [Process -> Job]
  /\ \A v \in Process \ {w} : job'[v] = job[v]
  /\ \A d \in Digest : object[d] # "never" => object'[d] # "never"
  /\ \A v \in Process \ {w} : indexing = v => indexing' = v
  /\ (\E v \in Process \ {w} : indexing = v) => recorded' = recorded
  /\ \A v \in Process \ {w} : late[v] \subseteq late'[v]
  /\ \A v \in Process \ {w}, o \in Output : o \notin late'[v] => archive'[o] = archive[o]

LEMMA StepKeeps ==
  ASSUME CacheInv, NEW w \in Process, Steps(w), TypeOK', RecordsKept', IndexStored',
         UpsertAlone(w)', CarriesStored(w)', Protects(w)'
  PROVE  CacheInv'
<1> SUFFICES ASSUME NEW v \in Process \ {w}
             PROVE  (UpsertAlone(v) /\ CarriesStored(v) /\ Protects(v))'
  BY DEF CacheInv
<1>0. job'[v] = job[v] /\ job[v] \in Job
  BY DEF Steps, CacheInv, TypeOK
<1>1. UpsertAlone(v)'
  BY <1>0 DEF Steps, CacheInv, UpsertAlone
<1>2. CarriesStored(v)'
  <2>1. \A k \in Key : Stored(k) => Stored(k)'
    BY CacheAssumption DEF Steps, Stored
  <2>2. /\ job[v].cached \subseteq Key /\ job[v].records \subseteq Key
        /\ job[v].seen \subseteq Key
    BY <1>0 DEF Job, JobRecord, Building
  <2> QED BY <1>0, <2>1, <2>2 DEF CacheInv, CarriesStored
<1>3. Protects(v)'
  <2>1. job[v].sources \subseteq Output
    BY <1>0 DEF Job, JobRecord, Building
  <2>2. ASSUME NEW o \in job[v].sources \ (job[v].unread \cup late'[v])
        PROVE  /\ o \in job[v].sources \ (job[v].unread \cup late[v])
               /\ archive'[o] = archive[o] /\ Indexed(o)' = Indexed(o)
    BY <2>1, <2>2 DEF Steps, Indexed, ArchivedDigest
  <2>3. Protects(v)
    BY DEF CacheInv
  <2> QED BY <1>0, <2>2, <2>3 DEF Protects
<1> QED BY <1>1, <1>2, <1>3

\* What the end of a request does to the jobs and the locks.
LEMMA EndFacts ==
  ASSUME CacheInv, NEW w \in Process, End(w)
  PROVE  /\ job' \in [Process -> Job] /\ job'[w] = Idle
         /\ \A v \in Process \ {w} : job'[v] = job[v]
         /\ \A v \in Process \ {w} : indexing = v => indexing' = v
         /\ maintenance' \in Process \cup {Nobody} /\ indexing' \in Process \cup {Nobody}
         /\ UNCHANGED <<requests, damages>>
  BY DEF CacheInv, TypeOK, End, Idle, Job, JobRecord, Building

\* A request that ends, fails or has not begun carries nothing.
LEMMA IdleJob ==
  ASSUME NEW w \in Process, job'[w] = Idle
  PROVE  UpsertAlone(w)' /\ CarriesStored(w)' /\ Protects(w)'
<1>1. /\ job'[w].pc = "idle" /\ job'[w].cached = {} /\ job'[w].records = {}
      /\ job'[w].seen = {}
  BY DEF Idle
<1> QED BY <1>1 DEF UpsertAlone, CarriesStored, Protects

\* The job of a process that goes on is again a job, the others keep theirs.
LEMMA MoveFacts ==
  ASSUME CacheInv, NEW w \in Process, NEW r \in Job, job' = [job EXCEPT ![w] = r]
  PROVE  /\ job' \in [Process -> Job] /\ job'[w] = r
         /\ \A v \in Process \ {w} : job'[v] = job[v]
  BY DEF CacheInv, TypeOK

\* A step that changes nothing but its own job and the time the process last
\* looked at the archives.
LEMMA MoveKeeps ==
  ASSUME CacheInv, NEW w \in Process, NEW r \in Job, job' = [job EXCEPT ![w] = r],
         late' \in [Process -> SUBSET Output],
         \A v \in Process \ {w} : late'[v] = late[v],
         requests' \in 0 .. MaxRequests,
         UNCHANGED <<object, index, archive, maintenance, indexing, damages, recorded>>,
         UpsertAlone(w)', CarriesStored(w)', Protects(w)'
  PROVE  CacheInv'
<1>1. Steps(w)
  BY MoveFacts DEF Steps
<1>2. TypeOK' /\ RecordsKept' /\ IndexStored'
  BY MoveFacts DEF CacheInv, TypeOK, RecordsKept, IndexStored, Stored
<1> QED BY <1>1, <1>2, StepKeeps

LEMMA EndKeeps ==
  ASSUME CacheInv, NEW w \in Process, End(w), UNCHANGED <<archive, recorded, index>>,
         object' \in [Digest -> {"never", "good", "bad", "isolated", "removed"}],
         \A d \in Digest : object[d] # "never" => object'[d] # "never",
         late' = late
  PROVE  CacheInv'
<1>2. Steps(w)
  BY EndFacts DEF Steps
<1>3. \A k \in Key : Stored(k) => Stored(k)'
  BY CacheAssumption DEF Stored
<1>4. TypeOK' /\ RecordsKept' /\ IndexStored'
  BY <1>3, EndFacts DEF CacheInv, TypeOK, RecordsKept, IndexStored
<1> QED BY <1>2, <1>4, EndFacts, IdleJob, StepKeeps

LEMMA FailKeeps == ASSUME CacheInv, NEW w \in Process, Fail(w) PROVE CacheInv'
  BY EndKeeps DEF Fail, history, CacheInv, TypeOK

-----------------------------------------------------------------------------
(* Builds.                                                                  *)

LEMMA RequestBuildKeeps ==
  ASSUME CacheInv, NEW w \in Process, NEW o \in Output, NEW keys \in SUBSET Key,
         RequestBuild(w, o, keys)
  PROVE  CacheInv'
<1> DEFINE r == [Idle EXCEPT !.pc = "snapshot", !.output = o, !.todo = keys]
<1>1. /\ r \in Job /\ r.pc = "snapshot" /\ r.cached = {} /\ r.records = {}
      /\ r.seen = {}
  BY DEF Idle, Job, JobRecord, Building
<1>2. /\ job' = [job EXCEPT ![w] = r] /\ requests' \in 0 .. MaxRequests
      /\ UNCHANGED <<object, index, archive, maintenance, indexing, damages, recorded, late>>
  BY CacheAssumption DEF RequestBuild, locks, history, CacheInv, TypeOK
<1> HIDE DEF r
<1>3. job'[w] = r
  BY <1>1, <1>2, MoveFacts
<1>4. UpsertAlone(w)' /\ CarriesStored(w)' /\ Protects(w)'
  BY <1>1, <1>3 DEF UpsertAlone, CarriesStored, Protects
<1> QED BY <1>1, <1>2, <1>4, MoveKeeps DEF CacheInv, TypeOK

LEMMA ReadIndexKeeps == ASSUME CacheInv, NEW w \in Process, ReadIndex(w) PROVE CacheInv'
<1> DEFINE r == [job[w] EXCEPT !.pc = "next", !.cached = index]
<1>0. job[w] \in Job /\ job[w].pc \in Building /\ index \subseteq Key
  BY DEF CacheInv, TypeOK, ReadIndex, At, Building
<1>1. /\ r \in Job /\ r.pc = "next" /\ r.cached = index /\ r.records = job[w].records
      /\ r.seen = job[w].seen
  BY <1>0 DEF Job, JobRecord, Building
<1>2. /\ job' = [job EXCEPT ![w] = r]
      /\ UNCHANGED <<object, index, archive, maintenance, indexing, requests, damages,
                     recorded, late>>
  BY DEF ReadIndex, KeepJob, locks, history, CacheInv, TypeOK
<1> HIDE DEF r
<1>3. job'[w] = r
  BY <1>1, <1>2, MoveFacts
<1>4. UpsertAlone(w)' /\ CarriesStored(w)' /\ Protects(w)'
  BY <1>1, <1>2, <1>3 DEF CacheInv, IndexStored, Stored, UpsertAlone, CarriesStored, Protects
<1> QED BY <1>1, <1>2, <1>4, MoveKeeps DEF CacheInv, TypeOK


LEMMA CachedModuleKeeps ==
  ASSUME CacheInv, NEW w \in Process, NEW k \in Key, CachedModule(w, k)
  PROVE  CacheInv'
<1> DEFINE r == [job[w] EXCEPT !.module = k, !.pc = IF k \in job[w].cached THEN "read" ELSE "put"]
<1>0. job[w] \in Job /\ job[w].pc \in Building
  BY DEF CacheInv, TypeOK, CachedModule, At, Building
<1>1. /\ r \in Job /\ r.pc \in {"read", "put"} /\ r.module = k
      /\ r.pc = "read" => k \in job[w].cached
      /\ r.cached = job[w].cached /\ r.records = job[w].records /\ r.seen = job[w].seen
  BY <1>0 DEF Job, JobRecord, Building
<1>2. /\ job' = [job EXCEPT ![w] = r]
      /\ UNCHANGED <<object, index, archive, maintenance, indexing, requests, damages,
                     recorded, late>>
  BY DEF CachedModule, KeepJob, locks, history, CacheInv, TypeOK
<1> HIDE DEF r
<1>3. job'[w] = r
  BY <1>1, <1>2, MoveFacts
<1>4. UpsertAlone(w)' /\ CarriesStored(w)' /\ Protects(w)'
  BY <1>1, <1>2, <1>3 DEF CacheInv, Stored, UpsertAlone, CarriesStored, Protects
<1> QED BY <1>1, <1>2, <1>4, MoveKeeps DEF CacheInv, TypeOK

LEMMA PutKeeps == ASSUME CacheInv, NEW w \in Process, Put(w) PROVE CacheInv'
<1> DEFINE d == DigestOf[job[w].module]
<1>0. job[w] \in Job /\ job[w].pc \in Building /\ At(w, "put") /\ job[w].module \in Key /\ d \in Digest
  BY CacheAssumption DEF CacheInv, TypeOK, Put, At, CarriesStored, Building
<1>1. CASE /\ object' = [object EXCEPT ![d] = "good"]
           /\ Goto(w, "read") /\ KeepJob /\ UNCHANGED <<index, archive, history>>
  <2> DEFINE r == [job[w] EXCEPT !.pc = "read"]
  <2>1. /\ r \in Job /\ r.pc = "read" /\ r.module = job[w].module
        /\ r.cached = job[w].cached /\ r.records = job[w].records /\ r.seen = job[w].seen
    BY <1>0 DEF Job, JobRecord, Building
  <2>2. /\ job' = [job EXCEPT ![w] = r]
        /\ UNCHANGED <<index, archive, maintenance, indexing, requests, damages,
                       recorded, late>>
    BY <1>1 DEF Goto, KeepJob, locks, history, CacheInv, TypeOK
  <2> HIDE DEF r
  <2>3. job'[w] = r
    BY <2>1, <2>2, MoveFacts
  <2>4. \A x \in Digest : object[x] # "never" => object'[x] # "never"
    BY <1>0, <1>1 DEF CacheInv, TypeOK
  <2>5. \A k \in Key : Stored(k) => Stored(k)'
    BY <2>4, CacheAssumption DEF Stored
  <2>6. Steps(w)
    BY <2>1, <2>2, <2>4, MoveFacts DEF Steps
  <2>7. TypeOK' /\ RecordsKept' /\ IndexStored'
    BY <1>0, <1>1, <2>1, <2>2, <2>5, MoveFacts DEF CacheInv, TypeOK, RecordsKept, IndexStored
  <2>8. PICK m \in Key : m = job[w].module
    BY <1>0
  <2>9. UpsertAlone(w)' /\ CarriesStored(w)' /\ Protects(w)'
    <3>1. job[w].cached \subseteq Key /\ job[w].records \subseteq Key /\ job[w].seen \subseteq Key
      BY <1>0 DEF Job, JobRecord, Building
    <3>2. job'[w].module = m /\ Stored(m)'
      BY <1>0, <1>1, <2>1, <2>3, <2>8 DEF CacheInv, TypeOK, Stored
    <3>3. UpsertAlone(w)' /\ Protects(w)'
      BY <2>1, <2>3 DEF UpsertAlone, Protects
    <3>4. \A k \in job'[w].cached \cup job'[w].records \cup job'[w].seen : Stored(k)'
      BY <2>1, <2>3, <2>5, <3>1 DEF CacheInv, CarriesStored
    <3>5. job'[w].module \in Key /\ Stored(job[w].module)'
      BY <3>2 DEF Stored
    <3> QED BY <3>3, <3>4, <3>5 DEF CarriesStored
  <2> QED BY <2>6, <2>7, <2>9, StepKeeps
<1>2. CASE /\ object' = Isolated(d)
           /\ End(w) /\ UNCHANGED <<index, archive, history>>
  BY <1>2, EndKeeps DEF Isolated, history, CacheInv, TypeOK
<1> QED BY <1>1, <1>2 DEF Put

LEMMA ReadObjectKeeps == ASSUME CacheInv, NEW w \in Process, ReadObject(w) PROVE CacheInv'
<1> DEFINE d == DigestOf[job[w].module]
<1>0. /\ job[w] \in Job /\ job[w].pc \in Building /\ job[w].module \in Key /\ Stored(job[w].module)
      /\ UNCHANGED <<object, index, archive, recorded, late>>
  BY DEF CacheInv, TypeOK, ReadObject, At, CarriesStored, history, Building
<1>1. CASE /\ job' = [job EXCEPT
                ![w].pc = IF job[w].todo = {job[w].module} THEN "merge" ELSE "next",
                ![w].todo = @ \ {job[w].module},
                ![w].records = @ \cup {job[w].module}, ![w].module = NoKey]
           /\ KeepJob
  <2> DEFINE r == [job[w] EXCEPT
                !.pc = IF job[w].todo = {job[w].module} THEN "merge" ELSE "next",
                !.todo = @ \ {job[w].module},
                !.records = @ \cup {job[w].module}, !.module = NoKey]
  <2>1. /\ r \in Job /\ r.pc \in {"merge", "next"}
        /\ r.records = job[w].records \cup {job[w].module}
        /\ r.cached = job[w].cached /\ r.seen = job[w].seen
    BY <1>0 DEF Job, JobRecord, Building
  <2>2. /\ job' = [job EXCEPT ![w] = r]
        /\ UNCHANGED <<maintenance, indexing, requests, damages>>
    BY <1>1 DEF KeepJob, locks, CacheInv, TypeOK
  <2> HIDE DEF r
  <2>3. job'[w] = r
    BY <2>1, <2>2, MoveFacts
  <2>4. UpsertAlone(w)' /\ CarriesStored(w)' /\ Protects(w)'
    BY <1>0, <2>1, <2>2, <2>3 DEF CacheInv, Stored, UpsertAlone, CarriesStored, Protects
  <2> QED BY <1>0, <2>1, <2>2, <2>4, MoveKeeps DEF CacheInv, TypeOK
<1>2. CASE Goto(w, "isolate") /\ KeepJob
  <2> DEFINE r == [job[w] EXCEPT !.pc = "isolate"]
  <2>1. /\ r \in Job /\ r.pc = "isolate" /\ r.module = job[w].module
        /\ r.cached = job[w].cached /\ r.records = job[w].records /\ r.seen = job[w].seen
    BY <1>0 DEF Job, JobRecord, Building
  <2>2. /\ job' = [job EXCEPT ![w] = r]
        /\ UNCHANGED <<maintenance, indexing, requests, damages>>
    BY <1>2 DEF Goto, KeepJob, locks, CacheInv, TypeOK
  <2> HIDE DEF r
  <2>3. job'[w] = r
    BY <2>1, <2>2, MoveFacts
  <2>4. UpsertAlone(w)' /\ CarriesStored(w)' /\ Protects(w)'
    BY <1>0, <2>1, <2>2, <2>3 DEF CacheInv, Stored, UpsertAlone, CarriesStored, Protects
  <2> QED BY <1>0, <2>1, <2>2, <2>4, MoveKeeps DEF CacheInv, TypeOK
<1>3. CASE End(w)
  BY <1>0, <1>3, EndKeeps DEF CacheInv, TypeOK
<1> QED BY <1>1, <1>2, <1>3 DEF ReadObject

LEMMA IsolateObjectKeeps ==
  ASSUME CacheInv, NEW w \in Process, IsolateObject(w) PROVE CacheInv'
  BY EndKeeps, CacheAssumption DEF IsolateObject, Isolated, history, CacheInv, TypeOK

LEMMA BeginUpsertKeeps == ASSUME CacheInv, NEW w \in Process, BeginUpsert(w) PROVE CacheInv'
<1> DEFINE r == [job[w] EXCEPT !.pc = "commit", !.seen = index]
<1>0. job[w] \in Job /\ job[w].pc \in Building /\ index \subseteq Key
  BY DEF CacheInv, TypeOK, BeginUpsert, At, Building
<1>1. /\ r \in Job /\ r.pc = "commit" /\ r.cached = job[w].cached
      /\ r.records = job[w].records /\ r.seen = index
  BY <1>0 DEF Job, JobRecord, Building
<1>2. /\ job' = [job EXCEPT ![w] = r] /\ indexing = Nobody /\ indexing' = w
      /\ UNCHANGED <<object, index, archive, maintenance, requests, damages, recorded, late>>
  BY DEF BeginUpsert, history, CacheInv, TypeOK
<1> HIDE DEF r
<1>3. job'[w] = r
  BY <1>1, <1>2, MoveFacts
<1>4. Steps(w)
  BY <1>1, <1>2, MoveFacts, CacheAssumption DEF Steps
<1>5. TypeOK' /\ RecordsKept' /\ IndexStored'
  BY <1>1, <1>2, MoveFacts DEF CacheInv, TypeOK, RecordsKept, IndexStored, Stored
<1>6. UpsertAlone(w)' /\ CarriesStored(w)' /\ Protects(w)'
  BY <1>1, <1>2, <1>3
  DEF CacheInv, RecordsKept, IndexStored, Stored, UpsertAlone, CarriesStored, Protects
<1> QED BY <1>4, <1>5, <1>6, StepKeeps

LEMMA CommitUpsertKeeps ==
  ASSUME CacheInv, NEW w \in Process, CommitUpsert(w) PROVE CacheInv'
<1> DEFINE r == [job[w] EXCEPT !.pc = "publish"]
<1>0. /\ job[w] \in Job /\ job[w].pc \in Building /\ indexing = w /\ recorded \subseteq job[w].seen
      /\ job[w].seen \subseteq Key /\ job[w].records \subseteq Key
  BY DEF CacheInv, TypeOK, CommitUpsert, At, UpsertAlone, Job, JobRecord, Building
<1>1. /\ r \in Job /\ r.pc = "publish" /\ r.cached = job[w].cached
      /\ r.records = job[w].records /\ r.seen = job[w].seen
  BY <1>0 DEF Job, JobRecord, Building
<1>2. /\ job' = [job EXCEPT ![w] = r] /\ indexing' = Nobody
      /\ index' = job[w].seen \cup job[w].records
      /\ recorded' = recorded \cup job[w].records
      /\ UNCHANGED <<object, archive, maintenance, requests, damages, late>>
  BY <1>0 DEF CommitUpsert, Goto, CacheInv, TypeOK
<1> HIDE DEF r
<1>3. job'[w] = r
  BY <1>1, <1>2, MoveFacts
<1>4. Steps(w)
  BY <1>0, <1>1, <1>2, MoveFacts, CacheAssumption DEF Steps
<1>5. TypeOK' /\ RecordsKept' /\ IndexStored'
  BY <1>0, <1>1, <1>2, MoveFacts
  DEF CacheInv, TypeOK, RecordsKept, IndexStored, CarriesStored, Stored
<1>6. UpsertAlone(w)' /\ CarriesStored(w)' /\ Protects(w)'
  BY <1>0, <1>1, <1>2, <1>3 DEF CacheInv, Stored, UpsertAlone, CarriesStored, Protects
<1> QED BY <1>4, <1>5, <1>6, StepKeeps

LEMMA PublishKeeps == ASSUME CacheInv, NEW w \in Process, Publish(w) PROVE CacheInv'
<1>0. /\ job[w] \in Job /\ job[w].pc = "publish" /\ End(w)
      /\ late' = [v \in Process |-> late[v] \cup {job[w].output}]
      /\ archive' = [archive EXCEPT ![job[w].output] = job[w].records]
      /\ UNCHANGED <<object, index, recorded>>
  BY DEF Publish, At, CacheInv, TypeOK
<1>1. job[w].records \subseteq Key
  BY <1>0 DEF Job, JobRecord, Building
<1>2. \A o \in Output : o # job[w].output => archive'[o] = archive[o]
  BY <1>0 DEF CacheInv, TypeOK
<1>3. \A v \in Process : late'[v] = late[v] \cup {job[w].output}
  BY <1>0
<1>4. Steps(w)
  BY <1>0, <1>2, <1>3, EndFacts DEF Steps
<1>5. late' \in [Process -> SUBSET Output]
  BY <1>0 DEF CacheInv, TypeOK, Job, JobRecord, Building
<1>6. TypeOK' /\ RecordsKept' /\ IndexStored'
  BY <1>0, <1>1, <1>5, EndFacts DEF CacheInv, TypeOK, RecordsKept, IndexStored, Stored
<1> QED BY <1>0, <1>4, <1>6, EndFacts, IdleJob, StepKeeps

-----------------------------------------------------------------------------
(* Cleaning and rebuilding.                                                 *)

LEMMA RequestCleanKeeps ==
  ASSUME CacheInv, NEW w \in Process, NEW outputs \in SUBSET Output,
         RequestClean(w, outputs)
  PROVE  CacheInv'
<1> DEFINE r == [Idle EXCEPT !.pc = "plan", !.sources = outputs, !.unread = outputs,
                   !.refs = Unreferenced(outputs)]
<1>1. /\ r \in Job /\ r.pc = "plan" /\ r.cached = {} /\ r.records = {}
      /\ r.seen = {}
  BY DEF Idle, Job, JobRecord, Building, Unreferenced
<1>2. /\ job' = [job EXCEPT ![w] = r] /\ requests' \in 0 .. MaxRequests
      /\ UNCHANGED <<object, index, archive, maintenance, indexing, damages, recorded, late>>
  BY CacheAssumption DEF RequestClean, locks, history, CacheInv, TypeOK
<1> HIDE DEF r
<1>3. job'[w] = r
  BY <1>1, <1>2, MoveFacts
<1>4. UpsertAlone(w)' /\ CarriesStored(w)' /\ Protects(w)'
  BY <1>1, <1>3 DEF UpsertAlone, CarriesStored, Protects
<1> QED BY <1>1, <1>2, <1>4, MoveKeeps DEF CacheInv, TypeOK

LEMMA RequestRebuildKeeps ==
  ASSUME CacheInv, NEW w \in Process, RequestRebuild(w) PROVE CacheInv'
<1> DEFINE r == [Idle EXCEPT !.pc = "scan"]
<1>1. /\ r \in Job /\ r.pc = "scan" /\ r.cached = {} /\ r.records = {}
      /\ r.seen = {}
  BY DEF Idle, Job, JobRecord, Building
<1>2. /\ job' = [job EXCEPT ![w] = r] /\ requests' \in 0 .. MaxRequests
      /\ UNCHANGED <<object, index, archive, maintenance, indexing, damages, recorded, late>>
  BY CacheAssumption DEF RequestRebuild, locks, history, CacheInv, TypeOK
<1> HIDE DEF r
<1>3. job'[w] = r
  BY <1>1, <1>2, MoveFacts
<1>4. UpsertAlone(w)' /\ CarriesStored(w)' /\ Protects(w)'
  BY <1>1, <1>3 DEF UpsertAlone, CarriesStored, Protects
<1> QED BY <1>1, <1>2, <1>4, MoveKeeps DEF CacheInv, TypeOK

LEMMA IndexedDigests ==
  ASSUME CacheInv, NEW o \in Output, archive[o] # NoArchive
  PROVE  Indexed(o) \subseteq Digest
  BY CacheAssumption DEF CacheInv, TypeOK, Indexed, ArchivedDigest

LEMMA ReadArchiveKeeps ==
  ASSUME CacheInv, NEW w \in Process, NEW o \in Output, ReadArchive(w, o)
  PROVE  CacheInv'
<1> DEFINE r == [job[w] EXCEPT !.unread = @ \ {o}, !.refs = @ \cup Indexed(o)]
<1>0. /\ job[w] \in Job /\ UNCHANGED <<object, index, archive, recorded>>
      /\ job[w].pc \in {"plan", "collect"}
  BY DEF CacheInv, TypeOK, ReadArchive, At
<1>1. CASE /\ archive[o] # NoArchive
           /\ job' = [job EXCEPT ![w].unread = @ \ {o}, ![w].refs = @ \cup Indexed(o)]
           /\ late' = [late EXCEPT ![w] = @ \ {o}] /\ KeepJob
  <2>0. Indexed(o) \subseteq Digest
    BY <1>1, IndexedDigests
  <2>1. /\ r \in Job /\ r.pc = job[w].pc /\ r.cached = job[w].cached
        /\ r.records = job[w].records /\ r.seen = job[w].seen
        /\ r.sources = job[w].sources /\ r.unread = job[w].unread \ {o}
        /\ r.refs = job[w].refs \cup Indexed(o) /\ job[w].refs \subseteq Digest
    BY <1>0, <2>0 DEF Job, JobRecord, Building
  <2>2. /\ UNCHANGED <<maintenance, indexing, requests, damages>>
        /\ late' \in [Process -> SUBSET Output] /\ late'[w] = late[w] \ {o}
        /\ \A v \in Process \ {w} : late'[v] = late[v]
    BY <1>1 DEF KeepJob, locks, CacheInv, TypeOK
  <2>3. job' = [job EXCEPT ![w] = r]
    BY <1>1 DEF CacheInv, TypeOK
  <2> HIDE DEF r
  <2>4. job'[w] = r
    BY <2>1, <2>3, MoveFacts
  <2>5. UpsertAlone(w)' /\ CarriesStored(w)'
    BY <1>0, <2>1, <2>4 DEF CacheInv, Stored, UpsertAlone, CarriesStored
  <2>6. Protects(w)'
    <3>1. \A x \in Output : archive'[x] = archive[x] /\ Indexed(x)' = Indexed(x)
      BY <1>0 DEF Indexed, ArchivedDigest
    <3>2. job[w].sources \subseteq Output
      BY <1>0 DEF Job, JobRecord
    <3>3. ASSUME job[w].pc = "collect",
                 NEW x \in job[w].sources \ ((job[w].unread \ {o}) \cup (late[w] \ {o}))
          PROVE  archive[x] # NoArchive /\ Indexed(x) \subseteq job[w].refs \cup Indexed(o)
      BY <1>1, <3>3 DEF CacheInv, Protects
    <3>4. job[w].pc = "collect" /\ job[w].sources = {} => job[w].refs \cup Indexed(o) = Digest
      BY <2>0 DEF CacheInv, Protects
    <3>5. job'[w].pc \notin {"enter", "sweep"}
      BY <1>0, <2>1, <2>4
    <3>6. ASSUME job'[w].pc = "collect", NEW x \in job'[w].sources \ (job'[w].unread \cup late'[w])
          PROVE  archive'[x] # NoArchive /\ Indexed(x)' \subseteq job'[w].refs
      <4>1. x \in job[w].sources \ ((job[w].unread \ {o}) \cup (late[w] \ {o})) /\ x \in Output
        BY <2>1, <2>2, <2>4, <3>2, <3>6
      <4>2. archive[x] # NoArchive /\ Indexed(x) \subseteq job[w].refs \cup Indexed(o)
        BY <2>1, <2>4, <3>3, <3>6, <4>1
      <4> QED BY <2>1, <2>4, <3>1, <4>1, <4>2
    <3>7. job'[w].pc = "collect" /\ job'[w].sources = {} => job'[w].refs = Digest
      BY <2>1, <2>4, <3>4
    <3> QED BY <3>5, <3>6, <3>7 DEF Protects
  <2> QED BY <1>0, <2>1, <2>2, <2>3, <2>5, <2>6, MoveKeeps DEF CacheInv, TypeOK
<1>2. CASE End(w) /\ late' = late
  BY <1>0, <1>2, EndKeeps DEF CacheInv, TypeOK
<1> QED BY <1>1, <1>2 DEF ReadArchive

LEMMA PlanCleanupKeeps == ASSUME CacheInv, NEW w \in Process, PlanCleanup(w) PROVE CacheInv'
<1> DEFINE r == [job[w] EXCEPT !.pc = "collect",
                   !.plan = {d \in Digest : object[d] = "good"} \ job[w].refs,
                   !.invalid = {d \in Digest : object[d] = "bad"},
                   !.unread = job[w].sources, !.refs = Unreferenced(job[w].sources)]
<1>0. job[w] \in Job
  BY DEF CacheInv, TypeOK
<1>1. /\ job' = [job EXCEPT ![w] = r]
      /\ UNCHANGED <<object, index, archive, maintenance, indexing, requests, damages,
                     recorded, late>>
  BY DEF PlanCleanup, KeepJob, locks, history, CacheInv, TypeOK
<1>2. Unreferenced(job[w].sources) \subseteq Digest
  BY DEF Unreferenced
<1>3. /\ r \in Job /\ r.pc = "collect" /\ r.cached = job[w].cached
      /\ r.records = job[w].records /\ r.seen = job[w].seen
      /\ r.sources = job[w].sources /\ r.unread = job[w].sources
      /\ r.refs = Unreferenced(job[w].sources)
  BY <1>0, <1>2 DEF Job, JobRecord, Building
<1> HIDE DEF r
<1>4. job'[w] = r
  BY <1>1, <1>3, MoveFacts
<1>5. UpsertAlone(w)' /\ CarriesStored(w)' /\ Protects(w)'
  BY <1>0, <1>1, <1>3, <1>4
  DEF CacheInv, Stored, UpsertAlone, CarriesStored, Protects, Unreferenced
<1> QED BY <1>1, <1>3, <1>5, MoveKeeps DEF CacheInv, TypeOK

LEMMA RecollectedKeeps == ASSUME CacheInv, NEW w \in Process, Recollected(w) PROVE CacheInv'
<1> DEFINE r == [job[w] EXCEPT !.pc = "enter"]
<1>0. job[w] \in Job /\ job[w].pc = "collect" /\ job[w].unread = {}
  BY DEF CacheInv, TypeOK, Recollected, At
<1>1. /\ r \in Job /\ r.pc = "enter" /\ r.cached = job[w].cached
      /\ r.records = job[w].records /\ r.seen = job[w].seen
      /\ r.sources = job[w].sources /\ r.unread = {} /\ r.refs = job[w].refs
  BY <1>0 DEF Job, JobRecord, Building
<1>2. /\ job' = [job EXCEPT ![w] = r]
      /\ UNCHANGED <<object, index, archive, maintenance, indexing, requests, damages,
                     recorded, late>>
  BY DEF Recollected, Goto, KeepJob, locks, history, CacheInv, TypeOK
<1> HIDE DEF r
<1>3. job'[w] = r
  BY <1>1, <1>2, MoveFacts
<1>4. UpsertAlone(w)' /\ CarriesStored(w)'
  BY <1>0, <1>1, <1>2, <1>3 DEF CacheInv, Stored, UpsertAlone, CarriesStored
<1>5. Protects(w)'
  BY <1>0, <1>1, <1>2, <1>3 DEF CacheInv, Protects, Indexed, ArchivedDigest
<1> QED BY <1>1, <1>2, <1>4, <1>5, MoveKeeps DEF CacheInv, TypeOK

LEMMA EnterMaintenanceKeeps ==
  ASSUME CacheInv, NEW w \in Process, EnterMaintenance(w) PROVE CacheInv'
<1> DEFINE r == [job[w] EXCEPT !.pc = "sweep"]
<1>0. job[w] \in Job /\ job[w].pc = "enter"
  BY DEF CacheInv, TypeOK, EnterMaintenance, At
<1>1. /\ r \in Job /\ r.pc = "sweep" /\ r.cached = job[w].cached
      /\ r.records = job[w].records /\ r.seen = job[w].seen
      /\ r.sources = job[w].sources /\ r.unread = job[w].unread /\ r.refs = job[w].refs
  BY <1>0 DEF Job, JobRecord, Building
<1>2. /\ job' = [job EXCEPT ![w] = r] /\ maintenance' = w
      /\ UNCHANGED <<object, index, archive, indexing, requests, damages, recorded, late>>
  BY DEF EnterMaintenance, Goto, history, CacheInv, TypeOK
<1> HIDE DEF r
<1>3. job'[w] = r
  BY <1>1, <1>2, MoveFacts
<1>4. UpsertAlone(w)' /\ CarriesStored(w)' /\ Protects(w)'
  BY <1>0, <1>1, <1>2, <1>3
  DEF CacheInv, Stored, UpsertAlone, CarriesStored, Protects, Indexed, ArchivedDigest
<1>5. Steps(w)
  BY <1>1, <1>2, MoveFacts DEF Steps
<1>6. TypeOK' /\ RecordsKept' /\ IndexStored'
  BY <1>1, <1>2, MoveFacts DEF CacheInv, TypeOK, RecordsKept, IndexStored, Stored
<1> QED BY <1>4, <1>5, <1>6, StepKeeps

\* A step of the sweep: some object is isolated or removed, none is forgotten,
\* and the clean has one path less to look at.
LEMMA SweepOne ==
  ASSUME CacheInv, NEW w \in Process, job[w].pc = "sweep",
         NEW r \in Job, job' = [job EXCEPT ![w] = r], r.pc = "sweep",
         r.cached = job[w].cached, r.records = job[w].records, r.seen = job[w].seen,
         r.sources = job[w].sources, r.unread = job[w].unread, r.refs = job[w].refs,
         object' \in [Digest -> {"never", "good", "bad", "isolated", "removed"}],
         \A d \in Digest : object[d] # "never" => object'[d] # "never",
         UNCHANGED <<index, archive, maintenance, indexing, requests, damages, recorded, late>>
  PROVE  CacheInv'
<1>1. job'[w] = r /\ job[w] \in Job
  BY MoveFacts DEF CacheInv, TypeOK
<1>2. \A k \in Key : Stored(k) => Stored(k)'
  BY CacheAssumption DEF Stored
<1>3. Steps(w)
  BY MoveFacts DEF Steps
<1>4. TypeOK' /\ RecordsKept' /\ IndexStored'
  BY <1>2, MoveFacts DEF CacheInv, TypeOK, RecordsKept, IndexStored
<1>5. UpsertAlone(w)' /\ Protects(w)'
  BY <1>1 DEF CacheInv, UpsertAlone, Protects, Indexed, ArchivedDigest
<1>6. CarriesStored(w)'
  BY <1>1, <1>2 DEF CacheInv, CarriesStored, Job, JobRecord
<1> QED BY <1>3, <1>4, <1>5, <1>6, StepKeeps

LEMMA SweepKeeps == ASSUME CacheInv, NEW w \in Process, Sweep(w) PROVE CacheInv'
<1>0. /\ job[w] \in Job /\ job[w].pc = "sweep" /\ UNCHANGED <<index, archive, recorded, late>>
  BY DEF CacheInv, TypeOK, Sweep, At, history
<1>1. ASSUME NEW d \in job[w].invalid, object' = Isolated(d),
             job' = [job EXCEPT ![w].invalid = @ \ {d}], KeepJob
      PROVE  CacheInv'
  <2> DEFINE r == [job[w] EXCEPT !.invalid = @ \ {d}]
  <2>1. /\ r \in Job /\ r.pc = "sweep" /\ r.cached = job[w].cached
        /\ r.records = job[w].records /\ r.seen = job[w].seen
        /\ r.sources = job[w].sources /\ r.unread = job[w].unread /\ r.refs = job[w].refs
    BY <1>0 DEF Job, JobRecord, Building
  <2>2. job' = [job EXCEPT ![w] = r] /\ UNCHANGED <<maintenance, indexing, requests, damages>>
    BY <1>1 DEF KeepJob, locks, CacheInv, TypeOK
  <2> HIDE DEF r
  <2>3. /\ object' \in [Digest -> {"never", "good", "bad", "isolated", "removed"}]
        /\ \A x \in Digest : object[x] # "never" => object'[x] # "never"
    BY <1>1 DEF Isolated, CacheInv, TypeOK
  <2> QED BY <1>0, <2>1, <2>2, <2>3, SweepOne
<1>2. ASSUME NEW d \in job[w].plan,
             object' = IF Protected(w, d) THEN object
                       ELSE IF object[d] = "good" THEN [object EXCEPT ![d] = "removed"]
                       ELSE Isolated(d),
             job' = [job EXCEPT ![w].plan = @ \ {d}], KeepJob
      PROVE  CacheInv'
  <2> DEFINE r == [job[w] EXCEPT !.plan = @ \ {d}]
  <2>1. /\ r \in Job /\ r.pc = "sweep" /\ r.cached = job[w].cached
        /\ r.records = job[w].records /\ r.seen = job[w].seen
        /\ r.sources = job[w].sources /\ r.unread = job[w].unread /\ r.refs = job[w].refs
    BY <1>0 DEF Job, JobRecord, Building
  <2>2. job' = [job EXCEPT ![w] = r] /\ UNCHANGED <<maintenance, indexing, requests, damages>>
    BY <1>2 DEF KeepJob, locks, CacheInv, TypeOK
  <2> HIDE DEF r
  <2>3. /\ object' \in [Digest -> {"never", "good", "bad", "isolated", "removed"}]
        /\ \A x \in Digest : object[x] # "never" => object'[x] # "never"
    BY <1>2 DEF Isolated, CacheInv, TypeOK
  <2> QED BY <1>0, <2>1, <2>2, <2>3, SweepOne
<1>3. CASE object' = object /\ End(w)
  BY <1>0, <1>3, EndKeeps DEF CacheInv, TypeOK
<1> QED BY <1>1, <1>2, <1>3 DEF Sweep

LEMMA ScanKeeps == ASSUME CacheInv, NEW w \in Process, Scan(w) PROVE CacheInv'
<1> DEFINE r == [job[w] EXCEPT !.pc = "reset"]
<1>0. job[w] \in Job
  BY DEF CacheInv, TypeOK
<1>1. /\ r \in Job /\ r.pc = "reset" /\ r.cached = job[w].cached
      /\ r.records = job[w].records /\ r.seen = job[w].seen
  BY <1>0 DEF Job, JobRecord, Building
<1>2. /\ job' = [job EXCEPT ![w] = r]
      /\ UNCHANGED <<index, archive, maintenance, indexing, requests, damages, recorded, late>>
  BY DEF Scan, Goto, KeepJob, locks, history, CacheInv, TypeOK
<1> HIDE DEF r
<1>3. job'[w] = r
  BY <1>1, <1>2, MoveFacts
<1>4. /\ object' \in [Digest -> {"never", "good", "bad", "isolated", "removed"}]
      /\ \A x \in Digest : object[x] # "never" => object'[x] # "never"
  BY DEF Scan, CacheInv, TypeOK
<1>5. \A k \in Key : Stored(k) => Stored(k)'
  BY <1>4, CacheAssumption DEF Stored
<1>6. Steps(w)
  BY <1>1, <1>2, <1>4, MoveFacts DEF Steps
<1>7. TypeOK' /\ RecordsKept' /\ IndexStored'
  BY <1>1, <1>2, <1>4, <1>5, MoveFacts DEF CacheInv, TypeOK, RecordsKept, IndexStored
<1>8. UpsertAlone(w)' /\ Protects(w)'
  BY <1>1, <1>3 DEF UpsertAlone, Protects
<1>9. CarriesStored(w)'
  BY <1>0, <1>1, <1>3, <1>5 DEF CacheInv, CarriesStored, Job, JobRecord
<1> QED BY <1>6, <1>7, <1>8, <1>9, StepKeeps

LEMMA WriteRebuiltKeeps ==
  ASSUME CacheInv, NEW w \in Process, WriteRebuilt(w) PROVE CacheInv'
<1>1. /\ End(w) /\ indexing = Nobody /\ index' = {} /\ recorded' = {}
      /\ UNCHANGED <<object, archive, late>>
  BY DEF WriteRebuilt
<1>2. Steps(w)
  BY <1>1, EndFacts, CacheAssumption DEF Steps
<1>3. TypeOK' /\ RecordsKept' /\ IndexStored'
  BY <1>1, EndFacts DEF CacheInv, TypeOK, RecordsKept, IndexStored
<1> QED BY <1>1, <1>2, <1>3, EndFacts, IdleJob, StepKeeps

LEMMA DamageKeeps == ASSUME CacheInv, NEW d \in Digest, Damage(d) PROVE CacheInv'
<1>1. /\ object' = [object EXCEPT ![d] = "bad"] /\ damages' \in 0 .. MaxDamage
      /\ UNCHANGED <<index, archive, maintenance, indexing, job, requests, recorded, late>>
  BY CacheAssumption DEF Damage, locks, history, CacheInv, TypeOK
<1>2. \A k \in Key : Stored(k) => Stored(k)'
  BY <1>1, CacheAssumption DEF Stored, CacheInv, TypeOK
<1>3. TypeOK' /\ RecordsKept' /\ IndexStored'
  BY <1>1, <1>2 DEF CacheInv, TypeOK, RecordsKept, IndexStored
<1>4. ASSUME NEW w \in Process PROVE UpsertAlone(w)' /\ Protects(w)'
  BY <1>1 DEF CacheInv, UpsertAlone, Protects, Indexed, ArchivedDigest
<1>5. ASSUME NEW w \in Process PROVE CarriesStored(w)'
  BY <1>1, <1>2 DEF CacheInv, CarriesStored, TypeOK, Job, JobRecord
<1> QED BY <1>3, <1>4, <1>5 DEF CacheInv

-----------------------------------------------------------------------------
LEMMA NextCacheInv == ASSUME CacheInv, [Next]_vars PROVE CacheInv'
<1>1. CASE UNCHANGED vars
  <2>1. UNCHANGED <<object, index, archive, maintenance, indexing, job, requests, damages,
                    recorded, late>>
    BY <1>1 DEF vars, locks, history
  <2>2. TypeOK' /\ RecordsKept' /\ IndexStored'
    BY <2>1 DEF CacheInv, TypeOK, RecordsKept, IndexStored, Stored
  <2>3. \A w \in Process : UpsertAlone(w)' /\ CarriesStored(w)' /\ Protects(w)'
    BY <2>1 DEF CacheInv, Stored, UpsertAlone, CarriesStored, Protects, Indexed, ArchivedDigest
  <2> QED BY <2>2, <2>3 DEF CacheInv
<1>2. ASSUME NEW w \in Process, Request(w) PROVE CacheInv'
  BY <1>2, RequestBuildKeeps, RequestCleanKeeps, RequestRebuildKeeps DEF Request
<1>3. ASSUME NEW w \in Process, Progress(w) PROVE CacheInv'
  BY <1>3, ReadIndexKeeps, CachedModuleKeeps, PutKeeps, ReadObjectKeeps, IsolateObjectKeeps,
     BeginUpsertKeeps, CommitUpsertKeeps, PublishKeeps, ReadArchiveKeeps, PlanCleanupKeeps,
     RecollectedKeeps, EnterMaintenanceKeeps, SweepKeeps, ScanKeeps, WriteRebuiltKeeps DEF Progress
<1> QED BY <1>1, <1>2, <1>3, FailKeeps, DamageKeeps DEF Next

\* The inductive invariant, for any processes, modules, archives and bounds.
THEOREM Invariance == Spec => []CacheInv
<1>1. Init => CacheInv
  BY InitCacheInv
<1>2. CacheInv /\ [Next]_vars => CacheInv'
  BY NextCacheInv
<1> QED BY <1>1, <1>2, PTL DEF Spec

\* The variables keep their types, and with them the locks have one holder.
THEOREM TypeCorrect == Spec => []TypeOK
<1>1. CacheInv => TypeOK
  BY DEF CacheInv
<1> QED BY <1>1, Invariance, PTL

\* No build's record is lost to another build, however their upserts overlap.
THEOREM KeepsRecords == Spec => []RecordsKept
<1>1. CacheInv => RecordsKept
  BY DEF CacheInv
<1> QED BY <1>1, Invariance, PTL

\* Hits, stored modules and records name objects that were stored.
THEOREM NamesAreStored == Spec => []NamesStored
<1>1. CacheInv => NamesStored
  BY DEF CacheInv, IndexStored, NamesStored, CarriesStored, Stored
<1> QED BY <1>1, Invariance, PTL

\* No step removes the object of a release module in an archive the clean was told of.
LEMMA RemovedUnreferenced ==
  ASSUME CacheInv, [Next]_vars, NEW d \in Digest, object[d] = "good", object'[d] = "removed"
  PROVE  \E w \in Process :
           /\ At(w, "sweep") /\ job[w].sources # {}
           /\ \A o \in job[w].sources \ late[w] :
                archive[o] # NoArchive /\ \A k \in archive[o] \ Debug : DigestOf[k] # d
<1>1. PICK w \in Process : Sweep(w)
  <2> USE DEF CacheInv, TypeOK
  <2>1. object' # object
    OBVIOUS
  <2>2. ASSUME NEW w \in Process, Request(w) PROVE FALSE
    BY <2>1, <2>2 DEF Request, RequestBuild, RequestClean, RequestRebuild
  <2>3. ASSUME NEW w \in Process, Progress(w), ~Sweep(w) PROVE FALSE
    <3>1. ASSUME Put(w) PROVE FALSE
      BY <3>1 DEF Put, Isolated, Exists
    <3>2. ASSUME Scan(w) PROVE FALSE
      BY <3>2 DEF Scan
    <3>3. ASSUME IsolateObject(w) PROVE FALSE
      BY <3>3 DEF IsolateObject, Isolated, Exists
    <3> QED BY <2>1, <2>3, <3>1, <3>2, <3>3
            DEF Progress, ReadIndex, CachedModule, ReadObject, BeginUpsert, CommitUpsert,
                Publish, ReadArchive, PlanCleanup, Recollected, EnterMaintenance, WriteRebuilt
  <2>4. ASSUME NEW w \in Process, Fail(w) PROVE FALSE
    BY <2>1, <2>4 DEF Fail
  <2>5. ASSUME NEW x \in Digest, Damage(x) PROVE FALSE
    BY <2>5 DEF Damage
  <2> QED BY <2>1, <2>2, <2>3, <2>4, <2>5 DEF Next, vars
<1>2. d \notin job[w].refs
  BY <1>1 DEF Sweep, Protected, Isolated, Exists, CacheInv, TypeOK
<1>3. job[w].pc = "sweep" /\ Protects(w)
  BY <1>1 DEF Sweep, At, CacheInv
<1>4. \A o \in Output : \A k \in archive[o] \ Debug : DigestOf[k] \in Indexed(o)
  BY DEF Indexed, ArchivedDigest
<1>5. job[w].sources \subseteq Output
  BY DEF CacheInv, TypeOK, Job, JobRecord
<1> QED BY <1>2, <1>3, <1>4, <1>5 DEF Protects, At

\* A clean spares what the release modules of the archives it was told of were built
\* from, unless the archive was written after the clean last read it.
THEOREM SparesDeclaredArchives == Spec => DeclaredArchivesSurvive
<1>1. CacheInv /\ [Next]_vars
      => [\A d \in Digest : object[d] = "good" /\ object'[d] = "removed" =>
            \E w \in Process :
              /\ At(w, "sweep") /\ job[w].sources # {}
              /\ \A o \in job[w].sources \ late[w] :
                   archive[o] # NoArchive /\ \A k \in archive[o] \ Debug : DigestOf[k] # d]_vars
  BY RemovedUnreferenced
<1> QED BY <1>1, Invariance, PTL DEF Spec, DeclaredArchivesSurvive

-----------------------------------------------------------------------------
(* The locks of the cache are used as LockContract has it.                   *)

Locks == {"index", "maintenance"}
Holder(lock) == IF lock = "index" THEN indexing ELSE maintenance

\* Whoever is inside has the lock file to its name.
InsideHolds ==
  \A lock \in Locks : \A w \in Process : At(w, Inside(lock)) => Holder(lock) = w

\* The step by which w gets in.
Enters(w, lock) ==
  At(w, Asking(lock)) /\ Holder(lock) = Nobody /\ At(w, Inside(lock))' /\ Holder(lock)' = w

\* What a step of w may do at a lock: get in from the queue, stay in with the lock
\* kept, leave, ask, or nothing; others keep theirs.
Orderly(w, lock) ==
  /\ \A v \in Process \ {w} : job'[v] = job[v] /\ (Holder(lock) = v => Holder(lock)' = v)
  /\ At(w, Inside(lock))' =>
       \/ Enters(w, lock)
       \/ At(w, Inside(lock)) /\ Holder(lock)' = Holder(lock)
  /\ At(w, Asking(lock))' => ~At(w, Inside(lock))

LEMMA EndOrderly ==
  ASSUME CacheInv, NEW w \in Process, End(w), NEW lock \in Locks
  PROVE  Orderly(w, lock)
<1>1. job' = [job EXCEPT ![w] = Idle] /\ job \in [Process -> Job]
  BY DEF End, CacheInv, TypeOK
<1>2. job'[w].pc = "idle" /\ \A v \in Process \ {w} : job'[v] = job[v]
  BY <1>1 DEF Idle
<1>3. \A v \in Process \ {w} : Holder(lock) = v => Holder(lock)' = v
  BY DEF End, Holder, Locks
<1> QED BY <1>2, <1>3 DEF Orderly, At, Inside, Asking

\* A step that leaves the locks alone goes neither in nor back from inside to asking.
LEMMA MoveOrderly ==
  ASSUME CacheInv, NEW w \in Process, NEW r, job' = [job EXCEPT ![w] = r],
         UNCHANGED locks, NEW lock \in Locks,
         r.pc # Inside(lock) \/ job[w].pc = r.pc,
         r.pc # Asking(lock) \/ job[w].pc # Inside(lock)
  PROVE  Orderly(w, lock)
<1>1. job'[w] = r /\ \A v \in Process \ {w} : job'[v] = job[v]
  BY DEF CacheInv, TypeOK
<1>2. Holder(lock)' = Holder(lock)
  BY DEF locks, Holder
<1> QED BY <1>1, <1>2 DEF Orderly, At

\* Every step of a request is orderly at both locks.
LEMMA StepOrderly ==
  ASSUME CacheInv, NEW w \in Process, Request(w) \/ Progress(w) \/ Fail(w),
         NEW lock \in Locks
  PROVE  Orderly(w, lock)
<1> USE DEF KeepJob, At, Inside, Asking, Locks
<1>0. job \in [Process -> Job] /\ job[w] \in Job
  BY DEF CacheInv, TypeOK
<1>1. ASSUME NEW r, job' = [job EXCEPT ![w] = r], UNCHANGED locks,
              \/ r.pc \notin {"commit", "sweep", "merge", "enter"}
              \/ r.pc = job[w].pc
              \/ job[w].pc \in {"read", "collect"} /\ r.pc \in {"merge", "enter"}
       PROVE  Orderly(w, lock)
  BY <1>1, MoveOrderly
<1>2. ASSUME NEW step, Goto(w, step), UNCHANGED locks,
             step \in {"next", "read", "isolate", "reset", "publish"},
             job[w].pc \notin {"commit", "sweep"}
      PROVE  Orderly(w, lock)
  <2> DEFINE r == [job[w] EXCEPT !.pc = step]
  <2>1. job' = [job EXCEPT ![w] = r]
    BY <1>0, <1>2 DEF Goto
  <2>2. r.pc = step
    BY <1>0 DEF Job, JobRecord
  <2> HIDE DEF r
  <2> QED BY <1>2, <1>1, <2>1, <2>2
<1>3. ASSUME Request(w) PROVE Orderly(w, lock)
  <2>1. PICK r : /\ job' = [job EXCEPT ![w] = r] /\ r.pc \in {"snapshot", "plan", "scan"}
                 /\ UNCHANGED locks
    BY <1>3 DEF Request, RequestBuild, RequestClean, RequestRebuild, Idle
  <2> QED BY <2>1, MoveOrderly
<1>4. ASSUME ReadIndex(w) PROVE Orderly(w, lock)
  <2>1. PICK r \in Job : /\ job' = [job EXCEPT ![w] = r] /\ r.pc = "next"
    <3> DEFINE r == [job[w] EXCEPT !.pc = "next", !.cached = index]
    <3>1. job' = [job EXCEPT ![w] = r]
      BY <1>4 DEF ReadIndex
    <3>2. r.pc = "next" /\ r \in Job
      BY <1>0, <1>4 DEF ReadIndex, Job, JobRecord, CacheInv, TypeOK, Building
    <3> HIDE DEF r
    <3> QED BY <3>1, <3>2
  <2> QED BY <1>4, <2>1, MoveOrderly DEF ReadIndex
<1>5. ASSUME NEW k \in Key, CachedModule(w, k) PROVE Orderly(w, lock)
  <2> DEFINE r == [job[w] EXCEPT !.module = k,
                     !.pc = IF k \in job[w].cached THEN "read" ELSE "put"]
  <2>1. job' = [job EXCEPT ![w] = r] /\ UNCHANGED locks
    BY <1>5 DEF CachedModule
  <2>2. r.pc \in {"read", "put"}
    BY <1>0 DEF Job, JobRecord
  <2> HIDE DEF r
  <2> QED BY <1>1, <2>1, <2>2
<1>6. ASSUME Put(w) PROVE Orderly(w, lock)
  BY <1>2, <1>6, EndOrderly DEF Put
<1>7. ASSUME ReadObject(w) PROVE Orderly(w, lock)
  <2>1. CASE object[DigestOf[job[w].module]] = "good"
    <3> DEFINE r == [job[w] EXCEPT
                 !.pc = IF job[w].todo = {job[w].module} THEN "merge" ELSE "next",
                 !.todo = @ \ {job[w].module},
                 !.records = @ \cup {job[w].module}, !.module = NoKey]
    <3>1. job' = [job EXCEPT ![w] = r] /\ UNCHANGED locks /\ job[w].pc = "read"
      BY <1>7, <2>1 DEF ReadObject, Exists
    <3>2. r.pc \in {"merge", "next"}
      BY <1>0 DEF Job, JobRecord
    <3> HIDE DEF r
    <3> QED BY <1>1, <3>1, <3>2
  <2>2. CASE object[DigestOf[job[w].module]] # "good"
    BY <1>2, <1>7, <2>2, EndOrderly DEF ReadObject
  <2> QED BY <2>1, <2>2
<1>8. ASSUME IsolateObject(w) \/ Publish(w) \/ WriteRebuilt(w) \/ Fail(w)
      PROVE  Orderly(w, lock)
  BY <1>8, EndOrderly DEF IsolateObject, Publish, WriteRebuilt, Fail
<1>9. ASSUME BeginUpsert(w) PROVE Orderly(w, lock)
  <2> DEFINE r == [job[w] EXCEPT !.pc = "commit", !.seen = index]
  <2>1. job' = [job EXCEPT ![w] = r]
    BY <1>9 DEF BeginUpsert
  <2>2. r.pc = "commit" /\ job[w].pc = "merge"
    BY <1>0, <1>9 DEF BeginUpsert, Job, JobRecord
  <2>3. job'[w] = r /\ \A v \in Process \ {w} : job'[v] = job[v]
    BY <1>0, <2>1
  <2>4. Nobody \notin Process /\ indexing = Nobody /\ indexing' = w /\ maintenance' = maintenance
    BY <1>9, CacheAssumption DEF BeginUpsert, CacheAssumption
  <2> QED BY <2>2, <2>3, <2>4 DEF Orderly, Enters, Holder
<1>10. ASSUME EnterMaintenance(w) PROVE Orderly(w, lock)
  <2> DEFINE r == [job[w] EXCEPT !.pc = "sweep"]
  <2>1. job' = [job EXCEPT ![w] = r]
    BY <1>10 DEF EnterMaintenance, Goto
  <2>2. r.pc = "sweep" /\ job[w].pc = "enter"
    BY <1>0, <1>10 DEF EnterMaintenance, Job, JobRecord
  <2>3. job'[w] = r /\ \A v \in Process \ {w} : job'[v] = job[v]
    BY <1>0, <2>1
  <2>4. Nobody \notin Process /\ maintenance = Nobody /\ maintenance' = w /\ indexing' = indexing
    BY <1>10, CacheAssumption DEF EnterMaintenance, CacheAssumption
  <2> QED BY <2>2, <2>3, <2>4 DEF Orderly, Enters, Holder
<1>11. ASSUME CommitUpsert(w) PROVE Orderly(w, lock)
  <2> DEFINE r == [job[w] EXCEPT !.pc = "publish"]
  <2>1. job' = [job EXCEPT ![w] = r]
    BY <1>11 DEF CommitUpsert, Goto
  <2>2. r.pc = "publish"
    BY <1>0 DEF Job, JobRecord
  <2>3. job'[w] = r /\ \A v \in Process \ {w} : job'[v] = job[v]
    BY <1>0, <2>1
  <2>4. \A v \in Process \ {w} : Holder(lock) = v => Holder(lock)' = v
    BY <1>11 DEF CommitUpsert, Holder
  <2> QED BY <2>2, <2>3, <2>4 DEF Orderly
<1>12. ASSUME PlanCleanup(w) PROVE Orderly(w, lock)
  <2> DEFINE r == [job[w] EXCEPT !.pc = "collect",
                     !.plan = {d \in Digest : object[d] = "good"} \ job[w].refs,
                     !.invalid = {d \in Digest : object[d] = "bad"},
                     !.unread = job[w].sources, !.refs = Unreferenced(job[w].sources)]
  <2>1. job' = [job EXCEPT ![w] = r] /\ UNCHANGED locks
    BY <1>12 DEF PlanCleanup
  <2>2. r.pc = "collect"
    BY <1>0 DEF Job, JobRecord
  <2> HIDE DEF r
  <2> QED BY <1>1, <2>1, <2>2
<1>13. ASSUME Recollected(w) PROVE Orderly(w, lock)
  <2> DEFINE r == [job[w] EXCEPT !.pc = "enter"]
  <2>1. job' = [job EXCEPT ![w] = r] /\ UNCHANGED locks /\ job[w].pc = "collect"
    BY <1>13 DEF Recollected, Goto
  <2>2. r.pc = "enter"
    BY <1>0 DEF Job, JobRecord
  <2> HIDE DEF r
  <2> QED BY <1>1, <2>1, <2>2
<1>16. ASSUME NEW o \in Output, ReadArchive(w, o) PROVE Orderly(w, lock)
  <2>1. CASE End(w)
    BY <2>1, EndOrderly
  <2>2. CASE ~End(w)
    <3> DEFINE r == [job[w] EXCEPT !.unread = @ \ {o}, !.refs = @ \cup Indexed(o)]
    <3>1. job' = [job EXCEPT ![w] = r] /\ UNCHANGED locks
      BY <1>16, <2>2 DEF ReadArchive
    <3>2. r.pc = job[w].pc
      BY <1>0 DEF Job, JobRecord
    <3> HIDE DEF r
    <3> QED BY <1>1, <3>1, <3>2
  <2> QED BY <2>1, <2>2
<1>14. ASSUME Sweep(w) PROVE Orderly(w, lock)
  <2>1. CASE End(w)
    BY <2>1, EndOrderly
  <2>2. CASE ~End(w)
    <3>1. PICK d \in Digest : \/ job' = [job EXCEPT ![w].invalid = @ \ {d}] /\ UNCHANGED locks
                              \/ job' = [job EXCEPT ![w].plan = @ \ {d}] /\ UNCHANGED locks
      BY <1>0, <1>14, <2>2 DEF Sweep, Job, JobRecord
    <3>2. CASE job' = [job EXCEPT ![w].invalid = @ \ {d}]
      <4> DEFINE r == [job[w] EXCEPT !.invalid = @ \ {d}]
      <4>1. job' = [job EXCEPT ![w] = r]
        BY <3>2
      <4>2. r.pc = job[w].pc /\ job[w].pc = "sweep"
        BY <1>0, <1>14 DEF Sweep, Job, JobRecord
      <4> HIDE DEF r
      <4> QED BY <1>1, <3>1, <4>1, <4>2
    <3>3. CASE job' = [job EXCEPT ![w].plan = @ \ {d}]
      <4> DEFINE r == [job[w] EXCEPT !.plan = @ \ {d}]
      <4>1. job' = [job EXCEPT ![w] = r]
        BY <3>3
      <4>2. r.pc = job[w].pc /\ job[w].pc = "sweep"
        BY <1>0, <1>14 DEF Sweep, Job, JobRecord
      <4> HIDE DEF r
      <4> QED BY <1>1, <3>1, <4>1, <4>2
    <3> QED BY <3>1, <3>2, <3>3
  <2> QED BY <2>1, <2>2
<1>15. ASSUME Scan(w) PROVE Orderly(w, lock)
  BY <1>2, <1>15 DEF Scan
<1> QED
  BY <1>3, <1>4, <1>5, <1>6, <1>7, <1>8, <1>9, <1>10, <1>11, <1>12, <1>13, <1>14, <1>15, <1>16
  DEF Progress

\* The order at both locks gives exclusion at each of them.
LEMMA StepInside ==
  ASSUME CacheInv, InsideHolds, [Next]_vars
  PROVE  InsideHolds'
<1>1. ASSUME NEW w \in Process, Request(w) \/ Progress(w) \/ Fail(w) PROVE InsideHolds'
  <2> SUFFICES ASSUME NEW lock \in Locks, NEW v \in Process, At(v, Inside(lock))'
               PROVE  Holder(lock)' = v
    BY DEF InsideHolds, Locks
  <2>1. Orderly(w, lock)
    BY <1>1, StepOrderly
  <2>2. CASE v = w
    BY <2>1, <2>2 DEF Orderly, Enters, InsideHolds
  <2>3. CASE v # w
    <3>1. At(v, Inside(lock))
      BY <2>1, <2>3 DEF Orderly, At, Inside
    <3> QED BY <2>1, <2>3, <3>1 DEF Orderly, InsideHolds
  <2> QED BY <2>2, <2>3
<1>2. ASSUME NEW d \in Digest, Damage(d) PROVE InsideHolds'
  BY <1>2 DEF Damage, InsideHolds, Holder, At, Inside, locks, Locks
<1>3. CASE UNCHANGED vars
  BY <1>3 DEF vars, InsideHolds, Holder, At, Inside, locks, Locks
<1> QED BY <1>1, <1>2, <1>3 DEF Next

LEMMA LocksInvariance == Spec => [](CacheInv /\ InsideHolds)
<1>1. Init => InsideHolds
  BY DEF Init, InsideHolds, At, Inside, Idle
<1>2. CacheInv /\ InsideHolds /\ [Next]_vars => InsideHolds'
  BY StepInside
<1> QED BY <1>1, <1>2, Invariance, PTL DEF Spec

Seen(lock) == CacheLock(lock)!Next \/ UNCHANGED [w \in Process |-> Place(w, lock)]

\* An orderly step is one that the contract of the lock knows.
LEMMA OrderlySeen ==
  ASSUME CacheInv, InsideHolds, NEW w \in Process, NEW lock \in Locks, Orderly(w, lock)
  PROVE  Seen(lock)
<1> DEFINE new == Place(w, lock)'
<1>1. \A v \in Process \ {w} : Place(v, lock)' = Place(v, lock)
  BY DEF Orderly, Place, At, Asking, Inside
<1>2. [v \in Process |-> Place(v, lock)]' = [[v \in Process |-> Place(v, lock)] EXCEPT ![w] = new]
  BY <1>1
<1>3. new \in {"out", "waiting", "in"} /\ Place(w, lock) \in {"out", "waiting", "in"}
  BY DEF Place
<1>4. CASE new = Place(w, lock)
  BY <1>1, <1>4 DEF Seen
<1>5. CASE new = "in" /\ Place(w, lock) # "in"
  <2>1. At(w, Inside(lock))' /\ ~At(w, Inside(lock))
    BY <1>5 DEF Place, At, Asking, Inside, Locks
  <2>2. At(w, Asking(lock)) /\ Holder(lock) = Nobody
    BY <2>1 DEF Orderly, Enters
  <2>3. \A v \in Process : Place(v, lock) # "in"
    BY <2>2, CacheAssumption DEF InsideHolds, Place, CacheAssumption
  <2>4. CacheLock(lock)!Grant(w)
    BY <1>2, <1>5, <2>2, <2>3
    DEF CacheLock!Grant, CacheLock!Move, CacheLock!Alone, Place
  <2> QED BY <2>4 DEF Seen, CacheLock!Next
<1>6. CASE new = "waiting" /\ Place(w, lock) = "out"
  <2>1. CacheLock(lock)!Request(w)
    BY <1>2, <1>6 DEF CacheLock!Request, CacheLock!Move
  <2> QED BY <2>1 DEF Seen, CacheLock!Next
<1>7. ~(new = "waiting" /\ Place(w, lock) = "in")
  BY DEF Orderly, Place
<1>8. CASE new = "out" /\ Place(w, lock) = "in"
  <2>1. CacheLock(lock)!Release(w)
    BY <1>2, <1>8 DEF CacheLock!Release, CacheLock!Move
  <2> QED BY <2>1 DEF Seen, CacheLock!Next
<1>9. CASE new = "out" /\ Place(w, lock) = "waiting"
  <2>1. CacheLock(lock)!Refuse(w)
    BY <1>2, <1>9 DEF CacheLock!Refuse, CacheLock!Move
  <2> QED BY <2>1 DEF Seen, CacheLock!Next
<1> QED BY <1>3, <1>4, <1>5, <1>6, <1>7, <1>8, <1>9

\* maintenance.lock and global.index.lock are used as exclusive locks that never
\* lapse and whose users may be sent away at any time: this is all that the theorems
\* above take from EntryLock.
THEOREM CacheLocksSuffice ==
  ASSUME NEW lock \in {"index", "maintenance"} PROVE Spec => CacheLock(lock)!Spec
<1>1. Init => CacheLock(lock)!Init
  BY DEF Init, CacheLock!Init, Place, At, Idle, Asking, Inside
<1>2. CacheInv /\ InsideHolds /\ [Next]_vars => [CacheLock(lock)!Next]_(CacheLock(lock)!vars)
  <2> SUFFICES ASSUME CacheInv, InsideHolds, [Next]_vars PROVE Seen(lock)
    BY DEF Seen, CacheLock!vars
  <2>1. ASSUME NEW w \in Process, Request(w) \/ Progress(w) \/ Fail(w) PROVE Seen(lock)
    BY <2>1, StepOrderly, OrderlySeen DEF Locks
  <2>2. ASSUME NEW d \in Digest, Damage(d) PROVE Seen(lock)
    BY <2>2 DEF Damage, Seen, Place, At
  <2>3. CASE UNCHANGED vars
    BY <2>3 DEF vars, Seen, Place, At
  <2> QED BY <2>1, <2>2, <2>3 DEF Next
<1> QED BY <1>1, <1>2, LocksInvariance, PTL DEF Spec, CacheLock!Spec

\* A put and the end of a rebuild, which hold a lock for one step only, exclude those
\* that hold it longer.
THEOREM BriefHolders == Spec => BriefHoldersAlone
<1>1. CacheInv /\ InsideHolds /\ [Next]_vars
      => [\A w, v \in Process : /\ Put(w) => Place(v, "maintenance") # "in"
                                /\ WriteRebuilt(w) => Place(v, "index") # "in"]_vars
  BY CacheAssumption
  DEF CacheAssumption, InsideHolds, Locks, Holder, Place, Put, WriteRebuilt
<1> QED BY <1>1, LocksInvariance, PTL DEF Spec, BriefHoldersAlone

=============================================================================
