-------------------------- MODULE PackageOps_proofs --------------------------
(* What package operations guarantee for any number of processes, projects, *)
(* configurations and sources. Everything follows from PackageInv.          *)
EXTENDS PackageOps, TLAPS

Editing == {"resolve", "commit", "replace", "recheck", "undo", "restore"}

Filling == {"materialize", "exists", "mkdir", "metadata", "merge", "update"}

Applying == {"check", "graph", "read", "compare"} \cup Filling

\* Where a request of each kind can stand, and what it has read by then.
Shape(r) ==
  /\ r.pc \in Editing => r.kind = "edit"
  /\ r.pc \in Applying => r.kind # "edit"
  /\ r.pc \in Filling => r.kind \in WritesEnvironment
  /\ r.pc = "compare" => r.kind \in MustMatch \cup {"lock"}
  /\ r.pc \in {"build", "write"} => r.kind \notin MustMatch
  /\ r.pc \in {"recheck", "write"} \cup (Filling \ {"materialize"}) => r.tree \in Tree
  /\ r.pc = "update" => r.current \in Metadata

Working == {r \in Job : Shape(r)}

-----------------------------------------------------------------------------
(* What a process can rely on.                                              *)

\* It holds the lock of its project, alone, and no other lock.
Owner(w) ==
  \A p \in Project : holder[p] = w <=> Holds(w) /\ job[w].project = p

\* When it has lost its view of the project, the project is marked.
Marked(w) == Holds(w) /\ w \notin fresh => job[w].project \in disturbed

\* The lockfile is still the one it read.
LockAsRead(w) ==
  /\ At(w, "compare") => job[w].current = lockFile[job[w].project]
  /\ job[w].pc \in {"build", "write"} /\ job[w].kind = "lock"
       => lockFile[job[w].project] = NoLock

\* A request that applies, undisturbed: the configuration is that of the
\* request, and from the resolution on also that of the graph; once it fills
\* the environment, the lockfile is accurate.
FreshApply(w) ==
  LET p == job[w].project
  IN w \in fresh =>
       /\ job[w].pc \in (Applying \cup {"build", "write"}) \ {"check"} /\ job[w].kind # "edit"
            => config[p] = job[w].doc
       /\ job[w].pc \in (Applying \cup {"build", "write"}) \ {"check", "graph"}
             /\ job[w].kind # "edit"
            => job[w].graph = job[w].doc
       /\ job[w].pc \in {"recheck", "write"} \cup (Filling \ {"materialize"})
            => job[w].tree = TreeOf(p)
       /\ job[w].pc \in Filling => lockFile[p] = LockFor(p)

\* The lockfile of the configuration that an edit replaces.
OldLock(w) ==
  [fp |-> job[w].doc, graph |-> job[w].doc,
   tree |-> <<job[w].doc, source[job[w].project]>>]

\* An edit, undisturbed: once it is committed, the configuration is the new
\* one and the lockfile is that of the old one, which a rollback restores.
FreshEdit(w) ==
  LET p == job[w].project
  IN w \in fresh =>
       /\ At(w, "replace") => config[p] = job[w].doc
       /\ Committed(w) => config[p] = job[w].graph
       /\ Committed(w) /\ p \notin disturbed /\ lockFile[p] # NoLock
            => lockFile[p] = OldLock(w)

\* The metadata it is about to write name its own tree.
Aim(w) ==
  At(w, "update") =>
    /\ job[w].current.maps[job[w].project] = job[w].tree
    /\ job[w].current.by = Own(w)

\* The part of one process in EditReplacesComparedText ...
Text(w) ==
  w \notin raced =>
    /\ At(w, "replace") => config[job[w].project] = job[w].doc
    /\ At(w, "restore") => config[job[w].project] = job[w].graph

\* ... and in ExtrasKeptUnlessRaced.
Extras(w) ==
  At(w, "update") /\ w \notin raced /\ job[w].kind \in KeepsExtra =>
    /\ env[job[w].env] \notin {Absent, Bare}
    /\ \A q \in Project \ {job[w].project} :
         job[w].current.maps[q] = env[job[w].env].maps[q]

\* A directory that waits for its metadata is still there.
Creator(w) == At(w, "metadata") => env[job[w].env] = Bare

Reliance(w) ==
  /\ Owner(w) /\ Marked(w) /\ LockAsRead(w) /\ FreshApply(w) /\ FreshEdit(w)
  /\ Aim(w) /\ Text(w) /\ Extras(w) /\ Creator(w)

\* An environment has one creator.
OneCreator ==
  \A v, w \in Process :
    At(v, "metadata") /\ At(w, "metadata") /\ job[v].env = job[w].env => v = w

PackageInv ==
  /\ TypeOK /\ job \in [Process -> Working \cup {Idle}]
  /\ LockFollowsConfig /\ BareOnlyIfAbandoned /\ OneCreator
  /\ \A w \in Process : Reliance(w)

-----------------------------------------------------------------------------
LEMMA InitKeeps == ASSUME Init PROVE PackageInv
<1> USE PackageAssumption
<1>1. \A p \in Project : LockFor(p) \in Lock
  BY DEF Init, LockFor, TreeOf, Tree, Lock
<1>2. TypeOK /\ job \in [Process -> Working \cup {Idle}]
  BY <1>1 DEF Init, TypeOK
<1>3. \A w \in Process : job[w].pc = "idle"
  BY DEF Init, Idle
<1>4. LockFollowsConfig /\ BareOnlyIfAbandoned /\ OneCreator
  BY <1>3 DEF Init, LockFollowsConfig, BareOnlyIfAbandoned, OneCreator, At
<1>5. ASSUME NEW w \in Process PROVE Reliance(w)
  <2>1. Owner(w)
    BY <1>3 DEF Init, Owner, Holds
  <2>2. Marked(w) /\ LockAsRead(w) /\ FreshApply(w) /\ FreshEdit(w) /\ Aim(w) /\ Text(w)
        /\ Extras(w) /\ Creator(w)
    BY <1>3 DEF Marked, LockAsRead, FreshApply, FreshEdit, Aim, Text, Extras,
                Creator, Holds, At, Committed, Applying, Filling
  <2> QED BY <2>1, <2>2 DEF Reliance
<1> QED BY <1>2, <1>4, <1>5 DEF PackageInv

LEMMA WorkingJob ==
  ASSUME PackageInv, NEW w \in Process, job[w].pc # "idle"
  PROVE  job[w] \in Working /\ job[w] \in Job /\ Shape(job[w])
  BY DEF PackageInv, Working, Idle

\* Those whose part in the invariant reads the environment, after this step.
Watches(v) ==
  At(v, "metadata") \/ (At(v, "update") /\ v \notin raced' /\ job[v].kind \in KeepsExtra)

\* A step of process w keeps what the others rely on, when it changes files
\* only of projects no other process holds, and no environment that another
\* is creating, or is about to replace and will not learn about.
Steps(w) ==
  /\ job' \in [Process -> Working \cup {Idle}]
  /\ \A v \in Process \ {w} : /\ job'[v] = job[v]
                              /\ v \in fresh' <=> v \in fresh
                              /\ v \notin raced' => v \notin raced
  /\ \A v \in Process \ {w}, p \in Project : holder'[p] = v <=> holder[p] = v
  /\ \A v \in Process \ {w}, p \in Project : holder[p] = v =>
       /\ config'[p] = config[p] /\ source'[p] = source[p] /\ lockFile'[p] = lockFile[p]
       /\ p \in disturbed' <=> p \in disturbed
  /\ \A v \in Process \ {w} : Watches(v) => env'[job[v].env] = env[job[v].env]

LEMMA OthersKeep ==
  ASSUME PackageInv, NEW w \in Process, Steps(w), NEW v \in Process \ {w}
  PROVE  Reliance(v)'
<1>0. job'[v] = job[v] /\ Reliance(v)
  BY DEF Steps, PackageInv
<1>1. CASE job[v].pc = "idle"
  <2>1. Owner(v)'
    BY <1>0, <1>1 DEF Reliance, Owner, Holds, Steps
  <2>2. (Marked(v) /\ LockAsRead(v) /\ FreshApply(v) /\ FreshEdit(v) /\ Aim(v) /\ Text(v)
         /\ Extras(v) /\ Creator(v))'
    BY <1>0, <1>1 DEF Marked, LockAsRead, FreshApply, FreshEdit, Aim, Text,
                      Extras, Creator, Holds, At, Committed, Applying, Filling
  <2> QED BY <2>1, <2>2 DEF Reliance
<1>2. CASE job[v].pc # "idle"
  <2>1. job[v] \in Job /\ job[v].project \in Project /\ job[v].env \in Environment
    BY <1>2, WorkingJob DEF Job
  <2>2. PICK p \in Project : p = job[v].project
    BY <2>1
  <2>3. v \in fresh' <=> v \in fresh
    BY DEF Steps
  <2>4. Holds(v) => /\ holder[p] = v
                    /\ config'[p] = config[p] /\ source'[p] = source[p]
                    /\ lockFile'[p] = lockFile[p]
                    /\ p \in disturbed' <=> p \in disturbed
    BY <1>0, <2>2 DEF Reliance, Owner, Steps
  <2>5. Holds(v)' <=> Holds(v)
    BY <1>0 DEF Holds
  <2>6. Owner(v)' /\ Marked(v)'
    <3>1. Owner(v)'
      BY <1>0, <2>5 DEF Reliance, Owner, Steps
    <3>2. Marked(v)'
      BY <1>0, <2>2, <2>3, <2>4, <2>5 DEF Reliance, Marked
    <3> QED BY <3>1, <3>2
  <2>7. LockAsRead(v)'
    BY <1>0, <2>2, <2>4 DEF Reliance, LockAsRead, At, Holds
  <2>8. FreshApply(v)'
    BY <1>0, <2>2, <2>3, <2>4
    DEF Reliance, FreshApply, Holds, Applying, Filling, LockFor, TreeOf
  <2>9. FreshEdit(v)'
    BY <1>0, <2>2, <2>3, <2>4 DEF Reliance, FreshEdit, Holds, At, Committed, OldLock
  <2>10. Aim(v)'
    BY <1>0 DEF Reliance, Aim, At, Own
  <2>11. Text(v)'
    BY <1>0, <2>2, <2>4 DEF Reliance, Text, At, Holds, Steps
  <2>12. Watches(v) => env'[job[v].env] = env[job[v].env]
    BY DEF Steps
  <2>13. Creator(v)'
    BY <1>0, <2>12 DEF Reliance, Creator, At, Watches
  <2>14. v \notin raced' => v \notin raced
    BY DEF Steps
  <2>15. Extras(v)'
    BY <1>0, <2>12, <2>14 DEF Reliance, Extras, At, Watches
  <2> QED BY <2>6, <2>7, <2>8, <2>9, <2>10, <2>11, <2>13, <2>15 DEF Reliance
<1> QED BY <1>1, <1>2

LEMMA StepKeeps ==
  ASSUME PackageInv, NEW w \in Process, Steps(w), TypeOK', LockFollowsConfig',
         BareOnlyIfAbandoned', OneCreator', Reliance(w)'
  PROVE  PackageInv'
<1>1. job' \in [Process -> Working \cup {Idle}]
  BY DEF Steps
<1>2. \A v \in Process : Reliance(v)'
  BY OthersKeep
<1> QED BY <1>1, <1>2 DEF PackageInv

\* A process that is idle or waits for the lock relies on nothing.
LEMMA NothingRelied ==
  ASSUME NEW w \in Process, job'[w].pc \in {"idle", "lock"},
         \A p \in Project : holder'[p] # w
  PROVE  Reliance(w)'
  BY DEF Reliance, Owner, Marked, LockAsRead, FreshApply, FreshEdit, Aim, Text, Extras,
         Creator, Holds, At, Committed, Applying, Filling

-----------------------------------------------------------------------------
(* How LockFollowsConfig and BareOnlyIfAbandoned survive a step.             *)

\* The files and the marks stay, and every edit that stands between its two
\* files still does, or its project is marked.
LEMMA QuietLock ==
  ASSUME PackageInv, UNCHANGED <<config, source, lockFile>>, disturbed \subseteq disturbed',
         \A v \in Process : Committed(v) =>
           \/ Committed(v)' /\ job'[v].project = job[v].project
           \/ job[v].project \in disturbed'
  PROVE  LockFollowsConfig'
<1> SUFFICES ASSUME NEW p \in Project, lockFile'[p] # NoLock, p \notin disturbed',
                    \A v \in Process : Committed(v)' => job'[v].project # p
             PROVE  lockFile'[p] = LockFor(p)'
  BY DEF LockFollowsConfig
<1>1. \A v \in Process : Committed(v) => job[v].project # p
  OBVIOUS
<1>2. lockFile[p] = LockFor(p)
  BY <1>1 DEF PackageInv, LockFollowsConfig
<1> QED BY <1>2 DEF LockFor, TreeOf

\* The files and marks of the other projects stay.
LEMMA OwnLock ==
  ASSUME PackageInv, NEW w \in Process, NEW p \in Project, job[w].project = p, Holds(w),
         \A v \in Process \ {w} : job'[v] = job[v],
         \A q \in Project \ {p} : /\ config'[q] = config[q] /\ source'[q] = source[q]
                                  /\ lockFile'[q] = lockFile[q]
                                  /\ q \in disturbed => q \in disturbed',
         lockFile'[p] # NoLock /\ p \notin disturbed' /\ ~(Committed(w)' /\ job'[w].project = p)
           => lockFile'[p] = LockFor(p)'
  PROVE  LockFollowsConfig'
<1> SUFFICES ASSUME NEW q \in Project, lockFile'[q] # NoLock, q \notin disturbed',
                    \A v \in Process : Committed(v)' => job'[v].project # q
             PROVE  lockFile'[q] = LockFor(q)'
  BY DEF LockFollowsConfig
<1>1. CASE q = p
  BY <1>1
<1>2. CASE q # p
  <2>1. \A v \in Process : Committed(v) => job[v].project # q
    BY <1>2 DEF Committed
  <2>2. lockFile[q] = LockFor(q)
    BY <1>2, <2>1 DEF PackageInv, LockFollowsConfig
  <2> QED BY <1>2, <2>2 DEF LockFor, TreeOf
<1> QED BY <1>1, <1>2

\* No directory loses its metadata, and the creators stay.
LEMMA QuietBare ==
  ASSUME PackageInv, abandoned \subseteq abandoned',
         \A e \in Environment : env'[e] = Bare => env[e] = Bare,
         \A v \in Process : At(v, "metadata") =>
           \/ At(v, "metadata")' /\ job'[v].env = job[v].env
           \/ job[v].env \in abandoned'
           \/ env'[job[v].env] # Bare
  PROVE  BareOnlyIfAbandoned'
<1> SUFFICES ASSUME NEW e \in Environment, env'[e] = Bare
             PROVE  (e \in abandoned \/ \E w \in Process : At(w, "metadata") /\ job[w].env = e)'
  BY DEF BareOnlyIfAbandoned
<1>1. env[e] = Bare
  OBVIOUS
<1> QED BY <1>1 DEF PackageInv, BareOnlyIfAbandoned

\* No process becomes a creator.
LEMMA QuietCreators ==
  ASSUME PackageInv,
         \A v \in Process : At(v, "metadata")' => At(v, "metadata") /\ job'[v].env = job[v].env
  PROVE  OneCreator'
  BY DEF PackageInv, OneCreator

-----------------------------------------------------------------------------
(* Steps that change the job of a process and no file.                      *)

LEMMA MoveFacts ==
  ASSUME PackageInv, NEW w \in Process, NEW r \in Working, job' = [job EXCEPT ![w] = r]
  PROVE  /\ job' \in [Process -> Working \cup {Idle}] /\ job' \in [Process -> Job \cup {Idle}]
         /\ job'[w] = r
         /\ \A v \in Process \ {w} : job'[v] = job[v]
  BY DEF PackageInv, Working

LEMMA MoveKeeps ==
  ASSUME PackageInv, NEW w \in Process, NEW r \in Working, job' = [job EXCEPT ![w] = r],
         Holds(w), ~At(w, "metadata"), r.pc \notin {"idle", "lock", "metadata"},
         r.project = job[w].project,
         KeepJob, UNCHANGED <<config, source, lockFile, env, disturbed>>,
         raced' \in {raced, raced \ {w}},
         Committed(w) => Committed(w)',
         (LockAsRead(w) /\ FreshApply(w) /\ FreshEdit(w) /\ Aim(w) /\ Text(w) /\ Extras(w))'
  PROVE  PackageInv'
<1>1. /\ UNCHANGED <<holder, requests, changes, fresh, abandoned>> /\ job'[w] = r
      /\ \A v \in Process \ {w} : job'[v] = job[v]
  BY MoveFacts DEF KeepJob
<1>2. Steps(w)
  BY <1>1, MoveFacts DEF Steps
<1>3. TypeOK'
  BY <1>1, MoveFacts DEF PackageInv, TypeOK
<1>4. \A v \in Process : Committed(v) => Committed(v)' /\ job'[v].project = job[v].project
  BY <1>1 DEF Committed
<1>5. LockFollowsConfig'
  BY <1>4, QuietLock
<1>6. \A v \in Process : At(v, "metadata") <=> At(v, "metadata")'
  BY <1>1 DEF At
<1>7. \A v \in Process : At(v, "metadata") => job'[v].env = job[v].env
  BY <1>1 DEF At
<1>8. BareOnlyIfAbandoned'
  BY <1>1, <1>6, <1>7, QuietBare
<1>9. OneCreator'
  BY <1>6, <1>7, QuietCreators
<1>10. Owner(w) /\ Marked(w)
  BY DEF PackageInv, Reliance
<1>11. (Owner(w) /\ Marked(w) /\ Creator(w))'
  BY <1>1, <1>10 DEF Owner, Marked, Creator, Holds, At
<1> QED BY <1>2, <1>3, <1>5, <1>8, <1>9, <1>11, StepKeeps DEF Reliance

-----------------------------------------------------------------------------
(* Steps that end a request.                                                *)

LEMMA EndFacts ==
  ASSUME PackageInv, NEW w \in Process, End(w)
  PROVE  /\ job' \in [Process -> Working \cup {Idle}] /\ job' \in [Process -> Job \cup {Idle}]
         /\ job'[w] = Idle /\ job'[w].pc = "idle"
         /\ \A v \in Process \ {w} : job'[v] = job[v] /\ (v \in fresh' <=> v \in fresh)
         /\ \A v \in Process \ {w}, p \in Project : holder'[p] = v <=> holder[p] = v
         /\ \A p \in Project : holder'[p] # w
         /\ holder' \in [Project -> Process \cup {Nobody}] /\ fresh' \subseteq Process
         /\ UNCHANGED <<requests, changes>>
  BY PackageAssumption DEF PackageInv, TypeOK, End, Idle

LEMMA EndKeeps ==
  ASSUME PackageInv, NEW w \in Process, End(w), LockFollowsConfig',
         \A v \in Process \ {w}, p \in Project : holder[p] = v =>
           /\ config'[p] = config[p] /\ source'[p] = source[p] /\ lockFile'[p] = lockFile[p]
           /\ p \in disturbed' <=> p \in disturbed,
         config' \in [Project -> Config], source' \in [Project -> Source],
         lockFile' \in [Project -> Lock \cup {NoLock}],
         env' \in [Environment -> Metadata \cup {Absent, Bare}],
         disturbed' \subseteq Project, raced' \subseteq Process,
         abandoned' \subseteq Environment, abandoned \subseteq abandoned',
         \A v \in Process \ {w} : v \notin raced' => v \notin raced,
         \A e \in Environment : env'[e] = Bare => env[e] = Bare,
         At(w, "metadata") => job[w].env \in abandoned' \/ env'[job[w].env] # Bare,
         \A v \in Process \ {w} : Watches(v) => env'[job[v].env] = env[job[v].env]
  PROVE  PackageInv'
<1>1. Steps(w)
  BY EndFacts DEF Steps
<1>2. TypeOK'
  BY EndFacts DEF PackageInv, TypeOK
<1>3. BareOnlyIfAbandoned'
  <2>1. \A v \in Process \ {w} : At(v, "metadata") => At(v, "metadata")' /\ job'[v].env = job[v].env
    BY EndFacts DEF At
  <2> QED BY <2>1, QuietBare
<1>4. OneCreator'
  <2>1. \A v \in Process : At(v, "metadata")' => At(v, "metadata") /\ job'[v].env = job[v].env
    BY EndFacts DEF At
  <2> QED BY <2>1, QuietCreators
<1>5. Reliance(w)'
  BY EndFacts, NothingRelied
<1> QED BY <1>1, <1>2, <1>3, <1>4, <1>5, StepKeeps

-----------------------------------------------------------------------------
LEMMA CheckDocumentKeeps ==
  ASSUME PackageInv, NEW w \in Process, CheckDocument(w) PROVE PackageInv'
<1> DEFINE r == [job[w] EXCEPT !.pc = "graph"]
<1>0. /\ job[w] \in Job /\ Shape(job[w]) /\ job[w].pc = "check" /\ Holds(w)
      /\ config[job[w].project] = job[w].doc
  BY WorkingJob DEF CheckDocument, At, Holds
<1>1. /\ r \in Working /\ r.pc = "graph" /\ r.kind = job[w].kind /\ r.kind # "edit"
      /\ r.project = job[w].project /\ r.doc = job[w].doc
  BY <1>0 DEF Working, Job, Step, Shape, Editing, Applying, Filling
<1>2. /\ job' = [job EXCEPT ![w] = r] /\ KeepJob
      /\ UNCHANGED <<config, source, lockFile, env, disturbed, raced>>
  BY DEF CheckDocument, Goto, files, PackageInv, TypeOK
<1> HIDE DEF r
<1>3. job'[w] = r
  BY <1>1, <1>2, MoveFacts
<1>4. (LockAsRead(w) /\ FreshEdit(w) /\ Aim(w) /\ Text(w) /\ Extras(w))'
  BY <1>1, <1>3 DEF LockAsRead, FreshEdit, Aim, Text, Extras, At, Committed
<1>5. FreshApply(w)'
  BY <1>0, <1>1, <1>2, <1>3 DEF FreshApply, Applying, Filling
<1> QED BY <1>0, <1>1, <1>2, <1>4, <1>5, MoveKeeps DEF At, Committed

LEMMA ResolveGraphKeeps ==
  ASSUME PackageInv, NEW w \in Process, ResolveGraph(w) PROVE PackageInv'
<1> DEFINE r == [job[w] EXCEPT !.pc = "read", !.graph = config[job[w].project]]
<1>0. /\ job[w] \in Job /\ Shape(job[w]) /\ job[w].pc = "graph" /\ Holds(w)
      /\ config[job[w].project] \in Config /\ job[w].kind # "edit"
  BY WorkingJob DEF ResolveGraph, At, Holds, PackageInv, TypeOK, Job, Shape, Applying
<1>1. /\ r \in Working /\ r.pc = "read" /\ r.kind = job[w].kind /\ r.kind # "edit"
      /\ r.project = job[w].project /\ r.doc = job[w].doc
      /\ r.graph = config[job[w].project]
  BY <1>0 DEF Working, Job, Step, Shape, Editing, Applying, Filling
<1>2. /\ job' = [job EXCEPT ![w] = r] /\ KeepJob
      /\ UNCHANGED <<config, source, lockFile, env, disturbed, raced>>
  BY DEF ResolveGraph, files, PackageInv, TypeOK
<1>3. w \in fresh => config[job[w].project] = job[w].doc
  BY <1>0 DEF PackageInv, Reliance, FreshApply, Applying
<1> HIDE DEF r
<1>4. job'[w] = r /\ fresh' = fresh
  BY <1>1, <1>2, MoveFacts DEF KeepJob
<1>5. (LockAsRead(w) /\ FreshEdit(w) /\ Aim(w) /\ Text(w) /\ Extras(w))'
  BY <1>1, <1>4 DEF LockAsRead, FreshEdit, Aim, Text, Extras, At, Committed
<1>6. FreshApply(w)'
  BY <1>1, <1>2, <1>3, <1>4 DEF FreshApply, Applying, Filling
<1> QED BY <1>0, <1>1, <1>2, <1>5, <1>6, MoveKeeps DEF At, Committed

LEMMA ReadLockKeeps ==
  ASSUME PackageInv, NEW w \in Process, ReadLock(w) PROVE PackageInv'
<1> DEFINE found == lockFile[job[w].project]
           step == IF \/ job[w].kind \in MustMatch
                      \/ job[w].kind = "lock" /\ found # NoLock
                   THEN "compare" ELSE "build"
           r == [job[w] EXCEPT !.current = found, !.pc = step]
<1>0. /\ job[w] \in Job /\ Shape(job[w]) /\ job[w].pc = "read" /\ Holds(w)
      /\ found \in Lock \cup {NoLock} /\ job[w].kind # "edit"
  BY WorkingJob DEF ReadLock, At, Holds, PackageInv, TypeOK, Job, Shape, Applying
<1>1. /\ r \in Working /\ r.pc \in {"compare", "build"}
      /\ r.kind = job[w].kind /\ r.kind # "edit"
      /\ r.project = job[w].project /\ r.doc = job[w].doc
      /\ r.graph = job[w].graph /\ r.current = found
      /\ r.pc = "build" /\ r.kind = "lock" => found = NoLock
  <2>1. /\ step \in {"compare", "build"} /\ step \in Step
        /\ step = "compare" => job[w].kind \in MustMatch \cup {"lock"}
        /\ step = "build" => job[w].kind \notin MustMatch
        /\ step = "build" /\ job[w].kind = "lock" => found = NoLock
    BY DEF Step, MustMatch
  <2> HIDE DEF found, step
  <2>2. /\ r \in Job /\ r.pc = step /\ r.kind = job[w].kind /\ r.project = job[w].project
        /\ r.doc = job[w].doc /\ r.graph = job[w].graph /\ r.current = found
    BY <1>0, <2>1 DEF Job
  <2>3. Shape(r)
    BY <1>0, <2>1, <2>2 DEF Shape, Editing, Applying, Filling
  <2> QED BY <1>0, <2>1, <2>2, <2>3 DEF Working
<1>2. /\ job' = [job EXCEPT ![w] = r] /\ KeepJob
      /\ UNCHANGED <<config, source, lockFile, env, disturbed, raced>>
  BY DEF ReadLock, files, PackageInv, TypeOK
<1>3. w \in fresh => config[job[w].project] = job[w].doc /\ job[w].graph = job[w].doc
  BY <1>0 DEF PackageInv, Reliance, FreshApply, Applying
<1>4. found = lockFile'[job[w].project]
  BY <1>2
<1> HIDE DEF r, found, step
<1>5. job'[w] = r /\ fresh' = fresh
  BY <1>1, <1>2, MoveFacts DEF KeepJob
<1>6. (FreshEdit(w) /\ Aim(w) /\ Text(w) /\ Extras(w))'
  BY <1>1, <1>5 DEF FreshEdit, Aim, Text, Extras, At, Committed
<1>7. LockAsRead(w)'
  BY <1>1, <1>4, <1>5 DEF LockAsRead, At
<1>8. FreshApply(w)'
  BY <1>1, <1>2, <1>3, <1>5 DEF FreshApply, Applying, Filling
<1> QED BY <1>0, <1>1, <1>2, <1>6, <1>7, <1>8, MoveKeeps DEF At, Committed

LEMMA BuildLockKeeps ==
  ASSUME PackageInv, NEW w \in Process, BuildLock(w) PROVE PackageInv'
<1> DEFINE p == job[w].project
           r == [job[w] EXCEPT !.tree = TreeOf(p),
                   !.pc = IF job[w].kind = "edit" THEN "recheck" ELSE "write"]
<1>0. /\ job[w] \in Job /\ Shape(job[w]) /\ job[w].pc = "build" /\ Holds(w)
      /\ TreeOf(p) \in Tree
  BY WorkingJob DEF BuildLock, At, Holds, PackageInv, TypeOK, Job, TreeOf, Tree
<1>1. /\ r \in Working /\ r.pc \in {"recheck", "write"}
      /\ r.pc = "recheck" <=> r.kind = "edit"
      /\ r.kind = job[w].kind /\ r.project = p /\ r.doc = job[w].doc
      /\ r.graph = job[w].graph /\ r.tree = TreeOf(p)
  <2> DEFINE step == IF job[w].kind = "edit" THEN "recheck" ELSE "write"
  <2>1. /\ step \in {"recheck", "write"} /\ step \in Step
        /\ step = "recheck" <=> job[w].kind = "edit"
    BY DEF Step
  <2>2. r = [job[w] EXCEPT !.tree = TreeOf(p), !.pc = step]
    OBVIOUS
  <2> HIDE DEF step, r
  <2>3. /\ r \in Job /\ r.pc = step /\ r.kind = job[w].kind /\ r.project = p
        /\ r.doc = job[w].doc /\ r.graph = job[w].graph /\ r.tree = TreeOf(p)
    BY <1>0, <2>1, <2>2 DEF Job
  <2>4. Shape(r)
    BY <1>0, <2>1, <2>3 DEF Shape, Editing, Applying, Filling
  <2> QED BY <2>1, <2>3, <2>4 DEF Working
<1>2. /\ job' = [job EXCEPT ![w] = r] /\ KeepJob
      /\ UNCHANGED <<config, source, lockFile, env, disturbed, raced>>
  BY DEF BuildLock, files, PackageInv, TypeOK
<1>3. PICK q \in Project : q = p
  BY <1>0 DEF Job
<1>4. /\ LockAsRead(w) /\ FreshApply(w) /\ FreshEdit(w)
      /\ TreeOf(q)' = TreeOf(q)
  BY <1>2 DEF PackageInv, Reliance, TreeOf
<1> HIDE DEF r
<1>5. job'[w] = r /\ fresh' = fresh
  BY <1>1, <1>2, MoveFacts DEF KeepJob
<1>6. (Aim(w) /\ Text(w) /\ Extras(w))'
  BY <1>1, <1>5 DEF Aim, Text, Extras, At
<1>7. LockAsRead(w)'
  BY <1>0, <1>1, <1>2, <1>4, <1>5 DEF LockAsRead, At
<1>8. FreshApply(w)'
  BY <1>0, <1>1, <1>2, <1>3, <1>4, <1>5 DEF FreshApply, Applying, Filling
<1>9. FreshEdit(w)'
  BY <1>0, <1>1, <1>2, <1>3, <1>4, <1>5 DEF FreshEdit, Committed, At, OldLock
<1> QED BY <1>0, <1>1, <1>2, <1>5, <1>6, <1>7, <1>8, <1>9, MoveKeeps DEF At, Committed

LEMMA MaterializeKeeps ==
  ASSUME PackageInv, NEW w \in Process, Materialize(w) PROVE PackageInv'
<1> DEFINE p == job[w].project
           r == [job[w] EXCEPT !.tree = TreeOf(p), !.pc = "exists"]
<1>0. /\ job[w] \in Job /\ Shape(job[w]) /\ job[w].pc = "materialize" /\ Holds(w)
      /\ TreeOf(p) \in Tree
  BY WorkingJob DEF Materialize, At, Holds, PackageInv, TypeOK, Job, TreeOf, Tree
<1>1. /\ r \in Working /\ r.pc = "exists"
      /\ r.kind = job[w].kind /\ r.project = p /\ r.doc = job[w].doc
      /\ r.graph = job[w].graph /\ r.tree = TreeOf(p) /\ r.kind # "edit"
  BY <1>0 DEF Working, Job, Step, Shape, Editing, Applying, Filling
<1>2. /\ job' = [job EXCEPT ![w] = r] /\ KeepJob
      /\ UNCHANGED <<config, source, lockFile, env, disturbed, raced>>
  BY DEF Materialize, files, PackageInv, TypeOK
<1>3. PICK q \in Project : q = p
  BY <1>0 DEF Job
<1>4. FreshApply(w) /\ TreeOf(q)' = TreeOf(q) /\ LockFor(q)' = LockFor(q)
  BY <1>2 DEF PackageInv, Reliance, TreeOf, LockFor
<1> HIDE DEF r
<1>5. job'[w] = r /\ fresh' = fresh
  BY <1>1, <1>2, MoveFacts DEF KeepJob
<1>6. (LockAsRead(w) /\ FreshEdit(w) /\ Aim(w) /\ Text(w) /\ Extras(w))'
  BY <1>1, <1>5 DEF LockAsRead, FreshEdit, Committed, Aim, Text, Extras, At
<1>7. FreshApply(w)'
  BY <1>0, <1>1, <1>2, <1>3, <1>4, <1>5 DEF FreshApply, Applying, Filling
<1> QED BY <1>0, <1>1, <1>2, <1>6, <1>7, MoveKeeps DEF At, Committed

LEMMA FindEnvironmentKeeps ==
  ASSUME PackageInv, NEW w \in Process, FindEnvironment(w) PROVE PackageInv'
<1> DEFINE p == job[w].project
           r == [job[w] EXCEPT !.pc = IF env[job[w].env] = Absent THEN "mkdir" ELSE "merge"]
<1>0. /\ job[w] \in Job /\ Shape(job[w]) /\ job[w].pc = "exists" /\ Holds(w)
  BY WorkingJob DEF FindEnvironment, At, Holds
<1>1. /\ r \in Working /\ r.pc \in {"mkdir", "merge"}
      /\ r.kind = job[w].kind /\ r.project = p /\ r.doc = job[w].doc
      /\ r.graph = job[w].graph /\ r.tree = job[w].tree /\ r.kind # "edit"
  BY <1>0 DEF Working, Job, Step, Shape, Editing, Applying, Filling
<1>2. /\ job' = [job EXCEPT ![w] = r] /\ KeepJob
      /\ UNCHANGED <<config, source, lockFile, env, disturbed, raced>>
  BY DEF FindEnvironment, Goto, files, PackageInv, TypeOK
<1>3. PICK q \in Project : q = p
  BY <1>0 DEF Job
<1>4. FreshApply(w) /\ TreeOf(q)' = TreeOf(q) /\ LockFor(q)' = LockFor(q)
  BY <1>2 DEF PackageInv, Reliance, TreeOf, LockFor
<1> HIDE DEF r
<1>5. job'[w] = r /\ fresh' = fresh
  BY <1>1, <1>2, MoveFacts DEF KeepJob
<1>6. (LockAsRead(w) /\ FreshEdit(w) /\ Aim(w) /\ Text(w) /\ Extras(w))'
  BY <1>1, <1>5 DEF LockAsRead, FreshEdit, Committed, Aim, Text, Extras, At
<1>7. FreshApply(w)'
  BY <1>0, <1>1, <1>2, <1>3, <1>4, <1>5 DEF FreshApply, Applying, Filling
<1> QED BY <1>0, <1>1, <1>2, <1>6, <1>7, MoveKeeps DEF At, Committed

LEMMA ResolveEditKeeps ==
  ASSUME PackageInv, NEW w \in Process, NEW next \in Config, ResolveEdit(w, next)
  PROVE  PackageInv'
<1> DEFINE r == [job[w] EXCEPT !.pc = "commit", !.graph = next]
<1>0. /\ job[w] \in Job /\ Shape(job[w]) /\ job[w].pc = "resolve" /\ Holds(w)
  BY WorkingJob DEF ResolveEdit, At, Holds
<1>1. /\ r \in Working /\ r.pc = "commit" /\ r.kind = job[w].kind
      /\ r.project = job[w].project
  BY <1>0 DEF Working, Job, Step, Shape, Editing, Applying, Filling
<1>2. /\ job' = [job EXCEPT ![w] = r] /\ KeepJob
      /\ UNCHANGED <<config, source, lockFile, env, disturbed, raced>>
  BY DEF ResolveEdit, files, PackageInv, TypeOK
<1> HIDE DEF r
<1>3. job'[w] = r
  BY <1>1, <1>2, MoveFacts
<1>4. (LockAsRead(w) /\ FreshApply(w) /\ FreshEdit(w) /\ Aim(w) /\ Text(w) /\ Extras(w))'
  BY <1>1, <1>3
  DEF LockAsRead, FreshApply, FreshEdit, Aim, Text, Extras, At, Committed, Applying, Filling
<1> QED BY <1>0, <1>1, <1>2, <1>4, MoveKeeps DEF At, Committed

LEMMA CompareConfigKeeps ==
  ASSUME PackageInv, NEW w \in Process, CompareConfig(w) PROVE PackageInv'
<1> DEFINE p == job[w].project
<1>0. /\ job[w] \in Job /\ Shape(job[w]) /\ job[w].pc \in {"commit", "undo"} /\ Holds(w)
      /\ job[w].kind = "edit" /\ KeepJob /\ raced' = raced \ {w}
      /\ UNCHANGED <<config, source, lockFile, env, disturbed>>
      /\ fresh' = fresh /\ raced \subseteq Process
  BY WorkingJob
  DEF CompareConfig, At, Holds, Shape, Editing, files, KeepJob, PackageInv, TypeOK
<1>1. PICK q \in Project : q = p
  BY <1>0 DEF Job
<1>2. FreshEdit(w)
  BY DEF PackageInv, Reliance
<1>3. CASE At(w, "commit") /\ config[p] = job[w].doc /\ Goto(w, "replace")
  <2> DEFINE r == [job[w] EXCEPT !.pc = "replace"]
  <2>1. /\ r \in Working /\ r.pc = "replace" /\ r.kind = job[w].kind
        /\ r.project = p /\ r.doc = job[w].doc
    BY <1>0 DEF Working, Job, Step, Shape, Editing, Applying, Filling
  <2>2. job' = [job EXCEPT ![w] = r]
    BY <1>3 DEF Goto, PackageInv, TypeOK
  <2> HIDE DEF r
  <2>3. job'[w] = r
    BY <2>1, <2>2, MoveFacts
  <2>4. (LockAsRead(w) /\ FreshApply(w) /\ Aim(w) /\ Extras(w))'
    BY <2>1, <2>3 DEF LockAsRead, FreshApply, Aim, Extras, At, Applying, Filling
  <2>5. (FreshEdit(w) /\ Text(w))'
    BY <1>0, <1>3, <2>1, <2>3 DEF FreshEdit, Text, At, Committed
  <2> QED BY <1>0, <1>3, <2>1, <2>2, <2>4, <2>5, MoveKeeps DEF At, Committed
<1>4. CASE At(w, "undo") /\ config[p] = job[w].graph /\ Goto(w, "restore")
  <2> DEFINE r == [job[w] EXCEPT !.pc = "restore"]
  <2>1. /\ r \in Working /\ r.pc = "restore" /\ r.kind = job[w].kind
        /\ r.project = p /\ r.doc = job[w].doc /\ r.graph = job[w].graph
    BY <1>0 DEF Working, Job, Step, Shape, Editing, Applying, Filling
  <2>2. job' = [job EXCEPT ![w] = r]
    BY <1>4 DEF Goto, PackageInv, TypeOK
  <2> HIDE DEF r
  <2>3. job'[w] = r
    BY <2>1, <2>2, MoveFacts
  <2>4. (LockAsRead(w) /\ FreshApply(w) /\ Aim(w) /\ Extras(w))'
    BY <2>1, <2>3 DEF LockAsRead, FreshApply, Aim, Extras, At, Applying, Filling
  <2>5. Text(w)'
    BY <1>0, <1>4, <2>1, <2>3 DEF Text, At
  <2>6. FreshEdit(w)'
    BY <1>0, <1>1, <1>2, <1>4, <2>1, <2>3 DEF FreshEdit, At, Committed, OldLock
  <2>7. Committed(w)'
    BY <1>0, <2>1, <2>3 DEF Committed
  <2> QED BY <1>0, <1>4, <2>1, <2>2, <2>4, <2>5, <2>6, <2>7, MoveKeeps DEF At
<1> QED BY <1>3, <1>4 DEF CompareConfig

LEMMA RecheckConfigKeeps ==
  ASSUME PackageInv, NEW w \in Process, RecheckConfig(w) PROVE PackageInv'
<1> DEFINE p == job[w].project
           r == [job[w] EXCEPT !.pc = "write"]
<1>0. /\ job[w] \in Job /\ Shape(job[w]) /\ job[w].pc = "recheck" /\ Holds(w)
      /\ job[w].kind = "edit"
  BY WorkingJob DEF RecheckConfig, At, Holds, Shape, Editing
<1>1. /\ r \in Working /\ r.pc = "write" /\ r.kind = "edit" /\ r.project = p
      /\ r.doc = job[w].doc /\ r.graph = job[w].graph /\ r.tree = job[w].tree
  BY <1>0 DEF Working, Job, Step, Shape, Editing, Applying, Filling, MustMatch
<1>2. /\ job' = [job EXCEPT ![w] = r] /\ KeepJob
      /\ UNCHANGED <<config, source, lockFile, env, disturbed, raced>>
  BY DEF RecheckConfig, Goto, files, PackageInv, TypeOK
<1>3. PICK q \in Project : q = p
  BY <1>0 DEF Job
<1>4. FreshApply(w) /\ FreshEdit(w) /\ TreeOf(q)' = TreeOf(q)
  BY <1>2 DEF PackageInv, Reliance, TreeOf
<1> HIDE DEF r
<1>5. job'[w] = r /\ fresh' = fresh
  BY <1>1, <1>2, MoveFacts DEF KeepJob
<1>6. (LockAsRead(w) /\ Aim(w) /\ Text(w) /\ Extras(w))'
  BY <1>1, <1>5 DEF LockAsRead, Aim, Text, Extras, At
<1>7. FreshApply(w)'
  BY <1>0, <1>1, <1>2, <1>3, <1>4, <1>5 DEF FreshApply, Applying, Filling
<1>8. FreshEdit(w)'
  BY <1>0, <1>1, <1>2, <1>3, <1>4, <1>5 DEF FreshEdit, Committed, At, OldLock
<1>9. Committed(w)'
  BY <1>1, <1>5 DEF Committed
<1> QED BY <1>0, <1>1, <1>2, <1>6, <1>7, <1>8, <1>9, MoveKeeps DEF At

\* The edit begins to roll back.
LEMMA RollbackKeeps ==
  ASSUME PackageInv, NEW w \in Process, Committed(w),
         job[w].pc \in {"build", "recheck", "write"}, Goto(w, "undo"), KeepJob,
         UNCHANGED <<config, source, lockFile, env, disturbed, raced>>
  PROVE  PackageInv'
<1> DEFINE p == job[w].project
           r == [job[w] EXCEPT !.pc = "undo"]
<1>0. job[w] \in Job /\ Shape(job[w]) /\ Holds(w) /\ job[w].kind = "edit"
  BY WorkingJob DEF Committed, Holds
<1>1. /\ r \in Working /\ r.pc = "undo" /\ r.kind = "edit" /\ r.project = p
      /\ r.doc = job[w].doc /\ r.graph = job[w].graph
  BY <1>0 DEF Working, Job, Step, Shape, Editing, Applying, Filling
<1>2. job' = [job EXCEPT ![w] = r]
  BY DEF Goto, PackageInv, TypeOK
<1>3. FreshEdit(w)
  BY DEF PackageInv, Reliance
<1> HIDE DEF r
<1>4. job'[w] = r /\ fresh' = fresh
  BY <1>1, <1>2, MoveFacts DEF KeepJob
<1>5. (LockAsRead(w) /\ FreshApply(w) /\ Aim(w) /\ Text(w) /\ Extras(w))'
  BY <1>1, <1>4 DEF LockAsRead, FreshApply, Aim, Text, Extras, At, Applying, Filling
<1>6. FreshEdit(w)'
  BY <1>1, <1>3, <1>4 DEF FreshEdit, Committed, At, OldLock
<1>7. Committed(w)'
  BY <1>1, <1>4 DEF Committed
<1> QED BY <1>0, <1>1, <1>2, <1>5, <1>6, <1>7, MoveKeeps DEF At

-----------------------------------------------------------------------------
(* Errors, deaths and the ends of requests that change no package file.     *)

\* A request ends and its project's files stay as they are; an edit that
\* stood between its two files is marked.
LEMMA QuietEndKeeps ==
  ASSUME PackageInv, NEW w \in Process, End(w), UNCHANGED <<config, source, lockFile>>,
         disturbed' = disturbed \/ (Holds(w) /\ disturbed' = disturbed \cup {job[w].project}),
         Committed(w) => job[w].project \in disturbed',
         env' \in [Environment -> Metadata \cup {Absent, Bare}],
         raced' \subseteq Process,
         abandoned' \subseteq Environment, abandoned \subseteq abandoned',
         \A v \in Process \ {w} : v \notin raced' => v \notin raced,
         \A e \in Environment : env'[e] = Bare => env[e] = Bare,
         At(w, "metadata") => job[w].env \in abandoned' \/ env'[job[w].env] # Bare,
         \A v \in Process \ {w} : Watches(v) => env'[job[v].env] = env[job[v].env]
  PROVE  PackageInv'
<1>1. Holds(w) => job[w].project \in Project /\ holder[job[w].project] = w
  BY WorkingJob DEF Holds, Job, PackageInv, Reliance, Owner
<1>2. disturbed' \subseteq Project /\ disturbed \subseteq disturbed'
  BY <1>1 DEF PackageInv, TypeOK
<1>3. \A v \in Process \ {w}, p \in Project : holder[p] = v =>
        (p \in disturbed' <=> p \in disturbed)
  BY <1>1
<1>4. \A v \in Process : Committed(v) =>
        \/ Committed(v)' /\ job'[v].project = job[v].project
        \/ job[v].project \in disturbed'
  BY EndFacts DEF Committed
<1>5. LockFollowsConfig'
  BY <1>2, <1>4, QuietLock
<1> QED BY <1>2, <1>3, <1>5, EndKeeps DEF PackageInv, TypeOK

LEMMA FailKeeps ==
  ASSUME PackageInv, NEW w \in Process, Fail(w) PROVE PackageInv'
<1>0. job[w].pc # "idle" => job[w] \in Job /\ job[w].env \in Environment
  BY WorkingJob DEF Job
<1>1. CASE /\ job[w].pc \notin {"idle", "metadata"} /\ ~Committed(w)
           /\ End(w) /\ UNCHANGED <<files, disturbed, abandoned, raced>>
  BY <1>1, QuietEndKeeps DEF At, files, PackageInv, TypeOK
<1>2. CASE /\ At(w, "metadata")
           /\ env' = [env EXCEPT ![job[w].env] = Absent] /\ abandoned' = abandoned
           /\ End(w) /\ UNCHANGED <<config, source, lockFile, disturbed, raced>>
  <2>1. job[w].env \in Environment /\ env[job[w].env] = Bare /\ ~Committed(w)
    BY <1>0, <1>2 DEF At, PackageInv, Reliance, Creator, Committed
  <2>2. /\ env' \in [Environment -> Metadata \cup {Absent, Bare}]
        /\ \A e \in Environment \ {job[w].env} : env'[e] = env[e]
        /\ env'[job[w].env] = Absent
    BY <1>2, <2>1 DEF PackageInv, TypeOK
  <2>3. Absent # Bare
    BY PackageAssumption
  <2>4. ASSUME NEW v \in Process \ {w}, Watches(v)
        PROVE  env'[job[v].env] = env[job[v].env]
    <3>1. job[v].env \in Environment
      BY <2>4, WorkingJob DEF Watches, At, Job
    <3>2. CASE At(v, "metadata")
      BY <1>2, <2>2, <3>1, <3>2 DEF PackageInv, OneCreator
    <3>3. CASE At(v, "update") /\ v \notin raced /\ job[v].kind \in KeepsExtra
      BY <2>1, <2>2, <3>1, <3>3 DEF PackageInv, Reliance, Extras
    <3> QED BY <1>2, <2>4, <3>2, <3>3 DEF Watches
  <2> QED BY <1>2, <2>1, <2>2, <2>3, <2>4, QuietEndKeeps DEF PackageInv, TypeOK
<1>3. CASE /\ Committed(w) /\ job[w].pc \in {"build", "recheck", "write"}
           /\ Goto(w, "undo") /\ KeepJob /\ UNCHANGED <<files, disturbed, raced>>
  BY <1>3, RollbackKeeps DEF files
<1>4. CASE /\ Committed(w) /\ job[w].pc \in {"undo", "restore"}
           /\ disturbed' = disturbed \cup {job[w].project}
           /\ End(w) /\ UNCHANGED <<files, abandoned, raced>>
  BY <1>4, QuietEndKeeps DEF At, Holds, files, PackageInv, TypeOK
<1>5. CASE /\ At(w, "metadata")
           /\ env' = env /\ abandoned' = abandoned \cup {job[w].env}
           /\ End(w) /\ UNCHANGED <<config, source, lockFile, disturbed, raced>>
  <2>1. ~Committed(w)
    BY <1>5 DEF At, Committed
  <2>2. abandoned' \subseteq Environment /\ abandoned \subseteq abandoned'
    BY <1>0, <1>5 DEF At, PackageInv, TypeOK
  <2> QED BY <1>5, <2>1, <2>2, QuietEndKeeps DEF PackageInv, TypeOK
<1> QED BY <1>1, <1>2, <1>3, <1>4, <1>5 DEF Fail

LEMMA CrashKeeps ==
  ASSUME PackageInv, NEW w \in Process, Crash(w) PROVE PackageInv'
<1>0. job[w] \in Job /\ job[w].env \in Environment /\ job[w].project \in Project
  BY WorkingJob DEF Crash, Holds, Job
<1>1. disturbed' = disturbed \/ (Holds(w) /\ disturbed' = disturbed \cup {job[w].project})
  BY DEF Crash
<1>2. /\ End(w) /\ UNCHANGED <<config, source, lockFile, env, raced>>
      /\ Committed(w) => job[w].project \in disturbed'
      /\ abandoned' \subseteq Environment /\ abandoned \subseteq abandoned'
      /\ At(w, "metadata") => job[w].env \in abandoned'
  BY <1>0 DEF Crash, files, PackageInv, TypeOK
<1> QED BY <1>1, <1>2, QuietEndKeeps DEF PackageInv, TypeOK

-----------------------------------------------------------------------------
(* The steps that take the lock, write a file or lose one.                  *)

LEMMA RequestKeeps ==
  ASSUME PackageInv, NEW w \in Process, NEW p \in Project, NEW k \in Requestable,
         NEW e \in Environment, Request(w, p, k, e)
  PROVE  PackageInv'
<1> DEFINE r == [pc |-> "lock", kind |-> k, project |-> p, env |-> e,
                 doc |-> config[p], graph |-> config[p], tree |-> NoTree,
                 current |-> NoLock]
<1>1. r \in Working /\ r.pc = "lock"
  BY PackageAssumption
  DEF PackageInv, TypeOK, Working, Job, Step, Shape, Editing, Applying, Filling
<1>2. /\ job' = [job EXCEPT ![w] = r] /\ requests' = requests + 1 /\ requests < MaxRequests
      /\ UNCHANGED <<config, source, lockFile, env, holder, changes, fresh, disturbed,
                     abandoned, raced>>
      /\ job[w].pc = "idle"
  BY DEF Request, files, history, At
<1> HIDE DEF r
<1>3. /\ job'[w] = r
      /\ \A v \in Process \ {w} : job'[v] = job[v]
  BY <1>1, <1>2, MoveFacts
<1>4. Steps(w)
  BY <1>1, <1>2, MoveFacts DEF Steps
<1>5. TypeOK'
  <2>1. requests \in 0 .. MaxRequests /\ MaxRequests \in Nat
    BY PackageAssumption DEF PackageInv, TypeOK
  <2>2. requests' \in 0 .. MaxRequests
    BY <1>2, <2>1
  <2> QED BY <1>1, <1>2, <2>2, MoveFacts DEF PackageInv, TypeOK
<1>6. \A v \in Process : Committed(v) => Committed(v)' /\ job'[v].project = job[v].project
  BY <1>2, <1>3 DEF Committed
<1>7. \A v \in Process : /\ At(v, "metadata") <=> At(v, "metadata")'
                         /\ At(v, "metadata") => job'[v].env = job[v].env
  BY <1>1, <1>2, <1>3 DEF At
<1>8. LockFollowsConfig' /\ BareOnlyIfAbandoned' /\ OneCreator'
  BY <1>2, <1>6, <1>7, QuietLock, QuietBare, QuietCreators
<1>9. \A q \in Project : holder'[q] # w
  BY <1>2 DEF PackageInv, Reliance, Owner, Holds
<1> QED BY <1>1, <1>3, <1>4, <1>5, <1>8, <1>9, NothingRelied, StepKeeps

LEMMA AcquireKeeps ==
  ASSUME PackageInv, NEW w \in Process, AcquireOperationLock(w) PROVE PackageInv'
<1> DEFINE p == job[w].project
           step == IF job[w].kind = "edit" THEN "resolve" ELSE "check"
           r == [job[w] EXCEPT !.pc = step]
<1>0. /\ job[w] \in Job /\ job[w].pc = "lock" /\ p \in Project
      /\ holder[p] = Nobody /\ holder' = [holder EXCEPT ![p] = w]
      /\ fresh' = fresh \cup {w}
      /\ UNCHANGED <<config, source, lockFile, env, requests, changes, disturbed,
                     abandoned, raced>>
  BY WorkingJob DEF AcquireOperationLock, At, Job, files
<1>1. /\ r \in Working /\ r.pc = step /\ step \in {"resolve", "check"} /\ r.project = p
  <2>1. /\ step \in {"resolve", "check"} /\ step \in Step
        /\ step = "resolve" <=> job[w].kind = "edit"
    BY DEF Step
  <2> HIDE DEF step
  <2>2. r \in Job /\ r.pc = step /\ r.kind = job[w].kind /\ r.project = p
    BY <1>0, <2>1 DEF Job
  <2> QED BY <2>1, <2>2 DEF Working, Shape, Editing, Applying, Filling
<1>2. job' = [job EXCEPT ![w] = r]
  BY DEF AcquireOperationLock, Goto, PackageInv, TypeOK
<1> HIDE DEF r, step
<1>3. /\ job'[w] = r
      /\ \A v \in Process \ {w} : job'[v] = job[v]
  BY <1>1, <1>2, MoveFacts
<1>4. \A v \in Process \ {w}, q \in Project : holder'[q] = v <=> holder[q] = v
  BY <1>0, PackageAssumption DEF PackageInv, TypeOK
<1>5. Steps(w)
  BY <1>0, <1>1, <1>2, <1>4, MoveFacts DEF Steps
<1>6. TypeOK'
  BY <1>0, <1>1, <1>2, MoveFacts DEF PackageInv, TypeOK
<1>7. \A v \in Process : Committed(v) => Committed(v)' /\ job'[v].project = job[v].project
  BY <1>0, <1>3 DEF Committed
<1>8. \A v \in Process : /\ At(v, "metadata") <=> At(v, "metadata")'
                         /\ At(v, "metadata") => job'[v].env = job[v].env
  BY <1>0, <1>1, <1>3 DEF At
<1>9. LockFollowsConfig' /\ BareOnlyIfAbandoned' /\ OneCreator'
  BY <1>0, <1>7, <1>8, QuietLock, QuietBare, QuietCreators
<1>10. (LockAsRead(w) /\ FreshApply(w) /\ FreshEdit(w) /\ Aim(w) /\ Text(w) /\ Extras(w)
        /\ Creator(w))'
  BY <1>1, <1>3
  DEF LockAsRead, FreshApply, FreshEdit, Aim, Text, Extras, Creator, At, Committed,
      Applying, Filling
<1>11. \A q \in Project : holder'[q] = w <=> q = p
  BY <1>0 DEF PackageInv, TypeOK, Reliance, Owner, Holds
<1>12. (Owner(w) /\ Marked(w))'
  BY <1>0, <1>1, <1>3, <1>11 DEF Owner, Marked, Holds
<1> QED BY <1>5, <1>6, <1>9, <1>10, <1>12, StepKeeps DEF Reliance

\* Only the holder changes the files and the mark of a project.
LEMMA HeldByOne ==
  ASSUME PackageInv, NEW w \in Process, Holds(w)
  PROVE  /\ job[w] \in Job /\ Shape(job[w])
         /\ job[w].project \in Project /\ job[w].env \in Environment
         /\ holder[job[w].project] = w
         /\ \A v \in Process \ {w} : Holds(v) => job[v].project # job[w].project
         /\ w \notin fresh => job[w].project \in disturbed
  BY WorkingJob DEF Holds, Job, PackageInv, Reliance, Owner, Marked

LEMMA CompareLockKeeps ==
  ASSUME PackageInv, NEW w \in Process, CompareLock(w) PROVE PackageInv'
<1>0. job[w].pc = "compare" /\ Holds(w)
  BY DEF CompareLock, At, Holds
<1>1. PICK p \in Project : p = job[w].project
  BY <1>0, HeldByOne
<1>2. /\ job[w] \in Job /\ Shape(job[w]) /\ holder[p] = w
      /\ w \notin fresh => p \in disturbed
      /\ job[w].kind # "edit"
  BY <1>0, <1>1, HeldByOne DEF Shape, Applying
<1>3. /\ disturbed' = IF w \in fresh THEN disturbed \ {p} ELSE disturbed
      /\ UNCHANGED <<config, source, lockFile, env, abandoned, raced>>
  BY <1>1 DEF CompareLock, Settle, files, KeepJob
<1>4. w \in fresh => lockFile[p] = LockFor(p) /\ config[p] = job[w].doc /\ job[w].graph = job[w].doc
  <2>1. lockFile[p] = [fp |-> job[w].doc, graph |-> job[w].graph, tree |-> TreeOf(p)]
    BY <1>0, <1>1 DEF CompareLock, PackageInv, Reliance, LockAsRead, At
  <2>2. w \in fresh => config[p] = job[w].doc /\ job[w].graph = job[w].doc
    BY <1>0, <1>1, <1>2 DEF PackageInv, Reliance, FreshApply, Applying
  <2> QED BY <2>1, <2>2 DEF LockFor
<1>5. LockFor(p)' = LockFor(p)
  BY <1>3 DEF LockFor, TreeOf
<1>6. ASSUME \A v \in Process \ {w} : job'[v] = job[v] PROVE LockFollowsConfig'
  BY <1>0, <1>1, <1>2, <1>3, <1>4, <1>5, <1>6, OwnLock
<1>7. disturbed' \subseteq Project
  BY <1>3 DEF PackageInv, TypeOK
<1>8. \A v \in Process \ {w}, q \in Project : holder[q] = v =>
        (q \in disturbed' <=> q \in disturbed)
  BY <1>2, <1>3
<1>9. CASE job[w].kind = "lock" /\ End(w) /\ UNCHANGED <<files, abandoned, raced>>
  <2>1. LockFollowsConfig'
    BY <1>6, <1>9, EndFacts
  <2> QED BY <1>0, <1>3, <1>7, <1>8, <1>9, <2>1, EndKeeps DEF At, PackageInv, TypeOK
<1>10. CASE job[w].kind \in MustMatch /\ Goto(w, "materialize") /\ KeepJob
  <2> DEFINE r == [job[w] EXCEPT !.pc = "materialize"]
  <2>1. /\ r \in Working /\ r.pc = "materialize" /\ r.kind = job[w].kind
        /\ r.project = p /\ r.doc = job[w].doc /\ r.graph = job[w].graph
    BY <1>1, <1>2, <1>10
    DEF Working, Job, Step, Shape, Editing, Applying, Filling, MustMatch, WritesEnvironment
  <2>2. job' = [job EXCEPT ![w] = r]
    BY <1>10 DEF Goto, PackageInv, TypeOK
  <2> HIDE DEF r
  <2>3. /\ job'[w] = r /\ UNCHANGED <<holder, requests, changes, fresh>>
        /\ \A v \in Process \ {w} : job'[v] = job[v]
    BY <1>10, <2>1, <2>2, MoveFacts DEF KeepJob
  <2>4. Steps(w)
    BY <1>3, <1>8, <2>1, <2>2, <2>3, MoveFacts DEF Steps
  <2>5. TypeOK'
    BY <1>3, <1>7, <2>1, <2>2, <2>3, MoveFacts DEF PackageInv, TypeOK
  <2>6. LockFollowsConfig'
    BY <1>6, <2>3
  <2>7. \A v \in Process : /\ At(v, "metadata") <=> At(v, "metadata")'
                           /\ At(v, "metadata") => job'[v].env = job[v].env
    BY <1>0, <2>1, <2>3 DEF At
  <2>8. BareOnlyIfAbandoned' /\ OneCreator'
    BY <1>3, <2>7, QuietBare, QuietCreators
  <2>9. (LockAsRead(w) /\ FreshEdit(w) /\ Aim(w) /\ Text(w) /\ Extras(w) /\ Creator(w))'
    BY <2>1, <2>3 DEF LockAsRead, FreshEdit, Aim, Text, Extras, Creator, At, Committed
  <2>10. (Owner(w) /\ Marked(w))'
    BY <1>0, <1>1, <1>2, <1>3, <2>1, <2>3 DEF PackageInv, Reliance, Owner, Marked, Holds
  <2>11. FreshApply(w)'
    BY <1>2, <1>3, <1>4, <1>5, <2>1, <2>3 DEF FreshApply, Applying, Filling
  <2> QED BY <2>4, <2>5, <2>6, <2>8, <2>9, <2>10, <2>11, StepKeeps DEF Reliance
<1> QED BY <1>1, <1>9, <1>10 DEF CompareLock

LEMMA WriteLockKeeps ==
  ASSUME PackageInv, NEW w \in Process, WriteLock(w) PROVE PackageInv'
<1>0. job[w].pc = "write" /\ Holds(w)
  BY DEF WriteLock, At, Holds
<1>1. PICK p \in Project : p = job[w].project
  BY <1>0, HeldByOne
<1> DEFINE new == [fp    |-> IF job[w].kind = "edit" THEN job[w].graph ELSE job[w].doc,
                   graph |-> job[w].graph, tree |-> job[w].tree]
<1>2. /\ job[w] \in Job /\ Shape(job[w]) /\ holder[p] = w
      /\ w \notin fresh => p \in disturbed
      /\ job[w].tree \in Tree
  BY <1>0, <1>1, HeldByOne DEF Shape
<1>3. /\ disturbed' = IF w \in fresh THEN disturbed \ {p} ELSE disturbed
      /\ lockFile' = [lockFile EXCEPT ![p] = new]
      /\ UNCHANGED <<config, source, env, abandoned, raced>>
  BY <1>1 DEF WriteLock, Settle, KeepJob
<1>4. new \in Lock
  BY <1>2 DEF Lock, Job
<1>5. w \in fresh => new = LockFor(p) /\ (job[w].kind # "edit" =>
                       config[p] = job[w].doc /\ job[w].graph = job[w].doc)
  <2>1. w \in fresh => job[w].tree = TreeOf(p)
    BY <1>0, <1>1 DEF PackageInv, Reliance, FreshApply
  <2>2. w \in fresh /\ job[w].kind # "edit" => config[p] = job[w].doc /\ job[w].graph = job[w].doc
    BY <1>0, <1>1 DEF PackageInv, Reliance, FreshApply
  <2>3. w \in fresh /\ job[w].kind = "edit" => config[p] = job[w].graph
    BY <1>0, <1>1 DEF PackageInv, Reliance, FreshEdit, Committed
  <2> QED BY <2>1, <2>2, <2>3 DEF LockFor
<1>6. LockFor(p)' = LockFor(p)
  BY <1>3 DEF LockFor, TreeOf
<1>7. /\ lockFile' \in [Project -> Lock \cup {NoLock}] /\ lockFile'[p] = new
      /\ \A q \in Project \ {p} : lockFile'[q] = lockFile[q]
      /\ disturbed' \subseteq Project
  BY <1>3, <1>4 DEF PackageInv, TypeOK
<1> HIDE DEF new
<1>8. ASSUME \A v \in Process \ {w} : job'[v] = job[v] PROVE LockFollowsConfig'
  BY <1>0, <1>1, <1>2, <1>3, <1>5, <1>6, <1>7, <1>8, OwnLock
<1>9. \A v \in Process \ {w}, q \in Project : holder[q] = v =>
        lockFile'[q] = lockFile[q] /\ (q \in disturbed' <=> q \in disturbed)
  BY <1>2, <1>3, <1>7
<1>10. CASE End(w)
  <2>1. LockFollowsConfig'
    BY <1>8, <1>10, EndFacts
  <2> QED BY <1>0, <1>3, <1>7, <1>9, <1>10, <2>1, EndKeeps DEF At, PackageInv, TypeOK
<1>11. CASE job[w].kind \in WritesEnvironment /\ Goto(w, "materialize") /\ KeepJob
  <2> DEFINE r == [job[w] EXCEPT !.pc = "materialize"]
  <2>1. /\ r \in Working /\ r.pc = "materialize" /\ r.kind = job[w].kind /\ r.kind # "edit"
        /\ r.project = p /\ r.doc = job[w].doc /\ r.graph = job[w].graph
    BY <1>1, <1>2, <1>11
    DEF Working, Job, Step, Shape, Editing, Applying, Filling, WritesEnvironment
  <2>2. job' = [job EXCEPT ![w] = r]
    BY <1>11 DEF Goto, PackageInv, TypeOK
  <2> HIDE DEF r
  <2>3. /\ job'[w] = r /\ UNCHANGED <<holder, requests, changes, fresh>>
        /\ \A v \in Process \ {w} : job'[v] = job[v]
    BY <1>11, <2>1, <2>2, MoveFacts DEF KeepJob
  <2>4. Steps(w)
    BY <1>3, <1>9, <2>1, <2>2, <2>3, MoveFacts DEF Steps
  <2>5. TypeOK'
    BY <1>3, <1>7, <2>1, <2>2, <2>3, MoveFacts DEF PackageInv, TypeOK
  <2>6. LockFollowsConfig'
    BY <1>8, <2>3
  <2>7. \A v \in Process : /\ At(v, "metadata") <=> At(v, "metadata")'
                           /\ At(v, "metadata") => job'[v].env = job[v].env
    BY <1>0, <2>1, <2>3 DEF At
  <2>8. BareOnlyIfAbandoned' /\ OneCreator'
    BY <1>3, <2>7, QuietBare, QuietCreators
  <2>9. (LockAsRead(w) /\ FreshEdit(w) /\ Aim(w) /\ Text(w) /\ Extras(w) /\ Creator(w))'
    BY <2>1, <2>3 DEF LockAsRead, FreshEdit, Aim, Text, Extras, Creator, At, Committed
  <2>10. (Owner(w) /\ Marked(w))'
    BY <1>0, <1>1, <1>2, <1>3, <2>1, <2>3 DEF PackageInv, Reliance, Owner, Marked, Holds
  <2>11. FreshApply(w)'
    BY <1>3, <1>5, <1>6, <1>7, <2>1, <2>3 DEF FreshApply, Applying, Filling
  <2> QED BY <2>4, <2>5, <2>6, <2>8, <2>9, <2>10, <2>11, StepKeeps DEF Reliance
<1> QED BY <1>10, <1>11 DEF WriteLock

LEMMA CreateDirectoryKeeps ==
  ASSUME PackageInv, NEW w \in Process, CreateDirectory(w) PROVE PackageInv'
<1>0. job[w].pc = "mkdir" /\ Holds(w)
  BY DEF CreateDirectory, At, Holds
<1>1. PICK p \in Project, e \in Environment : p = job[w].project /\ e = job[w].env
  BY <1>0, HeldByOne
<1> DEFINE r == [job[w] EXCEPT !.pc = "metadata"]
<1>2. /\ job[w] \in Job /\ Shape(job[w]) /\ env[e] = Absent
      /\ env' = [env EXCEPT ![e] = Bare] /\ KeepJob
      /\ UNCHANGED <<config, source, lockFile, disturbed, raced>>
  BY <1>0, <1>1, HeldByOne DEF CreateDirectory
<1>3. /\ r \in Working /\ r.pc = "metadata" /\ r.kind = job[w].kind /\ r.kind # "edit"
      /\ r.project = p /\ r.env = e /\ r.doc = job[w].doc /\ r.graph = job[w].graph
      /\ r.tree = job[w].tree
  BY <1>0, <1>1, <1>2 DEF Working, Job, Step, Shape, Editing, Applying, Filling
<1>4. job' = [job EXCEPT ![w] = r]
  BY DEF CreateDirectory, Goto, PackageInv, TypeOK
<1> HIDE DEF r
<1>5. /\ job'[w] = r /\ UNCHANGED <<holder, requests, changes, fresh, abandoned>>
      /\ \A v \in Process \ {w} : job'[v] = job[v]
  BY <1>2, <1>3, <1>4, MoveFacts DEF KeepJob
<1>6. /\ env' \in [Environment -> Metadata \cup {Absent, Bare}] /\ env'[e] = Bare
      /\ \A x \in Environment \ {e} : env'[x] = env[x]
  BY <1>2 DEF PackageInv, TypeOK
<1>7. ASSUME NEW v \in Process \ {w}, Watches(v) PROVE job[v].env \in Environment \ {e}
  <2>1. job[v].env \in Environment
    BY <1>7, WorkingJob DEF Watches, At, Job
  <2>2. CASE At(v, "metadata")
    BY <1>2, <2>1, <2>2, PackageAssumption DEF PackageInv, Reliance, Creator
  <2>3. CASE At(v, "update") /\ v \notin raced /\ job[v].kind \in KeepsExtra
    BY <1>2, <2>1, <2>3 DEF PackageInv, Reliance, Extras
  <2> QED BY <1>2, <1>7, <2>2, <2>3 DEF Watches
<1>8. Steps(w)
  BY <1>2, <1>3, <1>4, <1>5, <1>6, <1>7, MoveFacts DEF Steps
<1>9. TypeOK'
  BY <1>2, <1>3, <1>4, <1>5, <1>6, MoveFacts DEF PackageInv, TypeOK
<1>10. LockFollowsConfig'
  <2>1. \A v \in Process : Committed(v) => Committed(v)' /\ job'[v].project = job[v].project
    BY <1>0, <1>5 DEF Committed
  <2> QED BY <1>2, <2>1, QuietLock
<1>11. \A v \in Process \ {w} : At(v, "metadata") => job[v].env \in Environment \ {e}
  BY <1>7 DEF Watches
<1>12. BareOnlyIfAbandoned'
  <2> SUFFICES ASSUME NEW x \in Environment, env'[x] = Bare
               PROVE  (x \in abandoned \/ \E v \in Process : At(v, "metadata") /\ job[v].env = x)'
    BY DEF BareOnlyIfAbandoned
  <2>1. CASE x = e
    BY <1>3, <1>5, <2>1 DEF At
  <2>2. CASE x # e
    <3>1. env[x] = Bare /\ ~At(w, "metadata")
      BY <1>0, <1>6, <2>2 DEF At
    <3>2. \/ x \in abandoned
          \/ \E v \in Process \ {w} : At(v, "metadata") /\ job[v].env = x
      BY <3>1 DEF PackageInv, BareOnlyIfAbandoned
    <3> QED BY <1>5, <3>2 DEF At
  <2> QED BY <2>1, <2>2
<1>13. OneCreator'
  <2>1. \A v \in Process \ {w} :
          At(v, "metadata")' => At(v, "metadata") /\ job'[v].env = job[v].env /\ job[v].env # e
    BY <1>5, <1>11 DEF At
  <2>2. job'[w].env = e
    BY <1>3, <1>5
  <2>3. OneCreator
    BY DEF PackageInv
  <2> QED BY <2>1, <2>2, <2>3 DEF OneCreator
<1>14. Owner(w) /\ Marked(w) /\ FreshApply(w)
  BY DEF PackageInv, Reliance
<1>15. (Owner(w) /\ Marked(w))'
  BY <1>0, <1>1, <1>2, <1>3, <1>5, <1>14 DEF Owner, Marked, Holds
<1>16. (LockAsRead(w) /\ FreshEdit(w) /\ Aim(w) /\ Text(w) /\ Extras(w))'
  BY <1>3, <1>5 DEF LockAsRead, FreshEdit, Aim, Text, Extras, At, Committed
<1>17. Creator(w)'
  BY <1>3, <1>5, <1>6 DEF Creator
<1>18. FreshApply(w)'
  <2>1. TreeOf(p)' = TreeOf(p) /\ LockFor(p)' = LockFor(p)
    BY <1>2 DEF TreeOf, LockFor
  <2> QED BY <1>0, <1>1, <1>2, <1>3, <1>5, <1>14, <2>1 DEF FreshApply, Applying, Filling
<1> QED BY <1>8, <1>9, <1>10, <1>12, <1>13, <1>15, <1>16, <1>17, <1>18, StepKeeps DEF Reliance

\* What a request puts into an environment is metadata.
LEMMA OwnMetadata ==
  ASSUME PackageInv, NEW w \in Process, job[w].pc \in {"metadata", "merge"},
         NEW maps \in [Project -> Tree \cup {NoTree}]
  PROVE  [by |-> Own(w), maps |-> maps] \in Metadata
<1>1. job[w].project \in Project /\ job[w].doc \in Config
  BY WorkingJob DEF Job
<1> QED BY <1>1 DEF Metadata, Own

LEMMA CreateMetadataKeeps ==
  ASSUME PackageInv, NEW w \in Process, CreateMetadata(w) PROVE PackageInv'
<1>0. job[w].pc = "metadata" /\ Holds(w)
  BY DEF CreateMetadata, At, Holds
<1>1. PICK e \in Environment : e = job[w].env
  BY <1>0, HeldByOne
<1> DEFINE new == [by |-> Own(w), maps |-> Alone(w)]
<1>2. new \in Metadata /\ new # Bare
  <2>1. Shape(job[w])
    BY <1>0, HeldByOne
  <2>2. Alone(w) \in [Project -> Tree \cup {NoTree}]
    BY <1>0, <2>1 DEF Alone, Shape, Filling
  <2> QED BY <1>0, <2>2, OwnMetadata, PackageAssumption
<1> HIDE DEF new
<1>3. /\ env' = [env EXCEPT ![e] = new] /\ End(w)
      /\ UNCHANGED <<config, source, lockFile, disturbed, abandoned, raced>>
  BY <1>1 DEF CreateMetadata, new
<1>4. /\ env' \in [Environment -> Metadata \cup {Absent, Bare}] /\ env'[e] = new
      /\ \A x \in Environment \ {e} : env'[x] = env[x]
  BY <1>2, <1>3 DEF PackageInv, TypeOK
<1>5. ASSUME NEW v \in Process \ {w}, Watches(v) PROVE job[v].env \in Environment \ {e}
  <2>1. job[v].env \in Environment
    BY <1>5, WorkingJob DEF Watches, At, Job
  <2>2. env[e] = Bare
    BY <1>0, <1>1 DEF PackageInv, Reliance, Creator, At
  <2>3. CASE At(v, "metadata")
    BY <1>0, <1>1, <2>1, <2>3 DEF PackageInv, OneCreator, At
  <2>4. CASE At(v, "update") /\ v \notin raced /\ job[v].kind \in KeepsExtra
    BY <2>1, <2>2, <2>4 DEF PackageInv, Reliance, Extras
  <2> QED BY <1>3, <1>5, <2>3, <2>4 DEF Watches
<1>6. ~Committed(w)
  BY <1>0 DEF Committed
<1> QED BY <1>1, <1>2, <1>3, <1>4, <1>5, <1>6, QuietEndKeeps DEF PackageInv, TypeOK

LEMMA ReadMetadataKeeps ==
  ASSUME PackageInv, NEW w \in Process, ReadMetadata(w) PROVE PackageInv'
<1>0. job[w].pc = "merge" /\ Holds(w)
  BY DEF ReadMetadata, At, Holds
<1>1. PICK p \in Project, e \in Environment : p = job[w].project /\ e = job[w].env
  BY <1>0, HeldByOne
<1>2. PICK found : found = env[e]
  OBVIOUS
<1>3. PICK new : new = [by |-> Own(w), maps |-> Merged(w, found.maps)]
  OBVIOUS
<1>4. /\ job[w] \in Job /\ Shape(job[w]) /\ job[w].kind # "edit" /\ job[w].tree \in Tree
      /\ found \in Metadata /\ found \notin {Absent, Bare}
  BY <1>0, <1>1, <1>2, HeldByOne
  DEF ReadMetadata, Shape, Applying, Filling, PackageInv, TypeOK
<1>5. /\ new \in Metadata
      /\ new.maps[p] = job[w].tree /\ new.by = Own(w)
      /\ job[w].kind \in KeepsExtra => \A q \in Project \ {p} : new.maps[q] = found.maps[q]
  <2>1. found.maps \in [Project -> Tree \cup {NoTree}]
    BY <1>4 DEF Metadata
  <2>2. PICK maps : maps = Merged(w, found.maps)
    OBVIOUS
  <2>3. /\ maps \in [Project -> Tree \cup {NoTree}]
        /\ maps[p] = job[w].tree
        /\ job[w].kind \in KeepsExtra => \A q \in Project \ {p} : maps[q] = found.maps[q]
    BY <1>1, <1>4, <2>1, <2>2 DEF Merged
  <2>4. new.maps = maps /\ new.by = Own(w)
    BY <1>3, <2>2
  <2> QED BY <1>0, <1>3, <2>2, <2>3, <2>4, OwnMetadata
<1>6. CASE End(w) /\ UNCHANGED <<files, disturbed, abandoned, raced>>
  <2>1. ~Committed(w)
    BY <1>0 DEF Committed
  <2> QED BY <1>0, <1>6, <2>1, QuietEndKeeps DEF At, files, PackageInv, TypeOK
<1>7. CASE /\ job' = [job EXCEPT ![w].pc = "update", ![w].current = new]
           /\ raced' = raced \ {w}
           /\ KeepJob /\ UNCHANGED <<files, disturbed>>
  <2> DEFINE r == [job[w] EXCEPT !.pc = "update", !.current = new]
  <2>1. /\ r \in Working /\ r.pc = "update" /\ r.kind = job[w].kind /\ r.kind # "edit"
        /\ r.project = p /\ r.env = e /\ r.doc = job[w].doc /\ r.graph = job[w].graph
        /\ r.tree = job[w].tree /\ r.current = new
    BY <1>0, <1>1, <1>4, <1>5 DEF Working, Job, Step, Shape, Editing, Applying, Filling
  <2>2. /\ job' = [job EXCEPT ![w] = r]
        /\ UNCHANGED <<config, source, lockFile, env, disturbed>>
    BY <1>7 DEF files, PackageInv, TypeOK
  <2> HIDE DEF r
  <2>3. job'[w] = r /\ fresh' = fresh
    BY <1>7, <2>1, <2>2, MoveFacts DEF KeepJob
  <2>4. FreshApply(w) /\ TreeOf(p)' = TreeOf(p) /\ LockFor(p)' = LockFor(p)
    BY <2>2 DEF PackageInv, Reliance, TreeOf, LockFor
  <2>5. (LockAsRead(w) /\ FreshEdit(w) /\ Text(w))'
    BY <2>1, <2>3 DEF LockAsRead, FreshEdit, Text, At, Committed
  <2>6. FreshApply(w)'
    BY <1>0, <1>1, <2>1, <2>2, <2>3, <2>4 DEF FreshApply, Applying, Filling
  <2>7. Aim(w)'
    BY <1>1, <1>5, <2>1, <2>3 DEF Aim, Own
  <2>8. Extras(w)'
    BY <1>1, <1>2, <1>4, <1>5, <2>1, <2>2, <2>3 DEF Extras
  <2> QED BY <1>0, <1>1, <1>7, <2>1, <2>2, <2>5, <2>6, <2>7, <2>8, MoveKeeps DEF At, Committed
<1> QED BY <1>1, <1>2, <1>3, <1>6, <1>7 DEF ReadMetadata

LEMMA UpdateMetadataKeeps ==
  ASSUME PackageInv, NEW w \in Process, UpdateMetadata(w) PROVE PackageInv'
<1>0. job[w].pc = "update" /\ Holds(w)
  BY DEF UpdateMetadata, At, Holds
<1>1. PICK e \in Environment : e = job[w].env
  BY <1>0, HeldByOne
<1>2. PICK new : new = job[w].current
  OBVIOUS
<1>3. new \in Metadata /\ new # Bare
  BY <1>0, <1>2, HeldByOne, PackageAssumption DEF Shape
<1>4. /\ env[e] \notin {Absent, Bare} /\ env' = [env EXCEPT ![e] = new] /\ End(w)
      /\ raced' = raced \cup {v \in Process : At(v, "update") /\ job[v].env = e}
      /\ UNCHANGED <<config, source, lockFile, disturbed, abandoned>>
  BY <1>1, <1>2 DEF UpdateMetadata
<1>5. /\ env' \in [Environment -> Metadata \cup {Absent, Bare}] /\ env'[e] = new
      /\ \A x \in Environment \ {e} : env'[x] = env[x]
  BY <1>3, <1>4 DEF PackageInv, TypeOK
<1>6. ASSUME NEW v \in Process \ {w}, Watches(v) PROVE job[v].env \in Environment \ {e}
  <2>1. job[v].env \in Environment
    BY <1>6, WorkingJob DEF Watches, At, Job
  <2>2. CASE At(v, "metadata")
    BY <1>4, <2>1, <2>2 DEF PackageInv, Reliance, Creator
  <2>3. CASE At(v, "update") /\ v \notin raced'
    BY <1>4, <2>1, <2>3
  <2> QED BY <1>6, <2>2, <2>3 DEF Watches
<1>7. ~Committed(w) /\ ~At(w, "metadata")
  BY <1>0 DEF Committed, At
<1>8. raced' \subseteq Process /\ \A v \in Process : v \notin raced' => v \notin raced
  BY <1>4 DEF PackageInv, TypeOK
<1> QED BY <1>3, <1>4, <1>5, <1>6, <1>7, <1>8, QuietEndKeeps DEF PackageInv, TypeOK

LEMMA ReplaceConfigKeeps ==
  ASSUME PackageInv, NEW w \in Process, ReplaceConfig(w) PROVE PackageInv'
<1>0. job[w].pc = "replace" /\ Holds(w)
  BY DEF ReplaceConfig, At, Holds
<1>1. PICK p \in Project : p = job[w].project
  BY <1>0, HeldByOne
<1> DEFINE r == [job[w] EXCEPT !.pc = "build"]
<1>2. /\ job[w] \in Job /\ Shape(job[w]) /\ job[w].kind = "edit" /\ holder[p] = w
      /\ \A v \in Process \ {w} : Holds(v) => job[v].project # p
      /\ w \notin fresh => p \in disturbed
      /\ job[w].graph \in Config
  BY <1>0, <1>1, HeldByOne DEF Shape, Editing, Job
<1>3. /\ config' = [config EXCEPT ![p] = job[w].graph] /\ KeepJob
      /\ UNCHANGED <<source, lockFile, env, disturbed, raced>>
  BY <1>1 DEF ReplaceConfig
<1>4. /\ r \in Working /\ r.pc = "build" /\ r.kind = "edit" /\ r.project = p
      /\ r.doc = job[w].doc /\ r.graph = job[w].graph
  BY <1>1, <1>2 DEF Working, Job, Step, Shape, Editing, Applying, Filling, MustMatch
<1>5. job' = [job EXCEPT ![w] = r]
  BY DEF ReplaceConfig, Goto, PackageInv, TypeOK
<1> HIDE DEF r
<1>6. /\ job'[w] = r /\ UNCHANGED <<holder, requests, changes, fresh, abandoned>>
      /\ \A v \in Process \ {w} : job'[v] = job[v]
  BY <1>3, <1>4, <1>5, MoveFacts DEF KeepJob
<1>7. /\ config' \in [Project -> Config] /\ config'[p] = job[w].graph
      /\ \A q \in Project \ {p} : config'[q] = config[q]
  BY <1>2, <1>3 DEF PackageInv, TypeOK
<1>8. Steps(w)
  BY <1>2, <1>3, <1>4, <1>5, <1>6, <1>7, MoveFacts DEF Steps
<1>9. TypeOK'
  BY <1>3, <1>4, <1>5, <1>6, <1>7, MoveFacts DEF PackageInv, TypeOK
<1>10. Committed(w)'
  BY <1>4, <1>6 DEF Committed
<1>11. LockFollowsConfig'
  BY <1>0, <1>1, <1>3, <1>4, <1>6, <1>7, <1>10, OwnLock
<1>12. \A v \in Process : /\ At(v, "metadata") <=> At(v, "metadata")'
                          /\ At(v, "metadata") => job'[v].env = job[v].env
  BY <1>0, <1>4, <1>6 DEF At
<1>13. BareOnlyIfAbandoned' /\ OneCreator'
  BY <1>3, <1>6, <1>12, QuietBare, QuietCreators
<1>14. (LockAsRead(w) /\ FreshApply(w) /\ Aim(w) /\ Text(w) /\ Extras(w) /\ Creator(w))'
  BY <1>4, <1>6
  DEF LockAsRead, FreshApply, Aim, Text, Extras, Creator, At, Applying, Filling
<1>15. (Owner(w) /\ Marked(w))'
  BY <1>0, <1>1, <1>2, <1>3, <1>4, <1>6 DEF PackageInv, Reliance, Owner, Marked, Holds
<1>16. FreshEdit(w)'
  <2>1. w \in fresh => config[p] = job[w].doc
    BY <1>0, <1>1 DEF PackageInv, Reliance, FreshEdit, At
  <2>2. \A v \in Process : Committed(v) => job[v].project # p
    BY <1>0, <1>2 DEF Committed, Holds
  <2>3. p \notin disturbed /\ lockFile[p] # NoLock => lockFile[p] = LockFor(p)
    BY <2>2 DEF PackageInv, LockFollowsConfig
  <2>4. w \in fresh /\ p \notin disturbed /\ lockFile[p] # NoLock => lockFile[p] = OldLock(w)
    BY <1>1, <2>1, <2>3 DEF LockFor, TreeOf, OldLock
  <2>5. OldLock(w)' = OldLock(w)
    BY <1>1, <1>3, <1>4, <1>6 DEF OldLock
  <2> QED BY <1>3, <1>4, <1>6, <1>7, <2>4, <2>5 DEF FreshEdit, At
<1> QED BY <1>8, <1>9, <1>11, <1>13, <1>14, <1>15, <1>16, StepKeeps DEF Reliance

LEMMA RestoreConfigKeeps ==
  ASSUME PackageInv, NEW w \in Process, RestoreConfig(w) PROVE PackageInv'
<1>0. job[w].pc = "restore" /\ Holds(w)
  BY DEF RestoreConfig, At, Holds
<1>1. PICK p \in Project : p = job[w].project
  BY <1>0, HeldByOne
<1>2. /\ job[w] \in Job /\ job[w].kind = "edit" /\ holder[p] = w
      /\ w \notin fresh => p \in disturbed
      /\ job[w].doc \in Config
  BY <1>0, <1>1, HeldByOne DEF Shape, Editing, Job
<1>3. /\ config' = [config EXCEPT ![p] = job[w].doc] /\ End(w)
      /\ UNCHANGED <<source, lockFile, env, disturbed, abandoned, raced>>
  BY <1>1 DEF RestoreConfig
<1>4. /\ config' \in [Project -> Config] /\ config'[p] = job[w].doc
      /\ \A q \in Project \ {p} : config'[q] = config[q]
  BY <1>2, <1>3 DEF PackageInv, TypeOK
<1>5. p \notin disturbed /\ lockFile[p] # NoLock => lockFile[p] = OldLock(w)
  BY <1>0, <1>1, <1>2 DEF PackageInv, Reliance, FreshEdit, Committed
<1>6. p \notin disturbed /\ lockFile[p] # NoLock => lockFile'[p] = LockFor(p)'
  BY <1>1, <1>3, <1>4, <1>5 DEF OldLock, LockFor, TreeOf
<1>7. LockFollowsConfig'
  BY <1>0, <1>1, <1>3, <1>4, <1>6, EndFacts, OwnLock
<1> QED BY <1>0, <1>2, <1>3, <1>4, <1>7, EndKeeps DEF At, PackageInv, TypeOK

LEMMA EditorKeeps ==
  ASSUME PackageInv, NEW p \in Project, Editor(p) PROVE PackageInv'
<1>1. /\ config' \in [Project -> Config] /\ source' \in [Project -> Source]
      /\ \A q \in Project \ {p} : config'[q] = config[q] /\ source'[q] = source[q]
      /\ disturbed' = disturbed \cup {p} /\ fresh' = fresh \ {holder[p]}
      /\ UNCHANGED <<lockFile, env, holder, job, requests, abandoned>>
      /\ raced \subseteq raced' /\ raced' \subseteq Process
  BY DEF Editor, PackageInv, TypeOK
<1>2. \A v \in Process : job[v].pc \in {"replace", "restore"} /\ job[v].project = p /\ v \notin raced'
        => config' = config
  BY DEF Editor
<1>3. TypeOK'
  <2>1. changes' \in 0 .. MaxChanges
    BY PackageAssumption DEF Editor, PackageInv, TypeOK
  <2> QED BY <1>1, <2>1 DEF PackageInv, TypeOK
<1>4. LockFollowsConfig'
  <2> SUFFICES ASSUME NEW q \in Project, lockFile'[q] # NoLock, q \notin disturbed',
                      \A v \in Process : Committed(v)' => job'[v].project # q
               PROVE  lockFile'[q] = LockFor(q)'
    BY DEF LockFollowsConfig
  <2>1. q # p /\ q \notin disturbed
    BY <1>1
  <2>2. \A v \in Process : Committed(v) => job[v].project # q
    BY <1>1 DEF Committed
  <2>3. lockFile[q] = LockFor(q)
    BY <1>1, <2>1, <2>2 DEF PackageInv, LockFollowsConfig
  <2> QED BY <1>1, <2>1, <2>3 DEF LockFor, TreeOf
<1>5. BareOnlyIfAbandoned' /\ OneCreator'
  BY <1>1 DEF PackageInv, BareOnlyIfAbandoned, OneCreator, At
<1>6. ASSUME NEW v \in Process PROVE Reliance(v)'
  <2>0. Reliance(v) /\ job'[v] = job[v]
    BY <1>1 DEF PackageInv
  <2>1. (Owner(v) /\ LockAsRead(v) /\ Aim(v) /\ Creator(v))'
    BY <1>1, <2>0 DEF Reliance, Owner, Holds, LockAsRead, Aim, Own, Creator, At
  <2>2. (Extras(v))'
    BY <1>1, <2>0 DEF Reliance, Extras, At
  <2>3. Marked(v)'
    <3>1. v \notin fresh' => v \notin fresh \/ holder[p] = v
      BY <1>1
    <3> QED BY <1>1, <2>0, <3>1 DEF Reliance, Owner, Marked, Holds
  <2>4. v \in fresh' /\ Holds(v) => v \in fresh /\ job[v].project \in Project \ {p}
    BY <1>1, <2>0, HeldByOne
  <2>5. PICK q : q = job[v].project
    OBVIOUS
  <2>6. v \in fresh' /\ Holds(v) =>
          /\ config'[q] = config[q] /\ source'[q] = source[q]
          /\ q \in disturbed' <=> q \in disturbed
    BY <1>1, <2>4, <2>5
  <2>7. FreshApply(v)'
    BY <1>1, <2>0, <2>4, <2>5, <2>6
    DEF Reliance, FreshApply, Holds, Applying, Filling, LockFor, TreeOf
  <2>8. FreshEdit(v)'
    BY <1>1, <2>0, <2>4, <2>5, <2>6 DEF Reliance, FreshEdit, Holds, At, Committed, OldLock
  <2>9. Text(v)'
    <3>1. job[v].pc \in {"replace", "restore"} => q \in Project
      BY <2>5, HeldByOne DEF Holds
    <3> QED BY <1>1, <1>2, <2>0, <2>5, <3>1 DEF Reliance, Text, At
  <2> QED BY <2>1, <2>2, <2>3, <2>7, <2>8, <2>9 DEF Reliance
<1> QED BY <1>1, <1>3, <1>4, <1>5, <1>6 DEF PackageInv

LEMMA NextKeeps == ASSUME PackageInv, [Next]_vars PROVE PackageInv'
<1>1. CASE UNCHANGED vars
  <2>1. UNCHANGED <<config, source, lockFile, env, holder, job, requests, changes, fresh,
                    disturbed, abandoned, raced>>
    BY <1>1 DEF vars, history
  <2>2. TypeOK' /\ (job \in [Process -> Working \cup {Idle}])'
    BY <2>1 DEF PackageInv, TypeOK
  <2>3. LockFollowsConfig' /\ BareOnlyIfAbandoned' /\ OneCreator'
    BY <2>1
    DEF PackageInv, LockFollowsConfig, BareOnlyIfAbandoned, OneCreator, Committed, At, LockFor,
        TreeOf
  <2>4. ASSUME NEW v \in Process PROVE Reliance(v)'
    <3>1. Reliance(v)
      BY DEF PackageInv
    <3>2. (Owner(v) /\ Marked(v) /\ LockAsRead(v) /\ Aim(v) /\ Text(v) /\ Extras(v) /\ Creator(v))'
      BY <2>1, <3>1
      DEF Reliance, Owner, Marked, LockAsRead, Aim, Own, Text, Extras, Creator, At, Holds
    <3>3. (FreshApply(v) /\ FreshEdit(v))'
      BY <2>1, <3>1 DEF Reliance, FreshApply, FreshEdit, Committed, At, OldLock, LockFor, TreeOf
    <3> QED BY <3>2, <3>3 DEF Reliance
  <2> QED BY <2>2, <2>3, <2>4 DEF PackageInv
<1>2. ASSUME NEW w \in Process, Perform(w) PROVE PackageInv'
  <2>1. CASE \/ AcquireOperationLock(w) \/ CheckDocument(w) \/ ResolveGraph(w) \/ ReadLock(w)
             \/ CompareLock(w) \/ BuildLock(w) \/ WriteLock(w) \/ Materialize(w)
    BY <2>1, AcquireKeeps, CheckDocumentKeeps, ResolveGraphKeeps, ReadLockKeeps,
       CompareLockKeeps, BuildLockKeeps, WriteLockKeeps, MaterializeKeeps
  <2>2. CASE \/ FindEnvironment(w) \/ CreateDirectory(w) \/ CreateMetadata(w)
             \/ ReadMetadata(w) \/ UpdateMetadata(w)
    BY <2>2, FindEnvironmentKeeps, CreateDirectoryKeeps, CreateMetadataKeeps,
       ReadMetadataKeeps, UpdateMetadataKeeps
  <2>3. CASE \/ \E next \in Config : ResolveEdit(w, next)
             \/ CompareConfig(w) \/ ReplaceConfig(w) \/ RecheckConfig(w) \/ RestoreConfig(w)
    BY <2>3, ResolveEditKeeps, CompareConfigKeeps, ReplaceConfigKeeps, RecheckConfigKeeps,
       RestoreConfigKeeps
  <2>4. CASE Fail(w) \/ Crash(w)
    BY <2>4, FailKeeps, CrashKeeps
  <2> QED BY <1>2, <2>1, <2>2, <2>3, <2>4 DEF Perform
<1> QED BY <1>1, <1>2, RequestKeeps, EditorKeeps DEF Next

-----------------------------------------------------------------------------
\* The inductive invariant, for any processes, projects, contents and bounds.
THEOREM Invariance == Spec => []PackageInv
<1>1. Init => PackageInv
  BY InitKeeps
<1>2. PackageInv /\ [Next]_vars => PackageInv'
  BY NextKeeps
<1> QED BY <1>1, <1>2, PTL DEF Spec

\* The variables keep their types.
THEOREM TypeCorrect == Spec => []TypeOK
<1>1. PackageInv => TypeOK
  BY DEF PackageInv
<1> QED BY <1>1, Invariance, PTL

\* No failure, rollback or death between the two files of an edit leaves an
\* undisturbed project with a lockfile that is not that of its configuration.
THEOREM LocksFollow == Spec => []LockFollowsConfig
<1>1. PackageInv => LockFollowsConfig
  BY DEF PackageInv
<1> QED BY <1>1, Invariance, PTL

\* Only a death leaves an environment directory without metadata.
THEOREM BareIsAbandoned == Spec => []BareOnlyIfAbandoned
<1>1. PackageInv => BareOnlyIfAbandoned
  BY DEF PackageInv
<1> QED BY <1>1, Invariance, PTL

\* An edit and its rollback replace the text they compared.
THEOREM EditsReplaceCompared == Spec => []EditReplacesComparedText
<1>1. PackageInv => EditReplacesComparedText
  BY DEF PackageInv, Reliance, Text, EditReplacesComparedText
<1> QED BY <1>1, Invariance, PTL

\* A merge loses the mapping of another project only to a write it did not see.
THEOREM KeepsExtras == Spec => []ExtrasKeptUnlessRaced
<1>1. PackageInv => ExtrasKeptUnlessRaced
  BY DEF PackageInv, Reliance, Extras, ExtrasKeptUnlessRaced
<1> QED BY <1>1, Invariance, PTL

-----------------------------------------------------------------------------
(* What a step may never do.                                                *)

\* A lockfile changes only in WriteLock.
LEMMA OnlyWriteLock ==
  ASSUME PackageInv, [Next]_vars, lockFile' # lockFile
  PROVE  \E w \in Process : WriteLock(w)
<1>1. ASSUME NEW w \in Process, Perform(w), ~WriteLock(w) PROVE FALSE
  <2>1. ASSUME CompareLock(w) PROVE FALSE
    BY <2>1 DEF CompareLock, files
  <2>2. ASSUME ReadMetadata(w) PROVE FALSE
    BY <2>2 DEF ReadMetadata, files
  <2>3. ASSUME Fail(w) \/ Crash(w) PROVE FALSE
    BY <2>3 DEF Fail, Crash, files
  <2> QED BY <1>1, <2>1, <2>2, <2>3
          DEF Perform, AcquireOperationLock, CheckDocument, ResolveGraph, ReadLock, BuildLock,
              Materialize, FindEnvironment, CreateDirectory, CreateMetadata, UpdateMetadata,
              ResolveEdit, CompareConfig, ReplaceConfig, RecheckConfig, RestoreConfig, files
<1>2. ASSUME NEW w \in Process, NEW p \in Project, NEW k \in Requestable,
             NEW e \in Environment, Request(w, p, k, e)
      PROVE  FALSE
  BY <1>2 DEF Request, files
<1>3. ASSUME NEW p \in Project, Editor(p) PROVE FALSE
  BY <1>3 DEF Editor
<1>4. lockFile' = lockFile \/ ~ UNCHANGED vars
  BY DEF vars
<1> QED BY <1>1, <1>2, <1>3, <1>4 DEF Next

\* `lock` never replaces a lockfile; --locked and `install` never write one.
THEOREM LocksUpgradedOnRequest == Spec => LockOnlyUpgradedOnRequest
<1> DEFINE A == \A p \in Project : lockFile'[p] # lockFile[p] =>
                  \E w \in Process :
                    /\ job[w].pc # "idle" /\ job[w].project = p
                    /\ \/ job[w].kind \in {"sync", "keep", "update", "edit"}
                       \/ job[w].kind = "lock" /\ lockFile[p] = NoLock
<1>1. ASSUME PackageInv, [Next]_vars PROVE [A]_vars
  <2> SUFFICES ASSUME NEW p \in Project, lockFile'[p] # lockFile[p]
               PROVE  \E w \in Process :
                        /\ job[w].pc # "idle" /\ job[w].project = p
                        /\ \/ job[w].kind \in {"sync", "keep", "update", "edit"}
                           \/ job[w].kind = "lock" /\ lockFile[p] = NoLock
    OBVIOUS
  <2>1. PICK w \in Process : WriteLock(w)
    BY <1>1, OnlyWriteLock
  <2>2. /\ job[w].pc = "write" /\ Holds(w) /\ p = job[w].project
    BY <1>1, <2>1 DEF WriteLock, At, Holds, PackageInv, TypeOK
  <2>3. job[w].kind \in Kind \ MustMatch
    BY <1>1, <2>2, HeldByOne DEF Shape, Job
  <2>4. job[w].kind = "lock" => lockFile[p] = NoLock
    BY <1>1, <2>2 DEF PackageInv, Reliance, LockAsRead
  <2> QED BY <2>2, <2>3, <2>4 DEF Kind, MustMatch
<1>2. PackageInv /\ [Next]_vars => [A]_vars
  BY <1>1
<1> QED BY <1>2, Invariance, PTL DEF Spec, LockOnlyUpgradedOnRequest

\* No process changes what another has read.
LEMMA OnlyOwnJob ==
  ASSUME PackageInv, NEW w \in Process, NEW v \in Process \ {w}, Perform(v)
  PROVE  job'[w] = job[w]
<1> USE DEF PackageInv, TypeOK, Goto, End
<1>1. CASE \/ AcquireOperationLock(v) \/ CheckDocument(v) \/ ResolveGraph(v) \/ ReadLock(v)
           \/ CompareLock(v) \/ BuildLock(v) \/ WriteLock(v) \/ Materialize(v)
  BY <1>1
  DEF AcquireOperationLock, CheckDocument, ResolveGraph, ReadLock, CompareLock, BuildLock,
      WriteLock, Materialize
<1>2. CASE \/ FindEnvironment(v) \/ CreateDirectory(v) \/ CreateMetadata(v)
           \/ ReadMetadata(v) \/ UpdateMetadata(v)
  BY <1>2 DEF FindEnvironment, CreateDirectory, CreateMetadata, ReadMetadata, UpdateMetadata
<1>3. CASE \/ \E next \in Config : ResolveEdit(v, next)
           \/ CompareConfig(v) \/ ReplaceConfig(v) \/ RecheckConfig(v) \/ RestoreConfig(v)
  BY <1>3 DEF ResolveEdit, CompareConfig, ReplaceConfig, RecheckConfig, RestoreConfig
<1>4. CASE Fail(v) \/ Crash(v)
  BY <1>4 DEF Fail, Crash
<1> QED BY <1>1, <1>2, <1>3, <1>4 DEF Perform

\* An environment is filled in CreateMetadata and UpdateMetadata only.
LEMMA OnlyFills ==
  ASSUME PackageInv, [Next]_vars, NEW w \in Process, job[w].pc \in {"metadata", "update"},
         job'[w].pc = "idle", env'[job[w].env] # env[job[w].env], env'[job[w].env] # Absent
  PROVE  CreateMetadata(w) \/ UpdateMetadata(w)
<1>1. job'[w] # job[w] /\ job'[w].pc # "lock"
  OBVIOUS
<1>2. Perform(w)
  <2>1. ~ UNCHANGED vars
    BY <1>1 DEF vars
  <2>2. ASSUME NEW p \in Project, Editor(p) PROVE FALSE
    BY <1>1, <2>2 DEF Editor
  <2>3. ASSUME NEW v \in Process, NEW p \in Project, NEW k \in Requestable,
               NEW e \in Environment, Request(v, p, k, e)
        PROVE  FALSE
    BY <1>1, <2>3 DEF Request, PackageInv, TypeOK
  <2> QED BY <1>1, <2>1, <2>2, <2>3, OnlyOwnJob DEF Next
<1>3. ASSUME Fail(w) \/ Crash(w) PROVE FALSE
  <2>1. job[w].env \in Environment
    BY WorkingJob DEF Job
  <2> QED BY <1>3, <2>1 DEF Fail, Crash, files, At, PackageInv, TypeOK
<1> QED BY <1>2, <1>3
        DEF Perform, At, AcquireOperationLock, CheckDocument, ResolveGraph, ReadLock, CompareLock,
            BuildLock, WriteLock, Materialize, FindEnvironment, CreateDirectory, ReadMetadata,
            ResolveEdit, CompareConfig, ReplaceConfig, RecheckConfig, RestoreConfig

\* A request that nobody disturbed fills the environment with what the
\* lockfile of its project says at that moment.
THEOREM EnvironmentsFollow == Spec => EnvironmentFollowsLock
<1> DEFINE A == \A w \in fresh : LET e == job[w].env  p == job[w].project IN
                  /\ job[w].pc \in {"metadata", "update"}
                  /\ job'[w].pc = "idle"
                  /\ env'[e] # env[e] /\ env'[e] # Absent
                  => /\ env'[e].maps[p] = lockFile[p].tree
                     /\ env'[e].by = <<p, lockFile[p].fp>>
<1>1. ASSUME PackageInv, [Next]_vars PROVE [A]_vars
  <2> SUFFICES ASSUME NEW w \in fresh, job[w].pc \in {"metadata", "update"},
                      job'[w].pc = "idle", env'[job[w].env] # env[job[w].env],
                      env'[job[w].env] # Absent
               PROVE  /\ env'[job[w].env].maps[job[w].project] = lockFile[job[w].project].tree
                      /\ env'[job[w].env].by = <<job[w].project, lockFile[job[w].project].fp>>
    OBVIOUS
  <2>0. w \in Process /\ Holds(w)
    BY <1>1 DEF PackageInv, TypeOK, Holds
  <2>1. PICK p \in Project, e \in Environment : p = job[w].project /\ e = job[w].env
    BY <1>1, <2>0, HeldByOne
  <2>2. CreateMetadata(w) \/ UpdateMetadata(w)
    BY <1>1, <2>0, OnlyFills
  <2>3. lockFile[p] = LockFor(p) /\ job[w].tree = TreeOf(p) /\ job[w].doc = config[p]
    BY <1>1, <2>0, <2>1, HeldByOne
    DEF PackageInv, Reliance, FreshApply, Applying, Filling, Shape
  <2>4. lockFile[p].tree = job[w].tree /\ lockFile[p].fp = job[w].doc
    BY <2>3 DEF LockFor
  <2>5. CASE CreateMetadata(w)
    <3>1. env'[e] = [by |-> Own(w), maps |-> Alone(w)]
      BY <1>1, <2>1, <2>5 DEF CreateMetadata, PackageInv, TypeOK
    <3> QED BY <2>1, <2>4, <3>1 DEF Own, Alone
  <2>6. CASE UpdateMetadata(w)
    <3>1. env'[e] = job[w].current /\ At(w, "update")
      BY <1>1, <2>1, <2>6 DEF UpdateMetadata, PackageInv, TypeOK
    <3>2. job[w].current.maps[p] = job[w].tree /\ job[w].current.by = Own(w)
      BY <1>1, <2>0, <2>1, <3>1 DEF PackageInv, Reliance, Aim
    <3> QED BY <2>1, <2>4, <3>1, <3>2 DEF Own
  <2> QED BY <2>2, <2>5, <2>6
<1>2. PackageInv /\ [Next]_vars => [A]_vars
  BY <1>1
<1> QED BY <1>2, Invariance, PTL DEF Spec, EnvironmentFollowsLock

-----------------------------------------------------------------------------
(* The operation lock of each project is used as LockContract has it.        *)

\* A request ends, or goes on with the lock of its project.
Ends(w) == job[w].pc # "idle" /\ job'[w] = Idle

Stays(w) == Holds(w) /\ Holds(w)' /\ job'[w].project = job[w].project

LEMMA ThreeWays ==
  ASSUME PackageInv, NEW w \in Process, Perform(w)
  PROVE  AcquireOperationLock(w) \/ Stays(w) \/ Ends(w)
<1>0. Holds(w) => job[w] \in Job
  BY WorkingJob DEF Holds
<1>1. ASSUME Holds(w), NEW step \in Step \ {"lock"}, Goto(w, step) PROVE Stays(w)
  BY <1>1 DEF Stays, Holds, Goto, PackageInv, TypeOK, Job, Step
<1>2. ASSUME job[w].pc # "idle", End(w) PROVE Ends(w)
  BY <1>2 DEF Ends, End, PackageInv, TypeOK
<1> HIDE DEF Stays, Ends
<1>3. ASSUME CheckDocument(w) \/ CompareLock(w) \/ WriteLock(w) PROVE Stays(w) \/ Ends(w)
  BY <1>1, <1>2, <1>3 DEF CheckDocument, CompareLock, WriteLock, At, Holds, Step
<1>4. ASSUME ResolveGraph(w) \/ BuildLock(w) \/ Materialize(w) PROVE Stays(w)
  BY <1>0, <1>4 DEF ResolveGraph, BuildLock, Materialize, Stays, At, Holds, Job,
                    PackageInv, TypeOK
<1>5. ASSUME ReadLock(w) PROVE Stays(w)
  BY <1>0, <1>5 DEF ReadLock, Stays, At, Holds, Job, PackageInv, TypeOK
<1>6. ASSUME \/ FindEnvironment(w) \/ CreateDirectory(w) \/ CreateMetadata(w)
             \/ UpdateMetadata(w)
      PROVE  Stays(w) \/ Ends(w)
  BY <1>1, <1>2, <1>6
  DEF FindEnvironment, CreateDirectory, CreateMetadata, UpdateMetadata, At, Holds, Step
<1>7. ASSUME ReadMetadata(w) PROVE Stays(w) \/ Ends(w)
  <2>1. CASE End(w)
    BY <1>2, <1>7, <2>1 DEF ReadMetadata, At
  <2>2. CASE ~End(w)
    BY <1>0, <1>7, <2>2 DEF ReadMetadata, Stays, At, Holds, Job, PackageInv, TypeOK
  <2> QED BY <2>1, <2>2
<1>8. ASSUME NEW next \in Config, ResolveEdit(w, next) PROVE Stays(w)
  BY <1>0, <1>8 DEF ResolveEdit, Stays, At, Holds, Job, PackageInv, TypeOK
<1>9. ASSUME CompareConfig(w) \/ ReplaceConfig(w) \/ RecheckConfig(w) \/ RestoreConfig(w)
      PROVE  Stays(w) \/ Ends(w)
  BY <1>1, <1>2, <1>9
  DEF CompareConfig, ReplaceConfig, RecheckConfig, RestoreConfig, At, Holds, Step
<1>10. ASSUME Fail(w) \/ Crash(w) PROVE Stays(w) \/ Ends(w)
  BY <1>1, <1>2, <1>10 DEF Fail, Crash, Committed, At, Holds, Step
<1> QED BY <1>3, <1>4, <1>5, <1>6, <1>7, <1>8, <1>9, <1>10 DEF Perform

Seen(p) ==
  OperationLock(p)!Next \/ UNCHANGED [w \in Process |-> Place(w, p)]

\* The process that is let in finds nobody else in: the holder is the only one
\* whose request is past the acquisition.
LEMMA AcquireSeen ==
  ASSUME PackageInv, NEW p \in Project, NEW w \in Process, AcquireOperationLock(w)
  PROVE  Seen(p)
<1>1. \A v \in Process : Place(v, p)' =
        IF v = w /\ job[w].project = p THEN "in" ELSE Place(v, p)
  BY DEF PackageInv, TypeOK, Job, AcquireOperationLock, Goto, At, Place
<1>2. CASE job[w].project = p
  <2>1. Place(w, p) = "waiting" /\ holder[p] = Nobody
    BY <1>2 DEF AcquireOperationLock, At, Place
  <2>2. \A v \in Process : Place(v, p) = "in" => holder[p] = v
    BY DEF PackageInv, Reliance, Owner, Holds, Place, At
  <2>3. OperationLock(p)!Alone(w)
    BY <2>1, <2>2, PackageAssumption DEF OperationLock!Alone
  <2>4. OperationLock(p)!Grant(w)
    BY <1>1, <1>2, <2>1, <2>3 DEF OperationLock!Grant, OperationLock!Move
  <2> QED BY <2>4 DEF Seen, OperationLock!Next
<1>3. CASE job[w].project # p
  BY <1>1, <1>3 DEF Seen
<1> QED BY <1>2, <1>3

\* Every end of a request, in the middle of an acquisition or after it.
LEMMA EndSeen ==
  ASSUME PackageInv, NEW p \in Project, NEW w \in Process, Perform(w), Ends(w)
  PROVE  Seen(p)
<1>1. \A v \in Process : Place(v, p)' = IF v = w THEN "out" ELSE Place(v, p)
  BY OnlyOwnJob DEF Ends, Idle, At, Place
<1>2. CASE Place(w, p) = "in"
  <2>1. OperationLock(p)!Release(w)
    BY <1>1, <1>2 DEF OperationLock!Release, OperationLock!Move
  <2> QED BY <2>1 DEF Seen, OperationLock!Next
<1>3. CASE Place(w, p) = "waiting"
  <2>1. OperationLock(p)!Refuse(w)
    BY <1>1, <1>3 DEF OperationLock!Refuse, OperationLock!Move
  <2> QED BY <2>1 DEF Seen, OperationLock!Next
<1>4. CASE Place(w, p) = "out"
  BY <1>1, <1>4 DEF Seen
<1> QED BY <1>2, <1>3, <1>4 DEF Place

LEMMA RequestSeen ==
  ASSUME PackageInv, NEW p \in Project, NEW w \in Process, NEW q \in Project,
         NEW k \in Requestable, NEW e \in Environment, Request(w, q, k, e)
  PROVE  Seen(p)
<1>1. \A v \in Process : Place(v, p)' = IF v = w /\ q = p THEN "waiting" ELSE Place(v, p)
  BY DEF PackageInv, TypeOK, Request, At, Place
<1>2. CASE q = p
  <2>1. Place(w, p) = "out"
    BY DEF Request, Place
  <2>2. OperationLock(p)!Request(w)
    BY <1>1, <1>2, <2>1 DEF OperationLock!Request, OperationLock!Move
  <2> QED BY <2>2 DEF Seen, OperationLock!Next
<1>3. CASE q # p
  BY <1>1, <1>3 DEF Seen
<1> QED BY <1>2, <1>3

\* Each project's lock grants, refuses and takes back as an exclusive lock that
\* never lapses: this is all that the theorems above take from EntryLock.
THEOREM OperationLockSuffices == ASSUME NEW p \in Project PROVE Spec => OperationLock(p)!Spec
<1>1. Init => OperationLock(p)!Init
  BY DEF Init, OperationLock!Init, Place, At, Idle
<1>2. PackageInv /\ [Next]_vars => [OperationLock(p)!Next]_(OperationLock(p)!vars)
  <2> SUFFICES ASSUME PackageInv, [Next]_vars PROVE Seen(p)
    BY DEF Seen, OperationLock!vars
  <2>1. CASE UNCHANGED vars
    BY <2>1 DEF vars, Seen, Place, At
  <2>2. ASSUME NEW w \in Process, Perform(w) PROVE Seen(p)
    <3>1. CASE Stays(w)
      <4>1. \A v \in Process : Place(v, p)' = Place(v, p)
        BY <2>2, <3>1, OnlyOwnJob DEF Stays, Holds, At, Place
      <4> QED BY <4>1 DEF Seen
    <3> QED BY <2>2, <3>1, ThreeWays, AcquireSeen, EndSeen
  <2>3. ASSUME NEW q \in Project, Editor(q) PROVE Seen(p)
    BY <2>3 DEF Editor, Seen, Place, At
  <2> QED BY <2>1, <2>2, <2>3, RequestSeen DEF Next
<1> QED BY <1>1, <1>2, Invariance, PTL DEF Spec, OperationLock!Spec

=============================================================================
