----------------------------- MODULE PackageOps -----------------------------
(***************************************************************************)
(* The package operations of one XIAO_HOME (xiao-package/src/sync.rs): sync, *)
(* install, lock, update and the dependency edit, run by driver processes   *)
(* on the config.xiao and the lockfile of several projects and on the       *)
(* environments the projects share, while an editor writes the same files,  *)
(* any file operation may fail and any process may die between two of them. *)
(*                                                                         *)
(* A package graph is named by the configuration it was resolved from, and  *)
(* the root package of a project stands for the graph: an environment maps  *)
(* a project to the digest of its tree, the pair <<configuration, source>>.  *)
(* The operation lock is ideal here; EntryLock is the module about it.      *)
(* Definitions marked "Defect" are not part of the specification: each is   *)
(* the code with one plausible mistake that a property has to notice.       *)
(***************************************************************************)
EXTENDS Integers

CONSTANTS
  Process,         \* driver processes, one request at a time
  Project,         \* canonical project roots
  Config, Source,  \* contents of a config.xiao, and of the rest of a tree
  Global,          \* the global environment, and
  Targets,         \*   the environments requests name: .venv of a project, Global
  Requestable,     \* the kinds of request made
  Nobody, NoLock, Absent, Bare, NoTree,
  MaxRequests,     \* bounds the requests made, and
  MaxChanges       \*   the changes made by the editor

\* Sync and Sync{keep_extra}; Sync{locked} and Sync{frozen}, which differ only
\* in the words of their errors; Install, Lock, Update; the dependency edit.
Kind == {"sync", "keep", "locked", "install", "lock", "update", "edit"}

MustMatch == {"locked", "install"}             \* consume the lockfile as it is
KeepsExtra == {"keep", "install"}
WritesEnvironment == {"sync", "keep", "locked", "install"}

Environment == Project \cup {Global}           \* a project stands for its .venv
Tree == Config \X Source
Lock == [fp : Config, graph : Config, tree : Tree]
Metadata == [by : Project \X Config, maps : [Project -> Tree \cup {NoTree}]]

ASSUME PackageAssumption ==
  /\ Global \notin Project
  /\ Targets \subseteq Environment
  /\ Requestable \subseteq Kind
  /\ Nobody \notin Process
  /\ NoLock \notin Lock
  /\ Absent \notin Metadata /\ Bare \notin Metadata /\ Absent # Bare
  /\ NoTree \notin Tree
  /\ MaxRequests \in Nat /\ MaxChanges \in Nat

VARIABLES
  config, source,  \* what is on disk, per project
  lockFile,        \* xiao.lock.json, or NoLock
  env,             \* Absent, Bare (a directory without metadata), or metadata
  holder,          \* the process with the operation lock of a project
  job,             \* where each process stands and what it has read
  requests, changes,
  fresh, disturbed, abandoned, raced           \* history, see below

\* History, read by the properties and by no guard. `disturbed`: projects whose
\* files someone else changed, or a lost rollback left apart, since the last
\* lockfile made for them from start to end; `fresh`: processes that hold the
\* lock of a project undisturbed since they took it; `raced`: processes whose
\* file was written by another since they last read it; `abandoned`:
\* environments whose creator died, or could neither fill nor remove them.
history == <<fresh, disturbed, abandoned, raced>>
files == <<config, source, lockFile, env>>
vars == <<config, source, lockFile, env, holder, job, requests, changes, history>>

Idle == [pc |-> "idle"]

\* `doc`: the document of the request; `graph`: the configuration the package
\* graph was resolved from; `tree`: the root digest last computed; `current`:
\* the lockfile or the metadata last read.
Step ==
  {"lock", "check", "graph", "read", "compare", "build", "write", "materialize",
   "exists", "mkdir", "metadata", "merge", "update",
   "resolve", "commit", "replace", "recheck", "undo", "restore"}

Job == [pc : Step, kind : Kind, project : Project, env : Environment,
        doc : Config, graph : Config, tree : Tree \cup {NoTree},
        current : Lock \cup Metadata \cup {NoLock}]

TypeOK ==
  /\ config \in [Project -> Config] /\ source \in [Project -> Source]
  /\ lockFile \in [Project -> Lock \cup {NoLock}]
  /\ env \in [Environment -> Metadata \cup {Absent, Bare}]
  /\ holder \in [Project -> Process \cup {Nobody}]
  /\ job \in [Process -> Job \cup {Idle}]
  /\ requests \in 0 .. MaxRequests /\ changes \in 0 .. MaxChanges
  /\ fresh \subseteq Process /\ raced \subseteq Process
  /\ disturbed \subseteq Project /\ abandoned \subseteq Environment

TreeOf(p) == <<config[p], source[p]>>

LockFor(p) == [fp |-> config[p], graph |-> config[p], tree |-> TreeOf(p)]

\* Every project starts with no lockfile or with an accurate one.
Init ==
  /\ config \in [Project -> Config] /\ source \in [Project -> Source]
  /\ lockFile \in [Project -> Lock \cup {NoLock}]
  /\ \A p \in Project : lockFile[p] \in {NoLock, LockFor(p)}
  /\ env = [e \in Environment |-> Absent]
  /\ holder = [p \in Project |-> Nobody]
  /\ job = [w \in Process |-> Idle]
  /\ requests = 0 /\ changes = 0
  /\ fresh = {} /\ disturbed = {} /\ abandoned = {} /\ raced = {}

-----------------------------------------------------------------------------
Holds(w) == job[w].pc \notin {"idle", "lock"}

\* An edit whose configuration is on disk while its lockfile is not.
Committed(w) ==
  /\ job[w].pc \in {"build", "recheck", "write", "undo", "restore"}
  /\ job[w].kind = "edit"

At(w, step) == job[w].pc = step

Goto(w, step) == job' = [job EXCEPT ![w].pc = step]

\* The end of a request, on whatever path: the guard releases the lock.
End(w) ==
  /\ job' = [job EXCEPT ![w] = Idle]
  /\ holder' = [p \in Project |-> IF holder[p] = w THEN Nobody ELSE holder[p]]
  /\ fresh' = fresh \ {w}
  /\ UNCHANGED <<requests, changes>>

KeepJob == UNCHANGED <<holder, requests, changes, fresh, abandoned>>

\* The lockfile of `p` was found to match, or was made, by process `w`.
Settle(w, p) ==
  disturbed' = IF w \in fresh THEN disturbed \ {p} ELSE disturbed

-----------------------------------------------------------------------------
(* Requests. The command line reads config.xiao and sends its text; the lock *)
(* is taken by the driver afterwards.                                       *)

Request(w, p, k, e) ==
  /\ At(w, "idle") /\ requests < MaxRequests
  /\ IF k \in WritesEnvironment THEN e \in Targets ELSE e = p
  /\ requests' = requests + 1
  /\ job' = [job EXCEPT ![w] =
               [pc |-> "lock", kind |-> k, project |-> p, env |-> e,
                doc |-> config[p], graph |-> config[p], tree |-> NoTree,
                current |-> NoLock]]
  /\ UNCHANGED <<files, holder, changes, history>>

\* Defect: the operation lock is not awaited.
AcquireBarging(w) ==
  /\ At(w, "lock")
  /\ holder' = [holder EXCEPT ![job[w].project] = w]
  /\ Goto(w, IF job[w].kind = "edit" THEN "resolve" ELSE "check")
  /\ fresh' = fresh \cup {w}
  /\ UNCHANGED <<files, requests, changes, disturbed, abandoned, raced>>

AcquireOperationLock(w) ==
  /\ At(w, "lock") /\ holder[job[w].project] = Nobody
  /\ holder' = [holder EXCEPT ![job[w].project] = w]
  /\ Goto(w, IF job[w].kind = "edit" THEN "resolve" ELSE "check")
  /\ fresh' = fresh \cup {w}
  /\ UNCHANGED <<files, requests, changes, disturbed, abandoned, raced>>

-----------------------------------------------------------------------------
(* apply_packages: resolve, compare or write the lockfile, fill the          *)
(* environment. A comparison that does not hold leaves only Fail enabled.   *)

CheckDocument(w) ==
  /\ At(w, "check") /\ config[job[w].project] = job[w].doc
  /\ Goto(w, "graph")
  /\ KeepJob /\ UNCHANGED <<files, disturbed, raced>>

\* resolve_project reads config.xiao once more. An install into an activated
\* environment demands that its directory exists.
ResolveGraph(w) ==
  /\ At(w, "graph")
  /\ job[w].kind = "install" /\ job[w].env # Global => env[job[w].env] # Absent
  /\ job' = [job EXCEPT ![w].pc = "read", ![w].graph = config[job[w].project]]
  /\ KeepJob /\ UNCHANGED <<files, disturbed, raced>>

\* Defect: `install` and `--locked` do not insist on the lockfile.
ReadLockLenient(w) ==
  LET found == lockFile[job[w].project]
  IN /\ At(w, "read")
     /\ job[w].kind \in MustMatch => found # NoLock
     /\ job' = [job EXCEPT ![w].current = found, ![w].pc =
                  IF job[w].kind \in MustMatch THEN "materialize" ELSE "build"]
     /\ KeepJob /\ UNCHANGED <<files, disturbed, raced>>

ReadLock(w) ==
  LET found == lockFile[job[w].project]
  IN /\ At(w, "read")
     /\ job[w].kind \in MustMatch => found # NoLock
     /\ job' = [job EXCEPT ![w].current = found, ![w].pc =
                  IF \/ job[w].kind \in MustMatch
                     \/ job[w].kind = "lock" /\ found # NoLock
                  THEN "compare" ELSE "build"]
     /\ KeepJob /\ UNCHANGED <<files, disturbed, raced>>

\* compare_lockfile: packages and root, fingerprint, and the trees as they are
\* now. `lock` ends here when there was a lockfile.
CompareLock(w) ==
  LET p == job[w].project
  IN /\ At(w, "compare")
     /\ job[w].current =
          [fp |-> job[w].doc, graph |-> job[w].graph, tree |-> TreeOf(p)]
     /\ Settle(w, p)
     /\ \/ /\ job[w].kind = "lock"
           /\ End(w) /\ UNCHANGED <<files, abandoned, raced>>
        \/ /\ job[w].kind \in MustMatch
           /\ Goto(w, "materialize") /\ KeepJob /\ UNCHANGED <<files, raced>>

\* build_lockfile imports every tree into the cache and keeps its digest.
BuildLock(w) ==
  /\ At(w, "build")
  /\ job' = [job EXCEPT ![w].tree = TreeOf(job[w].project), ![w].pc =
               IF job[w].kind = "edit" THEN "recheck" ELSE "write"]
  /\ KeepJob /\ UNCHANGED <<files, disturbed, raced>>

WriteLock(w) ==
  LET p == job[w].project
  IN /\ At(w, "write")
     /\ lockFile' = [lockFile EXCEPT ![p] =
          [fp    |-> IF job[w].kind = "edit" THEN job[w].graph ELSE job[w].doc,
           graph |-> job[w].graph, tree |-> job[w].tree]]
     /\ Settle(w, p)
     /\ UNCHANGED <<config, source, env>>
     /\ \/ /\ job[w].kind \in WritesEnvironment
           /\ Goto(w, "materialize") /\ KeepJob /\ UNCHANGED raced
        \/ /\ job[w].kind \notin WritesEnvironment
           /\ End(w) /\ UNCHANGED <<abandoned, raced>>

\* materialize_package_mappings imports the trees a second time.
Materialize(w) ==
  /\ At(w, "materialize")
  /\ job' = [job EXCEPT ![w].tree = TreeOf(job[w].project), ![w].pc = "exists"]
  /\ KeepJob /\ UNCHANGED <<files, disturbed, raced>>

FindEnvironment(w) ==
  /\ At(w, "exists")
  /\ Goto(w, IF env[job[w].env] = Absent THEN "mkdir" ELSE "merge")
  /\ KeepJob /\ UNCHANGED <<files, disturbed, raced>>

CreateDirectory(w) ==
  /\ At(w, "mkdir") /\ env[job[w].env] = Absent
  /\ env' = [env EXCEPT ![job[w].env] = Bare]
  /\ Goto(w, "metadata")
  /\ KeepJob /\ UNCHANGED <<config, source, lockFile, disturbed, raced>>

Own(w) == <<job[w].project, job[w].doc>>

Alone(w) == [q \in Project |-> IF q = job[w].project THEN job[w].tree ELSE NoTree]

\* A created environment is read back, which changes nothing (`changed` is
\* already decided); only an error could come of it.
CreateMetadata(w) ==
  /\ At(w, "metadata")
  /\ env' = [env EXCEPT ![job[w].env] = [by |-> Own(w), maps |-> Alone(w)]]
  /\ End(w) /\ UNCHANGED <<config, source, lockFile, disturbed, abandoned, raced>>

-----------------------------------------------------------------------------
(* An environment that exists is read, merged and replaced.                 *)

\* Defect: the extra mappings are not merged.
MergedAlone(w, old) == Alone(w)

\* The packages of the request, and with keep_extra those of other projects.
Merged(w, old) ==
  [q \in Project |-> IF q = job[w].project THEN job[w].tree
                     ELSE IF job[w].kind \in KeepsExtra THEN old[q] ELSE NoTree]

ReadMetadata(w) ==
  LET found == env[job[w].env]
      next  == [by |-> Own(w), maps |-> Merged(w, found.maps)]
  IN /\ At(w, "merge") /\ found \notin {Absent, Bare}
     /\ \/ /\ next = found
           /\ End(w) /\ UNCHANGED <<files, disturbed, abandoned, raced>>
        \/ /\ next # found
           /\ job' = [job EXCEPT ![w].pc = "update", ![w].current = next]
           /\ raced' = raced \ {w}
           /\ KeepJob /\ UNCHANGED <<files, disturbed>>

\* update_environment_metadata: the file must still read; its content is not
\* compared with the one that was merged.
UpdateMetadata(w) ==
  /\ At(w, "update") /\ env[job[w].env] \notin {Absent, Bare}
  /\ env' = [env EXCEPT ![job[w].env] = job[w].current]
  /\ raced' = raced \cup
       {v \in Process : At(v, "update") /\ job[v].env = job[w].env}
  /\ End(w) /\ UNCHANGED <<config, source, lockFile, disturbed, abandoned>>

-----------------------------------------------------------------------------
(* apply_dependency_edit: resolve the edited text, put it in place, make the *)
(* lockfile for it, and take the text back when that fails.                 *)

\* The edit applies to the text of the request, which is not read again here.
ResolveEdit(w, next) ==
  /\ At(w, "resolve") /\ next # job[w].doc
  /\ job' = [job EXCEPT ![w].pc = "commit", ![w].graph = next]
  /\ KeepJob /\ UNCHANGED <<files, disturbed, raced>>

\* Defect: the text is replaced without a comparison.
CompareConfigBlind(w) ==
  /\ \/ At(w, "commit") /\ Goto(w, "replace")
     \/ At(w, "undo") /\ Goto(w, "restore")
  /\ raced' = raced \ {w}
  /\ KeepJob /\ UNCHANGED <<files, disturbed>>

\* write_config_edit compares the file with the text it replaces ...
CompareConfig(w) ==
  /\ \/ At(w, "commit") /\ config[job[w].project] = job[w].doc /\ Goto(w, "replace")
     \/ At(w, "undo") /\ config[job[w].project] = job[w].graph /\ Goto(w, "restore")
  /\ raced' = raced \ {w}
  /\ KeepJob /\ UNCHANGED <<files, disturbed>>

\* ... and then renames the new text over it.
ReplaceConfig(w) ==
  /\ At(w, "replace")
  /\ config' = [config EXCEPT ![job[w].project] = job[w].graph]
  /\ Goto(w, "build")
  /\ KeepJob /\ UNCHANGED <<source, lockFile, env, disturbed, raced>>

RecheckConfig(w) ==
  /\ At(w, "recheck") /\ config[job[w].project] = job[w].graph
  /\ Goto(w, "write")
  /\ KeepJob /\ UNCHANGED <<files, disturbed, raced>>

RestoreConfig(w) ==
  /\ At(w, "restore")
  /\ config' = [config EXCEPT ![job[w].project] = job[w].doc]
  /\ End(w) /\ UNCHANGED <<source, lockFile, env, disturbed, abandoned, raced>>

-----------------------------------------------------------------------------
(* Errors, deaths and the editor.                                           *)

\* Defect: an edit that fails after it wrote config.xiao just returns.
FailNoRollback(w) ==
  /\ job[w].pc # "idle"
  /\ IF At(w, "metadata")
     THEN env' = [env EXCEPT ![job[w].env] = Absent]
     ELSE env' = env
  /\ End(w) /\ UNCHANGED <<config, source, lockFile, disturbed, abandoned, raced>>

\* Defect: the directory stays when its metadata cannot be written.
FailLeavesDirectory(w) ==
  /\ job[w].pc # "idle" /\ ~Committed(w)
  /\ End(w) /\ UNCHANGED <<files, disturbed, abandoned, raced>>

\* Any step can fail: a comparison, the resolution, a file operation. The edit
\* rolls back once its configuration is on disk, and gives up (`please check
\* by hand`) when the rollback fails too; a directory whose metadata cannot be
\* written is removed again, unless that fails as well, which nobody notices.
Fail(w) ==
  \/ /\ job[w].pc \notin {"idle", "metadata"} /\ ~Committed(w)
     /\ End(w) /\ UNCHANGED <<files, disturbed, abandoned, raced>>
  \/ /\ At(w, "metadata")
     /\ \/ /\ env' = [env EXCEPT ![job[w].env] = Absent]
           /\ abandoned' = abandoned
        \/ /\ env' = env
           /\ abandoned' = abandoned \cup {job[w].env}
     /\ End(w) /\ UNCHANGED <<config, source, lockFile, disturbed, raced>>
  \/ /\ Committed(w) /\ job[w].pc \in {"build", "recheck", "write"}
     /\ Goto(w, "undo") /\ KeepJob /\ UNCHANGED <<files, disturbed, raced>>
  \/ /\ Committed(w) /\ job[w].pc \in {"undo", "restore"}
     /\ disturbed' = disturbed \cup {job[w].project}
     /\ End(w) /\ UNCHANGED <<files, abandoned, raced>>

\* The process dies; its operation lock is recovered by the next contender.
Crash(w) ==
  /\ Holds(w)
  /\ disturbed' = IF Committed(w) THEN disturbed \cup {job[w].project} ELSE disturbed
  /\ abandoned' = IF At(w, "metadata") THEN abandoned \cup {job[w].env} ELSE abandoned
  /\ End(w) /\ UNCHANGED <<files, raced>>

\* Someone edits a project's files without taking any lock.
Editor(p) ==
  /\ changes < MaxChanges /\ changes' = changes + 1
  /\ \/ \E c \in Config : config' = [config EXCEPT ![p] = c] /\ source' = source
     \/ \E s \in Source : source' = [source EXCEPT ![p] = s] /\ config' = config
  /\ <<config', source'>> # <<config, source>>
  /\ disturbed' = disturbed \cup {p}
  /\ fresh' = fresh \ {holder[p]}
  /\ raced' = IF config' # config
               THEN raced \cup {v \in Process : /\ job[v].pc \in {"replace", "restore"}
                                                /\ job[v].project = p}
               ELSE raced
  /\ UNCHANGED <<lockFile, env, holder, job, requests, abandoned>>

Perform(w) ==
  \/ AcquireOperationLock(w)
  \/ CheckDocument(w) \/ ResolveGraph(w) \/ ReadLock(w) \/ CompareLock(w)
  \/ BuildLock(w) \/ WriteLock(w) \/ Materialize(w) \/ FindEnvironment(w)
  \/ CreateDirectory(w) \/ CreateMetadata(w) \/ ReadMetadata(w) \/ UpdateMetadata(w)
  \/ \E next \in Config : ResolveEdit(w, next)
  \/ CompareConfig(w) \/ ReplaceConfig(w) \/ RecheckConfig(w) \/ RestoreConfig(w)
  \/ Fail(w) \/ Crash(w)

Next ==
  \/ \E w \in Process :
       \/ Perform(w)
       \/ \E p \in Project, k \in Requestable, e \in Environment :
            Request(w, p, k, e)
  \/ \E p \in Project : Editor(p)

Spec == Init /\ [][Next]_vars

-----------------------------------------------------------------------------
(* Properties.                                                              *)

\* A lockfile describes its project's configuration and tree, whatever edits,
\* syncs and updates have failed or died in between, as long as no editor
\* came and no edit died or lost its rollback after it wrote config.xiao; and
\* it does so again once one request has made or checked it undisturbed.
LockFollowsConfig ==
  \A p \in Project :
    /\ lockFile[p] # NoLock
    /\ p \notin disturbed
    /\ \A w \in Process : Committed(w) => job[w].project # p
    => lockFile[p] = LockFor(p)

\* An environment directory without metadata, which no request can repair, is
\* being filled at this moment, or is what a crash or a failed removal left.
BareOnlyIfAbandoned ==
  \A e \in Environment :
    env[e] = Bare => \/ e \in abandoned
                     \/ \E w \in Process : At(w, "metadata") /\ job[w].env = e

\* A lockfile changes only for a request that resolves: `lock` never replaces
\* one, --locked, --frozen and `install` never write one.
LockOnlyUpgradedOnRequest ==
  [][\A p \in Project : lockFile'[p] # lockFile[p] =>
       \E w \in Process :
         /\ job[w].pc # "idle" /\ job[w].project = p
         /\ \/ job[w].kind \in {"sync", "keep", "update", "edit"}
            \/ job[w].kind = "lock" /\ lockFile[p] = NoLock]_vars

\* What a request puts into an environment for its project is what the
\* lockfile says at that moment, unless an editor came in between: not only
\* for --locked and `install`, which compare, but for a sync that resolves.
EnvironmentFollowsLock ==
  [][\A w \in fresh : LET e == job[w].env  p == job[w].project IN
       /\ job[w].pc \in {"metadata", "update"}
       /\ job'[w].pc = "idle"
       /\ env'[e] # env[e] /\ env'[e] # Absent
       => /\ env'[e].maps[p] = lockFile[p].tree
          /\ env'[e].by = <<p, lockFile[p].fp>>]_vars

\* The text an edit or its rollback is about to replace is the one it
\* compared, unless an editor saved after the comparison.
EditReplacesComparedText ==
  \A w \in Process : w \notin raced =>
    /\ At(w, "replace") => config[job[w].project] = job[w].doc
    /\ At(w, "restore") => config[job[w].project] = job[w].graph

\* An install or a sync with --keep-extra keeps the mappings of the other
\* projects, unless another request wrote the environment after it was read.
ExtrasKeptUnlessRaced ==
  \A w \in Process : At(w, "update") /\ w \notin raced /\ job[w].kind \in KeepsExtra =>
    /\ env[job[w].env] \notin {Absent, Bare}
    /\ \A q \in Project \ {job[w].project} :
         job[w].current.maps[q] = env[job[w].env].maps[q]

\* What this module asks of the operation lock of a project, and of the lock
\* file behind it: no more than LockContract promises while it has not lapsed.
Place(w, p) ==
  IF At(w, "idle") \/ job[w].project # p THEN "out"
  ELSE IF At(w, "lock") THEN "waiting" ELSE "in"

OperationLock(p) == INSTANCE LockContract WITH
  Client <- Process, place <- [w \in Process |-> Place(w, p)], excused <- Process,
  lapsed <- FALSE

=============================================================================
