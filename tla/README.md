# OpenTofu in TLA+

This directory holds TLA+ specifications of the parts of OpenTofu that decide
whether the state of the infrastructure is recorded correctly: the concurrent
graph walker, the run of an apply with its interrupts, the changes that an apply
makes and their order, the moves before a plan, the two state managers that the
local backend writes to, and the client of the s3 backend. Each specification is translated
from the Go source in `src/`; `PROJECT.json` says which lines every definition
stands for. TLC checks the specifications on small instances and TLAPS proves
the most important properties for all instances.

## 1. Inventory

### How a command goes through the system

A command (`internal/command`) starts an operation of a backend
(`internal/backend/local`). The operation locks the state through a state
manager (`internal/states/statemgr`, `internal/states/remote`), reads it, and
gives configuration and state to Core (`internal/tofu`). Core builds a graph,
which the walker (`internal/dag`) visits with one goroutine per vertex; the
vertices of resources call providers, and after each call a hook of the backend
writes the new object to the state manager. An interrupt runs through the same
layers from outside, in goroutines of its own. At the end the operation writes
the resulting state and unlocks it.

### The parts that are modelled

| Part | State it keeps | Operations | What is hard | What makes it correct |
| --- | --- | --- | --- | --- |
| graph walker, `internal/dag/walk.go` | vertices and edges, for each vertex its dependencies and its channels, diagnostics by vertex | `Update`, `Wait`, goroutines `walkVertex` and `waitDeps` | `Update` replaces dependencies while goroutines wait for the old ones; five kinds of channels; a failure must reach everything downstream | dependencies first, failures cascade, `Wait` returns and misses nothing |
| remote state manager, `internal/states/remote/state.go` with `statemgr/migrate.go` and `plan.go` | the current snapshot with lineage and serial, and the one read last | `Lock`, `RefreshState`, `MutateState`, `WriteState`, `PersistState`, `WriteStateForMigration`, `Unlock` | several processes, requests that fail after they took effect, crashes with the lock held, plans that grow stale | one line of snapshots, no update of another process is overwritten, the result of an apply is on record |
| run of Core, `internal/tofu/context*.go` and the local backend's `StateHook` | the running operation with its condition variable and cancel function, the stop hook, the hook's `ForcePersist` | `acquireRun`, `Apply`, `releaseRun`, `Stop`, `watchStop`; the hook's `PostStateUpdate` and `Stopping` | `Stop` runs in any order with all of the others, under two mutexes | after a stop no node starts, what is finished is saved, providers are stopped only on request |
| apply operation, `internal/backend/local` and `command/meta.go` | stop and cancel contexts, the lock, `errored.tfstate` | `Operation`, `opApply`, `opWait`, `backupStateForError`, `RunOperation` | interrupt and kill at any moment, failed writes, goroutines that outlive the operation | the command ends, nothing that was made is lost, the lock is given back |
| file state manager, `internal/states/statemgr/filesystem.go` with `internal/flock` | the open file, the snapshot in memory, the one read, the one to back up | `Lock`, `RefreshState`, `MutateState`, `WriteState`, `PersistState`, `Unlock` | the lock belongs to an open file and not to the path; the file is rewritten in place; crashes between file operations | what was stored stays on record, the backup comes first, serials count changes |

| changes of resources, `internal/tofu/node_resource_*.go`, `states/sync.go`, the transformers of the apply graph | current and deposed objects with their dependencies, the planned changes, the graph | plan, create, update, replace in both orders, destroy, `MaybeRestore`, the saves of StateHook | a failure or a crash between two steps of a replacement; runs that repair what earlier ones left; edges that come from the configuration and from the state | every real object is in the state, users are destroyed first, one clean run repairs everything, no cycle |
| move statements, `internal/refactoring`, `addrs/move_endpoint*.go` | the statements, the state while it is rewritten, `MoveResults` | `FindMoveStatements`, `ImpliedMoveStatements`, `ApplyMoves`, `ValidateMoves` | statements chain and nest; the map of modules changes while it is iterated, in random order; validation comes last | nothing is lost, nothing is left behind, the result does not depend on the order |
| client of the s3 backend, `internal/backend/remote-state/s3` | the state and its digest, a lock file, a lock in DynamoDB | `Lock`, `Get`, `Put`, `Delete`, `Unlock`, force-unlock, workspace delete | two locks taken one after the other, commands configured differently, requests that fail or whose answer is lost, old reads | at most one holder, only the holder writes, a read is the latest, no lock is left |

They interact as follows. `LocalOperation` extends `ContextRun`: opApply starts
Apply and Stop in goroutines and waits for Apply; StateHook calls the manager
from every node. What the operation does with the manager (lock, refresh,
mutate, write, persist, unlock) is the protocol that the processes of
`RemoteState` and `Filesystem` follow; there the manager is modelled in detail
and the operation as a sequence of its calls, here it is the other way round.
The order in which the walk visits dependent nodes is `Walker`'s: `Apply` starts a
node when its dependencies have succeeded, which is what `DepsHonoured` and
`FailureCascades` say of the walker. `StateStore` is what a state manager expects of
its client and a command of its manager; `RemoteState`, `Filesystem` and `S3Client` implement it.
`Moves` comes before the plan with which `Apply` starts.

### The parts that are not modelled

| Part | State and operations | Why not, or not yet |
| --- | --- | --- |
| graph operations (`dag/dag.go`, `tarjan.go`) | transitive reduction, cycles, topological order | sequential algorithms; in the plan |
| values of a plan, `plans/objchange`, `EvalDiff` | values proposed and their validity | depends on values the models do not have; `Apply` takes the action as the provider's choice |
| the rest of the graph builders (`tofu/graph_builder_*.go`, `transform_*.go`) | nodes of modules, variables, outputs and providers; targeting | attaches data; `ApplyGraph` has what orders changes of resources |
| plans and plan files | a locked list, an archive | the staleness check of a saved plan is in `RemoteState` |
| instance expansion (`instances/expander.go`) | registrations by module path | in the plan |
| checks | a table under a mutex | no interaction |
| expression language, evaluation | pure functions of values | no small instance |
| `lang/grapheval`, `engine` | evaluation on demand, completion tracker | experimental or external; candidates |
| provider instances and plugins | clients under a mutex, conversions | a provider's `Stop` appears as an answer that comes |
| provider and module installation | downloads, a cache directory with locks | I/O; the lock is a candidate |
| the other remote state clients (gcs, http, consul, ...) | requests to a service | one lock each; `StateStore` is their contract |
| cloud and remote backends | polling of a server | decided behind the API |
| local backend's plan, refresh, workspaces | as apply, without the walk's writes | opRefresh repeats opApply's protocol |
| commands, backend migration, test framework | arguments and output around operations | `RunOperation`, `state push`, `force-unlock` are modelled |
| configuration loading, lock file, encryption, provisioners, formats | parsing, tables, cryptography, connections | sequential, or pure I/O |

`PROJECT.json` lists the same parts with their sources, and under "hazards" the
places in the code that are hard to test, each with the properties that watch
it.

## 2. Modules

### Walker

A walkerVertex is named by its vertex and by the `Update` that made it, and so
is each waitDeps goroutine; a channel has the name of the `Update` that made it,
and 0 is nil. `vertices`, `edges`, `vertexMap`, `diagsMap`, `upstreamFailed` are
the fields of `Walker`; `info` the changing fields of a walkerVertex; `walk` and
`waiter` the goroutines with their local variables; `canceled` and `done` the
closed channels.

| Actions | Code |
| --- | --- |
| `UpdateBegin` .. `UpdateStart` | `Update`, cut where goroutines can see the difference: vertices added, vertices removed (`CancelCh` closed), edges changed, each vertex's channels replaced under its `DepsLock`, then the old waiter cancelled and the new one started, then the walkVertex goroutines started |
| `WaitDepsSatisfied`, `WaitDepsCanceled` | `waitDeps` |
| `WalkEnter`, `WalkSelect*`, `WalkLoad` | the loop of `walkVertex`: its select, whose ready branches are chosen at random, and the check of `DepsCh` under `DepsLock` |
| `WalkCheck`, `WalkCallback`, `WalkSkip`, `WalkClose`, `WalkExit` | the rest of `walkVertex`, with its deferred calls in their order |
| `Wait` | `Wait`, which returns when the WaitGroup is at zero |

The callback is one step that succeeds or fails.

### RemoteState

A process is one run of a command with a manager of its own; the methods of a
manager exclude each other by its mutex, those of different processes do not. A
process locks (or gives up), refreshes, and then applies what it has just
planned (`ApplyDirect`), saves a plan, applies a saved one, or imports a file
(`state push`, migration). An apply calls `MutateState` and `PersistState` any
number of times, as StateHook does, and then `WriteState` and `PersistState` once more;
an error of the last one leads to `BackupStateForError`. `PersistUnchanged`,
`PersistChanged`, `PersistFirst` and `Put` are the paths through `PersistState`:
up to the request, and the request, which may fail before or after it took
effect. A process may crash anywhere; `ForceUnlock` then releases its lock.

A snapshot is a set of objects with lineage, serial and whether its encryption
is to be migrated. `history` and `unseen` are there for the properties only.

### ContextRun and LocalOperation

`ContextRun` has one call of `Context.Apply`, its resource nodes, the goroutine
of `watchStop` and the goroutine that runs `Stop`. `runVars` are the fields of
`Context`; `clHeld` says that `Stop` holds `Context.l` while it calls the hooks,
`hookLock` which node holds the StateHook's mutex. A node's life is `PreApply`
(where the stop hook may halt it), `ProviderReturns`, `PostStateUpdate` and
`PersistIntermediate`. Of the state there are five sets of objects: those that
really exist (`real`), Core's (`work`), the manager's transient snapshot (`mem`),
the one it last read or wrote (`base`) and the stored one (`saved`).

`LocalOperation` adds opApply from the lock to the unlock (`op`), the command's
interrupts (`ui`), and another process that works on the same state when it gets
the lock. `Exit` ends the process with all its goroutines at any moment after
the command has returned. Two constants choose the manager: `Intermediate`
(whether it accepts snapshots during the walk) and `SkipsUnchanged` (whether it
writes nothing if nothing has changed: `remote.State` does, `Filesystem` does
not); `UnlockHonoursContext` chooses the client. A write may fail, or be stored while its answer is lost;
a failed Unlock request leaves the lock (`holder = "left"`), which the command reports. The manager
here has read a snapshot; the one that finds none and refreshes inside `PersistState` is in `RemoteState`.

### Filesystem

`dir` is the file that the path names, `data` the content and `holder` the lock
of every file there has ever been, so that a removed file may still be open and
locked; `Original` is the one found at the start. Every file operation of the manager is a step: `Stat` and `OpenFile`,
`Lock`, `RefreshState`, `WriteBackup`, `Truncate`, `Write`, and in `Unlock` the
release, the second `StatEmpty` and the `Remove`. A process may crash at each step. A write may fail
at the backup or at the file, which is then empty or has a part of the snapshot (`Partial`) that no later
`Lock` or refresh can read; the process goes on and may write again, as a command does
after an intermediate snapshot that failed. `torn` has the processes whose last write ended so.

### ApplyGraph and Apply

`ApplyGraph` is the graph as operators: `DiffNodes` (the nodes that planned changes
lead to), `ReferenceEdges`, `DestroyEdges` (from the dependencies stored in the state)
and `CBDEdges` (which turns them round for create_before_destroy), `ForcedCBD` for the
resources that inherit it. `Apply` runs plan and apply again and again while the author
of the configuration changes it. `Plan` refreshes the state and chooses a change for every
resource; a node then fails to find its provider or its change (`StartFails`), or goes from `Start` to `Create`, `CreateNothing`, `Update`, `Destroy`,
`DestroyFails` or `EndEarly`, each with the writes that the code makes to the working state at
that point (deposing, tainting, `MaybeRestore`), and `StateHook` may save the
state after each. `Crash` ends the process and leaves what was saved last. `world`
has the real objects and which others each of them uses; which change needs a
replacement and how a request ends is the provider's choice. `fresh`, `lost` and
`clean` are there for the properties only.

### Moves

An endpoint of a statement is a path with the module that declares it, and its kind
(call, module instance, resource, instance) is that of its Go type. A `Path` is a sequence of
steps through module calls, each with its instance key. `CanChainFrom`,
`NestedWithin`, `SelectsModule` and the three `MoveDestination` methods are operators on such
paths, with their wildcards. `FindMoveStatements` collects explicit and implied
statements, `BeginStatement` takes one whose dependencies are through, `VisitAndMove` and
`VisitInVain` visit the modules of the state in any order (a module made meanwhile
may or may not be visited, as in a Go map), `PostPlanValidateMoves` accepts or rejects, and
`PlanAgain` does it all once more from the same stored state. `at` tells of every
address which object is there now, by its address before all moves. `blocked` is
`MoveResults.Blocked`, a map by the address that could not move: a later statement which
is held back at that address overwrites the entry of an earlier one.

### StateStore and S3Client

`StateStore` is an abstract specification with two variables: who holds the lock,
and the content. `S3Client` has the bucket, the table, and every command's progress;
each request to AWS is a step which may fail, or take effect and be
reported as failed. A command writes, creates or removes a workspace, or unlocks
by force. Commands may be configured with one lock or with both, as during a
change from one to the other. The refinement maps the holder to the command
between the return of `Lock` and the call of `Unlock`, and the content to the object in
the bucket. For `RemoteState` they are the lock and the remote snapshot. For `Filesystem`
they are the POSIX lock and the content of the original file; emptying it, which
a rewrite in place does first, counts as a write there and needs the lock as well.

### Others

`MCWalker`, `MCRemoteState`, `MCLocalOperation`, `MCFilesystem`, `MCApply`, `MCMoves` and
`MCS3Client` define the
instances and symmetries for TLC. `WalkerProofs`, `RemoteStateProofs`,
`LocalOperationProofs`, `FilesystemProofs`, `ApplyProofs`, `ConvergenceProofs` (which
builds on `ApplyProofs`), `S3ClientProofs` and `MovesProofs` hold the theorems.

A definition called a "Fault" is a wrong version of the one after it. No
specification uses it; it is there to see that a property notices the mistake
when the two are exchanged.

## 3. Runs

| Run | Instance | What it shows |
| --- | --- | --- |
| `walker_updates` | the graphs on one and on two vertices, three `Update`s at any moment, with fairness | `FailureCascades`, `WaitAccountsForAll` while there has been one `Update`; `DepsHonoured`: a vertex that leaves its wait while no `Update` runs has its current dependencies done; `WalkTerminates`: `Wait` returns |
| `remote_line` | three processes, two objects, two failed requests, two mutations each, over an absent or an existing object | `SerialNamesSnapshot`, `LineGrows`, `PlanMatchesState`, and `ImplementsStore`: the manager refines `StateStore` |
| `remote_import` | three processes over an existing object, with imports, one failed request | `ImportKeepsLineage`, `PersistedIsLatest`, `ResultIsRecorded`, `NoUpdateDestroyed` |
| `remote_created` | two processes, an absent object, one failed request | violates `ResultIsRecorded`, see below |
| `op_stopped` | two nodes, interrupt and kill, two failed requests to the store, another process, with fairness | `NothingLost`, `SavedAfterStop`, `ProvidersSpared`, `UnlockedWhenDone`, `NoLostUpdate`, `StopTakesEffect`, `OperationEnds` |
| `op_stucklock` | two nodes, a client that honours the context | violates `UnlockedWhenDone`, see below |
| `file_locked` | three processes, one object beside the old one, two files created, two writes of the state | `RecordSurvives`, `BackupFirst`, `SerialCoversChange`, and `ImplementsStore`: the file refines `StateStore` |
| `file_orphan` | two processes | violates `CreatedFileKept`, see below |
| `apply_runs` | two resources, fifteen configurations, three runs, two failures or crashes | `NothingForgotten`, `CleanRunConverges`, `UsersDestroyedFirst`, `UsersUpdatedFirst`, `CycleNeedsMixedOrder` |
| `apply_inherited` | two resources, one of them create_before_destroy only through the other, two runs | violates `PlanIsWalkable`, see below |
| `s3_lock` | three commands in five mixes of the two locks, a left-over lock, one failure or crash | `HolderIsLocked`, `ReadsAreFresh`, `LocksReleased`, and `ImplementsStore`: the client refines `StateStore` |
| `moves_twice` | up to three of thirteen moved blocks, four layouts of two modules, every state with one or two instances, two plans | `OldAddrIsTrue`; `NoneLeftBehind`: in an accepted plan no statement applies to anything any more but what `MoveResults.Blocked` accounts for; `SameResult`: two plans from one state agree |

Every run but those with a violation also checks the type invariant of its module,
except `remote_import`, whose module has it checked in `remote_line`, `walker_updates`, where it is left to its proof, and `moves_twice`,
where `OldAddrIsTrue` fixes the type of what matters.

### Bounds

- `walker_updates`: two vertices and three `Update`s suffice to replace dependencies
  twice before a walkVertex notices, and to remove a vertex and add it again, which
  are the cases that the re-check of `DepsCh` is for. What one walk does on larger graphs
  is not left to a bound: it is proved for all of them.
- `remote_line`: of three processes two can compete for the lock while a third
  holds a stale plan; two failures allow a lost answer and the failure of its
  repetition. `MaxSerial` is 12, which these runs do not reach. `remote_import`
  needs `MaxSerial`, since an import may be repeated for ever: 6 leaves room for
  three writes above the highest serial of a foreign file.
- `op_stopped`: two nodes let one be finished or inside its provider while the other has
  not started when the stop comes. Two failures fail an intermediate write
  and the last one. Managers that take no intermediate snapshots or always write
  (`Intermediate`, `SkipsUnchanged`) are covered by the proofs.
- `file_locked`: `MaxSerial` 3 allows two writes after the one found, so a write that failed
  can be repeated, `MaxFiles` 2 two removals and creations of the path. Three processes: one writes,
  one waits for the lock, one removes the path.
- `apply_runs`: two resources have a user and a used one, which is all that an edge is
  about; the configurations include one in which they change places, and one in which only the
  used one is left. Of three runs the first makes objects, the second replaces them and is
  interrupted, the third repairs. Two faults allow a deposed object to be left and the
  attempt to repair it to fail, and two deposed objects of one resource.
- `s3_lock`: the third command meets what the first two leave; the two with the same
  configuration may be exchanged. One fault is one failed or lost request or one death;
  the left-over lock stands for an earlier one.
- `moves_twice`: three statements make a chain of two moves with a nested one; two
  objects make one that moves and one in its way. The blocks include renames, moves
  into and out of modules, changes of an index, nesting, and blocks of inner modules;
  the layouts imply further moves where an index is missing or too much. One more
  configuration has the two blocks that nothing orders (section 6).

Runs that say `CHECK_DEADLOCK FALSE` are about processes that end: a walk after
`Wait`, commands that are done or crashed, the last of the runs or plans. `LocalOperation` has an
explicit step for the ended process, so that there a deadlock is a real one and is
searched for. Symmetry is used in runs without liveness only; processes, objects
and commands with the same configuration are interchangeable there (the remote
object's `a` and `b` and the resources of `Apply` are not, and are not permuted).

### Fairness

`Walker`: every goroutine that can take a step eventually takes one, an `Update`
that has begun ends, a callback returns. That is the Go scheduler's promise and, for the
callback, a provider that answers. No fairness is assumed between the branches of a
select; nobody need call `Update`.

`LocalOperation`: weak fairness of each goroutine (Apply, Stop, watchStop, every
node, opApply, RunOperation). Behind it: providers and the state's store answer,
the user answers the confirmation, a provider's `Stop` returns, the other process
writes and unlocks if it holds the lock. Nobody need interrupt, and no write need
succeed.

## 4. What the violations show

- `remote_created` (`remote/state.go:217`). The first write of a new state is
  stored, but its answer is lost. `readState` is still nil, so the next
  `PersistState` refreshes first, which replaces the manager's state by what it
  reads. If that is the last write of an apply, the result is replaced by the earlier
  snapshot, which is stored again, and success is reported.
- `op_stucklock` (`clistate/state.go:153`). After an interrupt `Unlock` is given
  the context that the interrupt has cancelled. A client that passes it to its
  request does not unlock.
- `file_orphan` (`statemgr/filesystem.go:443`). A process that created the state
  file and has written nothing removes it at `Unlock`. Another that has opened it
  in the meantime gets the lock of a file without a name and writes to it.
- `apply_inherited` (`transform_destroy_cbd.go:57`). A resource that is
  create_before_destroy because another one is loses it in the run in which that one stops
  using it, while the destroy edges still follow the dependencies in the state. If
  both are replaced in that run the graph has a cycle, and the plan cannot be applied.

## 5. What is proved

All theorems hold for any number of processes, nodes, vertices or objects and
any bounds, from the assumptions that the modules name (`WalkerAssumption`:
graphs have edges between vertices of the universe; `RemoteStateAssumption`: the
initial snapshot is absent or has a positive serial, sentinels are not values;
`ContextRunAssumption` and `FilesystemAssumption`: sentinels and ranges of the
bounds; `ApplyAssumption`, `S3ClientAssumption` and `MovesAssumption`: below). Each proof is an inductive invariant with one step or lemma per action.

- `WalkerProofs`: `TypeCorrect`, `DepsAreHonoured`, `FailuresCascade`, `WaitAccounts`. That a waitDeps goroutine has
  seen its dependencies done says nothing of the walkVertex that takes its answer,
  because the answer may be that of a replaced one. `IInv` follows the answer:
  `ChannelInv` says where it is (in the walkerVertex's `DepsCh`, in the goroutine's local
  copy, or taken), `DepsInv` which waitDeps and which dependencies belong to
  the current channel, `CancelInv` that only replaced ones are cancelled, `WaiterInv`
  that an answer means done dependencies or a cancellation, `UpdateInv` what an
  `Update` in progress has yet to do. `SwapEffect` and `SpawnEffect` state the two
  steps in which these relations change hands. The other two theorems are about
  the walk of one `Update`, which is what the program does, on any graph. `OneWalk` adds
  what only holds then: `SingleInv` (no channel is ever replaced), `DiagsInv` (what
  `diagsMap` and `upstreamFailed` say of a vertex that is done), `AnswerInv` (a waitDeps
  answers yes only if all its dependencies succeeded, and no only if one did not),
  `WaitInv` (what the WaitGroup has counted when `Wait` returns).
- `RemoteStateProofs`: `TypeCorrect`. Assuming `Locking` (with `-lock=false` nothing of this
  is true): `UpdatesSurvive`, and `RemoteIsStore`, the refinement of `StateStore`.
  Assuming further that there are no imports: `SerialsNameSnapshots`, `RemoteMovesForward`,
  `PlansAreCurrent`. `LineInv` joins `Exclusion` (whoever is between lock and unlock holds
  the lock), `Sight` (and has seen the latest snapshot), `Line` (the remote snapshot
  is the last of the history and has the highest serial), `Meta` (a manager that has
  read a snapshot is on its line and its serial, raised before every request,
  is not behind the remote one even if the answer to the last write was lost), `PutContinues` (a write under way continues the line, or
  repeats its last element with the same state), and `Fresh`, `Loads`, `Plans` for
  the commands. A lost answer is what makes this more than mutual exclusion.

  With imports, but from an object that exists (`Absent \notin Initial`; without this
  they are false, see `remote_created`): `PersistedAreLatest`, `ResultsAreRecorded`,
  `ImportsKeepLineage`. Their invariant `ResultInv` follows what the manager believes: `Knows` says that
  the `read*` fields describe the remote object, or that the answer to a write was lost
  and then the serial has moved on, so that `PersistState` cannot take the state for unchanged;
  `Synced` and `Settled` say what a success means before and after the last write,
  `Recorded` where the result of an apply is. `WalkerIsPersisted` adds, without imports,
  that the intermediate snapshots are those of the walk. With imports this is false: a forced
  import may store another state under a lineage and a serial that were used before,
  `PlanIsCurrent` then accepts a saved plan that was made from a different state, and as long as nothing
  has changed `PersistState` rightly reports that the manager's state is stored, which
  is not yet the walk's. It takes four processes, one more than the run has.
- `LocalOperationProofs`: `TypeCorrect`, `NothingIsLost`, `FinishedIsSaved`,
  `ProvidersAreSpared`, `StoppedStaysStopped`, `LockIsReleased` (if `Unlock` ignores its
  cancelled context) and `UpdatesSurvive` (if the manager skips unchanged writes).
  `Control` relates the places of the goroutines, `Stopping` what a stop has done
  to the run it found, `Recorded` the five sets of objects, `Shared` the lock
  and the other process's objects.
- `FilesystemProofs`: `TypeCorrect`, `RecordsSurvive`, `BackupsComeFirst`,
  `SerialsCoverChanges`. Two processes that believe they are locked have different files
  open (`Exclusion`); as long as the original file has its name all have the
  same one (`OneFile`); so `Kept`, `BackedUp` and `Counted` can speak of one writer. While its write
  is under way or to be repeated (`Rewriting`) the objects stored are in its memory; only if it leaves
  the file so (`Abandoned`) is nothing claimed.
  `FileIsStore` is the refinement of `StateStore`: `Exclusion` makes the process that believes it has locked
  the original file the holder of its lock, and only such a process empties or writes it.
- `ApplyProofs`: `TypeCorrect`, `NothingIsForgotten`, from `ApplyAssumption` (a configuration references
  what it declares, without cycles, and the resources are finitely many). `TypeInv` has, beside the types, what each node
  of the graph finds when it runs: `CreatorsOK` (no current object to overwrite, or the one to
  update or depose), `DestroyersOK` (its object, current or deposed), `RefusedOK` and
  `IdleOK`. Without these `Depose`, `MaybeRestore` and `Target` would have to be right in
  states that never occur. `TrackedInv` says in addition that what existed before the run is in
  the snapshot saved last, which is what a crash leaves.
- `ConvergenceProofs`: `CleanRunsConverge`, `UsersAreDestroyedFirst`, `UsersAreUpdatedFirst`
  and `CyclesNeedMixedOrder`.
  `OrderInv` relates plan, graph and walk: every change has its nodes, a creator depends
  on the creators of its dependencies, a deposed object's destroyer on the creator
  that replaces it, and what a node depends on has succeeded when it starts.
  `StateInv` says that an identity has one place in a state and that an unrecorded object
  of a dead process is in none. `CleanOK` is the part for a run without
  failures so far: what is in the state exists, each deposed object has a destroyer that has yet
  to run, and a resource that is done (`Done`) is as the configuration wants it
  (`Good`) and stays so, because what it references is done too or is updated in place.
  At the end all nodes have succeeded: of those that have not, one without an edge to
  the others could start (`AllSucceed`, from the graph having no cycle).
  For the order of destruction `UseInv` adds that the edges are those of the dependencies
  in the state as long as an object waits for its destruction or update (`EdgeOK`; a failed update
  changes the dependencies, but only to ones that refreshing had already merged in), and
  that the state knows of every use as long as nothing has ever failed (`UseOK`,
  `FaultFree`), which rests on `CleanRunsConverge` for the runs before.
  For `CyclesNeedMixedOrder` a refused graph is that of the state it stands beside
  (`RefusedGraph`), and `OrderedIsAcyclic` finds in every set of nodes one that depends on none of
  the others: the last in rank of the destroyers that are not create_before_destroy, else the first of the
  creators, else the last of the remaining destroyers.
- `S3ClientProofs`: `TypeCorrect`, `HoldersAreLocked`, `S3IsStore` (the refinement of
  `StateStore`), `LocksAreReleased`, `ReadsAreCurrent`, from `S3ClientAssumption` (any two
  commands have a lock mechanism in common). `TableInv` is about the conditional deletion
  of the item, `FileInv` about the unconditional one of the lock file, where a command
  that is about to delete must still find the owner it has read. `OwnerInv` and `FreshInv` hold
  as long as no request has failed: a lock is its owner's while it works, and the
  digest is the object's or about to be.
- `MovesProofs`: `OldAddrsAreTrue` and `NothingLeftBehind`, for any moved blocks, layouts and
  previous states, from `MovesAssumption` (a block moves a resource to a resource or a module to a
  module, as decoding checks; a block for a module names one; addresses of a state have a
  resource, and neither they nor blocks have wildcards; the modules of a layout are closed under parents). `CarryIs` says
  what a move does to the map of addresses, `StatementsAreOK` that both endpoints of every
  statement are of one kind, also of an implied one; so a move never merges two
  objects and `MoveResults` names where each came from.

  `NothingLeftBehind` says that one pass in topological order is enough. The lemmas on paths
  (`PrefixIs`, `SliceIs`, `ConcatIs`, `ThreeParts`) describe prefixes, slices and concatenations
  element by element, so that paths of any length need no induction; on them rest
  `CoversIs` (which modules an endpoint covers), `ModuleDestinationIs`, `ContainerDestinationIs`
  (what the `MoveDestination` methods return) and `MatchesAre` (what a statement finds in a module).
  `CoveredMatch` and `MeetIs` lead from what two endpoints match to `CanChainFrom` and `NestedWithin`,
  the conditions of the edges. `MovedOn` is the heart: if a move of t puts something in reach of s, then s waits
  for t, or s selected already the module that it came from, or s is not in its place. The
  invariant `PassInv` joins `OrderInv` (who waits for whom among what is begun and what is
  not), `PhaseInv`, `PathsInv` (the addresses in the state are well formed) and `LeftInv`: whatever a statement that has been begun still
  applies to is held back, or is in a module which it has yet to visit. `LeftInv` needs
  the notion of `HeldBack` by a neighbour: a module that cannot move keeps what other
  statements bring into it. TLC checked `OrderInv` and `LeftInv` on the instance of
  `moves_twice` before they were proved.

For these properties the bounds of the runs do not matter any more.

Only model-checked:

- the liveness properties `WalkTerminates` and `OperationEnds` (temporal reasoning with fairness and
  `ENABLED` is out of the prover's reach);
- `SameResult` of `Moves`: it compares the results of two whole iterations that take statements and
  modules in different orders. That neighbouring steps may be exchanged does not give it without
  an induction over the order, which the installed provers cannot do.

## 6. What is not claimed

The models have behaviours that no property excludes, because the code has them
and promises nothing else:

- If an `Update` removes a waiting vertex and a later one adds it again with the same edge, the edge
  is still in `Walker.edges` and the vertex gets no dependency. The program calls
  `Update` once per walk.
- A `Stop` that comes before `acquireRun` finds no run, and `acquireRun` resets the
  stop hook: the interrupt is forgotten. `StopTakesEffect` speaks of a `Stop` that found the run.
- A killed operation unlocks while its nodes still run, and the goroutine of `Stop`
  may still call the StateHook after the unlock. Until the process exits they may
  write without the lock. `NoLostUpdate` excludes a kill and failed writes, and the
  theorem asks for a manager that skips unchanged writes; `Filesystem` does not.
- A provider whose `Stop` never returns keeps Apply from returning.
- A file may be pushed over a state that has become empty whatever its serial, so with
  imports a serial may come back. `SerialNamesSnapshot`, `LineGrows` and `PlanMatchesState` are claimed without imports.
- With `-lock=false` processes overwrite each other's snapshots.
- An import into an object that does not exist yet may end with a new lineage; `ImportKeepsLineage` is
  claimed for existing objects.
- `Filesystem` rewrites an unchanged state without a backup, and the backup has the
  snapshot found by `Lock`, not those written since. `RecordSurvives` excludes files that a process emptied and left.
- `persistState` of `Filesystem` returns nil if it has no lock and cannot open the file;
  processes of the model have locked it.

- With a new, empty state file every `MutateState` of `Filesystem` reads the file again and
  forgets what earlier ones recorded (`filesystem.go:147`). The last `WriteState` of an apply has
  everything, so only intermediate snapshots are incomplete.

### Observed in `Apply`, `S3Client` and `Moves`

- A resource that is create_before_destroy only through another one, and whose sole
  change is an update, is stored with `CreateBeforeDestroy` false, and so is one whose
  destruction failed; the next run destroys it in the other order
  (`node_resource_destroy.go:81`). `CleanRunConverges` holds all the same.
- Deposed objects have dependencies of their own, but `StateDependencies` looks at the
  current object only: what two interrupted replacements have left is destroyed in any
  order. `UsersDestroyedFirst` is about objects that were current when the run began.
- An update that failed, or whose process died, leaves a state without the new
  dependencies; hence `Recorded` in the properties on order.
- If b becomes create_before_destroy in the run that removes a, which b used, the graph
  has a cycle, and also if b, which is create_before_destroy, is removed in the run that
  replaces a, because a does not inherit it any more. If the references of two resources are
  turned round and both are replaced, their destroyers depend on each other, as refreshing
  merges the new dependencies into the stored ones
  (`node_resource_plan_instance.go:367`). `CycleNeedsMixedOrder` describes all such plans.
- `putMD5` logs its error and returns none, so that `Put` succeeds although its comment
  (`s3/client.go:222`) says that it has to fail; every later `Get` then fails at its deadline.
- `s3Unlock` reads the owner of the lock file and then deletes it without a condition.
  Two overlapping force-unlocks of one ID can delete the lock of a third command; the
  model excludes the overlap where a command relies on the file alone. In the table the
  deletion is conditional.
- If the answer to the creation of the lock file is lost, the command is refused by its own lock
  and leaves it behind.
- `managedResourceExecute` returns without writing the object if `writeResourceInstanceState` fails
  (`node_resource_apply_instance.go:388`). That needs a resource type without a schema or a value that
  does not conform to it, which `apply` has tested before; the model leaves it out.
- `updateStateHook` copies one instance into the manager's snapshot. `StateHook` saves the whole working
  state. Whatever the code saves the model saves too, in a behaviour in which the nodes whose entries
  are not copied yet take their steps later: they are independent of the node that calls the hook.
- A workspace is removed after its lock has been released. A write at that moment can
  leave a digest without an object, and then every `Get` of the workspace fails.
- Two statements that move to the same place are rejected only if that place is in a
  declared instance of a module. If it is not (a block inside module a moves x to y,
  one in the root moves y to `module.a[0].y`, and a has no count), the statement that
  the random order puts first wins; if a third one moves `module.a[0]` on to a declared
  place, two plans from one state differ, against what `move_statement.go:202` expects of
  `ApplyMoves`. The same is true of two statements that move the same object.
  `Unambiguous` in `SameResult` excludes such pairs.
- If a module cannot be moved because its place is taken, another statement may still
  make a module inside it, which `MoveResults.Blocked` does not list; hence `HeldBack`
  looks at the modules around an object.
- A statement that moves a module into itself (`module.a` to `module.a.module.b`) may apply again to its
  own result, as often as the iteration happens to visit it. It is accepted if neither
  place is declared. `InItsPlace` excludes it from `NoneLeftBehind` and `SameResult`.
- `statementDependsOn` (`move_execute.go:272`) lets a statement that changes the index of a
  module not wait for nested ones declared deeper, taking them to be declared inside of that
  module. One that is declared between, in a module around it, moves objects into it all the
  same: with `x` to `module.a[0].x` in module b, and `module.b.module.a[0]` to
  `module.b.module.a` in the root, the object stays at `b.a[0].x` if the statement of the
  root happens to come first, although the graph is meant "to gradually move objects through
  potentially multiple moves each" (`move_execute.go:41`). `DeclaredBetween` describes such pairs,
  `InItsPlace` excludes them, and `moves_twice` has one. Without the exclusion TLC finds
  `NoneLeftBehind` violated there; `MovedOn` shows that two statements
  have no other way to miss each other.

### Abstractions

A state is a set of objects (no attributes, no outputs). In `ContextRun` a resource
node creates one object and the nodes do not depend on each other: creation,
replacement and destruction in their order are `Apply`'s. There every resource has one
instance and all belong to one provider; forgetting (`removed` blocks), `skip_destroy`, data sources
and targeting are left out. A lineage is a number, `Filesystem` has no lineages, a callback and a
provider's call are single steps. In `S3Client` a version stands for its digest. In
`Moves` every declared call and resource has an instance (count is not zero), so that a state has
no resource without instances, whose address `MoveResource` would find taken; statements are a set, two equal
`moved` blocks are one; and the walk between the moves and their validation does not fail.

## 7. Plan

Modelled first was what loses data if it is wrong. What is left, in this order:

1. `Expander`: registrations of instances in the order of the walk, with `Moves`' layouts
   then derived from the configuration instead of given.
2. `Apply` with several providers, where an edge that would close a cycle is dropped when
   it is added (`transform_destroy_edge.go:138`), and with forgotten objects.
3. Transitive reduction, cycle search and topological order as operators, checked
   against their definitions on all graphs of four vertices.
4. The lock of the provider cache, the completion tracker and the self-dependency detection, as
   far as they earn their place.

The rest of the repository is out of reach for reasons of its own, given in the table of
section 1: generated code and conversions (`tfplugin5`, `tfplugin6`, `planproto`), the legacy
SDK, values and their evaluation, parsing, and clients of services whose behaviour is
decided elsewhere.
