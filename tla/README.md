# A TLA+ verification of ANA's manager, orchestrator leaves and bridges

ANA runs AI agents in *workspaces*. At this commit the repository holds a
**manager** (`pkg/manager`) that creates, installs, probes and deletes workspaces
and keeps a catalog of plugins, **in-memory stores** (`pkg/storage/memory`), a
backend that puts a workspace in a **local directory**
(`pkg/manager/infraops/localdir`), the specification of one **agent**, Claude Code
(`pkg/manager/agent/claudecode`), an **agent registry** and an **id generator**
(`pkg/orchestrator/{registry,idgen}`) and three **bridges** that turn an agent's output into a stream of events
(`pkg/bridge/{cli,socket,rest}`). The rest of `pkg/orchestrator` is plans.

This directory models the parts with state and concurrency. Every definition is a
translation of source lines, listed in `PROJECT.json` under `map`.

## 1. Inventory

| Component | State | Operations | Interacts with |
|---|---|---|---|
| Manager facade, workspaces (`manager.go`) | started/stopping flags, `apiWg`, `createMu` | CreateWorkspace, DeleteWorkspace, Start, Stop | repository, controller, scheduler |
| Manager facade, plugins (`manager.go`) | none of its own | CreatePlugin, DeletePlugin | plugin repository, blob storage |
| Install controller (`workspace/controller.go`) | queue, `installRunning`, `installCancel`, `stopped`, one mutex, one condition variable | Submit, worker loop, runInstall, Delete, Stop | repository, InfraOps, AgentSpec, plugin storage |
| Probe scheduler (`workspace/scheduler.go`) | the loop, its context, a bounded probe pool | tick: watchdog and probes | repository, InfraOps, AgentSpec |
| Workspace repository (`memory/workspace_repo.go`) | rows by id, alias index, closed | Insert, Get, List, Update, UpdateStatusCAS, Delete, Close | called by all of the above |
| Plugin repository and storage (`memory/plugin_*.go`) | rows by id, name index, blobs | Insert, Update, Delete, Put, Get, Close | facade, controller |
| localdir InfraOps (`localdir.go`) | `initialized`, `cleared`, `clearing`, `activeOps`, root handle, condition variable | Init, Open, PutFile, GetFile, Exec, Request, Clear | the file system, other processes |
| Agent registry (`registry.go`) | rows, alias map, factories, default id | Register, Update, Enable, Disable, lookups | (none yet) |
| Socket bridge (`socket/agent.go`) | event channel, `closed`, `closeOnce`, connection | OpenSession, readLoop, Recv, Close | consumer, remote agent |
| CLI bridge (`cli/agent.go`, `agentio/stream.go`) | event channel, pipes, child process | Invoke's three goroutines, Recv, Close | consumer, child process |
| REST bridge (`rest/agent.go`, `rest/decode.go`) | event channel, response body, `doneEmitted` | Invoke, a decoder goroutine for SSE, JSON lines or one JSON value | consumer, HTTP server |
| agentio streams (`agentio/stream.go`) | the reader's buffer, its flag `closed`, its context | Recv, Close, CollectText, TextReaderAdapter's Read and Close | every bridge's channel |
| Plugin packages (`plugin/reader_zip.go`, `manifest.go`) | none: pure | openFromZip, the manifest's validation | CreatePlugin, the install worker |
| Agent spec and layout (`claudecode/spec.go`, `layout.go`) | none of its own | PluginDirectoryKey, Apply, Install, Probe | the workspace's directory |
| Id generator (`idgen.go`) | `lastUnixNano`, a mutex | nextID | (none yet) |
| builder, canonical encoding, protocol marker, logging | see section 8 | | |

What is hard here: workers, Deletes, probes, creates and Stop interleave between
repository calls that are atomic only one by one; the scheduler acts on snapshots;
installs outlive the watchdog; one condition variable serves two kinds of waiters
and is signalled rather than broadcast on Submit; contexts end at any point, and a
Stop whose context ends closes the stores under running work; directories are
replaced by other processes; channels fill up; connections break in the middle of a
line; a reader is closed under a Read; plugins are overwritten between the snapshot and
the install; clocks stand still. `PROJECT.json` lists these hazards at
their lines, with the properties that watch over them.

What makes a component correct, in a sentence each: an id is installed by one worker
and never beside its Delete; a row follows the status machine and does not stay in
`init`; index and rows agree; two workspaces never share a directory; no Update undoes
another's write; Stop leaves nothing half done and completes; a plugin row has its
bytes; Clear has the directory to itself and touches nothing else; no waiter misses its
wakeup; a workspace's directory holds its plugins as they were when it was created, and
nothing else; events come in order, complete or with an error; goroutines end; ids sort in
the order they were asked for.

## 2. Modules

The workspace manager is one state machine, split by component. `WorkspaceState`
declares its variables; the others add operators and extend each other in the order
below, and each takes the variables of the others as a frame (`otherVars`, `schedVars`,
`facadeVars`).

| Module | Models | A step is |
|---|---|---|
| `WorkspaceState` | rows, statuses, error codes, all variables | |
| `WorkspaceRepo` | the in-memory repository: `InsertOK`/`Insert`, `UpdateOK`/`Update`, `TransitionByWriter`, `UpdateStatusCAS`, `Delete`, `Close` | one call (one mutex) |
| `WorkspaceInfra` | the workspaces' directories as the manager sees them: `InitDir`, `PutFiles`, `ClearDir`, `ClearFails` | one InfraOps call |
| `InstallController` | `Dequeue`, the phases of `runInstall` (`StartInstall` .. `FinishInstall`), `Delete` (`DeleteBegin` .. `DeleteRemove`) | one critical section, repository call or InfraOps/AgentSpec call |
| `ProbeScheduler` | `Tick`, watchdog `FailTimedOut`, `ProbeOne`, `RecordChange`, `RecordReload`, `RecordWrite` | one repository call or probe |
| `WorkspaceFacade` | CreateWorkspace (`CreateCheck`, `CreateInsert`, `CreateSubmit`, `CreateUndo`), DeleteWorkspace, `Start`, `Stop*` | one call on another component |
| `WorkspaceLifecycle` | the composition: `Init`, `Next`, `Spec`, `FairSpec`, the properties, the refinement mapping | |
| `WorkspaceStatus` | abstract specification: one status machine per id | |
| `InstallQueue` | the controller's mutex and condition variable in detail | one critical section of `c.mu` |
| `JobQueue` | abstract specification of the install queue: no lock, counter or condition variable | |
| `PluginCatalog` | plugin repository, blob storage, CreatePlugin, DeletePlugin | one store call |
| `PluginAttach` | archives (`Opens`), layout (`Sanitize`, `MapPath`), the snapshot `Resolve`, `attachPlugins` (`Open`, `CheckDirectories`, `ApplyPlan`, `ApplyPut`), `Spec.Install` | one store call or PutFile |
| `LocalDir` | one localdir instance shared by concurrent callers, directories as inodes | one critical section of `ops.mu` or file-system call |
| `AgentRegistry` | the registry | one call (one mutex) |
| `IdGen` | the orchestrator's default id generator with concurrent callers | up to the mutex, under it, after it |
| `OrchestratorLeaves` | registry and id generator side by side; they share nothing | |
| `SocketSession` | one socket session | one select, read or channel operation |
| `CliStream` | one CLI invocation | one read, send or wait |
| `RestStream` | one REST invocation: `Invoke`, the decoder's goroutine, and the stream used by Recv, CollectText or TextReaderAdapter | one line, channel operation or critical section of the reader's mutex |
| `MC*` | instances for TLC | |
| `*_proofs` | theorems (section 5) | |

Correspondence worth knowing:

* **Workers.** `wpc[k]` is where worker `k` is in `runInstall`; `wctx[k]` is the job's
  context (`live`, `canceled` by Delete or Stop, `expired` by InstallTimeout); `wlatest[k]`
  is the local `latest`. An install that fails moves to `"fail"`, where
  `TransitionToFailed` does the compare-and-swap `init -> failed`.
* **The queue** is a set of numbered jobs: `Dequeue` takes the lowest number, Delete
  filters by id. In `InstallController` a waiter simply proceeds once its condition
  holds. `JobQueue` states a queue of that kind. `InstallQueue`, with its counter, its sleepers and its Signal,
  implements it, and so does `WorkspaceLifecycle` (`InstallsAreJobs`), with rows, directories and Stop around it.
* **Time.** `aged` holds the ids whose row is older than InstallTimeout; a row in `init`
  may become aged at any time. The watchdog and `ExpireInstall` look at it.
* **Directories.** `fs[p]` is the set of `<<workspace, part>>` at path `p`. `"root"`
  stands for the inode a workspace's Init made or adopted, so a handle may outlive its
  directory. `CanonicalDir` is what the manager compares (`filepath.Clean`), `LocalPath`
  what localdir uses (trimmed, then cleaned). `KeepDir` are the options with `keep_dir: true`, whose
  directory a Clear empties and leaves (`localdir.go:913`).
* **Early Deletes.** Most callers delete an id that CreateWorkspace has returned. The `Deleters` in `Listers` found
  theirs in a listing, so they may come as soon as the row is inserted, before its job is submitted.
* **Observations.** `early` holds the workspaces for which a Delete looked for the job before it was submitted, `uncleared` those whose Delete
  removed the row although it could not clear the directory. No guard reads them; the properties about directories name them as the exceptions.
* **Errors.** `Faults` says which external calls may fail for reasons of their own:
  `"install"`, `"probe"`, `"clear"`. Failures the code causes itself (row gone, directory
  not empty, store closed, context done) are always there.
* **Retries.** `retryRepoWrite` repeats a failed call. The in-memory repository's errors
  are permanent (row gone, status moved, closed), so one attempt has the outcome of three.
  It also ignores its context, so a canceled worker's write still takes effect.
* **Descendants.** In `CliStream`, `heirs` are the pipes held by processes that the child started and that outlived it. The code kills
  `cmd.Process` and nobody else, and sets no WaitDelay, so a pipe ends only when they let go of it too.
* **Bodies.** In `RestStream` a body is a sequence of lines, each with a payload; how they become
  events step by step (`ScanData` .. `Send`) is compared with `Expected`, which reads the body as a
  whole. Data lines that belong together make plain text: a JSON value that is spread over several lines and valid
  only as a whole is one line of the model. The names of events are left out.
* **Archives.** In `PluginAttach` a path is a sequence of segments and a name a sequence of tokens in
  which dashes count, since dashes are what `sanitizePluginName` drops; the hash of an archive is
  the archive. Each id is created once, an overwrite keeps id and name, and plugins of the same name
  live in different namespaces, which `resolveAttachedPlugins` does not tell apart.
* **Faulty variants.** Definitions introduced as "A faulty variant" are not part of any
  specification. Each is a plausible bug in the definition after it; putting it in that
  definition's place must break a property (`PROJECT.json`, `mutants`).

## 3. Runs

`tlc -workers 2 -config X.cfg M` in this directory.

| Run (`X.cfg`) | Instance | Checks | Distinct states |
|---|---|---|---|
| `Lifecycle` | 2 workspaces competing for 1 directory, 2 aliases, 2 workers, 1 Delete that may be early; every fault | `TypeOK`, `AliasIndexConsistent`, `NoSharedDirectory`, `OneInstallerPerWorkspace`, `InitHasOwner`, `NoLostUpdate`, `StatusMachine` | 1.9 M |
| `LifecycleShutdown` | 1 workspace in a directory that is kept or not, 2 Deletes, Stop at any point, its context expiring at any point, every fault | `DeleteExcludesInstall`, `NoOrphanDirectory`, `StopLeavesNothingBehind` | 2.4 M |
| `LifecycleLiveness` | `FairSpec`, 2 workspaces, 1 worker, 1 Delete, a Stop that waits | `StatusMachineFair`, `MisreportIsCorrected`, `StopCompletes` | 0.19 M |
| `InstallQueue` | `FairSpec`, 2 workers, 2 Deletes, 2 ids, 3 Submits | `QueuedJobHasWorker`, `SleepersHaveReason`, `JobQueueKept`, `DeleteGetsOn` | 0.14 M |
| `PluginCatalog` | 4 uploads, 2 removals, 2 names; writes fail, stores close | `CatalogComplete`, `UncontendedPluginIntact` | 0.18 M |
| `PluginAttach` | 2 plugins, 4 uploads out of 17 archives, 3 bytes of budget, one workspace with up to 2 plugins; every call may fail | `DirectoryIsSnapshot`, `NothingWrittenUnlessSound`, `ExpandedWithinLimit` | 0.18 M |
| `LocalDir` | 3 callers, 5 calls, 2 inodes; other processes write and replace; `keep_dir` on and off | `ClearExcludesOperations`, `NobodyOversleeps`, `NoStrayTemp`, `ClearedLeavesNothing`, `ReplacementContentsSurvive` | 0.45 M |
| `OrchestratorLeaves` | 3 ids, 3 aliases, 2 factories, blank names; 2 callers, 4 ids, a clock that shows 1, 2 or 4 in any order | `OneDefault`, `NoDanglingLookup`, `BindingsArePermanent`, `IdsFollowCalls` | 74 k |
| `SocketSession` | `FairSpec`, channel of 2, frames of up to 3 events, 6 events | `StreamIsDecoded`, `ReaderExits` | 5.7 k |
| `CliStream` | `FairSpec`, channel of 1, pipe of 1, up to 2 lines a pipe and 3 together, four formats, descendants on either pipe | `DoneIsLast`, `StderrComplete`, `ClosedStreamEnds` | 0.8 M |
| `RestStream` | `FairSpec`, channel of 1, 3 lines of 3 payloads, three formats, three kinds of callers | `StreamIsBody`, `CompleteOrError`, `OnlyFullChannelHolds`, `ReadReturnsAfterClose` | 0.76 M |
| `CleanupTimedOut` | 1 of each | violates `TimedOutDirectoryKept` | |

What the less obvious properties say:

* `InitHasOwner`: every row in `init` has a Create, a job, a worker or a Delete that will
  move it on. It is the safety half of "no workspace stays in `init`" and holds at every
  point between two repository calls, when installs are canceled too.
* `DeleteExcludesInstall`: past its wait, Delete has the id to itself, unless a Delete of it was early (section 7).
* `NoOrphanDirectory`: a workspace without a row has no file anywhere, and no directory but one that `keep_dir` keeps. Excepted
  are early Deletes, and Deletes whose Clear failed, which the code only logs (`controller.go:304`-`316`).
* `NoLostUpdate`: at the moment the scheduler or a worker writes back a row it reloaded,
  the row is what it read, or its status has moved and `Update` refuses.
* `NoSharedDirectory`: rows *and* files on the host. Whatever a failed Clear left behind, no install writes beside it, because Init refuses
  a directory that is not empty. Excepted are early Deletes, and paths that localdir takes for one and the manager for two
  (`AmbiguousPaths`, section 7).
* `StatusMachine` / `StatusMachineFair`: refinement of `WorkspaceStatus`, with `StatusOf`
  as mapping: an id is unused, then a live status, then gone. An id whose Create
  was refused is gone.
* `JobQueueKept`: refinement of `JobQueue` with its fairness. The mapping does not show who sleeps, and takes for an
  install under way a worker that is at it, not the counter `installRunning`. So it says that a Delete goes on only when really no worker
  installs its workspace and gives up only while one does, although it looks at a counter, and that a job is taken although the one Signal may go to a Delete.
* `UncontendedPluginIntact`: uses the observation `contended`, the names on which two
  calls overlapped. What happens to one plugin does not depend on calls on others.
* `CatalogComplete`: rows, name index and blobs fit together between any two store calls, when the
  stores close under running calls too.
* `DirectoryIsSnapshot`: every file in the directory is a file of the version of a plugin that the workspace's row
  names, at its place, or one of the two files the specification writes; after a successful install
  none is missing and the recorded paths are right. Archives in which a file lies under another file
  are excepted from the last part (section 7).
* `ExpandedWithinLimit`: compares the sum of all files with the limit; the code has a budget per file.
* `ClearExcludesOperations`: one Clear at a time, with no operation beside it, and the root handle is open
  while an operation uses it.
* `ClearedLeavesNothing`, `ReplacementContentsSurvive`: the two promises Clear has to keep
  at once, removing everything of its own and nothing of a path that was replaced.
* `StderrComplete`: `cmd.Wait` closes pipes, so it must come after both readers' end. The lines of stderr are in the stream once,
  in order and without gaps, to the last or to a failure that the stream reports and that ends it for stderr.
* `ClosedStreamEnds`, `OnlyFullChannelHolds`: after Close, or after the caller has left, the goroutines end *unless
  the channel stays full for ever*. Nothing is assumed of the consumer; the exception is the code's (a send without a
  select). A silent server keeps no goroutine, and neither does a child whose output nobody reads. On the CLI there is a second
  exception, the code's too: a descendant that for ever holds a pipe that is still being read (section 7). One that holds a pipe nobody reads any
  more keeps nothing.
* `StreamIsBody`: compares the events with `Expected`; `CompleteOrError` compares the text the caller was given, for
  CollectText and for a reader, with the text of the body, and demands an error where it is not whole.
* `IdsFollowCalls`: about ids *held* between mutex and return too, since callers overtake each other there.

**Why the bounds are enough.** Two workspaces suffice for every conflict the code knows
(alias, directory, queue order); a third would repeat them. Each of the controller's races
is between at most two workers, two Deletes and one tick. `Lifecycle` has the workers and a Delete that comes at any time after
the Insert; the second workspace there takes over the directory, and may take over the alias, of the
first. `LifecycleShutdown` has the two Deletes: they race for one workspace, and with its row gone nobody else is concerned. One worker and one Delete are
enough for `LifecycleLiveness` because Stop treats all alike. Two Deletes beside two workspaces, or two rows with two spellings of one
directory beside a Delete, are more than TLC can do in minutes. Without a Delete the two spellings pass the properties of `Lifecycle`, with failing installs and Clears
(one worker 0.2 M states, two workers 1.6 M), and the theorems of section 5 have none of these bounds. The probe pool has one slot:
probes of different rows touch different rows. In `LocalDir` the third caller is the one
who sleeps while an operation and a Clear are under way, and five calls allow Init, PutFile, a
failing Clear, Open, Clear. In the streams the channel is smaller than what is sent, so
that every sender blocks. Three lines allow a frame, its end and the beginning of another, or two data lines
and one that is too long; the payloads are text, the end marker, and an array with a Done in the middle and a
failure after it. Four uploads allow both plugins to be created and overwritten; the archives of `MCPluginAttach` have one
for each way to be refused and for each rule of the layout. Two callers and four ids let a caller be overtaken by two calls of the
other. Symmetry is used in runs without liveness only.

`MaxCalls`, `MaxSubmits`, `MaxEvents`, `MaxFrame`, `MaxLines`, `MaxTotal`, `MaxUploads`, `MaxIds` and `PipeSize` are bounds of the
models; `Capacity`, `Workers`, `ProbeWorkers`, `MaxExpanded` are the code's own parameters, made small.
Deadlock is checked everywhere except in `InstallQueue`, where nobody has to call anything
any more; elsewhere the end of a run is a stuttering action (`Terminated`, `Finished`,
`Stopped`, `Through`) with the condition under which the program may really stop.

## 4. Fairness

Weak fairness for goroutines of the program: each worker's, Delete's, Create's and probe's
next step, the ticker and Stop's steps. Go runs a runnable goroutine,
installs and probes work under deadlines, the ticker ticks. Strong fairness in one place: after its cancellation the scheduler's loop may
find a tick due as well (`scheduler.go:198`), and since select chooses at random among ready cases it does not take the tick every time. Nothing is assumed of callers, of the
clock (`Age`, `ExpireInstall`), or of which way a fault or a probe goes.
In `SocketSession`, `conn.Read` returns once the connection is closed or its context is done
and otherwise need not; Recv's cases are fair as a sum, since Go's select may always pick the same
ready case. In `CliStream` Invoke's goroutines are fair and nobody else: the consumer may stop receiving, and the child process and its
descendants owe nothing: they may write, be silent, or stay for ever. In `RestStream` the decoder's goroutine, CollectText, and a Read or a Close of the reader that has been called run on;
the server may fall silent, and nobody has to call Recv, Read or Close.

## 5. Proofs

`tlapm M.tla`, for all values of the constants. `Spec` is the specification of the module that the proofs are about (`QueueSpec` for the
install queue, which shares a proof module with localdir: both sleep on a `sync.Cond`).

| Theorem | Module | Statement (`Spec =>`) |
|---|---|---|
| `TypeCorrect` | `WorkspaceLifecycle_proofs` | `[](TypeOK /\ LocalsDefined)` |
| `AliasIndexCorrect` | | `[]AliasIndexConsistent` |
| `StatusRefinement` | | `StatusMachine`, the safety part of the refinement |
| `InstallerExclusion` | | `[]OneInstallerPerWorkspace` |
| `DeleteExclusion` | | `[]DeleteExcludesInstall` |
| `UpdatesAreNotLost` | | `[]NoLostUpdate` |
| `InitIsOwned` | | `[]InitHasOwner` |
| `InstallsImplementJobs` | | `InstallsAreJobs`, the refinement of `JobQueue` |
| `StopIsComplete` | | `[]StopLeavesNothingBehind`, if there is a worker |
| `DirectoriesAreExclusive`, `DirectoriesAreNotOrphaned` | | `[]NoSharedDirectory`, `[]NoOrphanDirectory` |
| `NoLostWakeup`, `NoOversleeping`, `InstallsCounted` | `ConditionVariables_proofs` | `[]QueuedJobHasWorker`, `[]SleepersHaveReason`, `[]RunningCounts` |
| `QueueImplementsJobs` | | `JobQueueSafe`, the safety part of the refinement |
| `LocalDirTypes`, `ClearIsExclusive`, `SleepersAreWoken` | | `[]TypeOK`, `[]ClearExcludesOperations`, `[]NobodyOversleeps` |
| `TempsAreRemoved`, `ClearIsComplete`, `ReplacementsSurvive` | | `[]NoStrayTemp`, `[]ClearedLeavesNothing`, the action property `ReplacementContentsSurvive` |
| `CatalogTypes`, `NoRowWithoutBytes`, `UncontendedPluginsStayWhole` | `PluginCatalog_proofs` | `[]TypeOK`, `[]CatalogComplete`, `[]UncontendedPluginIntact` |
| `InstalledDirectoryIsSnapshot`, `PluginsAreCheckedFirst`, `BlobsWithinLimit` | `PluginAttach_proofs` | `[]DirectoryIsSnapshot`, `[]NothingWrittenUnlessSound`, `[]ExpandedWithinLimit` |
| `SessionTypes`, `StreamIsFaithful` | `SocketSession_proofs` | `[]TypeOK`, `[]StreamIsDecoded` |
| `DoneEndsStream`, `StderrIsComplete` | `CliStream_proofs` | `[]DoneIsLast`, `[]StderrComplete` |
| `RestStreamIsBody`, `RestCompleteOrError` | `RestStream_proofs` | `[]StreamIsBody`, `[]CompleteOrError` |
| `DefaultUnique`, `LookupsComplete`, `RegistrationsPermanent` | `OrchestratorLeaves_proofs` | `[]OneDefault`, `[]NoDanglingLookup`, the action property `BindingsArePermanent` |
| `IdsOrdered` | | `IdSpec => []IdsFollowCalls` |

### The manager

**Types.** The type invariant is not inductive: what a worker writes is a row only if the
local it comes from was set. `LocalsDefined` says which locals are set at which control points,
and `TypeInv == TypeOK /\ LocalsDefined` is inductive (one lemma per group of actions).

**Rows.** `RepoSteps` reduces a step of the whole system to one of: nothing
happened to the repository, one row was written by Update, CAS or Delete, or a Create moved. Index and status
machine are then facts about a repository call (`RepoKeepsIndex`, `RowWriteMoves`). The refinement also
needs `RowsAreCreated`, that a row exists only for an id whose Create has inserted it, because the
mapping tells `unused` from `gone` by the Create's control point.

**Installs.** `InstallSteps` plays the part of `RepoSteps` for queue and workers. `DeleteExcludesInstall` needs
`DeleteClaimsId`: a Delete past its look at the queue is about an id whose Create is done, so nobody can queue the id again, or about one that is in `early`.

**Installs as jobs.** A Create's Submit, a worker's `Dequeue`, `FinishInstall` and `WorkerExit`, and a Delete's way to the point where it is alone are
steps of `JobQueue`; the phases of an install, probes, rows and what Stop does after it has closed the queue are not seen (`JobsUnseen`). That taking a job takes
one job away needs `OneInstallerPerWorkspace`, since `JobQueue` does not see a job's directory. It holds with early Deletes too. TLC has
checked it on the instances of `Lifecycle` and `LifecycleShutdown`; it is not among the properties of a run.

**Copies of rows.** `NoLostUpdate` compares a goroutine's copy with the row. `RowFate` says what one step can do to a row:
leave it, settle it from `init`, move it between `healthy` and `failed`, rewrite it by a
worker or a probe that holds its copy, or remove it. `HeldCopies` says that a probe holds a settled row and a worker one in
`init`. So whoever else writes the row moves its status to one the copy does not have, and a row that has gone does
not come back, since ids are not reused; with one installer per workspace no second worker holds a copy of the same row.

**Owners of `init`.** A row in `init` keeps its owner until somebody settles it; the case that needs an invariant of its own is a
worker's last step, and `SettledWhenDone` says that a worker at its cleanup has settled the row whichever way it left the install, as long as
the repository is open to write to.

**Stop.** `StopOrder` connects the phases of Stop with what they waited for: the scheduler's loop has ended once the controller is stopped,
workers exit only on an empty queue, and the repository closes after them. Together with `InitHasOwner` it leaves nobody who could own a row
in `init`. Without a worker a queued job would stay for ever, hence `Workers # {}`.

**Directories.** `DirectoryInv` goes along the life of a directory. `OneCreate`: `createMu` keeps the check of CreateWorkspace valid until the row
is inserted. `RowsAreApart`: so no two rows name one directory, as the manager spells it. `JobsHaveRows`: an install has its row under it for as long as it runs,
because a Delete waits. `FilesWereInstalled`, `FilesHaveRows`: what lies on the host is of a workspace whose job was taken, in the directory of its
row; without the row there is at most a kept directory. `InstallIsAlone`: between the Init of an install and its last write nobody else's files get into the directory, since Init found it empty and
no second row names it; it gives `FilesAreApart` for the files a failed Clear left too. `DeleteKnowsDirectory`: a Delete empties that
directory, but for what `keep_dir` keeps, before it removes the row, or the workspace is in `uncleared`. `NothingNew`: only a worker that runs its install adds to what a workspace has on the host. The theorems
have no hypotheses beyond the assumptions on constants: any callers, faults, spellings and `keep_dir`. The exceptions are in
the properties, and each of them is a thing the code does (section 7), so that none can be dropped.

### The install queue

`QueueInv == QueueTypeOK /\ RunningCounts /\ SleepersHaveReason /\ QueuedJobHasWorker`. The delicate
case is Submit: when all workers sleep, the Signal may wake a Delete. Then some install must be running, since
that Delete sleeps for one (`SleepersHaveReason`), and the count is of workers (`RunningCounts`), so
a worker is awake after all. Assumed: a finite, non-empty set of workers, distinct from the Deletes.

The refinement goes action by action. A wait and a wake-up are stutters (`WakeUnseen`, `WorkUnseen`, `CallsUnseen`), every other step is
the step of `JobQueue` of the same idea (`WorkerImplements`, `DeleteImplements`). The one that needs the invariant is the end of a Delete's wait: it has looked at the
counter, and `RunningCounts` makes zero the absence of an installing worker, and anything else its presence.

### localdir

`LocalDirInv` has three parts beside the types. `LockInv`: `activeOps` is the number of callers in an operation, a Clear that removes has seen it at
zero, and `clearing` announces it, so that nobody begins; the callers are finitely many, so that they can be counted (`CountStep`). `SleepInv`:
who sleeps has a condition that does not hold; it is inductive because every step that could make one true broadcasts. `FilesInv`: a directory that
took the place of ours has none of our files, and what Clear has still to remove is in the listing it took. The last one needs `LockInv`, since a
PutFile beside the Clear would add a file after the listing.

### Plugins

**Catalog.** `UploadInv` and `RemovalInv` say which ids a call works on: an upload under its own id, until it finds the name taken; a removal on a row
that is gone for good. That is enough for `CatalogComplete`. `Alone` gives the observation `contended` its meaning, one call at a
time on a name that is not contended, and `WholeInv` says what that one call knows and what state it left the plugin in, step by step.

**Attach.** `OpenInv`: the opened readers are a prefix of the snapshot, and no file is written before they are all open and compared. `FilesKnown`:
every file is the snapshot's or the specification's. `ProgressInv`: how much of it is there at which point. That a later file does not
overwrite an earlier one rests on `PathsApart`, a lemma about `MapPath`: files of plugins with different directories have different places, because the
places agree on the position of the directory name. Assumed of archives: their entries are a sequence of records with a path of names and a size that is a natural number.

**Limit.** The reader gives each file what the files before it left of the budget, and the property is about the sum. `FitsInLimit` connects the two by induction over
the entries; `CatalogOpens` says that rows and blobs are archives that the reader accepted, those that a failed overwrite puts back included.

### Streams

**Socket.** `FlowInv` lays the events end to end: returned by Recv, in the channel, in readLoop's hands. `ReaderInv` says when readLoop may hold or
drop any, `OnceInv` that `closeOnce` closes once, whoever is first.

**CLI.** `OrderInv`: the Done comes after the goroutine of stderr is through, because it is joined before `cmd.Wait`. `DoneInv` is `DoneIsLast` with the
control point at which the Done is there. `StderrInv` says where the lines of stderr are: the first in the stream (`StderrListed`), then at most one in
the goroutine's hands (`StderrHeld`), then the rest in the pipe (`StderrPipe`). Other senders add events in between; the lemmas
`PutLine`, `PutFailure` and `PutOther` say what a send does to the part of the stream that is stderr's.

**REST.** The decoder works line by line, and `StreamIsBody` and `CompleteOrError` speak of the body as a whole. `RestInv` connects them. `FrameInv`: the frame is the
group of data lines just before the next line, none of which has been decoded yet. `BodyInv`: everything the decoder has made,
whether received, in the channel or in its hands, is what the lines before the frame stand for; at its end, either that of the whole body, with a Done
where the body has none, or a part of it followed by a failure that comes before anything that could be taken for the end. `DecInv` and `DoneInv` say how the end is
reached, `CollectInv` and `ReaderInv` what each kind of caller has made of the events it received. `Expected` flattens the events of
all groups; that another line adds the events of its group to it is `FlattenSnoc` and the lemmas after it. It holds for bodies of any length, any
payloads and any capacity.

**Induction over data.** A theorem of the library that takes a predicate cannot be used here, so induction is done by hand: `Least` derives from the
well-foundedness of `<` on the naturals that a non-empty set of numbers has a least element, `Induct` that a set with 0 and all successors has all
numbers. Every inductive argument above (`TotalExpanded`, the flattened events) is about the set of numbers for which the claim holds.

The first attempt at `BodyInv` failed for a reason in the model: three `CASE` expressions of `RestStream` and one of `CliStream` had guards that
overlap. TLC takes the first that holds, TLA+ any. They are now chains of `IF`, which have the order of the code's own conditions.

### The orchestrator's leaves

The theorems are about each leaf's own specification. The run explores both side by side (`LeavesSpec`), where a step is one of either with the other
unchanged.

**Registry.** `RegistryInv == TypeOK /\ OneDefault /\ AliasesConsistent /\ HasFactory`; `StoredFacts` says
what the common write of Register and Update does to each row.

**Id generator.** `IdsFollowCalls` speaks of the stamps being held; `IdInv` adds that `lastUnixNano` bounds every id
returned and every stamp held, so that the next stamp, which is greater, is new. It holds for any set of callers
and any set of natural times; the bound on the number of ids plays no part.

### Assumptions, and what is only model-checked

The assumptions on constants (`NoRow` is not a row, `NoId` not an id, `Blank` not a name, `NoPlugin` neither an upload nor a row,
`ProbeWorkers > 0` and so on) are `ASSUME`s that TLC evaluates in every run.

Every safety property of every passing run is a theorem. Only model-checked are the properties of a `FairSpec`, liveness being out of the prover's reach:
`StatusMachineFair` and `JobQueueKept` (their safety parts are proved), `MisreportIsCorrected`, `StopCompletes`, `DeleteGetsOn`,
`ReaderExits`, `ClosedStreamEnds`, `OnlyFullChannelHolds`, `ReadReturnsAfterClose`.

## 6. Findings

* **`CleanupTimedOut`.** `runInstall` keeps the directory of a timed-out install "for diagnosis"
  (`controller.go:502`), and knows it by the code `install.timeout`. A job that waits in the queue
  longer than InstallTimeout is failed by the watchdog; a tick probes the failed row, finds no directory
  and overwrites the code; the worker then takes the job, installs, finds `failed` with another code
  and clears the directory.

## 7. Further observations

Each of these is a statement of a document or a comment that the models contradict. They have no run of
their own; add the property to the configuration named, or change the constant, to see the
counterexample.

| Statement | Model | To reproduce |
|---|---|---|
| "`healthy` is persisted only after the post-install probe succeeds" (`manager/DESIGN.md:920`) | The scheduler also probes failed rows, so a half-installed one whose probe succeeds becomes healthy. | `HealthyOnlyAfterInstall` in `Lifecycle` |
| "`failed` is persisted before any cleanup that destroys evidence" (`DESIGN.md:919`) | The row may have gone from failed to healthy when a late worker clears its directory. `MisreportIsCorrected` holds: a later tick notices. | `CleanupOnlyAfterFailed` in `Lifecycle` |
| Delete "waits until no worker is still running that install" (`controller.go:229`) | A caller who finds the id by listing between Insert and Submit deletes it before its job is queued. | `DeleteAlwaysExcludesInstall` in `Lifecycle` |
| "deleting a non-existent workspace returns ErrWorkspaceNotFound without side effects" (`DESIGN.md:393`) | The slower of two racing Deletes clears the directory after the row is gone. | `DeleteOfGoneHasNoEffect` in `LifecycleShutdown` |
| the manager "refuses to register two workspaces with the same canonical path" (`localdir/PLAN.md:157`) | `manager.go:851` does not trim spaces, `localdir.go:139` does. | `OneWorkspacePerPath` in `Lifecycle` with `DirOptions` and `Paths` `{plain, padded}` and `LocalPath <- Trimmed` |
| DeletePlugin "removes the zip from the backend" (`DESIGN.md:405`) | An overwrite whose Update fails because the plugin was deleted puts the old blob back. | `NoOrphanBlob` in `PluginCatalog` |
| An overwrite is "atomic at the manager level" (`DESIGN.md:455`) | `CreatePlugin` writes blob and row in two calls without a lock (`manager.go:330`, `:348`); two overwrites can leave the row of one over the blob of the other, and `attachPlugins` then refuses the plugin for its hash. | `OverwriteIsAtomic` in `PluginCatalog` |
| "the bridge contract guarantees that closing the stream returns goroutines" (`orchestrator/invoker/PLAN.md:120`) | A decoder that waits for room in the channel is not woken by Close. | `CloseReturnsGoroutine` in `RestStream` |
| the same | Close of a CLI stream kills the direct child only (`cli/agent.go:102`). A descendant that holds stdout or stderr keeps the reader of that pipe, which runs to EOF before `cmd.Wait` (`:143`), and no WaitDelay ends it. | `CloseEndsGoroutines` in `CliStream` |
| A session "MUST NOT let `Recv` return a terminal stream-closed error while events are still queued" (`orchestrator/DESIGN.md:644`) | Recv's select may pick `closed` while events are queued. | `DrainBeforeTerminalClose` in `SocketSession` |
| "do not remove the replacement path" (`localdir.go:922`) | A replacement between the check and `os.Remove` goes if it is empty; `ReplacementContentsSurvive` says that nothing more can happen. | `ReplacementKept` in `LocalDir` |

`DESIGN.md:932` says that a failed overwrite leaves the new blob behind the old row; the code
puts the old blob back (`manager.go:349`), which the model follows.

Behaviour that the models show and no document decides:

* Delete removes the row although the factory, Open or Clear failed, and only logs it. The files stay, nobody's, and
  later workspaces in that directory fail their Init, until the Delete of one of them clears it.
* REST: an object with an `error` field is a failure even if the field is `null`. The branches for decode errors
  cannot be reached, because what is not JSON becomes text. When the connection breaks, the unfinished frame is emitted as
  an event before the failure; `CompleteOrError` says that the failure always follows. Events after a Done in
  mid-stream reach CollectText and not the reader. A reader of a REST stream always meets a Done before the
  end, so its branch for ErrStreamClosed is never taken there.
* Plugins: an archive whose last file is empty and whose other files use up the budget exactly is refused, and accepted with the empty
  file earlier. A file `skills` beside `skills/a` is accepted and the second never placed. A nested path outside the
  canonical sections, or a name of nothing but dashes, is accepted at upload and fails every install.
* The sequential generator's ids sort only up to ten digits. A listing of plugins pages by offset, so a deletion between two
  pages hides a plugin from it.

## 8. What is not modelled

* **Abstracted.** Row contents other than status, error code, alias, directory and the plugins' placement;
  timestamps other than the age of an `init` row; counters and logs; request validation; the scheduler's paging (a snapshot is one
  page, 100 rows) and the listings; errors of the blob storage's Put; the one Get that Delete's log lines need.
* **localdir.** Path sanitising and option parsing (pure functions on strings), a path that is not a directory or a
  symbolic link, subdirectories. Init's emptiness check and its root handle are one step with respect to other
  processes. In `WorkspaceInfra` other processes do nothing.
* **Repository contexts.** `newRepoWriteContext` derives its five seconds from the job's context at the start
  of the install. The in-memory repository ignores contexts; for one that does not, results of slow or canceled
  installs would be refused. Planned as a variant of `WorkspaceRepo`.
* **Streams.** Request encoding, custom encoders and decoders, what events carry besides their type and whether they have text,
  empty SSE data, Reads with a buffer smaller than the text.
* **Archives.** Zip and TOML themselves, the limit on compressed bytes (a failing call), the manifest's rules on versions, lengths and metadata
  (the field `valid`), file modes, the contents of the seed files, `LayoutPaths` (which the manager does not call). Names have at
  most 64 characters, so that the hash suffix of longer ones is never built.
* **Not modelled.** The builder and the sets of specs and factories (sequential, before Start), the canonical encoding and the protocol
  marker (pure functions on JSON and strings, without control), the sequential and the manager's random id generators, logging.
  The orchestrator's sessions, tasks, events, audit, invoker and prompt have no code at this commit.

## 9. Plan

1. *Done:* the manager's lifecycle as a whole and its components, the install queue's condition variable, plugins from upload to
   placement, localdir, registry and id generator, all three bridges with the consumers of their streams. Every safety property of a run is
   proved, and the safety part of all three refinements.
2. *Prove next:* type correctness of `CliStream`, `PluginAttach` and `IdGen` as theorems in their own right.
3. *Model next:* a repository that looks at its context; a directory that disappears under the manager; the plugins of a workspace
   and its lifecycle in one model, so that a Delete clears what `ApplyPut` is writing.
