# TLA+ models of the local runner of `ya` and of its local cache

yatool builds, tests and packages a monorepo. Its front end (`devtools/ya`) asks
`ymake` for a graph of build nodes and executes it, locally or with the help of a
distributed build. This project models the two parts where processes and threads meet:
the *local runner* (`devtools/ya/yalibrary/runner` and `yalibrary/worker_threads`), where a
mistake means a build that hangs, runs a command too early or twice, or loses outputs; and
the *local cache service* (`devtools/local_cache`, C++), one server per user that keeps
artifacts for all builds of the machine, where a mistake means two servers in one database,
an artifact that is collected while a build uses it, or one without its files.

All paths below are relative to `src/devtools/ya/yalibrary` unless they start with
another directory; `local_cache/` is `devtools/local_cache/`. `PROJECT.json` maps each definition to the lines it stands for.

## 1. Inventory

### The runner

| component | state it keeps | operations |
|---|---|---|
| `runner/topo.py`: `DisjointSet`, `Topo` | groups of nodes, dependencies, who awaits whom, counters of awaited groups, scheduled and completed nodes, callbacks, activation order | `add_node`, `add_deps`, `merge_nodes`, `schedule_node`, `notify_dependants`, `replay` |
| `runner/runqueue.py`: `RunQueue` | tasks not dispatched yet, a counter of threads that are dispatching, a `Topo` | `add`, `dispatch`, `dispatch_all`, `pending`, `replay`; the wrapper that runs a task |
| `runner/task_cache.py`: `TaskCache` | one task per node, pattern or resource, under a lock | call: find, or create and add |
| `worker_threads`: `WorkerThreads` | a heap of actions per set of resources, resources in use, number of active actions, a queue of results, one condition variable | `add`, the worker loop (`take_or_wait`, `execute`), `next`, `join` |
| `active_state`: `ActiveState` | whether and how the build is stopped | `check_cancel_state`, `stopping`, `stop` |
| `runner/runner3.py`: `TaskContext` | all of the above | `run`, `_process_queue`, `exec_run_node`, `fast_fail`, `dispatch_uid`, `signal_ready` |
| `runner/runner3.py`: `CapCalculator`; `tasks/run.py`: `RunNodeTask.res` | the resources the machine has; what a node takes | called whenever a worker looks for work |
| `runner/tasks/prepare.py` | nodes to process, seen nodes, futures, a `Topo` of its own | a walk over the graph by three threads that creates the tasks |
| `runner/build_root.py`: `BuildRoot` | a directory, a reference count, created, ok | `create`, `inc`, `dec`, `steal`, `validate`, `delete` |
| `runner/tasks/{cache,dist_cache,run,result}.py` | - | tasks that restore, run, upload and link the outputs of nodes |

How they work together: `TaskContext.run` adds `PrepareAllNodesTask` to the run queue and
then loops in `_process_queue`, which takes results out of the pool. The preparation asks
the caches for each node and adds tasks that restore it or run it. `RunQueue.add` enters
a task in `Topo` with its dependencies; when `Topo` finds it ready it hands out a
callback, and the thread that made it ready calls `WorkerThreads.add`. A worker takes the
task when its resources fit, calls it inside `RunQueue._Wrapper`, which notifies the
dependants in `Topo` (unless the task raised), and puts the result in the queue of main.
A task may add further tasks while it runs: a restore that misses adds, *joint* with
itself, the task that runs the node, so that whoever waits for the first waits for the
second. In a distributed build another thread dispatches the download of a result when
it arrives (`build/ya_make.py`, lines 2040-2080) and sweeps up at the end.

### The local cache service

| component | state it keeps | operations |
|---|---|---|
| `local_cache/psingleton`: `TFileReadWriteLock` (`systemptr`), `TSingletonServer` | a lock file with the name of the server, flock on it; the state of the server (suspended, processing, shutting down), its grpc server, its back ends | find or install (`TryToReplace`), replace or halt (`Write`, `HardStop`), `StartProcessing`, `StopProcessing`, `Shutdown`, `StopLocked`, `Cleanup` |
| `local_cache/ac/db`: `TACStmts`, `TCASStmts`, `TGcQueriesStmts` | SQLite tables: uids with counts of requests, blobs with counts of references, who requested what | `PutUid`, `GetUid`, `HasUid`, `RemoveUid`, `UpdateAcsRefCounts`, `CleanSomething` |
| `local_cache/common/db-running-procs`, `common/dbbe-running-procs` | tables of processes, of tasks, of their links; a queue of processes to look at | `InsertRunningProc`, `DropDeadProc`; a thread that watches the processes of builds |
| `local_cache/ac/dbbe` | queues in memory, counters of requests | the thread of the collector; what a restart does |
| `local_cache/ac/fs`: `TFsBlobProcessor`, `TTransactionLog` | files of blobs, stash directories | moves files into and out of the store with commit and rollback |
| `local_cache/ac/service` | - | the grpc calls; removes a uid that made a call fail |

How they work together: whoever wants the cache starts a process, which finds the server in
the lock file or becomes it. Builds send it requests with their pid, and lock the uids
they use by doing so. One thread of the server finds out which processes have ended, marks
their tasks dead and wakes the collector, which gives up the requests of dead tasks and
removes uids that nobody has requested. A request changes tables inside one SQL transaction
under one mutex, and files beside it, partly before, within and after the transaction.

### Hard behaviours

* Callbacks run outside of `Topo`'s lock, on any thread, several at the same time.
* Main decides that the build has ended from three counters under two locks.
* Condition variable with single notifications and a sleep without timeout.
* Failures: a task raises, a task stops the build, `add` raises behind a stop, all while
  other threads are between a check of the state and the use of what they saw.
* Build roots: one reference count shared by tasks that know nothing of each other.
* The same graph is planned by the preparation and by tasks that are running already.

* Local cache: processes that replace each other while either may die; rowids that are used
  again; queues that a crash forgets; SQL and the file system, committed one after the
  other; stash directories that removals share and tidy up outside of the mutex.

`PROJECT.json` lists each of them under "hazards", at its line, with the properties that
are aimed at it.

### What makes the components correct

| component | properties |
|---|---|
| Topo | callback once, after the whole groups of the dependencies, in the step that makes it possible; dependencies frozen then; the replay is a topological order |
| run queue and main loop | a task runs once, after its dependencies ended well; the assertions of Topo hold in any interleaving; the loop stops only when everything is done; after a failure it stops all the same, with the exception |
| worker pool | the cap is respected and usage is exact; the number of active actions is exact; every queued job is taken; the pool can be joined |
| resources | every node fits some idle machine state; `cpu: all` means alone |
| preparation | tasks of dependencies exist first; each node considered once; the plan is complete and has nothing needless; it ends on errors |
| psingleton | one server works on the databases of a lock file; a server that answers can be found; nobody waits for ever; a server told to shut down ends |
| locks of uids | counts of requests are exact; what a running build locked stays; what dead builds locked is given up in the end, across crashes |
| store of blobs | counts of references are exact; a row that was committed has its file; a get delivers whole; nothing is left behind |
| build roots | no use after deletion; counters neither underflow nor revive; deleted exactly when all have taken the outputs |

### The rest of the repository

Not modelled, with the reasons in `PROJECT.json`: the stores of the local cache
(`store/`, the uid, lru, ring, result and timeline stores of the runner, the chunked
queue), `BuildRootSet` and the file locks between processes, distributed stores,
fetchers, displays and logs, the toolscache half of the local cache service (its tables; it
shares the singleton and the code that watches processes), the recipe manager, executor and cache collector, `ymake` and
`yexport`, test node generation, command line handlers, build configuration and scripts,
and third-party code.

## 2. Modules

```
TaskGraph  <--implements--  Topo  <--EXTENDS--  RunQueue        (main, workers, distributed build)
                              ^-----EXTENDS---  PrepareNodes    (a Topo of its own, the pool of futures)
                              ^-----EXTENDS---  TopoProofs
RunQueue, TopoProofs      <--EXTENDS--  RunQueueProofs
PrepareNodes, TopoProofs  <--EXTENDS--  PrepareNodesProofs
WorkerThreads      the condition variable, heaps, usage: the pool that RunQueue abstracts
RunnerCap          what a node takes and what the pool allows: Need and Caps of WorkerThreads
   ^--EXTENDS-- PoolProofs     (both of them: a pool whose jobs are the nodes of a runner)
BuildRoots         reference counts under the tasks that RunQueue and PrepareNodes order
   ^--EXTENDS-- BuildRootsProofs

PSingleton         processes, the lock file, the life of a server
   ^--EXTENDS-- PSingletonProofs
ACLocks            requests, the thread that watches processes, the collector
   ^--EXTENDS-- ACLocksProofs
ACStore            transactions of the server over tables and files
   ^--EXTENDS-- ACStoreProofs

MC<module>         instances for TLC
```

Names follow the source: `AddDeps` is `add_deps`, `whoAwaits` is `_who_awaits`, and so on.
A definition that is headed by the word *Mutant* is a plausible mistake in the definition
below it. It is used by no specification: `PROJECT.json` names, for each property, a
mutant that makes the property fail in the same run, which shows that the run reaches the
situation the property is about.

**TaskGraph** is what the scheduler promises, with no counter in it: after every step the
started tasks are exactly the scheduled ones whose dependencies' groups are finished.

**Topo** has one action per method. Each method runs under `Topo._lock`, so it is one
step; a callback handed out is counted in `fired`. Guards are the assertions of the code
and the discipline of its docstring (a node notifies once, from its callback); that the
run queue keeps the discipline is checked in RunQueue (`AssertionsHold`), not assumed there.
The union-find is represented by the sets it stands for.

**RunQueue** makes each thread a stack of frames, one per Python call it is in, and each
access to shared state a step: taking and releasing `RunQueue._lock`, `TaskCache._lock`
and `_condition`, `DispatchingCounter`, each callback, the check of the state and what
follows it, the result of a task. What main and the tasks do is a constant, a program of
`add` (with its arguments), `process`, `dispatch_all` and `signal_ready`. Exceptions
unwind frames (`Throw`). The thread `Dist` reports uids, ends early or late, and sweeps.

**WorkerThreads** has what RunQueue leaves open: heaps per resource set, the choice of a
job by type and priority, `notify` that wakes one sleeper, `wait` that sleeps until woken,
jobs that add jobs (also in place), and a cap that may differ between two looks.

**RunnerCap** computes both sides of the comparison `k + usage <= cap` from the options.
`opts` and `node` range over all options and nodes; the model has no other state.

**PrepareNodes** is the loop of `PrepareAllNodesTask` (batches, futures, `cf.wait`), the
threads of its pool between the calls of `_process_node`, and runners that execute the
tasks created so far; `answer` is what `_get_node_resolve_status` says. One wait may take
any part of the futures: that is covered by taking up what was found only sometimes.

**BuildRoots** has a root per node and main task, because a node that could not be
restored is run in another root. `dec` is three steps, as in the code, where the lock
covers only the first; the tasks of `tasks/*.py` are sequences of steps that fill, read and give
up roots; the order in which they may start is the one RunQueue guarantees. A build is a
choice at the start: its results, and whether it is eager.

**PSingleton** follows a process of the cache from `ServerCode` to its end, one step per
lock, read, write, RPC, signal and change of state. `pc` is where it is, `excl` and
`shared` are the flocks, `content` is what the lock file says, `linked` and `last` say which
file has its name (it may be removed). `Serving` is `TSystemWideName::CheckProcess`: it
never says yes of a server that does not answer, and may say no of any. A process may
die at any step. The modes of the processes are Normal
(find or install), ForcedSeizure (replace) and Halt.

**ACLocks** has the tables of processes, tasks, links and requests with their rowids, since
SQLite uses them again: a new row gets the largest rowid in use plus one. A request is one
step for its transaction and one (`AddRunningProcess`) for what it does afterwards in
memory. The thread that watches processes takes an item, drops the processes that have
released all, and looks at one process; the collector waits for a moment without requests
and may be interrupted in the middle. `Halt` is what a restart finds: tables, no queues.
`mixed` records that a process has been given a task that is already dead, or that a live process has lost its row.

**ACStore** has the same tables seen from the blobs (`acs`, `ref`, and as committed,
`saved`) and the files (`store`, and `old` and `new` of each stash directory). A request
goes through `job[r].at`: before its transaction, in it (it holds `mutex`), after it. A put
commits its files inside of the transaction, a removal behind it, as in the code. `Stashed(r)`
is what `r` would find in its stash directory if it had to roll back. Three history variables
record what the properties except: `torn`, rows whose files a kill or a failed COMMIT caught
outside the store; `swept`, rows whose files went with a stash directory that another removal
took away; `slipped`, files that a removal left because its directory had just been taken away.
No guard reads them.

## 3. Runs

| run | instance | states | what it asks |
|---|---|---|---|
| `topo` | 3 nodes, every client that keeps the docstring's discipline | 28 thousand | `TopoInv`, `FiredOnceAfterDeps`, `NoLostActivation`, refinement `AbstractSpec` |
| `runqueue` | one of four builds: *distributed* (preparation, a download reported twice, its result, the clean-up; Dist), *local* (a restore that fails, the joint run task, its dependency, which the preparation may add first, a result in place), *failing* (preparation, download and result may raise), *stopping* (of two downloads one may stop the build while the other waits); 2 workers and main | 222 thousand | `RunOnce`, `AssertionsHold`, `StopMeansDone`, `QuietWhenJoined`, `Ends`, `FailureSurfaces` |
| `workers` | 5 jobs: two restores, one of which adds a link and an in-place job, and a test that takes all processors; 3 workers of 2 types; a cap that shrinks and recovers | 89 thousand | `CapRespected`, `ActiveCounts`, `QueuedRun`, `PoolEnds` |
| `cap` | up to 3 threads, 0-3 test threads, 0-2 link threads, memory limit, debugger | 5 thousand | `EveryNodeFits` |
| `prepare` | a diamond with a leaf below its base, batches of 1, 2 threads, 1 runner; any node may hit or miss, two may be errors of an exclusive cache | 213 thousand | `ConsideredInOrder`, `PlanComplete`, `RunsAtMostOnce`, `NothingNeedless`, `PreparationEnds` |
| `roots` | a node with two consumers, one of them the result's dependency; lazy with one result or eager with two; 2 workers; hits, misses, failures | 3.0 million (symmetric) | `NoUseAfterDelete`, `CountersSound`, `DeletedWhenTaken` |
| `singleton` | 3 processes, the second seizing, halting or, with 2 processes, plain while the lock file may be removed; 2 attempts | 189 thousand | `OneServer`, `Findable`, `Settles`, `ShutdownCompletes` |
| `ac_locks` | 2 builds, alone (3 requests) or in one group (2), 1 uid, 1 crash | 1.5 million | `CountsMatch`, `LockedStays`, `DeadGiveUp` |
| `ac_store` | 2 uids, contents that share blobs or have one twice, 2 requests at a time, 5 in all, 1 failure, 1 crash | 920 thousand (symmetric) | `RefsMatch`, `BlobsThere`, `GotWhole`, `NothingLeft` |
| `cap_debugger`, `singleton_diag`, `ac_locks_gc` | as `cap`, `singleton`, `ac_locks` | - | violated, see below |

`RunQueueTypeOK`, `WorkerThreadsTypeOK`, `BuildRootsTypeOK`, `PSingletonTypeOK`,
`ACLocksTypeOK` and `ACStoreTypeOK` are the type invariants.

Why the bounds are enough to be interesting: three nodes are the least with which a group
of two grows while a third waits for it, and a chain forms; two workers and main (and
Dist) are the least with which two threads are between a check and its use while a third
acts. In the local build of `runqueue` groups grow after a member has started, in the
distributed one two dispatchers race. Two sleepers in `workers` make it matter who is
notified. The diamond has the node that two parents find at the same time, and the
leaf below it is the least depth at which a task that looks again finds what made others needed. In `singleton`
the third process comes while the second replaces the first, so that a leaving server, its
replacer and a reader meet at the lock; two files are enough for one removal. In `ac_locks`
two builds are the least with which a rowid is used again beside its old task, and one
crash falls between any two steps. In `ac_store` two requests share a stash directory or a
blob, and five let one content be stored, replaced, fetched and removed twice over.

There is no symmetry where nodes have roles; workers are interchangeable in BuildRoots,
uids and slots in ACStore, and no run with symmetry checks liveness. No run has a state
constraint; what bounds an instance (`MaxRequests`, `MaxFaults`, `MaxCrashes`, `MaxFiles`)
is a guard in its module. `CHECK_DEADLOCK FALSE` is set where a system may rightly stop: a
client of `topo` may stop calling, the processes of `singleton` and the builds of
`ac_locks` all end, the requests of `ac_store` are used up.

### Fairness

RunQueue assumes strong fairness for each thread: the OS schedules it, and a thread that
waits for a lock which is released again and again gets it. Only main takes a lock in a
loop, and it sleeps in `Queue.get(timeout)` between two looks. WorkerThreads and
PrepareNodes need weak fairness only. In WorkerThreads it says also that a cap that is
short at every single look of a worker is not what happens for ever: with
`memory_limit` a memory that stays short still lets everything run that asks for one
unit (`EveryNodeFits`). `FastFail` is not fair: a task need not stop the build.

PSingleton assumes weak fairness for the steps of each process: it runs, and a lock that
stays free is taken. `Kill` is not among them, so that nothing rests on SIGKILL; nor are
the arrival of processes, signals and RPCs, crashes. ACLocks assumes that handlers return
and that the two threads of the server run (`FairSpec`); requests, ends of processes and
crashes need not happen. ACStore has no liveness property and no fairness.

### What the violated runs show

* `cap_debugger`: a test under a debugger requires `cpu: all` to "Disallow other nodes
  from execution" (`devtools/ya/test/test_node/__init__.py:827`), but the option parser
  sets `test_threads` to 1 then, and `all` means `test_threads`: compilations run beside it.
* `singleton_diag`: a comment (`local_cache/psingleton/server/server.cpp:238`) says that
  the back ends of a server are shut down before its grpc services. `StopProcessing`, which
  is called for that, does nothing for a server in the state ShuttingDown, and that
  is the only state in which it is called there. The back ends end later, in `Cleanup`,
  so that they outlive the grpc server. `OneServer` holds all the same: a successor
  waits for the end of the process.
* `ac_locks_gc`: `local_cache/ac/proto/ac.proto:125` promises that a uid is locked for the
  collector when a request names its peer. A process without a task of its own is
  named by the rowid of its row; when the process before it in that row has been dropped
  and its dead task has not been erased yet, the new process gets the dead task, and
  its locks are given up with it. `LockedStays` says that this is the only way: a lock
  stays unless a process has been given a dead task or a row has been taken from under one.

Two more disagreements with docs are known and left out of the runs:
`worker_threads/README.md:5` promises the job of highest priority among those that fit, while
`worker_threads/__init__.py:114-119` prefers the worker's own pool type; and
`--test-threads` above the number of threads, described as a restriction, makes a
`cpu: all` test take more than the cap, so that it waits for ever. The precondition of
`EveryNodeFits` (operator `Sensible`) excludes the latter, `link_threads = 0`, and a RAM
requirement above the RAM of the machine.

## 4. Proofs

| theorem | says |
|---|---|
| `TopoInvariant` | `TopoSpec => [](TopoInv /\ TopoTypeOK)` |
| `TopoFiredOnceAfterDeps`, `TopoNoLostActivation` | the two invariants of Topo that the run `topo` checks |
| `TopoReplayOrder`, `TopoFrozenDeps` | the replay is a topological order; the dependencies of a node do not change once its callback is handed out (proved, in no run) |
| `TopoImplementsTaskGraph` | `TopoSpec => AbstractSpec`: Topo implements TaskGraph |
| `QueueInvariant`, `RunOnceHolds` | a callback is never lost or doubled between the threads, so that `RunOnce` of RunQueue holds |
| `NeverRefusedHolds` | the part of `AssertionsHold` of RunQueue that no program can break: a task is scheduled once and notifies once |
| `RunQueueInvariant`, `RunQueueTypeCorrect` | the second invariant of RunQueue, and the types that rest on it (no counter goes below zero) |
| `AssertionsHoldAlways`, `StopMeansDoneHolds`, `QuietWhenJoinedHolds` | the other three safety invariants of RunQueue that the run `runqueue` checks |
| `RunQueueImplementsTopo`, `RunQueueImplementsTaskGraph` | RunQueue implements Topo, and so TaskGraph |
| `PoolInvariant`, `PoolTypeOK`, `PoolCapRespected`, `PoolActiveCounts` | what the workers hold agrees with heaps, usage and counters; the three invariants of WorkerThreads |
| `RunnerCapEveryNodeFits`, `RunnerCapAllMeansAlone` | a node fits an idle machine; a `cpu: all` test keeps tests and compilations out if tests may use all the threads |
| `PoolAllMeansAlone` | pool and resources together: while a worker runs a `cpu: all` test, no other runs a test or a compilation |
| `PrepareNodesInvariant`, `PrepareNodesUseTopo` | where each node and each callback of the preparation is; its threads use their Topo as Topo allows |
| `PrepareNodesConsideredInOrder`, `PrepareNodesPlanComplete`, `PrepareNodesRunsAtMostOnce`, `PrepareNodesNothingNeedless` | the four invariants of PrepareNodes |
| `ReferencesHeld`, `BuildRootsTypeCorrect`, `CountersSoundHolds`, `NoUseAfterDeleteHolds`, `DeletedWhenTakenHolds` | the counter of a build root is the number of its references, and the four invariants of BuildRoots |
| `TypeCorrect`, `RefsMatchAlways`, `BlobsThereAlways`, `GotWholeAlways`, `NothingLeftAlways` | the five invariants of ACStore |
| `TypesHold`, `OneServerHolds`, `FindableHolds` | the three invariants of PSingleton |
| `TypesHold`, `CountsMatchHolds`, `LockedStaysHolds` | the three invariants of ACLocks that the run `ac_locks` checks |

TopoProofs assumes that the set of nodes is finite (`NodeAssumption`) and nothing else,
RunQueueProofs also that programs are sequences of instructions, that what they add has a body
and that threads have different names (`ProgramAssumption`), and, from the second invariant on,
`ProgramOrder` (below). PrepareNodesProofs assumes that dependencies and results are nodes, that
batches are not empty, that names differ (`GraphAssumption`) and that the graph has no cycles
(`Acyclic`: any set of nodes has one that needs none of the others; uids are
computed along the dependencies, which a cycle makes impossible, `devtools/ya/build/graph.py:801`),
BuildRootsProofs that nodes and workers are finitely many, that the dependencies and the results
of builds are nodes, and that `result` is not the name of a node (`RootsAssumption`),
PoolProofs that jobs, workers and resources are finitely many, that needs and caps are amounts
(`PoolAssumption`), that an action object is given to the pool once (`AddedOnce`: `RunQueue.add`
makes a wrapper for each task, and Topo hands out its callback once, which is `FiredOnceAfterDeps`),
and that options and nodes have the ranges their parsers leave (`CapAssumption`),
ACStoreProofs that contents map paths to blobs, that uids and paths are finite, that names
of slots, uids and the collector differ and that bounds are numbers; any number of
requests at a time, of faults and of crashes is covered. PSingletonProofs assumes that
names differ from `NoName` and `Free` and that there are files and attempts
(`PSingletonAssumption`); any number of processes and of removals of the file is covered.
ACLocksProofs assumes that there are processes and uids, that the name of a group is not a
rowid and that bounds are numbers; any processes, groups of them, requests and crashes are covered.

`ProgramOrder` says how the code of the runner adds tasks, which RunQueue has as a constant.
A task is joint with nobody or with the task that adds it, and its dependencies have been added
before by the same code (`exec_run_node` calls the caches for them in the list it then passes to `add`,
`runner/runner3.py:209-224`; so do `runner/tasks/prepare.py:165-169` and `runner3.py:402-417`), or are
`clean_symres_task`, which main adds before anything else (`runner3.py:334`, `402`). A task that comes from
no cache is added in one place. No chain of dependencies returns to where it
started, tasks joint with each other counted as one: ranks exist because a task has the depth of its
node, and a task that runs a node is joint with the one that restores it. Only main processes
results. TLC evaluates it on the builds of the run.

**Topo.** Its properties are not inductive: they speak of who has notified, the code only
looks at counters. `TopoInv` says what each piece of data stands for: `left[n]` is the
number of members of n's group that have not notified (`LeftCounts`), `awaiting[n]` the
number of n's dependencies that are not completed (`AwaitingCounts`), `whoAwaits` inverts
the open dependencies (`WaitersAwait`), completed nodes are those of finished groups
(`CompletedGroups`), groups partition the nodes, and a callback was handed out exactly if
its node is scheduled with all dependencies completed (`FiredReady`). The proof has one
lemma per action on top of facts about cardinalities: a counter is decremented exactly for
the nodes that had the completed group among their dependencies, so that it is zero
when the set it counts is empty. Everything else, the refinement included, follows from it.

**RunQueue.** `RunOnce` speaks of tasks, the threads pass frames around. The invariant
`QueueInv` counts two kinds of tokens. A callback that Topo has handed out is in one frame (`fire`,
`put` or `run`) of one thread, or in the queue of the pool, or its task has run (`Alone`, `Owned`,
`TaskOK`). The right to schedule a task is with the thread that adds it, then in
`_not_dispatched`, then with the one thread that removed it from there, until
`schedule_node` uses it up (`OneHolder`, `Held`): this is what the "second attempt to
dispatch" relies on. Every step takes frames off one stack and puts others in their place
(`Moves`); `StepKeeps` reduces it to the frames and tasks it touches, and most steps (`Calm`)
touch none. An exception drops the tokens of the frames it unwinds: their tasks never run. That
the dependencies a task was told of stay the same until it runs is `FrozenStep` of TopoProofs.
The steps of RunQueue carry the assertions of Topo as guards, so that the refinement alone does
not say that no call is refused: `NeverRefusedHolds` says it of the assertions about the task
itself, and the second invariant of the others, which depend on what the programs add.

That one, `SecondInv`, is about whole stacks. `Nested` says which call may be made from which,
so that the frame below a frame is known. `Counted`: `DispatchingCounter` is the number of
frames between `__enter__` and `__exit__`, and `_active` the number of tasks in the queue, of results and
of frames that run a task, notify for it or take its result. `Kept`: until the build is stopped, a callback that was handed out is
somewhere or has notified, an open task has its holder, an exception is on its way to
main. `Phases` is what main knows between the looks of `next()`: no task is active, then
`_not_dispatched` is empty too. `Orderly`: code is executed in its order, so that what stands before
an instruction has been added (`Scripted`), and ranks go down along dependencies
and are equal within groups (`Ranked`); with that, a call of `add` finds its dependencies in Topo, a task
enters once, and merging never makes a cycle. `Finished` carries what is known at the end of
`next()` on to the next instruction of main. The step that makes `StopMeansDone` true is the last look, at
the counter: when it, `_active` and `_not_dispatched` are all zero or empty, no frame is left that owns a callback or
holds a task, so that each task whose callback was handed out has notified (`Kept`); if some added task had not completed, one of
the least rank would have all its dependencies completed, so that its callback was handed out, and it has
notified, a contradiction. `QuietWhenJoined` needs `Ended`: workers that are gone have no
frames, and the thread of the distributed build never executes a task in place.

**WorkerThreads.** `Counted` says that `usage` is the sum of the needs of the jobs that workers
hold from the moment one is taken until it is given back, and `active` the number of jobs that are
queued, in progress, or have left a result. About a sum that is a fold the provers can do no
induction, so that a sum is the cardinality of a set of cells, and a step adds or removes
the cells of one worker. A job is taken only if `usage` plus its need is within the cap of that look, so
that usage is always within at least one of the caps. What makes the counts exact is that no job is in two places: `AddedJobs`
says so with a set `U` of the jobs added so far, which is in no variable and
in no line of the code (a job is queued, in the hands of the thread that adds it, or in one call;
what a call has not added yet is not in `U`), and rests on `AddedOnce`.
`PoolAllMeansAlone` then puts the two sides together: with the needs and caps of RunnerCap, a second test
or compilation beside a `cpu: all` test would exceed every cap.

**RunnerCap.** By cases on the kind of node, from the bounds of the cpu of a test.

**PrepareNodes.** `WalkInv` follows the nodes: one that was seen is in one batch, or in what one thread
has yet to consider, or was considered once and is with one thread until it is scheduled (`Placed`, `OnePlace`);
none is lost unless a thread fails (`NoneLost`); Topo has been told of the dependencies that
its thread has linked (`Linked`). `CallInv` follows the callbacks: one that is due is in a frame of a
thread until it answers (`NoCallLost`), and a node notifies when it has its task (`Tasked`). `TaskInv` is about the
tasks that run nodes: of all that may still add one there is at most one (`OneRunner`), and a node that will run has tasks
for its dependencies (`DepsTasked`). `AllAsked`: a node with a task is a result, or some node needs it that was or is
found missing. A preparation that ends with nothing to process has notified
every node: otherwise, of the nodes that have not notified one needs none of the others
(`Acyclic`), so all its dependencies have, so Topo has handed out its callback, and some
thread still has it. `PrepareNodesUseTopo` makes the theorems of Topo available here.

**BuildRoots.** The code counts references and never says who has them. `Counting` does: a
counter is the number of consumers and the result that have not taken the root (`TakeRefs`),
of calls of `dec` that have not subtracted yet (`DecRefs`), and for each cache of the one task
that holds its reference (`LocalRefs`, `DistRefs`). Taking moves a reference from the first set to
the second, publishing makes one, and a task that adds another hands it on: `Carried`,
`Transferred` and `CountMoved` say so once for all actions. What makes each of these sets
exact is how far the tasks have come: nobody takes from a root whose own task has not
ended (`TookGood`, `Ready`), a task to put in a cache exists only after the one that made the
reference has passed that point (`MadeGood`), a task is in one call only (`Alone`). Then `dec`
finds its own reference, every call that uses a root holds one, and a root that is deleted or
about to be (`Dead`) has none, which is `NoUseAfterDelete` although `dec` compares outside
its lock. For `DeletedWhenTaken`, `Gone` adds that a good root at zero is deleted or has a
`dec` on its way.

**ACStore.** Five invariants, one on top of the other.
`JobsOK` says what a request that has reached a point is: who is in a transaction has the mutex,
what it has removed are the blobs whose last row it took, a put has a content. `AllKept`
strengthens `BlobsThere`, which speaks of the committed tables only: the files of the
*working* tables are there too, or are among those that the put in progress is about to
move in, because a COMMIT makes the working tables the committed ones; and the files of the committed tables
are in the store, or really in the stash directory of a request that can still put them back
(`Stashed`), or a put is between its two commits, or they are among what the history variables
record. Steps outside of the mutex (tidying, undoing) are where it could break: what they
give back goes to the store, and what they take away is in their own directory (`OwnDir`)
or goes to `swept` (`OthersStash`). `Counted` says of both pairs of tables
that a count is the number of rows; the step of a put that replaces a uid needs the
cardinality of the rows that go and of those that come, which are disjoint. `Whole` strengthens
`GotWhole` by the fact that the directory of a get is its own (`OwnDir`). `Tidy` is for
`NothingLeft` and holds as long as nothing has failed: a file in the store has a row of the working tables or
slipped; a removal that is about to change the tables takes all the files whose last rows go; the
directory of a request is empty unless that request will still discard it, and what is in
a shared one belongs to a removal that has yet to tidy up; and what is in `swept` has no row in
the working tables while a removal is in its transaction (`SweptRows`), so nothing is lost. It also needs the others: that nothing fails includes that a get finds its
files, which is `AllKept` with `Counted` (`GetFinds`).

**PSingleton.** That two servers never run their back ends cannot be seen from the two
servers: it rests on what the process that installs the second one has read. `LockOf`
says who holds the lock of a file, `NameRead` that what a process has read under the lock is
still there, `Named` that a live server is named in its file or by the one process that is
writing the name back, and `Alone` that a process past `HardStop` has no live server in its
file: the name it read was that of the only one, and that process is gone. `Named`
is where a death matters: a process that dies between emptying the file and writing it takes
the name along, and `orphaned` records that. `OneServer` and `Findable` follow without a
further step.

**ACLocks.** A lock is a row of `requests` under a rowid that is used again after its row is gone, so
that a lock says nothing by itself about who holds it. `Kept` makes the
connection: as long as nothing is `mixed`, every row of a process is linked to a living task that
has the name the process would be given, and what a process has locked is requested by the
task of its row. `OneRow` and `OneTask` (a process has one row, a name is that of one task) let
an insertion find exactly these. An unlock takes the request of a task, and the rowid or the
group in the name of the task says which processes lose their lock with it. `Forgotten` covers
the removal of rows: a process that is being forgotten has released all it had locked.
`Counted` keeps counts and requests equal; it is what makes `count[u] = 0`, which the collector
reads, mean that no living build has `u` locked.

Every safety invariant and type invariant that a run checks is proved. Only model-checked are the
liveness properties (`Ends`, `FailureSurfaces`, `QueuedRun`, `PoolEnds`, `PreparationEnds`, `Settles`,
`ShutdownCompletes`, `DeadGiveUp`): liveness under fairness is out of the prover's reach. No module uses a
RECURSIVE operator, so each of them can be proved about.

Attempts to prove have corrected the models where TLC's instances were too small to:
* `NothingNeedless` of PrepareNodes said that a node that is needed by nobody that *runs* has no task. A task
  that looks again may find in the cache what the preparation did not, so that what was asked for
  before is there and nobody that runs needs it. A leaf below the diamond shows it, and the property says now
  that someone who needed the node was missing from the caches when it was looked for.
* `StopMeansDone` and the count of active tasks do not hold once a task has stopped the build:
  `add` then raises without undoing what it counted. Main leaves its loop with the exception anyway, so
  that the properties speak of builds that are not stopped; the build *stopping* shows the other case.
* That dependencies are added first by the same code is not true of results: they depend on the task
  that main adds first, hence the second case of `ProgramOrder`.

## 5. What the models leave out

* Files of the runner: `steal`, `validate`, uploads and links succeed or fail as a whole;
  digests, sizes, sandboxing and command lines are not modelled. `BuildRoots` looks at builds
  with `-k`, because a stopped build removes its roots as a whole.
* Patterns and resources as dependencies of a run task: more tasks in the same cache.
* Timeouts of `Queue.get`: an empty queue may be looked at at any time.
* Sub-states and finalizers of `ActiveState`, events, statistics and displays.
* The order of jobs of equal priority (`schedule_strategy`) is left open.
* What the distributed build does is reduced to the calls it makes into the runner.
* RunQueue: `JoinWorkers` makes `ready` a failure also for an `EarlyStoppingException`, which
  `TaskContext.run` swallows (`runner3.py:418`), leaving the event as it is. In a distributed build
  the tasks that may stop it run once the build has dispatched them, so it has heard `"yes"` before;
  in a local build nobody waits for the event.
* PrepareNodes: only `ResolveError` stops the queue, although others may call `fast_fail`
  (`yalibrary/runner/tasks/run.py:674`, `dist_cache.py:162`), and behind a stop every `add` raises, where in the code
  only that of a task which is ready at once does (`worker_threads/__init__.py:189`). A task
  whose `add` raises is not entered, where `TaskCache` has entered it before
  (`task_cache.py:19-21`): nobody adds or waits for it any more in either case.
* BuildRoots: the extra reference that a test suite takes (`runner3.py:676-679`) and the mode that
  keeps the roots.
* PSingleton: pids with creation times are not used again; a file too long to be a name, the
  notification of servers of another version, exit codes and Windows. Back ends that fail to
  stop (`local_cache/psingleton/server/server.cpp:395-399`) and a signal that may not be sent (`EPERM`,
  `local_cache/psingleton/server/server-nix.cpp:56-63`) are left out. A server that has yet to install its
  handlers may be told to stop its back ends; `Shutdown` then waits until it is serving.
* ACLocks: which garbage goes first (`LRU`), sizes, the limits of the queue and of the cache, master
  mode, retries while the database is locked, dependencies between uids. `SelectRunning` takes
  all processes at once, where the code takes 16 (`local_cache/common/db-running-procs/running_task.sql:4`); of two items of one process
  the first stays, where the queue updates it (`local_cache/common/simple_wqueue-impl.h:72-77`), and a task that is
  deleted leaves the link of its process, where the foreign key removes it
  (`local_cache/common/db-running-procs/running_db.sql:25`): these two differ only when a rowid was used again, which `mixed` records. A process makes one
  request at a time, and `ReleaseAll` is its last one (`devtools/ya/build/ya_make.py:1846`, `1946`).
  `DeadGiveUp` claims nothing of groups: a process whose first request is a `GetUid` with
  `Release` gets a row that nobody watches (`local_cache/ac/dbbe/integrity.cpp:180`).
* ACStore: I/O errors within a transaction other than a missing file, the fallback to a
  shared directory after ten leftovers (`local_cache/ac/fs/fs_blobs.cpp:302`), sizes, small blobs kept in the
  database, the recreation of a store after a critical error. A directory is discarded in one step:
  two requests that remove a shared one at the same time may make `RemoveRecursive` throw
  (`util/system/fs.cpp:45-72`, called from `fs_blobs.cpp:476-483`), the log is then not reset and its
  rollback throws in a destructor (`db/cas.cpp:106-110`). The server ends: a kill at that step.

Three exceptions written into the properties are behaviours of the code that a reader should
know of. `OneServer` and `Findable` except servers in `orphaned`: a process that
empties the lock file to write back the name of a live server and dies before it does
leaves that server unknown. `NothingLeft` excepts `slipped`: a removal whose stash
directory is taken away between `CreateStashDirs` and `rename` leaves its file for ever.
`BlobsThere` excepts `swept`, the other outcome of the shared directory: one collection is
about to tidy up, a second one moves a file to the same directory and its COMMIT fails, the
first one's `CleanupStashDirs` removes the directory with that file in it. The row is back and
its file is gone; the rollback of the second finds nothing to rename
(`fs_blobs.cpp:443-450`, `505-515`), throws in the destructor of its guard (`cas.cpp:106-110`) and the
server aborts. The run `ac_store` reaches this state, and without `swept` in `BlobsThere` TLC shows
it as a violation. A rollback also throws when a put replaces a blob whose file was torn off
before: `GetInfo` finds the new file in the put's own stash, the removal is recorded, and
only the rename that follows finds no old one (`fs_blobs.cpp:285-290`, `328-333`, `db.cpp:100-112`).

## 6. Not modelled, and plan

The four hazards without a property in `PROJECT.json` belong to the first two points.

1. *Stores of the runner*: `new_store`, `lru`, `file_store` and the chunked queue below: put,
   restore and compact between threads and processes, with a kill at each step. Promise:
   a uid that is found restores completely or is a miss, and entries touched again survive.
   `uid_store`: `clear_uid` beside uids that share files.
2. *BuildRootSet and symlink locks*: two processes; `__init__`, `__enter__`, `_sieve`,
   `_clenup`, kill. Promise: no live root is removed, a dead one is in the end.
3. *Toolscache*: its tables and the tools that a process has requested, on top of the
   processes of ACLocks, which it shares.
4. *Refinements*: DisjointSet implements the groups of Topo; WorkerThreads implements the
   pool as RunQueue sees it; BuildRoots implements "a root lives while someone needs it".
5. *Proofs*: the refinements of point 4, with RunQueue's view of the pool first; that the preparation
   adds tasks as `ProgramOrder` says, from its model instead of as an assumption.

The rest (`ymake`, `yexport`, graph and test generation, command line, fetchers, displays,
build configuration, vendored code) is either sequential transformation of data or
input and output, where a model checker adds little; `PROJECT.json` has the reason for each.
