# A verification project for the two course databases

The repository holds two programs. `a1` measures execution models: a driver
issues requests to a launcher, which executes each in a thread or a process of
its own (or, where students are to write it, in a pool), while a monitor samples
the throughput. `a2` is a small transaction processor: clients request
transactions, a scheduler thread runs them under one of several concurrency
control modes with the help of a pool of threads, and hands them back.

Both are skeletons: some bodies are placeholders. This project models what the
code does as it stands, says where a placeholder limits that, and treats one
missing part, the two lock managers, as the environment of the scheduler that
calls them.

Two facts about the build matter everywhere. The default build type is Release
(`a1/cmake/compile.cmake`, `a2/cmake/compile.cmake`), so `assert` and `DCHECK`
are compiled out: what they test is never tested, and the actions that follow a
failed call go on as the code does. `DIE` is not compiled out: it ends the
process.

Paths below are relative to `src/a1/src` and `src/a2/src`.

## Inventory

### Assignment 1

| Component | State | Operations | Interacts with |
|---|---|---|---|
| `Launcher` (`launcher/launcher.cc`) | `num_requests_` private, `*txns_executed_` in shared memory | `WaitOutstanding` spins until they are equal | driver, executors, monitor |
| `ThreadLauncher` (`launcher/thread_launcher.cc`) | `max_outstanding_` with mutex and condition variable, `targ_list_` with its mutex | `ExecuteRequest`: count, create a thread, wait for a slot, take it, join and free what has finished. `ExecutorFunc`: execute, link the argument, give the slot back, signal, count | one thread per request |
| `ProcessLauncher` (`launcher/process_launcher.cc`) | a slot counter that is initialised and not used | `ExecuteRequest`: count, `fork`; the child executes, counts and exits | one process per request |
| `PerfMonitor` (`monitor/perf_monitor.cc`) | previous count and time, results, `done` | one sample a second, then sets `done` | launcher's counter; driver's loop |
| `Request`, `Database` (`txn/request.cc`, `db/database.cc`) | records of fields, one mutex each; the database a request points to | `Execute` adds `updates_` to each record of `writeset_`; `Compare` | executors |
| driver (`db_start.cc`) | loop indices | `run_experiment`: dry run, `WaitOutstanding`, monitor, loop until `done`. `run_test`: make two databases and the requests, all requests concurrently on one database, then one by one on the other, then compare | all of the above |
| pool launchers | placeholders | | |

What is hard here: the launcher and its executors share two mutexes, a
condition variable, a list both rewrite and a counter, and an executor goes on
running after it has given its argument to the thread that frees it; a thread or
a process may fail to be created after its request was counted; `fork` copies
some counters and shares others; the executors race on the records, because
`Lock` is empty.

What makes each component correct:
- a launcher issues no more than it may, executes every request once and counts
  it once, and `WaitOutstanding` returns when, and only when, all are executed;
- the thread launcher loses no slot and no wake-up, joins and frees every
  finished thread once, and never before the thread has stopped using what is
  freed;
- a child never runs the driver's code;
- the monitor's samples cover the timed part of the experiment without a gap or
  an overlap;
- the test's verdict is right: it depends on lost updates and on nothing else.

### Assignment 2

| Component | State | Operations | Interacts with |
|---|---|---|---|
| `TxnProcessor` (`txn/txn_processor.cc`) | queues of requests, ready, completed, committed and returned transactions; `next_unique_id_`; `stopped_` | `NewTxnRequest`, `GetTxnResult`, `RunScheduler` in its modes, `ExecuteTxn`, `ApplyWrites` | clients, pool, storage, lock manager |
| lock managers A, B (`txn/lock_manager.cc`) | lock table, waits (placeholders grant everything) | `ReadLock`, `WriteLock`, `Release`, `Status` | scheduler; they append to `ready_txns_` |
| `Storage` (`txn/storage.cc`) | a map of records without a lock | `Read` by workers, `Write` by the scheduler | |
| `Txn` and its types (`txn/txn.cc`, `txn/txn_types.h`) | sets, reads, writes, status | `Read`, `Write`, `Run` | run by workers |
| `StaticThreadPool` (`utils/static_thread_pool.h`) | one task queue per thread, `stopped_` | `AddTask` tries queues at random until one is not locked; `RunThread` polls its queue with `PopNonBlocking`, looks at `stopped_`, and drains its queue with `Pop` before it exits; stop and join | scheduler, workers |
| `AtomicQueue`, `AtomicVector` (`utils/atomic.h`) | a queue or vector and a mutex | one critical section per operation | everyone |
| `MVCCStorage`, OCC, MVCC and MVCC_SSI schedulers | placeholders | | |

What is hard here: workers read the storage record by record while the scheduler
writes it record by record, and only the locks keep them apart; locks are
requested one by one, by one thread, with no deadlock detection; the pool's
threads and the scheduler share queues whose `std::queue` is not atomic, give up
when a mutex is taken, and are stopped with tasks in their queues; a transaction
becomes ready in one of two places; the order of `unique_id_` must survive the
queues; the constructor starts a thread before the object is complete, and the
destructor stops the pool last; and nobody looks at whether a thread could be
created.

What makes it correct: the processor is a *serial database*, every transaction
seeing exactly those that committed before it; none is lost, repeated or left
unanswered; conflicting ones never overlap and commit in order of their numbers;
nothing is used after it is destroyed, and the destructor returns.

## Modules

| Module | Models | Notes |
|---|---|---|
| `BoundedLauncher` | what any launcher promises its driver | abstract: issue, finish, count, wait |
| `ThreadLauncher` | `thread_launcher.cc`, `launcher.cc`, `run_experiment` | refines `BoundedLauncher` |
| `ThreadLauncherProofs` | | theorems about it |
| `LauncherCounter` | `*txns_executed_` in shared memory | extended by the next two |
| `ProcessLauncher` | `process_launcher.cc`: main and its children | actions of any process that is in the driver |
| `PerfMonitor` | `perf_monitor.cc` | samples a counter others increment |
| `ProcessExperiment` | `run_experiment` with the process launcher and the monitor | composes the two; refines `BoundedLauncher` |
| `ProcessExperimentProofs` | | theorems about it, its launcher and its monitor |
| `RunTest`, `MCRunTest` | `run_test` with its set-up, `Request`, `Database` | the launcher is an instance of `BoundedLauncher` |
| `RunTestProofs` | | theorems about it |
| `TxnTypes` | `txn.cc`, `txn_types.h` | the programs as operators on reads and writes |
| `SerialDatabase` | what any `TxnProcessor` promises its clients | abstract: request, execute at one instant, deliver |
| `LockManager` | the lock managers as operators on a lock table | `shipped`, `A`, `B` |
| `LockingScheduler`, `MCLockingScheduler` | `RunLockingScheduler`, `ExecuteTxn` in the pool, clients | refines `SerialDatabase`; the MC module replays `lock_manager_test.cc` as assumptions that are evaluated |
| `LockingSchedulerProofs` | | theorems about it and the lock table |
| `SerialScheduler`, `MCSerialScheduler` | `RunSerialScheduler` | refines `SerialDatabase` |
| `SerialSchedulerProofs` | | theorems about it |
| `TxnProcessorLifecycle` | constructor, destructor, `stopped_`, the pool's threads | the scheduler without its locks |
| `TxnProcessorLifecycleProofs` | | theorems about it |
| `AtomicQueue` | `AtomicQueue` of `atomic.h`, the mutexes of `mutex.h` | operations of any threads on any queues |
| `TaskPool` | what a `ThreadPool` promises its owner | abstract: offer, accept (or strand, in a pool that lacks a thread), start, finish, close |
| `StaticThreadPool` | `static_thread_pool.h`, and the scheduler as its owner | refines `TaskPool` |
| `StaticThreadPoolProofs` | | theorems about it |
| `CommonFacts` | | lemmas the proofs share: numbers, queues, folds, sums, what a program does to a `Txn` |

### How state and actions correspond to the code

Names are the code's. A program counter (`pc`, `tpc`, `ppc`, `mpc`, `opc`,
`spc`, `wpc`, `epc`) says where a thread is. The grain is one action per access
to shared state: a critical section is one action when nothing in it can block
or be seen half done, and is split where it can.

- `ThreadLauncher`. `CreateThread` is lines 38-51 of `ExecuteRequest`;
  `LockSlots`, `CheckSlots`, `SleepForSlot`, `TakeSlot` are the wait, with the
  mutex as a variable so that sleeping releases it; `ReapFinished` and
  `JoinAndFree` take the list and join it one element at a time. An executor
  goes through `ExecuteTxn`, `LinkArg`, `LockToReturn`, `ReturnSlot`, `Signal`,
  `UnlockSlots`, `CountExecuted`. Condition variables may wake spuriously
  (`SpuriousWakeup`). `CreateThreadFails` is `pthread_create` returning an
  error that only an `assert` looks at.
- `ProcessLauncher`. `num_requests_` and the phase are functions of the process,
  because `fork` copies them; `txns_executed_` is not, because it is in a shared
  mapping. A child could only reach the driver by not exiting, and the driver's
  actions are those of any process that is in it, so that "children never
  reach it" is not true by construction.
- `PerfMonitor`. A result is the pair of the count and the interval it is the
  quotient of. A reading of the clock is at least a second of sleep after the
  one before.
- `RunTest`. `Create`, `Copy` and `GenUnique`/`GenerateRequest` are the set-up:
  the contents that `rand()` gives a new database are the constant `Random`, and
  `Draws` holds the keys it may give each request, in any order. A record is one of
  its fields (all are updated the same way, with the same race). `LoadField` and `StoreField` are the two halves of `+=`. Sums
  are taken modulo `Modulus`, 2^64 in the code.
- `LockingScheduler`. A loop over a set of keys is `todo` (scheduler) or `scan`
  (worker), one action for each call in the body. `PopCompleted` branches by
  the verdict as lines 189-203 do, to "dead" for `DIE`. `Dispatch(w)` lets
  `AddTask` come to any queue. `lm` and `program` are chosen once, in `Init`, so
  that one run covers both lock managers and several sets of programs.
- `AtomicQueue`. `Lock` and `Unlock` are the mutex; a push is `LoadToPush` and
  `StorePushed` between them, a pop `LoadToPop` and `StorePopped`, or `FoundEmpty`:
  the `std::queue` inside is a value that is loaded, changed and stored, so that two
  threads in it at once would undo each other. `op` says how far a thread is.
- `StaticThreadPool`. `TryPush(w)` is one round of `AddTask`'s loop, for the `w`
  that `rand()` gives; `Poll`/`PollReturns`, `CheckStopped` and
  `Drain`/`DrainReturns` are `RunThread`. A task is the transaction it executes, of
  which the push to `completed_txns_` is modelled (`RunTask`, `FinishTask`): that
  queue is shared by all workers and the owner, who pops it in `Collect`.
  `CreateThreadFails` is a `pthread_create` whose result nobody looks at: its worker is
  "failed", its queue like any other. The destructor joins it all the same, which is
  undefined: `JoinUndefined` lets it return at once or never; that the process may
  end there instead adds nothing, as it then takes no step any more.
- `TxnProcessorLifecycle`. The owner goes through the constructor (`create`,
  `clear`), use, and the destructor in the order of the declarations (`join`,
  `storage`, `members`, `pool`, `joinpool`, `gone`). `alive` says what exists.
  `CreateSchedulerFails` and `JoinUndefined` are the same two failures of the
  scheduler thread.

## What is checked

| Run | Question | Bounds |
|---|---|---|
| `ThreadLauncher` | do launcher, executors and driver conserve slots, threads, arguments and wake-ups and take the steps of `BoundedLauncher`, any thread failing to be created; does the experiment end, if none fails? | 2 slots, 3 requests in the dry run, 6 in all |
| `ThreadLauncherDocBound` | is the documented bound kept? **No**: one more request executes | 2 slots, 4 requests |
| `ThreadLauncherLostRequest` | does `WaitOutstanding` end if a thread was not created? **No** | 3 slots, 3 requests |
| `ProcessExperiment` | is every request executed once, do the samples tile, does the experiment end, is `BoundedLauncher` implemented, with `fork` failing? | 2 and 4 requests, 2 samples, a second of 3 nanoseconds, delays up to 2 |
| `RunTest` | do races lose whole updates only, and is the verdict right? | 3 requests for 2 of 3 records each, two of them for the same two in any orders; fields modulo 8 |
| `Locking` | are transactions isolated, ordered, answered; is it a serial database? | 3 transactions, 2 records and a key without one, 2 workers, both lock managers, three sets of programs |
| `LockingShipped` | is a transaction lost or repeated, and every request answered, with the lock managers as they are in the repository? | the same, one set |
| `SerialScheduler` | is the serial loop a serial database, in order? | 4 transactions, 3 keys |
| `StaticThreadPool` | is every task in one place, does `AddTask` return, is every task run once, and does the destructor wait for the last one and return, any thread failing to be created? (A task in the queue of such a thread is not run, and the destructor then need not return.) | 3 tasks, 2 workers |
| `Lifecycle` | does a processor that is deleted after all results were collected touch nothing freed, and, if it has a scheduler thread, answer every request and go away? | 2 transactions, 2 workers |
| `LifecycleCtorRace` | does the constructor start the processor? **Not if** the memory of `stopped_` held true | the same |
| `LifecycleEarlyDelete` | may it be deleted with transactions in execution? **No** | the same |

Why the bounds are enough to be interesting. With two slots and three executors
the launcher sleeps, is woken by an executor other than the one it created, and
finds a list of two; a dry run longer than the slots makes it sleep before
`WaitOutstanding`; six requests leave three for the timed run when the dry run has
lost some. Three transactions are the fewest in which a lock queue has an
owner, a waiter and one behind the waiter; two workers the fewest that read while
another hands back. The three sets of programs are: two updates that read what
the other writes, with a reader that tells their orders apart (write skew); a
blind write between two increments, one of which reads a key without a record;
and readers that share a lock around a writer. A second of three nanoseconds with
delays of up to two makes every borrow and carry of a timespec happen. Three tasks
on two queues put two in one queue while the other worker pushes to
`completed_txns_` and the owner pops from it, and stop the pool with tasks in both
queues. Updates of
1, 2 and 4 modulo 8 give every subset of updates a sum of its own.

Each property is accompanied in `PROJECT.json` by a mutant, an operator next to
the definition it replaces, that the property rejects.

`SerialScheduler` alone does not check deadlock: it is at rest when all results
have been collected. A `ThreadLauncher` that lost threads is not at rest but
sleeps in `pthread_cond_wait` or spins in `WaitOutstanding`, which are steps that
stutter; what ends and what is at rest is named (`Terminated`).

### Fairness

Weak fairness of each thread's or process's steps: nothing in the code blocks a
thread but the mutexes, condition waits and joins that the guards express, and
the operating system schedules every runnable thread. In particular:
- the monitor's step is fair, as it sleeps and returns; that is why `done` is
  eventually set;
- a client that requests is not obliged to, and one that is owed results
  collects them (`GetTxnResult` polls);
- the owner of a processor goes on with a constructor or destructor it is in,
  and is never obliged to delete;
- in `StaticThreadPool`, a mutex that is free again and again is not withheld for
  ever from a thread that keeps asking for it (strong fairness of `TryPush` and of
  the lock in `RunTask`): `AddTask` picks queues at random whose workers sleep
  between two looks, and the owner sleeps between two pops of `completed_txns_`;
- `rand()` gives `gen_unique` a new key in the end;
- a failure (`pthread_create`, `fork`), the return of a join of a thread that does not
  exist, a spurious wake-up and the choice of a task queue are never fair.

### What the checks found

1. *The bound is one higher than documented.* `ExecuteRequest` creates the
   thread before it waits for a slot, so `max_outstanding + 1` requests are in
   execution, where `thread_launcher.cc:10-11` promises `max_outstanding`. What
   it does guarantee, and the proofs show for every bound, is `MaxOutstanding + 1`.
2. *A lost request hangs the experiment.* The request is counted before
   `pthread_create`, whose error is met by an `assert` only.
3. *The constructor races with its own scheduler thread* on `stopped_`, which has
   no initialiser: a scheduler that sees a leftover true ends, and nobody answers.
4. *Deleting a processor that is not idle* frees the storage and the queues
   under the pool's threads, which are joined last. (A processor all of whose
   results have been collected is safe to delete: run `Lifecycle`.)

Two things the models allow are not listed as findings, as they take a
`pthread_create` that fails, which nobody looks at. In `StaticThreadPool` a task may end
up in the queue of a thread that does not exist, which `AddTask` goes on choosing and
no other worker empties, although a comment of `RunThread`
(`static_thread_pool.h:101`) says that a stopped worker goes through all queues;
`RefinesTaskPool` says that no other task is left behind (`Strand`). In
`TxnProcessorLifecycle` a processor without its scheduler thread takes requests and
answers none; `AnsweredOnceStarted` says that one with it answers all.

With the lock managers of the repository, which grant every request, nothing
is serialised: that is the expected state of a skeleton and is no finding.

## What is proved

Every invariant that a passing run checks is a theorem, for every value of the
constants that meets the named assumptions, and so are the initial states and
steps of every refinement. The proofs of a component are in a module of their own.

### `ThreadLauncherProofs`

For every number of slots and requests and every length
of the dry run (assumption `ThreadLauncherAssumption`), with threads failing to be
created wherever the statement does not exclude it:

| Theorem | Statement |
|---|---|
| `TypeCorrect` | `TypeOK` |
| `SlotsConserved` | free slots + outstanding requests = slots (+1 while a request has not paid) |
| `OutstandingBounded` | at most `MaxOutstanding + 1` requests outstanding |
| `ThreadsBounded` | threads not yet joined are bounded by the slots |
| `ListOwned` | each linked argument is in one place: list, launcher's hands, or freed |
| `FreedAfterUse` | what is freed belongs to a thread that has ended |
| `DryRunDrains` | the timed run starts after every request of the dry run has returned |
| `WakeupsKept` | no lost wake-up |
| `RefinesLauncherSafety` | initial states and steps are those of `BoundedLauncher`, or stutter |

The argument. None of these is inductive alone. The module strengthens them to an
invariant made of named parts: the types; which executor may be where for a given
`pc` of the launcher; the mutex is held by exactly the thread whose counter says
so; the slot equation; requests up to `num_requests_` and no others have a thread;
and `txns_executed_` is the number of executors that have returned. Each part is
shown to hold initially and to be kept by every action, with lemmas on the
cardinality of the sets of executors when one of them moves; the theorems follow
from the parts and temporal logic. Slot conservation is what bounds threads: what
was linked when a call took the list has been joined when the call returns, and
everything else still holds a slot.

### `ProcessExperimentProofs`

For any number of requests, any size of the dry run, any number of samples, any
length of a second and any failures of `fork()` (assumptions
`ProcessLauncherAssumption` and `PerfMonitorAssumption`):

| Theorem | Statement |
|---|---|
| `ExecutesOnce` | `ExecutedOnce`: no request twice, a lost one never, no child in the driver |
| `TypeCorrect` | `TypeOK`, the monitor's readings and results included |
| `RefinesLauncherSafety` | `RefinesBoundedLauncher` |
| `DiffTimeExact` | for any two normalised readings, in either order, `DiffTime` is normalised and exactly their difference |
| `SamplesAddUp` | `SamplesTile`: counts and intervals of the samples add up |

The argument. `ExecutedOnce` says nothing of the numbers that processes carry, and
so cannot be inductive. `IInv` adds them: main is in the driver and no child is; the
request main is in `ExecuteRequest` with (`Pending`) has no child yet and is not
lost; a child carries the number of a request that was issued, is not pending and is
not lost; two children never carry the same one; a request has been executed iff its
child is past `Execute`; and `txns_executed_` is the number of children past `Count`.
`StepCases` reduces a step of the composition to a step of main, of a child, or of
neither, and the lemmas `AtKept`, `AtExecute`, `AtCount` and `AtExit` say what each
does to the two sets of requests. For the refinement, what runs is what was issued
less what was executed; `Count` is allowed because the request that is counted is in
neither the running nor the counted set, and these are disjoint.

`SamplesTile` becomes inductive with three more parts (`Monitored`): the types of what
the monitor has read (`MonitorTypes`), that it is created after the dry run was
executed (`Drained`), and that it has no result before its first reading (`Fresh`). A
sample then extends both sums by one term (`SumExtends`), which `DiffTimeExact` and
`AfterExact`, its converse for the reading of the clock, make the right one.

### `RunTestProofs`

For any records, requests, sizes of a write set, keys that `rand()` may draw, updates
and modulus, and any launcher that keeps the promise of `BoundedLauncher`
(`RunTestAssumption`):

| Theorem | Statement |
|---|---|
| `Invariant` | `IInv` is an invariant |
| `TypeCorrect` | `TypeOK` |
| `SwitchesAfterDrain` | `SwitchAfterDrain`: `db_simple` is untouched while executors run, and used when none is left |
| `LosesUpdatesOnly` | `OnlyUpdatesLost`: a record has lost whole updates, and not all of them |
| `VerdictIsSound` | `VerdictSound`: a mismatch needs an overlap, a pass means that no update was lost |

The argument. The properties are about the end; `IInv` says what holds on the way.
`Setup`: how many requests are made, and which database each points to. `Executing`:
what the launcher's state says of the executors, and that those which have ended and
those which run are no more than were issued, without which `WaitOutstanding` would say
nothing. `Adding`: a record, and the register of an executor between its load and its
store, hold the sum of the updates of *some set* of the requests that have stored
(`MadeOf`): of all of them as long as no two requests with a common record have been in
execution together, as it takes one that has loaded the record and not yet stored it to
lose the store of another. A store replaces the set behind the record by the one behind the register and its own
request (`StoreAdds`), which is never empty. `OneByOne`: how much of the sequential
execution `db_simple` has. That the fold over a write set adds the update once to each of
its records is `ExecuteAlone`; that sums modulo `Modulus` may be extended by an
element, in whatever order it comes, is `SumIs`, from `Congruent`.

### `StaticThreadPoolProofs`

For any number of tasks and of threads, any of which may fail to be created
(`StaticThreadPoolAssumption`):

| Theorem | Statement |
|---|---|
| `TypeCorrect` | `TypeOK` |
| `TaskInOnePlace` | `OnePlace`: a task added is in one queue, once, or in one thread's hands, or received |
| `RefinesTaskPoolSafety` | initial states and steps are those of `TaskPool`, or stutter |

The argument. `Locks` says that a thread in an operation has the mutex of the
queue it is on, so that what it has loaded is still what the queue holds
(`Mutual`), and what each place of a thread's program implies for its operation and
its item (`Control`); it is inductive by itself. `Queued` and `Held` say where a
task is: `Unshared` that no two of these hold of one task, `Somewhere` that one
holds just when the task was added. Every step is a `Movement`: a task enters,
leaves, is put into a queue by the thread that holds it, is taken from the head of
one, or all stay put. `TypeOK` is less obvious than it looks: that `received` holds
tasks only needs `Control`, as a `Pop` that returns false leaves no task behind.

For the refinement, `StatusIs` reads the status of a task off its place: offered in
the owner's hands, waiting in a worker's queue (stranded, if that worker does not exist),
running in a worker's hands, done from its push to `completed_txns_` on; and each `Movement` is then one abstract step,
or none. Two facts about the past are needed as well: a worker that has pushed and
not yet unlocked holds a task that is done (`Pushed`); and when `stopped_` is set
nobody is in `AddTask`, so that a queue its worker has found empty stays empty
(`Shutdown`). The second is why emptying one's own queue is enough. A third is that no
task has been added while threads are created (`Fresh`), so that the step in which one
cannot be is the abstract `Lack`, and strands nothing yet.

### `LockingSchedulerProofs`

For any transactions, keys, programs, initial store and workers
(`LockingSchedulerAssumption`, `NoInsertAssumption`, `DisjointSetsAssumption`,
`NamesAssumption`; what these rule out is under "What is not modelled"):

| Theorem | Statement | Lock managers |
|---|---|---|
| `Invariant` | `IInv` is an invariant | all |
| `TypeCorrect` | `TypeOK`, if `Values` is closed under what the programs compute (`ValuesClosed`) | all |
| `KeptInOnePlace` | `InOnePlace`: no transaction is lost, executed twice or returned twice | all |
| `WaitersWaitForOlder` | `WaitsForOlder`: lock queues are in the order of `unique_id_` | all |
| `NeverDies` | the scheduler never meets a verdict it does not know (`DIE`) | all |
| `ConflictsAreExcluded` | `ConflictsExcluded` | A, B |
| `LocksAreHeldWhileActive` | `LocksHeldWhileActive` | A, B |
| `ConflictsCommitInOrder` | `ConflictOrder` | A, B |
| `RefinesSerialDatabaseSafety` | initial states and steps are those of `SerialDatabase`, or stutter | A, B |

The last four have the hypothesis `Excluding`: the lock managers it may be linked with
are A and B. With `shipped` they are false, as that placeholder grants everything.

The argument. `IInv` has twelve parts, of four kinds.
- *Places* (`Types`, `Distinct`, `Unshared`, `Order`, `LoopsLeft`). A transaction is in
  at most one of the queues, hands and sets that `Places` names, and once; those that
  have been popped from `txn_requests_` are older than those that have not. Every step
  moves one transaction from one place to another (`Moves`), and lemmas on that relation
  keep these parts once for all actions.
- *Locks* (`Table`, `Waiters`, `Earlier`). The lock table has a request of `t` for `k`
  exactly when the loop over the keys of `t` has come to `k` and not yet released it
  (`Asked`), exclusive if `t` writes `k`; each queue is in the order of `unique_id_`; and
  exactly the transactions that are in no place wait for a lock. So a transaction
  that is active owns all its keys, and whatever is older and conflicts with it is done.
  Under these are lemmas about the queues themselves: the owners are an initial segment,
  a new request at the end changes nobody's grant, and a removal grants exactly those
  that `Release` reports.
- *Data* (`Statuses`, `Isolation`, `Applying`). What a `Txn` looks like where it is: a
  worker has read, of the keys its loop has gone by, what `data_` *still* holds, because
  nobody else can be applying writes to them; a completed one is what its program makes
  of the store as it is.
- *History* (`CommitsInOrder`).

For the refinement the store of the abstract database is `data_` with the writes of the
transaction that is being applied already in it: the abstract execution happens when the
scheduler finds the verdict, and each `Write` of the loop that follows is a stutter
(`Applying`). That the result is what the transaction would have computed alone at
that instant is `Isolation`.

`InOnePlace` speaks of pointers to a transaction, of which there is one for each
place and position in a queue; it follows from `Unshared`, `Distinct` and `Waiters`.

### `SerialSchedulerProofs`

For any transactions, programs and initial store (`SerialSchedulerAssumption`):

| Theorem | Statement |
|---|---|
| `TypeCorrect` | `TypeOK`, if the values are closed under what the programs compute |
| `ServesInOrder` | `ServedInOrder`: verdicts are given and results returned in the order of `unique_id_` |
| `RefinesSerialDatabaseSafety` | initial states and steps are those of `SerialDatabase`, or stutter |

`IInv` is: `Types`; `Order`, the queue of requests is in the order of the numbers and
behind everything popped; `Decided`, a transaction has its verdict when the loop has
gone by it, and between the run and the verdict it is what its program makes of the
store as it is; `Handed`, what is handed back is in one place, with a verdict.

### `TxnProcessorLifecycleProofs`

For any number of transactions and of threads, and whatever the memory of `stopped_`
held, the scheduler thread failing to be created or not (`LifecycleAssumption`,
`NamesAssumption`):

| Theorem | Statement |
|---|---|
| `Invariant` | `IInv` is an invariant |
| `TypeCorrect` | `TypeOK` |
| `FreesNothingInUse` | `NoUseAfterDestroy`, of an owner that has collected all its results (`CollectAll`) |
| `JoinsBeforeItFrees` | with any owner, the scheduler thread, if there is one, is gone before what it uses is |

Without `CollectAll` the third is false, which is what the run `LifecycleEarlyDelete`
shows. The argument: a requested transaction is in one place (`Unshared`, `Requested`), a
worker past `poll` or `drain` has a task (`Executing`), the owner's place in the
destructor says which threads and objects are left (`Control`); hence when all
that was requested has been received, nothing is anywhere else (`Quiet`), no worker
executes anything, and nothing can start to: what the pool's threads still do
until they are joined touches their own queues only.

### `CommonFacts`

Lemmas the modules share, stated once: the least and greatest of a set of numbers; the
set and the order of a queue under append, tail, concatenation and removal; what `Run`,
`ExecuteTxn`'s verdict and `ApplyWrites` do to a `Txn` and a store; and folds. The
community modules define a fold by a recursive function on finite sets, chosen with
`CHOOSE`. That it exists and is what its equation says is proved without an induction
theorem that takes an operator: strict inclusion on the subsets of a finite set is well
founded, so that a set of counterexamples has a least element, which the equation
refutes (`LeastSubset`, `FoldExists`, `FoldsAgree`). The facts about sums follow:
`SumEmpty`, `SumRemove`, `SumSame`, `SumExtends`.

### `StaticThreadPool` below `LockingScheduler`

`RefinesTaskPoolSafety` is why the other two modules of assignment 2 may have the coarse
pool, all of whose threads exist: theirs accepts, starts and finishes a task in one step
each, as `TaskPool` does when it lacks no thread.

### Only model-checked

Liveness (`ExperimentEnds`, `TestEnds`, `EveryRequestAnswered`,
`AnsweredOnceStarted`, `DeleteReturns`) and the
fairness half of `RefinesSerialDatabase` and `RefinesTaskPool`: these need fairness
and `ENABLED`, which the prover does not reason about. The lock manager tests that
`MCLockingScheduler` replays are evaluated, not proved. Everything else that a passing
run checks is proved.

## What is not modelled

- `ThreadPoolLauncher`, `ProcessPoolLauncher`, `Request::Lock`/`Unlock`, the slot
  wait of `ProcessLauncher`, OCC's validation, `MVCCStorage` and the MVCC
  schedulers: the code has placeholders. (`MVCC_SSI` has no case in
  `RunScheduler`, so a processor in that mode answers nothing.)
- Command line (`config.h`), results file, test harness, benchmark: sequential I/O.
- What nothing calls: `AtomicMap`, `AtomicSet`, `Atomic`, the operators of
  `AtomicVector` but `Push` and `Size`, `AtomicQueue::Size`, `MutexRW`, and the
  second copy of its own text at the end of `static_thread_pool.h`
  (lines 123-242), which the include guard removes. `occ_start_idx_` is set by the
  workers (`ExecuteTxn`) and read by nothing.
- The pool inside `LockingScheduler` and `TxnProcessorLifecycle` is the coarse
  one: a task is in a queue or with a worker. `StaticThreadPool` is why that is
  enough: tasks are neither lost nor repeated on the way. These two modules take the
  threads of the pool for created; what becomes of the tasks of one that is not is
  `StaticThreadPool`'s.
- `pthread_create` of the monitor failing (`db_start.cc:93`), which an `assert` alone
  looks at: `done` is then never set and the driver issues requests for ever.
- What a join of a thread that does not exist may do beyond returning, blocking or ending
  the process.
- A write that creates a record while workers read the storage
  (`NoInsertAssumption`); overlapping read and write sets; a transaction object
  requested twice. The first has no defined outcome, the other two are excluded
  by comments of the headers and by the transaction types in use.
- The clock being set back; `high_priority_txns_executed_`, which nothing
  increments; widths of counters that the bounds keep far from wrapping.

## Plan

Done, in this order: `BoundedLauncher` and `ThreadLauncher` with their runs and
proofs; `TxnTypes`, `SerialDatabase`, `LockManager`, `LockingScheduler`;
`SerialScheduler`; `TxnProcessorLifecycle`; `RunTest`; `PerfMonitor`,
`ProcessLauncher` and their composition; `AtomicQueue` and `StaticThreadPool` with
`TaskPool`; the set-up of `RunTest`; the proofs of all invariants and of the steps of
all refinements.

Next:
1. Compose the processor's use of the pool with `TaskPool` by a theorem instead of the
   argument above.
2. The hazards of `PROJECT.json` that no property covers, where the code has a defined
   behaviour to state one of (the serial loop's growing `completed_txns_`).
