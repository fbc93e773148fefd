# behave-pool in TLA+

TLA+ models of behave-pool, model-checked with TLC and proved with TLAPS.
behave-pool runs a behave test suite in several processes: a coordinator
(`behave_pool/runner.py`) plans work units, puts them on a queue for N worker
processes (`behave_pool/worker.py`), collects their results and decides on the
exit code. What makes the program hard is around the tests, not in them: two
queues with feeder threads, processes that die at any point, timeouts, a second
phase that must run alone, machines that share a suite without talking, and a
file that several runs rewrite. That is what is modelled here.

## Inventory

| Component | State | Operations | Correct when |
|---|---|---|---|
| Dispatch and collect (`runner.py` 83-102, 240-389) | where it is, units dispatched, results read, `stop_event` | enqueue a batch and its sentinels, start workers, join with a 300 s timeout, terminate, drain, second phase, collect with a 30 s deadline, `finally`, exit of the interpreter | a pass means that every dispatched unit ran and passed; the run returns whatever the workers do |
| Worker processes (`worker.py` 374-501) | where it is, the unit in hand, its results not yet written | setup, stop check, `get`, run, `put`, `task_done`, teardown, exit | no unit runs twice; `@serial` units run alone, last and in order; nobody waits for ever |
| Work units (`worker.py` 37-371, `WorkerRunner`) | behave's runner: `aborted`, `hook_failures`, `undefined_steps`; report files | setup, run one feature, write its report, teardown | a result tells of its unit alone; a failure shows wherever it appeared |
| Planning (`runner.py` 104-238, `iterator.py`, `work_unit.py`) | the list of units | parse, sort by duration or not, shard, split off `@serial` | units once each, none lost, long ones first |
| Sharding (`shard.py`) | none | validate, sort, slice | independent machines agree on a balanced partition |
| Timing store (`timing.py`) | the file, the table read from it | load, update, compare, save by rename | never torn; what a run measured is in it; nothing else is lost |
| Reports (`runner.py` 414-684, serialisers of `worker.py`) | `tmp/worker_*.json` | merge, statistics, environment, clean-up | a report has what this run's workers did, once, and no failure in a report that says passed; nothing is left in `tmp/` |
| Configuration (`config.py`) | behave's `config` | register options, snapshot for workers | workers see the coordinator's options |

The coordinator and the workers interact by a `JoinableQueue` of units
(coordinator to workers), a `Queue` of results (workers to coordinator) and an
`Event` that everybody may set and nobody clears. Each queue is a buffer and a
feeder thread at every writer in front of one pipe with a lock: an entry can be
lost with the process that buffers it, can wait behind a full pipe, and can
overtake an entry of another writer. Runs interact only through files: the
timing file and `tmp/`. Machines of a pipeline do not interact at all, they
must compute the same thing.

`hazards` in `PROJECT.json` lists what is hard to test, line by line, with the
property that would catch it.

## Modules

    PoolState --- Worker -------\
         \------- Coordinator --- Pool --- PoolInvariant --- MCPool
                                   |            \--- PoolProofs --- PoolQueueProofs --- PoolOrderProofs
                                   \--- INSTANCE PoolPromise
    Lists --- Statistics --- WorkerRunner --- Reports --- ReportsInvariant --- MCReports
                                                              \--- ReportProofs --- ReportFaithProofs
    Lists --- Plan --- MCPlan, PlanProofs
    TimingStore --- TimingProofs
    Lists --- ListProofs, which PlanProofs and ReportProofs use

* **PoolState**: the shared state of one parallel run and what
  `multiprocessing` does with it. `log` is everything put on the task queue;
  `flushed` and `taken` are the two ends of the pipe in it. `FeedTask` is the
  coordinator's feeder thread, `rlock` the readers' lock of `get`,
  `obuf[p]`/`wlock`/`rpipe` the result queue. `Die` is the end of a process:
  its buffer is gone, its locks stay locked, and a large result may be cut
  short (`Torn`).
* **Worker**: `_worker_run_loop`, one action between two points at which
  another process can interfere. The stop event is read and acted on in separate
  steps where the code does so (`CheckStop`; for the second look, `SkipUnit` or
  `CheckAgain`, and then `StartUnit`, which looks at nothing). `get(timeout=5)` is `AcquireReader`, then `Take` or
  `NothingToTake`; either can time out. `FinishUnit` is the whole of
  `run_work_unit` with any outcome. `Escape` is what `except Exception` lets
  through. `ExitWorker` waits for the feeder thread, as the interpreter does.
* **Coordinator**: `_dispatch`, `_collect`, the `finally` block, and the exit
  that terminates daemons and joins the feeder thread. The labels of `cpc`
  are the places where it waits. Process N is the serial worker, which the code
  calls worker 0 once more.
* **Pool**: `Next`, the fairness, and the properties. **PoolPromise** is the
  abstract specification: two lots of units, at most N running, serial ones
  alone, and a verdict. Its `Begin` does not ask for the verdict: a worker past its
  second look starts its unit even if `run()` has returned meanwhile with a
  failure and the SIGTERM has not arrived. **PoolInvariant** is the inductive invariant, in four
  parts: `IInv`, `QueueInv`, `ResultInv`, `PhaseInv`.
* **Lists**: `[x for x in s if ...]` as a recursive function, which can be
  reasoned about.
* **Statistics**: `_compute_statistics`, as counts over the sequence of all
  scenarios instead of nested loops with counters. Durations are left out.
* **WorkerRunner**: what `Worker` takes as one step, `FinishUnit`: setup with
  `before_all`, and for each unit the reset of the runner, the feature loop, the
  four signs of failure, and the report in the steps in which another process
  can interfere (`MakeDir`, `OpenReport`, `FillReport`). `happened` is a history
  of what behave did with each unit. The options reach the worker by
  `make_config(snapshot_config(...))`.
* **Reports**: several runs in one directory, each with a coordinator and one
  worker. `Collect` ends the worker's part: with all results when the worker
  ended, with some of them when it was killed or terminated (`rushed`: it may
  still write). Then the merge reads one report per step, and the clean-up
  lists, unlinks, looks into the directory and removes it in steps of their own,
  as `pathlib` does. The system may refuse to unlink a file or to remove the
  directory (`UnlinkRefused`, `RemoveDirRefused`); the code suppresses the error and
  goes on, and `kept` and `dirKept` record what stayed for that reason. `disturbed` records what other runs did to a run's files;
  nothing reads it but properties. **ReportsInvariant** is its inductive
  invariant.
* **Plan**: the machines of a pipeline, each with its own `--shard m/Total`,
  its own order of discovery and its own timing file. A feature is its rank in
  the order of ids, so sorting by id is sorting numbers. Both modes are there:
  `Parse, SortByDuration, ApplyShard, SplitBySerialTag` in parallel and
  `Parse, FilterFeatures` in sequential mode.
* **TimingStore**: any number of runs at their `_update_timings`. The content
  of the file is `Missing`, `Garbage` or a partial function from ids.

A definition marked *Mutant* is a variant of the one that follows it, with a
bug in it. `mutants` in `PROJECT.json` says which property must notice it; it
is no part of the specification.

## What is checked

All with `tlc -config X.cfg M`. Passing runs:

| Run | Question | Instance |
|---|---|---|
| `pool_faults` | Does a pass mean what it says, are results true and unique, does `task_done()` never underflow, whatever goes wrong? | 2 workers, 1 + 1 units, every fault, both pipes of 2 entries, results in two writes |
| `pool_invariant` | Is `PoolInv`, the inductive invariant, an invariant; are there enough sentinels; do serial units run alone and last; does nothing run twice; does `Pool` implement `PoolPromise`? | 2 workers that race for 2 parallel units, 1 serial; setup failure, abort, kill, escaping exception |
| `pool_only_serial` | With phase 1 skipped, do serial units keep their order? | 2 serial units, every fault |
| `pool_healthy` | Do healthy workers bring every unit to a result and the right verdict, without deadlock? | 3 workers, 2 + 2 units, task pipe of 2 |
| `pool_ends` | Does `run()` return and the process end, whatever the workers do? | 2 workers, 1 + 1 units; setup failure, kill, escape, Ctrl-C; joins expire at will; both pipes of 2 entries, results in two writes |
| `plan_shards` | Do machines agree on a balanced partition; is what they dispatch fit for `Pool` and, without sharding, longest first; does one queue keep its bounds, against every schedule there is? | 5 features, 3 shards, wrong indices 0 and 4, both modes, two discovery orders, three histories, one `@serial` feature or none |
| `reports` | Does a result tell of its own unit; does a worker stop the others only after a failure; does a dry run execute nothing; is a report what happened, with a status that fits its statistics; is nothing left in `tmp/` but what the system refused to remove, and does the clean-up not fail; is `ReportsInv`, the inductive invariant, an invariant? | two runs: a run and its repetition with the same file names; two shards, one with two units of one file name; alone, a feature of any sensible outcome and one that passes or fails; the same as a dry run. Failing setup, hook, parse; a disk that refuses to write, unlink or remove; killed and late workers; killed coordinators; a foreign file in `tmp/` or none |
| `timing_runs` | Is the file never torn, what was measured saved, the rest kept? | 2 runs, 2 ids, 2 durations, invalid entries, any initial content, crashes, full disk, a clean-up that fails |

Bounds. Every interesting event of the pool happens between two units, two
workers, or a worker and the coordinator: two workers and two units let one
worker take both, and three (`pool_healthy`) let sentinels and units be taken by
different ones. `MaxKills = 1` bounds deaths from outside; SIGTERM by the
coordinator and by the exit adds more. Capacities of 2 make both pipes run full. Five features
and three shards give a remainder (two shards of 2, one of 1) and the worst
case of longest-first on two workers: with no `@serial` feature the third history
gives the batch 3, 3, 2, 2, 2, which takes 7 where 6 is the best, so the bound
4/3 - 1/(3n) is met with equality and no smaller factor would pass. Times are natural numbers
in `Plan`: the unit of time is arbitrary, so nothing depends on how fine it is. In `reports` a unit can leak
only into the next, a file can be shared only by two, and a merge of two reports
has a first and a second; the plans of `MCReports` give each run the faults that
matter to its question, since all faults in both runs only multiply cases. What the bounds cut off is
covered by the proofs for the properties that have one.

Most runs switch deadlock checking off because the run may really stop: when
the coordinator was killed (`crash`), when a torn result blocks `_collect`, or
after the last step of `Plan`, `TimingStore` and `Reports`. `pool_healthy` checks deadlock.

The liveness properties name what they cannot have. `Returns` and `Exits` hold
of every run except one that reads a torn result (`ReadsTorn`) or whose feeder
thread has more tasks than the pipe takes (`FeederStuck`); both occur in
`pool_ends`. `ReportFaithful` and `StatusMatchesStatistics` speak of runs whose
files are their own (`FilesOwn`), `MergeReturns` of runs whose directory was not
removed; in the same run both are taken from them.

Fairness. `Spec` assumes that the coordinator's two threads are scheduled and
that SIGTERM kills; nothing of the workers, because a step definition may hang
for ever. This is all `pool_ends` uses. `HealthySpec` adds that hooks and steps
return and workers are scheduled, which is what "healthy" means. Two
assumptions about time stand in guards: with `Patient` a 300 s join expires
only on a worker that can make no step of its own (`Blocked`); and `JoinDone` waits for
`FeederIdle`, as creating and ending a process takes much longer than the
feeder thread needs to write into a pipe that has room. Without the second the
drain can miss entries (see below).

## What is proved

Every safety property of the passing runs is proved, and so is the refinement of
`PoolPromise`. What the runs show on small
instances the theorems state for every value of the constants. Hardly any
of the properties is inductive by itself; for each component there is one
invariant that is, which a run checks as well (`PoolInv`, `PlanInv`, `StoreInv`, `ReportsInv`).

### The pool

From `PoolAssumption` (two or more workers; ids distinct), for any number of
workers and units, any capacities and any faults. The proofs first sum up what
each step may do (lemmas `MainEffect`, `ProcessEffect`), and then show each
conjunct from those effects.

* `PoolProofs`: `Invariance` of `IInv`, and from it `UnitsRunOnce`,
  `SerialUnitsRunAlone` and `VerdictIsSound`. That nothing runs twice needs that no two workers hold
  the same entry (`ItemsDistinct`), that the queue holds no unit twice
  (`LogInjective`), and that what is still ahead or in a hand that did not look
  yet has not started (`FreshAhead`, `FreshInHand`). That a serial unit runs
  alone needs an argument across the phases: joined workers are gone unless
  somebody set the stop event (`JoinedGone`), until then no serial unit is
  anywhere (`NoSerialYet`), and the stop event bars phase 2, so once a serial
  unit is in the queue phase 1 is dead (`SerialAlone`). That a pass can be
  trusted needs that every result, in a buffer, in the pipe or read, is true
  (`AllTrue`).
* `PoolQueueProofs`: `QueueInv` and `ResultInv`. `task_done()` never underflows
  (`TasksAreAccounted`): its counter is the entries nobody took plus those in
  hand. While a phase is joined there is a sentinel for each worker that still
  reads (`SentinelsSuffice`), by counting: as many sentinels are put as workers
  are started, and who takes one reads no more. What is collected was put, once for each
  unit, and is what its worker came to (`ResultsAreTruthful`).
* `PoolOrderProofs`: `PhaseInv`. A unit whose worker has looked at the stop event for
  the second time starts whatever happens then, also after the drain has taken
  what is behind it; so `StartsInOrder` keeps for it, until it starts, that all
  serial units before it came to a result and nothing behind it has begun. From
  it `PoolInvariance` of the whole `PoolInv`,
  and `SerialUnitsInOrder`, `PhasesKeptApart`. Last, `PromiseKept`: `Pool`
  implements `PoolPromise` under the mapping of `Pool.tla`, each action by a step
  of the promise or a stutter.

### Planning and sharding

From `PlanAssumption`, for any suite, number of shards, orders of discovery and
timing files (`PlanProofs`): `PlanInvariance`, `EachFeatureRunsOnce`,
`SharesDifferByOne`, `BatchesAreFit`, `LptIsBounded`, `QueueIsFair`. `PlanInv` has
three parts. `ShareInv` says that a machine holds all features until it takes
its slice of the one sorted list; that the slices are a partition is then
arithmetic: shard i ends at `i * q + min(i, r)`, where the next begins, and the
last one ends with the list. `BatchesFitPool` says that what a machine
dispatches is what `PoolAssumption` asks for: no unit twice, in one batch only.
`OrderInv` follows the order by duration from the sort through the split of
`@serial` units to the dispatch, as long as sharding does not undo it.

`LptIsBounded` and `QueueIsFair` are about time, and hold of every schedule
`who` in which the next unit goes to a worker that is free first
(`TakesWhenFree`), however ties fall, against every schedule `best`. The
argument is Graham's:

* The times of all workers add up to the same total in every schedule
  (`Accumulates`), so some worker of `best` is busy for the average or more.
* Whoever takes a unit was free first, so what it had done before is at most the
  average of what all had done. With that and no unit longer than `best`, it is
  done with this unit by 2 - 1/n, in any order (`QueueStep`, `QueueIsBounded`).
* Longest first, a unit that takes at most a third of `best` is done by
  4/3 - 1/(3n), by the same sum (`LongestFirstIsBounded`).
* A unit that takes more than a third of `best` is done by `best`
  (`LongEndsInTime`). All units before it are as long as it is or longer. Let those
  that leave no room for it within `best` weigh 2 and the others 1. No worker of
  `best` has a weight above 2 (`AtMostTwo`); if the unit were late, each worker
  would have a weight of 2 before it came (`AtLeastTwo`), and `best` would have to
  carry one unit more than it can.

### The timing file

From `TimingAssumption`, for any number of runs (`TimingProofs`):
`StoreInvariance`, `FileStaysWhole`, `OwnDurationsAreSaved`,
`OtherDurationsAreKept`, `NoLitterIsLeft`. `StoreInv` says what `_data` is while a
run is between its steps, and that it is the merged file as long as nobody
else replaced it.

### Units, reports and statistics

For any number of runs in one directory, any plans, options, file names,
outcomes and faults, from three assumptions:

* `RunnerAssumption`: the types of the constants; a run has no unit twice.
* `BehaveAssumption`: an outcome that a unit can have is `Consistent`. A failed
  scenario shows in what `feature.run()` returns, or in the count of failed hooks;
  an undefined step shows in `undefined_steps`. This is behave's part, which
  `WorkerRunner` relies on; the outcomes of `MCReports` satisfy it.
* `TornAssumption`: a half-written report is not the report of a feature; it does
  not parse.

`ReportsInv` has two parts. `SharedInv` (`ReportProofs`, theorem
`SharedInvariance`) is about one step at a time and holds even of runs that
disturb each other. Each unit is run once and starts from zero (`OnceEach`,
`FreshStart`); while its report is written the worker's fields are what this
unit left in them (`OwnOutcome`); who waited for its worker lists all the files
it has, and has in the end none but those the system refused to unlink
(`WorkerEnded`, `ListedOnly`); a directory that vanishes was removed by a
run that left its mark in `disturbed` (`DirOrDisturbed`). From it follow
`ReportsTypeCorrect`, `UnitsDoNotInfect`, `StopsWithAFailure`, `DryRunIsDry`,
`TmpIsLeftClean` and `MergeFailsOnlyDisturbed`.

`ReportInv` (`ReportFaithProofs`, theorem `ReportsInvariance`) follows a file from
the worker to the report. The file that is open is its writer's (`OpenedOwn`);
once written it stays as it is until it is merged (`FilesKept`), since
the run does not write it again, its units having different file names, and
any other run would have disturbed it; so what was merged of the first n
results is what is expected of them (`MergedSoFar`). This gives
`ReportsAreFaithful`. `StatusAgreesWithStatistics` needs in addition that the status and the
statistics, which the code computes from different data, come from the same
outcomes (`OutcomesKnown`, `StatusAndStatistics`), and what the counts of
`Statistics` are zero for.

### Induction

The induction theorems of the library take the property as an operator, which
the provers cannot instantiate. `ListProofs` states induction over numbers and over
prefixes of a list with the property as a set, proved from the least element of
its complement, and uses it for what `Only` returns (its elements, its length,
what appending does to it, that it keeps an order) and for the type of a
flattened list. It also has functions defined by recursion over numbers
(`Recursion`), sums over an interval with their bounds (`SumBounds`, `SumAdds`),
and a greatest element of a non-empty bounded set, which the schedules of
`PlanProofs` need.

### Only model-checked

* Liveness: `Returns`, `Exits`, `HealthyRunCompletes`. They need fairness, which
  is out of the prover's reach.
* What the four violation runs refute, which is false.

## Where the code and its words differ

Four runs check what the documentation says and find it violated:

* `bug_failure_unread`: the result of a failed setup counts as the result of a
  unit, so `_collect` can stop before it reads it, and the run passes.
* `bug_full_results`: workers are joined before their results are read. When
  the results of a phase exceed the pipe, healthy workers wait for a reader
  until the join expires, are terminated, and their results are lost.
* `bug_report`: the status in the merged report ignores missing results.
* `bug_tags`: the snapshot of the configuration has no `--tags`, so workers
  execute every scenario of the planned features.

Other things met while modelling, none of them a run of its own:

* When a join expires, the serial phase is skipped and its units are not
  counted as missing: a run can pass without having run them (`runner.py:302`).
  The unit tests expect undispatched units not to be counted.
* A failed setup adds the key `setup` to the timing file (`runner.py:406`).
* What the feeder thread still holds during the drain reaches the pipe later, in
  front of the serial batch (`runner.py:293`). `FeederIdle` rules this out.
* After Ctrl-C with more unread tasks than the pipe holds, the process hangs at
  exit in its feeder thread (`runner.py:99-102`): `FeederStuck`.
* A result cut short by a kill blocks `_collect` beyond its deadline
  (`runner.py:355`): `ReadsTorn`.
* A killed worker does not set the stop event, so the serial phase runs
  (`runner.py:302`); `docs/serial-scenarios.md:113` has it skipped after "a worker
  crash".
* A worker holds both ends of the task pipe and never sees the `EOFError` of
  `worker.py:413`: workers of a killed coordinator poll for ever.
* behave runs no feature after a failed `before_all`; here the first unit resets
  what it left, and units run and pass (`worker.py:115-117`). If that unit's
  file does not parse, nothing is reset, and the worker stops all others.
* A failed `after_all` comes after the last result and fails nothing
  (`worker.py:150`).
* `--stop` ends a unit, not the run: nothing but an abort sets the stop event.
* Two runs in one directory remove each other's reports, and one can end with
  `FileNotFoundError` from `iterdir()` after its tests are done (`runner.py:472`).
* Units whose ids differ only in `/` and `_` share a report file; the last report
  is merged for both, even one whose own result was lost: a report can then say
  passed and contain a failure.
* A terminated worker can leave a report file after the clean-up.
* A refused `unlink()` or `rmdir()` is suppressed without a word: the reports and
  `tmp/` stay, the run ends normally, and the next run in the directory finds
  them (`runner.py:470-474`; `docs/architecture.md:189` says "Clean up `tmp/`
  directory"). `CleanTmp` allows exactly this.
* A unit can begin after `run()` has returned with a failure: terminated workers
  are not joined, and one that is past its second look at the stop event
  (`worker.py:422-425`) starts its unit unless SIGTERM arrives first.
* If saving the timing file fails and removing the temporary file fails as well,
  the temporary file stays (`timing.py:92-95`): `littered` in `TimingStore`.
* `passRate` is passed steps over passed and failed ones; a step with status
  `error` is in neither (`runner.py:555`).
* `_apply_shard` sorts by id what was sorted by duration, so
  with `--shard` a machine dispatches in the order of ids (`shard.py:199`,
  `docs/sharding.md:78`). `LptBound` is therefore stated without sharding; with
  it, `QueueBound` is what is left.
* A single `@serial` scenario makes its whole feature serial
  (`iterator.py:67-74`); in the model a unit is a feature.
* `float()` of a huge integer in the timing file raises `OverflowError`, which
  `load` does not catch (`timing.py:56`).
* Two runs that race lose entries of each other that are not their own;
  `OthersKept` is stated for runs that were not raced.

## Not modelled

The layout of the report (locations, texts, durations, errors), environment
detection, option registration and logging: layout and pure I/O. Two runs that
write the same merged report: the last one wins. behave's parser and its feature
loop: external. `collect_scenarios` and `sort_scenarios` of `shard.py`: called
by nothing in the package. The locks inside `Event` and inside the counter of
`JoinableQueue`: a worker killed while it holds one blocks whoever needs it.
Overlapping paths on the command line, which give two units one id.

## Plan

Done: models and runs of the pool, planning and sharding, the timing store, work
units, reports and statistics; proofs of all their safety properties and of the
refinement. Left, in this order:

1. The locks inside `Event` and the task counter, as steps of their own.
2. Overlapping paths on the command line: units that share an id, in `Plan` and
   in the missing results of `Coordinator`.
