# A formal model of mlx-native-scamp

mlx-native-scamp computes matrix profiles on Apple's MLX: for every window of a
time series its best correlation with the windows of the same series or of
another, and where.  Most of its lines are numerics.  What can go wrong without
a number being wrong is elsewhere: in how a join is cut into tiles and put
together again, in the threads, retries and workers of the distributed mode, in
the files a command replaces, in caches several processes share.  This project
models that part in TLA+, checks it with TLC, and proves the central invariants
with TLAPS.  Paths below are relative to the repository; `distributed/` and the
`.py` files are those of `src/mlx_native_scamp/`.

## The system

| Component | State | Operations | Interacts with | What is hard | What makes it right |
|---|---|---|---|---|---|
| Tile planner, `distributed/coordinator.py` `plan_1nn_tiles` | none (a pure function; `ProfileTilePlan` iterates) | choose a tile size by bisection under a memory and a message limit; yield tiles | coordinator | boundaries: clipping, the diagonal, the bisection | every pair compared exactly once; every tile within both limits |
| Coordinator, `DistributedCoordinator._run` | futures in flight, the profile being merged, progress counters | submit, wait, validate, merge, report, unwind | planner, pool, the caller's callback | answers in any order, wrong answers, errors while tiles run | the profile does not depend on the order; no tile lost; nothing left running |
| Retries, `_execute_with_retries` | retries made | execute, discover, retry, raise | pool | bounded retries over a changing pool | ends; gives up only when it must |
| Worker pool, `distributed/runtime.py` `WorkerPool` | preferred workers, round-robin cursor | choose, fail over, discover | workers (RPCs with deadlines) | stale preferences, workers that stop, return, answer late | only workers of the plan; one good worker makes up for those that are down, late or full |
| Worker service, `_WorkerService`, `WorkerServer` | serving state, tile slots, counters | execute a tile, health, start, stop | coordinator's RPCs, MLX stream lock | every path gives back what it took; stop while serving | slots conserved; health truthful and answerable |
| Tile execution, `distributed/execution.py` | none | mask, two arg-max reductions, global indices | worker service | ties, the exclusion zone, 32-bit offsets | best match at the lowest index |
| CLI output transaction, `cli.py` | staged files, backups, what was done | stage, verify, back up, install, publish, clean up, roll back | other processes on the same files | interrupts anywhere, changes by others between check and rename | nothing of others destroyed; all outputs or none |
| CLI input, parsing, formatting, `cli.py` | none | validate, read, format | engine | conversion | - |
| Core engine, reducers, `core.py` | lazy tiles pending, reducer state | tiled reductions (best match, sum, knn, matrix), scheduling | - | ties across tiles, bins, the bound on lazy work | each reduction equals its definition over the whole matrix |
| Core engine, dispatch, `core.py` | MLX's default device, event ids | resolve the device, enter a context, choose a kernel, fall back, report, leave | Metal kernels, tuning sidecar, other threads | process-wide state replaced and put back; fallbacks | the join runs where it was told to; reports are true; the device comes back |
| Metal kernels, `_metal_*.py` | device buffers of atomics | atomic maxima, then atomic minima of indices; additions by compare-and-exchange | engine | races between threads, edges of bins, overflow | the profile the portable reducer computes |
| Native library, `cpp/src/scamp.cpp` | device buffers of atomics | as the kernels | native CLI | as the kernels | as the kernels |
| Tuning sidecar, `_autotune_cache.py` | a JSON file, a lock file, caches per process | save, load, look up, reset | other processes, autotuner, engine | lost updates, stale caches, crashes | no lost record; never a torn file |
| Autotuner, `_autotune.py` | measurements | measure, validate, save | engine, sidecar | candidates that fail | only validated strategies are saved |
| Native CLI, `cpp/cli/native_cli.cpp` | staged files, flags | stage, back up, install, roll back | files | as the Python transaction, with replacing renames | all outputs or none |
| Codec, protocol, entry points | none | encode, decode | - | conversion | - |

## Modules

Each module names in its header the code it stands for; `PROJECT.json` maps each
definition to its lines.

**The distributed mode.**

* `ProfileMerge`: what a profile cell is, when a slice of an answer is acceptable
  and how it is merged (`_apply_profile_slice`).  A correlation is an integer in
  `-Scale .. Scale`: merging only compares.
* `TileExecution`: what a cell of the join is, from a given matrix of
  correlations, which cells are trivial matches, and the reduction to the first of
  the greatest.
* `WorkerTile`: what a worker computes of a tile (`execute_1nn_tile`).  It looks for
  trivial matches not at all if the block is away from the diagonal, in 32-bit
  integers on the device if they hold all differences, else on the host; it
  reduces the rest along columns and rows, and answers with the two slices.
* `TileGrid`, `TilePlanner`: the arithmetic of the plan, what a merge needs of its
  tiles (`WellTiled`), and `plan_1nn_tiles` as a machine: validate, bisect, resolve
  the size, yield tiles one by one.  The machine's `PlannerInit` and
  `PlannerNext` have names of their own because the coordinator's proofs, which
  compose the two, extend both modules.
* `ProfileJob`: the abstract promise of a job, without tiles or workers: it
  returns the profile of the whole join, or fails and returns nothing.
* `Coordinator`: the calling thread of `_run` (`phase` is where it is in the
  code) and the threads of its executor (`task` is the state of each future).
  `wait` returns every finished future; they are handled one by one, each
  handling is one action: validate, merge, count, report, submit the next.
  Errors, refused slices and a callback that raises lead to `unwinding`, the
  `finally` block.
* `TileCall`: what the coordinator's threads rely on when they call the pool:
  at most `MaxRetries` retries, then an end.  Its actions are those threads'.
* `WorkerPool`: `execute_tile` (the choice under the lock is one action, each
  RPC two: sent, answered), `_execute_with_retries` around it and
  `discover_serving` within, which asks the workers in any order and stores the
  preference when all have been asked.  Workers stop, crash, return, refuse and
  finish what nobody waits for; those in `erring` may answer with an error that is
  not transient.  It implements `TileCall`.
* `WorkerService`: a handler thread of the worker per request, with one action
  for each step another thread can see: state read, slot, counter, stream lock,
  and back; the owner of the server starts and stops it meanwhile.

```
ProfileJob  <=  Coordinator  (ProfileMerge, WorkerTile, TileGrid <- TilePlanner)
                   |  TileCall
                WorkerPool
                   |  RPCs
                WorkerService
```

`Coordinator` and `WorkerPool` meet at `TileCall`: the pool is checked to
implement it and the coordinator's thread actions are it, so neither is checked
with the other's states.

**The command line.** `OutputCommit` is `_stage_outputs` to `_commit_outputs` and
`_rollback` for any set of outputs.  A file is an identity (its inode) and a
version (a write changes it); each output has three paths, and each look at a
path and each rename is a step of its own.  Renames never replace
(`RENAME_EXCL`, which the code has on macOS).  Other processes put a file at a
target, take one away, or write to the original, which they may hold open.  An
error or an interrupt may come before any step.

**The reductions.** `TiledReducers` is the portable path of `core.py`: the shape of
a tile under the memory budget, the traversal, and what each of
`_best_match_profile`, `_bidirectional_best_match_profile`,
`_sum_threshold_profile`, `_matrix_summary` and `_knn_profile` keeps from tile to
tile.  The code runs one of them per call; the model runs them side by side over
the same tiles, since none reads another's state.  It uses the cells and entries
of `TileExecution`.

**The engine on Metal.**

* `EngineDispatch`: threads of one process that call the engine.  The default
  device of MLX is one variable of the process; each thread resolves where its
  join is to run (arguments, then the record of the sidecar, then the default),
  enters the context of that device, decides for a custom kernel or the portable
  reducer, reports, computes in `Tiles` operations that go to whatever the
  default is then, and leaves.
* `DiagonalKernels`: the threads of a launch, each on its diagonal, at the grain of
  one atomic operation.  Keys, coordinates and bins are integers of `Width` bits:
  `OrderedKey` makes the order of floats that of unsigned integers, and what
  wraps in the code wraps here.  The host's batches, launches and guards are the
  actions between.

**Tuning.**

* `TuningKeys`: pure definitions shared by `AutotuneRun` and `EngineDispatch`:
  strategies, workloads, buckets, keys, and which records are accepted.
* `TuningStore`: the abstract promise of the sidecar: a set of records, one per
  workload and environment, from which a save drops others only for want of room.
* `AutotuneCache`: the sidecar with its processes, threads, lock of the process,
  lock file, temporary file and the two `lru_cache`s of each process.  A process
  may die between any two steps, which frees its locks and its caches, and starts
  again.  `recent` and `excused` are history variables: what a lookup may see
  without contradicting the last change its own process made.
* `AutotuneRun`: `run_autotune`.  An execution may be right, wrong in any of the
  ways the comparison tells apart, fail, or fail in a way the tuner does not expect.
  `streaks` is a history variable: what an observer of the executions and the clock
  notes of each strategy, beside what the tuner makes of them.

```
ProfileJob  <=  Coordinator                 TuningStore <= AutotuneCache
TileCall    <=  WorkerPool                  TuningKeys  <- AutotuneRun, EngineDispatch
```

## What is checked

| Run | Instance | Properties |
|---|---|---|
| `tile_planner` | self-joins of 0 to 6 and AB-joins of up to 5 by 6 subsequences, with limits that let tiles of none, one, two, three or all through, sizes asked for or not | `BisectionKeepsAnswer`, `EveryPairOnce`, `TilesWithinLimits`, `PlanningEnds` |
| `coordinator` | three joins full of ties and flat windows, cut into two to four tiles; right answers and those with one thing wrong that the messages can show; one or two workers; one retry | `MergedIsBest`, `NoTileLostOrTwice`, `InFlightBounded`, `EndedJobIsQuiet`, `ImplementsProfileJob`, `JobEnds`, `TypeOK` |
| `worker_pool` | three workers, two of them pinned, one of these dependable or not; an error that is not transient comes from the third, from the other pinned one, or from both; two tiles; one retry; one change of a worker's state | `PinnedOnly`, `OneWorkerSuffices`, `ImplementsTileCall` |
| `worker_service` | three threads, two slots, four requests | `SlotsConserved`, `ActiveWithinSlots`, `AllSlotsReturn`, `HealthStaysResponsive`, `TypeOK` |
| `output_commit` | three outputs, two of which replace a file; three changes by others, one error from nowhere | `NothingOfOthersLost`, `AllOrNothing`, `StrandedIsReported`, `CommandEnds` |
| `commit_write_lost` | the same | `NoWriteLost` is violated |
| `tiled_reducers` | every 3 by 2 matrix over three values, self-joins of four windows with an exclusion zone, and one 4 by 5 matrix in every shape and binning; budgets for tiles from one cell to the whole | `BestIsFirst`, `SumIsComplete`, `SummaryIsBinned`, `NearestAreNearest`, `ShapeIsAffordable`, `TypeOK` |
| `autotune_cache` | two threads of a process and one of another, in another environment; room for two records; a sidecar absent, damaged or full at first; one call each, one death | `ReadsOwnWrites`, `ImplementsTuningStore`, `CallsEnd` |
| `autotune_run` | seven plans: accepted ones of two to seven candidates, and those refused at once or on the way; up to three runs, four lengths of a run | `OnlyRightOnesCompete`, `SavedIsOfUse` |
| `engine_dispatch` | two threads, two calls of twelve kinds, four sidecars, either home device | `RunsWherePromised`, `ReportsAreHonest`, `DefaultDeviceComesBack`, `EventsPairUp` |
| `dispatch_race` | the same | `DoubleStaysOnCPU` is violated |
| `diagonal_kernels` | joins of two to five positions with every assignment of one to four correlations to their cells, in 4-bit arithmetic; every kind of kernel; one whose diagonals overflow | `NearestByKernel`, `PooledByKernel` |

Every property of a passing run has a mutant in `PROJECT.json`: a definition
changed as a slip of the code would change it, under which TLC finds the
property violated.  The changed forms stand before the definitions they replace
and are used nowhere else.

**Why the bounds are enough.** The planner's sizes are chosen so that every
outcome of the bisection and every way an edge clips a tile occurs, including a
single subsequence and a tile as large as the join.  Three tiles and a window of
one or two futures are the fewest with which a tile is in flight, another
merged and a third still to come; a tie between tiles, a refused row half and
an error while another tile runs all occur.  In the pool the initial states hold
every mix of workers up and down, so with one more change a worker can have left
or returned at each point; two tiles are the fewest that change each other's
preference and cursor.  Two slots and three threads leave one thread for health,
as the code's configuration does.  In the transaction, two originals are the
fewest for an interrupt between two moves aside, and three changes let others
interfere with a rollback that their interference began.  The reducers' matrices
hold every pattern of ties and invalid cells of their size, cut at every place;
k runs above and below a tile's height, bins above and below the subsequences.
Two threads that share a process's caches and a third that shares only the
file are the fewest with which a lookup can fill a cache between the
replacement of the file and the clearing, while another process waits for the
lock; the sidecar has no room for a third record, nor for a third environment, so that
both evictions occur.  In four bits a summary of an AB-join of 5 by 5, or into
5 by 4 bins, is just beyond what the guard admits and one of 4 by 5 is just
within, negative correlations and ties have keys next to each other, and
up to five diagonals meet at one cell; in the AB-join of 5 by 5 nearest
neighbours the last diagonal's number is 8, which wraps.  Of the blocks in
`MCCoordinator`'s `MaskAssumption`, which TLC evaluates with `coordinator`, some
have their least difference at -8, the integer without an absolute value, and some
beyond, and zones go past the greatest integer.  Of two calls, one can enter a
context and leave it within the other's, or overlap it at either end.

**Fairness.** The calling thread and the executor's threads go on (`JobEnds`):
every RPC has a deadline, retries are bounded, and the only waiting is for a
future some thread has.  In the pool each call goes on for the same reason; nothing is
assumed of workers.  In the service only bookkeeping steps are fair; that MLX
returns is an explicit hypothesis of `AllSlotsReturn` and is not used by
`HealthStaysResponsive`.  The command makes its next system call (`CommandEnds`).
A call of the sidecar that has begun goes on, if its process lives (`CallsEnd`):
the file locks are held across system calls only and die with the process, and
the kernel gives them to one of those that wait.

**What the runs say of the code, beside that it is right.**

* `OneWorkerSuffices` holds of a worker with a slot for each tile in flight.
  With fewer, two tiles that meet on it can exhaust the retries of one while all
  workers are well: the backoff is short and a refusal counts as a failure
  (`coordinator.py:439-452`).
* `OneWorkerSuffices` says nothing of errors that are not transient.  A worker turns
  any exception but two kinds into INTERNAL (`runtime.py:321`), and the pool raises
  that at once instead of trying the next candidate (`runtime.py:590`).  So one pinned
  worker whose device fails on every tile ends the job, however many others could
  have computed the tile.  The invariant is that nothing else does, and that no
  worker the plan was not made for can.
* A candidate of the tuner is dropped for a wrong result, an error, or a clock that
  has not moved during one of its trials (`_autotune.py:695`), however right its
  results are: `OnlyRightOnesCompete` counts such a trial as a flaw.
* `submit_tile`'s own checks of size (`coordinator.py:637-644`) never fail:
  `TilesWithinLimits` holds of every plan.
* `commit_write_lost`: from the last verification of a target on, the command
  compares inodes only.  What a process that has the original open writes while
  the outputs are being installed goes with the backup (`cli.py:1382`).
  `README.md:113-115` of the repository says that the rechecked path and inode
  snapshots "prevent accidental concurrent writers from being overwritten"; it
  excludes deliberate races of single system calls, and this is neither
  deliberate nor about one system call.
* `dispatch_race`: `_run_profile_with_resources` (`core.py:2313`) enters MLX's
  stream context without a lock, as `distributed/execution.py:16-18` says one must
  not: "MLX's stream context changes process-global default state".  If a
  thread enters the context of a join on Metal while another computes one in
  double precision, the rest of the latter goes to the GPU.  `README.md:275-276`
  of the repository says that "Double and ultra precision remain entirely on MLX
  CPU."  (MLX may well refuse the operation there, and the join then fails.)
  Alone in their process, and in the distributed worker, which has the lock, calls
  do run where they should: `RunsWherePromised` and `DefaultDeviceComesBack`
  are stated of histories without overlapping contexts.
* `ReadsOwnWrites` needs its excuse: a lookup of another thread that has read
  the file before a save may store what it read after the save has cleared the
  caches (`_autotune_cache.py:680`), and then the process does not see its own
  record until something else clears them.
* A plan with more than 1000 trials passes `_validate_plan` and is refused by
  `new_record` once all of its runs have been made (`_autotune.py:720`).
* Every state of `OutputCommit` is one a crash can leave.  `NothingOfOthersLost`
  is therefore also what a crash guarantees: the originals are there, perhaps
  under the backup's name.  Nothing puts them back afterwards; the code does not
  claim so.

## What is proved

Of the properties the runs check, all safety properties are theorems, for all
values of the constants, and of the three refinements two entirely and one but
for its fairness.  A proof may use
the named assumptions on the constants in its module (TLC evaluates them on
the instances) and nothing else.  Few of the properties are inductive alone; what
follows says which invariant is and why.

* `CoordinatorProofs`, the planner.  `BisectionIsRight` and `TilesAreSafe` for
  limits and joins of any size, from `PlannerInv`, by `FitsIsMonotone`: the
  estimates grow with the tile, so what is above a misfit does not fit, and a
  clipped tile fits.  `EveryPairIsOnce`: the tiles that hold a pair are those of
  one corner (`CornerOfPair`), and `GridInv` says that the tiles yielded are those
  of the corners before the iterator's, in their order; that they are as many as
  announced is the sum of an arithmetic progression in a self-join.
* `CoordinatorProofs`, the coordinator: `TypeCorrect`, `MergeIsBest`, `TilesAreKept`,
  `InFlightIsBounded`, `EndIsQuiet`.  The invariant `IInv` adds `FuturesInv` (what
  the iterator has not given is untouched, what a thread has is pending),
  `CallerInv` (what each phase knows) and `AcceptedInv` (what is merged was
  acceptable, so its entries are correlations with an index, on which the order
  of cells is total).  The merge step rests on `BetterIsBest`: the better of two
  cells is the best of both their sets, and `BestIsUnique`, so the order of
  merging leaves no trace.
* `CoordinatorProofs!PromiseIsKept`: `ImplementsProfileJob`, step by step.  It assumes
  `PromiseMayBeKept`: the join is cut into the tiles of a plan and is well formed,
  and an answer that passes the checks is right, since a worker can lie in ways
  no check sees.  The first is what the planner yields (`PlannedJobsAreRun`), and
  all the merge needs of it is `WellTiled`, proved of every plan
  (`PlansAreWellTiled`); TLC evaluates `WellTiled` and the rest on the instance
  (`PromiseAssumption`).  The argument: on return all tiles are merged
  (`NoTileLostOrTwice`), each profile cell is the best of what the answers say
  (`MergedIsBest`), what each answer says is the best of its tile, and the best
  of bests of sets that cover a row or column is the best of all of it
  (`BestOfBests`).
* `CoordinatorProofs!HonestWorkersSuffice` needs no assumption on answers: what
  `WorkerTile` computes of a tile passes the checks and is right
  (`TileResultIsRight`), however many ties, flat windows and excluded cells the tile
  holds.  So with workers that
  answer, if they answer, with what the code computes, the promise is kept and no
  answer is refused.  The two reductions find the first of the greatest
  (`FirstBestIsBest`), the index of a sentinel is the -1 the checks ask for, and
  a slice says of each position what was found for it (`SliceSaysBest`).
* `CoordinatorProofs!MaskIsExact`, which this rests on, is for tiles of any size
  anywhere, any zone and any width of the integers: under the guard no operation of
  the device overflows, not even the absolute value, since the guard keeps the
  least integer out (`DeviceIsExact`), and a tile that is skipped has nothing to
  mask (`NoneIsTrivial`).  Assumed is that no dimension of an array exceeds the
  greatest integer (`IsArray`), as the library of arrays has it.
* `WorkerPoolProofs`, for any workers, slots and faults.  `CallsKeepTheContract`
  is the safety part of `ImplementsTileCall`; with it the coordinator's proofs hold
  over the pool, of which they assume only `TileCall`.  `TilesStayPinned` and
  `OneIsEnough` follow from `PoolInv`: the candidates of a call are pinned and
  have every sturdy worker among them (one that can be counted on and has slots
  for all), a discovery has each reliable worker behind it or before it, and the
  worker that was just found lost is none of these.  `OneIsEnough` also needs
  `ErringInv`: if a call has ended in an error that is not transient, some pinned
  worker has such errors.  `AmongIsRight` and
  `RotationKeeps` say what the lists of candidates hold.
* `WorkerServiceProofs`: `TypeCorrect`, `NoSlotIsLost`, `HealthIsTrue`, by
  counting the threads at each place.  The three are inductive only together:
  that slots stay in bounds needs the count of those who hold one.
* `OutputCommitProofs`, for any number of outputs, changes by others and
  exceptions: `OthersKeepTheirFiles`, `CommitIsAtomic`, `NothingStrandedInSilence`.
  The invariant has a part for each hazard: an original is at its own target or in
  its own backup, never elsewhere (`HomeInv`); when there is nothing in a backup
  that a rename could bury (`BackupInv`); when only the staged file is where it was
  staged (`TempInv`); what the rollback has behind it is empty or reported
  (`ReportInv`); and how far an output nobody touched has come (`UntouchedInv`).
  That nothing is lost needs the first three: a rename buries a file only where the
  command wrongly believes a path to be free.
* `TiledReducersProofs`, for joins, matrices, parameters and budgets of any size
  (`JobsAssumption`: positive, as parsed): all the properties of its run.
  `Progress` says where the corner can be; `BestInv`, `SumInv`,
  `SummaryInv` and `NearestInv` that each reducer has its result over the cells seen
  so far; what a step has to show is that a tile's result, combined, is the one
  over those cells and the tile's (`CellsAreCellwise`).  A strict update keeps the
  lowest index because what was seen is above or left of the tile.  Sums
  are described by any function that adds one number at a time (`Adding`), and
  their independence of the order is proved by a smallest counterexample
  (`SumsAgree`).  Bins have rounded-up edges; `BetweenEdges` shows that a position is
  between two edges exactly when it scales down to the bin.  A ranking is what is
  in order, leaves out nothing that outranks an entry, and is padded with
  sentinels (`Ranking`); by counting places (`RanksAreAll`) the first k of a list
  are that (`TopKPlaces`), and so are the first k of a ranking and of
  a tile's first k (`MergeRanks`).  `ShapeFits` bounds the tile through the
  square root and the quotients the code rounds down.
* `AutotuneCacheProofs`, for any threads, processes and deaths.  `OneWriter`,
  `SavesAreAtomic`: the invariant says who holds the lock file where, and
  that what a thread is about to write (`ReadIsCurrent`) is the file of now with its
  record merged, though it was read steps ago: nobody else can have
  replaced the file since.  `SidecarIsTuningStore` adds that the merge keeps what
  `TuningStore` says: a record goes only for want of room, and never before one
  that is older (`FilesAssumption`: a sidecar's rows are finitely many and have a
  time).  `OwnWritesAreRead`: unless a clear is still to come or a lookup was under way,
  what a cache holds, and what any thread of the process is about to
  store in it, is of the file since the last change of the process (`Fresh`).
* `TuningProofs`, the tuner, for any plan, clock, densities and outcomes: `RightOnesCompete`,
  by `StreaksInv`: what an observer notes of the runs of each strategy (the history
  variable `streaks`) agrees with what the tuner has made of it, and while the last one
  is being run its streak is as long as its runs; and `SavesAreOfUse`, an action
  property: the key a workload is saved under is the one its benchmark looks up, through the density the
  calibration settles on and the buckets; the winner is beaten by none.  The
  assumption `2^Halvings \in Nat` is arithmetic the provers do not have; a median
  is a non-negative number because some sample has each rank.
* `TuningProofs`, the dispatch, for any calls, sidecars and threads: `DeviceComesBack`, by
  what each open context has kept (`DevicesAreKept`): the device it puts back is
  the one of the beginning as long as contexts do not overlap.
  `PromisesAreKept` and `ReportsAreTrue` follow from `DispatchInv`: a caller no
  other overlaps has the default device to itself, at each of its places, and the
  strategy it was prepared with is that of the one record there is for its join
  (`SidecarsAssumption`: the tuner saves no sum without a density).
  `EventsAreComplete` holds of all calls, by counting: the starts
  are as many as the numbers given out, and a number is open at one caller or has
  one end (`EventsInv`).
* `DiagonalKernelsProofs`, for joins of any size, batches and words of any width:
  `NearestIsRight` and `PooledIsRight`, from the `IInv` of `Invariance`.  First the
  arithmetic: no coordinate a thread computes is off, although the number of
  the diagonal it is taken from may have wrapped (`Starts`, `Words`); each cell
  that counts is met by one slot at one step (`Reached`); and keys are in the
  order of their values (`KeysAreOrdered`).  Then the launch: `Written` says, from
  where each thread stands, which cells it has combined, and the invariant that
  a maximum is the key of some cell and no less than that of any cell written
  (`MaximaFound`, `MaximaRecorded`), a least index likewise among the cells whose
  key is the maximum (`IndicesFound`, `IndicesRecorded`), and a sum that of
  the cells written (`SumsAddUp`).  A step writes one cell or none (`Advances`), and an
  atomic operation keeps the array in step with it (`FetchMaxKeeps`,
  `FetchMinKeeps`, `StoreKeeps`); what a thread has loaded may be old, but then
  its exchange does nothing.  When all threads are done all cells are written
  (`AllDoneWrites`), and the host starts the second launch only then, so the
  maxima it compares with are final.  A thread finds its first bin by bisection
  (`FirstBinIsRight`) and the bin moves by at most one a step (`BinAfterIsRight`),
  which needs that a summary has no more bins than subsequences.

  Assumed are what a power of two is (`PowerAssumption`), that the marks are no
  numbers (`MarksAssumption`), and what the host passes (`JobsAssumption`): a
  self-join has an exclusion zone and a summary no more bins than subsequences, both as
  the engine makes them; the length of an array is an `int`, as MLX has it; and a
  correlation lies above the sentinel, as it is clamped.

Arguments by induction take the least of a set of counterexamples (`LeastNumber`, from
the well-foundedness of the naturals), or a smallest one among finite sets.

Left to TLC alone:

* everything under fairness: `PlanningEnds`, `JobEnds`, `AllSlotsReturn`,
  `HealthStaysResponsive`, `CommandEnds`, `CallsEnd`, and the fairness in `TileCall`;
  these provers have no ENABLED;
* the two runs that expect a violation, which show what the code does not
  promise.

## What is not modelled

Numerics (window statistics, correlations, distances), encoding of arrays,
parsing and formatting.  Sleeping between retries (time is not in the model: a
deadline may pass whenever a call is under way).  Directory flushes, file modes
and metadata in the transaction; changes by others to the staged file and the
backup, whose names are random, and with them the race between looking at a
path and unlinking it, which the repository documents (macOS has no
unlink-if-inode).  A worker's capabilities are constants.  On systems
without `RENAME_EXCL` the code checks and then renames; that fallback is for
tests of the source and is not modelled.  Interrupts that land between the `try`
blocks of `cli.py`: between the creation of a temporary file and its `try` (1070-1077),
at the heads of the loops of the rollback (1203, 1267) and of the cleanup, and between
staging and commit (1503, 1296).  `OutputCommit` confines an interrupt to the output
at hand there as elsewhere; the code would end without doing or reporting the rest.
Of the execution events: a join that a `KeyboardInterrupt` ends, which
`_execute_with_reporting` does not report (`core.py:183` catches `Exception` only), so
that its start has no end; calls in `EngineDispatch` end well or with an `Exception`.

Of the tuning sidecar: a record stands for its candidate and time; what a crash
leaves of a temporary file (its name is random, nobody reads it), paths, digests
and the fingerprint of an environment are left out, and a damaged sidecar is
one value.  Of the tuner: the inputs of a benchmark, tolerances, the cache of 64
calibrated thresholds, the check of the devices and what is printed.  Of the
engine: window statistics, sampling of the density (its outcome is an input), the
conversion of arguments.  Of the kernels: the recurrence and its checkpoints
every 64 steps (correlations are given, and are the same in both launches), -0,
and the rounding of sums; a compare-and-exchange that fails for no reason is a
stutter.  The two kernels without an indexing guard, of the nearest neighbour
and the sum, are modelled at every size an array of MLX can have: the number of
a diagonal may overflow at such sizes, and the run has a join where it does.

Not modelled at all: the codec and the protocol, the entry points and the input
side of the Python CLI, which convert and validate; and the native C++ library
and CLI, which the plan has.

## Plan

1. *Done:* planner, coordinator, pool, service; the transaction of the CLI;
   the portable reducers; the tuning sidecar, the tuner, the dispatch of the
   engine and the Metal kernels; the refinements of `ProfileJob` and `TuningStore`
   proved, that of `TileCall` but for fairness; all safety properties proved.
2. `NativeCommit`: the C++ transaction and what it does promise
   (`native_cli.cpp:867`), and the two-pass reduction of `scamp.cpp`.
3. Aliasing of inputs and outputs in the Python CLI, and inputs that change
   during a run (`_verify_plan`).
