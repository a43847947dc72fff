# A TLA+ model of mlrs

mlrs is a machine-learning library: a Rust workspace (`src/crates`) behind a Python
package with scikit-learn's interface. This directory holds TLA+ modules for the parts
of it whose correctness is a matter of control rather than of floating-point
arithmetic, the TLC configurations that check them on small instances, and TLAPS proofs
of their main properties for every instance.

- `tlc -config <run>.cfg <module>` checks a run (see *Runs*),
- `tlapm <Component>Proofs.tla` checks the proofs of a component,
- `PROJECT.json` maps every definition to the lines it translates and lists the
  hazards, the runs, the mutations that break each property, and the findings.

## Inventory

| component | state it keeps | operations | what makes it correct |
|---|---|---|---|
| **Barrier** (`prims/host_pool.rs`) | arrival count, wrapping epoch, poison flag, mutex, condvar | `wait`, `poison`, from any thread | nobody passes before all arrived; no lost wake-up; poison frees everybody; reusable round after round |
| **WorkerPool** (`prims/host_pool.rs`) | task slot, two barriers, shutdown flag, threads | `run`, `Drop`, `worker_loop` | each pass runs once on every unit; the slot is not raced; panics surface; `run` and `drop` end; the borrowed closure outlives its calls |
| **BufferPool / DeviceArray** (`pool.rs`, `device_array.rs`) | free-list by size, allocation counters, live and peak bytes; arrays: a handle and a length | `acquire`, `release` at the caller's size, `reset_after_poison`, `from_host`, `from_raw` views, `release_into` | a buffer has one owner; reuse is by true size, whatever is viewed and released; the counters bound what is held |
| **global pool and GIL** (`mlrs-py/src/lib.rs`, `estimators/*`) | one `Mutex<BufferPool>`, its poison flag; Python's GIL | detached fits, attribute getters, bridged RANSAC fits | no deadlock of the two locks; calls are as if sequential; a panic does not shut the others out; accounting restarts once |
| **HDBSCAN MST** (`cluster/hdbscan/mst.rs`) | tree, running minima, sources, edges; per worker slots and a spin barrier | two serial Prims, one parallel | edges give the single-linkage clusters; parallel = serial edge for edge |
| **RANSAC loop** (`linear/ransac.rs`) | trial counters, incumbent, skip counts, generator, batch | `fit_from_host_slice` | batching changes nothing; the best consensus wins; budgets are kept; the generator ends where the unbatched loop leaves it |
| **HDBSCAN tree stages** (`cluster/hdbscan/*`) | none (pure) | union-find, condense, stability, selection, labels, GLOSH | the hierarchy is the single linkage of the graph; every point leaves the tree once; the selection is the best one; labels follow the tree |
| **gradient boosting, host** (`prims/hgb_host.rs`) | per-level row partition, histograms, splits, leaf values; barrier | `boost`, `fit_typed` on W workers | phases do not overlap; the blocked partition is the serial stable one; a poisoned fit returns no model |
| **persistence** (`mlrs-algos/persist.rs`, `mlrs-py/persist.rs`) | the model file and its sibling; the pool's mutex | `save`, `merge_metadata`, `load` | an acknowledged save is what the file holds; extras belong to their model; a load builds from one file, in the arm it was saved from |
| random forest (`prims/random_forest.rs`) | bootstrap order, frontier | a host worker overlapping the device upload | the join precedes the use; seeds are independent of the overlap |
| estimator lifecycle (`typestate.rs`, `dispatch.rs`) | `Unfit` / fitted f32 / f64 arm | `fit`, `predict` | an unfitted estimator refuses; a refit replaces everything |
| runtime configuration (`stream_cap.rs`, `abflag.rs`, `capability.rs`) | write-once cells, thread-local overrides | `install`, `force`, `clear` | written once, before first use; overrides restored |
| model selection, feature selection, stacking, voting | masks, folds, rankings | split, search, RFE, SFS, out-of-fold fits | folds partition the rows; no row is predicted by a model that saw it |
| linear models, decomposition, neighbours, mixtures, manifold, kernels, metrics | arrays | numerical solvers | convergence and rounding |

How they interact: Python threads call an estimator's method (`mlrs-py`); the method
gives up the GIL, locks the one global pool and runs an algorithm (`mlrs-algos`), which
calls primitives (`mlrs-backend/prims`); these acquire and release the pool's buffers,
launch device kernels, or spread host work over a `WorkerPool`, whose passes are
separated by `Barrier`s. HDBSCAN's parallel Prim (with a barrier of its own) and gradient
boosting (phases over a `Barrier`) are concurrent inside; RANSAC's bridge calls back into
Python; `save` and `load` hold the pool's mutex while they use the file system.

What is hard: the barrier's lock-free fast path next to its condvar; panics on any unit
at any time; a type-erased pointer to a borrowed closure; two locks taken in different
orders by different shapes of method, one of which calls user code; accounting that must
survive panics; one barrier per step where two would be the obvious choice; a partition that several
workers scatter in place between two barriers; sweeps over a condensed tree that rely on
the order of its rows; a file read twice or written in two renames; drawing random
samples ahead of decisions that may cancel them. `PROJECT.json` lists each
hazard at its line, with the properties that would catch it.

## Modules

Three abstract specifications say what is promised; detailed modules implement them.

```
Rendezvous <-- implemented by -- HostBarrier
    ^   ^   ^-- implemented by -- SpinBarrier <-- INSTANCE -- PrimParallel
    |   |                                                          | EXTENDS
    |   +-- INSTANCE -- HgbFit                                     v
    +-- INSTANCE (start, done) -- WorkerPool                   PrimSteps
                                                                   ^ EXTENDS
BufferPool <-- EXTENDS, and implements -- GlobalPool         SingleLinkage
                                                                   ^
RansacTrial <-- EXTENDS -- RansacLoop                        CondensedTree
                               ^ implemented by                    ^
                           RansacBatch                       ClusterSelection
                                                                   ^
Persist                                                         Hdbscan
```

**Rendezvous** - a barrier as its callers see it: a unit is `out`, `in` or `freed`; when
all are in, one step (`Open`) frees them; poison frees everybody and for ever.

**HostBarrier** - `Barrier::wait` and `poison`, one action per atomic access, lock and
condvar operation: `Enter` (epoch load), `Arrive` (fetch_add), `Reset`, `LockToPublish`,
`Publish`, `Notify` for the last unit in; `Poll`, `LockToWait`, `Check`, `Park`,
`TimedWake`, `Return` for the others; `SetPoisoned`, `PoisonLock`, `PoisonNotify` for
`poison`. The epoch is kept modulo `Wrap`. `at` maps a unit's program counter to its place
in the Rendezvous. Memory is sequentially consistent here: the code's Acquire and Release
pairs are on the epoch, through which everything a waiter reads is published.

**WorkerPool** - the driver's `run` and `Drop` and the workers' loop over two Rendezvous
barriers; a closure is the number of its pass, and it may return or panic on every unit.
`ran` and `got` record who called what.

**SpinBarrier** - the second, smaller barrier, of the parallel Prim: `Load`, `Add`,
`Reset`, `Bump`, `Return`, `StopSpinning`.

**BufferPool** - free-list (a stack per size), `live`, `peak`, and who refers to each buffer:
the free-list, the arrays of the running call (`scratch`), or a fitted estimator (`kept`). An
array is a buffer, the bytes the code counts it for, and whether it owns the buffer: `View` is
`from_raw(handle.clone(), len)`, a second array over a buffer, of its length or a shorter one, as
`gram.rs:425` makes them. `Release` files a buffer under whatever size it is given; `ReleaseInto`
gives it the length of the array that is released, and the code releases owners only: a view is
dropped (`gram.rs:435`, and `kernel_ridge.rs:1492`, which asks a flag). That the free-list's sizes
are true is therefore a property (`FiledUnderTrueSize`), not an assignment. Two places lend an owner
to a callee that releases or returns it (`eig`, the Cholesky solve's `out`); it is released where it
is made here. `from_host` is modelled with both of its buffers, the one acquired and released to be
counted and the one the array holds, so that releasing such an array lowers `live_bytes` by bytes that it
never added (`reduce.rs:217` does, in a loop); `GateSound` is about calls that do not (`~mixed`).
The allocation and reuse tallies of `PoolStats` are left out: they only count. `metered`, `entry`,
`mixed` are history variables.

**GlobalPool** - Python threads, the GIL and the pool's mutex around BufferPool. A
thread's `kind` is the shape of the method it is in: `detached`, `getter` or `bridged`.
`Compute` is any operation of BufferPool; `Panic` poisons; `Lock` recovers a poisoned mutex
and calls `reset_after_poison`, which happens on every later lock because the code does not
clear the flag; `CallBack`, `Yield`, `Resume`, `CallAgain` are the Python side of a bridged
fit.

**PrimSteps / PrimParallel** - the step functions of `mst.rs` as operators on a record
(`cur`, `tree`, `reach`, `source`, `edges`): `DenseStep`, `TrackingStep`, `LinkageCoreStep`; and
the parallel Prim, whose workers scan, store in a slot of the step's buffer, call the
barrier, read every slot, and derive the next node. The barrier is an instance of
SpinBarrier, so `wait()` is entered and left atomic by atomic, and the workers are the ones
the chunking makes, not the ones asked for. An infinite distance is the largest value;
nothing is smaller than the initial infinity, so a step that finds nothing adds a loop, as
the code does.

**SingleLinkage / CondensedTree / ClusterSelection / Hdbscan** - the pure stages as
operators over sequences of rows, folded in the code's order: the union-find
(`make_single_linkage`), `condense_tree`, `max_lambdas` and `compute_stability`, the
selection by excess of mass or by leaves with its epsilon search and size limit, the
labelling's union-find with ranks, probabilities, and GLOSH. Lambda is exact, in units that
every distance divides; infinity and NaN behave as in IEEE arithmetic. `Hdbscan` runs
them as one pipeline from a graph to labels or scores; an `expect` that fails is a result
of its own.

**HgbFit** - `boost` phase by phase: `init`, `gather`, `reduce` (with the split decisions),
`count`, `prefix`, `scatter` or, with one block, `fused`, `update`. A worker's phase is one
step that writes what its share of the tasks owns (`Writes`), then it arrives at the
Rendezvous; what it reads and writes is also listed as cells (`Reads`, `Written`), which is
what `SharedContract` compares. A gradient is kept as the part each row has in it, so a
histogram is a function on rows and sibling subtraction is exact; a split is the set of rows it
sends left. `LevelPlan` computes chunks, blocks, gathered or subtracted levels as the code
does. A worker may panic in any phase. A poisoned barrier ends `boost`, except in the partition
(`Partitioning`): there `partition_level` returns, from whichever of its three waits, and `boost`
swaps order and ranges and gathers the next level from what is there, to end at that gather's
wait (`Abandon`, `hgb_host.rs:1431`, `:1469`, `:1515`, `:948`, `:889`).

**Persist** - one path, its sibling `<path>.mlrs-tmp`, and threads of processes: `BeginSave`,
`Stage`, `Publish`, and with extra metadata `MergeRead`, `MergeStage`, `MergePublish`;
`ReadMetadata` (without the mutex), `BeginLoad`, `ReadWidth`, `ReadTensors`. Each call to the file
system may fail (`WriteFails`, `RenameFails` then `Cleanup`, `ReadFails`); `Crash` ends a process
with its calls and leaves the files. A file is a model, the save it comes from and the save
its extra entries come from; a model is a class, the arm it was fitted in and the set of the widths of
the float tensors it writes. Files do mix them: a GaussianNB in f32 writes f64 priors. `Wanted` is
`model_float_width`, which takes the first float tensor out of a hash map: any width of the set.
A save has no guard on widths, as in the code.

**RansacTrial / RansacLoop / RansacBatch** - what a trial turns out to be (its status,
inliers, score) as a function of the generator's position; the loop of one trial at a
time; and `fit_from_host_slice`, which draws a batch, runs it, replays it in order, stops in
the middle when a rule says so and rewinds the generator. A trial that runs user code can
abort the fit, and can move the generator itself.

`MC<module>` gives the constants their values; `<Component>Proofs` holds the theorems.

## Runs

| run | instance | question |
|---|---|---|
| `host_barrier` | 3 units, epoch modulo 2, at most 3 arrivals counted | is it a Rendezvous, without lost wake-ups or hangs? |
| `worker_pool` | driver and 3 workers, 3 passes | are passes complete, the slot exclusive, panics seen, `run`/`drop` ending? |
| `worker_pool_closure` | same | does the closure outlive its calls? **No** |
| `global_pool` | 2 threads, 3 calls of all three shapes, 1 panic, buffers of 1, 1 and 2 bytes, 2 bytes live, 1 view | is the pool used as by one thread, no buffer in two hands or filed under a size it does not have, the gate's counters sound; is every deadlock a bridged call's; does every other call end? |
| `global_pool_gil` | same | deadlock-free with bridged calls? **No** |
| `prim_parallel` | 5 points, target of 4 workers (3 run), 26 graphs with ties and infinities, generation modulo 2 | the serial edges under every interleaving of the barrier's atomics? are slots quiet? does everybody return? |
| `hdbscan` | 7 points: lines of gaps 1..3, of {0, 2} and of {1, 3}, scrambled graphs; 3 Prims; minimum sizes 2 and 3; 12 selections | is each stage what it should be of the one before? |
| `hdbscan_single` | same | do the `expect`s of the labelling hold? **No** |
| `hgb` | 3 workers, 9 fits of 3 to 8 rows over every kind of level plan | are phases apart, partition and model serial, arrays large enough; does a panic fail the fit; does it end? |
| `ransac` | every stream of period 3, 3 rows, 5 arms, 8 rule sets, up to 5 trials | is the batched fit the unbatched one? is the best kept? are budgets kept? |
| `persist` | 3 threads of one process, 3 saves of 3 models (floats of both widths, of one, none), any failures, 1 crash | do extras belong, are acknowledged saves stored, is a load's arm that of the file it reads? |
| `persist_widths` | same models, 1 save, no crash | is a model loaded in the arm it was saved from? **No** |

**Why the bounds are enough.** Three barrier units are a last one, a slow one and one that
is already in the next round; epoch modulo 2 is the hardest wrap, since any larger one
tells more rounds apart (the proofs cover all). After a poison a unit may call `wait` again
and push the counter past the number of units: `MaxArrived` bounds only that. Three passes let a worker
be one pass late while the next is published and one more follows. Two buffers of one
size and one of twice that can all be arrays at once, and two of them acquired; an uploaded array,
which takes two buffers of a size, can be released while an acquired one is live; the large one can have a
view of half its length; and each can be kept, filed and reused across a reset. Two
threads are enough for a deadlock of two locks (proved for more), and with three calls one panics, one works
after the reset, and a third finds the mutex still poisoned and resets again. Five points with ranges of 2, 2 and 1 have an interior and
a short last range; a ring makes every step tie. Seven points are the least with which two
clusters of three shed points side by side, and with which a root that has shed a point
splits and its child splits again; both happen, at minimum size 2 and 3. In `hgb` the
budget and the cuts are such that levels have one chunk, even and uneven chunks, gathered and
subtracted siblings, empty blocks, one and two trees, an even and an odd number of swaps.
Three threads let one save, one load and one stay between `ReadMetadata` and `BeginLoad`;
three saves let an acknowledged one be followed by a failing and by a crashing one. The
threads of `persist` and `persist_widths` are interchangeable, and these runs check no
liveness: they use symmetry. A stream that repeats after three
positions covers all outcomes of three consecutive trials and makes rewinding visible;
five trials with widths 2 and 3 give full, short and interrupted batches.

**Mutations.** For every property there is a one-line change of the model that stands for
a plausible slip in the code (a dropped reset, an early publication, a barrier sized
by the request, a missing rewind, a block's moves unshifted, an unlocked load) under which TLC reports the property violated.

**Fairness.** Threads that can run do (weak fairness per thread, the operating system's).
A unit that asks again and again for the barrier's mutex gets it eventually (strong
fairness on acquisition only): its critical sections are a few instructions. The condvar's 2 ms
timeout is allowed but never relied on. Nothing makes the owner of a pool call
`run` or `drop`, or a Python thread call a method. In `global_pool` a call computes for a
finite time and a lock that stays available is got (weak fairness on `Reach`, `Attach`, `Return`,
`Lock`, `Unlock`); `EveryCallEnds` is claimed only of behaviours without bridged calls, whose
user code may do anything. In `prim_parallel` every thread runs and spinning threads yield. In
`hgb` some worker that can go on does, whatever it writes, unless it panics. The fit of
`ransac` is one sequential program: it takes its next step. `hdbscan` and `persist` claim no liveness.

`CHECK_DEADLOCK FALSE` is said where the system may stop: a fit ends (`ransac`, `hdbscan`,
`hdbscan_single`, `hgb`), the saves of `persist` are bounded and its threads need not load, and in `global_pool`
bridged calls do deadlock, which `global_pool_gil` shows and which that run would otherwise
stop at.

## What the checks found

1. **A worker can call a dead closure** (`worker_pool_closure`). When the driver's own share
   panics, `run` poisons both barriers and unwinds at once (`host_pool.rs:403`); workers still
   in the pass go on with the closure borrowed from the frame being unwound, although the
   SAFETY comment (269) says the driver keeps it alive for the whole pass.
2. **A bridged RANSAC fit can deadlock** (`global_pool_gil`). It locks the pool with the GIL
   held and calls Python (`estimators/ransac.rs:844`): an mlrs base estimator locks the
   same mutex again, and a getter on another thread waits for the mutex with the GIL.
   Nothing but bridged calls can (`DeadlocksAreBridged`, proved).
3. **A fit with one allowed cluster can panic** (`hdbscan_single`). With excess of mass,
   `allow_single_cluster` and `max_cluster_size` the only selected cluster may not be the root;
   the labelling looks up the root all the same (`select.rs:504`).
4. **A model may load in the other arm** (`persist_widths`). The arm of a load is the width of the
   first float tensor of `header.tensors()`, a `HashMap` (`mlrs-algos/persist.rs:436`,
   `safetensors/src/tensor.rs:673`). A GaussianNB of the f32 arm writes `theta_` in F32 and its
   priors in F64, so the same file is loaded now in f32, now widened to f64, and at times refused by a
   backend without f64; `mlrs-py/persist.rs:17` rules widening out.

Everything else that was checked holds. Reading the code for it also showed the following, of
which no run is made because no line of the repository states the contrary, or because the
property that is checked says it already:

- `from_host` adds nothing to `live_bytes` on balance and `release_into` subtracts (`device_array.rs:67`,
  `:233`), so the row loop of `reduce.rs:217` lowers the counter by a row each time, although its
  comment (211) speaks of conserving it. `GateSound` claims nothing of calls that do that.
- `lock_pool` recovers the guard of a poisoned mutex but does not clear the flag
  (`lib.rs:173`): after one panic every later lock drops the free-list and zeroes the
  counters again. `NoAlias` and `Sequential` hold all the same.
- The rows of a condensed tree are not always grouped by parent, as the sweep of
  `stability.rs` assumes: two clusters can shed points side by side. The largest lambda is
  right nevertheless, because lambdas grow along a cluster (`DeathsAreLast`).
- A cluster born exactly at `cluster_selection_epsilon` is kept by one comparison and climbed
  past by another (`select.rs:211`, `:183`), so it can lie inside a selected one;
  `SelectedAreApart` leaves it out.
- The root's size counts its cluster children only (`select.rs:310`), so `max_cluster_size` never
  rejects a root that does not split.
- Duplicate points (distance 0) have an infinite lambda; GLOSH's score is then NaN, although
  `glosh.rs:69` puts every score between 0 and 1. `ScoresAreRelative` is about finite deaths.
- In `hgb_host` a worker freed by a poisoned barrier inside `partition_level` goes on to the next level
  and gathers by ranges another may still write (`hgb_host.rs:1431`, `:1469`, `:1515`); the fit fails and drops the result
  (`PoisonedFitFails`), so `PhasesAreApart` is claimed of fits without a panic.
- Two *processes* on one path share the sibling's name: one save's extras may be merged into
  another's model, a rename may fail, and a load's two reads may see two files and convert
  silently. The theorems of Persist therefore assume one process. A crash between
  the two renames of a save with extras leaves a model without them, and `mlrs.load` reads the
  metadata without the mutex, so it may pair one save's parameters with another's tensors.

## Proofs

All are for arbitrary constants under the named assumptions of the modules (finite set of
units of at least two, sizes in `Nat \ {0}`, a type for the configurations and so on).

- **HostBarrierProofs**. The invariant adds to the types who holds the mutex, that at
  most one unit is opening the round, that the count equals the number of units in the
  round, and that a unit whose remembered epoch is current is waiting in that round. It gives
  `LostWakeupFree` (a parked, released unit has a notifier to come), `CounterCorrect`, and
  `BarrierIsRendezvous`: every step is a step of Rendezvous or a stutter. The epoch may wrap
  at any number above one: a unit of the old round stops the new one from
  completing, so no unit can see its own epoch come round again.
- **WorkerPoolProofs**. From the two Rendezvous: a worker between the barriers excludes the
  driver outside a run unless poisoned; each unit's history is the passes so far, with or
  without the current one, according to its place. `RunCorrect`, `SlotCorrect`,
  `SamePassCorrect` are its consequences.
- **GlobalPoolProofs**. First the pool alone: "a pooled buffer is filed once, under its size, and
  nothing else refers to it; an owner is as long as its buffer, and the only owner" (`OwnersWhole`,
  `OneOwner`), kept by each operation through lemmas on stacks (`PushLemma`, `ReuseLemma`,
  `ClearLemma`) and on arrays (`NewOwner`, `FewerArrays`). Views carry no such fact and need none, because no
  operation releases them. `NoAliasCorrect` and `TrueSizeCorrect` follow for any number of views. `GateCorrect` (`GateSound`, the counters of the memory gate) needs sums of
  sizes over a set: what one more or one fewer buffer does to a sum, and that sums grow, are
  proved by induction on the cardinality. Then the threads: `LockTypeCorrect` (each lock is with
  the thread that should have it), `DeadlockFree` for any number of threads if no method is
  bridged: who waits for the pool with the GIL holds no pool, who waits for the GIL holds none;
  and without that assumption `DeadlocksNeedBridges`: only a bridged call waits for one of the
  locks with the other in hand. `PoolIsSequential` is the refinement to BufferPool;
  `GlobalNoAlias` and `GlobalGate` are the pool's theorems read through it.
- **RansacProofs**. The invariant ties the batch to the positions of the unbatched loop and the
  book to what has been booked. `BatchingChangesNothing`: every step of the batched fit is a
  step or a stutter of the loop, for every width, stream and configuration. A second invariant on
  top of it says that the incumbent's book is that of its trial, that the booked positions ascend
  below the next one to be booked, and that the trials counted are those booked. It gives
  `IncumbentCorrect` (`IncumbentIsBest`, with NaN scores and ties) and `BudgetCorrect`
  (`WithinBudget`: trials drawn ahead are dropped, not booked).
- **PrimParallelProofs**. First the barrier, alone. A thread is in the round when it has been
  counted and the generation has not moved since it loaded it. The invariant (`SpinInv`): the
  counter is the number of threads in the round until the last one resets it; who opens finds
  everybody in the round; who is about to be counted has loaded the current generation.
  `SpinBarrierIsRendezvous` follows, for every number of workers and every width of the
  generation, of the barrier's own specification, whoever calls it and whenever. Then the loop
  around it, whose steps are steps of the barrier or leave it alone: `WorkersMeet` (the workers
  that the chunking makes are those the barrier is made for,
  whatever the target). Every worker has passed one barrier per step behind it, and one
  more from the moment it is freed to the end of its step; the barrier frees all at once, so
  all have always passed the same number. Hence `SlotsAreAlwaysQuiet`: a worker that stores is one step
  ahead of a worker that reads, and writes the other buffer. `SameAsSerialCorrect`: the states of
  the serial Prim after each step are a recursive function of the step; what a worker's copy
  holds is that state, restricted to the worker's own range where only the range is kept, for
  every worker at its own step. The minimum over the workers' candidates, in the order they are
  read, is the serial scan's because the ranges are consecutive and both take the first of
  equals; that is an induction over the candidates read, and over the nodes scanned.
- **PersistProofs**. Under `OneProcess` the thread inside a call is the one that holds the
  mutex, so at most one is. The invariant says for each place in `save` what the path and the
  sibling then hold, for each place in `load` that the file has the width the load took from it,
  and what an acknowledged save leaves behind as long as no other begins. `ExtrasCorrect`, `SaveCorrect`,
  `LoadCorrect` are its parts; errors and crashes are covered.

- **HgbFitProofs**. Six layers, each resting on those before. *Numbers*: powers of two,
  products and quotients. *Lock step* (`CInv`): two workers are in the same phase or one
  barrier apart, unless the barrier is poisoned, which only a failure does; a failure stays.
  `PoisonedFitFailsCorrect` follows. *The data* (`DInv`): what a worker's place says of the
  shared arrays, in terms of who has arrived (the ranges of a level's nodes lie within their
  tree's rows and are disjoint, a block's count is the rows it sends left, then the sum of the
  counts below it, and the children's ranges are cut where the node's count says). The hard
  step is the scatter: the landing place of a row is its block's base plus its rank in the
  block, the bases are sums over the blocks below, and so the landing places of a node are
  distinct and fill its range. *Apartness*: with that, what each phase reads and writes is computed
  from data everybody agrees on, and the cells of two workers are disjoint because the spans of
  the chunked work are; one lemma for each phase, and a worker that has not yet passed its
  barrier shares the phase of those that have (`Together`). That is `PhasesAreApartCorrect`.
  *Allocation* (`AInv`): no array shrinks below what was allocated, a chunk's first node is a
  multiple of the chunk, handles are swapped only in a fit that retains a level, so that each
  written lies below the maximum over the levels that `fit_typed` took: `WithinAllocationCorrect`.
  *The rows* (`RInv`): in every phase of a level each node lists, ascending, the rows that reach
  it, which `RowsAreSerial` only says of the moment a level begins; in a partition, of who has
  arrived, that each row is where a serial stable partition puts it. A share moves rows to
  landing places that are nobody else's, and a reduce writes splits of its level, on which who
  reaches that level does not depend (`ReachingStays`). When the barrier opens every row has
  landed, a stable partition is onto and keeps the order of either side (`PartitionLists`), and
  the rows that reach a child are those that reach its parent and go to its side
  (`ReachingChild`): `RowsAreSerialCorrect`.
- **HgbModelProofs**. A seventh layer, *the model* (`MInv`), on top of those of HgbFitProofs: three
  facts about a worker's place, each of which needs the others.
  *Valued*: every node below the frontier of the iteration (the levels done, and the chunks done of
  this one) has the sum of the rows that reach it. *Summed*: what a stripe gathered is the rows
  listed in it (`CellIs`), what a reduce filled is the rows of its node, and a histogram
  that is retained belongs to the parents of the next level. The stripes of a node are consecutive
  and each row is listed once, so the sum over the blocks is the node's whatever their number
  (`PartsAddUp`, `ReducedColumn`); a right sibling's is the parent's without the left's, and
  nothing under a leaf, where nobody arrives (`HistogramIs`); a chunk that was retained is the whole
  level (`OneChunk`), and a level subtracts only if the one above retained. *Graded*: a raw
  prediction counts the iterations, because a row ends in a node it reaches (`DescentEnds`) and
  that node, like all others when the update begins, is valued (`RowMoves`). Writes to
  `split` and `leaf_value` are at the frontier or above, so what is valued stays so, and who
  reaches a valued node too (`BeforeStays`, `ReachingBeforeStays`): `ModelIsSerialCorrect`.

Induction over data is done where it is needed without the library's induction theorems, which
take an operator: the set of the numbers a claim holds of contains 0 and is closed under
successor (`NatSetInd`), or the set of counterexamples has a least member (`LeastNumber`).

The assumptions are those of the modules. Of HgbFit: at least one worker, fits with at least
one row, output and iteration (the estimators reject others), and constants of the chunking in
`Nat`, of which only `MIN_ROWS_PER_BLOCK` must not be 0, as it divides (`HostAssumption`).

**Only model-checked.** Liveness (`NobodyHangs`, `RunEnds`, `DropEnds`, `EveryCallEnds`,
`Terminates`, `FitEnds`, and that the batched fit ends when the loop does): fairness and ENABLED
are outside the proof system's reach. Of
`hdbscan` everything (`HierarchyIsSingleLinkage`,
`PointsLeaveOnce`, `DeathsAreLast`, `SelectedAreApart`, `SelectionIsBest`,
`LabelsFollowTheTree`, `ProbabilitiesAreShares`, `ScoresAreRelative`): its stages are folds
with a higher-order argument and recursive definitions over sequences, which the provers
do not unfold; they would have to be stated as recursive functions first.

## Not modelled

Floating-point numerics: solvers, decompositions, kernels, metrics, the squared-rank slack
of the Prim's pruning: their hazards are rounding and convergence, and a finite model of them would
be the identity. Most of the repository by lines is of this kind, and with it most of the
components listed as not modelled. Argument validation, conversions and error texts. The device
runtime (CubeCL) beyond handing out memory, the device arm of gradient boosting, the vendored
safetensors crate, the scripts. The typestate of estimators, which the compiler checks. The overlap
of the random forest's upload with its bootstrap: one spawn and one join. A failing thread
spawn in `WorkerPool::new`. The device engine's buffers in RANSAC. How the columns of
a histogram and the values of a split are computed. Which tensors each estimator writes to a
file. Weak memory: the code's orderings are taken to give what their comments say.

## Plan

Order followed: what every fit depends on first (barrier, worker pool, buffer pool, global
pool), then the algorithms that are concurrent or reorder work (parallel Prim, RANSAC, gradient
boosting), the discrete pipeline of HDBSCAN, the file protocol; proofs of each once its run
agreed. What is left, in this order:

1. *Model*: the discrete parts of sequential components against reference definitions: the
   splitters of model selection, agglomerative clustering's merge forest, DBSCAN's label
   propagation, the tie-breaking of top-k; the scope guards of `abflag`.
2. *Prove*: of Hdbscan, after stating the folds of SingleLinkage and CondensedTree as
   recursive functions, `HierarchyIsSingleLinkage` and `PointsLeaveOnce`.
