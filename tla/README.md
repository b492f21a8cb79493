# A formal model of joblib

This directory holds TLA+ specifications of joblib, the TLC configurations that
check them on small instances, and theorems about them that TLAPS checks. The
reference is the source of this repository; each definition that models code
names its lines in `PROJECT.json` under `map`.

## 1. The source, and how it is read

At this commit much of `joblib/` is a skeleton. Signatures, docstrings,
constructors and some complete algorithms are there; many other bodies are a
docstring or `pass`, and some names are used that nothing defines. The package
cannot be imported as it stands: `hashing.py:42` uses `save_global`, which no
line defines, and the same happens with `register` in
`loky/backend/reduction.py`, `getfd` in `resource_tracker.py` and `submit` in
`process_executor.py`. Nor could a `Parallel` object be made: the constructor calls
`_Sentinel()`, whose one field has no default. The models are therefore of components, under these rules:

* A body that is there is modelled literally, with its control flow, the order of
  its assignments and its locks, whether or not that is what its docstring says.
* A name that the source uses and does not define, or defines without a body, is
  *external*: it is modelled by the weakest behaviour its callers, its docstring
  and its tests rely on, and is marked `external` in the map.
* Where the missing body decides a result by itself, a constant selects between
  the contract and the literal stub (`DispatchImplemented`).

## 2. Inventory

| Component | State | Operations with a body | Hard parts |
|---|---|---|---|
| **Parallel** (`parallel.py`) | counters, `_iterating`, `_aborting`, `_call_id`, `_original_iterator`, `_lock`, `_jobs`, `_pending_outputs`, `_managed_backend`, `_calling` | `__call__`, `_get_outputs`, `dispatch_next`, `_dispatch`, `__enter__`, `__exit__`, `_reset_run_tracking`, `_raise_error_fast`, `_initialize_backend` | generator suspended between calls, callbacks in other threads, late callbacks of earlier calls, state read outside the lock |
| **BatchCompletionCallBack** (`parallel.py`) | `status`, `result`, `parallel_call_id`, `job` | `__call__`, `_dispatch_new`, `_retrieve_result`, `_register_outcome`, `get_status`, `get_result` | lock released between registering and dispatching; timeout against late outcome |
| **Sequential output** (`parallel.py`) | counters | `__call__`, `_get_sequential_output` | the first value; generators of several calls share one counter |
| **Configuration scopes** (`parallel.py`) | thread-local `config` | `parallel_config`, `parallel_backend`, `BatchedCalls`, `_get_active_backend`, `Parallel.__init__` | nesting, leaving out of order, what a scope restores, a parameter given against one not given |
| **Registry of backends, n_jobs, verbosity** (`parallel.py`) | `BACKENDS`, `DEFAULT_BACKEND` | `register_parallel_backend`, `effective_n_jobs`, `_verbosity_filter` | two assignments that other threads see; zero, negative and missing values |
| **Dask backend** (`_dask.py`) | `_WeakKeyDictionary._data`, `data_futures`, `_results`, `_callbacks` | `_WeakKeyDictionary`, `Batch`, constructor | identities reused after collection, destructors that run at any time |
| **Memmapping** (`_memmapping_reducer.py`, `pool.py`) | file names per array, set of temporary files, reference counts in the tracker | `ArrayMemmapForwardReducer.__call__`, constructors | files that exist but are about to be unlinked, references in the tracker's pipe, a failing dump |
| **PrintTime** (`logger.py`) | the log files | rotation, appending | processes rotating together, order of the moves |
| **Hashing** (`hashing.py`) | none | `_ConsistentSet` | elements without a total order |
| **loky synchronisation** (`synchronize.py`, `_multiprocessing_helpers.py`) | names of semaphores | `SemLock.__init__`, `Condition.__init__` | collisions, crash before registration, failure half way through a Condition |
| **loky executor, start of processes, tracker** | queues, flags, processes | constructors only | cannot be modelled: the loops are stubs |
| **Memory, store backends, func_inspect, numpy_pickle, compressors, disk** | files, caches | constructors, a few helpers | cannot be modelled: the operations are stubs |
| **cloudpickle** | none | vendored, mostly stubs | — |

How they interact. The user's thread calls a `Parallel` object and resumes its
generators; they submit batches to a backend with `apply_async` and wait in
`backend.retrieve()`. The backend runs each batch in a worker and then calls the
batch's `BatchCompletionCallBack` in a thread of its own. The callback takes
`Parallel._lock`, registers the outcome, releases it, takes it again and
dispatches the next task from `_original_iterator`. The object is the shared
state of all calls made on it. Batches run under a `parallel_config` scope in the
worker. Arguments are pickled through the memmapping reducers, which register
files with the resource tracker.

What makes each component correct:

* *Parallel*: a call yields the values of its own tasks, each once, in order when
  ordered, all of them unless a task failed; the counters agree with what is in
  flight; late callbacks of an earlier call have no effect; whoever waits is
  answered; dispatch does not stop before the iterable does.
* *Outcome of a batch*: a status that is set has its result; an outcome that is set
  stays (which a timeout and a late result break, `overwritten_outcome`).
* *Configuration*: leaving a scope restores what was there when it was entered.
* *Weak dictionary*: a look-up returns the value last set for this very object and
  never that of another; where destructors run at once it also finds it.
* *Memmapping*: a loaded file is complete; one array, one file; every registered
  reference is released once.
* *PrintTime*: programs that do not overlap keep the log of the run before, whole.
* *SemLock*: names are never shared; a name left behind is known to the tracker.
* *Registry*: the default backend is registered at every moment.

## 3. The modules

In order of importance.

| Module | Models | Checked by | Proved in |
|---|---|---|---|
| `ParallelCall` | the call protocol, with callbacks, several calls, the with block | `call_callbacks`, `call_reuse`, `call_plain_backend`, `lost_result`, `truncated_call`, `dropped_value`, `starved_workers` | `ParallelCall_proofs`, `ParallelCall_refinement` |
| `OrderedResults` | the abstract promise of an ordered call, which `ParallelCall` implements | the same | `ParallelCall_refinement` |
| `MemmapReducer` | the thread that pickles, the workers, the files, the tracker's counts | `memmap_share`, `partial_dump` | `MemmapReducer_proofs` |
| `DaskData` | `_WeakKeyDictionary`, and the futures of scattered data | `independent_parts` | `DaskData_proofs` |
| `ObjectMap` | the abstract map of live objects, which `DaskData` implements | the same | `DaskData_proofs` |
| `ParallelConfig` | thread-local scopes, the shared registry, how far a new `Parallel` gets | `independent_parts`, `unset_parameter` | `ParallelConfig_proofs` |
| `BatchOutcome` | status and result of one batch, two kinds of writers, readers without a lock | `independent_parts`, `overwritten_outcome` | `BatchOutcome_proofs` |
| `SemLocks` | named semaphores of several processes, with crashes | `independent_parts` | `SemLocks_proofs` |
| `LogRotation` | programs that share a log file | `independent_parts` | `IndependentParts_proofs` |
| `SequentialCall` | `n_jobs == 1`: several generators of one object | `independent_parts` | `IndependentParts_proofs` |
| `IndependentParts` | a behaviour of one of the six modules above that share no state: `DaskData` to `SequentialCall` | `independent_parts` | `IndependentParts_proofs` |

What is left to do when the missing bodies are in the source: the backends and
`dispatch_one_batch` in place of the external operations of `ParallelCall`, the resource
tracker and the clean-up of folders in place of those of `MemmapReducer`, the manager
loop of loky's executor, and the cache of `Memory` with its store.

## 4. The call protocol: `ParallelCall`

### State and actions

The variables carry the names of the attributes they stand for. A call is a number,
a task a pair of a call and a position in its iterable. `_call_id`, a fresh uuid in
the code, is the number of the call that drew it. `outputs` stands for the queue
`backend.retrieve()` takes from: `_pending_outputs` without callbacks, `_jobs` when
results are unordered, and the submission order of the backend otherwise.

The user's thread is the variable `running` (which call's code runs, if any) and a
label `pc[c]` per call. The labels cut the code where another thread may come
between two accesses to shared state:

| Action | Code |
|---|---|
| `Call`, `ResetCounters`, `ResetIterating`, `NewCallId`, `Setup` | `__call__`: `_reset_run_tracking` without the lock, the identifier under it, the iterator without it |
| `Loop`, `CheckIterating` | the loop of `_get_outputs`; its inner test of `_iterating` is a second read, after the counters |
| `ConsumerDispatch`, `ConsumerClearIterating` | `dispatch_next` in the consumer: only `dispatch_one_batch` takes the lock |
| `Retrieve`, `Resume` | `yield retrieve()`, and the increment after it |
| `CheckAborting` | `_raise_error_fast` |
| `CallbackEnter`, `RetrieveResult` | `BatchCompletionCallBack.__call__`, from taking the lock to releasing it |
| `DispatchNew`, `CallbackDispatch`, `CallbackClearIterating` | `_dispatch_new` and `dispatch_next`, under the lock taken again |
| `WorkerDone` | a worker ends a task, with a value or an error |
| `Enter`, `Exit` | the with block; `_abort` raises `_aborting`, `_terminate_and_reset` kills what runs. `__exit__` leaves `_calling` alone, so once a call was made a block that ends aborts a generator object also when nothing is under way; the next call clears `_aborting` |

Two reads that are one step in the model: the `while` condition and the first `if`
of `_get_outputs`. If `_iterating` is true in the first and false at the second, the
inner test is false too and the loop ends, as it does in the model.

Left out: logging, `print_progress`, `_cached_effective_n_jobs`, the pickle cache,
the reducer callback for loky, batches of more than one task (what `retrieve()`
returns for them is not in the source), `n_jobs == 1`.

### Runs

| Run | Instance | Shows |
|---|---|---|
| `call_callbacks` | 1 call, up to 5 tasks, 2 callback threads, failures, ordered generator | `TypeOK`; `CompletedBounded`; `WaitsForSomebody`: the batch `retrieve()` waits for is on its way; `ImplementsOrderedResults`, the weak promise; `CallReturns` |
| `call_reuse` | 2 calls of up to 2 tasks whose generators are alive together, with block, failures, unordered | `StaleOutcomeDropped`, `DeliveredOnce` |
| `call_plain_backend` | 2 list calls of up to 3 tasks, one after the other, no callbacks, failures | `WaitsForSomebody`; `ImplementsOrderedResults`, the full promise; `CallReturns` |
| `lost_result` | 1 call, 3 tasks, 1 callback thread, no failure | violates `EverythingRetrieved`: a result is lost |
| `truncated_call` | 2 calls of 2 tasks, one after the other, 1 callback thread | violates `IterableExhausted`: a late callback ends the second call early |
| `dropped_value` | 1 list call, no callbacks | violates `EverythingDelivered`: `next(output)` drops the first value |
| `starved_workers` | 1 list call, up to 4 tasks, 1 callback thread, no failure | violates `PreDispatched`: when the call first waits for a value it has drawn one task and not the three of the documented example |

Bounds. Lost and late callbacks need two tasks, and a task that is dispatched by a
callback while another callback is pending needs three; with five, both callback
threads can hold a pending dispatch with work still to come. A stale callback needs a
second call, and a third adds nothing that the second does not: a callback knows only
its own identifier and the current one. `MaxCalls`, `MaxTasks` and `CallbackThreads`
bound the counters, so no other bound is needed. Deadlock is not checked
(`CHECK_DEADLOCK FALSE`) because a user may stop calling; `CallReturns` is the
property that tells a wait that never ends from a user who left.

Fairness. `FairSpec` assumes that threads are scheduled (weak fairness of each
call's own steps and of each callback) and that tasks end (of each worker's step).
The user's `Call`, `Enter`, `Exit` and `UserNext` are not fair. Weak fairness is
enough for the lock because each callback takes it at most twice.

What the runs say about the code. The promise of return_as 'list' and 'generator'
holds without callbacks, apart from the value `__call__` throws away. With
callbacks it holds in its weak form for one call (a prefix of the values in order,
no duplicate), and the rest is lost in two ways. In the first, `_get_outputs` reads the counters, a callback
dispatches the last task, the next callback clears `_iterating`, and the loop reads
`_iterating` and leaves. In the second, a callback of the finished call is between its
two locked sections when the user calls again: `_dispatch_new` does not compare
identifiers, so it clears `_iterating` for the new call. If it finds a task left in
the old iterable (possible after an error) it dispatches it under the new
call's identifier, or counts it for a call that cannot retrieve it. Counted between
`_reset_run_tracking` and the new identifier, it sends the new call into `retrieve()`
for a batch that does not exist, and the call never returns (with the constants of
`call_callbacks` TLC finds this for two calls of three tasks, the first of which
fails, and for three calls of two tasks). The check in
`BatchCompletionCallBack.__call__` itself is sound, as `StaleOutcomeDropped` says.
Nothing is ever dispatched ahead: `__call__` slices the tasks of `pre_dispatch` off
the iterable, and `_get_outputs` never looks at the slice. It draws one task of
`_original_iterator` and waits for it (`starved_workers`), and from then on each callback
replaces its own task, so that workers starve however large `pre_dispatch` and
`n_jobs` are: `OneCallInFlight` proves the bound. In the same place `pre_dispatch='all'`
sets `_original_iterator` to None and so dispatches nothing.

### Theorems (`ParallelCall_proofs`, `ParallelCall_refinement`)

Assumed: `ParametersAssumption`, the types of the constants. Everything holds for
any number of calls, tasks and callback threads, any backend and any `return_as`.

* `TypeCorrect`. Inductive as it stands, given lemmas that the task
  `dispatch_one_batch` draws is a task (`NextTaskType`) and that taking a batch out
  of the queue leaves a queue (`RemoveAtType`).
* `LateOutcomesDropped`. `RetrieveResult` does not look at the identifier; the
  callback looked before. The invariant `CallbackInv` says that a callback inside a
  locked section holds the lock, that one between check and registration still has
  the current identifier (only `NewCallId` changes it, and it needs the lock), and
  that a task not yet drawn has no callback, so that drawing a task disturbs none.
* `CompletedNeverAhead`, when calls do not overlap. `CountersInv` strengthens the
  property to a generator about to retrieve, and `OneAfterTheOther` is needed because a
  new call sets the counts back: no other call may then be between a value and its
  count. With overlapping calls the property is false.
`OrderedResults` knows which tasks have failed: a call produces values up to its first
failed task, and raises only when a task of its own, whose value it has not produced,
has failed. In the refinement the failed tasks are those whose worker ended with an
error.

* `PlainCallsKeepThePromise` (`ParallelCall_refinement`): under `PlainBackend`
  (no retrieve callbacks, `pre_dispatch` other than `'all'`, a `dispatch_one_batch`
  that does what its docstring says, no with block, calls that do not overlap),
  `ParallelCall` implements `OrderedResults`. A call's abstract values are those its
  generator has produced, the one `__call__` throws away included, and its outcome
  follows from its label, so that a step maps to a step of the abstract call or to a
  stutter. `WorkerDone` of a task that raises is `TaskFails`, which needs that no value of
  a task that still runs is produced (`ProducedInv`). Type correctness does not give that a
  call keeps its order: the value a call takes has to be
  the next one in the order of its iterable. `PlainInv` says, for each point a call
  may have reached, what the queue holds (`QueueOf`: nothing, or the one task that
  is dispatched and not retrieved), what the two counters are (`CountsOf`) and what
  a suspended generator remembers (`GeneratorInv`). The consumer alone dispatches,
  one task at a time, and this is what keeps the queue that short.
* `EachValueOnce`, for calls that overlap, fail or are aborted. A batch reaches the
  queue in different places (when it is submitted, when its callback registers the
  outcome), so the queue alone does not tell that it gets there once. `OnceInv` says
  that the queue and the values have no repetition and share no task, and that an
  `Unqueued` task (not drawn, or waiting for its callback) is in neither. It rests on
  `OneCallback` (a task that runs has no callback yet) and `FirstInv` (the value
  `__call__` drops comes before all others).
* `OneCallInFlight`, for `MaxCalls = 1`. It is false of several calls: a new call sets
  the counters back while workers of a failed one still run. `InFlightInv` bounds
  `Pending`, the tasks whose outcome is not registered and the callbacks that have yet
  to dispatch, since each of these may keep a worker busy. It needs that the loop of
  `_get_outputs` dispatches only when all that is pending is a callback inside
  its code (`LoopFindsAllDone`), which is a counting argument: if as many values were
  taken as batches dispatched, every drawn task is among the values
  (`AllDrawnAreValues`, by `FS_Injection`).

With retrieve callbacks and ordered results (`CallbackBackend`: the backend has them,
calls do not overlap, `return_ordered`), for any order in which tasks and callbacks end:

* `FirstCallInOrder`: the first call of an object implements `OrderedResults` in its weak
  form: a prefix of its own values, in order, each once; it raises only when a task of its
  own has failed that it has no value of. `OwnInv` ties the queue to the iterable: the identifier is that of the last call
  begun (`IdentifierInv`), a batch carries the identifier of the call whose task it is
  (`BatchInv`), what a call has produced and what is in the queue are together the tasks
  it has drawn, in order (`PrefixInv`, `QueueInv`).
* `OwnValuesInOrder`: the same for any number of calls, failures and with blocks, under
  `OwnDispatch`: a step that draws a task draws it from the iterable of the
  current identifier. `_raise_error_fast` finds an error by the identifier of its batch,
  and `BatchInv` makes that a task of the call that raises. This is not an invariant of the code, which tests neither in
  `_dispatch_new`. A callback of a call that raised may take a task of the old iterable after `NewCallId`
  and before `Setup` of the next, and that call then yields a value of
  its predecessor. TLC finds this with two calls of three tasks and a failure,
  and with three calls of two tasks without one. For one call `OwnDispatch` always holds
  (`FirstCallDispatchesItsOwn`), and this is how the first theorem follows from the proof of the second.
* `OnlyLateCallbacksTruncate` and `OnlyRacesLoseResults`: the converse of the runs
  `truncated_call` and `lost_result`, for an object that is not used in a with block, with
  the contract of `dispatch_one_batch`, under two hypotheses on the schedule. `QuietStart`:
  when a call starts, no worker or callback of an earlier one is still at work.
  `TestHolds`: `_iterating` does not change while the consumer is between its two reads.
  Under the first a call that ends has drawn its iterable; under both it has retrieved every
  value. `lost_result` keeps the first and breaks the second, `truncated_call` keeps
  the second and breaks the first, so both are needed and no third race exists.
  `QuietInv` says at each point of a call (`StageInv`) that the object holds the iterable
  of this call, that the counters are what it has drawn and retrieved, and that
  `_iterating` is cleared, or is about to be, only when the iterable is exhausted.
  `HeldInv` adds what the second hypothesis gives: no call leaves at the inner test.
* `RaceFreeCallsKeepThePromise`: under the same hypotheses the calls implement
  `OrderedResults` without truncation (`Strict`), by `OwnValuesInOrder` and the
  theorem before (`OwnDispatch` follows from the invariant).

What `_get_outputs` waits for (`WaitsForSomebody`, the safety part of `CallReturns`). The
loop goes into `retrieve()` because `_n_completed_tasks < _n_dispatched_tasks`, and
waits there for a batch of the queue; nothing in the code relates the two.

* `QuietCallsAreServed`: under `QuietStart` the batch exists, it is the oldest of
  this call, and it is done, runs, or has a callback that will register it; and `_lock`, when
  taken, is held by a callback inside a locked section (`LockTaken`). `CountersInv` and
  `QuietInv` turn the counters into a task that is drawn and not retrieved, `OwnInv` finds it in the
  queue, and `ComingInv` says that no task drawn for the current call is lost between
  its worker and its callback. Without `QuietStart` it is false, as said above.
* `FirstCallIsServed`: the first call of an object, without hypothesis.
* `PlainCallsAreServed`: any number of calls under `PlainBackend`, by `PlainInv` and `ComingInv`.

The invariants were checked by TLC on instances before they were proved: 2 calls of 2 tasks
in a with block and 3 calls of 2 tasks for `OwnInv`, 2 calls of 3 tasks for
`QuietInv` and `ComingInv`.

Only model-checked: liveness (`CallReturns`): that the waits of `WaitsForSomebody` end
needs the fairness of workers and callbacks.

## 5. Large arrays: `MemmapReducer`

`ArrayMemmapForwardReducer.__call__` runs in the thread that pickles tasks for the
workers. One pickling is `Register` (the file's name, and its references), `Exists`,
`Dump` if the file is not there, and `Return`, the instruction for the worker. They
are separate steps because other processes act in between: the tracker reads the
messages of all of them from one pipe and unlinks a file whose count goes to zero,
and a worker sends `maybe_unlink` when it collects its memmap. `Load`, `Collect`,
`Track` and `CleanTemporaryResources` have no body in this repository; they do what
the reducer's comments, the docstrings and the tests rely on, and are external. In
particular the parent returns its references only when every instruction has been
read. One context (folder) is modelled, and one call.

| Run | Instance | Shows |
|---|---|---|
| `memmap_share` | 2 arrays, 2 workers, 4 picklings | `LoadsSucceed`, `TrackerSilent`, `NoFileLeft`, `FilesUnlinked`, and `TypeOK`, with and without `unlink_on_gc_collect` |
| `partial_dump` | 1 array, dumps may raise and leave no file, a part or the whole | violates `LoadsSucceed`: what a failed dump left is taken for the array |

Bounds. A file that is unlinked while it is needed takes two picklings of one array
with a collection in between; with four, both arrays can be in that position, or one
worker can come back twice to the same file. Two workers are enough for one to give its
reference back while the other loads.

Fairness. A pickling that has begun goes on, the tracker reads its pipe, and workers
load and, at some point, collect. Nobody is made to pickle or to end the call.
`FilesUnlinked` is conditional on the latter.

What the runs say about the code. The reducer's two rules (one reference per
instruction when workers give them back, one for the parent the first time) are enough
for a file to outlive every instruction that names it, although existence is
tested before a worker loads. The test is not enough after an error: `dump()` that
raises leaves its file, and the next task with the same array is sent to it. (When it is
the load after the dump that raises, the file is whole, and only the references of the
instruction that was never sent stay; `NoFileLeaks` excludes this.)

Left out: arrays that are small, contain objects or are backed by a memmap, for which
the reducer changes no state; the content of arrays, so that one changed in place
between two picklings is out of scope (the workers see the first version, by design).

### Theorems (`MemmapReducer_proofs`)

Assumed: `MemmapAssumption`, the types of the constants. Any number of arrays,
workers and picklings.

* `TypeCorrect`, with the strengthening that the set of temporary files is finite.
* `TrackerNeverWarns`. What the tracker will count is not in the state: it is what the
  messages still in the pipe do to `refs`. A sum along a sequence would be a recursive
  definition, so `Balanced` says that a function exists which is `refs` before the first
  message and changes by one with each (`Sums`), and likewise one that counts the
  workers that have the file mapped and the instructions that name it (`Counts`). After
  the last message the count is at least what is owed: one for each such worker,
  each such instruction and the pickling in progress (`Owed`), and one for the parent
  until it has cleaned up (`Kept`). On the way, every `maybe_unlink` is read with a count
  of at least `Enough`: two before the clean-up, so that it never unlinks, and one after,
  so that the tracker never warns. `Known` adds that the parent forgets no array it has
  registered and cleans up only when no instruction is left. Every action has a lemma that gives
  the new functions. A dump that fails does not disturb any of this.
* `WorkersFindTheirFiles`, when dumps do not fail. `FilesInv` says that a file is absent
  or complete, and complete for each instruction; the tracker does not disturb it
  because a file that an instruction names is read with a count of two at least.
* `NoFileLeaks`: no file is left when the call has cleaned up, the workers have given
  their references back and the pipe is empty, unless a dump failed while workers hold
  references. It needs the count to be exact and not only enough: `Covers` says that
  `Balanced` holds with equality in these cases (`Exactly`), for which every instruction
  must lead to a mapped file, hence `FilesInv`. `CountedInv` says that a file which exists, or may
  still be dumped, has a reference that is counted or in the pipe, so that there is a last
  one to give back. In the excluded case the property is false: the reducer registers a
  worker's reference before it dumps, no worker is told of the file when the dump
  raises, and the partial file stays.

Only model-checked: `FilesUnlinked`, which is liveness; `NoFileLeaks` is its safety part.

## 6. Objects known by their id: `DaskData`

The id of an object is its address, so it comes back. `Create` gives an object any
address whose memory is free, `Collect` lets an object die that nobody holds, and `Free`
frees its memory. When an object dies to which the dictionary holds a weak reference,
the interpreter owes a call to its callback (`pending`). CPython makes it before it frees
the memory; PyPy, on which joblib is tested (`azure-pipelines.yml:44-59`,
`test/common.py:61-66`), at any time later. A behaviour chooses one of the two.
`OnDestroy`, the callback, does `del self._data[key]`, as the code does, whoever owns the
entry, and a `KeyError` when there is none is lost in the interpreter.

`SetItem` and `Store` are the read and the write of `__setitem__`, which holds the object
in between; two threads may be between them. `Scatter` and `MapFutures` are the
constructor of the backend, which keeps its list of objects and then maps their ids, and
`DropBackend` its end, whether the scattering fails or succeeds. The code zips the
caller's list and not its copy; the model does not tell them apart. PyPy may also forget
the callback of a weak reference that died with its object; this is left out, and would
only keep a dead entry longer.

In `independent_parts`: three objects on two addresses, so that an address is used twice
while another object lives; two values; two threads. Checked are `DaskTypeOK`,
`FuturesOfLiveObjects` and `IsMapOfObjects`, the refinement of `ObjectMap`, with `store[o]`
what a look-up of `o` returns. `ObjectMap` has two strengths. A map that is not `forgetful`
returns the value last set, and this is what the dictionary is on CPython. On PyPy the
callback of a dead object may come when its address and its key belong to another: it
deletes that entry, and a look-up of a live object then raises `KeyError`. There the
dictionary is a forgetful map: it loses values and never returns one that was set for
another object, nor an older one. With the strong promise for both, TLC finds this loss.

Theorems (`DaskData_proofs`), from `DaskAssumption` (the markers are not data), for any
number of objects, addresses and threads. `TypeCorrect`; `FuturesStayRight`,
from an invariant that two objects in memory have different ids and that the object of a
`__setitem__` is alive, and `FuturesInv` (a future is under the id of its object, which
the backend holds); `DictionaryIsMap`: each step of the dictionary is a step of the map or
a stutter. On CPython `OnDestroy` is a stutter because the memory of the dead object is
not free yet, so the key is nobody else's; on PyPy it may be `Forget`. `SetItem` takes an
old weak reference only from an entry whose reference is to the object itself, and
`GetItem` looks through the reference for the same reason.

## 7. Scopes, the registry and the constructor: `ParallelConfig`

A scope is an object with the configuration it found. It may be used without `with`,
left late, or left by another thread, so `Exit` takes any open scope and any thread;
`nested` remembers, for the property and the bound only, that a thread has so far left its
scopes innermost first. `Register` and `MakeDefault` are the two assignments of
`register_parallel_backend`. `ParallelInit` is a pure operator: the error the
constructor raises, given its arguments and the configuration of the thread. It always
raises one. `_get_config_param` evaluates `_Sentinel()`, a dataclass with a field
that has no default, so its first call in the constructor (line 838) ends in a `TypeError`, and what
follows is not reached and not modelled. (If `_Sentinel()` did not raise, `is not` would compare with a
new object: every argument would count as given, and the scope would never be asked.)

Of the parameters, the module has `backend` and `n_jobs`. `temp_folder`, `max_nbytes` and
`mmap_mode` are treated as `n_jobs` is. Backends are known by their class.
`multiprocessing` is treated by this code as `loky` is, hence one name stands for both.
`_check_backend` and `unregister` are used by the source and not defined; they do what
`test_config.py` relies on.

| Run | Instance | Shows |
|---|---|---|
| `independent_parts` | 2 threads, 2 scopes open | `ConfigTypeOK`, `ConfigIsNested`, `DefaultRegistered` |
| `unset_parameter` | the same | violates `ExplicitWins`: with every argument given, in a scope with a backend, no object can be made |

Bounds. `MaxOpen` is the number of scopes open at once: two are enough for one to hide
the other, in one thread, or to be left in the wrong order in two. `NestedSoFar` ends
the run in the state after a scope was left out of order, in every thread; the theorem
`ScopesNest` has no such bound. One value of `n_jobs` is enough because nothing computes
with it. Deadlock is not checked because `NestedSoFar` cuts the run.

What the runs say about the code. Scopes nest, whatever threads do and however often
backends are registered; leaving them out of order restores what the scope found and not
what the remaining ones say. The constructor has three errors of its own before the
`TypeError` above, which `ParallelInit` has: a `verbose` that is not given fails when it
is compared with a number, a backend that is not given is the sentinel and not None,
so that the constructor asks it for `nesting_level`, and a hint that is not given fails
the check of the hints where a scope sets its backend to None.

Theorems (`ParallelConfig_proofs`), from `ConfigAssumption`, for any number of threads,
values of `n_jobs` and depth of scopes. `TypeCorrect`. `ScopesNest`: `NestInv` adds to
`ConfigIsNested` that each open scope restores what the scopes below it say
(`Restores`), which is what `Exit` needs. `DefaultIsRegistered`: `RegisteringInv` says
that a thread which is about to make a name the default has registered it, and no step
takes a name out.

## 8. Parts that share no state: `IndependentParts`

Six modules are run by one specification that chooses one of them and lets the
others stand still in one initial state, so that there is one run and no product of
their states. Two of them are `DaskData` (section 6) and `ParallelConfig` (section 7).

*`BatchOutcome`*, for a backend with a retrieve callback. The callback and
`_register_outcome` each write `result` and then `status`; `get_status` and
`get_result` read one and then the other. Every access is a step, and only the callback
holds a lock, which the others do not take. Two readers, two registrars.
`ReadersFindResult` holds in every interleaving: the order result, then status, is enough.
`_register_outcome` promises that "future calls will be ignored", and its test of the
status does that for calls that come later; it does not for one at the same time, nor
for the callback, which does not test. `overwritten_outcome` (one reader, one registrar)
violates `OutcomeFixed`: an outcome that is set is replaced, so that two readers may see
a timeout and a value. Nothing at this commit calls `_register_outcome`; the docstring of
`get_status` says that it registers the timeout there. `get_result` returns what
was registered also when it is an exception, although its docstring promises to raise it;
the model returns it too.

*`SemLocks`*. A SemLock draws names until the kernel accepts one, or tries the one name its
caller gives (`CreateNamed`), then registers it; a Condition makes four. A process may die before any step, and the tracker cleans up when
all are gone. Two processes, five names, so that a Condition and a SemLock just fit and
collide; `MaxNaming` 2 in place of 100, so that giving up half way through a Condition
happens. `SemaphoresDistinct`, and `SemaphoresTracked`: only a crash between
creation and registration can leave a semaphore behind.

*`LogRotation`*. Three programs, two lines each, that may overlap at every step. The loop
moves .1 to .2, then .2 to .3, up to .9, so a rotation carries the old .1 to .9 and
overwrites what it meets. `LastRunsKept` says what is left when programs do not overlap: the
last log in .1, and the one before in .9. The third program is the first to need .9.
Overlapping programs lose lines, as the comment in the source accepts.

*`SequentialCall`*. Two calls of up to three tasks on one object, whose generators may
alternate; the first value is dropped, as in section 4, which contradicts the docstring's
first example (`parallel.py:745-748`, ten values with `n_jobs=1`) as much as `dropped_value`
does for more jobs. `SequentialCounts` says what `_n_completed_tasks` counts: no less than
the tasks the caller of the last call went past, and exactly these when the call
started after the others had ended. While generators alternate it counts the tasks of all.

Nothing here is assumed fair, and no liveness is stated. Deadlock is not checked: each
part comes to an end. The state graph of the run is the union of those of the six parts,
each complete within the bounds named above.

Theorems. `BatchOutcome_proofs` and `SemLocks_proofs` prove the properties of their
modules for any number of readers, registrars, processes and names. In
`BatchOutcome`, `ResultFirst` says that a status that is set has a result before it,
also for a writer between its two assignments. In `SemLocks`
both properties are inductive once the sets of names have their types. `IndependentParts_proofs` shows that the
composition implements each of these two, `DaskData` and `ParallelConfig` (every step is a
step of the part or a stutter) and concludes `ResultBeforeStatus`, `NoSharedSemaphore`,
`NoForgottenSemaphore`, `FuturesStayRight`, `DictionaryIsMap`, `ScopesNest` and
`DefaultIsRegistered` for it. The other two parts are proved
about in place, from `RunsAssumption` and `SequentialAssumption` (runs and calls are
numbered from 1, runs without a gap). `RotationKeepsTwo` is `LastRunsKept` for any number
of programs and messages. `LogInv` follows the two older logs through a rotation: while
file `i` is about to move it holds the log of the run before the last, and since a
log is not an absent file the loop carries it to .9. `SequentialCallCounts` is
`SequentialCounts`; `SeqInv` ties what a call has run to what its caller has, and
says that a call which starts alone finds the others ended, so that only its own
generator counts.

## 9. Where the code and its documents disagree

Each is a run that finds the property violated; `PROJECT.json` quotes the documents.

| Run | Disagreement |
|---|---|
| `lost_result` | `_get_outputs` tests counters and `_iterating` apart, and leaves a dispatched task's result behind |
| `truncated_call` | `_dispatch_new` does not test the call identifier, so a callback of an earlier call ends the next one (or, where `OwnDispatch` fails, gives it a task of its predecessor) |
| `dropped_value` | `__call__` takes the first value of the generator it has to start, and throws it away |
| `partial_dump` | a file that exists is taken for a complete one after a dump that raised |
| `unset_parameter` | `_Sentinel()` raises, so no argument of `Parallel` has any effect |
| `starved_workers` | nothing is pre-dispatched: the slice `__call__` makes is never used, and one task is in flight when the call first waits |
| `overwritten_outcome` | `_register_outcome` tests and assigns apart, and the callback does not test: an outcome that is set is replaced |

Others have no run of their own:

* `parallel.py:737-738` promises a `RuntimeError` for several calls to one object; nothing
  raises it. `call_reuse` is a run in which calls overlap, and in every behaviour of it
  they do so unhindered.
* A call may never return, after an earlier one: a batch that a late callback counts
  for the new call sends it into `retrieve()` for nothing (section 4). `CallReturns` and
  `WaitsForSomebody` are violated by two calls with the constants of `call_callbacks`. The
  cause is that of `truncated_call`, `_dispatch_new` not testing the identifier.
* On PyPy the dictionary of the dask backend forgets a live object when the callback of a
  dead one is late (section 6).

## 10. What is assumed, and what is only model-checked

The theorems assume the types of the constants, and nothing of their size. They say
nothing of liveness or of fairness, which the prover cannot treat: `CallReturns` and
`FilesUnlinked` are checked on instances only.

Some theorems about calls have a hypothesis on the behaviour and not only on the constants.
`OwnDispatch`, `QuietStart` and `TestHolds` are not guaranteed by the code: each
excludes exactly one interleaving for which TLC has a counterexample, and the theorems say that there is no other.
`[][...]_vars` hypotheses are met by every behaviour in which a thread is not preempted at
that place, so they are not vacuous.

The external operations (each is marked in the map) are contracts: a theorem about
`ParallelCall` or `MemmapReducer` is about this code over any backend and tracker that
keep them.

## 11. Not modelled

`PROJECT.json` lists each component with the reason. About one line in five of
`joblib/` belongs to a function with a body that does something; the rest is
signatures, docstrings, constants, and functions whose body is `pass` or absent.
Modelling those would be modelling their names. This is the case of the built-in
backends, the process pool, loky's executor and the start of its processes, the
resource tracker, `Memory` and its stores, `func_inspect`, `numpy_pickle` and the
compressors, and cloudpickle. Of what has a body, these are left out:

* constructors that only assign their arguments, and wrappers that only delegate:
  there is no behaviour to get wrong;
* pure functions of a line or two (`effective_n_jobs`, `_verbosity_filter`, the scaling
  of units, `_ConsistentSet`, which is a call of `sorted`): a reference definition
  would repeat them word for word;
* code that only formats, prints or logs, and the examples and benchmarks;
* in modelled components, what the notes in `PROJECT.json` and the sections above name as
  left out.
