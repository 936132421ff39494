# TLA+ models of PyTorch's concurrent core

PyTorch 1.1.0 is a tensor library (`aten/`, `c10/`), an automatic
differentiation engine and Python front end (`torch/`) and the Caffe2 runtime
(`caffe2/`). Most of its code is arithmetic; what can be got wrong in ways that
tests hardly reach is the coordination around it. This directory models that
coordination: the backward engine that drives everything else, the thread pool,
the reducer of distributed training, the CUDA memory allocator and its sharing
between processes, and the DataLoader.

## 1. Inventory

| component | state | operations | interacts with |
|---|---|---|---|
| **Autograd engine** `torch/csrc/autograd/engine.cpp`, `input_buffer.cpp` | one heap of `FunctionTask`s per device; per call a `GraphTask` (mutex, `outstanding_tasks`, `has_error`, `owner`, `dependencies`, `not_ready`, captures); thread-locals `worker_device`, `checkpoint_valid`, GradMode | `execute`, `thread_main`, `evaluate_function`, `call_function`, `thread_on_exception`, `ReadyQueue::push/pop` | functions it evaluates may call `execute()` again; hooks queue final callbacks |
| **GraphTask initialisation** (same file) | `dependencies`, `exec_info` | `compute_dependencies`, `init_to_execute` | read by the workers afterwards |
| **Final callbacks** (same file) | one vector per process | `queue_callback`, `ClearCallbacks`, the loop in `execute` | DDP reducer's finalizer |
| **c10 ThreadPool** `c10/core/thread_pool.*` | task queue, `running_`, `complete_`, `available_`, two condition variables | `run`, `runTaskWithID`, `waitWorkComplete`, destructor | JIT futures, Caffe2 nets |
| Global work queue (same file) | `num_threads` | `setNumThreads`, `global_work_queue` | ThreadPool |
| **DDP reducer** `torch/csrc/distributed/c10d/reducer.cpp`, `torch/nn/parallel/distributed.py` | per process: buckets, pending counters, `next_bucket_`, `expect_autograd_hooks_`, `require_finalize_` | bucket assignment, autograd hook, `prepare_for_backward`, `finalize_backward` | engine (hooks, final callbacks), process group |
| **CUDA caching allocator** `c10/cuda/CUDACachingAllocator.cpp` | block pools, neighbour lists, table of pointers, events, statistics | `malloc`, `free`, `recordStream`, `emptyCache` | streams, driver; calls CUDA IPC when memory is short |
| **CUDA IPC** `torch/csrc/CudaIPCTypes.cpp`, `generic/StorageSharing.cpp` | the limbo of dropped tensors, counters in shared memory | `shareCuda`, deleters, `collect` | allocator, consumer processes |
| **DataLoader** `torch/utils/data/` | index queues, result queue, reorder dictionary, counters | `__next__`, worker loop, pin-memory thread, `_shutdown_workers`, SIGCHLD handler | worker processes |
| c10d stores and process groups, intrusive_ptr, Caffe2 queues and async nets, host allocator | | | |

Hard behaviours. Engine: any number of threads call `execute()`; each call
spreads over all workers; a function may itself call `execute()`, in which case
its worker goes back to work inside the function (a `thread_main` nested in a
`thread_main`, possibly over unrelated tasks); functions throw; the `GraphTask`
lives on the caller's stack and dies when `execute()` returns. Thread pool:
`notify_one` on both condition variables, tasks that submit tasks, destruction
with tasks queued. Reducer: readiness in any order, different on every process;
iterations that fail; collectives that time out. Allocator: frees that wait for
other streams, and callbacks that free in the middle of `malloc`. CUDA IPC:
deleters that take locks their callers hold. DataLoader: processes that die at
any point, also while they hold a lock, and a shutdown through three channels.

What makes each correct: the engine evaluates every needed function exactly
once with all its gradients, ends every call, and ends it only when nothing of
it is left on any worker; the traversals compute the in-degrees and the
"needed" set; callbacks run once, for their own call; the pool loses no task
and `waitWorkComplete` means what it says; the reducer reduces every bucket
once and in the same order everywhere, and gradients are complete; the allocator
never hands out memory that is in use; collecting shared memory ends; the loader
yields every batch once and in order, and always shuts down.

`PROJECT.json` lists all components, modelled or not, and the hazards line by
line.

## 2. Modules

| module | models | how |
|---|---|---|
| `EngineGraph` | what the two traversals should compute | closure, in-degrees and needed functions, as operators on a graph |
| `AutogradEngine` | `Engine::execute` and the worker threads | below |
| `BackwardPass` | the promise of `execute()` | abstract specification: a status and a set of evaluated functions per call |
| `MCAutogradEngine` | | a graph and call patterns for TLC |
| `GraphTaskInit` | `compute_dependencies`, `init_to_execute` | the loops as actions, the graph chosen in `Init` |
| `FinalCallbacks`, `MCFinalCallbacks` | `queue_callback`, `ClearCallbacks`, the loop over callbacks | one action per step between lock operations |
| `ThreadPool` | `c10::ThreadPool` | one action per critical section of `mutex_` |
| `BucketAssignment` | `compute_bucket_assignment_by_size` | a fold over the tensors, and the definition it is compared with |
| `Reducer`, `MCReducer` | the reducers of all processes, and their training loops | one action per critical section of `mutex_`, and per unused parameter |
| `StreamMemory` | the promise of the allocator | abstract specification: allocations and queued kernels |
| `CachingAllocator`, `MCCachingAllocator` | `THCCachingAllocator` | one action per operation; the allocator's functions as operators on its state |
| `CudaIPC` | the producer's side of CUDA IPC | threads with stacks of calls and two mutexes |
| `DataLoader` | `_DataLoaderIter`, workers, pin-memory thread, handler | one action per operation on a queue |
| `AutogradEngineProofs`, `EngineFlowProofs` | | theorems about `AutogradEngine`: types and counting; flow of gradients, refinement and threads, on top of the first |
| `GraphTaskInitProofs`, `FinalCallbacksProofs`, `ThreadPoolProofs`, `DataLoaderProofs`, `ReducerProofs` | | theorems about the module they are named after |

### AutogradEngine

A *task* in the model is one call of `execute()` together with its `GraphTask`.
`Host` says whether a thread of its own makes the call or the `apply()` of a
function; a hosted call runs, at most once, on whatever worker is evaluating
that function. A worker's state is a stack of frames, one per active
`thread_main()`, each with the `FunctionTask` in hand and the place in the code:

    setowner -> loop -> pop -> [capture] -> call -> apply <-> nested
                                 apply -> lock -> propagate* -> owner
                                 apply, propagate -> except -> owner
    owner -> decrement -> loop | notify -> loop | dummy -> loop

Everything another thread could observe in between is a step of its own. The
read of `owner` and the decrement of `outstanding_tasks` are two steps; so are
the decrement and the notification or the push of the empty task;
`condition_variable::wait` is test, block, wake and reacquire. The loop over a
function's outputs takes one step per output with the `GraphTask`'s mutex held.
The test of `has_error` is part of `Pop`: the worker's own next step is the only
thing it decides.

Abstractions. A gradient is defined or undefined; an `InputBuffer` is the set
of edges whose defined gradients have been added, so a lost or repeated
gradient is visible. `dependencies[f] = 0` stands for "no entry". The heap is a
set, which `PushedOnce` justifies for functions; of the empty tasks of one call
at most one can be queued at a time, because only the last decrement pushes one.
`applied` and `dangling` are history variables. After a `GraphTask` has been
destroyed the model keeps its last values: what freed memory holds is not
modelled, `dangling` records that it was used. `keep_graph` and
`release_variables()` are left out. `CreateGraph` is the GradMode argument.

### Other modules

`GraphTaskInit` numbers functions along the edges, which every acyclic graph
allows. The vector of `compute_dependencies` is a set, since the sum it computes
does not depend on the order. Root edges are valid (the Python bindings refuse
others); other edges may be invalid, and `NullOutput` admits the invalid output
edge the bindings pass for a leaf that belongs to no graph.

In `FinalCallbacks` a run is one `execute()`; `Overlap` allows two threads in
`execute()` at once, `Outer` makes a run a reentrant one. Callbacks are queued
for a run by its own functions and callbacks, and by other threads until its
loop has found nothing more to call; what comes after that, or between two runs,
is queued for no run, and a `ClearCallbacks` drops it. An append may move the
vector's elements while one of them is being called without the lock
(`engine.cpp:621`), which is undefined; the model has one of the outcomes, that
the element is called.

In `ThreadPool` the destructor is only called while nobody waits in
`waitWorkComplete()` (anything else is a misuse of the object); tasks may be
queued and running, and running tasks may submit more.

### Reducer

The state of a process is the record of its `Reducer`'s fields and the place its
training loop has reached; functions of the reducer are operators on that
record. `mutex_` is held throughout a hook, `prepare_for_backward()` and the
finalizer. A hook is one step, and so is a finalizer, taken when it is done
waiting for its collectives. `prepare_for_backward()` is a step for the reset
and a step for every unused parameter, which are marked in any order: the code
walks through an `unordered_map`, and each process has its own order. Other
processes and the collectives may move in between, which the mutex of this
process does not prevent. The value of a gradient is the set of contributions in it, so that
a stale, missing or repeated contribution is visible; dividing by the number of
processes is not. The n-th `allreduce()` of all processes belong together, which
is what `ProcessGroupGloo::nextTag()` does; a collective ends when all have
called it, or fails by its time limit. `find_unused_parameters` stands for the
option being set and `forward()` returning tensors to search from; a module
whose `forward()` returns tensors at some calls and none at others is not
modelled. `outside` records that a parameter deemed unused was used, `strayed`
that this happened while the reduction was open. Users zero the gradients before
`forward()`, and the loss depends on all outputs. The engine appears as far as
the reducer can tell: hooks run in any order, a function or a hook may throw
while other hooks still follow, callbacks are called at the end or dropped.

### CachingAllocator

The allocator's recursive mutex is held throughout every operation, so each is
one step, with the callbacks that free memory in the middle of `malloc()`
inside that step. Sizes are those of the code. A pointer is a segment (one
`cudaMalloc`) and an offset. A stream is a queue of kernels, which use ranges of
memory, and events. `cudaFree` waits for the device, as the driver does. `Use`
is a kernel launch followed by `recordStream()`, as its callers must do.
`Numbered` renames `Block` objects after each step, since their identity does
not matter; the order in which an `unordered_set` yields the streams is fixed.
The tensors a callback frees are chosen among the allocated blocks.
`StreamMemory` knows none of this: memory is handed out when it overlaps no
allocation and no kernel queued on another stream.

### CudaIPC

A record `<<s, n>>` is the `CudaIPCSentData` made by the n-th sending of storage
`s`; its `original_ptr_` is record `<<s, n - 1>>`, or the allocation. Calls made
through deleters are frames on the thread's stack. `ref_counters_mutex_` is only
taken by functions that call nothing, and is left out.

### DataLoader

A batch is its index. A `multiprocessing.Queue` is a buffer per writer, a feeder
thread that needs the write lock, and a pipe. `options` says whether there is a
time limit, a pin-memory thread and a SIGCHLD handler (there is none on Windows
and outside of the main thread). The model starts when the constructor has
started the processes and registered their pids; every round of the prefetch
loop that follows is a step, so that workers already work, and may die, while
the loop runs. `Kill` may leave the write lock of the result queue taken for
ever. An exception of the handler leaves `__next__()` or `_shutdown_workers()`,
and in the prefetch loop it drops the iterator. It comes between two steps of
the main thread: the code can also be interrupted between the statements of one
step (`dataloader.py:576-580`, `594-597`), which loses or repeats a batch or
makes the counters disagree, so `Accounting` and `EachBatchOnce` and their
theorems do not hold for the code there. A process killed while it holds the
lock inside `done_event`, and a message that is only partly in a pipe, are not
modelled either: `NextReturns` and `WorkersExit` say nothing of them.

## 3. Runs

Passing runs:

| run | instance | properties |
|---|---|---|
| `engine_grad` | a `backward()` and a `.grad()` from two threads, any gradient undefined | `GradientComplete`, `ResultSound`, `NoDangling` |
| `engine_reentrant` | a `backward()`, a reentrant `.grad()` on the GPU worker and a reentrant `backward()` on the CPU worker, which share functions; `b`, `c` and `d` may throw, which the `.grad()` does not evaluate; all gradients defined; spurious wake-ups; fair | `TypeOK`, `CounterExact`, `PushedOnce`, `NoConcurrentApply`, `ResultSound`, `QuiescentReturn`, `CheckpointMeaning`, `EveryCallReturns`, `ImplementsBackwardPass` |
| `graph_task_init` | all graphs of 3 functions with at most 2 edges and 2 roots, all sets of outputs, fair | `DependenciesExact`, `NeededExact`, `Terminates` |
| `callbacks_sequential` | two calls one after the other, at most 3 callbacks each, from functions, callbacks and other threads, and 3 outside of any call, failures | `CallbacksRun`, `OwnCallbacksOnly` |
| `pool` | 3 threads, 3 tasks, 2 waiters, destructor, spurious wake-ups, fair | `CompleteExact`, `WaitSound`, `WorkConserving`, `TasksRun`, `WaiterReturns`, `DestructorReturns` |
| `reducer` | 2 processes, 3 modules (three tensors in two buckets; two types; two replicas), 2 calls of `forward()`, with and without unused-parameter search; in process `q` functions may throw and the loss may use parameters outside `forward()` | `AssignmentSound`, `SameBucket`, `AssertionsHold`, `GradAveraged`, `OutsideUseDetected`, `ReductionComplete`, `PriorReductionFinished` |
| `allocator` | 2 streams, at most 3 blocks held and 1 kernel queued; a 2 MiB device cut into quarters, two such devices cut into thirds, and a device with two 20 MiB segments | `HeapConsistent`, `OomSound`, `ReuseSafe` |
| `dataloader` | 2 workers, 5 batches, all options, one process killed, fair | `EachBatchOnce`, `Accounting`, `NextReturns`, `ShutdownEnds`, `WorkersExit` |

Why the bounds are enough to be interesting. The engine's graph is a diamond
over two devices (so two workers count down the same dependency), with an
invalid edge, and a separate function that leads to the shared leaf. A reentrant
call made on the GPU worker ends on the CPU worker, which is the case that needs
the empty task; with `cross` each worker sits in a reentrant call that needs the
other, and its `thread_main()` evaluates tasks of unrelated calls meanwhile.
Deeper nesting is left to the proofs, which cover every depth.
Three functions are enough for the traversals to meet a root that another root
reaches, a function reached twice, a double edge and an invalid edge. The pool
has as many tasks as threads, so that a woken thread can find its task taken,
and two waiters, of which a notification reaches one.
In the reducer two buckets become ready in both orders on each process, and the
second `forward()` meets whatever the first iteration left. Quarters of a
segment give blocks with two neighbours to merge with; memory for one or two
segments makes `cudaMalloc` fail; one kernel is enough for a block that must not
be reused. The loader's four prefetched batches and a fifth one make both
workers wait, reorder and run dry.

Deadlock checking is off except in `allocator`: workers with empty queues, ended calls and
joined threads are the normal end of a finite instance. That nothing stops too
early is what the liveness properties are for.

Violated properties, each a disagreement between the code and a comment or
document, with its quotation in `PROJECT.json`:

| run | what TLC finds |
|---|---|
| `engine_dangling_reentrant` | `NoDangling` fails with reentrant calls: the empty task is pushed for a `GraphTask` whose owner has already seen 0 and returned |
| `pool_waiters` | `WaitersReturn` fails with two waiters: the thread that ends the last task wakes one of them (`completed_.notify_one()`, `thread_pool.cpp:113`), and the other sleeps on |
| `ipc_deadlock` | `NoDeadlock` fails with one thread and a tensor sent twice: `collect()` holds `limbo_mutex_`, destroys the outer record, and the deleter of the inner one locks `limbo_mutex_` again |
| `dataloader_shutdown` | `ShutdownReturns` fails with pinned memory: a killed worker took the result queue's write lock with it, and `pin_memory_thread.join()` waits for ever |

The properties of the passing runs have conditions. Where they end, TLC finds
counterexamples that are not runs of their own:

- `NoDangling` is claimed without reentrant calls only; the violated run above
  shows why.
- `thread_main()` sets the thread's GradMode for each popped task and never
  restores it (`engine.cpp:275`): after a reentrant call the rest of the outer
  function runs under another call's mode. The formula
  `\A w \in Workers : At(w, "apply") => grad_mode[w] = CreateGraph[Top(w).base]`
  fails with `Tasks = {"main", "inner"}`. It is not a property of the project:
  without reentrant calls it would restate the assignment.
- `NoDangling` also fails without reentrant calls when waits wake up spuriously
  (`Spurious = TRUE` in `engine_grad`): the caller wakes between the last
  decrement and the worker's lock of the mutex (`engine.cpp:288-289`). And it
  fails for a call without roots: its root does not wait for the mutex, so the
  counter can reach 0 before the caller tests it.
- `NoConcurrentApply` holds for defined gradients only: with
  `AllowUndefined` a GPU function that gets none defined is queued for the CPU
  worker (`input_buffer.cpp:59`), while another call has it on the GPU worker;
  `engine.cpp:48` promises otherwise.
- `CheckpointMeaning` holds while no `.grad()` throws: an exception skips the
  assignment that restores `checkpoint_valid` (`engine.cpp:428`).
- `EveryCallReturns` fails for a reentrant call without roots (`Tasks =
  {"main", "empty"}`): its root has no outputs and so does not wait for the
  mutex; the CPU worker can read `owner` before it is set, and then notify
  `not_done` instead of the owner's queue (`engine.cpp:459`, `598`).
- `CallbacksRun` and `OwnCallbacksOnly` are claimed for one `execute()` at a
  time: a reentrant call (`Outer`) clears or calls the outer call's callbacks,
  such as the reducer's finalizer, and threads inside `execute()`
  (`Overlap = TRUE`) share the vector (`engine.cpp:575`), which may also be
  cleared between the test of its size and the index into it.
- `NeededExact` fails with `NullOutput = TRUE`: the null function has captures,
  and every function with an invalid edge then counts as needed
  (`engine.cpp:748`). The result is right, functions are evaluated in vain.
- `setNumThreads()` stores its argument before it tests the old value
  (`thread_pool.cpp:126`): only the first late call throws.
- `AssertionsHold` fails with `Passes = 2`, two backward passes after one
  `forward()` that together cover the parameters: a variable is marked twice
  although no unused parameters were looked for, and the assertion at
  `reducer.cpp:181` fails, which its comment calls impossible. `GradAveraged`,
  `OutsideUseDetected` and `ReductionComplete` fail then too.
- `PriorReductionFinished` fails with `Retry = TRUE`, a user who goes on after a
  collective has timed out: `finalize_backward()` clears `require_finalize_`
  before it waits (`reducer.cpp:475`), so the next `forward()` is accepted while
  later collectives still write to the buckets. `GradAveraged` fails as well.
- `OutsideUseDetected` excepts outputs that depend on no parameter, and fails
  without that exception (`user[p].seen # {}`) on the run's own instance: all
  parameters are marked unused, `prepare_for_backward()` finalizes at once, and
  the hook of a parameter used outside of `forward()` then returns silently
  (`reducer.cpp:153`), its gradient neither averaged nor reported. The comment
  at `reducer.cpp:190` promises the error for "any of those parameters".
- When `cudaMalloc` fails, synchronising may return a block to the pool that
  would do; `malloc()` does not search again and reports that memory is
  exhausted, which `OomSound` allows as its comment does.
- `NoDeadlock` also fails for two threads and tensors sent once: `malloc()`
  holds the allocator's mutex and waits for `limbo_mutex_`, `collect()` holds
  `limbo_mutex_` and waits for the allocator's mutex in `free()`.
- `ShutdownReturns` is only stated with a handler; without one, and with
  pinned memory, any worker killed with the lock has the same effect.

### Fairness

Engine: weak fairness of each worker's next step and of a caller's steps of
waiting. Workers are detached `std::thread`s under a preemptive scheduler, and
functions are assumed to terminate. Starting a call, throwing and spurious
wake-ups are not fair, and a wait wakes up spuriously only finitely often: with
endless spurious wake-ups the caller could hold the mutex at every moment a
worker tries for it. A worker inside `apply()` must leave it but need not
choose to reenter. Weak fairness suffices since nobody can take a `GraphTask`'s
mutex for ever: each function of a call takes it a bounded number of times. The
abstract `BackwardPass` assumes only weak fairness of its own progress.
Thread pool: weak fairness of each thread's acquisition, of the end of each
task, of a woken waiter and of the join; none for submitting, waiting,
destroying and spurious wake-ups. DataLoader: weak fairness of the main thread
inside `__next__()` and the shutdown (its `get()` has a time limit, so it goes
on even when nothing arrives), of the handler, of the pin-memory thread, of each
feeder thread and of each worker's loop; none for what the caller decides and
for signals that kill. The dataset's code is assumed to terminate.

## 4. Proofs

All proofs are checked by TLAPS with Z3, Zenon and LS4. They hold for all values
of the constants that satisfy the assumptions named in the modules: for the
engine every number of devices, every finite acyclic graph, every set of calls
and every assignment of hosts (`DevicesAssumption`, `NamesAssumption`,
`GraphAssumption`, `AcyclicAssumption`, `BufferAssumption`: edges lead to
existing inputs, devices exist, names are distinct); for the traversals graphs
of every size; for the pool any number of threads, tasks and waiters; for the
callbacks any number of calls; for the loader any number of workers, batches
and killed processes; for the reducer any finite number of processes, replicas,
parameters, buckets and iterations, any sets of used parameters, and exceptions
and time limits at any point. The inductive invariants were first checked by
TLC on the instances of section 3.

| theorem | states | under |
|---|---|---|
| `TypeCorrect` | `TypeOK` | |
| `CounterIsExact` | `CounterExact` | |
| `ReturnIsQuiescent` | `QuiescentReturn` | |
| `QueuedOnce` | `PushedOnce` | |
| `GradientIsComplete` | `GradientComplete` | |
| `ResultIsSound` | `ResultSound` | |
| `EngineImplementsBackwardPass` | the safety half of `ImplementsBackwardPass` | |
| `NoDanglingAccess` | `NoDangling` | no reentrant calls, every call has a root, no spurious wake-ups |
| `CheckpointIsRight` | `CheckpointMeaning` | no function throws |
| `ApplyExclusion` | `NoConcurrentApply` | the inputs of a function are on one device, gradients are defined |
| `DependenciesAreExact` | `DependenciesExact` | |
| `NeededIsExact` | `NeededExact` | every output edge is valid |
| `CallbacksAreRun`, `CallbacksAreOwn` | `CallbacksRun`, `OwnCallbacksOnly` | calls of `execute()` do not overlap |
| `CompleteIsExact`, `WaitIsSound`, `PoolIsWorkConserving` | `CompleteExact`, `WaitSound`, `WorkConserving` | |
| `CountersAgree`, `BatchesAreHandedOutOnce` | `Accounting`, `EachBatchOnce` | the handler raises between two steps of the model only |
| `ReductionsAgree` | `SameBucket` | * |
| `ForwardFindsNoneUnderWay` | `PriorReductionFinished` | *, the user stops at a timed-out collective (`~Retry`) |
| `ReducerAssertions`, `ReductionsComplete` | `AssertionsHold`, `ReductionComplete` | *, one backward pass per `forward()` (`Passes = 1`) |
| `OutsideUseIsReported` | `OutsideUseDetected` | *, `Passes = 1`; the property itself excepts outputs that depend on no parameter, for which the code is silent |
| `GradientsAveraged` | `GradAveraged` | *, both |

\* The theorems of the reducer assume that the bucket assignment of the initial
state is sound (`AssignmentSound`). It is computed by a fold over the tensors,
about which the prover cannot reason by induction; the run `reducer` checks it.

Every hypothesis in the last column is needed: without it TLC finds one of the
counterexamples listed in section 3. For the reducer: two backward passes after
one `forward()` may count a parameter twice, so that an assertion fails, a bucket
is launched without one of its gradients, a use outside of `forward()` goes
unnoticed, or a reduction is left open; a user who goes on after a collective
has timed out meets late collectives that write to the buckets. The run's own
instance has `Passes = 1` and `Retry = FALSE`. The condition on the loader's
handler is a limit of the model, not a hypothesis of the theorems.

### The engine

*Types.* `TypeOK` alone is not inductive: whether `Propagate` stays in range
depends on what the frame holds. `TypeInv` (`AutogradEngineProofs`) adds, for
each frame of each stack, which fields are meaningful at its place in the code
(`FrameOK`), and that all frames but the top one are inside a function that
reentered while the bottom one is the worker's own loop (`StackOK`), so that
leaving a reentrant call always uncovers the function that made it.

*Counting.* The second part of the module looks at the frames as a set of *jobs*, the
`FunctionTask`s in hand on any worker and at any depth, so that each step of the
code adds, moves or removes one job. `CountInv` equates the counter with queued
tasks plus jobs. It does not stand alone. `OwnerInv`: `owner` is set once, a
copy read earlier is stale only by saying "none", and the empty task reaches the
owner only. `DummyInv`: there is one empty task for a call at a time, which is
what lets the heap be a set. `IdleInv`: a call not yet made has left no traces.
`DrainInv`: once somebody is being told that the counter is 0, or the call has
returned, no function of it is queued or in hand. `OnceInv` and `BufferInv`: a
function is at one place, with no gradient still to come, and its buffer holds
gradients of edges that lead to it. Their conjunction with the types is
`EngineInv`.

*Flow.* `EngineFlowProofs` follows the edges. An edge is *held* until its
function has returned and the loop over the outputs has passed it. `DependInv`
says that `dependencies[f]` is the number of held edges into `f`, `QueueInv`,
`ActiveInv`, `WaitingInv` and `CapturedInv` that buffers hold what came along
the others, `NoLossInv` that a function for which nothing is held any more is on
its way or done. `ResultSound` then needs an argument about the whole graph: if
nothing is in flight and something needed is not evaluated, then a sender of it
is not evaluated either, and so on upwards; a finite acyclic graph has no such
set (`NoEndlessSenders`, with the size of what a function reaches as the
measure). The refinement maps a call's status and evaluated functions to
`BackwardPass`; each step of the engine is a step of it or stutters.

*Threads.* The last part of that module proves what holds in some circumstances
only.
`NoDanglingAccess`: the caller holds the mutex until it sleeps, and without it
no worker gets past the outputs of the root, so the counter reaches 0 only when
the caller waits, and the worker that brought it there wakes it as its last
access (`CallerInv`, `TellInv`, `MutexInv`). `CheckpointIsRight`: the saved
flag is restored on every path but the exceptional one (`CheckpointInv`, and
`NoErrorInv`: without a throwing function there is never an error).
`ApplyExclusion`, the guarantee `engine.cpp` states about `apply()`: every
queued task and every frame of a function is on the function's home worker, and
a buffer only holds gradients of edges that lead to its function (`HomeInv`),
because the queue is chosen from the buffer's contents: when the last gradient
arrives the buffer is not empty, all it holds is on the home device, and
`InputBuffer::device()` returns it.

### The other components

`GraphTaskInitProofs`. For `compute_dependencies()` the invariant `CountInv`
splits what has been seen into queued and expanded functions: the counts are
those of the edges leaving the expanded ones, which lead to what has been seen.
With the queue empty the expanded functions are closed under edges, and so are
what the root reaches. For `init_to_execute()` the stack is a path down the
graph, and each of its functions has entered the edges before `next_next_fn`
(`StackInv`); what has been entered and is not on the stack has its final mark
(`LeftInv`). A root is not put into `seen` and may be entered again, which takes
its mark away for a while; the invariant survives because nothing that has been
left leads to it. The lemmas about closures are in `EngineGraph`, and the engine
uses the same ones.

`FinalCallbacksProofs`. While one call is under way and has not left its loop
the vector is exactly what has been queued for it, and the loop has called exactly what is before its index
(`VectorInv`, `LoopInv`).

`ThreadPoolProofs`. Every submitted task is queued, running or finished and at
one place only (`WorkInv`); `complete_` and `available_` describe queue and
threads (`CountInv`); what a waiter was promised is done when the work is
(`WaitInv`). `WorkConserving` is inductive with these.

`DataLoaderProofs`. `LoaderInv` describes the queues, the workers' buffers, the
pipe and the reorder dictionary by the sets of batches in them. No batch is in
one of them twice (`QueuesOnce`) or in two of them (`Apart`); only batches from
`rcvd_idx` up to `send_idx` are anywhere (`OnlyPending`); all of these are
somewhere as long as no worker was killed and the shutdown has not begun
(`NoneLost`). `Counters` relates the iterator's fields to each other: what was
asked for is handed out, reordered or outstanding, and between two calls of
`__next__()` exactly `2 * num_workers` batches are under way while the sampler
has more. Each step moves one batch from a place to the next, and the
cardinality in `EachBatchOnce` follows from the places being apart.

`ReducerProofs`. The proof first looks at one process: `LocalStep` lists what a
step may do to its record and its loop, and `LocalInv`, part of `ReducerInv`,
holds the types, what the counters mean (`Counts`: the counter of a bucket is the
number of its replicas with something pending, buckets before `next_bucket_` wait
for nothing and that one does), and which flags, callbacks and errors go with
which place of the loop. `RunInv` adds

- the order (`Walk`, `Tags`): what a process has posted goes round the buckets,
  `next_bucket_` is where it is, and bucket `b` of the reduction under way has
  the tag `First + b`. Two such walks agree wherever both are defined, which is
  `SameBucket`;
- what is under way (`Closed`, without `Retry`): a process that has not raised
  has open collectives only while `require_finalize_` is set;
- one pass (`PassInv`, with `Passes = 1`): a bucket replica waits for no more
  than the hooks and unused parameters still to come, for no fewer when unused
  parameters are not looked for or are still being marked, and for fewer when a
  parameter is used outside of `forward()` (`Counting`). So marking completes
  all buckets only if the outputs depend on no parameter, and with other outputs
  every use outside of `forward()` meets an open reduction (`OutsidePass`).
  From this come the finalization of complete passes, the assertions, and the
  report of such a use.

`GradInv` follows the data. A process's n-th reduction has the tags from
`n * BucketCount + 1` to `(n + 1) * BucketCount` (`Rounds`), so the processes
that meet in a collective are in the same round although their iterations may
be apart; a bucket that has been launched holds this process's own contributions
until its collective is done (`Data`), and the sum over all replicas of all
processes afterwards (`Summed`); the finalizer copies sums of this round only
(`Averaged`). A collective that is done has been posted by all (`DonePosted`),
so that none of its contributors can still change what it gave.

### Only model-checked

- Liveness (`EveryCallReturns`, `Terminates`, `TasksRun`, `WaiterReturns`,
  `DestructorReturns`, `NextReturns`, `ShutdownEnds`, `WorkersExit`) and the
  fairness half of `ImplementsBackwardPass`: the prover has no support for
  `ENABLED` here.
- `AssignmentSound`, and the allocator (`HeapConsistent`, `OomSound`,
  `ReuseSafe`): the assignment by size, the statistics and the searches and
  merges over the block lists are folds over sequences, and what a fold computes
  takes an induction over data that the prover cannot do.

## 5. Plan

1. *Prove*. The parts of `HeapConsistent` that do not depend on a fold; weaker
   hypotheses for the reducer's theorems (several backward passes over disjoint
   parameters).
2. *Extend*. The receiver's table of IPC handles (`getIpcDevPtr`), the
   interruption of the loader's bookkeeping by the handler, FileStore's
   append-only log, `intrusive_ptr`'s counts and Caffe2's `BlobsQueue`.

### Not modelled

Tensor kernels and operators, the JIT, code generation and build tools, which
are nearly all of the repository's lines: data and text, with no control worth
exploring. System-call layers such as libshm, and the collectives of the process
groups, which are library calls. The host allocator, whose protocol is that of
the device allocator without splitting. The asynchronous nets of Caffe2, a
scheduler of the same kind as the engine's. Fork handling of the Python
bindings.
