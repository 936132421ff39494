----------------------------- MODULE DataLoader -----------------------------
(***************************************************************************)
(* _DataLoaderIter with worker processes (torch/utils/data/dataloader.py,  *)
(* _utils/worker.py, _utils/pin_memory.py, torch/csrc/DataLoader.cpp): the *)
(* main process gives the indices of batches to its workers in turn, gets  *)
(* the batches in any order and hands them out in the order of the         *)
(* indices; an optional thread moves them to pinned memory in between.     *)
(*                                                                         *)
(* A batch is its index; an exception of the dataset travels in its place. *)
(* A worker's batches wait in the buffer of its multiprocessing.Queue      *)
(* until the queue's feeder thread has written them to the shared pipe,    *)
(* which it does while holding the queue's write lock.                     *)
(***************************************************************************)
EXTENDS Integers, Sequences, FiniteSets

CONSTANTS
  NumWorkers,  (* num_workers                                              *)
  NumBatches,  (* batches of the sampler                                   *)
  MaxDeaths    (* bound on the processes killed by a signal                *)

ASSUME LoaderAssumption ==
  /\ NumWorkers \in Nat \ {0} /\ NumBatches \in Nat
  /\ MaxDeaths \in Nat

Workers == 0 .. NumWorkers - 1
None == -1
Main == NumWorkers

VARIABLES
  options,      (* [timeout, pin_memory, handler]: is there a time limit,   *)
                (* is memory pinned, is there a SIGCHLD handler?            *)
  main,         (* the fields of the iterator, and where its caller is      *)
  registered,   (* are the pids of the workers known to the handler?        *)
  done_event,
  index_queue,  (* of every worker                                          *)
  worker,       (* of every worker: "runs", "exited", "killed"              *)
  buffer,       (* of every worker and the main process: what its feeder    *)
                (* has not written to the result queue                      *)
  wlock,        (* the result queue's write lock: "free", or "lost" with a  *)
                (* process that was killed while writing                    *)
  result_queue, (* the pipe of worker_result_queue: [idx, from]             *)
  pin_thread,   (* "runs", "exited"                                         *)
  data_queue    (* between that thread and the main thread                  *)

channels == <<buffer, wlock, result_queue>>
processes == <<worker, pin_thread>>
vars == <<options, main, registered, done_event, index_queue, processes,
          channels, data_queue>>

(* _put_indices(). *)
PutIndices(m, q) ==
  IF m.send_idx = NumBatches THEN [m |-> m, q |-> q]
  ELSE [m |-> [m EXCEPT !.worker_queue_idx = (@ + 1) % NumWorkers,
                        !.batches_outstanding = @ + 1,
                        !.send_idx = @ + 1],
        q |-> [q EXCEPT ![m.worker_queue_idx] = Append(@, m.send_idx)]]

(* The constructor has started the workers and the thread, and registered  *)
(* the pids; it has yet to prime the prefetch loop.                        *)
Init ==
  /\ options \in [timeout : BOOLEAN, pin_memory : BOOLEAN, handler : BOOLEAN]
  /\ main = [pc |-> "priming", primed |-> 0, worker_queue_idx |-> 0,
             send_idx |-> 0, rcvd_idx |-> 0, batches_outstanding |-> 0,
             reorder_dict |-> {}, shutdown |-> FALSE]
  /\ index_queue = [w \in Workers |-> <<>>]
  /\ registered = options.handler
  /\ done_event = FALSE
  /\ worker = [w \in Workers |-> "runs"]
  /\ buffer = [p \in Workers \cup {Main} |-> <<>>]
  /\ wlock = "free"
  /\ result_queue = <<>>
  /\ pin_thread = IF options.pin_memory THEN "runs" ELSE "exited"
  /\ data_queue = <<>>

-----------------------------------------------------------------------------
(* The main thread, in __init__(): a round of the prefetch loop; after the *)
(* last one the iterator is the caller's.                                  *)
Primed(m) ==
  [m EXCEPT !.primed = @ + 1,
            !.pc = IF m.primed + 1 = 2 * NumWorkers THEN "user" ELSE @]

Prime ==
  /\ main.pc = "priming"
  /\ LET p == PutIndices(Primed(main), index_queue)
     IN  main' = p.m /\ index_queue' = p.q
  /\ UNCHANGED <<options, registered, done_event, processes, channels, data_queue>>

-----------------------------------------------------------------------------
(* The main thread, in __next__().                                         *)
Goto(where) == main' = [main EXCEPT !.pc = where]

(* _process_next_batch(). *)
ProcessNextBatch(m) ==
  LET p == PutIndices([m EXCEPT !.rcvd_idx = @ + 1, !.pc = "user"], index_queue)
  IN  main' = p.m /\ index_queue' = p.q

(* The batch has been received already. *)
NextReordered ==
  /\ main.pc = "user" /\ main.rcvd_idx \in main.reorder_dict
  /\ ProcessNextBatch([main EXCEPT !.reorder_dict = @ \ {main.rcvd_idx}])
  /\ UNCHANGED <<options, registered, done_event, processes, channels, data_queue>>

NextStops ==
  /\ main.pc = "user" /\ ~main.shutdown
  /\ main.rcvd_idx \notin main.reorder_dict /\ main.batches_outstanding = 0
  /\ Goto("shutdown")
  /\ UNCHANGED <<options, registered, done_event, index_queue, processes,
                 channels, data_queue>>

(* _get_batch() looks at pin_memory_thread before every get(), if there is *)
(* no time limit; it raises when the thread has exited.                    *)
PinThreadDied == /\ options.pin_memory /\ ~options.timeout
                 /\ pin_thread = "exited"

NextWaits ==
  /\ main.pc = "user" /\ ~PinThreadDied
  /\ main.rcvd_idx \notin main.reorder_dict /\ main.batches_outstanding > 0
  /\ Goto("get")
  /\ UNCHANGED <<options, registered, done_event, index_queue, processes,
                 channels, data_queue>>

Source == IF options.pin_memory THEN data_queue ELSE result_queue

TakeFromSource ==
  IF options.pin_memory
  THEN data_queue' = Tail(data_queue) /\ UNCHANGED channels
  ELSE result_queue' = Tail(result_queue) /\ UNCHANGED <<buffer, wlock, data_queue>>

(* Mutant: a batch out of order is not counted when it arrives. *)
Counted_late(m, idx) ==
  IF idx = m.rcvd_idx THEN [m EXCEPT !.batches_outstanding = @ - 1] ELSE m

Counted(m, idx) == [m EXCEPT !.batches_outstanding = @ - 1]

(* Mutant: batches are handed out as they arrive. *)
InTurn_any(m, idx) == TRUE

InTurn(m, idx) == idx = m.rcvd_idx

(* A batch is got, and handed out if it is the next one. *)
Receive ==
  /\ main.pc = "get" /\ Source # <<>>
  /\ LET idx == Head(Source).idx
         m == Counted(main, idx)
     IN  IF InTurn(main, idx) THEN ProcessNextBatch(m)
         ELSE /\ main' = [m EXCEPT !.reorder_dict = @ \cup {idx},
                                   !.pc = IF PinThreadDied THEN "user" ELSE @]
              /\ UNCHANGED index_queue
  /\ TakeFromSource
  /\ UNCHANGED <<options, registered, done_event, processes>>

(* Mutant: the workers' status is not looked at. *)
SomeWorkerGone_unchecked == FALSE

SomeWorkerGone == \E w \in Workers : worker[w] # "runs"

(* The time limit of get() passes: an error is raised, unless the loop of  *)
(* _get_batch() goes on.                                                   *)
TimeOut ==
  /\ main.pc = "get" /\ Source = <<>>
  /\ SomeWorkerGone \/ options.timeout \/ PinThreadDied
  /\ Goto("user")
  /\ UNCHANGED <<options, registered, done_event, index_queue, processes,
                 channels, data_queue>>

(* What a killed worker has sent may be impossible to rebuild: get()       *)
(* raises, and the error is that the worker has exited.                    *)
ReceiveFails ==
  /\ main.pc = "get" /\ ~options.pin_memory /\ result_queue # <<>>
  /\ worker[Head(result_queue).from] = "killed"
  /\ TakeFromSource
  /\ Goto("user")
  /\ UNCHANGED <<options, registered, done_event, index_queue, processes>>

-----------------------------------------------------------------------------
(* The main thread, in _shutdown_workers().                                *)

(* The last reference to the iterator is dropped: __del__(). *)
Delete ==
  /\ main.pc = "user" /\ ~main.shutdown
  /\ Goto("shutdown")
  /\ UNCHANGED <<options, registered, done_event, index_queue, processes,
                 channels, data_queue>>

NoneToPinThread ==
  /\ main.pc = "shutdown" /\ options.pin_memory
  /\ main' = [main EXCEPT !.shutdown = TRUE, !.pc = "join_pin"]
  /\ done_event' = TRUE
  /\ buffer' = [buffer EXCEPT ![Main] = <<[idx |-> None, from |-> Main]>>]
  /\ UNCHANGED <<options, registered, index_queue, processes, wlock,
                 result_queue, data_queue>>

(* Mutant: the workers are only told by the event. *)
WithNone_event(q) == q

WithNone(q) == [w \in Workers |-> Append(q[w], None)]

NoneToWorkers ==
  /\ \/ main.pc = "shutdown" /\ ~options.pin_memory
     \/ main.pc = "join_pin" /\ pin_thread = "exited"
  /\ main' = [main EXCEPT !.shutdown = TRUE, !.pc = "join"]
  /\ done_event' = TRUE
  /\ index_queue' = WithNone(index_queue)
  /\ UNCHANGED <<options, registered, processes, channels, data_queue>>

Joined ==
  /\ main.pc = "join" /\ \A w \in Workers : worker[w] # "runs"
  /\ Goto("done")
  /\ registered' = FALSE
  /\ UNCHANGED <<options, done_event, index_queue, processes, channels,
                 data_queue>>

(* The SIGCHLD handler raises in the main thread and forgets the workers:  *)
(* an iterator whose constructor raises is dropped at once, and            *)
(* _shutdown_workers() is left by the exception.  Here it does so between  *)
(* two steps of the main thread; inside of __next__() and _put_indices(),  *)
(* between the statements that change a queue and the counters, the code   *)
(* may be interrupted too, and that is left out.                           *)
Stopping == {"shutdown", "join_pin", "join"}

Interrupt ==
  /\ registered /\ \E w \in Workers : worker[w] = "killed"
  /\ main.pc \in {"priming", "user", "get"} \cup Stopping
  /\ registered' = FALSE
  /\ \/ main.pc = "priming" /\ Goto("shutdown")
     \/ main.pc \in {"user", "get"} /\ Goto("user")
     \/ /\ main.pc \in Stopping
        /\ main' = [main EXCEPT !.pc = "done", !.shutdown = TRUE]
  /\ UNCHANGED <<options, done_event, index_queue, processes, channels,
                 data_queue>>

-----------------------------------------------------------------------------
(* The feeder thread of a process takes the write lock, writes to the      *)
(* pipe, and releases the lock.                                            *)
FeederWrites(p) ==
  /\ buffer[p] # <<>> /\ wlock = "free"
  /\ p \in Workers => worker[p] = "runs"
  /\ p = Main => main.pc # "killed"
  /\ result_queue' = Append(result_queue, Head(buffer[p]))
  /\ buffer' = [buffer EXCEPT ![p] = Tail(@)]
  /\ UNCHANGED <<options, main, registered, done_event, index_queue, processes,
                 wlock, data_queue>>

(* _pin_memory_loop(). *)
PinThreadGets ==
  /\ pin_thread = "runs" /\ result_queue # <<>> /\ main.pc # "killed"
  /\ result_queue' = Tail(result_queue)
  /\ LET r == Head(result_queue)
     IN  \/ /\ r.idx = None
            /\ pin_thread' = "exited"
            /\ UNCHANGED data_queue
         \/ /\ r.idx # None /\ done_event
            /\ UNCHANGED <<pin_thread, data_queue>>
         \/ /\ r.idx # None /\ ~done_event
            /\ data_queue' = Append(data_queue, r)
            /\ UNCHANGED pin_thread
         \/ /\ r.idx # None /\ worker[r.from] = "killed"   (* get() raises *)
            /\ pin_thread' = "exited"
            /\ UNCHANGED data_queue
  /\ UNCHANGED <<options, main, registered, done_event, index_queue, worker,
                 buffer, wlock>>

-----------------------------------------------------------------------------
(* _worker_loop().                                                         *)
WorkerGets(w) ==
  /\ worker[w] = "runs" /\ index_queue[w] # <<>>
  /\ index_queue' = [index_queue EXCEPT ![w] = Tail(@)]
  /\ LET r == Head(index_queue[w])
     IN  \/ /\ r = None
            /\ worker' = [worker EXCEPT ![w] = "exited"]
            /\ UNCHANGED buffer
         \/ /\ r # None /\ done_event
            /\ UNCHANGED <<worker, buffer>>
         \/ /\ r # None /\ ~done_event
            /\ buffer' = [buffer EXCEPT ![w] = Append(@, [idx |-> r, from |-> w])]
            /\ UNCHANGED worker
  /\ UNCHANGED <<options, main, registered, done_event, wlock, result_queue,
                 pin_thread, data_queue>>

(* Mutant: the watchdog remembers the main process as alive. *)
ManagerDead_stale == FALSE

ManagerDead == main.pc = "killed"

WatchdogExit(w) ==
  /\ worker[w] = "runs" /\ ManagerDead
  /\ worker' = [worker EXCEPT ![w] = "exited"]
  /\ UNCHANGED <<options, main, registered, done_event, index_queue, channels,
                 pin_thread, data_queue>>

-----------------------------------------------------------------------------
(* Faults.  A worker may be killed while its feeder holds the write lock,  *)
(* which is then never released.  Left out: a message only partly written  *)
(* to a pipe, and the lock of done_event taken by the process that dies.   *)
Deaths == Cardinality({w \in Workers : worker[w] = "killed"})
          + (IF main.pc = "killed" THEN 1 ELSE 0)

Kill(w) ==
  /\ worker[w] = "runs"
  /\ Deaths < MaxDeaths
  /\ worker' = [worker EXCEPT ![w] = "killed"]
  /\ \/ UNCHANGED wlock
     \/ buffer[w] # <<>> /\ wlock' = "lost"
  /\ UNCHANGED <<options, main, registered, done_event, index_queue, buffer,
                 result_queue, pin_thread, data_queue>>

KillMain ==
  /\ Deaths < MaxDeaths /\ main.pc \notin {"done", "killed"}
  /\ Goto("killed")
  /\ pin_thread' = "exited"
  /\ UNCHANGED <<options, registered, done_event, index_queue, worker,
                 channels, data_queue>>

-----------------------------------------------------------------------------
(* What the caller decides; the rest of the main thread; the handler.      *)
User == NextReordered \/ NextStops \/ NextWaits \/ Delete
MainThread == Prime \/ Receive \/ TimeOut \/ ReceiveFails
              \/ NoneToPinThread \/ NoneToWorkers \/ Joined
WorkerLoop(w) == WorkerGets(w) \/ WatchdogExit(w)

Next ==
  \/ User \/ MainThread \/ Interrupt \/ PinThreadGets \/ KillMain
  \/ \E p \in Workers \cup {Main} : FeederWrites(p)
  \/ \E w \in Workers : WorkerLoop(w) \/ Kill(w)

(* Threads and processes run, the dataset's code terminates, and the       *)
(* limits of get() pass.                                                   *)
Fairness ==
  /\ WF_vars(MainThread) /\ WF_vars(Interrupt) /\ WF_vars(PinThreadGets)
  /\ \A p \in Workers \cup {Main} : WF_vars(FeederWrites(p))
  /\ \A w \in Workers : WF_vars(WorkerLoop(w))

Spec == Init /\ [][Next]_vars /\ Fairness

-----------------------------------------------------------------------------
NoneKilled == \A w \in Workers : worker[w] # "killed"

(* The places where batch i is, between _put_indices() and __next__(). *)
At(queue, i) == {n \in DOMAIN queue : queue[n].idx = i}

Places(i) ==
  (UNION {{<<"index", w, n>> : n \in {n \in DOMAIN index_queue[w] :
                                        index_queue[w][n] = i}} : w \in Workers})
  \cup (UNION {{<<"buffer", w, n>> : n \in At(buffer[w], i)} : w \in Workers})
  \cup {<<"result", 0, n>> : n \in At(result_queue, i)}
  \cup {<<"data", 0, n>> : n \in At(data_queue, i)}
  \cup {<<"reordered", 0, n>> : n \in {i} \cap main.reorder_dict}

InFlight(i) == Cardinality(Places(i))

(* EachBatchOnce: a batch that was asked for and not yet handed out is in  *)
(* exactly one place, or, once a worker was killed, in at most one; a      *)
(* batch that was handed out is nowhere.  So the caller gets every batch   *)
(* of the sampler once, in order, before StopIteration.  A SIGCHLD handler *)
(* raises between two steps of the main thread only (see Interrupt).       *)
EachBatchOnce ==
  \A i \in 0 .. NumBatches - 1 :
    /\ i < main.rcvd_idx \/ i >= main.send_idx => InFlight(i) = 0
    /\ InFlight(i) <= 1
    /\ main.rcvd_idx <= i /\ i < main.send_idx /\ NoneKilled /\ ~done_event
         => InFlight(i) = 1

(* Accounting: the counters agree with each other: the batches asked for   *)
(* are outstanding, received out of order, or handed out; no more than     *)
(* 2 * num_workers are prefetched (the assertion of _put_indices()), and   *)
(* just as many once the constructor has ended, while there are any; and   *)
(* __next__() waits, or the iterator is exhausted, exactly when it should  *)
(* (the assertion of its loop).  A SIGCHLD handler raises between two      *)
(* steps of the main thread only (see Interrupt); one that raises between  *)
(* two statements of __next__() or _put_indices() leaves the counters in   *)
(* disagreement.                                                           *)
Accounting ==
  LET m == main
      prefetched == m.batches_outstanding + Cardinality(m.reorder_dict)
  IN  /\ m.batches_outstanding >= 0
      /\ m.send_idx = m.rcvd_idx + prefetched
      /\ prefetched <= 2 * NumWorkers
      /\ m.pc \in {"user", "get"} /\ m.send_idx < NumBatches
           => prefetched = 2 * NumWorkers
      /\ m.pc = "get" => ~m.shutdown /\ m.batches_outstanding > 0

(* NextReturns: __next__() does not wait for ever, whichever worker is     *)
(* killed, before, after or while its feeder holds the write lock but not  *)
(* with half a message in the pipe, with or without a SIGCHLD handler.     *)
NextReturns == main.pc = "get" ~> main.pc # "get"

Joining == main.pc \in Stopping

(* ShutdownEnds: "The iterator gracefully exits the workers when its last  *)
(* reference is gone or it is depleted": _shutdown_workers() returns if no *)
(* worker is killed.                                                       *)
ShutdownEnds == Joining ~> (~Joining \/ ~NoneKilled)

(* WorkersExit: the workers do not survive the main process, unless that   *)
(* dies in the middle of a message to them or inside of done_event.set().  *)
WorkersExit ==
  main.pc = "killed" ~> \A w \in Workers : worker[w] # "runs"

(* ShutdownReturns: "All processes exit if any of them die unexpectedly by *)
(* fatal signals": _shutdown_workers() returns even so, on a platform with *)
(* a SIGCHLD handler.                                                      *)
ShutdownReturns == Joining /\ options.handler ~> ~Joining
=============================================================================
