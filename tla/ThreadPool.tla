----------------------------- MODULE ThreadPool -----------------------------
(***************************************************************************)
(* c10::ThreadPool (c10/core/thread_pool.h and .cpp): the pool behind the  *)
(* JIT interpreter's futures and Caffe2's input operators and nets.        *)
(*                                                                         *)
(* mutex_ protects everything but the tasks themselves, so a critical      *)
(* section, from taking the mutex to releasing or waiting, is one action.  *)
(***************************************************************************)
EXTENDS Naturals, Sequences, FiniteSets

CONSTANTS
  Threads,    (* threads_                                                   *)
  Tasks,      (* functions that may be passed to run() or runTaskWithID()   *)
  Waiters,    (* threads that call waitWorkComplete()                       *)
  Destroys,   (* is the pool destroyed?                                     *)
  Spurious,   (* may condition_variable::wait wake up by itself?            *)
  NoTask

ASSUME ThreadPoolAssumption ==
  /\ IsFiniteSet(Threads) /\ Threads # {}
  /\ NoTask \notin Tasks
  /\ Destroys \in BOOLEAN /\ Spurious \in BOOLEAN

VARIABLES
  tasks_, running_, complete_, available_,
  pc,         (* of every pool thread                                       *)
  current,    (* the task every pool thread runs                            *)
  wpc,        (* of every waiter                                            *)
  pool,       (* "alive", "joining" in the destructor, or "gone"            *)
  submitted, finished,
  promised    (* history: what was submitted when a waiter called           *)

threadVars == <<pc, current, available_>>
waitVars   == <<wpc, promised>>
vars == <<tasks_, running_, complete_, threadVars, waitVars, pool, submitted,
          finished>>

total_   == Cardinality(Threads)
Awake    == {th \in Threads : pc[th] = "acquire"}
Sleeping == {th \in Threads : pc[th] = "waiting"}
Running  == {th \in Threads : pc[th] = "running"}

Init ==
  /\ tasks_ = <<>>
  /\ running_ = TRUE
  /\ complete_ = TRUE
  /\ available_ = total_
  /\ pc = [th \in Threads |-> "acquire"]
  /\ current = [th \in Threads |-> NoTask]
  /\ wpc = [w \in Waiters |-> "idle"]
  /\ pool = "alive"
  /\ submitted = {}
  /\ finished = {}
  /\ promised = [w \in Waiters |-> {}]

(* condition_variable::notify_one() on a function from threads to where    *)
(* they are: one thread that waits, if there is one, goes for the mutex.   *)
WakeOne(at, at2) ==
  IF \E x \in DOMAIN at : at[x] = "waiting"
  THEN \E x \in DOMAIN at : /\ at[x] = "waiting"
                            /\ at2 = [at EXCEPT ![x] = "acquire"]
  ELSE at2 = at

(* Mutant: a thread is only woken when the queue was empty. *)
run_if_empty(task) ==
  /\ task \notin submitted
  /\ pool = "alive" \/ Running # {}
  /\ submitted' = submitted \cup {task}
  /\ tasks_' = Append(tasks_, task)
  /\ complete_' = FALSE
  /\ IF tasks_ = <<>> THEN WakeOne(pc, pc') ELSE UNCHANGED pc
  /\ UNCHANGED <<running_, available_, current, waitVars, pool, finished>>

(* Mutant: nobody is woken. *)
run_no_notify(task) ==
  /\ task \notin submitted
  /\ pool = "alive" \/ Running # {}
  /\ submitted' = submitted \cup {task}
  /\ tasks_' = Append(tasks_, task)
  /\ complete_' = FALSE
  /\ UNCHANGED <<running_, threadVars, waitVars, pool, finished>>

(* run() and runTaskWithID(), by a thread that may use the pool or, also   *)
(* when the destructor has begun, by a task.                               *)
run(task) ==
  /\ task \notin submitted
  /\ pool = "alive" \/ Running # {}
  /\ submitted' = submitted \cup {task}
  /\ tasks_' = Append(tasks_, task)
  /\ complete_' = FALSE
  /\ WakeOne(pc, pc')
  /\ UNCHANGED <<running_, available_, current, waitVars, pool, finished>>

(* The body of main_loop() from the test of running_ to the unlock before  *)
(* the task, or to the wait: what th does while it holds mutex_.  avail is *)
(* available_ at that point.                                               *)
TakeTask(th, avail) ==
  \/ /\ ~ running_
     /\ pc' = [pc EXCEPT ![th] = "exited"]
     /\ current' = [current EXCEPT ![th] = NoTask]
     /\ available_' = avail
     /\ UNCHANGED tasks_
  \/ /\ running_
     /\ tasks_ = <<>>
     /\ pc' = [pc EXCEPT ![th] = "waiting"]
     /\ current' = [current EXCEPT ![th] = NoTask]
     /\ available_' = avail
     /\ UNCHANGED tasks_
  \/ /\ running_
     /\ tasks_ # <<>>
     /\ pc' = [pc EXCEPT ![th] = "running"]
     /\ current' = [current EXCEPT ![th] = Head(tasks_)]
     /\ available_' = avail - 1
     /\ tasks_' = Tail(tasks_)

(* A thread that has started, or has been woken, gets the mutex. *)
Acquire(th) ==
  /\ pc[th] = "acquire"
  /\ TakeTask(th, available_)
  /\ UNCHANGED <<running_, complete_, waitVars, pool, submitted, finished>>

(* Mutant: whether other threads still run a task is not tested. *)
TaskDone_empty_only(th) ==
  /\ pc[th] = "running"
  /\ finished' = finished \cup {current[th]}
  /\ IF tasks_ = <<>>
     THEN complete_' = TRUE /\ WakeOne(wpc, wpc')
     ELSE UNCHANGED <<complete_, wpc>>
  /\ TakeTask(th, available_ + 1)
  /\ UNCHANGED <<running_, promised, pool, submitted>>

(* Mutant: the waiter is not notified. *)
TaskDone_no_notify(th) ==
  /\ pc[th] = "running"
  /\ finished' = finished \cup {current[th]}
  /\ complete_' = IF tasks_ = <<>> /\ available_ + 1 = total_ THEN TRUE
                  ELSE complete_
  /\ TakeTask(th, available_ + 1)
  /\ UNCHANGED <<running_, waitVars, pool, submitted>>

(* The task returns, or throws what main_loop() ignores; the thread takes  *)
(* the mutex and keeps it on the way to the next task.                     *)
TaskDone(th) ==
  /\ pc[th] = "running"
  /\ finished' = finished \cup {current[th]}
  /\ IF tasks_ = <<>> /\ available_ + 1 = total_
     THEN complete_' = TRUE /\ WakeOne(wpc, wpc')
     ELSE UNCHANGED <<complete_, wpc>>
  /\ TakeTask(th, available_ + 1)
  /\ UNCHANGED <<running_, promised, pool, submitted>>

(* waitWorkComplete() is called ... *)
waitWorkComplete(w) ==
  /\ pool = "alive"
  /\ wpc[w] = "idle"
  /\ promised' = [promised EXCEPT ![w] = submitted]
  /\ wpc' = [wpc EXCEPT ![w] = IF complete_ THEN "returned" ELSE "waiting"]
  /\ UNCHANGED <<tasks_, running_, complete_, threadVars, pool, submitted,
                 finished>>

(* Mutant: "if" instead of "while" around the wait. *)
WaitAgain_no_test(w) ==
  /\ wpc[w] = "acquire"
  /\ wpc' = [wpc EXCEPT ![w] = "returned"]
  /\ UNCHANGED <<tasks_, running_, complete_, threadVars, promised, pool,
                 submitted, finished>>

(* ... and tests complete_ again after every wake-up. *)
WaitAgain(w) ==
  /\ wpc[w] = "acquire"
  /\ wpc' = [wpc EXCEPT ![w] = IF complete_ THEN "returned" ELSE "waiting"]
  /\ UNCHANGED <<tasks_, running_, complete_, threadVars, promised, pool,
                 submitted, finished>>

SpuriousWakeup ==
  /\ Spurious
  /\ \/ /\ \E th \in Sleeping : pc' = [pc EXCEPT ![th] = "acquire"]
        /\ UNCHANGED wpc
     \/ /\ \E w \in Waiters : /\ wpc[w] = "waiting"
                              /\ wpc' = [wpc EXCEPT ![w] = "acquire"]
        /\ UNCHANGED pc
  /\ UNCHANGED <<tasks_, running_, complete_, available_, current, promised,
                 pool, submitted, finished>>

(* Mutant: the destructor wakes one thread only. *)
Destroy_notify_one ==
  /\ Destroys
  /\ pool = "alive"
  /\ \A w \in Waiters : wpc[w] \in {"idle", "returned"}
  /\ running_' = FALSE
  /\ WakeOne(pc, pc')
  /\ pool' = "joining"
  /\ UNCHANGED <<tasks_, complete_, available_, current, waitVars, submitted,
                 finished>>

(* ~ThreadPool(): notify_all() under the mutex.  Nobody else may be using  *)
(* the pool, but tasks may be queued and running.                          *)
Destroy ==
  /\ Destroys
  /\ pool = "alive"
  /\ \A w \in Waiters : wpc[w] \in {"idle", "returned"}
  /\ running_' = FALSE
  /\ pc' = [th \in Threads |-> IF th \in Sleeping THEN "acquire" ELSE pc[th]]
  /\ pool' = "joining"
  /\ UNCHANGED <<tasks_, complete_, available_, current, waitVars, submitted,
                 finished>>

Join ==
  /\ pool = "joining"
  /\ \A th \in Threads : pc[th] = "exited"
  /\ pool' = "gone"
  /\ UNCHANGED <<tasks_, running_, complete_, threadVars, waitVars, submitted,
                 finished>>

Next ==
  \/ \E task \in Tasks : run(task)
  \/ \E th \in Threads : Acquire(th) \/ TaskDone(th)
  \/ \E w \in Waiters : waitWorkComplete(w) \/ WaitAgain(w)
  \/ SpuriousWakeup \/ Destroy \/ Join

(* A thread that wants the mutex gets it, and tasks end. *)
Fairness ==
  /\ \A th \in Threads : WF_vars(Acquire(th)) /\ WF_vars(TaskDone(th))
  /\ \A w \in Waiters : WF_vars(WaitAgain(w))
  /\ WF_vars(Join)

Spec     == Init /\ [][Next]_vars
FairSpec == Spec /\ Fairness

-----------------------------------------------------------------------------
TypeOK ==
  /\ tasks_ \in Seq(Tasks)
  /\ running_ \in BOOLEAN /\ complete_ \in BOOLEAN
  /\ available_ \in 0 .. total_
  /\ pc \in [Threads -> {"acquire", "waiting", "running", "exited"}]
  /\ current \in [Threads -> Tasks \cup {NoTask}]
  /\ wpc \in [Waiters -> {"idle", "waiting", "acquire", "returned"}]
  /\ pool \in {"alive", "joining", "gone"}
  /\ submitted \in SUBSET Tasks /\ finished \in SUBSET Tasks
  /\ promised \in [Waiters -> SUBSET Tasks]

(* CompleteExact: complete_, which is only set by the last thread to       *)
(* finish and only reset by run(), says at all times whether all work is   *)
(* done, and available_ how many threads do none.                          *)
CompleteExact ==
  /\ complete_ = (submitted = finished)
  /\ available_ = total_ - Cardinality(Running)

(* WaitSound: waitWorkComplete() returns only when everything submitted    *)
(* before it was called has been executed to its end.                      *)
WaitSound == \A w \in Waiters : wpc[w] = "returned" => promised[w] \subseteq finished

(* WorkConserving: a thread sleeps only while every queued task has a      *)
(* thread of its own that is awake and on its way to the queue, although   *)
(* the thread a notify_one() was meant for may find its task taken.        *)
WorkConserving ==
  running_ /\ Sleeping # {} => Len(tasks_) <= Cardinality(Awake)

(* TasksRun: a submitted task is executed, unless the pool is destroyed.   *)
TasksRun ==
  \A task \in Tasks : task \in submitted ~> (task \in finished \/ ~ running_)

Blocked(w) == wpc[w] \in {"waiting", "acquire"}

(* WaiterReturns: the notification of completed_ is not lost: of the       *)
(* threads that call waitWorkComplete() one returns, and so does each that *)
(* is never blocked there together with another, although run() may reset  *)
(* complete_ between the notification and its test.                        *)
WaiterReturns ==
  /\ (\E w \in Waiters : wpc[w] # "idle") ~> (\E w \in Waiters : wpc[w] = "returned")
  /\ \A w \in Waiters :
       [](Blocked(w) => \A v \in Waiters \ {w} : ~ Blocked(v))
         => (Blocked(w) ~> ~ Blocked(w))

(* WaitersReturn: "Wait for queue to be empty" (thread_pool.h:94): every   *)
(* call of waitWorkComplete() returns.  completed_.notify_one() does not   *)
(* see to it when two threads wait.                                        *)
WaitersReturn ==
  \A w \in Waiters : wpc[w] # "idle" ~> wpc[w] = "returned"

(* DestructorReturns: ~ThreadPool() returns, with every thread joined.     *)
DestructorReturns == pool = "joining" ~> pool = "gone"
=============================================================================
