--------------------------- MODULE AutogradEngine ---------------------------
(***************************************************************************)
(* The backward engine of torch/csrc/autograd/engine.cpp: one worker       *)
(* thread per device, one ready queue per worker, any number of concurrent *)
(* and reentrant calls of Engine::execute(), each with its own GraphTask.  *)
(*                                                                         *)
(* One element of Tasks stands for one call of execute() and the GraphTask *)
(* on its stack.  Host says who makes the call: a thread that is not a     *)
(* worker (every such call has a thread of its own), or the apply() of a   *)
(* function, which makes it a reentrant call on whatever worker evaluates  *)
(* that function.                                                          *)
(*                                                                         *)
(* A gradient is abstracted to whether it is defined; what an InputBuffer  *)
(* holds is the set of edges whose defined gradients were added to it.     *)
(***************************************************************************)
EXTENDS Integers, Sequences, FiniteSets, EngineGraph

CONSTANTS
  NumDevices,     (* number of non-CPU devices                              *)
  Fns,            (* functions of the autograd graph                        *)
  NextEdges,      (* their next_edges: [Fns -> Seq(Fns \cup {NullFn})]      *)
  InputNr,        (* input_nr of each of those edges                        *)
  InputDevice,    (* device of each input, from the input_metadata          *)
  SequenceNr,     (* sequence_nr() of each function                         *)
  Tasks,          (* calls of Engine::execute                               *)
  Roots,          (* the root edges of each call, a sequence of functions   *)
  RootInputNr,    (* input_nr of each root edge                             *)
  Outputs,        (* functions whose inputs are captured: {} for backward() *)
  CreateGraph,    (* the create_graph argument                              *)
  Host,           (* who calls: Caller, or a function in whose apply()      *)
  MayThrow,       (* functions whose evaluation may throw                   *)
  AllowUndefined, (* may functions return undefined gradients?              *)
  Spurious,       (* may condition_variable::wait wake up by itself?        *)
  GraphRoot, NullFn, NoBuffer, NoTask, Caller

CPU       == -1
NO_DEVICE == -2
Workers   == CPU .. (NumDevices - 1)
Nodes     == Fns \cup {GraphRoot}
Edges     == Nodes \X (Nat \ {0})
Buffers   == {NoBuffer} \cup SUBSET Edges

ASSUME DevicesAssumption == NumDevices \in Nat

ASSUME NamesAssumption ==
  /\ GraphRoot \notin Fns
  /\ NullFn \notin Nodes
  /\ NoTask \notin Tasks
  /\ Caller \notin Nodes

ASSUME GraphAssumption ==
  /\ IsFiniteSet(Fns)
  /\ NextEdges \in [Fns -> Seq(Fns \cup {NullFn})]
  /\ \A f \in Fns : InputDevice[f] \in Seq(Workers)
  /\ \A f \in Fns : \A i \in DOMAIN NextEdges[f] : NextEdges[f][i] # NullFn =>
        InputNr[f][i] \in DOMAIN InputDevice[NextEdges[f][i]]
  /\ \A t \in Tasks : \A i \in DOMAIN Roots[t] :
        RootInputNr[t][i] \in DOMAIN InputDevice[Roots[t][i]]
  /\ Roots \in [Tasks -> Seq(Fns)]
  /\ Outputs \in [Tasks -> SUBSET Fns]
  /\ Host \in [Tasks -> Fns \cup {Caller}]
  /\ CreateGraph \in [Tasks -> BOOLEAN]
  /\ SequenceNr \in [Nodes -> Nat]
  /\ MayThrow \subseteq Fns
  /\ AllowUndefined \in BOOLEAN
  /\ Spurious \in BOOLEAN

(* The graph one call works on: GraphRoot's edges are the call's roots. *)
NextOf ==
  [t \in Tasks |->
     [f \in Nodes |-> IF f = GraphRoot THEN Roots[t] ELSE NextEdges[f]]]

InputNrOf(t, e) ==
  IF e[1] = GraphRoot THEN RootInputNr[t][e[2]] ELSE InputNr[e[1]][e[2]]

ASSUME AcyclicAssumption == \A t \in Tasks : Acyclic(NextOf[t])

(* NoBuffer says that there is no InputBuffer: it is not an empty one. *)
ASSUME BufferAssumption ==
  \A t \in Tasks : \A B \in SUBSET EdgesOf(NextOf[t], Nodes) : B # NoBuffer

(* Constant parts of a GraphTask. *)
InitialDependencies ==
  [t \in Tasks |->
     LET d == Dependencies(NextOf[t], GraphRoot) IN [f \in Fns |-> d[f]]]

GradMode(t) == Outputs[t] # {}      \* exec_info is not empty: .grad()

(* What the root of a call reaches, and what the call evaluates of it. *)
Reachable == [t \in Tasks |-> Closure(NextOf[t], {GraphRoot})]
Needed ==
  [t \in Tasks |->
     IF GradMode(t) THEN NeededFor(NextOf[t], GraphRoot, Outputs[t])
                    ELSE Reachable[t]]

should_execute(t, f) == f \in Needed[t] \cup Outputs[t]

VARIABLES
  ready,            (* ready_queues: the heap of every worker               *)
  stack,            (* the thread_main() invocations of every worker        *)
  checkpoint_valid, (* thread local of every worker                         *)
  grad_mode,        (* GradMode's thread local of every worker              *)
  phase,            (* where the call of execute() is                       *)
  mutex,            (* is GraphTask::mutex held?                            *)
  outstanding_tasks, has_error, owner, dependencies, not_ready,
  captured_vars,    (* buffer captured for every output                     *)
  result,           (* how execute() ended                                  *)
  applied,          (* history: the defined outputs of what has been called *)
  dangling          (* history: a destroyed GraphTask has been accessed     *)

graphTaskVars == <<mutex, outstanding_tasks, has_error, owner, dependencies,
                   not_ready, captured_vars>>
threadVars    == <<checkpoint_valid, grad_mode>>
callVars      == <<phase, result>>
history       == <<applied, dangling>>
vars == <<ready, stack, threadVars, callVars, graphTaskVars, history>>

(***************************************************************************)
(* One invocation of thread_main(loop) and the FunctionTask it handles.    *)
(* i is the next output to propagate, base_owner and prev the locals of    *)
(* thread_main and call_function.                                          *)
(***************************************************************************)
PCs == {"setowner", "loop", "pop", "capture", "call", "apply", "nested",
        "lock", "propagate", "except", "owner", "decrement", "notify", "dummy"}

Frame ==
  [loop : Tasks \cup {NoTask}, pc : PCs,
   base : Tasks \cup {NoTask}, fn : Nodes \cup {NullFn}, inputs : SUBSET Edges,
   i : Nat, base_owner : Workers \cup {NO_DEVICE}, prev : BOOLEAN]

FunctionTask ==
  [base : Tasks, fn : Nodes \cup {NullFn}, inputs : SUBSET Edges]

EmptyFrame(loop, pc) ==
  [loop |-> loop, pc |-> pc, base |-> NoTask, fn |-> NullFn, inputs |-> {},
   i |-> 1, base_owner |-> NO_DEVICE, prev |-> TRUE]

Top(w)      == stack[w][Len(stack[w])]
SetTop(w, fr) == stack' = [stack EXCEPT ![w] = [@ EXCEPT ![Len(@)] = fr]]
Goto(w, pc) == SetTop(w, [Top(w) EXCEPT !.pc = pc])
At(w, pc)   == Top(w).pc = pc

Phases == {"idle", "checking", "blocking", "waiting", "woken", "working",
           "returned"}

Init ==
  /\ ready = [w \in Workers |-> {}]
  /\ stack = [w \in Workers |-> <<EmptyFrame(NoTask, "loop")>>]
  /\ checkpoint_valid = [w \in Workers |-> TRUE]
  /\ grad_mode = [w \in Workers |-> TRUE]
  /\ phase = [t \in Tasks |-> "idle"]
  /\ result = [t \in Tasks |-> "none"]
  /\ mutex = [t \in Tasks |-> FALSE]
  /\ outstanding_tasks = [t \in Tasks |-> 0]
  /\ has_error = [t \in Tasks |-> FALSE]
  /\ owner = [t \in Tasks |-> NO_DEVICE]
  /\ dependencies = [t \in Tasks |-> [f \in Fns |-> 0]]
  /\ not_ready = [t \in Tasks |-> [f \in Fns |-> NoBuffer]]
  /\ captured_vars = [t \in Tasks |-> [f \in Fns |-> NoBuffer]]
  /\ applied = [t \in Tasks |-> [f \in Nodes |-> NoBuffer]]
  /\ dangling = FALSE

(***************************************************************************)
(* Ready queues.  The heap is a set: the invariant PushedOnce says that no *)
(* push ever meets an equal element.                                       *)
(***************************************************************************)
Push(d, item) ==
  /\ ready' = [ready EXCEPT ![d] = @ \cup {item}]
  /\ outstanding_tasks' = [outstanding_tasks EXCEPT ![item.base] = @ + 1]

(* t1 may not be popped while t2, which CompareFunctionTaskTime puts       *)
(* before it, is in the heap.                                              *)
Before(t2, t1) ==
  /\ t1.fn # NullFn
  /\ t2.fn # NullFn => SequenceNr[t1.fn] < SequenceNr[t2.fn]

HeapTop(w) == {x \in ready[w] : \A y \in ready[w] : ~ Before(y, x)}

(* InputBuffer::device(): the device of the first defined non-CPU input. *)
BufferDevice(t, f, buffer) ==
  LET positions == {n \in {InputNrOf(t, e) : e \in buffer} :
                      InputDevice[f][n] # CPU}
  IN  IF positions = {} THEN CPU
      ELSE InputDevice[f][CHOOSE n \in positions :
                            \A m \in positions : n <= m]

(* A worker reads or writes the GraphTask t: once execute() has returned,  *)
(* the object is gone from its caller's stack.                             *)
Access(t) == dangling' = (dangling \/ phase[t] = "returned")

(* Mutant: execute() does not take graph_task.mutex before the push. *)
StartTask_unlocked(t) ==
  /\ phase[t] = "idle"
  /\ dependencies' = [dependencies EXCEPT ![t] = InitialDependencies[t]]
  /\ Push(CPU, [base |-> t, fn |-> GraphRoot, inputs |-> {}])
  /\ UNCHANGED <<mutex, has_error, owner, not_ready, captured_vars, result,
                 threadVars, history>>

(***************************************************************************)
(* Engine::execute(), up to the point where the caller starts to wait.     *)
(* Nothing of the GraphTask is visible to a worker before the push.  The   *)
(* caller keeps graph_task.mutex.                                          *)
(***************************************************************************)
StartTask(t) ==
  /\ phase[t] = "idle"
  /\ mutex' = [mutex EXCEPT ![t] = TRUE]
  /\ dependencies' = [dependencies EXCEPT ![t] = InitialDependencies[t]]
  /\ Push(CPU, [base |-> t, fn |-> GraphRoot, inputs |-> {}])
  /\ UNCHANGED <<has_error, owner, not_ready, captured_vars, result, threadVars,
                 history>>

(* Mutant: an error ends the call at once. *)
EndTask_early(t) ==
  /\ outstanding_tasks[t] = 0 \/ has_error[t]
  /\ phase' = [phase EXCEPT ![t] = "returned"]
  /\ result' = [result EXCEPT ![t] = IF has_error[t] THEN "error" ELSE "ok"]

(* What execute() does once outstanding_tasks is 0: rethrow, report the    *)
(* functions that never became ready, or return; the GraphTask dies.       *)
EndTask(t) ==
  /\ outstanding_tasks[t] = 0
  /\ phase' = [phase EXCEPT ![t] = "returned"]
  /\ result' = [result EXCEPT ![t] =
       IF has_error[t] THEN "error"
       ELSE IF \E f \in Fns : not_ready[t][f] # NoBuffer THEN "incomplete"
       ELSE "ok"]

(* A thread that is not a worker calls execute() and waits on not_done. *)
Execute(t) ==
  /\ Host[t] = Caller
  /\ StartTask(t)
  /\ phase' = [phase EXCEPT ![t] = "checking"]
  /\ UNCHANGED stack

(* wait(lock, pred): the predicate is tested with the mutex held ... *)
WaitCheck(t) ==
  /\ phase[t] = "checking"
  /\ outstanding_tasks[t] # 0
  /\ phase' = [phase EXCEPT ![t] = "blocking"]
  /\ UNCHANGED <<ready, stack, threadVars, result, graphTaskVars, history>>

(* ... and the mutex released in the same step as the thread goes to sleep. *)
WaitBlock(t) ==
  /\ phase[t] = "blocking"
  /\ phase' = [phase EXCEPT ![t] = "waiting"]
  /\ mutex' = [mutex EXCEPT ![t] = FALSE]
  /\ UNCHANGED <<ready, stack, threadVars, result, outstanding_tasks, has_error,
                 owner, dependencies, not_ready, captured_vars, history>>

SpuriousWakeup(t) ==
  /\ Spurious
  /\ phase[t] = "waiting"
  /\ phase' = [phase EXCEPT ![t] = "woken"]
  /\ UNCHANGED <<ready, stack, threadVars, result, graphTaskVars, history>>

WaitReacquire(t) ==
  /\ phase[t] = "woken"
  /\ ~ mutex[t]
  /\ phase' = [phase EXCEPT ![t] = "checking"]
  /\ mutex' = [mutex EXCEPT ![t] = TRUE]
  /\ UNCHANGED <<ready, stack, threadVars, result, outstanding_tasks, has_error,
                 owner, dependencies, not_ready, captured_vars, history>>

ExecuteReturn(t) ==
  /\ phase[t] = "checking"
  /\ EndTask(t)
  /\ mutex' = [mutex EXCEPT ![t] = FALSE]
  /\ UNCHANGED <<ready, stack, threadVars, outstanding_tasks, has_error, owner,
                 dependencies, not_ready, captured_vars, history>>

(***************************************************************************)
(* Worker threads: Engine::thread_main().                                  *)
(***************************************************************************)

(* while (!graph_task || graph_task->outstanding_tasks > 0) *)
LoopContinue(w) ==
  /\ At(w, "loop")
  /\ Top(w).loop # NoTask => outstanding_tasks[Top(w).loop] > 0
  /\ Goto(w, "pop")
  /\ UNCHANGED <<ready, threadVars, callVars, graphTaskVars, history>>

(* The loop of a reentrant call ends, execute() returns into apply(). *)
LoopExit(w) ==
  /\ At(w, "loop")
  /\ Top(w).loop # NoTask
  /\ EndTask(Top(w).loop)
  /\ LET below == Len(stack[w]) - 1
     IN  stack' = [stack EXCEPT ![w] =
                     [SubSeq(@, 1, below) EXCEPT ![below].pc = "apply"]]
  /\ UNCHANGED <<ready, threadVars, graphTaskVars, history>>

(* Mutant: the test of `needed` comes before the captures. *)
FirstStep_swapped(x) ==
  IF x.fn = NullFn \/ has_error[x.base] THEN "owner"
  ELSE IF x.fn \in Needed[x.base] THEN "call"
  ELSE IF x.fn \in Outputs[x.base] THEN "capture"
  ELSE "owner"

(* evaluate_function() up to the mutex: where does the task go first? *)
FirstStep(x) ==
  IF x.fn = NullFn \/ has_error[x.base] THEN "owner"
  ELSE IF x.fn \in Outputs[x.base] THEN "capture"
  ELSE IF x.fn \in Needed[x.base] THEN "call"
  ELSE "owner"

(* Mutant: no affinity of threads to devices, a worker takes any task. *)
Pop_any_queue(w) ==
  /\ At(w, "pop")
  /\ \E v \in Workers : \E x \in HeapTop(v) :
       /\ ready' = [ready EXCEPT ![v] = @ \ {x}]
       /\ SetTop(w, [Top(w) EXCEPT !.base = x.base, !.fn = x.fn,
                                   !.inputs = x.inputs, !.pc = FirstStep(x)])
  /\ UNCHANGED <<threadVars, callVars, graphTaskVars, history>>

(* queue->pop() and the test of has_error, which only this worker's own    *)
(* next step depends on.                                                   *)
Pop(w) ==
  /\ At(w, "pop")
  /\ \E x \in HeapTop(w) :
       /\ ready' = [ready EXCEPT ![w] = @ \ {x}]
       /\ SetTop(w, [Top(w) EXCEPT !.base = x.base, !.fn = x.fn,
                                   !.inputs = x.inputs, !.pc = FirstStep(x)])
       /\ grad_mode' = [grad_mode EXCEPT ![w] =
            IF x.fn # NullFn /\ ~ has_error[x.base] THEN CreateGraph[x.base]
            ELSE @]
  /\ UNCHANGED <<checkpoint_valid, callVars, graphTaskVars, history>>

Capture(w) ==
  LET fr == Top(w) IN
  /\ At(w, "capture")
  /\ ~ mutex[fr.base]
  /\ captured_vars' = [captured_vars EXCEPT ![fr.base][fr.fn] = fr.inputs]
  /\ Goto(w, IF fr.fn \in Needed[fr.base] THEN "call" ELSE "owner")
  /\ UNCHANGED <<ready, threadVars, callVars, mutex, outstanding_tasks,
                 has_error, owner, dependencies, not_ready, history>>

(* call_function() moves the inputs out and enters the function. *)
CallFunction(w) ==
  LET fr == Top(w) IN
  /\ At(w, "call")
  /\ SetTop(w, [fr EXCEPT !.pc = "apply", !.inputs = {},
                          !.prev = checkpoint_valid[w]])
  /\ checkpoint_valid' = [checkpoint_valid EXCEPT ![w] =
                            ~ GradMode(fr.base) /\ @]
  /\ UNCHANGED <<ready, grad_mode, callVars, graphTaskVars, history>>

(* apply() calls Engine::execute(): the root is pushed before graph_task's *)
(* owner is set.                                                           *)
Reenter(w, t) ==
  /\ At(w, "apply")
  /\ Host[t] = Top(w).fn
  /\ StartTask(t)
  /\ phase' = [phase EXCEPT ![t] = "working"]
  /\ stack' = [stack EXCEPT ![w] =
       Append([@ EXCEPT ![Len(@)].pc = "nested"], EmptyFrame(t, "setowner"))]

(* Mutant: the owner is an index into ready_queues instead of a device. *)
SetOwner_index(w) ==
  LET t == Top(w).loop IN
  /\ At(w, "setowner")
  /\ owner' = [owner EXCEPT ![t] = w + 1]
  /\ mutex' = [mutex EXCEPT ![t] = FALSE]
  /\ Goto(w, "loop")
  /\ UNCHANGED <<ready, threadVars, callVars, outstanding_tasks, has_error,
                 dependencies, not_ready, captured_vars, history>>

(* graph_task.owner = worker_device; lock.unlock(); thread_main(&graph_task) *)
SetOwner(w) ==
  LET t == Top(w).loop IN
  /\ At(w, "setowner")
  /\ owner' = [owner EXCEPT ![t] = w]
  /\ mutex' = [mutex EXCEPT ![t] = FALSE]
  /\ Goto(w, "loop")
  /\ UNCHANGED <<ready, threadVars, callVars, outstanding_tasks, has_error,
                 dependencies, not_ready, captured_vars, history>>

(* The indices of the outputs that hold a defined gradient. *)
DefinedOutputs(t, f) ==
  IF AllowUndefined THEN SUBSET DOMAIN NextOf[t][f]
                    ELSE {DOMAIN NextOf[t][f]}

(* Mutant: checkpoint_valid is not restored. *)
ApplyReturn_no_restore(w) ==
  LET fr == Top(w) IN
  /\ At(w, "apply")
  /\ \E D \in DefinedOutputs(fr.base, fr.fn) :
       applied' = [applied EXCEPT ![fr.base][fr.fn] = {fr.fn} \X D]
  /\ Goto(w, IF NextOf[fr.base][fr.fn] = <<>> THEN "owner" ELSE "lock")
  /\ UNCHANGED <<ready, threadVars, callVars, graphTaskVars, dangling>>

(* The function returns, validate_outputs() accepts its gradients, and     *)
(* without outputs the mutex is not even acquired.                         *)
ApplyReturn(w) ==
  LET fr == Top(w) IN
  /\ At(w, "apply")
  /\ \E D \in DefinedOutputs(fr.base, fr.fn) :
       applied' = [applied EXCEPT ![fr.base][fr.fn] =
                     {fr.fn} \X D]
  /\ checkpoint_valid' = [checkpoint_valid EXCEPT ![w] = fr.prev]
  /\ Goto(w, IF NextOf[fr.base][fr.fn] = <<>> THEN "owner" ELSE "lock")
  /\ UNCHANGED <<ready, grad_mode, callVars, graphTaskVars, dangling>>

(* A function may throw by itself, or because a call of execute() it made  *)
(* threw.                                                                  *)
CanThrow(f) ==
  \/ f \in MayThrow
  \/ \E t \in Tasks : Host[t] = f /\ result[t] \in {"error", "incomplete"}

(* apply() or validate_outputs() throws: checkpoint_valid keeps the value  *)
(* of the failed call.  A post hook, or the NaN test of the anomaly mode,  *)
(* throws after it has been restored.                                      *)
ApplyThrow(w) ==
  /\ At(w, "apply")
  /\ CanThrow(Top(w).fn)
  /\ \/ UNCHANGED checkpoint_valid
     \/ checkpoint_valid' = [checkpoint_valid EXCEPT ![w] = Top(w).prev]
  /\ Goto(w, "except")
  /\ UNCHANGED <<ready, grad_mode, callVars, graphTaskVars, history>>

LockGraphTask(w) ==
  LET fr == Top(w) IN
  /\ At(w, "lock")
  /\ ~ mutex[fr.base]
  /\ mutex' = [mutex EXCEPT ![fr.base] = TRUE]
  /\ SetTop(w, [fr EXCEPT !.pc = "propagate", !.i = 1])
  /\ UNCHANGED <<ready, threadVars, callVars, outstanding_tasks, has_error,
                 owner, dependencies, not_ready, captured_vars, history>>

(* The loop body is done with output i: take the next one or unlock.  An   *)
(* exception leaves the loop, and unwinding frees the lock.                *)
AdvanceOutput(w, ok) ==
  LET fr   == Top(w)
      last == fr.i = Len(NextOf[fr.base][fr.fn])
  IN  /\ SetTop(w, IF ok /\ ~ last
                   THEN [fr EXCEPT !.i = @ + 1]
                   ELSE [fr EXCEPT !.i = 1,
                                   !.pc = IF ok THEN "owner" ELSE "except"])
      /\ mutex' = [mutex EXCEPT ![fr.base] = ok /\ ~ last]

(* Mutant: ready one gradient too early. *)
IsReady_early(t, f) == dependencies[t][f] <= 2

(* --it->second == 0 *)
IsReady(t, f) == dependencies[t][f] = 1

(* Mutant: a gradient replaces what the buffer holds. *)
BufferWith_overwrite(t, f, e) == {e} \cap applied[t][e[1]]

(* not_ready's buffer for f, or a new one, after the gradient on edge e    *)
(* has been added: InputBuffer::add() ignores an undefined gradient.       *)
BufferWith(t, f, e) ==
  (IF not_ready[t][f] = NoBuffer THEN {} ELSE not_ready[t][f])
    \cup ({e} \cap applied[t][e[1]])

(* An invalid edge is skipped. *)
PropagateInvalid(w) ==
  LET fr == Top(w) IN
  /\ At(w, "propagate")
  /\ NextOf[fr.base][fr.fn][fr.i] = NullFn
  /\ AdvanceOutput(w, TRUE)
  /\ UNCHANGED <<ready, threadVars, callVars, outstanding_tasks, has_error,
                 owner, dependencies, not_ready, captured_vars, history>>

(* The gradient on output i reaches the next function: count the           *)
(* dependency down, add to its buffer, and queue it when it was the last.  *)
(* A function that .grad() does not need gets no buffer; one without an    *)
(* entry in dependencies ends the loop with "dependency not found".        *)
Propagate(w) ==
  LET fr     == Top(w)
      t      == fr.base
      f      == NextOf[t][fr.fn][fr.i]
      buffer == BufferWith(t, f, <<fr.fn, fr.i>>)
      known  == dependencies[t][f] > 0
      skip   == \/ ~ known
                \/ not_ready[t][f] = NoBuffer /\ ~ should_execute(t, f)
  IN
  /\ At(w, "propagate")
  /\ f # NullFn
  /\ dependencies' = [dependencies EXCEPT ![t][f] = IF known THEN @ - 1 ELSE @]
  /\ \/ /\ skip
        /\ UNCHANGED <<ready, outstanding_tasks, not_ready>>
     \/ /\ ~ skip
        /\ IsReady(t, f)
        /\ Push(BufferDevice(t, f, buffer),
                [base |-> t, fn |-> f, inputs |-> buffer])
        /\ not_ready' = [not_ready EXCEPT ![t][f] = NoBuffer]
     \/ /\ ~ skip
        /\ ~ IsReady(t, f)
        /\ not_ready' = [not_ready EXCEPT ![t][f] = buffer]
        /\ UNCHANGED <<ready, outstanding_tasks>>
  /\ AdvanceOutput(w, known)
  /\ UNCHANGED <<threadVars, callVars, has_error, owner, captured_vars, history>>

(* Mutant: has_error is not set. *)
OnException_forgotten(w) ==
  LET fr == Top(w) IN
  /\ At(w, "except")
  /\ ~ mutex[fr.base]
  /\ Goto(w, "owner")
  /\ UNCHANGED <<ready, threadVars, callVars, graphTaskVars, history>>

(* thread_on_exception(): the first exception of the task is kept. *)
OnException(w) ==
  LET fr == Top(w) IN
  /\ At(w, "except")
  /\ ~ mutex[fr.base]
  /\ has_error' = [has_error EXCEPT ![fr.base] = TRUE]
  /\ Goto(w, "owner")
  /\ UNCHANGED <<ready, threadVars, callVars, mutex, outstanding_tasks, owner,
                 dependencies, not_ready, captured_vars, history>>

(* auto base_owner = task.base->owner, without any lock. *)
ReadOwner(w) ==
  LET fr == Top(w) IN
  /\ At(w, "owner")
  /\ SetTop(w, [fr EXCEPT !.pc = "decrement", !.base_owner = owner[fr.base]])
  /\ Access(fr.base)
  /\ UNCHANGED <<ready, threadVars, callVars, graphTaskVars, applied>>

(* Mutant: the owner of a reentrant call is left to find out by itself. *)
AfterDecrement_no_dummy(w, base_owner, left) ==
  IF left = 0 /\ base_owner = NO_DEVICE THEN "notify" ELSE "loop"

(* Who must hear that the counter has reached 0? *)
AfterDecrement(w, base_owner, left) ==
  IF left # 0 \/ base_owner = w THEN "loop"
  ELSE IF base_owner = NO_DEVICE THEN "notify"
  ELSE "dummy"

(* Mutant: a worker does not count down for a call of its own. *)
Decrement_own_skipped(w) ==
  LET fr   == Top(w)
      left == IF fr.base_owner = w THEN outstanding_tasks[fr.base]
              ELSE outstanding_tasks[fr.base] - 1
      pc   == AfterDecrement(w, fr.base_owner, left)
  IN
  /\ At(w, "decrement")
  /\ outstanding_tasks' = [outstanding_tasks EXCEPT ![fr.base] = left]
  /\ SetTop(w, IF pc = "loop" THEN EmptyFrame(fr.loop, "loop")
                              ELSE [fr EXCEPT !.pc = pc])
  /\ Access(fr.base)
  /\ UNCHANGED <<ready, threadVars, callVars, mutex, has_error, owner,
                 dependencies, not_ready, captured_vars, applied>>

(* --task.base->outstanding_tasks.  The FunctionTask goes out of scope     *)
(* unless there is somebody to tell.                                       *)
Decrement(w) ==
  LET fr   == Top(w)
      left == outstanding_tasks[fr.base] - 1
      pc   == AfterDecrement(w, fr.base_owner, left)
  IN
  /\ At(w, "decrement")
  /\ outstanding_tasks' = [outstanding_tasks EXCEPT ![fr.base] = left]
  /\ SetTop(w, IF pc = "loop" THEN EmptyFrame(fr.loop, "loop")
                              ELSE [fr EXCEPT !.pc = pc])
  /\ Access(fr.base)
  /\ UNCHANGED <<ready, threadVars, callVars, mutex, has_error, owner,
                 dependencies, not_ready, captured_vars, applied>>

(* not_done.notify_all() under the GraphTask's mutex. *)
Notify(w) ==
  LET fr == Top(w) IN
  /\ At(w, "notify")
  /\ ~ mutex[fr.base]
  /\ phase' = [phase EXCEPT ![fr.base] = IF @ = "waiting" THEN "woken" ELSE @]
  /\ SetTop(w, EmptyFrame(fr.loop, "loop"))
  /\ Access(fr.base)
  /\ UNCHANGED <<ready, threadVars, result, graphTaskVars, applied>>

(* An empty FunctionTask wakes the worker that owns the reentrant call. *)
PushDummy(w) ==
  LET fr == Top(w) IN
  /\ At(w, "dummy")
  /\ Push(fr.base_owner, [base |-> fr.base, fn |-> NullFn, inputs |-> {}])
  /\ SetTop(w, EmptyFrame(fr.loop, "loop"))
  /\ Access(fr.base)
  /\ UNCHANGED <<threadVars, callVars, mutex, has_error, owner, dependencies,
                 not_ready, captured_vars, applied>>

CallerStep(t) ==
  \/ Execute(t) \/ WaitCheck(t) \/ WaitBlock(t) \/ WaitReacquire(t)
  \/ ExecuteReturn(t) \/ SpuriousWakeup(t)

WorkerStep(w) ==
  \/ LoopContinue(w) \/ LoopExit(w) \/ Pop(w) \/ Capture(w) \/ CallFunction(w)
  \/ SetOwner(w) \/ ApplyReturn(w) \/ ApplyThrow(w) \/ LockGraphTask(w)
  \/ PropagateInvalid(w) \/ Propagate(w)
  \/ OnException(w) \/ ReadOwner(w) \/ Decrement(w) \/ Notify(w) \/ PushDummy(w)
  \/ \E t \in Tasks : Reenter(w, t)

Next ==
  \/ \E t \in Tasks : CallerStep(t)
  \/ \E w \in Workers : WorkerStep(w)

(***************************************************************************)
(* Threads that can run do run: detached std::threads under a preemptive   *)
(* scheduler, and functions that terminate.  A call need not be made, a    *)
(* function need not throw, and a condition variable wakes up by itself    *)
(* finitely often: a caller that did so for ever could keep the mutex from *)
(* the workers.                                                            *)
(***************************************************************************)
Fairness ==
  /\ \A t \in Tasks : WF_vars(WaitCheck(t) \/ WaitBlock(t) \/ WaitReacquire(t)
                              \/ ExecuteReturn(t))
  /\ \A w \in Workers : WF_vars(WorkerStep(w))
  /\ <>[][\A t \in Tasks : ~ SpuriousWakeup(t)]_vars

Spec == Init /\ [][Next]_vars
FairSpec == Spec /\ Fairness

-----------------------------------------------------------------------------
(***************************************************************************)
(* Properties.                                                             *)
(***************************************************************************)
TypeOK ==
  /\ ready \in [Workers -> SUBSET FunctionTask]
  /\ stack \in [Workers -> Seq(Frame)]
  /\ \A w \in Workers : Len(stack[w]) > 0
  /\ checkpoint_valid \in [Workers -> BOOLEAN]
  /\ grad_mode \in [Workers -> BOOLEAN]
  /\ phase \in [Tasks -> Phases]
  /\ result \in [Tasks -> {"none", "ok", "error", "incomplete"}]
  /\ mutex \in [Tasks -> BOOLEAN]
  /\ outstanding_tasks \in [Tasks -> Int]
  /\ has_error \in [Tasks -> BOOLEAN]
  /\ owner \in [Tasks -> Workers \cup {NO_DEVICE}]
  /\ dependencies \in [Tasks -> [Fns -> Nat]]
  /\ not_ready \in [Tasks -> [Fns -> Buffers]]
  /\ captured_vars \in [Tasks -> [Fns -> Buffers]]
  /\ applied \in [Tasks -> [Nodes -> Buffers]]
  /\ dangling \in BOOLEAN

(* The FunctionTasks of t that outstanding_tasks has to account for: the   *)
(* ones in a heap and the ones a thread_main() has popped and not yet      *)
(* counted down.                                                           *)
Handling == {"capture", "call", "apply", "nested", "lock", "propagate",
             "except", "owner", "decrement"}
Queued(t)  == UNION {{<<w, x>> : x \in {y \in ready[w] : y.base = t}} :
                       w \in Workers}
Handled(t) == UNION {{<<w, k>> : k \in {n \in DOMAIN stack[w] :
                                         /\ stack[w][n].base = t
                                         /\ stack[w][n].pc \in Handling}} :
                       w \in Workers}

(* CounterExact: GraphTask::outstanding_tasks is at all times the number   *)
(* of FunctionTasks of the call that are queued or being handled, in any   *)
(* queue and on any worker, at any depth of reentrant calls.               *)
CounterExact ==
  \A t \in Tasks :
     outstanding_tasks[t] = Cardinality(Queued(t)) + Cardinality(Handled(t))

(* PushedOnce: within one call a function is queued at most once, never    *)
(* while it still waits for gradients and never after it has been applied, *)
(* so dependencies[] lets exactly one of the racing workers queue it.      *)
PushedOnce ==
  \A t \in Tasks, f \in Fns :
    LET queued == {q \in Queued(t) : q[2].fn = f}
        popped == {h \in Handled(t) :
                     LET fr == stack[h[1]][h[2]]
                     IN  fr.fn = f /\ fr.pc \in {"capture", "call", "apply",
                                                "nested"}}
        copies == Cardinality(queued) + Cardinality(popped)
    IN  /\ copies <= 1
        /\ copies = 1 => dependencies[t][f] = 0 /\ applied[t][f] = NoBuffer

(* All functions that this call evaluates and that have an edge to f have  *)
(* been evaluated, and the buffer is the sum of all they sent to f.        *)
Senders(t, f) == {p \in Needed[t] : EdgesInto(NextOf[t], {p}, f) # {}}
Complete(t, f, buffer) ==
  /\ \A p \in Senders(t, f) : applied[t][p] # NoBuffer
  /\ buffer = UNION {EdgesInto(NextOf[t], {p}, f) \cap applied[t][p] :
                       p \in Senders(t, f)}

(* GradientComplete: a function is queued, and enters call_function(),     *)
(* only with the gradients of all its senders summed in its InputBuffer:   *)
(* none lost, none still on its way, whatever order the workers ran in.    *)
GradientComplete ==
  /\ \A w \in Workers : \A x \in ready[w] :
       x.fn # NullFn => Complete(x.base, x.fn, x.inputs)
  /\ \A w \in Workers : \A k \in 1 .. Len(stack[w]) :
       LET fr == stack[w][k]
       IN  fr.pc \in {"capture", "call"} => Complete(fr.base, fr.fn, fr.inputs)

(* ResultSound: execute() returns without an exception only when every     *)
(* function the call needs has been evaluated and every reachable output   *)
(* has been captured with its full gradient; "could not compute gradients  *)
(* for some functions" is never thrown.                                    *)
ResultSound ==
  \A t \in Tasks :
    /\ result[t] # "incomplete"
    /\ result[t] = "ok" =>
         /\ \A f \in Needed[t] : applied[t][f] # NoBuffer
         /\ \A f \in Outputs[t] \cap Reachable[t] :
              /\ captured_vars[t][f] # NoBuffer
              /\ Complete(t, f, captured_vars[t][f])

(* QuiescentReturn: once execute() has returned or thrown, no queue and no *)
(* worker holds a function of that call any more, also after an error.     *)
QuiescentReturn ==
  \A t \in Tasks : phase[t] = "returned" =>
    /\ \A q \in Queued(t) : q[2].fn = NullFn
    /\ \A h \in Handled(t) : stack[h[1]][h[2]].fn = NullFn

InApply(w, f) == \E k \in 1 .. Len(stack[w]) :
                    /\ stack[w][k].fn = f
                    /\ stack[w][k].pc \in {"apply", "nested"}

(* NoConcurrentApply: "a single function's apply will never be entered     *)
(* concurrently (even if multiple graphs are executed at the same time)":  *)
(* no two workers are inside the same function.                            *)
NoConcurrentApply ==
  \A f \in Fns : \A v, w \in Workers :
     InApply(v, f) /\ InApply(w, f) => v = w

(* CheckpointMeaning: checkpoint_valid "is true if ALL invocations in the  *)
(* stack of re-entrant engine invocations are imperative backwards".       *)
CheckpointMeaning ==
  \A w \in Workers :
    checkpoint_valid[w] =
      \A k \in 1 .. Len(stack[w]) :
         stack[w][k].pc \in {"apply", "nested"} => ~ GradMode(stack[w][k].base)

(* NoDangling: no worker reads or writes a GraphTask after the execute()   *)
(* call whose stack it lives on has returned.                              *)
NoDangling == ~ dangling

(* EveryCallReturns: a call of execute(), reentrant or not, returns or     *)
(* throws: the wake-up through not_done or through the empty FunctionTask  *)
(* is never lost and no set of workers waits for each other.               *)
EveryCallReturns ==
  \A t \in Tasks : phase[t] # "idle" ~> phase[t] = "returned"

(***************************************************************************)
(* Refinement: seen through these two functions, the engine is a           *)
(* BackwardPass.                                                           *)
(***************************************************************************)
Status(t) ==
  IF phase[t] = "idle" THEN "idle"
  ELSE IF phase[t] = "returned"
       THEN IF result[t] = "error" THEN "failed" ELSE result[t]
  ELSE IF has_error[t] THEN "failing"
  ELSE "running"

Abstract ==
  INSTANCE BackwardPass WITH
    status <- [t \in Tasks |-> Status(t)],
    done   <- [t \in Tasks |-> {f \in Nodes : applied[t][f] # NoBuffer}]

(* ImplementsBackwardPass: every step of the worker threads and callers is *)
(* a step of the abstract call, or none: a function is evaluated once, in  *)
(* dependency order, for a call that has started and not ended, and        *)
(* execute() ends the way the abstract call does, and does end.            *)
ImplementsBackwardPass == Abstract!FairSpec
=============================================================================
