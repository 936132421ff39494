--------------------------- MODULE FinalCallbacks ---------------------------
(***************************************************************************)
(* Engine::final_callbacks (torch/csrc/autograd/engine.cpp): functions     *)
(* queued with queue_callback() during a backward pass, which execute()    *)
(* calls before it returns.  There is one vector for the whole process,    *)
(* and execute() may run in several threads and inside itself.             *)
(*                                                                         *)
(* What a backward pass does otherwise is in AutogradEngine; here it is    *)
(* the time between Enter and BackwardDone or BackwardFails.               *)
(***************************************************************************)
EXTENDS Naturals, Sequences, FiniteSets

CONSTANTS
  Runs,          (* calls of execute()                                      *)
  Outer,         (* the run that makes a call from a function or callback   *)
  NoRun,         (* Outer of a call made by a thread of its own             *)
  Overlap,       (* may two threads be inside execute() at the same time?   *)
  MaxCallbacks   (* bound on the callbacks queued for one run               *)

ASSUME RunsAssumption ==
  /\ NoRun \notin Runs
  /\ Outer \in [Runs -> Runs \cup {NoRun}]
  /\ Overlap \in BOOLEAN
  /\ MaxCallbacks \in Nat

VARIABLES
  final_callbacks, (* a callback is <<run, n>>, the n-th queued for the run *)
  pc, i,           (* of every call: where it is, the index of its loop     *)
  queued,          (* how many callbacks have been queued for the run       *)
  called           (* history: the calls of the callbacks queued for a run, *)
                   (* as <<caller, n>> in the order they were made          *)

vars == <<final_callbacks, pc, i, queued, called>>

Ended  == {"returned", "threw"}
Active == {r \in Runs : pc[r] \notin {"idle"} \cup Ended}
Goto(r, where) == pc' = [pc EXCEPT ![r] = where]

Init ==
  /\ final_callbacks = <<>>
  /\ pc = [r \in Runs |-> "idle"]
  /\ i = [r \in Runs |-> 1]
  /\ queued = [r \in Runs \cup {NoRun} |-> 0]
  /\ called = [r \in Runs \cup {NoRun} |-> <<>>]

(* Mutant: only the destructor clears. *)
Enter_no_clear(r) ==
  /\ pc[r] = "idle"
  /\ IF Outer[r] = NoRun THEN Overlap \/ Active = {}
                         ELSE pc[Outer[r]] \in {"backward", "callback"}
  /\ Goto(r, "backward")
  /\ UNCHANGED <<final_callbacks, i, queued, called>>

(* execute() starts: ClearCallbacks' constructor. *)
Enter(r) ==
  /\ pc[r] = "idle"
  /\ IF Outer[r] = NoRun THEN Overlap \/ Active = {}
                         ELSE pc[Outer[r]] \in {"backward", "callback"}
  /\ final_callbacks' = <<>>
  /\ Goto(r, "backward")
  /\ UNCHANGED <<i, queued, called>>

(* No call made from inside r is under way. *)
NoInner(r) == \A s \in Active : Outer[s] # r

(* The run still looks at the vector: its loop has not been left. *)
Listening(r) == pc[r] \in {"backward", "loop", "call", "callback"}

(* Engine::queue_callback(): for a run, by one of its functions or         *)
(* callbacks or by any other thread until its loop is left; or for none, r *)
(* being NoRun, by a thread when no run is under way or the one that is    *)
(* has left its loop and not yet cleared the vector.                       *)
queue_callback(r) ==
  /\ IF r = NoRun THEN \A s \in Active : ~ Listening(s) ELSE Listening(r)
  /\ queued[r] < MaxCallbacks
  /\ queued' = [queued EXCEPT ![r] = @ + 1]
  /\ final_callbacks' = Append(final_callbacks, <<r, queued[r] + 1>>)
  /\ UNCHANGED <<pc, i, called>>

(* execute() rethrows: only ClearCallbacks' destructor runs. *)
BackwardFails(r) ==
  /\ pc[r] = "backward"
  /\ NoInner(r)
  /\ final_callbacks' = <<>>
  /\ Goto(r, "threw")
  /\ UNCHANGED <<i, queued, called>>

BackwardDone(r) ==
  /\ pc[r] = "backward"
  /\ NoInner(r)
  /\ Goto(r, "loop")
  /\ UNCHANGED <<final_callbacks, i, queued, called>>

(* Mutant: the last callback is left out. *)
LoopTest_short(r) ==
  /\ pc[r] = "loop"
  /\ Goto(r, IF i[r] < Len(final_callbacks) THEN "call" ELSE "clear")
  /\ UNCHANGED <<final_callbacks, i, queued, called>>

(* The loop condition, with post_callbacks_lock held, and the unlock. *)
LoopTest(r) ==
  /\ pc[r] = "loop"
  /\ Goto(r, IF i[r] <= Len(final_callbacks) THEN "call" ELSE "clear")
  /\ UNCHANGED <<final_callbacks, i, queued, called>>

(* final_callbacks[i](), without the lock.  Past the end of the vector     *)
(* there is nothing to call: that index is undefined behaviour.  So is an  *)
(* append that moves the vector while the element is found or executes;    *)
(* the model has one outcome of it, the call of this element.              *)
Call(r) ==
  /\ pc[r] = "call"
  /\ i[r] <= Len(final_callbacks)
  /\ LET callback == final_callbacks[i[r]]
     IN  called' = [called EXCEPT ![callback[1]] = Append(@, <<r, callback[2]>>)]
  /\ Goto(r, "callback")
  /\ UNCHANGED <<final_callbacks, i, queued>>

CallbackReturns(r) ==
  /\ pc[r] = "callback"
  /\ NoInner(r)
  /\ i' = [i EXCEPT ![r] = @ + 1]
  /\ Goto(r, "loop")
  /\ UNCHANGED <<final_callbacks, queued, called>>

(* A callback throws: the destructor clears on the way out. *)
CallbackThrows(r) ==
  /\ pc[r] = "callback"
  /\ NoInner(r)
  /\ final_callbacks' = <<>>
  /\ Goto(r, "threw")
  /\ UNCHANGED <<i, queued, called>>

(* The loop has released the lock, the destructor takes it again. *)
Clear(r) ==
  /\ pc[r] = "clear"
  /\ final_callbacks' = <<>>
  /\ Goto(r, "returned")
  /\ UNCHANGED <<i, queued, called>>

Next ==
  \/ \E r \in Runs \cup {NoRun} : queue_callback(r)
  \/ \E r \in Runs :
       \/ Enter(r) \/ BackwardFails(r) \/ BackwardDone(r) \/ LoopTest(r)
       \/ Call(r) \/ CallbackReturns(r) \/ CallbackThrows(r) \/ Clear(r)

Spec == Init /\ [][Next]_vars

-----------------------------------------------------------------------------
Callback == (Runs \cup {NoRun}) \X (1 .. MaxCallbacks)

TypeOK ==
  /\ final_callbacks \in Seq(Callback)
  /\ pc \in [Runs -> {"idle", "backward", "loop", "call", "callback", "clear"}
                     \cup Ended]
  /\ i \in [Runs -> 1 .. (MaxCallbacks + 1)]
  /\ queued \in [Runs \cup {NoRun} -> 0 .. MaxCallbacks]
  /\ called \in [Runs \cup {NoRun} -> Seq(Runs \X (1 .. MaxCallbacks))]

(* CallbacksRun: when execute() returns without an exception, every        *)
(* callback queued before its loop found the vector exhausted, by the      *)
(* run's functions, by its callbacks or by other threads "while it's       *)
(* waiting", has been called exactly once and in the order it was queued.  *)
CallbacksRun ==
  \A r \in Runs : pc[r] = "returned" =>
    called[r] = [n \in 1 .. queued[r] |-> <<r, n>>]

(* OwnCallbacksOnly: "Callbacks are only valid for the duration of this    *)
(* run": no run calls what was queued for another one or for none, not     *)
(* even what a run that threw has left behind, or what a thread queued     *)
(* between the end of the last run's loop and its ClearCallbacks.          *)
OwnCallbacksOnly ==
  \A r \in Runs \cup {NoRun} : \A n \in 1 .. Len(called[r]) :
    called[r][n][1] = r
=============================================================================
