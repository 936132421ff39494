---------------------------- MODULE BackwardPass ----------------------------
(***************************************************************************)
(* What a call of Engine::execute() promises, without devices, queues,     *)
(* locks or threads: every function of the call is evaluated at most once  *)
(* and only after everything that sends it a gradient; the call returns    *)
(* only when all of them have been evaluated, or throws because one threw. *)
(***************************************************************************)
EXTENDS FiniteSets, EngineGraph

CONSTANTS
  Tasks,     (* calls of execute()                                          *)
  NextOf,    (* the graph each of them works on, as in EngineGraph          *)
  Needed     (* the functions each of them evaluates                        *)

VARIABLES
  status,    (* of each call                                                *)
  done       (* the functions each call has evaluated                       *)

vars == <<status, done>>

Senders(t, f) == {p \in Needed[t] : EdgesInto(NextOf[t], {p}, f) # {}}

Init ==
  /\ status = [t \in Tasks |-> "idle"]
  /\ done = [t \in Tasks |-> {}]

Start(t) ==
  /\ status[t] = "idle"
  /\ status' = [status EXCEPT ![t] = "running"]
  /\ UNCHANGED done

(* Functions already queued when another one throws may still run. *)
Evaluate(t, f) ==
  /\ status[t] \in {"running", "failing"}
  /\ f \notin done[t]
  /\ Senders(t, f) \subseteq done[t]
  /\ done' = [done EXCEPT ![t] = @ \cup {f}]
  /\ UNCHANGED status

(* A function that could be evaluated throws. *)
Throw(t) ==
  /\ status[t] = "running"
  /\ \E f \in Needed[t] \ done[t] : Senders(t, f) \subseteq done[t]
  /\ status' = [status EXCEPT ![t] = "failing"]
  /\ UNCHANGED done

Finish(t) ==
  /\ status[t] = "running"
  /\ Needed[t] \subseteq done[t]
  /\ status' = [status EXCEPT ![t] = "ok"]
  /\ UNCHANGED done

Fail(t) ==
  /\ status[t] = "failing"
  /\ status' = [status EXCEPT ![t] = "failed"]
  /\ UNCHANGED done

Progress(t) ==
  \/ \E f \in Needed[t] : Evaluate(t, f)
  \/ Throw(t) \/ Finish(t) \/ Fail(t)

Next == \E t \in Tasks : Start(t) \/ Progress(t)

Spec     == Init /\ [][Next]_vars
FairSpec == Spec /\ \A t \in Tasks : WF_vars(Progress(t))
=============================================================================
