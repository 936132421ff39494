--------------------------- MODULE GraphTaskInit ---------------------------
(***************************************************************************)
(* The two graph traversals Engine::execute() makes before it queues the   *)
(* root: Engine::compute_dependencies and GraphTask::init_to_execute, as   *)
(* the loops they are in torch/csrc/autograd/engine.cpp.  EngineGraph      *)
(* defines what they should compute.                                       *)
(*                                                                         *)
(* The graph is chosen in Init among all graphs of N functions with at     *)
(* most MaxEdges edges each.  Functions are numbered so that edges lead to *)
(* larger numbers, which every acyclic graph allows; 0 is the GraphRoot.   *)
(***************************************************************************)
EXTENDS Integers, Sequences, FiniteSets, SequencesExt, EngineGraph

CONSTANTS
  N,          (* number of functions                                        *)
  MaxEdges,   (* most next_edges of a function, and most roots              *)
  NullFn,     (* the function of an invalid edge                            *)
  NullOutput  (* may an output edge be invalid?  THPEngine_run_backward     *)
              (* passes one for a leaf that is part of no graph             *)

ASSUME SizeAssumption ==
  /\ N \in Nat /\ MaxEdges \in Nat
  /\ NullFn \notin Nat
  /\ NullOutput \in BOOLEAN

GraphRoot == 0
Fns       == 1 .. N
Nodes     == 0 .. N

VARIABLES
  next,         (* next_edges of every node                                 *)
  outputs,      (* functions of the output edges: {} for backward()         *)
  pc,
  queue, dependencies,
  seen,         (* the set `seen` of the traversal that is running          *)
  roots_done,   (* position of the loop over graph_root.next_edges()        *)
  stack,        (* frames of the depth-first search: fn, next_next_fn       *)
  needed        (* functions with exec_info[f].needed                       *)

graph == <<next, outputs>>
vars  == <<graph, pc, queue, dependencies, seen, roots_done, stack, needed>>

Graphs ==
  {g \in [Nodes -> BoundedSeq(Fns \cup {NullFn}, MaxEdges)] :
     /\ NullFn \notin Range(g[GraphRoot])
     /\ \A f \in Nodes : \A h \in Range(g[f]) \ {NullFn} : f < h}

Init ==
  /\ next \in Graphs
  /\ outputs \in SUBSET (IF NullOutput THEN Fns \cup {NullFn} ELSE Fns)
  /\ pc = "dependencies"
  /\ queue = {GraphRoot}
  /\ dependencies = [f \in Fns |-> 0]
  /\ seen = {}
  /\ roots_done = 0
  /\ stack = <<>>
  /\ needed = {}

(***************************************************************************)
(* compute_dependencies().  The order in which the vector gives back its   *)
(* elements does not matter, so queue is a set.                            *)
(***************************************************************************)

(* Mutant: a function that has been seen before is not counted again. *)
Expand_count_new(fn) ==
  /\ pc = "dependencies"
  /\ fn \in queue
  /\ dependencies' = [f \in Fns |-> dependencies[f] +
       IF f \in seen THEN 0 ELSE Cardinality(EdgesInto(next, {fn}, f))]
  /\ seen' = seen \cup Successors(next, {fn})
  /\ queue' = (queue \ {fn}) \cup (Successors(next, {fn}) \ seen)
  /\ UNCHANGED <<graph, pc, roots_done, stack, needed>>

(* One iteration of the while loop, with the loop over fn's edges. *)
Expand(fn) ==
  /\ pc = "dependencies"
  /\ fn \in queue
  /\ dependencies' = [f \in Fns |->
       dependencies[f] + Cardinality(EdgesInto(next, {fn}, f))]
  /\ seen' = seen \cup Successors(next, {fn})
  /\ queue' = (queue \ {fn}) \cup (Successors(next, {fn}) \ seen)
  /\ UNCHANGED <<graph, pc, roots_done, stack, needed>>

(* Only .grad() goes on to init_to_execute(), which marks the root and     *)
(* records the captures.                                                   *)
StartSearch ==
  /\ pc = "dependencies"
  /\ queue = {}
  /\ pc' = IF outputs = {} THEN "done" ELSE "search"
  /\ seen' = {}
  /\ needed' = IF outputs = {} THEN {} ELSE {GraphRoot}
  /\ UNCHANGED <<graph, queue, dependencies, roots_done, stack>>

(***************************************************************************)
(* init_to_execute()                                                       *)
(***************************************************************************)
Frame(fn) == [fn |-> fn, next_next_fn |-> 1]

(* for (input : graph_root.next_edges()): a root is not put into seen. *)
NextRoot ==
  /\ pc = "search"
  /\ stack = <<>>
  /\ roots_done < Len(next[GraphRoot])
  /\ LET fn == next[GraphRoot][roots_done + 1]
     IN  stack' = IF fn \in seen THEN <<>> ELSE <<Frame(fn)>>
  /\ roots_done' = roots_done + 1
  /\ UNCHANGED <<graph, pc, queue, dependencies, seen, needed>>

(* get_next_fn(): the valid edges that the top frame has not taken yet. *)
EdgesLeft ==
  LET top == Last(stack)
  IN  {i \in DOMAIN next[top.fn] : /\ i >= top.next_next_fn
                                   /\ next[top.fn][i] # NullFn}

(* Mutant: next_next_fn does not advance. *)
Descend_same_edge ==
  /\ stack # <<>>
  /\ EdgesLeft # {}
  /\ LET top == Last(stack)
         i   == CHOOSE m \in EdgesLeft : \A n \in EdgesLeft : m <= n
         fn  == next[top.fn][i]
     IN  /\ seen' = seen \cup {fn}
         /\ stack' = IF fn \in seen THEN stack ELSE Append(stack, Frame(fn))
  /\ UNCHANGED <<graph, pc, queue, dependencies, roots_done, needed>>

(* The next function is entered when it has not been seen. *)
Descend ==
  /\ stack # <<>>
  /\ EdgesLeft # {}
  /\ LET top  == Last(stack)
         i    == CHOOSE m \in EdgesLeft : \A n \in EdgesLeft : m <= n
         fn   == next[top.fn][i]
         rest == Append(Front(stack), [top EXCEPT !.next_next_fn = i + 1])
     IN  /\ seen' = seen \cup {fn}
         /\ stack' = IF fn \in seen THEN rest ELSE Append(rest, Frame(fn))
  /\ UNCHANGED <<graph, pc, queue, dependencies, roots_done, needed>>

(* Mutant: captures do not count as a reason to execute a function. *)
Leave_no_captures ==
  /\ stack # <<>>
  /\ EdgesLeft = {}
  /\ LET fn == Last(stack).fn
     IN  needed' = IF Range(next[fn]) \cap needed # {}
                   THEN needed \cup {fn} ELSE needed \ {fn}
  /\ stack' = Front(stack)
  /\ UNCHANGED <<graph, pc, queue, dependencies, seen, roots_done>>

(* No function is left: should_execute() of any next function decides.  An *)
(* invalid edge is looked up in exec_info like any other.                  *)
Leave ==
  /\ stack # <<>>
  /\ EdgesLeft = {}
  /\ LET fn == Last(stack).fn
     IN  needed' = IF Range(next[fn]) \cap (needed \cup outputs) # {}
                   THEN needed \cup {fn} ELSE needed \ {fn}
  /\ stack' = Front(stack)
  /\ UNCHANGED <<graph, pc, queue, dependencies, seen, roots_done>>

EndSearch ==
  /\ pc = "search"
  /\ stack = <<>>
  /\ roots_done = Len(next[GraphRoot])
  /\ pc' = "done"
  /\ UNCHANGED <<graph, queue, dependencies, seen, roots_done, stack, needed>>

Next ==
  \/ \E fn \in queue : Expand(fn)
  \/ StartSearch \/ NextRoot \/ Descend \/ Leave \/ EndSearch

Spec     == Init /\ [][Next]_vars
FairSpec == Spec /\ WF_vars(Next)

-----------------------------------------------------------------------------
TypeOK ==
  /\ pc \in {"dependencies", "search", "done"}
  /\ queue \subseteq Nodes
  /\ dependencies \in [Fns -> Nat]
  /\ seen \subseteq Fns
  /\ roots_done \in 0 .. Len(next[GraphRoot])
  /\ stack \in Seq([fn : Fns, next_next_fn : Nat])
  /\ needed \subseteq Nodes

(* DependenciesExact: compute_dependencies() counts every edge of the part *)
(* of the graph the root reaches exactly once, however often and from      *)
(* wherever a function is reached.                                         *)
DependenciesExact ==
  pc # "dependencies" =>
    \A f \in Fns : dependencies[f] = Dependencies(next, GraphRoot)[f]

(* NeededExact: exec_info[f].needed is what the comment in                 *)
(* init_to_execute() defines by recursion: some path leads from f to a     *)
(* function whose input is captured.                                       *)
NeededExact ==
  pc = "done" /\ outputs # {} =>
    needed = NeededFor(next, GraphRoot, outputs \cap Fns)

(* Terminates: both traversals end on every graph. *)
Terminates == <>(pc = "done")
=============================================================================
