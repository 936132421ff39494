------------------------ MODULE GraphTaskInitProofs ------------------------
(***************************************************************************)
(* Engine::compute_dependencies and GraphTask::init_to_execute compute     *)
(* what EngineGraph defines, for graphs of every size: the counts that     *)
(* decide when a function is ready are exact, and exactly the functions    *)
(* with a path to a captured input are marked as needed.                   *)
(***************************************************************************)
EXTENDS GraphTaskInit, FiniteSetTheorems, WellFoundedInduction, TLAPS

Reached == Closure(next, {GraphRoot})

GraphInv == next \in Graphs /\ outputs \subseteq Fns \cup {NullFn}

(* The functions whose edges compute_dependencies() has counted. *)
Expanded == (seen \cup {GraphRoot}) \ queue

(* While it runs, their edges are counted and lead to what has been seen. *)
CountInv ==
  /\ queue \subseteq seen \cup {GraphRoot}
  /\ seen \subseteq Reached
  /\ Successors(next, Expanded) \subseteq seen
  /\ \A f \in Fns : dependencies[f] = Cardinality(EdgesInto(next, Expanded, f))
  /\ roots_done = 0 /\ stack = <<>> /\ needed = {}

(* The search has entered what it has seen and the roots it has come to,   *)
(* and left what is not on the stack any more.  A root that is reached     *)
(* from another function later is entered a second time.                   *)
Entered == seen \cup {next[GraphRoot][m] : m \in 1 .. roots_done}
OnStack == {stack[k].fn : k \in 1 .. Len(stack)}
Left    == Entered \ OnStack

(* Some path of at least one edge leads from f to a captured function. *)
LeadsToOutput(f) == Closure(next, Successors(next, {f})) \cap outputs # {}

(* The stack is a path downwards, and each of its functions has entered    *)
(* the edges before next_next_fn.                                          *)
StackInv ==
  /\ OnStack \subseteq Entered
  /\ \A j, k \in 1 .. Len(stack) : j < k => stack[j].fn < stack[k].fn
  /\ \A k \in 1 .. Len(stack) : \A m \in DOMAIN next[stack[k].fn] :
       m < stack[k].next_next_fn /\ next[stack[k].fn][m] # NullFn =>
         next[stack[k].fn][m] \in seen

(* A function the search has left has its final mark, and so has           *)
(* everything below it.                                                    *)
LeftInv ==
  /\ \A f \in Left : Successors(next, {f}) \subseteq seen
  /\ \A f \in Left : f \in needed <=> LeadsToOutput(f)
  /\ needed \subseteq Entered \cup {GraphRoot}
  /\ GraphRoot \in needed
  /\ Entered \subseteq Reached

InitInv ==
  /\ TypeOK
  /\ GraphInv
  /\ pc = "dependencies" => CountInv
  /\ DependenciesExact
  /\ pc # "search" => stack = <<>>
  /\ pc = "search" => StackInv

NeededInv ==
  /\ outputs \subseteq Fns
  /\ pc = "search" => LeftInv
  /\ NeededExact

-----------------------------------------------------------------------------
(* What Graphs says of a graph. *)
LEMMA GraphFacts ==
  ASSUME next \in Graphs
  PROVE  /\ DOMAIN next = Nodes
         /\ \A f \in Nodes :
              /\ Len(next[f]) \in 0 .. MaxEdges
              /\ DOMAIN next[f] = 1 .. Len(next[f])
              /\ next[f] \in [1 .. Len(next[f]) -> Fns \cup {NullFn}]
         /\ \A m \in DOMAIN next[GraphRoot] : next[GraphRoot][m] \in Fns
         /\ \A f \in Nodes : \A m \in DOMAIN next[f] :
              next[f][m] # NullFn => next[f][m] \in Fns /\ f < next[f][m]
<1>1. next \in [Nodes -> BoundedSeq(Fns \cup {NullFn}, MaxEdges)]
  BY DEF Graphs
<1>2. ASSUME NEW f \in Nodes
      PROVE  /\ Len(next[f]) \in 0 .. MaxEdges
             /\ DOMAIN next[f] = 1 .. Len(next[f])
             /\ next[f] \in [1 .. Len(next[f]) -> Fns \cup {NullFn}]
  <2>1. next[f] \in UNION {[1 .. m -> Fns \cup {NullFn}] : m \in 0 .. MaxEdges}
    BY <1>1 DEF BoundedSeq, SeqOf
  <2>2. PICK n \in 0 .. MaxEdges : next[f] \in [1 .. n -> Fns \cup {NullFn}]
    BY <2>1
  <2>3. n \in Nat /\ next[f] \in Seq(Fns \cup {NullFn}) /\ Len(next[f]) = n
    BY <2>2, SizeAssumption
  <2> QED BY <2>2, <2>3
<1>3. GraphRoot \in Nodes BY SizeAssumption DEF GraphRoot, Nodes
<1>4. \A m \in DOMAIN next[GraphRoot] : next[GraphRoot][m] \in Fns
  BY <1>2, <1>3 DEF Graphs, Range
<1>5. ASSUME NEW f \in Nodes, NEW m \in DOMAIN next[f], next[f][m] # NullFn
      PROVE  next[f][m] \in Fns /\ f < next[f][m]
  <2>1. next[f][m] \in Range(next[f]) \ {NullFn} BY <1>5 DEF Range
  <2> QED BY <1>2, <2>1 DEF Graphs
<1> QED BY <1>1, <1>2, <1>4, <1>5

(* An edge of p is valid when it leads to a function. *)
LEMMA SuccessorsOf ==
  ASSUME next \in Graphs, NEW f \in Nodes
  PROVE  /\ Successors(next, {f}) \subseteq Fns
         /\ \A g \in Successors(next, {f}) : f < g /\ g \in Range(next[f])
         /\ \A m \in DOMAIN next[f] :
              next[f][m] # NullFn => next[f][m] \in Successors(next, {f})
         /\ \A g : g \in Range(next[f]) /\ g # NullFn => g \in Successors(next, {f})
<1>1. DOMAIN next = Nodes /\ Fns \subseteq Nodes
  BY GraphFacts, SizeAssumption DEF Fns, Nodes
<1>2. ASSUME NEW g \in Successors(next, {f})
      PROVE  g \in Fns /\ f < g /\ g \in Range(next[f])
  <2>1. g \in Nodes /\ \E m \in DOMAIN next[f] : g = next[f][m]
    BY <1>1, SuccessorsMember
  <2>2. g # NullFn BY <2>1, SizeAssumption DEF Nodes
  <2> QED BY <2>1, <2>2, GraphFacts DEF Range
<1>3. ASSUME NEW m \in DOMAIN next[f], next[f][m] # NullFn
      PROVE  next[f][m] \in Successors(next, {f})
  <2>1. next[f][m] \in Nodes BY <1>1, <1>3, GraphFacts
  <2> QED BY <1>1, <2>1, SuccessorsMember
<1> QED BY <1>2, <1>3 DEF Range

(* There are finitely many edges. *)
LEMMA EdgesFinite ==
  ASSUME next \in Graphs, NEW P, NEW f
  PROVE  IsFiniteSet(EdgesInto(next, P, f))
<1>1. IsFiniteSet(Nodes) /\ IsFiniteSet(1 .. MaxEdges)
  BY FS_Interval, SizeAssumption DEF Nodes
<1>2. IsFiniteSet(Nodes \X (1 .. MaxEdges)) BY <1>1, FS_Product
<1>3. EdgesInto(next, P, f) \subseteq Nodes \X (1 .. MaxEdges)
  <2> SUFFICES ASSUME NEW e \in EdgesOf(next, P)
               PROVE  e \in Nodes \X (1 .. MaxEdges)
    BY DEF EdgesInto
  <2>1. PICK p \in P \cap DOMAIN next : e \in {p} \X DOMAIN next[p]
    BY DEF EdgesOf
  <2>2. p \in Nodes BY GraphFacts
  <2>3. DOMAIN next[p] \subseteq 1 .. MaxEdges
    <3>1. /\ Len(next[p]) \in 0 .. MaxEdges /\ MaxEdges \in Nat
          /\ DOMAIN next[p] = 1 .. Len(next[p])
      BY <2>2, GraphFacts, SizeAssumption
    <3> QED BY <3>1
  <2> QED BY <2>1, <2>2, <2>3
<1> QED BY <1>2, <1>3, FS_Subset

(* The edges of one more function are edges that were not counted before. *)
LEMMA EdgesOfOneMore ==
  ASSUME next \in Graphs, NEW P, NEW p, p \notin P, NEW f
  PROVE  Cardinality(EdgesInto(next, P \cup {p}, f)) =
           Cardinality(EdgesInto(next, P, f)) + Cardinality(EdgesInto(next, {p}, f))
<1> DEFINE A == EdgesInto(next, P, f)
           B == EdgesInto(next, {p}, f)
<1>1. EdgesInto(next, P \cup {p}, f) = A \cup B BY DEF EdgesInto, EdgesOf
<1>2. A \cap B = {}
  <2> SUFFICES ASSUME NEW e \in A, e \in B PROVE FALSE OBVIOUS
  <2>1. e[1] \in P BY DEF EdgesInto, EdgesOf
  <2>2. e[1] = p BY DEF EdgesInto, EdgesOf
  <2> QED BY <2>1, <2>2
<1>3. IsFiniteSet(A) /\ IsFiniteSet(B) BY EdgesFinite
<1> HIDE DEF A, B
<1>4. /\ Cardinality(A \cup B) =
           Cardinality(A) + Cardinality(B) - Cardinality(A \cap B)
      /\ Cardinality(A) \in Nat /\ Cardinality(B) \in Nat
  BY <1>3, FS_Union, FS_CardinalityType
<1>5. Cardinality(A \cap B) = 0 BY <1>2, FS_EmptySet
<1>6. Cardinality(A \cup B) = Cardinality(A) + Cardinality(B) BY <1>4, <1>5
<1> QED BY <1>1, <1>6 DEF A, B

(* What the root reaches holds the successors of what it holds. *)
LEMMA ReachedFacts ==
  ASSUME next \in Graphs
  PROVE  /\ GraphRoot \in Reached /\ Reached \subseteq Nodes
         /\ \A f \in Reached : Successors(next, {f}) \subseteq Reached
         /\ \A S \in SUBSET Nodes :
              GraphRoot \in S /\ (\A f \in S : Successors(next, {f}) \subseteq S) =>
                Reached \subseteq S
<1>1. DOMAIN next = Nodes /\ GraphRoot \in Nodes
  BY GraphFacts, SizeAssumption DEF GraphRoot, Nodes
<1>2. /\ GraphRoot \in Reached /\ Reached \subseteq Nodes
      /\ Successors(next, Reached) \subseteq Reached
      /\ \A S \in Closed(next, {GraphRoot}) : Reached \subseteq S
  BY <1>1, ClosureFacts DEF Reached
<1>3. ASSUME NEW f \in Reached PROVE Successors(next, {f}) \subseteq Reached
  <2>1. Successors(next, {f}) \subseteq Successors(next, Reached)
    BY SuccessorsMember
  <2> QED BY <1>2, <2>1
<1>4. ASSUME NEW S \in SUBSET Nodes, GraphRoot \in S,
             \A f \in S : Successors(next, {f}) \subseteq S
      PROVE  Reached \subseteq S
  <2>1. ASSUME NEW g \in Successors(next, S) PROVE g \in S
    <3>1. PICK p \in S \cap DOMAIN next :
            g \in DOMAIN next /\ \E m \in DOMAIN next[p] : g = next[p][m]
      BY SuccessorsMember
    <3>2. g \in Successors(next, {p}) BY <3>1, SuccessorsMember
    <3> QED BY <1>4, <3>2
  <2>2. S \in Closed(next, {GraphRoot}) BY <1>1, <1>4, <2>1 DEF Closed
  <2> QED BY <1>2, <2>2
<1> QED BY <1>2, <1>3, <1>4

(* The least element of a set of numbers. *)
LEMMA MinExists ==
  ASSUME NEW S \in SUBSET Nat, S # {}
  PROVE  \E m \in S : \A k \in S : m <= k
<1> DEFINE R == {ss \in Nat \X Nat : ss[1] < ss[2]}
<1>1. R = OpToRel(<, Nat)
  BY Zenon DEF OpToRel
<1>2. IsWellFoundedOn(R, Nat)
  BY <1>1, NatLessThanWellFounded, Zenon
<1> HIDE DEF R
<1>3. PICK m \in S : \A y \in S : ~ (<<y, m>> \in R)
  BY <1>2, WFMin
<1>4. \A k \in S : ~ (k < m) BY <1>3 DEF R
<1> QED BY <1>3, <1>4

(* compute_dependencies() starts with the root alone. *)
LEMMA InitInit == Init => InitInv
<1> SUFFICES ASSUME Init PROVE InitInv OBVIOUS
<1>1. GraphInv BY DEF Init, GraphInv
<1>2. next \in Graphs BY DEF Init
<1>3. GraphRoot \in Nodes /\ Len(next[GraphRoot]) \in Nat
  BY <1>2, GraphFacts, SizeAssumption DEF GraphRoot, Nodes
<1>4. TypeOK BY <1>3 DEF Init, TypeOK
<1>5. Expanded = {} BY DEF Init, Expanded
<1>6. CountInv
  <2>1. Successors(next, {}) = {} /\ \A f : EdgesInto(next, {}, f) = {}
    BY DEF Successors, EdgesInto, EdgesOf
  <2> QED BY <1>5, <2>1, FS_EmptySet DEF Init, CountInv
<1> QED BY <1>1, <1>4, <1>6 DEF InitInv, Init, DependenciesExact

(* fn is moved from the queue to the functions whose edges are counted. *)
LEMMA ExpandStep ==
  ASSUME InitInv, NEW fn \in queue, Expand(fn)
  PROVE  InitInv'
<1>1. /\ pc = "dependencies" /\ next \in Graphs /\ CountInv /\ TypeOK
      /\ dependencies' = [f \in Fns |->
           dependencies[f] + Cardinality(EdgesInto(next, {fn}, f))]
      /\ seen' = seen \cup Successors(next, {fn})
      /\ queue' = (queue \ {fn}) \cup (Successors(next, {fn}) \ seen)
      /\ UNCHANGED <<graph, pc, roots_done, stack, needed>>
  BY DEF InitInv, GraphInv, Expand
<1>2. fn \in Nodes /\ fn \in seen \cup {GraphRoot} BY <1>1 DEF TypeOK, CountInv
<1>3. Successors(next, {fn}) \subseteq Fns BY <1>1, <1>2, SuccessorsOf
<1>4. GraphRoot \notin Fns /\ Fns \subseteq Nodes
  BY SizeAssumption DEF GraphRoot, Fns, Nodes
<1>5. Expanded' = Expanded \cup {fn} /\ fn \notin Expanded
  BY <1>1, <1>2, <1>3, <1>4 DEF Expanded, CountInv
<1>6. seen' \subseteq Reached
  <2>1. fn \in Reached BY <1>1, <1>2, ReachedFacts DEF CountInv
  <2> QED BY <1>1, <2>1, ReachedFacts DEF CountInv
<1>7. Successors(next, Expanded') \subseteq seen'
  <2> SUFFICES ASSUME NEW g \in Successors(next, Expanded \cup {fn})
               PROVE  g \in seen \cup Successors(next, {fn})
    BY <1>1, <1>5
  <2>1. g \in Successors(next, Expanded) \/ g \in Successors(next, {fn})
    BY SuccessorsMember
  <2> QED BY <1>1, <2>1 DEF CountInv
<1>8. ASSUME NEW f \in Fns
      PROVE  dependencies'[f] = Cardinality(EdgesInto(next, Expanded', f))
  <2>1. Cardinality(EdgesInto(next, Expanded \cup {fn}, f)) =
          Cardinality(EdgesInto(next, Expanded, f))
            + Cardinality(EdgesInto(next, {fn}, f))
    BY <1>1, <1>5, EdgesOfOneMore
  <2> QED BY <1>1, <1>5, <2>1 DEF CountInv
<1>9. CountInv'
  <2>1. queue' \subseteq seen' \cup {GraphRoot} BY <1>1 DEF CountInv
  <2>2. next' = next /\ Reached' = Reached BY <1>1 DEF graph, Reached
  <2>3. roots_done' = 0 /\ stack' = <<>> /\ needed' = {} BY <1>1 DEF CountInv
  <2> QED BY <1>6, <1>7, <1>8, <2>1, <2>2, <2>3 DEF CountInv
<1>10. TypeOK'
  <2>1. \A f \in Fns : Cardinality(EdgesInto(next, {fn}, f)) \in Nat
    BY <1>1, EdgesFinite, FS_CardinalityType
  <2>2. dependencies' \in [Fns -> Nat]
    <3>1. \A f \in Fns : dependencies[f] \in Nat BY <1>1 DEF TypeOK
    <3>2. \A f \in Fns :
            dependencies[f] + Cardinality(EdgesInto(next, {fn}, f)) \in Nat
      BY <2>1, <3>1
    <3> QED BY <1>1, <3>2
  <2>3. queue' \subseteq Nodes /\ seen' \subseteq Fns
    BY <1>1, <1>3, <1>4 DEF TypeOK
  <2> QED BY <1>1, <2>2, <2>3 DEF TypeOK, graph
<1> QED BY <1>1, <1>9, <1>10 DEF InitInv, GraphInv, DependenciesExact, graph

(* With the queue empty, what has been seen is what the root reaches. *)
LEMMA StartSearchStep ==
  ASSUME InitInv, StartSearch
  PROVE  InitInv'
<1>1. /\ pc = "dependencies" /\ next \in Graphs /\ CountInv /\ TypeOK
      /\ queue = {} /\ pc' \in {"done", "search"} /\ seen' = {}
      /\ needed' \subseteq {GraphRoot}
      /\ UNCHANGED <<graph, queue, dependencies, roots_done, stack>>
  BY DEF InitInv, GraphInv, StartSearch
<1>2. Expanded = seen \cup {GraphRoot} BY <1>1 DEF Expanded
<1>3. GraphRoot \in Nodes /\ Fns \subseteq Nodes
  BY SizeAssumption DEF GraphRoot, Fns, Nodes
<1>4. Expanded = Reached
  <2>1. Expanded \subseteq Reached BY <1>1, <1>2, ReachedFacts DEF CountInv
  <2>2. Expanded \in SUBSET Nodes /\ GraphRoot \in Expanded
    BY <1>1, <1>2, <1>3 DEF TypeOK
  <2>3. ASSUME NEW f \in Expanded
        PROVE  Successors(next, {f}) \subseteq Expanded
    <3>1. Successors(next, {f}) \subseteq Successors(next, Expanded)
      BY SuccessorsMember
    <3> QED BY <1>1, <1>2, <3>1 DEF CountInv
  <2>4. Reached \subseteq Expanded BY <1>1, <2>2, <2>3, ReachedFacts
  <2> QED BY <2>1, <2>4
<1>5. DependenciesExact'
  <2>1. DOMAIN next = Nodes BY <1>1, GraphFacts
  <2>2. \A f \in Fns : dependencies[f] = Dependencies(next, GraphRoot)[f]
    BY <1>1, <1>3, <1>4, <2>1 DEF CountInv, Dependencies, Reached
  <2> QED BY <1>1, <2>2 DEF DependenciesExact, graph
<1>6. TypeOK' BY <1>1, <1>3 DEF TypeOK, graph
<1>7. stack' = <<>> BY <1>1 DEF CountInv
<1>8. StackInv'
  <2>1. Len(stack') = 0 BY <1>7
  <2> QED BY <2>1 DEF StackInv, OnStack
<1> QED BY <1>1, <1>5, <1>6, <1>7, <1>8 DEF InitInv, GraphInv, graph

-----------------------------------------------------------------------------
(***************************************************************************)
(* The depth-first search.                                                 *)
(***************************************************************************)
FrameType == [fn : Fns, next_next_fn : Nat]

(* A stack without its top. *)
LEMMA FrontFacts ==
  ASSUME NEW T, NEW s \in Seq(T), Len(s) \in Nat \ {0}
  PROVE  /\ Front(s) \in Seq(T) /\ Len(Front(s)) = Len(s) - 1
         /\ \A k \in 1 .. (Len(s) - 1) : Front(s)[k] = s[k]
<1>1. PICK n \in Nat : n = Len(s) - 1 OBVIOUS
<1>2. n <= Len(s) /\ \A k \in 1 .. n : s[k] \in T BY <1>1
<1>3. SubSeq(s, 1, n) = [k \in 1 .. n |-> s[k]]
  BY <1>1, <1>2
<1>4. Front(s) = SubSeq(s, 1, n) BY <1>1 DEF Front
<1> DEFINE f == [k \in 1 .. n |-> s[k]]
<1>5. f \in Seq(T) /\ Len(f) = n BY <1>2
<1>6. \A k \in 1 .. n : f[k] = s[k] OBVIOUS
<1>7. Front(s) = f BY <1>3, <1>4
<1> HIDE DEF f
<1> QED BY <1>1, <1>5, <1>6, <1>7

(* The top of the stack is the largest of the functions on it. *)
LEMMA TopFacts ==
  ASSUME TypeOK, next \in Graphs, StackInv, stack # <<>>
  PROVE  /\ Len(stack) \in Nat \ {0} /\ Len(stack) \in 1 .. Len(stack)
         /\ \A k \in 1 .. Len(stack) : stack[k] \in FrameType
         /\ Last(stack) = stack[Len(stack)] /\ Last(stack).fn \in Nodes
         /\ \A k \in 1 .. Len(stack) : stack[k].fn <= Last(stack).fn
<1>1. stack \in Seq(FrameType) BY DEF TypeOK, FrameType
<1>2. /\ Len(stack) \in Nat \ {0} /\ Len(stack) \in 1 .. Len(stack)
      /\ \A k \in 1 .. Len(stack) : stack[k] \in FrameType
  BY <1>1
<1>3. Last(stack) = stack[Len(stack)] BY DEF Last
<1>4. \A k \in 1 .. Len(stack) : stack[k].fn \in Nat
  BY <1>2 DEF FrameType, Fns
<1>5. Last(stack).fn \in Nodes
  BY <1>2, <1>3, SizeAssumption DEF FrameType, Fns, Nodes
<1>6. ASSUME NEW k \in 1 .. Len(stack) PROVE stack[k].fn <= Last(stack).fn
  <2>1. CASE k = Len(stack) BY <1>2, <1>3, <1>4, <2>1
  <2>2. CASE k # Len(stack)
    <3>1. k < Len(stack) BY <1>2, <2>2
    <3>2. stack[k].fn < stack[Len(stack)].fn BY <1>2, <3>1 DEF StackInv
    <3> QED BY <1>2, <1>3, <1>4, <3>2
  <2> QED BY <2>1, <2>2
<1> QED BY <1>2, <1>3, <1>5, <1>6

(* The next root is entered unless it has been seen. *)
LEMMA NextRootFacts ==
  ASSUME InitInv, NextRoot
  PROVE  \E fn \in Fns :
           /\ fn \in Successors(next, {GraphRoot})
           /\ roots_done + 1 \in 0 .. Len(next[GraphRoot])
           /\ roots_done' = roots_done + 1
           /\ Entered' = Entered \cup {fn} /\ OnStack = {}
           /\ stack' = IF fn \in seen THEN <<>> ELSE <<Frame(fn)>>
           /\ OnStack' = IF fn \in seen THEN {} ELSE {fn}
           /\ UNCHANGED <<graph, pc, queue, dependencies, seen, needed>>
<1> DEFINE fn == next[GraphRoot][roots_done + 1]
<1>1. /\ TypeOK /\ next \in Graphs /\ pc = "search" /\ stack = <<>>
      /\ roots_done < Len(next[GraphRoot]) /\ roots_done' = roots_done + 1
      /\ stack' = IF fn \in seen THEN <<>> ELSE <<Frame(fn)>>
      /\ UNCHANGED <<graph, pc, queue, dependencies, seen, needed>>
  BY DEF InitInv, GraphInv, NextRoot
<1>2. /\ GraphRoot \in Nodes /\ Len(next[GraphRoot]) \in Nat
      /\ DOMAIN next[GraphRoot] = 1 .. Len(next[GraphRoot])
  BY <1>1, GraphFacts, SizeAssumption DEF GraphRoot, Nodes
<1>3. /\ roots_done \in Nat /\ roots_done + 1 \in 0 .. Len(next[GraphRoot])
      /\ roots_done + 1 \in 1 .. Len(next[GraphRoot])
  BY <1>1, <1>2 DEF TypeOK
<1>4. fn \in Fns BY <1>1, <1>2, <1>3, GraphFacts
<1>5. fn \in Successors(next, {GraphRoot})
  <2>1. fn # NullFn BY <1>4, SizeAssumption DEF Fns
  <2> QED BY <1>1, <1>2, <1>3, <2>1, SuccessorsOf
<1>6. Entered' = Entered \cup {fn}
  <2>1. next' = next /\ seen' = seen BY <1>1 DEF graph
  <2>2. 1 .. (roots_done + 1) = (1 .. roots_done) \cup {roots_done + 1} BY <1>3
  <2> QED BY <1>1, <2>1, <2>2 DEF Entered
<1>7. OnStack = {} BY <1>1 DEF OnStack
<1> HIDE DEF fn
<1>8. OnStack' = IF fn \in seen THEN {} ELSE {fn}
  <2>1. CASE fn \in seen BY <1>1, <2>1 DEF OnStack
  <2>2. CASE fn \notin seen
    <3>1. stack' = <<Frame(fn)>> BY <1>1, <2>2
    <3>2. Len(stack') = 1 /\ stack'[1].fn = fn BY <3>1 DEF Frame
    <3>3. 1 .. Len(stack') = {1} BY <3>2
    <3> QED BY <2>2, <3>2, <3>3 DEF OnStack
  <2> QED BY <2>1, <2>2
<1> QED BY <1>1, <1>3, <1>4, <1>5, <1>6, <1>7, <1>8

(* A root alone on the stack is a path. *)
LEMMA NextRootStep ==
  ASSUME InitInv, NextRoot
  PROVE  InitInv'
<1>1. PICK fn \in Fns :
           /\ fn \in Successors(next, {GraphRoot})
           /\ roots_done + 1 \in 0 .. Len(next[GraphRoot])
           /\ roots_done' = roots_done + 1
           /\ Entered' = Entered \cup {fn} /\ OnStack = {}
           /\ stack' = IF fn \in seen THEN <<>> ELSE <<Frame(fn)>>
           /\ OnStack' = IF fn \in seen THEN {} ELSE {fn}
           /\ UNCHANGED <<graph, pc, queue, dependencies, seen, needed>>
  BY NextRootFacts
<1>2. pc = "search" BY DEF NextRoot
<1>3. Frame(fn) \in FrameType BY DEF Frame, FrameType
<1>4. stack' \in Seq(FrameType) BY <1>1, <1>3
<1>5. TypeOK' BY <1>1, <1>4 DEF InitInv, TypeOK, FrameType, graph
<1>6. StackInv'
  <2>1. CASE fn \in seen
    <3>1. stack' = <<>> /\ Len(stack') = 0 BY <1>1, <2>1
    <3> QED BY <1>1, <2>1, <3>1 DEF StackInv
  <2>2. CASE fn \notin seen
    <3>1. Len(stack') = 1 /\ stack'[1] = Frame(fn) BY <1>1, <2>2
    <3>2. \A k \in 1 .. Len(stack') : k = 1 BY <3>1
    <3>3. stack'[1].next_next_fn = 1 BY <3>1 DEF Frame
    <3>4. \A m \in DOMAIN next[fn] : ~ (m < 1)
      <4>1. fn \in Nodes BY SizeAssumption DEF Fns, Nodes
      <4>2. DOMAIN next[fn] = 1 .. Len(next[fn]) /\ Len(next[fn]) \in Nat
        BY <4>1, GraphFacts, SizeAssumption DEF InitInv, GraphInv
      <4> QED BY <4>2
    <3>5. stack'[1].fn = fn /\ next' = next BY <1>1, <3>1 DEF Frame, graph
    <3>6. OnStack' \subseteq Entered' BY <1>1, <2>2
    <3>7. \A j, k \in 1 .. Len(stack') : ~ (j < k)
      <4> SUFFICES ASSUME NEW j \in 1 .. Len(stack'), NEW k \in 1 .. Len(stack')
                   PROVE  ~ (j < k)
        OBVIOUS
      <4> QED BY <3>2
    <3>8. \A k \in 1 .. Len(stack') : \A m \in DOMAIN next'[stack'[k].fn] :
            ~ (m < stack'[k].next_next_fn)
      BY <3>2, <3>3, <3>4, <3>5
    <3> QED BY <3>6, <3>7, <3>8 DEF StackInv
  <2> QED BY <2>1, <2>2
<1> QED BY <1>1, <1>2, <1>5, <1>6 DEF InitInv, GraphInv, DependenciesExact, graph

(* What Descend does along the edge i from the top to fn: `rest` is the    *)
(* stack with next_next_fn moved past that edge.                           *)
DescendsTo(i, fn, rest) ==
  LET top == Last(stack)
  IN  /\ i \in DOMAIN next[top.fn] /\ i \in Nat /\ fn = next[top.fn][i]
      /\ fn \in Fns /\ fn \in Successors(next, {top.fn}) /\ top.fn < fn
      /\ \A m \in DOMAIN next[top.fn] :
           m < i + 1 /\ next[top.fn][m] # NullFn => m < top.next_next_fn \/ m = i
      /\ rest \in Seq(FrameType) /\ Len(rest) = Len(stack)
      /\ \A k \in 1 .. Len(stack) :
           /\ rest[k].fn = stack[k].fn
           /\ rest[k].next_next_fn = IF k = Len(stack) THEN i + 1
                                                       ELSE stack[k].next_next_fn
      /\ seen' = seen \cup {fn}
      /\ stack' = IF fn \in seen THEN rest ELSE Append(rest, Frame(fn))
      /\ UNCHANGED <<graph, pc, queue, dependencies, roots_done, needed>>

(* Descend takes the first valid edge that has not been taken. *)
LEMMA DescendFacts ==
  ASSUME InitInv, Descend
  PROVE  /\ TypeOK /\ next \in Graphs /\ StackInv /\ stack # <<>> /\ pc = "search"
         /\ \E i, fn, rest : DescendsTo(i, fn, rest)
<1> DEFINE top == Last(stack)
           i == CHOOSE m \in EdgesLeft : \A n \in EdgesLeft : m <= n
           fn == next[top.fn][i]
           new == [top EXCEPT !.next_next_fn = i + 1]
           rest == Append(Front(stack), new)
<1>1. /\ TypeOK /\ next \in Graphs /\ StackInv /\ stack # <<>> /\ pc = "search"
      /\ EdgesLeft # {}
  BY DEF InitInv, GraphInv, Descend
<1>2. /\ seen' = seen \cup {fn}
      /\ stack' = IF fn \in seen THEN rest ELSE Append(rest, Frame(fn))
      /\ UNCHANGED <<graph, pc, queue, dependencies, roots_done, needed>>
  BY Zenon DEF Descend
<1>3. /\ Len(stack) \in Nat \ {0} /\ Len(stack) \in 1 .. Len(stack)
      /\ \A k \in 1 .. Len(stack) : stack[k] \in FrameType
      /\ top = stack[Len(stack)] /\ top.fn \in Nodes
  BY <1>1, TopFacts
<1>4. top \in FrameType BY <1>3
<1>5. /\ DOMAIN next[top.fn] = 1 .. Len(next[top.fn]) /\ Len(next[top.fn]) \in Nat
  BY <1>1, <1>3, GraphFacts, SizeAssumption
<1>6. /\ EdgesLeft \in SUBSET Nat
      /\ \A m : m \in EdgesLeft <=> /\ m \in DOMAIN next[top.fn]
                                    /\ m >= top.next_next_fn
                                    /\ next[top.fn][m] # NullFn
  BY <1>5 DEF EdgesLeft
<1>7. i \in EdgesLeft /\ \A n \in EdgesLeft : i <= n
  <2>1. PICK m \in EdgesLeft : \A n \in EdgesLeft : m <= n BY <1>1, <1>6, MinExists
  <2> QED BY <2>1, Zenon
<1> HIDE DEF i
<1>8. i \in DOMAIN next[top.fn] /\ i \in Nat /\ fn # NullFn BY <1>6, <1>7
<1>9. fn \in Fns /\ fn \in Successors(next, {top.fn}) /\ top.fn < fn
  BY <1>1, <1>3, <1>8, SuccessorsOf
<1>10. \A m \in DOMAIN next[top.fn] :
         m < i + 1 /\ next[top.fn][m] # NullFn => m < top.next_next_fn \/ m = i
  <2> SUFFICES ASSUME NEW m \in DOMAIN next[top.fn], m < i + 1,
                      next[top.fn][m] # NullFn, ~ (m < top.next_next_fn)
               PROVE  m = i
    OBVIOUS
  <2>1. m \in Nat /\ top.next_next_fn \in Nat BY <1>4, <1>5 DEF FrameType
  <2>2. m \in EdgesLeft BY <1>6, <2>1
  <2>3. i <= m BY <1>7, <2>2
  <2> QED BY <1>8, <2>1, <2>3
<1>11. new \in FrameType /\ new.fn = top.fn /\ new.next_next_fn = i + 1
  BY <1>4, <1>8 DEF FrameType
<1> HIDE DEF new
<1>12. /\ Front(stack) \in Seq(FrameType) /\ Len(Front(stack)) = Len(stack) - 1
       /\ \A k \in 1 .. (Len(stack) - 1) : Front(stack)[k] = stack[k]
  <2>1. stack \in Seq(FrameType) BY <1>1 DEF TypeOK, FrameType
  <2> QED BY <1>3, <2>1, FrontFacts
<1>13. /\ rest \in Seq(FrameType) /\ Len(rest) = Len(stack)
       /\ \A k \in 1 .. (Len(stack) - 1) : rest[k] = stack[k]
       /\ rest[Len(stack)] = new
  BY <1>3, <1>11, <1>12
<1> HIDE DEF rest
<1>14. ASSUME NEW k \in 1 .. Len(stack)
       PROVE  /\ rest[k].fn = stack[k].fn
              /\ rest[k].next_next_fn = IF k = Len(stack) THEN i + 1
                                                       ELSE stack[k].next_next_fn
  <2>1. CASE k = Len(stack) BY <1>3, <1>11, <1>13, <2>1
  <2>2. CASE k # Len(stack)
    <3>1. k \in 1 .. (Len(stack) - 1) BY <1>3, <2>2
    <3> QED BY <1>13, <2>2, <3>1
  <2> QED BY <2>1, <2>2
<1>15. DescendsTo(i, fn, rest)
  BY <1>2, <1>8, <1>9, <1>10, <1>13, <1>14 DEF DescendsTo
<1> QED BY <1>1, <1>15

(* The new stack is `rest`, with fn on top when it is entered. *)
LEMMA DescendStack ==
  ASSUME TypeOK, next \in Graphs, StackInv, stack # <<>>,
         NEW i, NEW fn, NEW rest, DescendsTo(i, fn, rest)
  PROVE  /\ stack' \in Seq(FrameType)
         /\ \A k \in 1 .. Len(stack') :
              \/ k \in 1 .. Len(stack) /\ stack'[k] = rest[k]
              \/ fn \notin seen /\ k = Len(stack) + 1 /\ stack'[k] = Frame(fn)
         /\ Entered' = Entered \cup {fn}
         /\ OnStack' = IF fn \in seen THEN OnStack ELSE OnStack \cup {fn}
         /\ next' = next
<1>1. /\ rest \in Seq(FrameType) /\ Len(rest) = Len(stack)
      /\ stack' = IF fn \in seen THEN rest ELSE Append(rest, Frame(fn))
      /\ fn \in Fns /\ seen' = seen \cup {fn}
      /\ next' = next /\ roots_done' = roots_done
      /\ \A k \in 1 .. Len(stack) : rest[k].fn = stack[k].fn
  BY DEF DescendsTo, graph
<1>2. Len(stack) \in Nat BY TopFacts
<1>3. Frame(fn) \in FrameType /\ Frame(fn).fn = fn BY <1>1 DEF Frame, FrameType
<1>4. Entered' = Entered \cup {fn} BY <1>1 DEF Entered
<1>5. OnStack = {rest[k].fn : k \in 1 .. Len(rest)} BY <1>1 DEF OnStack
<1>6. CASE fn \in seen
  <2>1. stack' = rest BY <1>1, <1>6
  <2> QED BY <1>1, <1>4, <1>5, <1>6, <2>1 DEF OnStack
<1>7. CASE fn \notin seen
  <2>1. stack' = Append(rest, Frame(fn)) BY <1>1, <1>7
  <2>2. /\ stack' \in Seq(FrameType) /\ Len(stack') = Len(stack) + 1
        /\ \A k \in 1 .. Len(stack) : stack'[k] = rest[k]
        /\ stack'[Len(stack) + 1] = Frame(fn)
    BY <1>1, <1>2, <1>3, <2>1
  <2>3. \A k \in 1 .. Len(stack') : k \in 1 .. Len(stack) \/ k = Len(stack) + 1
    BY <1>2, <2>2
  <2>4. /\ Len(stack) + 1 \in 1 .. Len(stack')
        /\ 1 .. Len(stack) \subseteq 1 .. Len(stack')
    BY <1>2, <2>2
  <2>5. OnStack' = OnStack \cup {fn}
    BY <1>1, <1>3, <1>5, <2>2, <2>3, <2>4 DEF OnStack
  <2> QED BY <1>1, <1>4, <1>7, <2>2, <2>3, <2>5
<1> QED BY <1>6, <1>7

(* The stack stays a path downwards. *)
LEMMA DescendStep ==
  ASSUME InitInv, Descend
  PROVE  InitInv'
<1>1. /\ TypeOK /\ next \in Graphs /\ StackInv /\ stack # <<>> /\ pc = "search"
      /\ \E i, fn, rest : DescendsTo(i, fn, rest)
  BY DescendFacts
<1>2. PICK i, fn, rest : DescendsTo(i, fn, rest) BY <1>1
<1>3. /\ stack' \in Seq(FrameType)
      /\ \A k \in 1 .. Len(stack') :
           \/ k \in 1 .. Len(stack) /\ stack'[k] = rest[k]
           \/ fn \notin seen /\ k = Len(stack) + 1 /\ stack'[k] = Frame(fn)
      /\ Entered' = Entered \cup {fn}
      /\ OnStack' = IF fn \in seen THEN OnStack ELSE OnStack \cup {fn}
      /\ next' = next
  BY <1>1, <1>2, DescendStack
<1>4. /\ fn \in Fns /\ Last(stack).fn < fn /\ seen' = seen \cup {fn}
      /\ \A k \in 1 .. Len(stack) :
           /\ rest[k].fn = stack[k].fn
           /\ rest[k].next_next_fn = IF k = Len(stack) THEN i + 1
                                                       ELSE stack[k].next_next_fn
      /\ UNCHANGED <<graph, pc, queue, dependencies, roots_done, needed>>
  BY <1>2 DEF DescendsTo
<1>5. /\ Len(stack) \in Nat \ {0} /\ Last(stack) = stack[Len(stack)]
      /\ \A k \in 1 .. Len(stack) : stack[k] \in FrameType
      /\ Last(stack).fn \in Nodes
      /\ \A k \in 1 .. Len(stack) : stack[k].fn <= Last(stack).fn
  BY <1>1, TopFacts
<1>6. TypeOK' BY <1>3, <1>4 DEF InitInv, TypeOK, FrameType, graph
<1>7. OnStack' \subseteq Entered' BY <1>1, <1>3 DEF StackInv
<1>8. ASSUME NEW j \in 1 .. Len(stack'), NEW k \in 1 .. Len(stack'), j < k
      PROVE  stack'[j].fn < stack'[k].fn
  <2>1. j \in Nat /\ k \in Nat BY <1>3
  <2>2. j \in 1 .. Len(stack) /\ stack'[j].fn = stack[j].fn
    BY <1>3, <1>4, <1>5, <1>8, <2>1
  <2>3. CASE k \in 1 .. Len(stack) /\ stack'[k] = rest[k]
    BY <1>1, <1>4, <1>8, <2>2, <2>3 DEF StackInv
  <2>4. CASE stack'[k] = Frame(fn)
    <3>1. stack'[k].fn = fn BY <2>4 DEF Frame
    <3>2. stack[j].fn <= Last(stack).fn /\ stack[j].fn \in Nat
      BY <1>5, <2>2 DEF FrameType, Fns
    <3> QED BY <1>4, <1>5, <2>2, <3>1, <3>2 DEF Fns, Nodes
  <2> QED BY <1>3, <2>3, <2>4
<1>9. ASSUME NEW k \in 1 .. Len(stack'), NEW m \in DOMAIN next[stack'[k].fn],
             m < stack'[k].next_next_fn, next[stack'[k].fn][m] # NullFn
      PROVE  next[stack'[k].fn][m] \in seen'
  <2>1. CASE k \in 1 .. Len(stack) /\ stack'[k] = rest[k]
    <3>1. stack'[k].fn = stack[k].fn BY <1>4, <2>1
    <3>2. CASE k = Len(stack)
      <4>1. m < i + 1 BY <1>4, <1>9, <2>1, <3>2
      <4>2. m < stack[k].next_next_fn \/ m = i
        BY <1>2, <1>5, <1>9, <3>1, <3>2, <4>1 DEF DescendsTo
      <4>3. fn = next[stack[k].fn][i] BY <1>2, <1>5, <3>2 DEF DescendsTo
      <4> QED BY <1>1, <1>4, <1>9, <2>1, <3>1, <4>2, <4>3 DEF StackInv
    <3>3. CASE k # Len(stack)
      <4>1. m < stack[k].next_next_fn BY <1>4, <1>9, <2>1, <3>3
      <4> QED BY <1>1, <1>4, <1>9, <2>1, <3>1, <4>1 DEF StackInv
    <3> QED BY <3>2, <3>3
  <2>2. CASE stack'[k] = Frame(fn)
    <3>1. stack'[k].fn = fn /\ stack'[k].next_next_fn = 1 BY <2>2 DEF Frame
    <3>2. fn \in Nodes BY <1>4, SizeAssumption DEF Fns, Nodes
    <3>3. DOMAIN next[fn] = 1 .. Len(next[fn]) /\ Len(next[fn]) \in Nat
      BY <1>1, <3>2, GraphFacts, SizeAssumption
    <3>4. m \in 1 .. Len(next[fn]) /\ m < 1 BY <1>9, <3>1, <3>3
    <3> QED BY <3>3, <3>4
  <2> QED BY <1>3, <2>1, <2>2
<1>10. StackInv' BY <1>3, <1>7, <1>8, <1>9 DEF StackInv
<1> QED BY <1>1, <1>4, <1>6, <1>10 DEF InitInv, GraphInv, DependenciesExact, graph

(* What Leave does to the function fn on top. *)
LEMMA LeaveFacts ==
  ASSUME InitInv, Leave
  PROVE  \E fn \in Fns :
           /\ TypeOK /\ next \in Graphs /\ StackInv /\ stack # <<>> /\ pc = "search"
           /\ stack' \in Seq(FrameType) /\ Len(stack') = Len(stack) - 1
           /\ \A k \in 1 .. Len(stack') : k \in 1 .. Len(stack) /\ stack'[k] = stack[k]
           /\ needed' = IF Range(next[fn]) \cap (needed \cup outputs) # {}
                        THEN needed \cup {fn} ELSE needed \ {fn}
           /\ UNCHANGED <<graph, pc, queue, dependencies, seen, roots_done>>
           /\ fn \in OnStack /\ OnStack' = OnStack \ {fn} /\ Entered' = Entered
           /\ \A g \in Successors(next, {fn}) : g \in seen /\ g \notin OnStack
<1> DEFINE fn == Last(stack).fn
<1>1. /\ TypeOK /\ next \in Graphs /\ StackInv /\ stack # <<>> /\ pc = "search"
      /\ EdgesLeft = {} /\ stack' = Front(stack)
      /\ UNCHANGED <<graph, pc, queue, dependencies, seen, roots_done>>
  BY DEF InitInv, GraphInv, Leave
<1>2. needed' = IF Range(next[fn]) \cap (needed \cup outputs) # {}
                THEN needed \cup {fn} ELSE needed \ {fn}
  BY Zenon DEF Leave
<1>3. /\ Len(stack) \in Nat \ {0} /\ Len(stack) \in 1 .. Len(stack)
      /\ \A k \in 1 .. Len(stack) : stack[k] \in FrameType
      /\ Last(stack) = stack[Len(stack)] /\ fn \in Nodes
      /\ \A k \in 1 .. Len(stack) : stack[k].fn <= fn
  BY <1>1, TopFacts
<1>4. fn \in Fns /\ Last(stack).next_next_fn \in Nat
  BY <1>3 DEF FrameType
<1>5. /\ stack' \in Seq(FrameType) /\ Len(stack') = Len(stack) - 1
      /\ \A k \in 1 .. (Len(stack) - 1) : stack'[k] = stack[k]
  <2>1. stack \in Seq(FrameType) BY <1>1 DEF TypeOK, FrameType
  <2> QED BY <1>1, <1>3, <2>1, FrontFacts
<1>6. \A k \in 1 .. Len(stack') : /\ k \in 1 .. Len(stack) /\ k < Len(stack)
                                  /\ stack'[k] = stack[k]
  BY <1>3, <1>5
<1>7. fn \in OnStack BY <1>3 DEF OnStack
<1>8. OnStack' = OnStack \ {fn}
  <2>1. ASSUME NEW k \in 1 .. Len(stack')
        PROVE  stack'[k].fn \in OnStack \ {fn}
    <3>1. stack[k].fn < fn BY <1>1, <1>3, <1>6 DEF StackInv
    <3>2. stack[k].fn \in Nat /\ fn \in Nat BY <1>3, <1>4, <1>6 DEF FrameType, Fns
    <3>3. stack[k].fn # fn BY <3>1, <3>2
    <3> QED BY <1>6, <3>3 DEF OnStack
  <2>2. ASSUME NEW k \in 1 .. Len(stack), stack[k].fn # fn
        PROVE  stack[k].fn \in OnStack'
    <3>1. k # Len(stack) BY <1>3, <2>2
    <3>2. k \in 1 .. Len(stack') /\ k \in 1 .. (Len(stack) - 1) BY <1>3, <1>5, <3>1
    <3> QED BY <1>5, <3>2 DEF OnStack
  <2> QED BY <2>1, <2>2 DEF OnStack
<1>9. Entered' = Entered BY <1>1 DEF Entered, graph
<1>10. ASSUME NEW g \in Successors(next, {fn}) PROVE g \in seen /\ g \notin OnStack
  <2>1. fn < g /\ g \in Fns /\ g \in Range(next[fn]) BY <1>1, <1>3, SuccessorsOf
  <2>2. PICK m \in DOMAIN next[fn] : g = next[fn][m] BY <2>1 DEF Range
  <2>3. g # NullFn BY <2>1, SizeAssumption DEF Fns
  <2>4. m \in Nat BY <1>1, <1>3, GraphFacts
  <2>5. m < Last(stack).next_next_fn
    <3>1. ~ (m >= Last(stack).next_next_fn) BY <1>1, <2>2, <2>3 DEF EdgesLeft
    <3> QED BY <1>4, <2>4, <3>1
  <2>6. g \in seen BY <1>1, <1>3, <2>2, <2>3, <2>5 DEF StackInv
  <2>7. ASSUME NEW k \in 1 .. Len(stack) PROVE stack[k].fn # g
    <3>1. stack[k].fn <= fn /\ stack[k].fn \in Nat BY <1>3 DEF FrameType, Fns
    <3> QED BY <1>4, <2>1, <3>1 DEF Fns
  <2> QED BY <2>6, <2>7 DEF OnStack
<1> HIDE DEF fn
<1> QED BY <1>1, <1>2, <1>4, <1>5, <1>6, <1>7, <1>8, <1>9, <1>10

(* The stack loses its top. *)
LEMMA LeaveStep ==
  ASSUME InitInv, Leave
  PROVE  InitInv'
<1>1. PICK fn \in Fns :
        /\ TypeOK /\ next \in Graphs /\ StackInv /\ stack # <<>> /\ pc = "search"
        /\ stack' \in Seq(FrameType) /\ Len(stack') = Len(stack) - 1
        /\ \A k \in 1 .. Len(stack') : k \in 1 .. Len(stack) /\ stack'[k] = stack[k]
        /\ needed' = IF Range(next[fn]) \cap (needed \cup outputs) # {}
                     THEN needed \cup {fn} ELSE needed \ {fn}
        /\ UNCHANGED <<graph, pc, queue, dependencies, seen, roots_done>>
        /\ fn \in OnStack /\ OnStack' = OnStack \ {fn} /\ Entered' = Entered
        /\ \A g \in Successors(next, {fn}) : g \in seen /\ g \notin OnStack
  BY LeaveFacts
<1>2. needed' \subseteq Nodes
  BY <1>1, SizeAssumption DEF TypeOK, Fns, Nodes
<1>3. TypeOK' BY <1>1, <1>2 DEF TypeOK, FrameType, graph
<1>4. StackInv' BY <1>1 DEF StackInv, graph
<1> QED BY <1>1, <1>3, <1>4 DEF InitInv, GraphInv, DependenciesExact, graph

(* Both traversals keep the invariant. *)
LEMMA InitStep == InitInv /\ [Next]_vars => InitInv'
<1> SUFFICES ASSUME InitInv, [Next]_vars PROVE InitInv' OBVIOUS
<1>1. CASE \E fn \in queue : Expand(fn) BY <1>1, ExpandStep
<1>2. CASE StartSearch BY <1>2, StartSearchStep
<1>3. CASE NextRoot BY <1>3, NextRootStep
<1>4. CASE Descend BY <1>4, DescendStep
<1>5. CASE Leave BY <1>5, LeaveStep
<1>6. CASE EndSearch
  BY <1>6 DEF EndSearch, InitInv, TypeOK, GraphInv, DependenciesExact, graph
<1>7. CASE UNCHANGED vars
  <2> USE <1>7 DEF vars, graph
  <2>1. Reached' = Reached /\ Expanded' = Expanded /\ Entered' = Entered
        /\ OnStack' = OnStack
    BY DEF Reached, Expanded, Entered, OnStack
  <2>2. CountInv' <=> CountInv BY <2>1 DEF CountInv
  <2>3. StackInv' <=> StackInv BY <2>1 DEF StackInv
  <2>4. TypeOK' <=> TypeOK BY DEF TypeOK
  <2> QED BY <2>2, <2>3, <2>4 DEF InitInv, GraphInv, DependenciesExact
<1> QED BY <1>1, <1>2, <1>3, <1>4, <1>5, <1>6, <1>7 DEF Next

(* Both loops keep the invariant on every graph. *)
THEOREM TraversalInvariant == Spec => []InitInv
BY InitInit, InitStep, PTL DEF Spec

(* DependenciesAreExact: on a graph of any size and shape                  *)
(* compute_dependencies() leaves, for every function, the number of edges  *)
(* into it from the part of the graph the root reaches, so that the engine *)
(* neither waits for a gradient that never comes nor starts too early.     *)
THEOREM DependenciesAreExact == Spec => []DependenciesExact
<1>1. InitInv => DependenciesExact BY DEF InitInv
<1> QED BY TraversalInvariant, <1>1, PTL

-----------------------------------------------------------------------------
(***************************************************************************)
(* The marks that the search leaves.                                       *)
(***************************************************************************)

(* A function leads to an output if a successor is one or leads to one. *)
LEMMA LeadsToOutputStep ==
  ASSUME NEW f
  PROVE  LeadsToOutput(f) <=>
           \E g \in Successors(next, {f}) : g \in outputs \/ LeadsToOutput(g)
<1>1. \A h : h \in Closure(next, Successors(next, {f})) <=>
               \E g \in Successors(next, {f}) :
                  h = g \/ h \in Closure(next, Successors(next, {g}))
  BY ClosureStep
<1> QED BY <1>1 DEF LeadsToOutput

(* The initial graph has only valid output edges. *)
LEMMA NeededInit ==
  ASSUME NullOutput = FALSE, Init
  PROVE  NeededInv
BY DEF Init, NeededInv, NeededExact

(* A root that is entered is not among the functions left. *)
LEMMA NextRootNeeded ==
  ASSUME InitInv, NeededInv, NextRoot
  PROVE  NeededInv'
<1>1. PICK fn \in Fns :
        /\ fn \in Successors(next, {GraphRoot})
        /\ roots_done + 1 \in 0 .. Len(next[GraphRoot])
        /\ roots_done' = roots_done + 1
        /\ Entered' = Entered \cup {fn} /\ OnStack = {}
        /\ stack' = IF fn \in seen THEN <<>> ELSE <<Frame(fn)>>
        /\ OnStack' = IF fn \in seen THEN {} ELSE {fn}
        /\ UNCHANGED <<graph, pc, queue, dependencies, seen, needed>>
  BY NextRootFacts
<1>2. pc = "search" /\ LeftInv /\ next \in Graphs
  BY DEF NextRoot, NeededInv, InitInv, GraphInv
<1>3. next' = next /\ outputs' = outputs /\ Reached' = Reached
  BY <1>1 DEF graph, Reached
<1>4. Left' \subseteq Left BY <1>1 DEF Left, Entered
<1>5. fn \in Reached BY <1>1, <1>2, ReachedFacts
<1>6. \A f : LeadsToOutput(f)' <=> LeadsToOutput(f) BY <1>3 DEF LeadsToOutput
<1>7. LeftInv' BY <1>1, <1>2, <1>3, <1>4, <1>5, <1>6 DEF LeftInv
<1> QED BY <1>1, <1>2, <1>3, <1>7 DEF NeededInv, NeededExact

(* A function that is entered is not among the functions left. *)
LEMMA DescendNeeded ==
  ASSUME InitInv, NeededInv, Descend
  PROVE  NeededInv'
<1>1. /\ TypeOK /\ next \in Graphs /\ StackInv /\ stack # <<>> /\ pc = "search"
      /\ \E i, fn, rest : DescendsTo(i, fn, rest)
  BY DescendFacts
<1>2. PICK i, fn, rest : DescendsTo(i, fn, rest) BY <1>1
<1>3. /\ Entered' = Entered \cup {fn} /\ next' = next
      /\ OnStack' = IF fn \in seen THEN OnStack ELSE OnStack \cup {fn}
  BY <1>1, <1>2, DescendStack
<1>4. /\ fn \in Successors(next, {Last(stack).fn}) /\ seen' = seen \cup {fn}
      /\ UNCHANGED <<graph, pc, queue, dependencies, roots_done, needed>>
  BY <1>2 DEF DescendsTo
<1>5. LeftInv BY <1>1 DEF NeededInv
<1>6. outputs' = outputs /\ Reached' = Reached BY <1>3, <1>4 DEF graph, Reached
<1>7. Left' \subseteq Left BY <1>3 DEF Left, Entered
<1>8. fn \in Reached
  <2>1. Last(stack).fn \in OnStack BY <1>1, TopFacts DEF OnStack
  <2>2. Last(stack).fn \in Reached BY <1>1, <1>5, <2>1 DEF StackInv, LeftInv
  <2> QED BY <1>1, <1>4, <2>2, ReachedFacts
<1>9. \A f : LeadsToOutput(f)' <=> LeadsToOutput(f) BY <1>3, <1>6 DEF LeadsToOutput
<1>10. LeftInv' BY <1>3, <1>4, <1>5, <1>6, <1>7, <1>8, <1>9 DEF LeftInv
<1> QED BY <1>1, <1>4, <1>6, <1>10 DEF NeededInv, NeededExact

(* All successors have their final marks, so the mark of fn is right. *)
LEMMA LeaveNeeded ==
  ASSUME InitInv, NeededInv, Leave
  PROVE  NeededInv'
<1>1. PICK fn \in Fns :
        /\ TypeOK /\ next \in Graphs /\ StackInv /\ stack # <<>> /\ pc = "search"
        /\ stack' \in Seq(FrameType) /\ Len(stack') = Len(stack) - 1
        /\ \A k \in 1 .. Len(stack') : k \in 1 .. Len(stack) /\ stack'[k] = stack[k]
        /\ needed' = IF Range(next[fn]) \cap (needed \cup outputs) # {}
                     THEN needed \cup {fn} ELSE needed \ {fn}
        /\ UNCHANGED <<graph, pc, queue, dependencies, seen, roots_done>>
        /\ fn \in OnStack /\ OnStack' = OnStack \ {fn} /\ Entered' = Entered
        /\ \A g \in Successors(next, {fn}) : g \in seen /\ g \notin OnStack
  BY LeaveFacts
<1>2. LeftInv BY <1>1 DEF NeededInv
<1>3. /\ next' = next /\ outputs' = outputs /\ Reached' = Reached /\ seen' = seen
  BY <1>1 DEF graph, Reached
<1>4. \A f : LeadsToOutput(f)' <=> LeadsToOutput(f) BY <1>3 DEF LeadsToOutput
<1>5. fn \in Entered /\ Left' = Left \cup {fn} /\ fn \notin Left
  BY <1>1 DEF StackInv, Left
<1>6. fn \in Nodes /\ NullFn \notin Nodes /\ GraphRoot \notin Fns /\ Fns \subseteq Nodes
  BY SizeAssumption DEF GraphRoot, Fns, Nodes
<1>7. NullFn \notin needed \cup outputs BY <1>1, <1>6 DEF TypeOK, NeededInv
<1>8. \A g \in Successors(next, {fn}) : g \in needed <=> LeadsToOutput(g)
  BY <1>1, <1>2 DEF LeftInv, Left, Entered
<1>9. Range(next[fn]) \cap (needed \cup outputs) # {} <=>
        \E g \in Successors(next, {fn}) : g \in needed \/ g \in outputs
  <2>1. \A g : g # NullFn => (g \in Range(next[fn]) <=> g \in Successors(next, {fn}))
    BY <1>1, <1>6, SuccessorsOf
  <2>2. \A g \in Successors(next, {fn}) : g \in Range(next[fn])
    BY <1>1, <1>6, SuccessorsOf
  <2> QED BY <1>7, <2>1, <2>2
<1>10. Range(next[fn]) \cap (needed \cup outputs) # {} <=> LeadsToOutput(fn)
  BY <1>8, <1>9, LeadsToOutputStep
<1>11. fn \in needed' <=> LeadsToOutput(fn) BY <1>1, <1>10
<1>12. \A f : f # fn => (f \in needed' <=> f \in needed) BY <1>1
<1>13. \A f \in Left' : f \in needed' <=> LeadsToOutput(f)
  BY <1>2, <1>5, <1>11, <1>12 DEF LeftInv
<1>14. \A f \in Left' : Successors(next, {f}) \subseteq seen
  BY <1>1, <1>2, <1>5 DEF LeftInv
<1>15. needed' \subseteq Entered \cup {GraphRoot} /\ GraphRoot \in needed'
  BY <1>2, <1>5, <1>6, <1>12 DEF LeftInv
<1>16. LeftInv'
  BY <1>1, <1>2, <1>3, <1>4, <1>13, <1>14, <1>15 DEF LeftInv
<1> QED BY <1>1, <1>3, <1>16 DEF NeededInv, NeededExact

(* At the end everything the root reaches has been left. *)
LEMMA EndSearchNeeded ==
  ASSUME InitInv, NeededInv, EndSearch
  PROVE  NeededInv'
<1>1. /\ pc = "search" /\ pc' = "done" /\ stack = <<>>
      /\ roots_done = Len(next[GraphRoot])
      /\ UNCHANGED <<graph, queue, dependencies, seen, roots_done, stack, needed>>
      /\ LeftInv /\ outputs \subseteq Fns /\ next \in Graphs /\ TypeOK
  BY DEF EndSearch, NeededInv, InitInv, GraphInv
<1>2. GraphRoot \in Nodes /\ Fns \subseteq Nodes
  BY SizeAssumption DEF GraphRoot, Fns, Nodes
<1>3. Left = Entered BY <1>1 DEF Left, OnStack
<1>4. Reached = Entered \cup {GraphRoot}
  <2> DEFINE S == Entered \cup {GraphRoot}
  <2>1. Reached \subseteq Nodes /\ S \subseteq Reached
    BY <1>1, ReachedFacts DEF LeftInv
  <2>2. ASSUME NEW f \in S PROVE Successors(next, {f}) \subseteq S
    <3>1. CASE f = GraphRoot
      <4> SUFFICES ASSUME NEW g \in Successors(next, {GraphRoot})
                   PROVE  g \in Entered
        BY <3>1
      <4>1. PICK m \in DOMAIN next[GraphRoot] : g = next[GraphRoot][m]
        BY <1>1, <1>2, SuccessorsOf DEF Range
      <4>2. m \in 1 .. roots_done BY <1>1, <1>2, GraphFacts
      <4> QED BY <4>1, <4>2 DEF Entered
    <3>2. CASE f \in Entered BY <1>1, <1>3, <3>2 DEF LeftInv, Entered
    <3> QED BY <3>1, <3>2
  <2> HIDE DEF S
  <2>3. S \in SUBSET Nodes /\ GraphRoot \in S BY <2>1 DEF S
  <2>4. Reached \subseteq S BY <1>1, <2>2, <2>3, ReachedFacts
  <2> QED BY <2>1, <2>4 DEF S
<1>5. needed = {GraphRoot} \cup {f \in Reached : LeadsToOutput(f)}
  <2>1. \A f \in Entered : f \in needed <=> LeadsToOutput(f)
    BY <1>1, <1>3 DEF LeftInv
  <2>2. needed \subseteq Entered \cup {GraphRoot} /\ GraphRoot \in needed
    BY <1>1 DEF LeftInv
  <2> QED BY <1>4, <2>1, <2>2
<1>6. outputs \cap Fns = outputs BY <1>1
<1>7. needed = NeededFor(next, GraphRoot, outputs \cap Fns)
  BY <1>5, <1>6 DEF NeededFor, Reached, LeadsToOutput
<1>8. NeededExact' BY <1>1, <1>7 DEF NeededExact, graph
<1> QED BY <1>1, <1>8 DEF NeededInv, graph

(* The search starts with the root marked and nothing entered. *)
LEMMA StartSearchNeeded ==
  ASSUME InitInv, NeededInv, StartSearch
  PROVE  NeededInv'
<1>1. /\ pc = "dependencies" /\ CountInv /\ outputs \subseteq Fns
      /\ pc' = IF outputs = {} THEN "done" ELSE "search"
      /\ seen' = {} /\ needed' = IF outputs = {} THEN {} ELSE {GraphRoot}
      /\ UNCHANGED <<graph, queue, dependencies, roots_done, stack>>
  BY DEF StartSearch, InitInv, NeededInv
<1>2. CASE outputs = {}
  BY <1>1, <1>2 DEF NeededInv, NeededExact, graph
<1>3. CASE outputs # {}
  <2>1. roots_done' = 0 /\ next' = next /\ outputs' = outputs
    BY <1>1 DEF CountInv, graph
  <2>2. 1 .. 0 = {} OBVIOUS
  <2>3. Entered' = {} BY <1>1, <2>1, <2>2 DEF Entered
  <2>4. LeftInv' BY <1>1, <1>3, <2>3 DEF LeftInv, Left
  <2> QED BY <1>1, <1>3, <2>1, <2>4 DEF NeededInv, NeededExact
<1> QED BY <1>2, <1>3

(* Every step keeps the marks right. *)
LEMMA NeededStep == InitInv /\ NeededInv /\ [Next]_vars => NeededInv'
<1> SUFFICES ASSUME InitInv, NeededInv, [Next]_vars PROVE NeededInv' OBVIOUS
<1>1. CASE \E fn \in queue : Expand(fn)
  BY <1>1 DEF Expand, NeededInv, NeededExact, graph
<1>2. CASE StartSearch BY <1>2, StartSearchNeeded
<1>3. CASE NextRoot BY <1>3, NextRootNeeded
<1>4. CASE Descend BY <1>4, DescendNeeded
<1>5. CASE Leave BY <1>5, LeaveNeeded
<1>6. CASE EndSearch BY <1>6, EndSearchNeeded
<1>7. CASE UNCHANGED vars
  <2> USE <1>7 DEF vars, graph
  <2>1. Reached' = Reached /\ Entered' = Entered /\ OnStack' = OnStack
    BY DEF Reached, Entered, OnStack
  <2>2. Left' = Left BY <2>1 DEF Left
  <2>3. \A f : LeadsToOutput(f)' <=> LeadsToOutput(f) BY DEF LeadsToOutput
  <2>4. LeftInv => LeftInv' BY <2>1, <2>2, <2>3 DEF LeftInv
  <2> QED BY <2>4 DEF NeededInv, NeededExact
<1> QED BY <1>1, <1>2, <1>3, <1>4, <1>5, <1>6, <1>7 DEF Next

(* NeededIsExact: if every output edge is valid, init_to_execute() marks   *)
(* exactly the functions from which a path leads to a captured input,      *)
(* although it may enter a root twice and overwrites marks as it goes.     *)
THEOREM NeededIsExact ==
  ASSUME NullOutput = FALSE
  PROVE  Spec => []NeededExact
<1>1. Init => NeededInv BY NeededInit
<1>2. NeededInv => NeededExact BY DEF NeededInv
<1> QED BY TraversalInvariant, NeededStep, <1>1, <1>2, PTL DEF Spec
=============================================================================
