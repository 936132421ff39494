------------------------ MODULE AutogradEngineProofs ------------------------
(***************************************************************************)
(* Theorems about AutogradEngine, for every graph, every number of devices *)
(* and every set of concurrent and reentrant calls of execute().           *)
(***************************************************************************)
EXTENDS AutogradEngine, FiniteSetTheorems, WellFoundedInduction, TLAPS

-----------------------------------------------------------------------------
(***************************************************************************)
(* Constants.                                                              *)
(***************************************************************************)
LEMMA NextOfType ==
  ASSUME NEW t \in Tasks, NEW f \in Nodes
  PROVE  /\ NextOf[t][f] \in Seq(Fns \cup {NullFn})
         /\ DOMAIN NextOf[t] = Nodes
BY GraphAssumption DEF NextOf, Nodes

LEMMA NodesFinite == IsFiniteSet(Nodes)
BY GraphAssumption, FS_Singleton, FS_Union DEF Nodes

(* Only finitely many edges leave the functions of a finite graph. *)
LEMMA EdgesFinite ==
  ASSUME NEW t \in Tasks, NEW P
  PROVE  IsFiniteSet(EdgesOf(NextOf[t], P))
<1> DEFINE part == P \cap Nodes
           out(p) == {p} \X DOMAIN NextOf[t][p]
<1>1. IsFiniteSet(part)
  BY NodesFinite, FS_Subset
<1>2. IsFiniteSet({out(p) : p \in part})
  <2> DEFINE F == [p \in part |-> out(p)]
  <2>1. F \in Surjection(part, {out(p) : p \in part})
    BY DEF Surjection
  <2> QED BY <1>1, <2>1, FS_Surjection
<1>3. \A p \in part : IsFiniteSet(out(p))
  <2>1. TAKE p \in part
  <2>2. NextOf[t][p] \in Seq(Fns \cup {NullFn})
    BY NextOfType
  <2>3. DOMAIN NextOf[t][p] = 1 .. Len(NextOf[t][p]) /\ Len(NextOf[t][p]) \in Nat
    BY <2>2
  <2>4. IsFiniteSet(DOMAIN NextOf[t][p])
    BY <2>3, FS_Interval
  <2>5. IsFiniteSet({p})
    BY FS_Singleton
  <2> QED BY <2>4, <2>5, FS_Product
<1>4. IsFiniteSet(UNION {out(p) : p \in part})
  BY <1>2, <1>3, FS_UNION
<1>5. DOMAIN NextOf[t] = Nodes
  BY NextOfType DEF Nodes
<1> QED BY <1>4, <1>5 DEF EdgesOf

LEMMA InitialDependenciesType ==
  ASSUME NEW t \in Tasks
  PROVE  InitialDependencies[t] \in [Fns -> Nat]
<1> DEFINE reached == Closure(NextOf[t], {GraphRoot})
<1>1. \A f \in Nodes : Cardinality(EdgesInto(NextOf[t], reached, f)) \in Nat
  <2>1. TAKE f \in Nodes
  <2>2. IsFiniteSet(EdgesInto(NextOf[t], reached, f))
    BY EdgesFinite, FS_Subset DEF EdgesInto
  <2> QED BY <2>2, FS_CardinalityType
<1> HIDE DEF reached
<1>2. Dependencies(NextOf[t], GraphRoot) =
        [f \in Nodes |-> Cardinality(EdgesInto(NextOf[t], reached, f))]
  BY NextOfType DEF Dependencies, reached, Nodes
<1> QED BY <1>1, <1>2 DEF InitialDependencies, Nodes

(* The least element of a set of numbers. *)
LEMMA MinExists ==
  ASSUME NEW S \in SUBSET Nat, S # {}
  PROVE  \E m \in S : \A k \in S : m <= k
<1> DEFINE R == {ss \in Nat \X Nat : ss[1] < ss[2]}
<1>1. R = OpToRel(<, Nat)
  BY Zenon DEF OpToRel
<1>2. IsWellFoundedOn(R, Nat)
  BY <1>1, NatLessThanWellFounded, Zenon
<1> HIDE DEF R
<1>3. PICK m \in S : \A y \in S : ~ (<<y, m>> \in R)
  BY <1>2, WFMin
<1>4. ASSUME NEW k \in S PROVE m <= k
  <2>1. <<k, m>> \notin R
    BY <1>3
  <2>2. ~ (<<k, m>>[1] < <<k, m>>[2])
    BY <2>1 DEF R
  <2>3. ~ (k < m)
    BY <2>2
  <2>4. k \in Nat /\ m \in Nat
    OBVIOUS
  <2> QED BY <2>3, <2>4
<1> QED BY <1>4

(* e is an edge to f in the graph of call t. *)
LeadsTo(t, e, f) ==
  /\ e[1] \in Nodes
  /\ e[2] \in DOMAIN NextOf[t][e[1]]
  /\ NextOf[t][e[1]][e[2]] = f

(* An edge to f leads to one of f's inputs. *)
LEMMA InputNrType ==
  ASSUME NEW t \in Tasks, NEW f \in Fns, NEW e, LeadsTo(t, e, f)
  PROVE  InputNrOf(t, e) \in DOMAIN InputDevice[f]
<1>1. f # NullFn
  BY NamesAssumption DEF Nodes
<1>2. CASE e[1] = GraphRoot
  <2>1. NextOf[t][e[1]] = Roots[t]
    BY <1>2 DEF NextOf, Nodes
  <2> QED BY <1>2, <2>1, GraphAssumption DEF LeadsTo, InputNrOf
<1>3. CASE e[1] # GraphRoot
  <2>1. e[1] \in Fns /\ NextOf[t][e[1]] = NextEdges[e[1]]
    BY <1>3 DEF NextOf, Nodes, LeadsTo
  <2> QED BY <1>1, <1>3, <2>1, GraphAssumption DEF LeadsTo, InputNrOf
<1> QED BY <1>2, <1>3

-----------------------------------------------------------------------------
(***************************************************************************)
(* Type correctness.  The types of a step's results follow from those of   *)
(* its arguments only where a frame is in order: what is not initialised   *)
(* in a FunctionTask or thread_main() at some point must not be used there. *)
(***************************************************************************)
HasTask     == PCs \ {"setowner", "loop", "pop"}
HasFunction == {"capture", "call", "apply", "nested", "lock", "propagate",
                "except"}

FrameOK(fr) ==
  /\ fr.pc = "setowner" => fr.loop \in Tasks
  /\ fr.pc \in HasTask => fr.base \in Tasks
  /\ fr.pc \in HasFunction => fr.fn \in Nodes
  /\ fr.pc = "lock" => NextOf[fr.base][fr.fn] # <<>>
  /\ fr.pc = "propagate" => fr.i \in DOMAIN NextOf[fr.base][fr.fn]
  /\ fr.pc = "dummy" => fr.base_owner \in Workers

(* The thread_main() a worker starts with has no graph_task, and all but   *)
(* the innermost one are inside a function that has called execute().      *)
StackOK ==
  \A w \in Workers :
    /\ stack[w][1].loop = NoTask
    /\ \A k \in 1 .. Len(stack[w]) : FrameOK(stack[w][k])
    /\ \A k \in 1 .. (Len(stack[w]) - 1) : stack[w][k].pc = "nested"

TypeInv == TypeOK /\ StackOK

StackInv ==
  /\ stack \in [Workers -> Seq(Frame)]
  /\ \A w \in Workers : Len(stack[w]) > 0
  /\ StackOK

LEMMA TopOK ==
  ASSUME TypeInv, NEW w \in Workers
  PROVE  Top(w) \in Frame /\ FrameOK(Top(w)) /\ Len(stack[w]) \in Nat \ {0}
<1>1. stack[w] \in Seq(Frame) /\ Len(stack[w]) > 0
  BY DEF TypeInv, TypeOK
<1>2. Len(stack[w]) \in 1 .. Len(stack[w])
  BY <1>1
<1>3. stack[w][Len(stack[w])] \in Frame
  BY <1>1, <1>2
<1>4. FrameOK(stack[w][Len(stack[w])])
  BY <1>2 DEF TypeInv, StackOK
<1> QED BY <1>1, <1>3, <1>4 DEF Top

(* The stack of w changes to s2, a stack in order. *)
LEMMA NewStackOK ==
  ASSUME TypeInv, NEW w \in Workers, NEW s2 \in Seq(Frame), Len(s2) > 0,
         s2[1].loop = NoTask,
         \A k \in 1 .. Len(s2) : FrameOK(s2[k]),
         \A k \in 1 .. (Len(s2) - 1) : s2[k].pc = "nested",
         stack' = [stack EXCEPT ![w] = s2]
  PROVE  StackInv'
<1>1. stack \in [Workers -> Seq(Frame)]
  BY DEF TypeInv, TypeOK
<1>2. stack' \in [Workers -> Seq(Frame)]
  BY <1>1
<1>3. stack'[w] = s2 /\ \A v \in Workers \ {w} : stack'[v] = stack[v]
  BY <1>1
<1>4. \A v \in Workers : Len(stack'[v]) > 0
  BY <1>3 DEF TypeInv, TypeOK
<1>5. StackOK'
  <2> SUFFICES ASSUME NEW v \in Workers
               PROVE  /\ stack'[v][1].loop = NoTask
                      /\ \A k \in 1 .. Len(stack'[v]) : FrameOK(stack'[v][k])
                      /\ \A k \in 1 .. (Len(stack'[v]) - 1) :
                           stack'[v][k].pc = "nested"
    BY DEF StackOK, FrameOK
  <2>1. CASE v = w
    BY <2>1, <1>3
  <2>2. CASE v # w
    BY <2>2, <1>3 DEF TypeInv, StackOK
  <2> QED BY <2>1, <2>2
<1> QED BY <1>2, <1>4, <1>5 DEF StackInv

(* Replacing the top frame by one that is in order keeps the stacks so. *)
LEMMA SetTopOK ==
  ASSUME TypeInv, NEW w \in Workers, NEW fr \in Frame, FrameOK(fr),
         fr.loop = Top(w).loop, SetTop(w, fr)
  PROVE  StackInv'
<1> DEFINE s == stack[w]
           n == Len(stack[w])
           s2 == [s EXCEPT ![n] = fr]
<1>1. s \in Seq(Frame) /\ n \in Nat \ {0}
  BY TopOK DEF TypeInv, TypeOK
<1>2. s2 \in Seq(Frame) /\ Len(s2) = n
  BY <1>1
<1>3. stack' = [stack EXCEPT ![w] = s2]
  BY DEF SetTop
<1>4. \A k \in 1 .. n : s2[k] = IF k = n THEN fr ELSE s[k]
  BY <1>1
<1> HIDE DEF s2
<1>5. s2[1].loop = NoTask
  BY <1>1, <1>4 DEF TypeInv, StackOK, Top
<1>6. \A k \in 1 .. Len(s2) : FrameOK(s2[k])
  BY <1>2, <1>4 DEF TypeInv, StackOK
<1>7. \A k \in 1 .. (Len(s2) - 1) : s2[k].pc = "nested"
  BY <1>1, <1>2, <1>4 DEF TypeInv, StackOK
<1>8. s2 \in Seq(Frame) /\ Len(s2) > 0
  BY <1>1, <1>2
<1> QED BY <1>3, <1>5, <1>6, <1>7, <1>8, NewStackOK

(* What remains to be shown of TypeInv' once the stacks are in order. *)
RestOK ==
  /\ ready \in [Workers -> SUBSET FunctionTask]
  /\ checkpoint_valid \in [Workers -> BOOLEAN]
  /\ grad_mode \in [Workers -> BOOLEAN]
  /\ phase \in [Tasks -> Phases]
  /\ result \in [Tasks -> {"none", "ok", "error", "incomplete"}]
  /\ mutex \in [Tasks -> BOOLEAN]
  /\ outstanding_tasks \in [Tasks -> Int]
  /\ has_error \in [Tasks -> BOOLEAN]
  /\ owner \in [Tasks -> Workers \cup {NO_DEVICE}]
  /\ dependencies \in [Tasks -> [Fns -> Nat]]
  /\ not_ready \in [Tasks -> [Fns -> Buffers]]
  /\ captured_vars \in [Tasks -> [Fns -> Buffers]]
  /\ applied \in [Tasks -> [Nodes -> Buffers]]
  /\ dangling \in BOOLEAN

LEMMA TypeInvSplit ==
  /\ TypeInv <=> StackInv /\ RestOK
  /\ TypeInv' <=> StackInv' /\ RestOK'
BY DEF TypeInv, TypeOK, StackInv, RestOK

(* The frame a thread_main() without a task is in. *)
LEMMA EmptyFrameOK ==
  ASSUME NEW loop \in Tasks \cup {NoTask}, NEW pc \in {"setowner", "loop"},
         pc = "setowner" => loop \in Tasks
  PROVE  /\ EmptyFrame(loop, pc) \in Frame
         /\ FrameOK(EmptyFrame(loop, pc))
         /\ EmptyFrame(loop, pc).loop = loop
BY DEF EmptyFrame, Frame, FrameOK, PCs, HasTask, HasFunction

LEMMA CPUWorker == CPU \in Workers /\ NO_DEVICE \notin Workers
BY DevicesAssumption DEF CPU, Workers, NO_DEVICE

LEMMA TypeInit == Init => TypeInv
<1> SUFFICES ASSUME Init PROVE TypeInv
  OBVIOUS
<1>1. EmptyFrame(NoTask, "loop") \in Frame /\ FrameOK(EmptyFrame(NoTask, "loop"))
      /\ EmptyFrame(NoTask, "loop").loop = NoTask
  BY EmptyFrameOK
<1>2. StackInv
  <2> DEFINE e == EmptyFrame(NoTask, "loop")
  <2>1. e \in Frame /\ FrameOK(e) /\ e.loop = NoTask
    BY <1>1
  <2>2. stack = [w \in Workers |-> <<e>>]
    BY DEF Init
  <2> HIDE DEF e
  <2> QED BY <2>1, <2>2 DEF StackInv, StackOK
<1>3. /\ checkpoint_valid \in [Workers -> BOOLEAN]
      /\ grad_mode \in [Workers -> BOOLEAN]
      /\ mutex \in [Tasks -> BOOLEAN]
      /\ has_error \in [Tasks -> BOOLEAN]
      /\ dangling \in BOOLEAN
  BY DEF Init
<1>4. /\ not_ready \in [Tasks -> [Fns -> Buffers]]
      /\ captured_vars \in [Tasks -> [Fns -> Buffers]]
      /\ applied \in [Tasks -> [Nodes -> Buffers]]
  BY DEF Init, Buffers
<1>5. RestOK
  BY <1>3, <1>4 DEF Init, RestOK, Phases
<1> QED BY <1>2, <1>5, TypeInvSplit

(* ReadyQueue::push() with a FunctionTask of a call. *)
LEMMA PushType ==
  ASSUME TypeInv, NEW d, NEW item \in FunctionTask, Push(d, item)
  PROVE  /\ ready' \in [Workers -> SUBSET FunctionTask]
         /\ outstanding_tasks' \in [Tasks -> Int]
<1>1. ready \in [Workers -> SUBSET FunctionTask]
  BY DEF TypeInv, TypeOK
<1>2. ready' = [ready EXCEPT ![d] = ready[d] \cup {item}]
  BY DEF Push
<1>3. ready' \in [Workers -> SUBSET FunctionTask]
  <2>1. CASE d \in Workers
    BY <1>1, <1>2, <2>1
  <2>2. CASE d \notin Workers
    BY <1>1, <1>2, <2>2
  <2> QED BY <2>1, <2>2
<1>4. item.base \in Tasks
  BY DEF FunctionTask
<1>5. outstanding_tasks' \in [Tasks -> Int]
  BY <1>4 DEF TypeInv, TypeOK, Push
<1> QED BY <1>3, <1>5

LEMMA StartTaskType ==
  ASSUME TypeInv, NEW t \in Tasks, StartTask(t),
         phase' \in [Tasks -> Phases]
  PROVE  RestOK'
<1> DEFINE item == [base |-> t, fn |-> GraphRoot, inputs |-> {}]
<1>1. item \in FunctionTask
  BY DEF FunctionTask, Nodes
<1>2. Push(CPU, item)
  BY DEF StartTask
<1> HIDE DEF item
<1>3. /\ ready' \in [Workers -> SUBSET FunctionTask]
      /\ outstanding_tasks' \in [Tasks -> Int]
  BY <1>1, <1>2, PushType
<1>4. InitialDependencies[t] \in [Fns -> Nat]
  BY InitialDependenciesType
<1>5. /\ mutex' = [mutex EXCEPT ![t] = TRUE]
      /\ dependencies' = [dependencies EXCEPT ![t] = InitialDependencies[t]]
      /\ UNCHANGED <<has_error, owner, not_ready, captured_vars, result,
                     checkpoint_valid, grad_mode, applied, dangling>>
  BY DEF StartTask, threadVars, history
<1>6. RestOK
  BY TypeInvSplit
<1> QED BY <1>3, <1>4, <1>5, <1>6 DEF RestOK

LEMMA EndTaskType ==
  ASSUME TypeInv, NEW t \in Tasks, EndTask(t)
  PROVE  /\ phase' \in [Tasks -> Phases]
         /\ result' \in [Tasks -> {"none", "ok", "error", "incomplete"}]
BY DEF TypeInv, TypeOK, EndTask, Phases

(* Steps of a thread that is not a worker. *)
LEMMA CallerStepType ==
  ASSUME TypeInv, NEW t \in Tasks, CallerStep(t)
  PROVE  TypeInv'
<1> USE DEF Phases
<1>0. RestOK /\ StackInv
  BY TypeInvSplit
<1>1. UNCHANGED stack
  BY DEF CallerStep, Execute, WaitCheck, WaitBlock, SpuriousWakeup,
         WaitReacquire, ExecuteReturn
<1>2. StackInv'
  BY <1>0, <1>1 DEF StackInv, StackOK, FrameOK
<1>3. RestOK'
  <2>1. CASE Execute(t)
    <3>1. StartTask(t) /\ phase' \in [Tasks -> Phases]
      BY <2>1, <1>0 DEF Execute, RestOK
    <3> QED BY <3>1, StartTaskType
  <2>2. CASE WaitCheck(t)
    BY <2>2, <1>0 DEF WaitCheck, RestOK, threadVars, graphTaskVars, history
  <2>3. CASE WaitBlock(t)
    BY <2>3, <1>0 DEF WaitBlock, RestOK, threadVars, history
  <2>4. CASE SpuriousWakeup(t)
    BY <2>4, <1>0 DEF SpuriousWakeup, RestOK, threadVars, graphTaskVars, history
  <2>5. CASE WaitReacquire(t)
    BY <2>5, <1>0 DEF WaitReacquire, RestOK, threadVars, history
  <2>6. CASE ExecuteReturn(t)
    <3>1. EndTask(t)
      BY <2>6 DEF ExecuteReturn
    <3>2. /\ phase' \in [Tasks -> Phases]
          /\ result' \in [Tasks -> {"none", "ok", "error", "incomplete"}]
      BY <3>1, EndTaskType
    <3> QED BY <2>6, <3>2, <1>0 DEF ExecuteReturn, RestOK, threadVars, history
  <2> QED BY <2>1, <2>2, <2>3, <2>4, <2>5, <2>6 DEF CallerStep
<1> QED BY <1>2, <1>3, TypeInvSplit

(***************************************************************************)
(* Steps of a worker.                                                      *)
(***************************************************************************)

(* A step that only moves the top frame of w on to pc. *)
LEMMA GotoOK ==
  ASSUME TypeInv, NEW w \in Workers, NEW pc \in PCs, Goto(w, pc),
         FrameOK([Top(w) EXCEPT !.pc = pc])
  PROVE  StackInv'
<1> DEFINE fr == [Top(w) EXCEPT !.pc = pc]
<1>1. Top(w) \in Frame
  BY TopOK
<1>2. fr \in Frame /\ fr.loop = Top(w).loop
  BY <1>1 DEF Frame
<1>3. FrameOK(fr) /\ SetTop(w, fr)
  BY DEF Goto
<1> HIDE DEF fr
<1> QED BY <1>2, <1>3, SetTopOK

LEMMA LoopContinueType ==
  ASSUME TypeInv, NEW w \in Workers, LoopContinue(w)
  PROVE  TypeInv'
<1>1. FrameOK([Top(w) EXCEPT !.pc = "pop"])
  BY TopOK DEF FrameOK, Frame, HasTask, HasFunction, PCs
<1>2. StackInv'
  BY <1>1, GotoOK DEF LoopContinue, PCs
<1>3. RestOK'
  BY TypeInvSplit
     DEF LoopContinue, RestOK, threadVars, callVars, graphTaskVars, history
<1> QED BY <1>2, <1>3, TypeInvSplit

LEMMA LoopExitType ==
  ASSUME TypeInv, NEW w \in Workers, LoopExit(w)
  PROVE  TypeInv'
<1> DEFINE s == stack[w]
           below == Len(s) - 1
           cut == SubSeq(s, 1, below)
           fr == [cut[below] EXCEPT !.pc = "apply"]
           s2 == [cut EXCEPT ![below] = fr]
<1>1. /\ s \in Seq(Frame) /\ Len(s) \in Nat \ {0}
      /\ s[1].loop = NoTask
      /\ \A k \in 1 .. Len(s) : FrameOK(s[k])
      /\ \A k \in 1 .. (Len(s) - 1) : s[k].pc = "nested"
  BY TopOK DEF TypeInv, TypeOK, StackOK
<1>2. Len(s) > 1
  BY <1>1 DEF LoopExit, Top
<1>3. /\ cut \in Seq(Frame) /\ Len(cut) = below
      /\ \A k \in 1 .. below : cut[k] = s[k]
  BY <1>1, <1>2
<1>4. /\ s[below] \in Frame /\ FrameOK(s[below]) /\ s[below].pc = "nested"
      /\ below \in Nat \ {0}
      /\ \A k \in 1 .. below : FrameOK(s[k]) /\ s[k].pc = "nested"
  BY <1>1, <1>2
<1>5. stack' = [stack EXCEPT ![w] = s2]
  BY Zenon DEF LoopExit
<1> HIDE DEF cut, below
<1>6. cut[below] = s[below]
  BY <1>3, <1>4
<1>7. fr \in Frame /\ FrameOK(fr) /\ fr.loop = s[below].loop
  BY <1>4, <1>6 DEF Frame, FrameOK, PCs, HasTask, HasFunction
<1> HIDE DEF fr
<1>8. /\ s2 \in Seq(Frame) /\ Len(s2) = below
      /\ \A k \in 1 .. below : s2[k] = IF k = below THEN fr ELSE s[k]
  BY <1>3, <1>4, <1>7
<1> HIDE DEF s2
<1>9. StackInv'
  <2>1. Len(s2) > 0 /\ s2[1].loop = NoTask
    <3>1. 1 \in 1 .. below
      BY <1>4
    <3>2. CASE below = 1
      BY <1>1, <1>7, <1>8, <3>1, <3>2
    <3>3. CASE below # 1
      BY <1>1, <1>4, <1>8, <3>1, <3>3
    <3> QED BY <3>2, <3>3
  <2>2. \A k \in 1 .. Len(s2) : FrameOK(s2[k])
    BY <1>4, <1>7, <1>8
  <2>3. \A k \in 1 .. (Len(s2) - 1) : s2[k].pc = "nested"
    <3> SUFFICES ASSUME NEW k \in 1 .. (Len(s2) - 1)
                 PROVE  s2[k].pc = "nested"
      OBVIOUS
    <3>1. k \in 1 .. below /\ k # below
      BY <1>4, <1>8
    <3> QED BY <1>4, <1>8, <3>1
  <2> QED BY <1>5, <1>8, <2>1, <2>2, <2>3, NewStackOK
<1>10. Top(w).loop \in Tasks /\ EndTask(Top(w).loop)
  BY TopOK DEF LoopExit, Frame
<1>11. /\ phase' \in [Tasks -> Phases]
       /\ result' \in [Tasks -> {"none", "ok", "error", "incomplete"}]
  BY <1>10, EndTaskType
<1>12. RestOK'
  BY <1>11, TypeInvSplit
     DEF LoopExit, RestOK, threadVars, graphTaskVars, history
<1> QED BY <1>9, <1>12, TypeInvSplit

LEMMA PopType ==
  ASSUME TypeInv, NEW w \in Workers, Pop(w)
  PROVE  TypeInv'
<1>1. PICK x \in HeapTop(w) :
        /\ ready' = [ready EXCEPT ![w] = @ \ {x}]
        /\ SetTop(w, [Top(w) EXCEPT !.base = x.base, !.fn = x.fn,
                                    !.inputs = x.inputs, !.pc = FirstStep(x)])
        /\ grad_mode' = [grad_mode EXCEPT ![w] =
             IF x.fn # NullFn /\ ~ has_error[x.base] THEN CreateGraph[x.base]
             ELSE @]
  BY DEF Pop
<1>2. x \in FunctionTask
  BY DEF HeapTop, TypeInv, TypeOK
<1>3. x.base \in Tasks /\ x.fn \in Nodes \cup {NullFn} /\ x.inputs \in SUBSET Edges
  BY <1>2 DEF FunctionTask
<1> DEFINE fr == [Top(w) EXCEPT !.base = x.base, !.fn = x.fn,
                                !.inputs = x.inputs, !.pc = FirstStep(x)]
<1>4. FirstStep(x) \in {"owner", "capture", "call"}
  BY DEF FirstStep
<1>5. FirstStep(x) # "owner" => x.fn # NullFn
  BY DEF FirstStep
<1>6. Top(w) \in Frame
  BY TopOK
<1>7. fr \in Frame /\ fr.loop = Top(w).loop
  BY <1>3, <1>4, <1>6 DEF Frame, PCs
<1>8. FrameOK(fr)
  BY <1>3, <1>4, <1>5, <1>6 DEF FrameOK, Frame, HasTask, HasFunction
<1> HIDE DEF fr
<1>9. StackInv'
  BY <1>1, <1>7, <1>8, SetTopOK DEF fr
<1>10. ready' \in [Workers -> SUBSET FunctionTask]
  BY <1>1 DEF TypeInv, TypeOK
<1>11. grad_mode' \in [Workers -> BOOLEAN]
  <2>1. CreateGraph[x.base] \in BOOLEAN
    BY <1>3, GraphAssumption
  <2>2. grad_mode[w] \in BOOLEAN /\ grad_mode \in [Workers -> BOOLEAN]
    BY DEF TypeInv, TypeOK
  <2> QED BY <1>1, <2>1, <2>2
<1>12. UNCHANGED <<checkpoint_valid, phase, result, mutex, outstanding_tasks,
                   has_error, owner, dependencies, not_ready, captured_vars,
                   applied, dangling>>
  BY DEF Pop, callVars, graphTaskVars, history
<1>13. RestOK'
  BY <1>10, <1>11, <1>12, TypeInvSplit DEF RestOK
<1> QED BY <1>9, <1>13, TypeInvSplit

LEMMA CaptureType ==
  ASSUME TypeInv, NEW w \in Workers, Capture(w)
  PROVE  TypeInv'
<1> DEFINE fr == Top(w)
           pc == IF fr.fn \in Needed[fr.base] THEN "call" ELSE "owner"
<1>1. fr \in Frame /\ FrameOK(fr) /\ fr.pc = "capture"
  BY TopOK DEF Capture, At
<1>2. fr.base \in Tasks /\ fr.fn \in Nodes /\ fr.inputs \in SUBSET Edges
  BY <1>1 DEF FrameOK, Frame, HasTask, HasFunction, PCs
<1>3. pc \in PCs /\ Goto(w, pc)
  BY DEF Capture, PCs
<1>4. FrameOK([fr EXCEPT !.pc = pc])
  BY <1>1, <1>2 DEF FrameOK, Frame, HasTask, HasFunction
<1> HIDE DEF pc
<1>5. StackInv'
  BY <1>3, <1>4, GotoOK
<1>6. captured_vars' \in [Tasks -> [Fns -> Buffers]]
  <2>1. captured_vars' = [captured_vars EXCEPT ![fr.base] =
                            [captured_vars[fr.base] EXCEPT ![fr.fn] = fr.inputs]]
    BY DEF Capture
  <2>2. fr.inputs \in Buffers
    BY <1>2 DEF Buffers
  <2>3. captured_vars \in [Tasks -> [Fns -> Buffers]]
    BY DEF TypeInv, TypeOK
  <2>4. [captured_vars[fr.base] EXCEPT ![fr.fn] = fr.inputs] \in [Fns -> Buffers]
    BY <1>2, <2>2, <2>3
  <2> QED BY <1>2, <2>1, <2>3, <2>4
<1>7. RestOK'
  BY <1>6, TypeInvSplit DEF Capture, RestOK, threadVars, callVars, history
<1> QED BY <1>5, <1>7, TypeInvSplit

LEMMA CallFunctionType ==
  ASSUME TypeInv, NEW w \in Workers, CallFunction(w)
  PROVE  TypeInv'
<1> DEFINE top == Top(w)
           fr == [top EXCEPT !.pc = "apply", !.inputs = {},
                             !.prev = checkpoint_valid[w]]
<1>1. top \in Frame /\ FrameOK(top) /\ top.pc = "call"
  BY TopOK DEF CallFunction, At
<1>2. checkpoint_valid[w] \in BOOLEAN
  BY DEF TypeInv, TypeOK
<1>3. fr \in Frame /\ fr.loop = top.loop
  BY <1>1, <1>2 DEF Frame, PCs
<1>4. FrameOK(fr)
  BY <1>1 DEF FrameOK, Frame, HasTask, HasFunction, PCs
<1>5. SetTop(w, fr)
  BY DEF CallFunction
<1> HIDE DEF fr
<1>6. StackInv'
  BY <1>3, <1>4, <1>5, SetTopOK
<1>7. checkpoint_valid' \in [Workers -> BOOLEAN]
  BY <1>2 DEF CallFunction, TypeInv, TypeOK, GradMode
<1>8. RestOK'
  BY <1>7, TypeInvSplit
     DEF CallFunction, RestOK, callVars, graphTaskVars, history
<1> QED BY <1>6, <1>8, TypeInvSplit

LEMMA ReenterType ==
  ASSUME TypeInv, NEW w \in Workers, NEW t \in Tasks, Reenter(w, t)
  PROVE  TypeInv'
<1> DEFINE s == stack[w]
           n == Len(s)
           nested == [s[n] EXCEPT !.pc = "nested"]
           s1 == [s EXCEPT ![n] = nested]
           e == EmptyFrame(t, "setowner")
           s2 == Append(s1, e)
<1>1. /\ s \in Seq(Frame) /\ n \in Nat \ {0}
      /\ s[1].loop = NoTask
      /\ \A k \in 1 .. n : FrameOK(s[k])
      /\ \A k \in 1 .. (n - 1) : s[k].pc = "nested"
  BY TopOK DEF TypeInv, TypeOK, StackOK
<1>2. s[n] \in Frame /\ FrameOK(s[n]) /\ s[n].pc = "apply"
  BY TopOK DEF Reenter, At, Top
<1>3. nested \in Frame /\ FrameOK(nested) /\ nested.loop = s[n].loop
      /\ nested.pc = "nested"
  BY <1>2 DEF Frame, FrameOK, PCs, HasTask, HasFunction
<1>4. e \in Frame /\ FrameOK(e)
  BY EmptyFrameOK
<1>5. stack' = [stack EXCEPT ![w] = s2]
  BY DEF Reenter
<1> HIDE DEF nested, e
<1>6. /\ s1 \in Seq(Frame) /\ Len(s1) = n
      /\ \A k \in 1 .. n : s1[k] = IF k = n THEN nested ELSE s[k]
  BY <1>1, <1>3
<1> HIDE DEF s1
<1>7. /\ s2 \in Seq(Frame) /\ Len(s2) = n + 1
      /\ \A k \in 1 .. (n + 1) : s2[k] = IF k = n + 1 THEN e ELSE s1[k]
  BY <1>1, <1>4, <1>6
<1> HIDE DEF s2
<1>8. StackInv'
  <2>1. Len(s2) > 0 /\ s2[1].loop = NoTask
    BY <1>1, <1>3, <1>6, <1>7
  <2>2. \A k \in 1 .. Len(s2) : FrameOK(s2[k])
    BY <1>1, <1>3, <1>4, <1>6, <1>7
  <2>3. \A k \in 1 .. (Len(s2) - 1) : s2[k].pc = "nested"
    BY <1>1, <1>3, <1>6, <1>7
  <2> QED BY <1>5, <1>7, <2>1, <2>2, <2>3, NewStackOK
<1>9. StartTask(t) /\ phase' \in [Tasks -> Phases]
  BY DEF Reenter, TypeInv, TypeOK, Phases
<1>10. RestOK'
  BY <1>9, StartTaskType
<1> QED BY <1>8, <1>10, TypeInvSplit

LEMMA SetOwnerType ==
  ASSUME TypeInv, NEW w \in Workers, SetOwner(w)
  PROVE  TypeInv'
<1>1. Top(w) \in Frame /\ FrameOK(Top(w)) /\ Top(w).pc = "setowner"
  BY TopOK DEF SetOwner, At
<1>2. FrameOK([Top(w) EXCEPT !.pc = "loop"])
  BY <1>1 DEF FrameOK, Frame, HasTask, HasFunction
<1>3. StackInv'
  BY <1>2, GotoOK DEF SetOwner, PCs
<1>4. Top(w).loop \in Tasks
  BY <1>1 DEF FrameOK
<1>5. RestOK'
  BY <1>4, TypeInvSplit DEF SetOwner, RestOK, threadVars, callVars, history
<1> QED BY <1>3, <1>5, TypeInvSplit

LEMMA ApplyReturnType ==
  ASSUME TypeInv, NEW w \in Workers, ApplyReturn(w)
  PROVE  TypeInv'
<1> DEFINE fr == Top(w)
           next == NextOf[fr.base][fr.fn]
           pc == IF next = <<>> THEN "owner" ELSE "lock"
<1>1. fr \in Frame /\ FrameOK(fr) /\ fr.pc = "apply"
  BY TopOK DEF ApplyReturn, At
<1>2. fr.base \in Tasks /\ fr.fn \in Nodes
  BY <1>1 DEF FrameOK, HasTask, HasFunction, PCs
<1>3. pc \in PCs /\ Goto(w, pc)
  BY DEF ApplyReturn, PCs
<1>4. FrameOK([fr EXCEPT !.pc = pc])
  BY <1>1, <1>2 DEF FrameOK, Frame, HasTask, HasFunction
<1>5. StackInv'
  BY <1>3, <1>4, GotoOK
<1>6. applied' \in [Tasks -> [Nodes -> Buffers]]
  <2>1. PICK D \in DefinedOutputs(fr.base, fr.fn) :
          applied' = [applied EXCEPT ![fr.base][fr.fn] = {fr.fn} \X D]
    BY DEF ApplyReturn
  <2>2. D \subseteq DOMAIN next
    BY DEF DefinedOutputs
  <2>3. next \in Seq(Fns \cup {NullFn})
    BY <1>2, NextOfType
  <2>4. DOMAIN next \subseteq Nat \ {0}
    BY <2>3
  <2>5. {fr.fn} \X D \in Buffers
    BY <1>2, <2>2, <2>4 DEF Buffers, Edges
  <2>6. applied \in [Tasks -> [Nodes -> Buffers]]
    BY DEF TypeInv, TypeOK
  <2>7. [applied[fr.base] EXCEPT ![fr.fn] = {fr.fn} \X D] \in [Nodes -> Buffers]
    BY <1>2, <2>5, <2>6
  <2> QED BY <1>2, <2>1, <2>6, <2>7
<1>7. checkpoint_valid' \in [Workers -> BOOLEAN]
  BY <1>1 DEF ApplyReturn, TypeInv, TypeOK, Frame
<1>8. RestOK'
  BY <1>6, <1>7, TypeInvSplit
     DEF ApplyReturn, RestOK, callVars, graphTaskVars
<1> QED BY <1>5, <1>8, TypeInvSplit

LEMMA ApplyThrowType ==
  ASSUME TypeInv, NEW w \in Workers, ApplyThrow(w)
  PROVE  TypeInv'
<1>1. Top(w) \in Frame /\ FrameOK(Top(w)) /\ Top(w).pc = "apply"
  BY TopOK DEF ApplyThrow, At
<1>2. FrameOK([Top(w) EXCEPT !.pc = "except"])
  BY <1>1 DEF FrameOK, Frame, HasTask, HasFunction, PCs
<1>3. StackInv'
  BY <1>2, GotoOK DEF ApplyThrow, PCs
<1>4. checkpoint_valid' \in [Workers -> BOOLEAN]
  BY <1>1 DEF ApplyThrow, TypeInv, TypeOK, Frame
<1>5. RestOK'
  BY <1>4, TypeInvSplit
     DEF ApplyThrow, RestOK, callVars, graphTaskVars, history
<1> QED BY <1>3, <1>5, TypeInvSplit

LEMMA LockGraphTaskType ==
  ASSUME TypeInv, NEW w \in Workers, LockGraphTask(w)
  PROVE  TypeInv'
<1> DEFINE top == Top(w)
           fr == [top EXCEPT !.pc = "propagate", !.i = 1]
<1>1. top \in Frame /\ FrameOK(top) /\ top.pc = "lock"
  BY TopOK DEF LockGraphTask, At
<1>2. top.base \in Tasks /\ top.fn \in Nodes /\ NextOf[top.base][top.fn] # <<>>
  BY <1>1 DEF FrameOK, HasTask, HasFunction, PCs
<1>3. 1 \in DOMAIN NextOf[top.base][top.fn]
  BY <1>2, NextOfType
<1>4. fr \in Frame /\ fr.loop = top.loop
  BY <1>1 DEF Frame, PCs
<1>5. FrameOK(fr)
  BY <1>1, <1>2, <1>3 DEF FrameOK, Frame, HasTask, HasFunction
<1>6. SetTop(w, fr)
  BY DEF LockGraphTask
<1> HIDE DEF fr
<1>7. StackInv'
  BY <1>4, <1>5, <1>6, SetTopOK
<1>8. RestOK'
  BY TypeInvSplit DEF LockGraphTask, RestOK, threadVars, callVars, history
<1> QED BY <1>7, <1>8, TypeInvSplit

LEMMA AdvanceOutputType ==
  ASSUME TypeInv, NEW w \in Workers, At(w, "propagate"),
         NEW ok \in BOOLEAN, AdvanceOutput(w, ok)
  PROVE  StackInv' /\ mutex' \in [Tasks -> BOOLEAN]
<1> DEFINE top == Top(w)
           next == NextOf[top.base][top.fn]
           last == top.i = Len(next)
           fr == IF ok /\ ~ last
                 THEN [top EXCEPT !.i = @ + 1]
                 ELSE [top EXCEPT !.i = 1,
                                  !.pc = IF ok THEN "owner" ELSE "except"]
<1>1. top \in Frame /\ FrameOK(top) /\ top.pc = "propagate"
  BY TopOK DEF At
<1>2. top.base \in Tasks /\ top.fn \in Nodes /\ top.i \in DOMAIN next
  BY <1>1 DEF FrameOK, HasTask, HasFunction, PCs
<1>3. DOMAIN next = 1 .. Len(next) /\ Len(next) \in Nat
  BY <1>2, NextOfType
<1>4. ~ last => top.i + 1 \in DOMAIN next
  BY <1>2, <1>3
<1>5. SetTop(w, fr) /\ mutex' = [mutex EXCEPT ![top.base] = ok /\ ~ last]
  BY DEF AdvanceOutput
<1> HIDE DEF last, next
<1>6. CASE ok /\ ~ last
  <2>1. fr = [top EXCEPT !.i = top.i + 1]
    BY <1>6
  <2>2. fr \in Frame /\ fr.loop = top.loop
    BY <1>1, <2>1 DEF Frame
  <2>3. FrameOK(fr)
    BY <1>1, <1>2, <1>4, <1>6, <2>1 DEF FrameOK, Frame, HasTask, HasFunction, next
  <2> QED BY <1>5, <2>2, <2>3, SetTopOK DEF TypeInv, TypeOK
<1>7. CASE ~ (ok /\ ~ last)
  <2> DEFINE pc == IF ok THEN "owner" ELSE "except"
  <2>1. fr = [top EXCEPT !.i = 1, !.pc = pc]
    BY <1>7
  <2>2. pc \in {"owner", "except"}
    OBVIOUS
  <2> HIDE DEF pc
  <2>3. fr \in Frame /\ fr.loop = top.loop
    BY <1>1, <2>1, <2>2 DEF Frame, PCs
  <2>4. FrameOK(fr)
    BY <1>1, <1>2, <2>1, <2>2 DEF FrameOK, Frame, HasTask, HasFunction
  <2> QED BY <1>5, <2>3, <2>4, SetTopOK DEF TypeInv, TypeOK
<1> QED BY <1>6, <1>7

LEMMA PropagateInvalidType ==
  ASSUME TypeInv, NEW w \in Workers, PropagateInvalid(w)
  PROVE  TypeInv'
<1>1. StackInv' /\ mutex' \in [Tasks -> BOOLEAN]
  BY AdvanceOutputType DEF PropagateInvalid
<1>2. RestOK'
  BY <1>1, TypeInvSplit
     DEF PropagateInvalid, RestOK, threadVars, callVars, history
<1> QED BY <1>1, <1>2, TypeInvSplit

(* The function an edge in propagation leads to, and its new buffer. *)
LEMMA BufferWithType ==
  ASSUME TypeInv, NEW t \in Tasks, NEW f \in Fns, NEW e \in Edges
  PROVE  BufferWith(t, f, e) \in SUBSET Edges
<1>1. not_ready[t][f] \in Buffers
  BY DEF TypeInv, TypeOK
<1> QED BY <1>1 DEF BufferWith, Buffers

LEMMA PropagateType ==
  ASSUME TypeInv, NEW w \in Workers, Propagate(w)
  PROVE  TypeInv'
<1> DEFINE fr == Top(w)
           t == fr.base
           f == NextOf[t][fr.fn][fr.i]
           e == <<fr.fn, fr.i>>
           buffer == BufferWith(t, f, e)
           known == dependencies[t][f] > 0
           item == [base |-> t, fn |-> f, inputs |-> buffer]
<1>a. At(w, "propagate") /\ f # NullFn /\ AdvanceOutput(w, known)
  BY Zenon DEF Propagate
<1>b. dependencies' = [dependencies EXCEPT ![t][f] = IF known THEN @ - 1 ELSE @]
  BY Zenon DEF Propagate
<1>c. \/ UNCHANGED <<ready, outstanding_tasks, not_ready>>
      \/ /\ Push(BufferDevice(t, f, buffer), item)
         /\ not_ready' = [not_ready EXCEPT ![t][f] = NoBuffer]
      \/ /\ not_ready' = [not_ready EXCEPT ![t][f] = buffer]
         /\ UNCHANGED <<ready, outstanding_tasks>>
  BY Zenon DEF Propagate
<1>d. UNCHANGED <<checkpoint_valid, grad_mode, phase, result, has_error, owner,
                  captured_vars, applied, dangling>>
  BY Zenon DEF Propagate, threadVars, callVars, history
<1> HIDE DEF known, buffer, item
<1>1. fr \in Frame /\ FrameOK(fr) /\ fr.pc = "propagate"
  BY <1>a, TopOK DEF At
<1> HIDE DEF fr
<1>2. t \in Tasks /\ fr.fn \in Nodes /\ fr.i \in DOMAIN NextOf[t][fr.fn]
  BY <1>1 DEF FrameOK, HasTask, HasFunction, PCs
<1>3. NextOf[t][fr.fn] \in Seq(Fns \cup {NullFn})
  BY <1>2, NextOfType
<1>4. f \in Fns /\ fr.i \in Nat \ {0}
  BY <1>a, <1>2, <1>3
<1> HIDE DEF f, t
<1>5. e \in Edges
  BY <1>2, <1>4 DEF Edges
<1>6. buffer \in SUBSET Edges
  BY <1>2, <1>4, <1>5, BufferWithType DEF buffer
<1> HIDE DEF e
<1>7. item \in FunctionTask
  BY <1>2, <1>4, <1>6 DEF FunctionTask, Nodes, item
<1>8. dependencies[t][f] \in Nat /\ known \in BOOLEAN
  BY <1>2, <1>4 DEF TypeInv, TypeOK, known
<1>10. StackInv' /\ mutex' \in [Tasks -> BOOLEAN]
  BY <1>a, <1>8, AdvanceOutputType
<1>11. dependencies' \in [Tasks -> [Fns -> Nat]]
  <2> DEFINE d == IF known THEN dependencies[t][f] - 1 ELSE dependencies[t][f]
  <2>1. dependencies' = [dependencies EXCEPT ![t] = [dependencies[t] EXCEPT ![f] = d]]
    BY <1>b, Zenon
  <2>2. d \in Nat
    BY <1>8 DEF known
  <2>3. dependencies \in [Tasks -> [Fns -> Nat]]
    BY DEF TypeInv, TypeOK
  <2> HIDE DEF d
  <2>4. [dependencies[t] EXCEPT ![f] = d] \in [Fns -> Nat]
    BY <1>2, <1>4, <2>2, <2>3
  <2> QED BY <1>2, <2>1, <2>3, <2>4
<1>12. /\ ready' \in [Workers -> SUBSET FunctionTask]
       /\ outstanding_tasks' \in [Tasks -> Int]
       /\ not_ready' \in [Tasks -> [Fns -> Buffers]]
  <2>1. not_ready \in [Tasks -> [Fns -> Buffers]] /\ RestOK
    BY TypeInvSplit DEF RestOK
  <2>2. CASE UNCHANGED <<ready, outstanding_tasks, not_ready>>
    BY <2>1, <2>2 DEF RestOK
  <2>3. CASE /\ Push(BufferDevice(t, f, buffer), item)
             /\ not_ready' = [not_ready EXCEPT ![t][f] = NoBuffer]
    <3>1. [not_ready[t] EXCEPT ![f] = NoBuffer] \in [Fns -> Buffers]
      BY <1>2, <1>4, <2>1 DEF Buffers
    <3>2. not_ready' \in [Tasks -> [Fns -> Buffers]]
      BY <1>2, <2>1, <2>3, <3>1
    <3> QED BY <2>3, <1>7, <3>2, PushType
  <2>4. CASE /\ not_ready' = [not_ready EXCEPT ![t][f] = buffer]
             /\ UNCHANGED <<ready, outstanding_tasks>>
    <3>1. [not_ready[t] EXCEPT ![f] = buffer] \in [Fns -> Buffers]
      BY <1>2, <1>4, <1>6, <2>1 DEF Buffers
    <3>2. not_ready' \in [Tasks -> [Fns -> Buffers]]
      BY <1>2, <2>1, <2>4, <3>1
    <3> QED BY <2>1, <2>4, <3>2 DEF RestOK
  <2> QED BY <1>c, <2>2, <2>3, <2>4
<1>14. RestOK'
  BY <1>10, <1>11, <1>12, <1>d, TypeInvSplit DEF RestOK
<1> QED BY <1>10, <1>14, TypeInvSplit

LEMMA OnExceptionType ==
  ASSUME TypeInv, NEW w \in Workers, OnException(w)
  PROVE  TypeInv'
<1>1. Top(w) \in Frame /\ FrameOK(Top(w)) /\ Top(w).pc = "except"
  BY TopOK DEF OnException, At
<1>2. Top(w).base \in Tasks
  BY <1>1 DEF FrameOK, HasTask, PCs
<1>3. FrameOK([Top(w) EXCEPT !.pc = "owner"])
  BY <1>1, <1>2 DEF FrameOK, Frame, HasTask, HasFunction
<1>4. StackInv'
  BY <1>3, GotoOK DEF OnException, PCs
<1>5. RestOK'
  BY <1>2, TypeInvSplit DEF OnException, RestOK, threadVars, callVars, history
<1> QED BY <1>4, <1>5, TypeInvSplit

LEMMA ReadOwnerType ==
  ASSUME TypeInv, NEW w \in Workers, ReadOwner(w)
  PROVE  TypeInv'
<1> DEFINE top == Top(w)
           fr == [top EXCEPT !.pc = "decrement", !.base_owner = owner[top.base]]
<1>1. top \in Frame /\ FrameOK(top) /\ top.pc = "owner"
  BY TopOK DEF ReadOwner, At
<1>2. top.base \in Tasks
  BY <1>1 DEF FrameOK, HasTask, PCs
<1>3. owner[top.base] \in Workers \cup {NO_DEVICE}
  BY <1>2 DEF TypeInv, TypeOK
<1>4. fr \in Frame /\ fr.loop = top.loop
  BY <1>1, <1>3 DEF Frame, PCs
<1>5. FrameOK(fr)
  BY <1>1, <1>2 DEF FrameOK, Frame, HasTask, HasFunction
<1>6. SetTop(w, fr)
  BY DEF ReadOwner
<1> HIDE DEF fr
<1>7. StackInv'
  BY <1>4, <1>5, <1>6, SetTopOK
<1>8. dangling' \in BOOLEAN
  BY DEF ReadOwner, Access, TypeInv, TypeOK
<1>9. RestOK'
  BY <1>8, TypeInvSplit DEF ReadOwner, RestOK, threadVars, callVars, graphTaskVars
<1> QED BY <1>7, <1>9, TypeInvSplit

LEMMA DecrementType ==
  ASSUME TypeInv, NEW w \in Workers, Decrement(w)
  PROVE  TypeInv'
<1> DEFINE top == Top(w)
           left == outstanding_tasks[top.base] - 1
           pc == AfterDecrement(w, top.base_owner, left)
           fr == IF pc = "loop" THEN EmptyFrame(top.loop, "loop")
                                ELSE [top EXCEPT !.pc = pc]
<1>1. top \in Frame /\ FrameOK(top) /\ top.pc = "decrement"
  BY TopOK DEF Decrement, At
<1>2. top.base \in Tasks /\ top.loop \in Tasks \cup {NoTask}
  BY <1>1 DEF FrameOK, Frame, HasTask, PCs
<1>3. pc \in {"loop", "notify", "dummy"} /\ (pc = "dummy" => top.base_owner \in Workers)
  BY <1>1 DEF AfterDecrement, Frame
<1>4. SetTop(w, fr)
  BY DEF Decrement
<1> HIDE DEF pc
<1>5. fr \in Frame /\ FrameOK(fr) /\ fr.loop = top.loop
  <2>1. CASE pc = "loop"
    BY <1>2, <2>1, EmptyFrameOK
  <2>2. CASE pc # "loop"
    <3>1. fr = [top EXCEPT !.pc = pc]
      BY <2>2
    <3>2. fr \in Frame /\ fr.loop = top.loop
      BY <1>1, <1>3, <3>1 DEF Frame, PCs
    <3>3. FrameOK(fr)
      BY <1>1, <1>2, <1>3, <2>2, <3>1 DEF FrameOK, Frame, HasTask, HasFunction
    <3> QED BY <3>2, <3>3
  <2> QED BY <2>1, <2>2
<1> HIDE DEF fr
<1>6. StackInv'
  BY <1>4, <1>5, SetTopOK
<1>7. outstanding_tasks' \in [Tasks -> Int] /\ dangling' \in BOOLEAN
  BY <1>2 DEF Decrement, Access, TypeInv, TypeOK
<1>8. RestOK'
  BY <1>7, TypeInvSplit DEF Decrement, RestOK, threadVars, callVars
<1> QED BY <1>6, <1>8, TypeInvSplit

LEMMA NotifyType ==
  ASSUME TypeInv, NEW w \in Workers, Notify(w)
  PROVE  TypeInv'
<1>1. Top(w) \in Frame /\ FrameOK(Top(w)) /\ Top(w).pc = "notify"
  BY TopOK DEF Notify, At
<1>2. Top(w).base \in Tasks /\ Top(w).loop \in Tasks \cup {NoTask}
  BY <1>1 DEF FrameOK, Frame, HasTask, PCs
<1>3. StackInv'
  BY <1>2, EmptyFrameOK, SetTopOK DEF Notify
<1>4. phase' \in [Tasks -> Phases]
  BY <1>2 DEF Notify, TypeInv, TypeOK, Phases
<1>5. RestOK'
  BY <1>4, TypeInvSplit
     DEF Notify, Access, RestOK, threadVars, graphTaskVars
<1> QED BY <1>3, <1>5, TypeInvSplit

LEMMA PushDummyType ==
  ASSUME TypeInv, NEW w \in Workers, PushDummy(w)
  PROVE  TypeInv'
<1> DEFINE item == [base |-> Top(w).base, fn |-> NullFn, inputs |-> {}]
<1>1. Top(w) \in Frame /\ FrameOK(Top(w)) /\ Top(w).pc = "dummy"
  BY TopOK DEF PushDummy, At
<1>2. Top(w).base \in Tasks /\ Top(w).loop \in Tasks \cup {NoTask}
  BY <1>1 DEF FrameOK, Frame, HasTask, PCs
<1>3. StackInv'
  BY <1>2, EmptyFrameOK, SetTopOK DEF PushDummy
<1>4. item \in FunctionTask /\ Push(Top(w).base_owner, item)
  BY <1>2 DEF FunctionTask, PushDummy
<1> HIDE DEF item
<1>5. /\ ready' \in [Workers -> SUBSET FunctionTask]
      /\ outstanding_tasks' \in [Tasks -> Int]
  BY <1>4, PushType
<1>6. RestOK'
  BY <1>5, TypeInvSplit DEF PushDummy, Access, RestOK, threadVars, callVars
<1> QED BY <1>3, <1>6, TypeInvSplit

LEMMA TypeStep == TypeInv /\ [Next]_vars => TypeInv'
<1> SUFFICES ASSUME TypeInv, [Next]_vars PROVE TypeInv'
  OBVIOUS
<1>1. CASE UNCHANGED vars
  BY <1>1 DEF vars, TypeInv, TypeOK, StackOK, FrameOK, threadVars, callVars,
              graphTaskVars, history
<1>2. ASSUME NEW t \in Tasks, CallerStep(t) PROVE TypeInv'
  BY <1>2, CallerStepType
<1>3. ASSUME NEW w \in Workers, WorkerStep(w) PROVE TypeInv'
  BY <1>3, LoopContinueType, LoopExitType, PopType, CaptureType,
     CallFunctionType, ReenterType, SetOwnerType, ApplyReturnType,
     ApplyThrowType, LockGraphTaskType, PropagateInvalidType, PropagateType,
     OnExceptionType, ReadOwnerType, DecrementType, NotifyType, PushDummyType
  DEF WorkerStep
<1> QED BY <1>1, <1>2, <1>3 DEF Next

(***************************************************************************)
(* Every reachable state of the engine is well typed, and every            *)
(* thread_main() invocation has the locals it is about to use.             *)
(***************************************************************************)
THEOREM TypeInvariant == Spec => []TypeInv
BY TypeInit, TypeStep, PTL DEF Spec

(* TypeOK holds in every reachable state, for every graph, every number of *)
(* devices and every set of calls.                                         *)
THEOREM TypeCorrect == Spec => []TypeOK
BY TypeInvariant, PTL DEF TypeInv

-----------------------------------------------------------------------------
(***************************************************************************)
(* GraphTask::outstanding_tasks is exact, a function is queued once, and   *)
(* no work is left when execute() returns: for every graph, every number   *)
(* of devices and every set of concurrent and reentrant calls.             *)
(*                                                                         *)
(* The proofs look at the stacks of the workers through jobs: a job is a   *)
(* FunctionTask that some thread_main() holds.  The place of a job is the  *)
(* worker and the depth of that thread_main(); a function that has called  *)
(* execute() is in apply() as before.                                      *)
(***************************************************************************)

Busy == Handling \cup {"notify", "dummy"}

Job(fr) ==
  [base |-> fr.base, fn |-> fr.fn, inputs |-> fr.inputs, i |-> fr.i,
   base_owner |-> fr.base_owner,
   pc |-> IF fr.pc = "nested" THEN "apply" ELSE fr.pc]

Jobs ==
  UNION {{<<w, k>> : k \in {n \in 1 .. Len(stack[w]) : stack[w][n].pc \in Busy}} :
           w \in Workers}
job == [j \in Jobs |-> Job(stack[j[1]][j[2]])]

Here(w) == <<w, Len(stack[w])>>

(* The workers that have queued the root of a reentrant call and not yet   *)
(* made themselves its owner, with that call.                              *)
Entering == {<<w, Top(w).loop>> : w \in {v \in Workers : At(v, "setowner")}}

(* Some function of call t is queued or handled; the empty FunctionTask    *)
(* that wakes an owner is no function.                                     *)
Pending(t) ==
  \/ \E w \in Workers : \E x \in ready[w] : x.base = t /\ x.fn # NullFn
  \/ \E j \in Jobs : /\ job[j].base = t /\ job[j].fn # NullFn
                     /\ job[j].pc \in Handling

(***************************************************************************)
(* The inductive invariant.                                                *)
(***************************************************************************)
CountInv ==
  \A t \in Tasks :
    /\ IsFiniteSet(Queued(t)) /\ IsFiniteSet(Handled(t))
    /\ outstanding_tasks[t] = Cardinality(Queued(t)) + Cardinality(Handled(t))

(* A call that has not been made has left no traces. *)
IdleInv ==
  \A t \in Tasks : phase[t] = "idle" =>
    /\ \A w \in Workers : \A x \in ready[w] : x.base # t
    /\ \A j \in Jobs : job[j].base # t
    /\ \A e \in Entering : e[2] # t
    /\ owner[t] = NO_DEVICE
    /\ \A f \in Nodes : applied[t][f] = NoBuffer

(* owner is set once; a copy of it is the owner or says that there was     *)
(* none, and the empty FunctionTask is only ever seen by the owner.        *)
OwnerInv ==
  /\ \A e \in Entering : owner[e[2]] = NO_DEVICE
  /\ \A e, g \in Entering : e[2] = g[2] => e = g
  /\ \A j \in Jobs : job[j].pc \in {"decrement", "notify", "dummy"} =>
       job[j].base_owner \in {NO_DEVICE, owner[job[j].base]}
  /\ \A w \in Workers : \A x \in ready[w] :
       x.fn = NullFn => owner[x.base] = w /\ x.inputs = {}
  /\ \A j \in Jobs : job[j].fn = NullFn =>
       /\ owner[job[j].base] = j[1]
       /\ job[j].pc \in {"owner", "decrement"}
       /\ job[j].pc = "decrement" => job[j].base_owner = j[1]

(* Once the counter has reached 0 no function is left: not when execute()  *)
(* has returned, and not while somebody is told of it.                     *)
DrainInv ==
  /\ \A t \in Tasks : phase[t] = "returned" => ~ Pending(t)
  /\ \A w \in Workers : \A x \in ready[w] : x.fn = NullFn => ~ Pending(x.base)
  /\ \A j \in Jobs :
       job[j].fn = NullFn \/ job[j].pc \in {"notify", "dummy"} =>
         ~ Pending(job[j].base)

(* The owner of a call is woken by one empty FunctionTask. *)
Waking(j) == job[j].fn = NullFn \/ job[j].pc = "dummy"
DummyInv ==
  /\ \A i, j \in Jobs :
       Waking(i) /\ Waking(j) /\ job[i].base = job[j].base => i = j
  /\ \A j \in Jobs, w \in Workers : \A x \in ready[w] :
       Waking(j) /\ x.fn = NullFn => job[j].base # x.base

(* A function is at one place at most, with no gradient to come. *)
Active == {"capture", "call", "apply", "lock", "propagate", "except"}
OnceInv ==
  /\ \A t \in Tasks, f \in Fns :
       applied[t][f] # NoBuffer => dependencies[t][f] = 0
  /\ \A w \in Workers : \A x \in ready[w] : x.fn # NullFn =>
       /\ x.fn \in Fns => dependencies[x.base][x.fn] = 0
       /\ applied[x.base][x.fn] = NoBuffer
  /\ \A j \in Jobs : job[j].pc \in Active =>
       /\ job[j].fn \in Fns => dependencies[job[j].base][job[j].fn] = 0
       /\ job[j].pc \in {"capture", "call", "apply"} =>
            applied[job[j].base][job[j].fn] = NoBuffer
       /\ job[j].pc \in {"lock", "propagate"} =>
            applied[job[j].base][job[j].fn] # NoBuffer
  /\ \A v, w \in Workers : \A x \in ready[v], y \in ready[w] :
       x.fn # NullFn /\ x.fn = y.fn /\ x.base = y.base => v = w /\ x = y
  /\ \A i, j \in Jobs :
       /\ job[i].pc \in Active /\ job[j].pc \in Active
       /\ job[i].fn = job[j].fn /\ job[i].base = job[j].base
       => i = j
  /\ \A j \in Jobs, w \in Workers : \A x \in ready[w] :
       job[j].pc \in Active /\ job[j].base = x.base => job[j].fn # x.fn

(* What has been added to a buffer came along an edge to its function. *)
BufferInv ==
  \A t \in Tasks, f \in Fns : not_ready[t][f] # NoBuffer =>
     \A e \in not_ready[t][f] : LeadsTo(t, e, f)

CoreInv ==
  /\ CountInv /\ IdleInv /\ OwnerInv /\ DrainInv /\ DummyInv /\ OnceInv
  /\ BufferInv
EngineInv == TypeInv /\ CoreInv
-----------------------------------------------------------------------------
(***************************************************************************)
(* How a step changes the jobs: one of them moves or is taken, one ends,   *)
(* or they all stay.                                                       *)
(***************************************************************************)
JobMoves(w, new) ==
  /\ Jobs' = Jobs \cup {Here(w)}
  /\ job' = [j \in Jobs \cup {Here(w)} |-> IF j = Here(w) THEN new ELSE job[j]]
JobEnds(w) ==
  /\ Jobs' = Jobs \ {Here(w)}
  /\ job' = [j \in Jobs \ {Here(w)} |-> job[j]]
JobsStay == Jobs' = Jobs /\ job' = job

LEMMA JobPlaces ==
  /\ \A j : j \in Jobs <=> \E w \in Workers : \E k \in 1 .. Len(stack[w]) :
                              j = <<w, k>> /\ stack[w][k].pc \in Busy
  /\ \A j : j \in Jobs' <=> \E w \in Workers : \E k \in 1 .. Len(stack'[w]) :
                              j = <<w, k>> /\ stack'[w][k].pc \in Busy
BY DEF Jobs

(* A stack in which only place n changes, from fr to fr2, and in which     *)
(* places without a job may come or go.                                    *)
LEMMA StackJobs ==
  ASSUME TypeInv, NEW w \in Workers, NEW s2 \in Seq(Frame),
         stack' = [stack EXCEPT ![w] = s2], NEW n \in 1 .. Len(s2),
         n \in 1 .. Len(stack[w]),
         \A k \in (1 .. Len(s2)) \cap (1 .. Len(stack[w])) :
            k # n => s2[k] = stack[w][k],
         \A k \in 1 .. Len(s2) :
            k \notin 1 .. Len(stack[w]) => s2[k].pc \notin Busy,
         \A k \in 1 .. Len(stack[w]) :
            k \notin 1 .. Len(s2) => stack[w][k].pc \notin Busy
  PROVE  /\ s2[n].pc \in Busy =>
              /\ Jobs' = Jobs \cup {<<w, n>>}
              /\ job' = [j \in Jobs \cup {<<w, n>>} |->
                           IF j = <<w, n>> THEN Job(s2[n]) ELSE job[j]]
         /\ s2[n].pc \notin Busy =>
              /\ Jobs' = Jobs \ {<<w, n>>}
              /\ job' = [j \in Jobs \ {<<w, n>>} |-> job[j]]
<1>1. /\ stack \in [Workers -> Seq(Frame)]
      /\ stack'[w] = s2 /\ \A v \in Workers \ {w} : stack'[v] = stack[v]
  BY DEF TypeInv, TypeOK
<1>2. \A v \in Workers, k \in Nat : <<v, k>> # <<w, n>> =>
         /\ <<v, k>> \in Jobs' <=> <<v, k>> \in Jobs
         /\ <<v, k>> \in Jobs => stack'[v][k] = stack[v][k]
  <2> SUFFICES ASSUME NEW v \in Workers, NEW k \in Nat, <<v, k>> # <<w, n>>
               PROVE  /\ <<v, k>> \in Jobs' <=> <<v, k>> \in Jobs
                      /\ <<v, k>> \in Jobs => stack'[v][k] = stack[v][k]
    OBVIOUS
  <2>1. /\ <<v, k>> \in Jobs <=> k \in 1 .. Len(stack[v]) /\ stack[v][k].pc \in Busy
        /\ <<v, k>> \in Jobs' <=> k \in 1 .. Len(stack'[v]) /\ stack'[v][k].pc \in Busy
    BY JobPlaces
  <2>2. CASE v # w BY <2>1, <2>2, <1>1
  <2>3. CASE v = w
    <3>1. k # n BY <2>3
    <3>2. stack'[v] = s2 /\ stack[v] = stack[w] BY <1>1, <2>3
    <3> QED BY <2>1, <3>1, <3>2
  <2> QED BY <2>2, <2>3
<1>3. \A j : j \in Jobs \cup Jobs' =>
         \E v \in Workers, k \in Nat : j = <<v, k>>
  <2>1. \A v \in Workers : \A k \in 1 .. Len(stack[v]) : k \in Nat
    BY <1>1
  <2>2. \A v \in Workers : \A k \in 1 .. Len(stack'[v]) : k \in Nat
    BY <1>1
  <2> QED BY <2>1, <2>2, JobPlaces
<1>4. <<w, n>> \in Jobs' <=> s2[n].pc \in Busy
  BY <1>1, JobPlaces
<1>5. \A j : j # <<w, n>> => (j \in Jobs' <=> j \in Jobs)
  BY <1>2, <1>3
<1>6. \A j \in Jobs : j # <<w, n>> => Job(stack'[j[1]][j[2]]) = job[j]
  <2> SUFFICES ASSUME NEW j \in Jobs, j # <<w, n>>
               PROVE  Job(stack'[j[1]][j[2]]) = job[j]
    OBVIOUS
  <2>1. PICK v \in Workers, k \in Nat : j = <<v, k>> BY <1>3
  <2>2. stack'[v][k] = stack[v][k] BY <2>1, <1>2
  <2>3. stack'[j[1]][j[2]] = stack[j[1]][j[2]] BY <2>1, <2>2
  <2> QED BY <2>3 DEF job
<1>7. job' = [j \in Jobs' |-> Job(stack'[j[1]][j[2]])] BY DEF job, Job
<1>8. ASSUME s2[n].pc \in Busy
      PROVE  /\ Jobs' = Jobs \cup {<<w, n>>}
             /\ job' = [j \in Jobs \cup {<<w, n>>} |->
                          IF j = <<w, n>> THEN Job(s2[n]) ELSE job[j]]
  <2>1. Jobs' = Jobs \cup {<<w, n>>} BY <1>4, <1>5, <1>8
  <2>2. \A j \in Jobs' : Job(stack'[j[1]][j[2]]) =
                           IF j = <<w, n>> THEN Job(s2[n]) ELSE job[j]
    <3> SUFFICES ASSUME NEW j \in Jobs'
                 PROVE  Job(stack'[j[1]][j[2]]) =
                           IF j = <<w, n>> THEN Job(s2[n]) ELSE job[j]
      OBVIOUS
    <3>1. CASE j = <<w, n>>
      <4>1. stack'[j[1]][j[2]] = s2[n] BY <3>1, <1>1
      <4> QED BY <3>1, <4>1
    <3>2. CASE j # <<w, n>> BY <3>2, <2>1, <1>6
    <3> QED BY <3>1, <3>2
  <2> QED BY <1>7, <2>1, <2>2
<1>9. ASSUME s2[n].pc \notin Busy
      PROVE  /\ Jobs' = Jobs \ {<<w, n>>}
             /\ job' = [j \in Jobs \ {<<w, n>>} |-> job[j]]
  <2>1. Jobs' = Jobs \ {<<w, n>>} BY <1>4, <1>5, <1>9
  <2>2. \A j \in Jobs' : Job(stack'[j[1]][j[2]]) = job[j] BY <2>1, <1>6
  <2> QED BY <1>7, <2>1, <2>2
<1> QED BY <1>8, <1>9

(* The job of the innermost thread_main() of a worker. *)
LEMMA TopJob ==
  ASSUME TypeInv, NEW w \in Workers
  PROVE  /\ Here(w) \in Jobs <=> Top(w).pc \in Busy
         /\ Top(w).pc \in Busy => job[Here(w)] = Job(Top(w))
         /\ Here(w)[1] = w
<1>1. Len(stack[w]) \in 1 .. Len(stack[w]) BY TopOK
<1>2. Here(w) \in Jobs <=> Top(w).pc \in Busy
  BY <1>1, JobPlaces DEF Here, Top
<1> QED BY <1>2 DEF job, Here, Top

LEMMA SetTopJobs ==
  ASSUME TypeInv, NEW w \in Workers, NEW fr \in Frame, SetTop(w, fr)
  PROVE  /\ fr.pc \in Busy => JobMoves(w, Job(fr))
         /\ fr.pc \notin Busy => JobEnds(w)
<1> DEFINE n == Len(stack[w])
           s2 == [stack[w] EXCEPT ![n] = fr]
<1>1. stack[w] \in Seq(Frame) /\ n \in Nat \ {0} /\ n \in 1 .. n
  BY TopOK DEF TypeInv, TypeOK
<1>2. stack' = [stack EXCEPT ![w] = s2] BY DEF SetTop
<1>3. /\ s2 \in Seq(Frame) /\ Len(s2) = n /\ s2[n] = fr
      /\ \A k \in 1 .. n : k # n => s2[k] = stack[w][k]
  BY <1>1
<1> HIDE DEF s2
<1>4. /\ s2[n].pc \in Busy =>
              /\ Jobs' = Jobs \cup {<<w, n>>}
              /\ job' = [j \in Jobs \cup {<<w, n>>} |->
                           IF j = <<w, n>> THEN Job(s2[n]) ELSE job[j]]
      /\ s2[n].pc \notin Busy =>
              /\ Jobs' = Jobs \ {<<w, n>>}
              /\ job' = [j \in Jobs \ {<<w, n>>} |-> job[j]]
  BY <1>1, <1>2, <1>3, StackJobs
<1> QED BY <1>3, <1>4 DEF JobMoves, JobEnds, Here

(* Replacing a frame without a job by another leaves the jobs alone. *)
LEMMA SetTopStay ==
  ASSUME TypeInv, NEW w \in Workers, NEW fr \in Frame, SetTop(w, fr),
         Top(w).pc \notin Busy, fr.pc \notin Busy
  PROVE  JobsStay
<1>1. Here(w) \notin Jobs BY TopJob
<1>2. Jobs \ {Here(w)} = Jobs BY <1>1
<1>3. JobEnds(w) BY SetTopJobs
<1>4. job = [j \in Jobs |-> job[j]] BY DEF job
<1> QED BY <1>2, <1>3, <1>4 DEF JobEnds, JobsStay

LEMMA ReenterJobs ==
  ASSUME TypeInv, NEW w \in Workers, NEW t \in Tasks, Reenter(w, t)
  PROVE  JobsStay
<1> DEFINE s == stack[w]
           n == Len(s)
           nested == [s[n] EXCEPT !.pc = "nested"]
           s1 == [s EXCEPT ![n] = nested]
           e == EmptyFrame(t, "setowner")
           s2 == Append(s1, e)
<1>1. s \in Seq(Frame) /\ n \in Nat \ {0} /\ n \in 1 .. n
  BY TopOK DEF TypeInv, TypeOK, StackOK
<1>2. s[n] \in Frame /\ s[n].pc = "apply" /\ s[n] = Top(w)
  BY TopOK DEF Reenter, At, Top
<1>3. nested \in Frame /\ nested.pc = "nested" /\ Job(nested) = Job(s[n])
  BY <1>2 DEF Frame, PCs, Job
<1>4. e \in Frame /\ e.pc = "setowner" BY EmptyFrameOK DEF EmptyFrame
<1>5. stack' = [stack EXCEPT ![w] = s2] BY DEF Reenter
<1> HIDE DEF nested, e
<1>6. /\ s1 \in Seq(Frame) /\ Len(s1) = n
      /\ \A k \in 1 .. n : s1[k] = IF k = n THEN nested ELSE s[k]
  BY <1>1, <1>3
<1> HIDE DEF s1
<1>7. /\ s2 \in Seq(Frame) /\ Len(s2) = n + 1
      /\ \A k \in 1 .. (n + 1) : s2[k] = IF k = n + 1 THEN e ELSE s1[k]
  BY <1>1, <1>4, <1>6
<1> HIDE DEF s2
<1>8. s2[n] = nested /\ n \in 1 .. Len(s2) BY <1>1, <1>6, <1>7
<1>9. /\ \A k \in (1 .. Len(s2)) \cap (1 .. Len(stack[w])) :
            k # n => s2[k] = stack[w][k]
      /\ \A k \in 1 .. Len(s2) :
            k \notin 1 .. Len(stack[w]) => s2[k].pc \notin Busy
      /\ \A k \in 1 .. Len(stack[w]) :
            k \notin 1 .. Len(s2) => stack[w][k].pc \notin Busy
  BY <1>1, <1>4, <1>6, <1>7 DEF Busy, Handling
<1>10. s2[n].pc \in Busy BY <1>3, <1>8 DEF Busy, Handling
<1>11. /\ Jobs' = Jobs \cup {<<w, n>>}
       /\ job' = [j \in Jobs \cup {<<w, n>>} |->
                    IF j = <<w, n>> THEN Job(s2[n]) ELSE job[j]]
  BY <1>1, <1>5, <1>7, <1>8, <1>9, <1>10, StackJobs
<1>12. <<w, n>> \in Jobs /\ job[<<w, n>>] = Job(s[n])
  BY <1>2, TopJob DEF Busy, Handling, Here
<1>13. Jobs \cup {<<w, n>>} = Jobs BY <1>12
<1>14. job = [j \in Jobs |-> job[j]] BY DEF job
<1> QED BY <1>3, <1>8, <1>11, <1>12, <1>13, <1>14 DEF JobsStay

LEMMA LoopExitJobs ==
  ASSUME TypeInv, NEW w \in Workers, LoopExit(w)
  PROVE  JobsStay
<1> DEFINE s == stack[w]
           n == Len(s) - 1
           cut == SubSeq(s, 1, n)
           fr == [cut[n] EXCEPT !.pc = "apply"]
           s2 == [cut EXCEPT ![n] = fr]
<1>1. /\ s \in Seq(Frame) /\ Len(s) \in Nat \ {0}
      /\ s[1].loop = NoTask
      /\ \A k \in 1 .. (Len(s) - 1) : s[k].pc = "nested"
      /\ s[Len(s)].pc = "loop" /\ s[Len(s)].loop # NoTask
  BY TopOK DEF TypeInv, TypeOK, StackOK, LoopExit, At, Top
<1>2. Len(s) > 1 BY <1>1
<1>3. /\ cut \in Seq(Frame) /\ Len(cut) = n
      /\ \A k \in 1 .. n : cut[k] = s[k]
  BY <1>1, <1>2
<1>4. /\ s[n] \in Frame /\ s[n].pc = "nested" /\ n \in Nat \ {0} /\ n \in 1 .. n
      /\ n \in 1 .. Len(s)
  BY <1>1, <1>2
<1>5. stack' = [stack EXCEPT ![w] = s2] BY Zenon DEF LoopExit
<1>6. Len(s) = n + 1 BY <1>1
<1> HIDE DEF cut, n
<1>7. cut[n] = s[n] BY <1>3, <1>4
<1>8. fr \in Frame /\ fr.pc = "apply" /\ Job(fr) = Job(s[n])
  BY <1>4, <1>7 DEF Frame, PCs, Job
<1> HIDE DEF fr
<1>9. /\ s2 \in Seq(Frame) /\ Len(s2) = n
      /\ \A k \in 1 .. n : s2[k] = IF k = n THEN fr ELSE s[k]
  BY <1>3, <1>4, <1>8
<1> HIDE DEF s2
<1>10. s2[n] = fr /\ n \in 1 .. Len(s2) BY <1>4, <1>9
<1>11. /\ \A k \in (1 .. Len(s2)) \cap (1 .. Len(stack[w])) :
             k # n => s2[k] = stack[w][k]
       /\ \A k \in 1 .. Len(s2) :
             k \notin 1 .. Len(stack[w]) => s2[k].pc \notin Busy
  BY <1>4, <1>6, <1>9
<1>12. \A k \in 1 .. Len(stack[w]) :
             k \notin 1 .. Len(s2) => stack[w][k].pc \notin Busy
  <2> SUFFICES ASSUME NEW k \in 1 .. Len(stack[w]), k \notin 1 .. Len(s2)
               PROVE  stack[w][k].pc \notin Busy
    OBVIOUS
  <2>1. k = Len(s) BY <1>4, <1>6, <1>9
  <2> QED BY <2>1, <1>1 DEF Busy, Handling
<1>13. s2[n].pc \in Busy BY <1>8, <1>10 DEF Busy, Handling
<1>14. /\ Jobs' = Jobs \cup {<<w, n>>}
       /\ job' = [j \in Jobs \cup {<<w, n>>} |->
                    IF j = <<w, n>> THEN Job(s2[n]) ELSE job[j]]
  <2>1. s2 \in Seq(Frame) /\ n \in 1 .. Len(s2) /\ n \in 1 .. Len(stack[w])
    BY <1>4, <1>9
  <2> QED BY <1>5, <1>11, <1>12, <1>13, <2>1, StackJobs
<1>15. <<w, n>> \in Jobs /\ job[<<w, n>>] = Job(s[n])
  BY <1>4, JobPlaces DEF Busy, Handling, job
<1>16. Jobs \cup {<<w, n>>} = Jobs BY <1>15
<1>17. job = [j \in Jobs |-> job[j]] BY DEF job
<1> QED BY <1>8, <1>10, <1>14, <1>15, <1>16, <1>17 DEF JobsStay

(* The innermost frames of the other workers stay. *)
LEMMA NewStackTop ==
  ASSUME TypeInv, NEW w \in Workers, NEW s2 \in Seq(Frame),
         stack' = [stack EXCEPT ![w] = s2]
  PROVE  /\ Top(w)' = s2[Len(s2)]
         /\ \A v \in Workers \ {w} : Top(v)' = Top(v)
<1>1. /\ stack \in [Workers -> Seq(Frame)]
      /\ stack'[w] = s2 /\ \A v \in Workers \ {w} : stack'[v] = stack[v]
  BY DEF TypeInv, TypeOK
<1> QED BY <1>1 DEF Top

LEMMA SetTopEntering ==
  ASSUME TypeInv, NEW w \in Workers, NEW fr \in Frame, SetTop(w, fr),
         fr.pc # "setowner"
  PROVE  /\ ~ At(w, "setowner") => Entering' = Entering
         /\ At(w, "setowner") => Entering' = Entering \ {<<w, Top(w).loop>>}
<1> DEFINE n == Len(stack[w])
           s2 == [stack[w] EXCEPT ![n] = fr]
<1>1. stack[w] \in Seq(Frame) /\ n \in Nat \ {0}
  BY TopOK DEF TypeInv, TypeOK
<1>2. stack' = [stack EXCEPT ![w] = s2] BY DEF SetTop
<1>3. s2 \in Seq(Frame) /\ s2[Len(s2)] = fr BY <1>1
<1> HIDE DEF s2
<1>4. Top(w)' = fr /\ \A v \in Workers \ {w} : Top(v)' = Top(v)
  BY <1>2, <1>3, NewStackTop
<1>5. \A v \in Workers \ {w} : At(v, "setowner")' <=> At(v, "setowner")
  BY <1>4 DEF At
<1>6. ~ At(w, "setowner")' BY <1>4 DEF At
<1> QED BY <1>4, <1>5, <1>6 DEF Entering

LEMMA ReenterEntering ==
  ASSUME TypeInv, NEW w \in Workers, NEW t \in Tasks, Reenter(w, t)
  PROVE  Entering' = Entering \cup {<<w, t>>}
<1> DEFINE s1 == [stack[w] EXCEPT ![Len(stack[w])].pc = "nested"]
           e == EmptyFrame(t, "setowner")
           s2 == Append(s1, e)
<1>1. stack[w] \in Seq(Frame) /\ Len(stack[w]) \in Nat \ {0} /\ Top(w) \in Frame
      /\ Top(w).pc = "apply"
  BY TopOK DEF TypeInv, TypeOK, Reenter, At
<1>2. stack' = [stack EXCEPT ![w] = s2] BY DEF Reenter
<1>3. e \in Frame /\ e.pc = "setowner" /\ e.loop = t
  BY EmptyFrameOK DEF EmptyFrame
<1>4. [stack[w][Len(stack[w])] EXCEPT !.pc = "nested"] \in Frame
  BY <1>1 DEF Frame, PCs, Top
<1>5. s1 \in Seq(Frame) BY <1>1, <1>4
<1> HIDE DEF s1, e
<1>6. s2 \in Seq(Frame) /\ s2[Len(s2)] = e BY <1>3, <1>5
<1> HIDE DEF s2
<1>7. Top(w)' = e /\ \A v \in Workers \ {w} : Top(v)' = Top(v)
  BY <1>2, <1>6, NewStackTop
<1>8. /\ \A v \in Workers \ {w} : At(v, "setowner")' <=> At(v, "setowner")
      /\ At(w, "setowner")' /\ ~ At(w, "setowner")
  BY <1>1, <1>3, <1>7 DEF At
<1>9. (Top(w).loop)' = t BY <1>3, <1>7
<1> QED BY <1>7, <1>8, <1>9 DEF Entering

LEMMA LoopExitEntering ==
  ASSUME TypeInv, NEW w \in Workers, LoopExit(w)
  PROVE  Entering' = Entering
<1> DEFINE n == Len(stack[w]) - 1
           cut == SubSeq(stack[w], 1, n)
           fr == [cut[n] EXCEPT !.pc = "apply"]
           s2 == [cut EXCEPT ![n] = fr]
<1>1. /\ stack[w] \in Seq(Frame) /\ Len(stack[w]) \in Nat \ {0}
      /\ stack[w][1].loop = NoTask
      /\ stack[w][Len(stack[w])].pc = "loop"
      /\ stack[w][Len(stack[w])].loop # NoTask
  BY TopOK DEF TypeInv, TypeOK, StackOK, LoopExit, At, Top
<1>2. n \in Nat \ {0} /\ n \in 1 .. Len(stack[w]) BY <1>1
<1>3. /\ cut \in Seq(Frame) /\ Len(cut) = n
      /\ \A k \in 1 .. n : cut[k] = stack[w][k]
  BY <1>1, <1>2
<1>4. stack' = [stack EXCEPT ![w] = s2] BY Zenon DEF LoopExit
<1> HIDE DEF cut, n
<1>5. cut[n] \in Frame BY <1>2, <1>3
<1>6. fr \in Frame /\ fr.pc = "apply" BY <1>5 DEF Frame, PCs
<1> HIDE DEF fr
<1>7. s2 \in Seq(Frame) /\ s2[Len(s2)] = fr BY <1>2, <1>3, <1>6
<1> HIDE DEF s2
<1>8. Top(w)' = fr /\ \A v \in Workers \ {w} : Top(v)' = Top(v)
  BY <1>4, <1>7, NewStackTop
<1>9. /\ \A v \in Workers \ {w} : At(v, "setowner")' <=> At(v, "setowner")
      /\ ~ At(w, "setowner")' /\ ~ At(w, "setowner")
  BY <1>1, <1>6, <1>8 DEF At, Top
<1> QED BY <1>8, <1>9 DEF Entering

(* What is known of a job. *)
JobRecord ==
  [base : Tasks, fn : Nodes \cup {NullFn}, inputs : SUBSET Edges, i : Nat,
   base_owner : Workers \cup {NO_DEVICE}, pc : Busy \ {"nested"}]
JobOK(jb) ==
  /\ jb \in JobRecord
  /\ jb.pc \in Active => jb.fn \in Nodes
  /\ jb.pc = "lock" => NextOf[jb.base][jb.fn] # <<>>
  /\ jb.pc = "propagate" => jb.i \in DOMAIN NextOf[jb.base][jb.fn]
  /\ jb.pc = "dummy" => jb.base_owner \in Workers
JobsOK == \A j \in Jobs : JobOK(job[j]) /\ j[1] \in Workers

LEMMA FrameJob ==
  ASSUME NEW fr \in Frame, FrameOK(fr), fr.pc \in Busy
  PROVE  JobOK(Job(fr))
<1>1. fr.pc \in HasTask /\ fr.base \in Tasks
  BY DEF FrameOK, HasTask, PCs, Busy, Handling
<1>2. Job(fr) \in JobRecord
  BY <1>1 DEF Job, JobRecord, Frame, Busy, Handling
<1>3. Job(fr).pc \in Active => fr.fn \in Nodes
  BY DEF Job, Active, FrameOK, HasFunction
<1> QED BY <1>2, <1>3 DEF JobOK, Job, FrameOK

LEMMA JobTypes == TypeInv => JobsOK
<1>1. ASSUME TypeInv PROVE JobsOK
  <2> SUFFICES ASSUME NEW j \in Jobs PROVE JobOK(job[j]) /\ j[1] \in Workers
    BY DEF JobsOK
  <2>0. PICK w \in Workers : \E k \in 1 .. Len(stack[w]) :
           j = <<w, k>> /\ stack[w][k].pc \in Busy
    BY JobPlaces
  <2>1. PICK k \in 1 .. Len(stack[w]) : j = <<w, k>> /\ stack[w][k].pc \in Busy
    BY <2>0
  <2>2. stack[w][k] \in Frame /\ FrameOK(stack[w][k])
    BY <1>1, <2>1 DEF TypeInv, TypeOK, StackOK
  <2>3. job[j] = Job(stack[w][k]) BY <2>1 DEF job
  <2> QED BY <2>1, <2>2, <2>3, FrameJob
<1> QED BY <1>1

LEMMA JobTypesPrime == TypeInv' => JobsOK'
BY JobTypes, PTL

LEMMA AtJob ==
  ASSUME TypeInv, NEW w \in Workers, NEW pc \in Busy \ {"nested"}, At(w, pc)
  PROVE  /\ Here(w) \in Jobs /\ Here(w)[1] = w
         /\ job[Here(w)] = [base |-> Top(w).base, fn |-> Top(w).fn,
                            inputs |-> Top(w).inputs, i |-> Top(w).i,
                            base_owner |-> Top(w).base_owner, pc |-> pc]
         /\ JobOK(job[Here(w)])
<1>1. Top(w).pc = pc /\ Top(w).pc \in Busy BY DEF At
<1>2. Here(w) \in Jobs /\ job[Here(w)] = Job(Top(w)) /\ Here(w)[1] = w
  BY <1>1, TopJob
<1>3. JobOK(job[Here(w)]) BY <1>2, JobTypes DEF JobsOK
<1> QED BY <1>1, <1>2, <1>3 DEF Job

(* A worker changes the place in the code of the job it works on, and what *)
(* else of it.                                                             *)
LEMMA MoveTop ==
  ASSUME TypeInv, NEW w \in Workers, NEW pc \in Busy \ {"nested"}, At(w, pc),
         NEW fr \in Frame, SetTop(w, fr), fr.pc # "nested", fr.pc # "setowner"
  PROVE  /\ Entering' = Entering
         /\ fr.pc \notin Busy => JobEnds(w)
         /\ fr.pc \in Busy =>
              JobMoves(w, [base |-> fr.base, fn |-> fr.fn, inputs |-> fr.inputs,
                           i |-> fr.i, base_owner |-> fr.base_owner,
                           pc |-> fr.pc])
<1>1. pc # "setowner" BY DEF Busy, Handling
<1>2. ~ At(w, "setowner") BY <1>1 DEF At
<1>3. Entering' = Entering BY <1>2, SetTopEntering
<1>4. Job(fr) = [base |-> fr.base, fn |-> fr.fn, inputs |-> fr.inputs,
                 i |-> fr.i, base_owner |-> fr.base_owner, pc |-> fr.pc]
  BY DEF Job
<1> QED BY <1>3, <1>4, SetTopJobs

LEMMA GotoJobs ==
  ASSUME TypeInv, NEW w \in Workers, NEW pc \in Busy \ {"nested"}, At(w, pc),
         NEW pc2 \in Busy \ {"nested"}, Goto(w, pc2)
  PROVE  /\ JobMoves(w, [job[Here(w)] EXCEPT !.pc = pc2])
         /\ Entering' = Entering
<1> DEFINE fr == [Top(w) EXCEPT !.pc = pc2]
<1>1. Top(w) \in Frame BY TopOK
<1>2. pc2 \in PCs /\ pc2 # "setowner" /\ pc2 # "nested"
  BY DEF Busy, Handling, PCs
<1>3. fr \in Frame /\ fr.pc = pc2 /\ fr.base = Top(w).base /\ fr.fn = Top(w).fn
      /\ fr.inputs = Top(w).inputs /\ fr.i = Top(w).i
      /\ fr.base_owner = Top(w).base_owner
  BY <1>1, <1>2 DEF Frame
<1>4. SetTop(w, fr) BY DEF Goto
<1> HIDE DEF fr
<1>5. /\ Entering' = Entering
      /\ JobMoves(w, [base |-> fr.base, fn |-> fr.fn, inputs |-> fr.inputs,
                      i |-> fr.i, base_owner |-> fr.base_owner, pc |-> fr.pc])
  BY <1>2, <1>3, <1>4, MoveTop
<1>6. [job[Here(w)] EXCEPT !.pc = pc2] =
        [base |-> fr.base, fn |-> fr.fn, inputs |-> fr.inputs,
         i |-> fr.i, base_owner |-> fr.base_owner, pc |-> fr.pc]
  <2>1. job[Here(w)] = [base |-> Top(w).base, fn |-> Top(w).fn,
                        inputs |-> Top(w).inputs, i |-> Top(w).i,
                        base_owner |-> Top(w).base_owner, pc |-> pc]
    BY AtJob
  <2> QED BY <1>3, <2>1
<1> QED BY <1>5, <1>6

LEMMA IdleFrameJobs ==
  ASSUME TypeInv, NEW w \in Workers, NEW pc \in Busy \ {"nested"}, At(w, pc),
         SetTop(w, EmptyFrame(Top(w).loop, "loop"))
  PROVE  JobEnds(w) /\ Entering' = Entering
<1>1. Top(w).loop \in Tasks \cup {NoTask} BY TopOK DEF Frame
<1>2. EmptyFrame(Top(w).loop, "loop") \in Frame BY <1>1, EmptyFrameOK
<1>3. EmptyFrame(Top(w).loop, "loop").pc = "loop" BY DEF EmptyFrame
<1>4. "loop" \notin Busy BY DEF Busy, Handling
<1> QED BY <1>2, <1>3, <1>4, MoveTop

(***************************************************************************)
(* The steps of thread_main(), evaluate_function() and call_function() as  *)
(* changes of one job.                                                     *)
(***************************************************************************)
LEMMA LoopContinueJobs ==
  ASSUME TypeInv, NEW w \in Workers, LoopContinue(w)
  PROVE  JobsStay /\ Entering' = Entering
<1> DEFINE fr == [Top(w) EXCEPT !.pc = "pop"]
<1>1. Top(w) \in Frame /\ Top(w).pc = "loop" BY TopOK DEF LoopContinue, At
<1>2. fr \in Frame /\ fr.pc = "pop" /\ SetTop(w, fr)
  BY <1>1 DEF Frame, PCs, LoopContinue, Goto
<1> HIDE DEF fr
<1>3. fr.pc \notin Busy /\ Top(w).pc \notin Busy BY <1>1, <1>2 DEF Busy, Handling
<1>4. ~ At(w, "setowner") BY <1>1 DEF At
<1> QED BY <1>2, <1>3, <1>4, SetTopStay, SetTopEntering

LEMMA SetOwnerJobs ==
  ASSUME TypeInv, NEW w \in Workers, SetOwner(w)
  PROVE  /\ JobsStay
         /\ <<w, Top(w).loop>> \in Entering /\ Top(w).loop \in Tasks
         /\ Entering' = Entering \ {<<w, Top(w).loop>>}
<1> DEFINE fr == [Top(w) EXCEPT !.pc = "loop"]
<1>1. Top(w) \in Frame /\ Top(w).pc = "setowner" /\ At(w, "setowner")
      /\ Top(w).loop \in Tasks
  BY TopOK DEF SetOwner, At, FrameOK
<1>2. fr \in Frame /\ fr.pc = "loop" /\ SetTop(w, fr)
  BY <1>1 DEF Frame, PCs, SetOwner, Goto
<1> HIDE DEF fr
<1>3. fr.pc \notin Busy /\ Top(w).pc \notin Busy BY <1>1, <1>2 DEF Busy, Handling
<1>4. <<w, Top(w).loop>> \in Entering BY <1>1 DEF Entering
<1> QED BY <1>1, <1>2, <1>3, <1>4, SetTopStay, SetTopEntering

LEMMA PopJobs ==
  ASSUME TypeInv, NEW w \in Workers, Pop(w)
  PROVE  /\ Here(w) \notin Jobs /\ Here(w)[1] = w
         /\ Entering' = Entering
         /\ \E x \in ready[w] : \E new :
              /\ x \in FunctionTask
              /\ ready' = [ready EXCEPT ![w] = @ \ {x}]
              /\ JobMoves(w, new)
              /\ new.base = x.base /\ new.fn = x.fn /\ new.inputs = x.inputs
              /\ new.pc = FirstStep(x)
<1>1. PICK x \in HeapTop(w) :
        /\ ready' = [ready EXCEPT ![w] = @ \ {x}]
        /\ SetTop(w, [Top(w) EXCEPT !.base = x.base, !.fn = x.fn,
                                    !.inputs = x.inputs, !.pc = FirstStep(x)])
  BY DEF Pop
<1>2. x \in FunctionTask /\ x \in ready[w]
  BY DEF HeapTop, TypeInv, TypeOK
<1>3. x.base \in Tasks /\ x.fn \in Nodes \cup {NullFn} /\ x.inputs \in SUBSET Edges
  BY <1>2 DEF FunctionTask
<1> DEFINE fr == [Top(w) EXCEPT !.base = x.base, !.fn = x.fn,
                                !.inputs = x.inputs, !.pc = FirstStep(x)]
<1>4. FirstStep(x) \in {"owner", "capture", "call"} BY DEF FirstStep
<1>5. Top(w) \in Frame /\ Top(w).pc = "pop" BY TopOK DEF Pop, At
<1>6. fr \in Frame /\ fr.base = x.base /\ fr.fn = x.fn /\ fr.inputs = x.inputs
      /\ fr.pc = FirstStep(x)
  BY <1>3, <1>4, <1>5 DEF Frame, PCs
<1>7. SetTop(w, fr) BY <1>1
<1> HIDE DEF fr
<1>8. fr.pc \in Busy /\ fr.pc # "nested" /\ fr.pc # "setowner"
  BY <1>4, <1>6 DEF Busy, Handling
<1>9. JobMoves(w, Job(fr)) BY <1>6, <1>7, <1>8, SetTopJobs
<1>10. Job(fr).base = x.base /\ Job(fr).fn = x.fn /\ Job(fr).inputs = x.inputs
       /\ Job(fr).pc = FirstStep(x)
  BY <1>6, <1>8 DEF Job
<1>11. Here(w) \notin Jobs /\ Here(w)[1] = w BY <1>5, TopJob DEF Busy, Handling
<1>12. Entering' = Entering
  BY <1>5, <1>6, <1>7, <1>8, SetTopEntering DEF At
<1> QED BY <1>1, <1>2, <1>9, <1>10, <1>11, <1>12

(* The job w works on goes from one place in the code to another. *)
Now(w) == job[Here(w)]
Advances(w, from, new) ==
  /\ Here(w) \in Jobs /\ Here(w)[1] = w
  /\ JobOK(Now(w)) /\ Now(w).pc = from
  /\ JobMoves(w, new) /\ Entering' = Entering
Finishes(w, from) ==
  /\ Here(w) \in Jobs /\ Here(w)[1] = w
  /\ JobOK(Now(w)) /\ Now(w).pc = from
  /\ JobEnds(w) /\ Entering' = Entering

LEMMA NowFields ==
  ASSUME TypeInv, NEW w \in Workers, NEW pc \in Busy \ {"nested"}, At(w, pc)
  PROVE  /\ Here(w) \in Jobs /\ Here(w)[1] = w /\ JobOK(Now(w))
         /\ Now(w).base = Top(w).base /\ Now(w).fn = Top(w).fn
         /\ Now(w).inputs = Top(w).inputs /\ Now(w).i = Top(w).i
         /\ Now(w).base_owner = Top(w).base_owner /\ Now(w).pc = pc
<1>1. /\ Here(w) \in Jobs /\ Here(w)[1] = w /\ JobOK(Now(w))
      /\ Now(w) = [base |-> Top(w).base, fn |-> Top(w).fn,
                   inputs |-> Top(w).inputs, i |-> Top(w).i,
                   base_owner |-> Top(w).base_owner, pc |-> pc]
  BY AtJob DEF Now
<1> QED BY <1>1

LEMMA CaptureJobs ==
  ASSUME TypeInv, NEW w \in Workers, Capture(w)
  PROVE  /\ Advances(w, "capture",
              [Now(w) EXCEPT !.pc = IF Now(w).fn \in Needed[Now(w).base]
                                    THEN "call" ELSE "owner"])
         /\ captured_vars' = [captured_vars EXCEPT ![Now(w).base][Now(w).fn] =
                                Now(w).inputs]
<1> DEFINE pc2 == IF Now(w).fn \in Needed[Now(w).base] THEN "call" ELSE "owner"
<1>1. At(w, "capture") /\ "capture" \in Busy \ {"nested"}
      /\ pc2 \in Busy \ {"nested"}
  BY DEF Capture, Busy, Handling
<1>2. /\ Here(w) \in Jobs /\ Here(w)[1] = w /\ JobOK(Now(w))
      /\ Now(w).base = Top(w).base /\ Now(w).fn = Top(w).fn
      /\ Now(w).inputs = Top(w).inputs /\ Now(w).pc = "capture"
  BY <1>1, NowFields
<1>3. Goto(w, pc2) BY <1>2 DEF Capture
<1>4. captured_vars' = [captured_vars EXCEPT ![Now(w).base][Now(w).fn] =
                          Now(w).inputs]
  BY <1>2 DEF Capture
<1> HIDE DEF pc2
<1>5. JobMoves(w, [Now(w) EXCEPT !.pc = pc2]) /\ Entering' = Entering
  BY <1>1, <1>3, GotoJobs DEF Now
<1> QED BY <1>2, <1>4, <1>5 DEF Advances, pc2

LEMMA CallFunctionJobs ==
  ASSUME TypeInv, NEW w \in Workers, CallFunction(w)
  PROVE  Advances(w, "call",
              [base |-> Now(w).base, fn |-> Now(w).fn, inputs |-> {},
               i |-> Now(w).i, base_owner |-> Now(w).base_owner, pc |-> "apply"])
<1> DEFINE fr == [Top(w) EXCEPT !.pc = "apply", !.inputs = {},
                                !.prev = checkpoint_valid[w]]
<1>1. At(w, "call") /\ "call" \in Busy \ {"nested"} /\ "apply" \in Busy
  BY DEF CallFunction, Busy, Handling
<1>2. Top(w) \in Frame /\ checkpoint_valid[w] \in BOOLEAN
  BY TopOK DEF TypeInv, TypeOK
<1>3. fr \in Frame /\ fr.pc = "apply" /\ fr.inputs = {} /\ fr.base = Top(w).base
      /\ fr.fn = Top(w).fn /\ fr.i = Top(w).i /\ fr.base_owner = Top(w).base_owner
  BY <1>2 DEF Frame, PCs
<1>4. SetTop(w, fr) BY DEF CallFunction
<1> HIDE DEF fr
<1>5. /\ Entering' = Entering
      /\ JobMoves(w, [base |-> fr.base, fn |-> fr.fn, inputs |-> fr.inputs,
                      i |-> fr.i, base_owner |-> fr.base_owner, pc |-> fr.pc])
  BY <1>1, <1>3, <1>4, MoveTop
<1>6. Now(w) = [base |-> Top(w).base, fn |-> Top(w).fn,
                inputs |-> Top(w).inputs, i |-> Top(w).i,
                base_owner |-> Top(w).base_owner, pc |-> "call"]
      /\ Here(w) \in Jobs /\ Here(w)[1] = w /\ JobOK(Now(w))
  BY <1>1, AtJob DEF Now
<1>7. [base |-> Now(w).base, fn |-> Now(w).fn, inputs |-> {},
               i |-> Now(w).i, base_owner |-> Now(w).base_owner, pc |-> "apply"] =
        [base |-> fr.base, fn |-> fr.fn, inputs |-> fr.inputs,
         i |-> fr.i, base_owner |-> fr.base_owner, pc |-> fr.pc]
  BY <1>3, <1>6
<1>8. Now(w).pc = "call" BY <1>6
<1> QED BY <1>5, <1>6, <1>7, <1>8 DEF Advances

LEMMA ApplyReturnJobs ==
  ASSUME TypeInv, NEW w \in Workers, ApplyReturn(w)
  PROVE  /\ Advances(w, "apply",
              [Now(w) EXCEPT !.pc = IF NextOf[Now(w).base][Now(w).fn] = <<>>
                                    THEN "owner" ELSE "lock"])
         /\ \E D \in DefinedOutputs(Now(w).base, Now(w).fn) :
              applied' = [applied EXCEPT ![Now(w).base][Now(w).fn] =
                            {Now(w).fn} \X D]
<1> DEFINE pc2 == IF NextOf[Now(w).base][Now(w).fn] = <<>> THEN "owner" ELSE "lock"
<1>1. At(w, "apply") /\ "apply" \in Busy \ {"nested"}
      /\ pc2 \in Busy \ {"nested"}
  BY DEF ApplyReturn, Busy, Handling
<1>2. /\ Here(w) \in Jobs /\ Here(w)[1] = w /\ JobOK(Now(w))
      /\ Now(w).base = Top(w).base /\ Now(w).fn = Top(w).fn
      /\ Now(w).pc = "apply"
  BY <1>1, NowFields
<1>3. Goto(w, pc2) BY <1>2 DEF ApplyReturn
<1>4. \E D \in DefinedOutputs(Now(w).base, Now(w).fn) :
              applied' = [applied EXCEPT ![Now(w).base][Now(w).fn] =
                            {Now(w).fn} \X D]
  BY <1>2 DEF ApplyReturn
<1> HIDE DEF pc2
<1>5. JobMoves(w, [Now(w) EXCEPT !.pc = pc2]) /\ Entering' = Entering
  BY <1>1, <1>3, GotoJobs DEF Now
<1> QED BY <1>2, <1>4, <1>5 DEF Advances, pc2

LEMMA ApplyThrowJobs ==
  ASSUME TypeInv, NEW w \in Workers, ApplyThrow(w)
  PROVE  Advances(w, "apply", [Now(w) EXCEPT !.pc = "except"])
         /\ CanThrow(Now(w).fn)
<1>1. At(w, "apply") /\ "apply" \in Busy \ {"nested"}
      /\ "except" \in Busy \ {"nested"} /\ Goto(w, "except")
  BY DEF ApplyThrow, Busy, Handling
<1>2. JobMoves(w, [Now(w) EXCEPT !.pc = "except"]) /\ Entering' = Entering
  BY <1>1, GotoJobs DEF Now
<1>3. /\ Here(w) \in Jobs /\ Here(w)[1] = w /\ JobOK(Now(w))
      /\ Now(w).pc = "apply" /\ Now(w).fn = Top(w).fn
  BY <1>1, NowFields
<1> QED BY <1>2, <1>3 DEF Advances, ApplyThrow

LEMMA OnExceptionJobs ==
  ASSUME TypeInv, NEW w \in Workers, OnException(w)
  PROVE  /\ Advances(w, "except", [Now(w) EXCEPT !.pc = "owner"])
         /\ ~ mutex[Now(w).base]
         /\ has_error' = [has_error EXCEPT ![Now(w).base] = TRUE]
<1>1. At(w, "except") /\ "except" \in Busy \ {"nested"}
      /\ "owner" \in Busy \ {"nested"} /\ Goto(w, "owner")
  BY DEF OnException, Busy, Handling
<1>2. JobMoves(w, [Now(w) EXCEPT !.pc = "owner"]) /\ Entering' = Entering
  BY <1>1, GotoJobs DEF Now
<1>3. /\ Here(w) \in Jobs /\ Here(w)[1] = w /\ JobOK(Now(w))
      /\ Now(w).pc = "except" /\ Now(w).base = Top(w).base
  BY <1>1, NowFields
<1> QED BY <1>2, <1>3 DEF Advances, OnException

LEMMA LockGraphTaskJobs ==
  ASSUME TypeInv, NEW w \in Workers, LockGraphTask(w)
  PROVE  /\ Advances(w, "lock",
              [base |-> Now(w).base, fn |-> Now(w).fn, inputs |-> Now(w).inputs,
               i |-> 1, base_owner |-> Now(w).base_owner, pc |-> "propagate"])
         /\ ~ mutex[Now(w).base]
         /\ mutex' = [mutex EXCEPT ![Now(w).base] = TRUE]
<1> DEFINE fr == [Top(w) EXCEPT !.pc = "propagate", !.i = 1]
<1>1. At(w, "lock") /\ "lock" \in Busy \ {"nested"} /\ "propagate" \in Busy
  BY DEF LockGraphTask, Busy, Handling
<1>2. Top(w) \in Frame BY TopOK
<1>3. fr \in Frame /\ fr.pc = "propagate" /\ fr.inputs = Top(w).inputs
      /\ fr.base = Top(w).base
      /\ fr.fn = Top(w).fn /\ fr.i = 1 /\ fr.base_owner = Top(w).base_owner
  BY <1>2 DEF Frame, PCs
<1>4. SetTop(w, fr) BY DEF LockGraphTask
<1> HIDE DEF fr
<1>5. /\ Entering' = Entering
      /\ JobMoves(w, [base |-> fr.base, fn |-> fr.fn, inputs |-> fr.inputs,
                      i |-> fr.i, base_owner |-> fr.base_owner, pc |-> fr.pc])
  BY <1>1, <1>3, <1>4, MoveTop
<1>6. Now(w) = [base |-> Top(w).base, fn |-> Top(w).fn,
                inputs |-> Top(w).inputs, i |-> Top(w).i,
                base_owner |-> Top(w).base_owner, pc |-> "lock"]
      /\ Here(w) \in Jobs /\ Here(w)[1] = w /\ JobOK(Now(w))
  BY <1>1, AtJob DEF Now
<1>7. [base |-> Now(w).base, fn |-> Now(w).fn, inputs |-> Now(w).inputs,
               i |-> 1, base_owner |-> Now(w).base_owner, pc |-> "propagate"] =
        [base |-> fr.base, fn |-> fr.fn, inputs |-> fr.inputs,
         i |-> fr.i, base_owner |-> fr.base_owner, pc |-> fr.pc]
  BY <1>3, <1>6
<1>8. Now(w).pc = "lock" /\ Now(w).base = Top(w).base BY <1>6
<1> QED BY <1>5, <1>6, <1>7, <1>8 DEF Advances, LockGraphTask

LEMMA ReadOwnerJobs ==
  ASSUME TypeInv, NEW w \in Workers, ReadOwner(w)
  PROVE  /\ Advances(w, "owner",
              [base |-> Now(w).base, fn |-> Now(w).fn, inputs |-> Now(w).inputs,
               i |-> Now(w).i, base_owner |-> owner[Now(w).base], pc |-> "decrement"])
         /\ Access(Now(w).base)
<1> DEFINE fr == [Top(w) EXCEPT !.pc = "decrement",
                                !.base_owner = owner[Top(w).base]]
<1>1. At(w, "owner") /\ "owner" \in Busy \ {"nested"} /\ "decrement" \in Busy
  BY DEF ReadOwner, Busy, Handling
<1>6. Now(w) = [base |-> Top(w).base, fn |-> Top(w).fn,
                inputs |-> Top(w).inputs, i |-> Top(w).i,
                base_owner |-> Top(w).base_owner, pc |-> "owner"]
      /\ Here(w) \in Jobs /\ Here(w)[1] = w /\ JobOK(Now(w))
  BY <1>1, AtJob DEF Now
<1>8. Now(w).pc = "owner" /\ Now(w).base = Top(w).base BY <1>6
<1>2. Top(w) \in Frame /\ owner[Top(w).base] \in Workers \cup {NO_DEVICE}
  BY <1>6, <1>8, TopOK DEF JobOK, JobRecord, TypeInv, TypeOK
<1>3. fr \in Frame /\ fr.pc = "decrement" /\ fr.inputs = Top(w).inputs
      /\ fr.base = Top(w).base /\ fr.fn = Top(w).fn /\ fr.i = Top(w).i
      /\ fr.base_owner = owner[Top(w).base]
  BY <1>2 DEF Frame, PCs
<1>4. SetTop(w, fr) BY DEF ReadOwner
<1> HIDE DEF fr
<1>5. /\ Entering' = Entering
      /\ JobMoves(w, [base |-> fr.base, fn |-> fr.fn, inputs |-> fr.inputs,
                      i |-> fr.i, base_owner |-> fr.base_owner, pc |-> fr.pc])
  BY <1>1, <1>3, <1>4, MoveTop
<1>7. [base |-> Now(w).base, fn |-> Now(w).fn, inputs |-> Now(w).inputs,
               i |-> Now(w).i, base_owner |-> owner[Now(w).base], pc |-> "decrement"] =
        [base |-> fr.base, fn |-> fr.fn, inputs |-> fr.inputs,
         i |-> fr.i, base_owner |-> fr.base_owner, pc |-> fr.pc]
  BY <1>3, <1>6
<1> QED BY <1>5, <1>6, <1>7, <1>8 DEF Advances, ReadOwner

LEMMA AdvanceOutputJobs ==
  ASSUME TypeInv, NEW w \in Workers, At(w, "propagate"), NEW ok \in BOOLEAN,
         AdvanceOutput(w, ok)
  PROVE  LET last == Now(w).i = Len(NextOf[Now(w).base][Now(w).fn]) IN
         /\ ok /\ ~ last =>
              Advances(w, "propagate", [Now(w) EXCEPT !.i = Now(w).i + 1])
         /\ ~ (ok /\ ~ last) =>
              Advances(w, "propagate",
                [base |-> Now(w).base, fn |-> Now(w).fn, inputs |-> Now(w).inputs,
                 i |-> 1, base_owner |-> Now(w).base_owner,
                 pc |-> IF ok THEN "owner" ELSE "except"])
         /\ mutex' = [mutex EXCEPT ![Now(w).base] = ok /\ ~ last]
<1> DEFINE last == Now(w).i = Len(NextOf[Now(w).base][Now(w).fn])
           fr == IF ok /\ ~ last
                 THEN [Top(w) EXCEPT !.i = @ + 1]
                 ELSE [Top(w) EXCEPT !.i = 1,
                                     !.pc = IF ok THEN "owner" ELSE "except"]
<1>1. "propagate" \in Busy \ {"nested"} BY DEF Busy, Handling
<1>2. Now(w) = [base |-> Top(w).base, fn |-> Top(w).fn,
                inputs |-> Top(w).inputs, i |-> Top(w).i,
                base_owner |-> Top(w).base_owner, pc |-> "propagate"]
      /\ Here(w) \in Jobs /\ Here(w)[1] = w /\ JobOK(Now(w))
  BY <1>1, AtJob DEF Now
<1>3. Now(w).pc = "propagate" /\ Now(w).base = Top(w).base
      /\ Now(w).fn = Top(w).fn /\ Now(w).i = Top(w).i
  BY <1>2
<1>4. SetTop(w, fr) /\ mutex' = [mutex EXCEPT ![Now(w).base] = ok /\ ~ last]
  BY <1>3, Zenon DEF AdvanceOutput
<1>5. Top(w) \in Frame /\ Top(w).pc = "propagate" /\ Top(w).i \in Nat
  BY TopOK DEF At, Frame
<1> HIDE DEF last
<1>6. ASSUME ok /\ ~ last
      PROVE  Advances(w, "propagate", [Now(w) EXCEPT !.i = Now(w).i + 1])
  <2> DEFINE next == Top(w).i + 1
  <2>1. fr = [Top(w) EXCEPT !.i = next] /\ next \in Nat BY <1>5, <1>6
  <2> HIDE DEF next, fr
  <2>2. fr \in Frame /\ fr.pc = "propagate" /\ fr.inputs = Top(w).inputs
        /\ fr.base = Top(w).base /\ fr.fn = Top(w).fn /\ fr.i = next
        /\ fr.base_owner = Top(w).base_owner
    BY <1>5, <2>1 DEF Frame
  <2>3. /\ Entering' = Entering
        /\ JobMoves(w, [base |-> fr.base, fn |-> fr.fn, inputs |-> fr.inputs,
                        i |-> fr.i, base_owner |-> fr.base_owner, pc |-> fr.pc])
    BY <1>1, <1>4, <2>2, MoveTop
  <2>4. [Now(w) EXCEPT !.i = Now(w).i + 1] =
          [base |-> fr.base, fn |-> fr.fn, inputs |-> fr.inputs,
           i |-> fr.i, base_owner |-> fr.base_owner, pc |-> fr.pc]
    <3>1. Now(w).i + 1 = fr.i BY <1>3, <2>2 DEF next
    <3>2. [Now(w) EXCEPT !.i = fr.i] =
            [base |-> fr.base, fn |-> fr.fn, inputs |-> fr.inputs,
             i |-> fr.i, base_owner |-> fr.base_owner, pc |-> fr.pc]
      BY <1>2, <2>2
    <3> QED BY <3>1, <3>2, Zenon
  <2> QED BY <1>2, <1>3, <2>3, <2>4 DEF Advances
<1>7. ASSUME ~ (ok /\ ~ last)
      PROVE  Advances(w, "propagate",
                [base |-> Now(w).base, fn |-> Now(w).fn, inputs |-> Now(w).inputs,
                 i |-> 1, base_owner |-> Now(w).base_owner,
                 pc |-> IF ok THEN "owner" ELSE "except"])
  <2> DEFINE pc2 == IF ok THEN "owner" ELSE "except"
  <2>1. fr = [Top(w) EXCEPT !.i = 1, !.pc = pc2] BY <1>7
  <2>2. pc2 \in {"owner", "except"} OBVIOUS
  <2> HIDE DEF pc2
  <2>3. fr \in Frame /\ fr.pc = pc2 /\ fr.inputs = Top(w).inputs
        /\ fr.base = Top(w).base /\ fr.fn = Top(w).fn /\ fr.i = 1
        /\ fr.base_owner = Top(w).base_owner
    BY <1>5, <2>1, <2>2 DEF Frame, PCs
  <2>4. fr.pc \in Busy /\ fr.pc # "nested" /\ fr.pc # "setowner"
    BY <2>2, <2>3 DEF Busy, Handling
  <2> HIDE DEF fr
  <2>5. /\ Entering' = Entering
        /\ JobMoves(w, [base |-> fr.base, fn |-> fr.fn, inputs |-> fr.inputs,
                        i |-> fr.i, base_owner |-> fr.base_owner, pc |-> fr.pc])
    BY <1>1, <1>4, <2>3, <2>4, MoveTop
  <2>6. [base |-> Now(w).base, fn |-> Now(w).fn, inputs |-> Now(w).inputs,
         i |-> 1, base_owner |-> Now(w).base_owner, pc |-> pc2] =
          [base |-> fr.base, fn |-> fr.fn, inputs |-> fr.inputs,
           i |-> fr.i, base_owner |-> fr.base_owner, pc |-> fr.pc]
    BY <1>2, <2>3
  <2> QED BY <1>2, <1>3, <2>5, <2>6 DEF Advances, pc2
<1> QED BY <1>4, <1>6, <1>7 DEF last

LEMMA DecrementJobs ==
  ASSUME TypeInv, NEW w \in Workers, Decrement(w)
  PROVE  LET left == outstanding_tasks[Now(w).base] - 1
             pc   == AfterDecrement(w, Now(w).base_owner, left)
         IN  /\ outstanding_tasks' =
                  [outstanding_tasks EXCEPT ![Now(w).base] = left]
             /\ pc \in {"loop", "notify", "dummy"}
             /\ pc = "loop" => Finishes(w, "decrement")
             /\ pc # "loop" => Advances(w, "decrement", [Now(w) EXCEPT !.pc = pc])
             /\ Access(Now(w).base)
<1> DEFINE left == outstanding_tasks[Now(w).base] - 1
           pc == AfterDecrement(w, Now(w).base_owner, left)
<1>1. At(w, "decrement") /\ "decrement" \in Busy \ {"nested"}
  BY DEF Decrement, Busy, Handling
<1>2. /\ Here(w) \in Jobs /\ Here(w)[1] = w /\ JobOK(Now(w))
      /\ Now(w).base = Top(w).base /\ Now(w).base_owner = Top(w).base_owner
      /\ Now(w).pc = "decrement"
  BY <1>1, NowFields
<1>3. /\ outstanding_tasks' = [outstanding_tasks EXCEPT ![Now(w).base] = left]
      /\ SetTop(w, IF pc = "loop" THEN EmptyFrame(Top(w).loop, "loop")
                                  ELSE [Top(w) EXCEPT !.pc = pc])
      /\ Access(Now(w).base)
  BY <1>2, Zenon DEF Decrement
<1>4. pc \in {"loop", "notify", "dummy"} BY DEF AfterDecrement
<1> HIDE DEF pc, left
<1>5. ASSUME pc = "loop" PROVE Finishes(w, "decrement")
  <2>1. SetTop(w, EmptyFrame(Top(w).loop, "loop")) BY <1>3, <1>5
  <2>2. JobEnds(w) /\ Entering' = Entering BY <1>1, <2>1, IdleFrameJobs
  <2> QED BY <1>2, <2>2 DEF Finishes
<1>6. ASSUME pc # "loop"
      PROVE  Advances(w, "decrement", [Now(w) EXCEPT !.pc = pc])
  <2>1. Goto(w, pc) BY <1>3, <1>6 DEF Goto
  <2>2. pc \in Busy \ {"nested"} BY <1>4, <1>6 DEF Busy
  <2>3. JobMoves(w, [Now(w) EXCEPT !.pc = pc]) /\ Entering' = Entering
    BY <1>1, <2>1, <2>2, GotoJobs DEF Now
  <2> QED BY <1>2, <2>3 DEF Advances
<1> QED BY <1>3, <1>4, <1>5, <1>6 DEF pc, left

LEMMA NotifyJobs ==
  ASSUME TypeInv, NEW w \in Workers, Notify(w)
  PROVE  /\ Finishes(w, "notify") /\ Access(Now(w).base) /\ ~ mutex[Now(w).base]
         /\ phase' = [phase EXCEPT ![Now(w).base] =
                        IF @ = "waiting" THEN "woken" ELSE @]
<1>1. At(w, "notify") /\ "notify" \in Busy \ {"nested"} BY DEF Notify, Busy
<1>2. /\ Here(w) \in Jobs /\ Here(w)[1] = w /\ JobOK(Now(w))
      /\ Now(w).base = Top(w).base /\ Now(w).pc = "notify"
  BY <1>1, NowFields
<1>3. JobEnds(w) /\ Entering' = Entering
  BY <1>1, IdleFrameJobs DEF Notify
<1> QED BY <1>2, <1>3 DEF Finishes, Notify

LEMMA PushDummyJobs ==
  ASSUME TypeInv, NEW w \in Workers, PushDummy(w)
  PROVE  /\ Finishes(w, "dummy") /\ Access(Now(w).base)
         /\ Push(Now(w).base_owner,
                 [base |-> Now(w).base, fn |-> NullFn, inputs |-> {}])
<1>1. At(w, "dummy") /\ "dummy" \in Busy \ {"nested"} BY DEF PushDummy, Busy
<1>2. /\ Here(w) \in Jobs /\ Here(w)[1] = w /\ JobOK(Now(w))
      /\ Now(w).base = Top(w).base /\ Now(w).base_owner = Top(w).base_owner
      /\ Now(w).pc = "dummy"
  BY <1>1, NowFields
<1>3. JobEnds(w) /\ Entering' = Entering
  BY <1>1, IdleFrameJobs DEF PushDummy
<1>4. Push(Now(w).base_owner,
           [base |-> Now(w).base, fn |-> NullFn, inputs |-> {}])
  BY <1>2 DEF PushDummy
<1> QED BY <1>2, <1>3, <1>4 DEF Finishes, PushDummy

-----------------------------------------------------------------------------
(***************************************************************************)
(* Counting.                                                               *)
(***************************************************************************)
HandledAreJobs ==
  \A t \in Tasks :
    Handled(t) = {j \in Jobs : job[j].base = t /\ job[j].pc \in Handling}

LEMMA HandledJobs ==
  TypeInv => \A t \in Tasks :
    Handled(t) = {j \in Jobs : job[j].base = t /\ job[j].pc \in Handling}
<1> SUFFICES ASSUME TypeInv, NEW t \in Tasks
             PROVE  Handled(t) =
                      {j \in Jobs : job[j].base = t /\ job[j].pc \in Handling}
  OBVIOUS
<1>1. \A w \in Workers : DOMAIN stack[w] = 1 .. Len(stack[w])
  BY DEF TypeInv, TypeOK
<1>2. \A j : j \in Handled(t) <=>
         \E w \in Workers : \E k \in 1 .. Len(stack[w]) :
            /\ j = <<w, k>> /\ stack[w][k].base = t
            /\ stack[w][k].pc \in Handling
  BY <1>1 DEF Handled
<1>3. \A fr : /\ Job(fr).base = fr.base
              /\ fr.pc \in Busy =>
                   (Job(fr).pc \in Handling <=> fr.pc \in Handling)
  BY DEF Job, Handling, Busy
<1>4. \A w \in Workers : \A k \in 1 .. Len(stack[w]) :
         <<w, k>> \in Jobs => job[<<w, k>>] = Job(stack[w][k])
  BY DEF job
<1>5. Handling \subseteq Busy BY DEF Busy
<1> QED BY <1>2, <1>3, <1>4, <1>5, JobPlaces

LEMMA HandledJobsPrime ==
  TypeInv' => \A t \in Tasks :
    Handled(t)' = {j \in Jobs' : job'[j].base = t /\ job'[j].pc \in Handling}
<1>1. TypeInv => HandledAreJobs BY HandledJobs DEF HandledAreJobs
<1>2. TypeInv' => HandledAreJobs' BY <1>1, PTL
<1> QED BY <1>2 DEF HandledAreJobs

LEMMA QueuedMembers ==
  /\ \A t \in Tasks : \A q : q \in Queued(t) <=>
       \E w \in Workers : \E x \in ready[w] : q = <<w, x>> /\ x.base = t
  /\ \A t \in Tasks : \A q : q \in Queued(t)' <=>
       \E w \in Workers : \E x \in ready'[w] : q = <<w, x>> /\ x.base = t
BY DEF Queued

(* Queueing what is not in the queue adds one to the count. *)
LEMMA PushCount ==
  ASSUME TypeInv, CountInv, NEW d \in Workers, NEW item \in FunctionTask,
         item \notin ready[d], Push(d, item),
         \A t \in Tasks : Handled(t)' = Handled(t)
  PROVE  CountInv'
<1>1. /\ ready \in [Workers -> SUBSET FunctionTask]
      /\ outstanding_tasks \in [Tasks -> Int]
      /\ item.base \in Tasks
  BY DEF TypeInv, TypeOK, FunctionTask
<1>2. /\ ready'[d] = ready[d] \cup {item}
      /\ \A w \in Workers \ {d} : ready'[w] = ready[w]
      /\ outstanding_tasks'[item.base] = outstanding_tasks[item.base] + 1
      /\ \A t \in Tasks \ {item.base} : outstanding_tasks'[t] = outstanding_tasks[t]
  BY <1>1 DEF Push
<1>3. <<d, item>> \notin Queued(item.base) BY <1>1, QueuedMembers
<1>4. Queued(item.base)' = Queued(item.base) \cup {<<d, item>>}
  <2>1. \A q : q \in Queued(item.base)' <=>
                 q \in Queued(item.base) \/ q = <<d, item>>
    BY <1>1, <1>2, QueuedMembers
  <2> QED BY <2>1
<1>5. \A t \in Tasks \ {item.base} : Queued(t)' = Queued(t)
  <2> SUFFICES ASSUME NEW t \in Tasks, t # item.base
               PROVE  \A q : q \in Queued(t)' <=> q \in Queued(t)
    OBVIOUS
  <2> QED BY <1>2, QueuedMembers
<1> SUFFICES ASSUME NEW t \in Tasks
             PROVE  /\ IsFiniteSet(Queued(t)') /\ IsFiniteSet(Handled(t)')
                    /\ outstanding_tasks'[t] =
                         Cardinality(Queued(t)') + Cardinality(Handled(t)')
  BY DEF CountInv
<1>6. /\ IsFiniteSet(Queued(t)) /\ IsFiniteSet(Handled(t))
      /\ outstanding_tasks[t] = Cardinality(Queued(t)) + Cardinality(Handled(t))
      /\ Cardinality(Queued(t)) \in Nat /\ Cardinality(Handled(t)) \in Nat
  BY FS_CardinalityType DEF CountInv
<1>7. CASE t = item.base
  <2>1. /\ IsFiniteSet(Queued(t)')
        /\ Cardinality(Queued(t)') = Cardinality(Queued(t)) + 1
    BY <1>3, <1>4, <1>6, <1>7, FS_AddElement
  <2> QED BY <1>2, <1>6, <1>7, <2>1
<1>8. CASE t # item.base BY <1>2, <1>5, <1>6, <1>8
<1> QED BY <1>7, <1>8

(* Taking a FunctionTask from a queue moves it. *)
LEMMA PopCount ==
  ASSUME TypeInv, CountInv, NEW w \in Workers, NEW x \in ready[w],
         x \in FunctionTask, ready' = [ready EXCEPT ![w] = @ \ {x}],
         UNCHANGED outstanding_tasks, NEW h, h \notin Handled(x.base),
         Handled(x.base)' = Handled(x.base) \cup {h},
         \A t \in Tasks \ {x.base} : Handled(t)' = Handled(t)
  PROVE  CountInv'
<1>1. x.base \in Tasks /\ ready \in [Workers -> SUBSET FunctionTask]
  BY DEF FunctionTask, TypeInv, TypeOK
<1>2. /\ ready'[w] = ready[w] \ {x}
      /\ \A v \in Workers \ {w} : ready'[v] = ready[v]
  BY <1>1
<1>3. <<w, x>> \in Queued(x.base) BY <1>1, QueuedMembers
<1>4. Queued(x.base)' = Queued(x.base) \ {<<w, x>>}
  <2>1. \A q : q \in Queued(x.base)' <=> q \in Queued(x.base) /\ q # <<w, x>>
    BY <1>1, <1>2, QueuedMembers
  <2> QED BY <2>1
<1>5. \A t \in Tasks \ {x.base} : Queued(t)' = Queued(t)
  <2> SUFFICES ASSUME NEW t \in Tasks, t # x.base
               PROVE  \A q : q \in Queued(t)' <=> q \in Queued(t)
    OBVIOUS
  <2> QED BY <1>2, QueuedMembers
<1> SUFFICES ASSUME NEW t \in Tasks
             PROVE  /\ IsFiniteSet(Queued(t)') /\ IsFiniteSet(Handled(t)')
                    /\ outstanding_tasks'[t] =
                         Cardinality(Queued(t)') + Cardinality(Handled(t)')
  BY DEF CountInv
<1>6. /\ IsFiniteSet(Queued(t)) /\ IsFiniteSet(Handled(t))
      /\ outstanding_tasks[t] = Cardinality(Queued(t)) + Cardinality(Handled(t))
      /\ Cardinality(Queued(t)) \in Nat /\ Cardinality(Handled(t)) \in Nat
  BY FS_CardinalityType DEF CountInv
<1>7. CASE t = x.base
  <2>1. /\ IsFiniteSet(Queued(t)')
        /\ Cardinality(Queued(t)') = Cardinality(Queued(t)) - 1
    BY <1>3, <1>4, <1>6, <1>7, FS_RemoveElement
  <2>2. /\ IsFiniteSet(Handled(t)')
        /\ Cardinality(Handled(t)') = Cardinality(Handled(t)) + 1
    BY <1>6, <1>7, FS_AddElement
  <2> QED BY <1>6, <1>7, <2>1, <2>2
<1>8. CASE t # x.base BY <1>5, <1>6, <1>8
<1> QED BY <1>7, <1>8

(* Counting a job down that has been handled. *)
LEMMA DecrementCount ==
  ASSUME TypeInv, CountInv, NEW b \in Tasks, NEW h \in Handled(b),
         outstanding_tasks' = [outstanding_tasks EXCEPT ![b] =
                                 outstanding_tasks[b] - 1],
         UNCHANGED ready, Handled(b)' = Handled(b) \ {h},
         \A t \in Tasks \ {b} : Handled(t)' = Handled(t)
  PROVE  CountInv'
<1>1. outstanding_tasks \in [Tasks -> Int] BY DEF TypeInv, TypeOK
<1>2. \A t \in Tasks : Queued(t)' = Queued(t) BY DEF Queued
<1> SUFFICES ASSUME NEW t \in Tasks
             PROVE  /\ IsFiniteSet(Queued(t)') /\ IsFiniteSet(Handled(t)')
                    /\ outstanding_tasks'[t] =
                         Cardinality(Queued(t)') + Cardinality(Handled(t)')
  BY DEF CountInv
<1>3. /\ IsFiniteSet(Queued(t)) /\ IsFiniteSet(Handled(t))
      /\ outstanding_tasks[t] = Cardinality(Queued(t)) + Cardinality(Handled(t))
      /\ Cardinality(Queued(t)) \in Nat /\ Cardinality(Handled(t)) \in Nat
  BY FS_CardinalityType DEF CountInv
<1>4. CASE t = b
  <2>1. /\ IsFiniteSet(Handled(t)')
        /\ Cardinality(Handled(t)') = Cardinality(Handled(t)) - 1
    BY <1>3, <1>4, FS_RemoveElement
  <2> QED BY <1>1, <1>2, <1>3, <1>4, <2>1
<1>5. CASE t # b BY <1>1, <1>2, <1>3, <1>5
<1> QED BY <1>4, <1>5

LEMMA SameCount ==
  ASSUME CountInv, UNCHANGED <<ready, outstanding_tasks>>,
         \A t \in Tasks : Handled(t)' = Handled(t)
  PROVE  CountInv'
BY DEF CountInv, Queued

(* When the counter is 0, or 1 with a job that is still counted, nothing   *)
(* else of the call is left.                                               *)
LEMMA CounterZero ==
  ASSUME TypeInv, CountInv, NEW t \in Tasks, outstanding_tasks[t] = 0
  PROVE  /\ \A w \in Workers : \A x \in ready[w] : x.base # t
         /\ \A j \in Jobs : job[j].base = t => job[j].pc \notin Handling
<1>1. /\ IsFiniteSet(Queued(t)) /\ IsFiniteSet(Handled(t))
      /\ 0 = Cardinality(Queued(t)) + Cardinality(Handled(t))
      /\ Cardinality(Queued(t)) \in Nat /\ Cardinality(Handled(t)) \in Nat
  BY FS_CardinalityType DEF CountInv
<1>2. Queued(t) = {} /\ Handled(t) = {} BY <1>1, FS_EmptySet
<1> QED BY <1>2, QueuedMembers, HandledJobs

LEMMA CounterOne ==
  ASSUME TypeInv, CountInv, NEW t \in Tasks, outstanding_tasks[t] = 1,
         NEW h \in Handled(t)
  PROVE  /\ \A w \in Workers : \A x \in ready[w] : x.base # t
         /\ \A j \in Jobs : job[j].base = t /\ job[j].pc \in Handling => j = h
<1>1. /\ IsFiniteSet(Queued(t)) /\ IsFiniteSet(Handled(t))
      /\ 1 = Cardinality(Queued(t)) + Cardinality(Handled(t))
      /\ Cardinality(Queued(t)) \in Nat /\ Cardinality(Handled(t)) \in Nat
  BY FS_CardinalityType DEF CountInv
<1>2. /\ IsFiniteSet(Handled(t) \ {h})
      /\ Cardinality(Handled(t) \ {h}) = Cardinality(Handled(t)) - 1
      /\ Cardinality(Handled(t) \ {h}) \in Nat
  BY <1>1, FS_RemoveElement, FS_CardinalityType
<1>3. Cardinality(Queued(t)) = 0 /\ Cardinality(Handled(t) \ {h}) = 0
  BY <1>1, <1>2
<1>4. Queued(t) = {} /\ Handled(t) \ {h} = {} BY <1>1, <1>2, <1>3, FS_EmptySet
<1> QED BY <1>4, QueuedMembers, HandledJobs

-----------------------------------------------------------------------------
(***************************************************************************)
(* Steps that leave queues and jobs alone.                                 *)
(***************************************************************************)
LEMMA StayHandled ==
  ASSUME TypeInv, TypeInv', JobsStay
  PROVE  \A t \in Tasks : Handled(t)' = Handled(t)
BY HandledJobs, HandledJobsPrime DEF JobsStay

LEMMA StayInv ==
  ASSUME EngineInv, TypeInv', JobsStay, Entering' = Entering,
         UNCHANGED <<ready, outstanding_tasks, owner, dependencies, applied,
                     not_ready>>,
         \A t \in Tasks : phase'[t] = "idle" => phase[t] = "idle",
         \A t \in Tasks : phase'[t] = "returned" =>
            phase[t] = "returned" \/ outstanding_tasks[t] = 0
  PROVE  CoreInv'
<1> USE DEF EngineInv, CoreInv
<1>1. Jobs' = Jobs /\ job' = job BY DEF JobsStay
<1>2. \A t \in Tasks : Pending(t)' <=> Pending(t) BY <1>1 DEF Pending
<1>3. CountInv' BY StayHandled, SameCount
<1>4. IdleInv' BY <1>1 DEF IdleInv
<1>5. OwnerInv' BY <1>1 DEF OwnerInv
<1>6. DrainInv'
  <2>1. \A t \in Tasks : phase'[t] = "returned" => ~ Pending(t)
    BY CounterZero DEF DrainInv, Pending
  <2>2. \A w \in Workers : \A x \in ready[w] : x.base \in Tasks
    BY DEF TypeInv, TypeOK, FunctionTask
  <2>3. \A j \in Jobs : job[j].base \in Tasks
    BY JobTypes DEF JobsOK, JobOK, JobRecord
  <2> QED BY <1>1, <1>2, <2>1, <2>2, <2>3 DEF DrainInv
<1>7. DummyInv' BY <1>1 DEF DummyInv, Waking
<1>8. OnceInv' BY <1>1 DEF OnceInv
<1>9. BufferInv' BY DEF BufferInv
<1> QED BY <1>3, <1>4, <1>5, <1>6, <1>7, <1>8, <1>9

(* A call starts: its root is the first of its FunctionTasks. *)
LEMMA StartInv ==
  ASSUME EngineInv, TypeInv', NEW t \in Tasks, StartTask(t), JobsStay,
         \/ Entering' = Entering
         \/ \E w \in Workers : Entering' = Entering \cup {<<w, t>>},
         NEW p, p \notin {"idle", "returned"}, phase' = [phase EXCEPT ![t] = p]
  PROVE  CoreInv'
<1> USE DEF EngineInv, CoreInv
<1> DEFINE item == [base |-> t, fn |-> GraphRoot, inputs |-> {}]
<1>1. Jobs' = Jobs /\ job' = job BY DEF JobsStay
<1>2. /\ phase[t] = "idle" /\ Push(CPU, item)
      /\ UNCHANGED <<owner, not_ready, applied>>
      /\ dependencies' = [dependencies EXCEPT ![t] = InitialDependencies[t]]
  BY DEF StartTask, history
<1>3. /\ item \in FunctionTask /\ item.base = t /\ item.fn = GraphRoot
      /\ GraphRoot # NullFn /\ GraphRoot \notin Fns /\ GraphRoot \in Nodes
      /\ CPU \in Workers
  BY NamesAssumption, CPUWorker DEF FunctionTask, Nodes
<1> HIDE DEF item
<1>4. /\ \A w \in Workers : \A x \in ready[w] : x.base # t
      /\ \A j \in Jobs : job[j].base # t
      /\ \A e \in Entering : e[2] # t
      /\ owner[t] = NO_DEVICE
      /\ \A f \in Nodes : applied[t][f] = NoBuffer
  BY <1>2 DEF IdleInv
<1>5. /\ ready'[CPU] = ready[CPU] \cup {item}
      /\ \A w \in Workers \ {CPU} : ready'[w] = ready[w]
  BY <1>2, <1>3 DEF Push, TypeInv, TypeOK
<1>6. \A w \in Workers : \A x \in ready'[w] :
         x \in ready[w] \/ (x = item /\ w = CPU)
  BY <1>5
<1>7. /\ phase'[t] = p
      /\ \A u \in Tasks \ {t} : phase'[u] = phase[u]
      /\ \A u \in Tasks \ {t} : dependencies'[u] = dependencies[u]
  BY <1>2 DEF TypeInv, TypeOK
<1>8. /\ \A w \in Workers : \A x \in ready[w] : x.base \in Tasks /\ x.base # t
      /\ \A j \in Jobs : job[j].base \in Tasks /\ job[j].base # t
  BY <1>4, JobTypes DEF JobsOK, JobOK, JobRecord, TypeInv, TypeOK, FunctionTask
<1>9. \A u \in Tasks \ {t} : Pending(u)' <=> Pending(u)
  BY <1>1, <1>3, <1>5, <1>6 DEF Pending
<1>10. CountInv'
  <2>1. item \notin ready[CPU] BY <1>3, <1>4
  <2> QED BY <1>2, <1>3, <2>1, StayHandled, PushCount
<1>11. IdleInv'
  <2> SUFFICES ASSUME NEW u \in Tasks, phase'[u] = "idle"
               PROVE  /\ \A w \in Workers : \A x \in ready'[w] : x.base # u
                      /\ \A j \in Jobs' : job'[j].base # u
                      /\ \A e \in Entering' : e[2] # u
                      /\ owner'[u] = NO_DEVICE
                      /\ \A f \in Nodes : applied'[u][f] = NoBuffer
    BY DEF IdleInv
  <2>1. u # t /\ phase[u] = "idle" BY <1>7
  <2>2. /\ \A w \in Workers : \A x \in ready[w] : x.base # u
        /\ \A j \in Jobs : job[j].base # u
        /\ \A e \in Entering : e[2] # u
        /\ owner[u] = NO_DEVICE
        /\ \A f \in Nodes : applied[u][f] = NoBuffer
    BY <2>1 DEF IdleInv
  <2> QED BY <1>1, <1>2, <1>3, <1>6, <2>1, <2>2
<1>12. OwnerInv'
  <2>1. (\A e \in Entering : owner[e[2]] = NO_DEVICE)'
    BY <1>2, <1>4 DEF OwnerInv
  <2>2. (\A e, g \in Entering : e[2] = g[2] => e = g)'
    BY <1>4 DEF OwnerInv
  <2>3. (\A w \in Workers : \A x \in ready[w] :
           x.fn = NullFn => owner[x.base] = w /\ x.inputs = {})'
    BY <1>2, <1>3, <1>6 DEF OwnerInv
  <2> QED BY <1>1, <1>2, <2>1, <2>2, <2>3 DEF OwnerInv
<1>13. DrainInv' BY <1>1, <1>3, <1>6, <1>7, <1>8, <1>9 DEF DrainInv
<1>14. DummyInv'
  <2>1. (\A i, j \in Jobs :
           Waking(i) /\ Waking(j) /\ job[i].base = job[j].base => i = j)'
    BY <1>1 DEF DummyInv, Waking
  <2>2. (\A j \in Jobs, w \in Workers : \A x \in ready[w] :
           Waking(j) /\ x.fn = NullFn => job[j].base # x.base)'
    BY <1>1, <1>3, <1>6 DEF DummyInv, Waking
  <2> QED BY <2>1, <2>2 DEF DummyInv
<1>15. OnceInv'
  <2>1. (\A u \in Tasks, f \in Fns :
           applied[u][f] # NoBuffer => dependencies[u][f] = 0)'
    BY <1>2, <1>4, <1>7 DEF OnceInv, Nodes
  <2>2. (\A w \in Workers : \A x \in ready[w] : x.fn # NullFn =>
           /\ x.fn \in Fns => dependencies[x.base][x.fn] = 0
           /\ applied[x.base][x.fn] = NoBuffer)'
    BY <1>2, <1>3, <1>4, <1>6, <1>7, <1>8 DEF OnceInv
  <2>3. (\A j \in Jobs : job[j].pc \in Active =>
           /\ job[j].fn \in Fns => dependencies[job[j].base][job[j].fn] = 0
           /\ job[j].pc \in {"capture", "call", "apply"} =>
                applied[job[j].base][job[j].fn] = NoBuffer
           /\ job[j].pc \in {"lock", "propagate"} =>
                applied[job[j].base][job[j].fn] # NoBuffer)'
    BY <1>1, <1>2, <1>7, <1>8 DEF OnceInv
  <2>4. (\A v, w \in Workers : \A x \in ready[v], y \in ready[w] :
           x.fn # NullFn /\ x.fn = y.fn /\ x.base = y.base => v = w /\ x = y)'
    BY <1>3, <1>6, <1>8 DEF OnceInv
  <2>5. (\A i, j \in Jobs :
           /\ job[i].pc \in Active /\ job[j].pc \in Active
           /\ job[i].fn = job[j].fn /\ job[i].base = job[j].base
           => i = j)'
    BY <1>1 DEF OnceInv
  <2>6. (\A j \in Jobs, w \in Workers : \A x \in ready[w] :
           job[j].pc \in Active /\ job[j].base = x.base => job[j].fn # x.fn)'
    BY <1>1, <1>3, <1>6, <1>8 DEF OnceInv
  <2> QED BY <2>1, <2>2, <2>3, <2>4, <2>5, <2>6 DEF OnceInv
<1>16. BufferInv' BY <1>2 DEF BufferInv
<1> QED BY <1>10, <1>11, <1>12, <1>13, <1>14, <1>15, <1>16

(* The owner of a reentrant call is set, once. *)
LEMMA SetOwnerInv ==
  ASSUME EngineInv, TypeInv', NEW w \in Workers, SetOwner(w)
  PROVE  CoreInv'
<1> USE DEF EngineInv, CoreInv
<1> DEFINE t == Top(w).loop
<1>1. /\ JobsStay /\ <<w, t>> \in Entering /\ t \in Tasks
      /\ Entering' = Entering \ {<<w, t>>}
  BY SetOwnerJobs
<1>2. /\ owner' = [owner EXCEPT ![t] = w]
      /\ UNCHANGED <<ready, outstanding_tasks, dependencies, applied, not_ready,
                     phase>>
  BY DEF SetOwner, callVars, history
<1> HIDE DEF t
<1>3. Jobs' = Jobs /\ job' = job BY <1>1 DEF JobsStay
<1>4. /\ owner[t] = NO_DEVICE /\ owner'[t] = w
      /\ \A u \in Tasks \ {t} : owner'[u] = owner[u]
      /\ phase[t] # "idle"
      /\ NO_DEVICE \notin Workers
  <2>1. <<w, t>>[2] = t OBVIOUS
  <2>2. owner[t] = NO_DEVICE BY <1>1, <2>1 DEF OwnerInv
  <2>3. phase[t] # "idle" BY <1>1, <2>1 DEF IdleInv
  <2> QED BY <1>1, <1>2, <2>2, <2>3, CPUWorker DEF TypeInv, TypeOK
<1>5. /\ \A v \in Workers : \A x \in ready[v] : x.base \in Tasks
      /\ \A j \in Jobs : job[j].base \in Tasks /\ j[1] \in Workers
  BY JobTypes DEF JobsOK, JobOK, JobRecord, TypeInv, TypeOK, FunctionTask
<1>6. \A u \in Tasks : Pending(u)' <=> Pending(u) BY <1>2, <1>3 DEF Pending
<1>7. CountInv' BY <1>1, <1>2, StayHandled, SameCount
<1>8. IdleInv' BY <1>1, <1>2, <1>3, <1>4 DEF IdleInv
<1>9. OwnerInv'
  <2>1. (\A e \in Entering : owner[e[2]] = NO_DEVICE)'
    <3> SUFFICES ASSUME NEW e \in Entering' PROVE owner'[e[2]] = NO_DEVICE
      OBVIOUS
    <3>1. e \in Entering /\ e # <<w, t>> BY <1>1
    <3>2. e[2] # t
      <4>1. <<w, t>>[2] = t OBVIOUS
      <4> QED BY <1>1, <3>1, <4>1 DEF OwnerInv
    <3>3. e[2] \in Tasks
      <4>1. PICK v \in Workers : At(v, "setowner") /\ e = <<v, Top(v).loop>>
        BY <3>1 DEF Entering
      <4>2. Top(v).loop \in Tasks BY <4>1, TopOK DEF At, FrameOK
      <4> QED BY <4>1, <4>2
    <3> QED BY <1>4, <3>1, <3>2, <3>3 DEF OwnerInv
  <2>2. (\A e, g \in Entering : e[2] = g[2] => e = g)' BY <1>1 DEF OwnerInv
  <2>3. (\A j \in Jobs : job[j].pc \in {"decrement", "notify", "dummy"} =>
           job[j].base_owner \in {NO_DEVICE, owner[job[j].base]})'
    BY <1>3, <1>4, <1>5 DEF OwnerInv
  <2>4. (\A v \in Workers : \A x \in ready[v] :
           x.fn = NullFn => owner[x.base] = v /\ x.inputs = {})'
    BY <1>2, <1>4, <1>5 DEF OwnerInv
  <2>5. (\A j \in Jobs : job[j].fn = NullFn =>
           /\ owner[job[j].base] = j[1]
           /\ job[j].pc \in {"owner", "decrement"}
           /\ job[j].pc = "decrement" => job[j].base_owner = j[1])'
    BY <1>3, <1>4, <1>5 DEF OwnerInv
  <2> QED BY <2>1, <2>2, <2>3, <2>4, <2>5 DEF OwnerInv
<1>10. DrainInv' BY <1>2, <1>3, <1>5, <1>6 DEF DrainInv
<1>11. DummyInv' BY <1>2, <1>3 DEF DummyInv, Waking
<1>12. OnceInv' BY <1>2, <1>3 DEF OnceInv
<1>13. BufferInv' BY <1>2 DEF BufferInv
<1> QED BY <1>7, <1>8, <1>9, <1>10, <1>11, <1>12, <1>13

-----------------------------------------------------------------------------
(***************************************************************************)
(* Steps that advance a job without touching the queues.                   *)
(***************************************************************************)
LEMMA AdvanceFacts ==
  ASSUME TypeInv, NEW w \in Workers, NEW from, NEW new, Advances(w, from, new)
  PROVE  /\ Jobs' = Jobs /\ Here(w) \in Jobs /\ Here(w)[1] = w
         /\ job'[Here(w)] = new
         /\ \A j \in Jobs : j # Here(w) => job'[j] = job[j]
         /\ job[Here(w)] = Now(w) /\ Now(w).pc = from
         /\ Now(w).base \in Tasks
         /\ Entering' = Entering
<1>1. Jobs \cup {Here(w)} = Jobs BY DEF Advances
<1>2. Now(w).base \in Tasks BY DEF Advances, JobOK, JobRecord
<1> QED BY <1>1, <1>2 DEF Advances, JobMoves, Now

LEMMA AdvanceHandled ==
  ASSUME TypeInv, TypeInv', NEW w \in Workers, NEW from \in Handling, NEW new,
         Advances(w, from, new), new.base = Now(w).base, new.pc \in Handling
  PROVE  \A t \in Tasks : Handled(t)' = Handled(t)
<1>1. /\ Jobs' = Jobs /\ Here(w) \in Jobs /\ job'[Here(w)] = new
      /\ \A j \in Jobs : j # Here(w) => job'[j] = job[j]
      /\ job[Here(w)].base = new.base /\ job[Here(w)].pc = from
  BY AdvanceFacts
<1>2. \A j \in Jobs : /\ job'[j].base = job[j].base
                      /\ job'[j].pc \in Handling <=> job[j].pc \in Handling
  BY <1>1
<1> SUFFICES ASSUME NEW t \in Tasks PROVE Handled(t)' = Handled(t)
  OBVIOUS
<1>3. Handled(t) = {j \in Jobs : job[j].base = t /\ job[j].pc \in Handling}
  BY HandledJobs
<1>4. Handled(t)' = {j \in Jobs : job'[j].base = t /\ job'[j].pc \in Handling}
  BY <1>1, HandledJobsPrime
<1> QED BY <1>2, <1>3, <1>4

(* What such a step may change. *)
AdvanceOK(w, from, new) ==
  /\ Advances(w, from, new)
  /\ new.base = Now(w).base /\ new.fn = Now(w).fn
  /\ from \in Handling /\ new.pc \in Handling
  /\ new.pc \in Active => from \in Active
  /\ new.pc \in {"capture", "call", "apply"} => from \in {"capture", "call", "apply"}
  /\ new.pc \in {"lock", "propagate"} => applied'[Now(w).base][Now(w).fn] # NoBuffer
  /\ new.pc = "decrement" => new.base_owner = owner[Now(w).base]
  /\ Now(w).fn = NullFn => new.pc \in {"owner", "decrement"}
  /\ \/ UNCHANGED applied
     \/ /\ from = "apply" /\ new.pc \notin {"capture", "call", "apply"}
        /\ \E B : B # NoBuffer /\
             applied' = [applied EXCEPT ![Now(w).base][Now(w).fn] = B]

LEMMA AdvanceDepInv ==
  ASSUME EngineInv, TypeInv', NEW w \in Workers, NEW from, NEW new,
         AdvanceOK(w, from, new),
         UNCHANGED <<ready, outstanding_tasks, owner, phase>>,
         \A t \in Tasks, g \in Fns :
            dependencies[t][g] = 0 => dependencies'[t][g] = 0,
         BufferInv'
  PROVE  CoreInv'
<1> USE DEF EngineInv, CoreInv
<1> DEFINE h == Here(w)
           b == Now(w).base
           f == Now(w).fn
<1>1. /\ Jobs' = Jobs /\ h \in Jobs /\ h[1] = w /\ job'[h] = new
      /\ \A j \in Jobs : j # h => job'[j] = job[j]
      /\ job[h] = Now(w) /\ Now(w).pc = from /\ b \in Tasks
      /\ Entering' = Entering
  BY AdvanceFacts DEF AdvanceOK
<1>2. /\ new.base = b /\ new.fn = f
      /\ from \in Handling /\ new.pc \in Handling
      /\ new.pc \in Active => from \in Active
      /\ new.pc \in {"capture", "call", "apply"} => from \in {"capture", "call", "apply"}
      /\ new.pc \in {"lock", "propagate"} => applied'[b][f] # NoBuffer
      /\ new.pc = "decrement" => new.base_owner = owner[b]
      /\ f = NullFn => new.pc \in {"owner", "decrement"}
  BY DEF AdvanceOK
<1>3. job[h].base = b /\ job[h].fn = f /\ job[h].pc = from BY <1>1
<1> HIDE DEF h, b, f
<1>4. /\ \A v \in Workers : \A x \in ready[v] : x.base \in Tasks
      /\ \A j \in Jobs : job[j].base \in Tasks /\ j[1] \in Workers
      /\ \A j \in Jobs : job[j].pc \in Active => job[j].fn \in Nodes
      /\ \A v \in Workers : \A x \in ready[v] : x.fn # NullFn => x.fn \in Nodes
  BY JobTypes DEF JobsOK, JobOK, JobRecord, TypeInv, TypeOK, FunctionTask
<1>5. \A j \in Jobs : /\ job'[j].base = job[j].base /\ job'[j].fn = job[j].fn
                      /\ job'[j].pc \in Handling <=> job[j].pc \in Handling
                      /\ job'[j].pc \in Active => job[j].pc \in Active
  BY <1>1, <1>2, <1>3
<1>6. \A t \in Tasks : Pending(t)' <=> Pending(t) BY <1>1, <1>5 DEF Pending
<1>7. CountInv'
  <2>1. \A t \in Tasks : Handled(t)' = Handled(t)
    BY AdvanceHandled DEF AdvanceOK
  <2> QED BY <2>1, SameCount
<1>8. phase[b] # "idle" BY <1>1, <1>3 DEF IdleInv
<1>9. /\ from = "apply" \/ UNCHANGED applied
      /\ \A t \in Tasks, g \in Nodes : t # b \/ g # f => applied'[t][g] = applied[t][g]
      /\ applied[b][f] # NoBuffer => applied'[b][f] # NoBuffer
      /\ applied' # applied => new.pc \notin {"capture", "call", "apply"}
  <2>1. CASE UNCHANGED applied BY <2>1
  <2>2. CASE /\ from = "apply" /\ new.pc \notin {"capture", "call", "apply"}
             /\ \E B : B # NoBuffer /\ applied' = [applied EXCEPT ![b][f] = B]
    <3>1. PICK B : B # NoBuffer /\ applied' = [applied EXCEPT ![b][f] = B]
      BY <2>2
    <3>2. applied \in [Tasks -> [Nodes -> Buffers]] BY DEF TypeInv, TypeOK
    <3>3. f \in Nodes BY <1>1, <1>3, <1>4, <2>2 DEF Active
    <3>4. applied' = [applied EXCEPT ![b] = [applied[b] EXCEPT ![f] = B]]
      BY <3>1
    <3>5. applied'[b] = [applied[b] EXCEPT ![f] = B]
          /\ \A t \in Tasks : t # b => applied'[t] = applied[t]
      BY <1>1, <3>2, <3>4
    <3>6. applied'[b][f] = B /\ \A g \in Nodes : g # f => applied'[b][g] = applied[b][g]
      BY <1>1, <3>2, <3>3, <3>5
    <3> QED BY <2>2, <3>1, <3>5, <3>6
  <2> QED BY <2>1, <2>2 DEF AdvanceOK, b, f
<1>10. IdleInv'
  <2> SUFFICES ASSUME NEW t \in Tasks, phase[t] = "idle"
               PROVE  /\ \A v \in Workers : \A x \in ready[v] : x.base # t
                      /\ \A j \in Jobs' : job'[j].base # t
                      /\ \A e \in Entering' : e[2] # t
                      /\ owner[t] = NO_DEVICE
                      /\ \A g \in Nodes : applied'[t][g] = NoBuffer
    BY DEF IdleInv
  <2>1. t # b BY <1>8
  <2> QED BY <1>1, <1>5, <1>9, <2>1 DEF IdleInv
<1>11. OwnerInv'
  <2>1. (\A e \in Entering : owner[e[2]] = NO_DEVICE)'
        /\ (\A e, g \in Entering : e[2] = g[2] => e = g)'
        /\ (\A v \in Workers : \A x \in ready[v] :
              x.fn = NullFn => owner[x.base] = v /\ x.inputs = {})'
    BY <1>1 DEF OwnerInv
  <2>2. (\A j \in Jobs : job[j].pc \in {"decrement", "notify", "dummy"} =>
           job[j].base_owner \in {NO_DEVICE, owner[job[j].base]})'
    <3> SUFFICES ASSUME NEW j \in Jobs,
                        job'[j].pc \in {"decrement", "notify", "dummy"}
                 PROVE  job'[j].base_owner \in {NO_DEVICE, owner[job'[j].base]}
      BY <1>1
    <3>1. CASE j = h BY <3>1, <1>1, <1>2 DEF Handling
    <3>2. CASE j # h BY <3>2, <1>1 DEF OwnerInv
    <3> QED BY <3>1, <3>2
  <2>3. (\A j \in Jobs : job[j].fn = NullFn =>
           /\ owner[job[j].base] = j[1]
           /\ job[j].pc \in {"owner", "decrement"}
           /\ job[j].pc = "decrement" => job[j].base_owner = j[1])'
    <3> SUFFICES ASSUME NEW j \in Jobs, job'[j].fn = NullFn
                 PROVE  /\ owner[job'[j].base] = j[1]
                        /\ job'[j].pc \in {"owner", "decrement"}
                        /\ job'[j].pc = "decrement" => job'[j].base_owner = j[1]
      BY <1>1
    <3>1. CASE j = h
      <4>1. owner[b] = j[1] BY <3>1, <1>2, <1>3, <1>1 DEF OwnerInv
      <4> QED BY <3>1, <4>1, <1>1, <1>2
    <3>2. CASE j # h BY <3>2, <1>1 DEF OwnerInv
    <3> QED BY <3>1, <3>2
  <2> QED BY <2>1, <2>2, <2>3 DEF OwnerInv
<1>12. DrainInv'
  <2>1. \A j \in Jobs : job'[j].pc \in {"notify", "dummy"} =>
                          job[j].pc \in {"notify", "dummy"}
    BY <1>1, <1>2 DEF Handling
  <2> QED BY <1>1, <1>4, <1>5, <1>6, <2>1 DEF DrainInv
<1>13. DummyInv'
  <2>1. \A j \in Jobs : Waking(j)' => Waking(j)
    <3> SUFFICES ASSUME NEW j \in Jobs, job'[j].fn = NullFn \/ job'[j].pc = "dummy"
                 PROVE  job[j].fn = NullFn \/ job[j].pc = "dummy"
      BY DEF Waking
    <3>1. CASE j = h BY <3>1, <1>1, <1>2, <1>3 DEF Handling
    <3>2. CASE j # h BY <3>2, <1>1
    <3> QED BY <3>1, <3>2
  <2>2. (\A i, j \in Jobs :
           Waking(i) /\ Waking(j) /\ job[i].base = job[j].base => i = j)'
    BY <1>1, <1>5, <2>1 DEF DummyInv
  <2>3. (\A j \in Jobs, v \in Workers : \A x \in ready[v] :
           Waking(j) /\ x.fn = NullFn => job[j].base # x.base)'
    BY <1>1, <1>5, <2>1 DEF DummyInv
  <2> QED BY <2>2, <2>3 DEF DummyInv
<1>14. OnceInv'
  <2>0. h \in Jobs /\ (from = "apply" => f \in Nodes)
    BY <1>1, <1>3, <1>4 DEF Active
  <2>1. (\A t \in Tasks, g \in Fns :
           applied[t][g] # NoBuffer => dependencies[t][g] = 0)'
    <3> SUFFICES ASSUME NEW t \in Tasks, NEW g \in Fns, applied'[t][g] # NoBuffer
                 PROVE  dependencies[t][g] = 0
      OBVIOUS
    <3>1. CASE applied[t][g] # NoBuffer BY <3>1 DEF OnceInv
    <3>2. CASE applied[t][g] = NoBuffer
      <4>1. t = b /\ g = f /\ from = "apply" BY <3>2, <1>9 DEF Nodes
      <4> QED BY <4>1, <1>1, <1>3 DEF OnceInv, Active
    <3> QED BY <3>1, <3>2
  <2>2. (\A v \in Workers : \A x \in ready[v] : x.fn # NullFn =>
           /\ x.fn \in Fns => dependencies[x.base][x.fn] = 0
           /\ applied[x.base][x.fn] = NoBuffer)'
    <3> SUFFICES ASSUME NEW v \in Workers, NEW x \in ready[v], x.fn # NullFn
                 PROVE  /\ x.fn \in Fns => dependencies[x.base][x.fn] = 0
                        /\ applied'[x.base][x.fn] = NoBuffer
      BY <1>4
    <3>1. /\ x.fn \in Fns => dependencies[x.base][x.fn] = 0
          /\ applied[x.base][x.fn] = NoBuffer
      BY DEF OnceInv
    <3>2. from = "apply" => ~ (x.base = b /\ x.fn = f)
      BY <1>1, <1>3 DEF OnceInv, Active
    <3> QED BY <1>4, <1>9, <3>1, <3>2
  <2>3. (\A j \in Jobs : job[j].pc \in Active =>
           /\ job[j].fn \in Fns => dependencies[job[j].base][job[j].fn] = 0
           /\ job[j].pc \in {"capture", "call", "apply"} =>
                applied[job[j].base][job[j].fn] = NoBuffer
           /\ job[j].pc \in {"lock", "propagate"} =>
                applied[job[j].base][job[j].fn] # NoBuffer)'
    <3> SUFFICES ASSUME NEW j \in Jobs, job'[j].pc \in Active
                 PROVE
           /\ job'[j].fn \in Fns => dependencies[job'[j].base][job'[j].fn] = 0
           /\ job'[j].pc \in {"capture", "call", "apply"} =>
                applied'[job'[j].base][job'[j].fn] = NoBuffer
           /\ job'[j].pc \in {"lock", "propagate"} =>
                applied'[job'[j].base][job'[j].fn] # NoBuffer
      BY <1>1, <1>4, <1>5
    <3>1. job[j].pc \in Active /\ job'[j].base = job[j].base
          /\ job'[j].fn = job[j].fn
      BY <1>5
    <3>2. CASE j = h
      <4>1. job'[j].fn \in Fns => dependencies[job'[j].base][job'[j].fn] = 0
        BY <3>1 DEF OnceInv
      <4>2. new.pc \in {"capture", "call", "apply"} => applied'[b][f] = NoBuffer
        <5> SUFFICES ASSUME new.pc \in {"capture", "call", "apply"}
                     PROVE  applied'[b][f] = NoBuffer
          OBVIOUS
        <5>1. applied' = applied BY <1>9
        <5>2. applied[b][f] = NoBuffer
          BY <1>1, <1>2, <1>3 DEF OnceInv, Active
        <5> QED BY <5>1, <5>2
      <4> QED BY <3>2, <4>1, <4>2, <1>1, <1>2
    <3>3. CASE j # h
      <4>1. job'[j] = job[j] BY <1>1, <3>3
      <4>2. from = "apply" => ~ (job[j].base = b /\ job[j].fn = f)
        BY <1>1, <1>3, <3>1, <3>3 DEF OnceInv, Active
      <4>3. applied'[job[j].base][job[j].fn] = applied[job[j].base][job[j].fn]
        BY <1>4, <1>9, <3>1, <4>2
      <4> QED BY <3>1, <4>1, <4>3 DEF OnceInv
    <3> QED BY <3>2, <3>3
  <2>4. (\A u, v \in Workers : \A x \in ready[u], y \in ready[v] :
           x.fn # NullFn /\ x.fn = y.fn /\ x.base = y.base => u = v /\ x = y)'
    BY DEF OnceInv
  <2>5. (\A i, j \in Jobs :
           /\ job[i].pc \in Active /\ job[j].pc \in Active
           /\ job[i].fn = job[j].fn /\ job[i].base = job[j].base
           => i = j)'
    BY <1>1, <1>5 DEF OnceInv
  <2>6. (\A j \in Jobs, v \in Workers : \A x \in ready[v] :
           job[j].pc \in Active /\ job[j].base = x.base => job[j].fn # x.fn)'
    BY <1>1, <1>5 DEF OnceInv
  <2> QED BY <2>1, <2>2, <2>3, <2>4, <2>5, <2>6 DEF OnceInv
<1> QED BY <1>7, <1>10, <1>11, <1>12, <1>13, <1>14

LEMMA AdvanceInv ==
  ASSUME EngineInv, TypeInv', NEW w \in Workers, NEW from, NEW new,
         AdvanceOK(w, from, new),
         UNCHANGED <<ready, outstanding_tasks, owner, phase, dependencies,
                     not_ready>>
  PROVE  CoreInv'
<1>1. BufferInv' BY DEF EngineInv, CoreInv, BufferInv
<1>2. \A t \in Tasks, g \in Fns :
         dependencies[t][g] = 0 => dependencies'[t][g] = 0
  OBVIOUS
<1> QED BY <1>1, <1>2, AdvanceDepInv

(* The outputs of a function are never the absence of a buffer. *)
LEMMA OutputsBuffer ==
  ASSUME NEW t \in Tasks, NEW f \in Nodes, NEW D \in SUBSET DOMAIN NextOf[t][f]
  PROVE  {f} \X D # NoBuffer
<1>1. DOMAIN NextOf[t] = Nodes BY DEF NextOf
<1>2. {f} \X D \in SUBSET EdgesOf(NextOf[t], Nodes) BY <1>1 DEF EdgesOf
<1> QED BY <1>2, BufferAssumption

LEMMA CaptureInv ==
  ASSUME EngineInv, TypeInv', NEW w \in Workers, Capture(w)
  PROVE  CoreInv'
<1> DEFINE pc2 == IF Now(w).fn \in Needed[Now(w).base] THEN "call" ELSE "owner"
           new == [Now(w) EXCEPT !.pc = pc2]
<1>1. Advances(w, "capture", new) BY CaptureJobs DEF EngineInv
<1>2. pc2 \in {"call", "owner"} OBVIOUS
<1> HIDE DEF pc2
<1>3. /\ Now(w) \in JobRecord /\ Now(w).fn \in Nodes /\ Now(w).pc = "capture"
      /\ new.base = Now(w).base /\ new.fn = Now(w).fn /\ new.pc = pc2
  BY <1>1 DEF Advances, JobOK, JobRecord, Active
<1> HIDE DEF new
<1>4. UNCHANGED <<ready, outstanding_tasks, owner, phase, dependencies,
                  not_ready, applied>>
  BY DEF Capture, callVars, history
<1>5. AdvanceOK(w, "capture", new)
  BY <1>1, <1>2, <1>3, <1>4, NamesAssumption DEF AdvanceOK, Handling, Active
<1> QED BY <1>4, <1>5, AdvanceInv

LEMMA CallFunctionInv ==
  ASSUME EngineInv, TypeInv', NEW w \in Workers, CallFunction(w)
  PROVE  CoreInv'
<1> DEFINE new == [base |-> Now(w).base, fn |-> Now(w).fn, inputs |-> {},
                   i |-> Now(w).i, base_owner |-> Now(w).base_owner,
                   pc |-> "apply"]
<1>1. Advances(w, "call", new) BY CallFunctionJobs DEF EngineInv
<1>2. /\ new.base = Now(w).base /\ new.fn = Now(w).fn /\ new.pc = "apply"
      /\ Now(w).fn \in Nodes
  BY <1>1 DEF Advances, JobOK, Active
<1> HIDE DEF new
<1>3. UNCHANGED <<ready, outstanding_tasks, owner, phase, dependencies,
                  not_ready, applied>>
  BY DEF CallFunction, callVars, history, graphTaskVars
<1>4. AdvanceOK(w, "call", new)
  BY <1>1, <1>2, <1>3, NamesAssumption DEF AdvanceOK, Handling, Active
<1> QED BY <1>3, <1>4, AdvanceInv

LEMMA ApplyReturnInv ==
  ASSUME EngineInv, TypeInv', NEW w \in Workers, ApplyReturn(w)
  PROVE  CoreInv'
<1> DEFINE b == Now(w).base
           f == Now(w).fn
           pc2 == IF NextOf[b][f] = <<>> THEN "owner" ELSE "lock"
           new == [Now(w) EXCEPT !.pc = pc2]
<1>1. /\ Advances(w, "apply", new)
      /\ \E D \in DefinedOutputs(b, f) :
           applied' = [applied EXCEPT ![b][f] = {f} \X D]
  BY ApplyReturnJobs DEF EngineInv
<1>2. pc2 \in {"owner", "lock"} OBVIOUS
<1> HIDE DEF pc2
<1>3. /\ Now(w) \in JobRecord /\ f \in Nodes /\ b \in Tasks
      /\ new.base = b /\ new.fn = f /\ new.pc = pc2
  BY <1>1 DEF Advances, JobOK, JobRecord, Active
<1> HIDE DEF new, b, f
<1>4. UNCHANGED <<ready, outstanding_tasks, owner, phase, dependencies, not_ready>>
  BY DEF ApplyReturn, callVars, graphTaskVars
<1>5. PICK D \in DefinedOutputs(b, f) :
           applied' = [applied EXCEPT ![b][f] = {f} \X D]
  BY <1>1
<1>6. D \in SUBSET DOMAIN NextOf[b][f] BY DEF DefinedOutputs
<1>7. {f} \X D # NoBuffer BY <1>3, <1>6, OutputsBuffer
<1>8. applied'[b][f] # NoBuffer
  <2>1. applied \in [Tasks -> [Nodes -> Buffers]] BY DEF EngineInv, TypeInv, TypeOK
  <2>2. applied'[b][f] = {f} \X D BY <1>3, <1>5, <2>1
  <2> QED BY <1>7, <2>2
<1>9. \E B : B # NoBuffer /\ applied' = [applied EXCEPT ![b][f] = B]
  BY <1>5, <1>7
<1>10. AdvanceOK(w, "apply", new)
  BY <1>1, <1>2, <1>3, <1>8, <1>9, NamesAssumption
     DEF AdvanceOK, Handling, Active, b, f
<1> QED BY <1>4, <1>10, AdvanceInv

LEMMA ApplyThrowInv ==
  ASSUME EngineInv, TypeInv', NEW w \in Workers, ApplyThrow(w)
  PROVE  CoreInv'
<1> DEFINE new == [Now(w) EXCEPT !.pc = "except"]
<1>1. Advances(w, "apply", new) BY ApplyThrowJobs DEF EngineInv
<1>2. /\ Now(w) \in JobRecord /\ Now(w).fn \in Nodes
      /\ new.base = Now(w).base /\ new.fn = Now(w).fn /\ new.pc = "except"
  BY <1>1 DEF Advances, JobOK, JobRecord, Active
<1> HIDE DEF new
<1>3. UNCHANGED <<ready, outstanding_tasks, owner, phase, dependencies,
                  not_ready, applied>>
  BY DEF ApplyThrow, callVars, history, graphTaskVars
<1>4. AdvanceOK(w, "apply", new)
  BY <1>1, <1>2, <1>3, NamesAssumption DEF AdvanceOK, Handling, Active
<1> QED BY <1>3, <1>4, AdvanceInv

LEMMA OnExceptionInv ==
  ASSUME EngineInv, TypeInv', NEW w \in Workers, OnException(w)
  PROVE  CoreInv'
<1> DEFINE new == [Now(w) EXCEPT !.pc = "owner"]
<1>1. Advances(w, "except", new) BY OnExceptionJobs DEF EngineInv
<1>2. /\ Now(w) \in JobRecord /\ Now(w).fn \in Nodes
      /\ new.base = Now(w).base /\ new.fn = Now(w).fn /\ new.pc = "owner"
  BY <1>1 DEF Advances, JobOK, JobRecord, Active
<1> HIDE DEF new
<1>3. UNCHANGED <<ready, outstanding_tasks, owner, phase, dependencies,
                  not_ready, applied>>
  BY DEF OnException, callVars, history
<1>4. AdvanceOK(w, "except", new)
  BY <1>1, <1>2, <1>3, NamesAssumption DEF AdvanceOK, Handling, Active
<1> QED BY <1>3, <1>4, AdvanceInv

LEMMA LockGraphTaskInv ==
  ASSUME EngineInv, TypeInv', NEW w \in Workers, LockGraphTask(w)
  PROVE  CoreInv'
<1> DEFINE new == [base |-> Now(w).base, fn |-> Now(w).fn,
                   inputs |-> Now(w).inputs, i |-> 1,
                   base_owner |-> Now(w).base_owner, pc |-> "propagate"]
<1>1. Advances(w, "lock", new) BY LockGraphTaskJobs DEF EngineInv
<1>2. /\ new.base = Now(w).base /\ new.fn = Now(w).fn /\ new.pc = "propagate"
      /\ Now(w).fn \in Nodes
  BY <1>1 DEF Advances, JobOK, Active
<1> HIDE DEF new
<1>3. UNCHANGED <<ready, outstanding_tasks, owner, phase, dependencies,
                  not_ready, applied>>
  BY DEF LockGraphTask, callVars, history
<1>4. applied[Now(w).base][Now(w).fn] # NoBuffer
  BY <1>1 DEF EngineInv, CoreInv, OnceInv, Advances, Now, Active
<1>5. AdvanceOK(w, "lock", new)
  BY <1>1, <1>2, <1>3, <1>4, NamesAssumption DEF AdvanceOK, Handling, Active
<1> QED BY <1>3, <1>5, AdvanceInv

LEMMA ReadOwnerInv ==
  ASSUME EngineInv, TypeInv', NEW w \in Workers, ReadOwner(w)
  PROVE  CoreInv'
<1> DEFINE new == [base |-> Now(w).base, fn |-> Now(w).fn,
                   inputs |-> Now(w).inputs, i |-> Now(w).i,
                   base_owner |-> owner[Now(w).base], pc |-> "decrement"]
<1>1. Advances(w, "owner", new) BY ReadOwnerJobs DEF EngineInv
<1>2. /\ new.base = Now(w).base /\ new.fn = Now(w).fn /\ new.pc = "decrement"
      /\ new.base_owner = owner[Now(w).base]
  OBVIOUS
<1> HIDE DEF new
<1>3. UNCHANGED <<ready, outstanding_tasks, owner, phase, dependencies,
                  not_ready, applied>>
  BY DEF ReadOwner, callVars, history, graphTaskVars
<1>4. AdvanceOK(w, "owner", new)
  BY <1>1, <1>2, <1>3 DEF AdvanceOK, Handling, Active
<1> QED BY <1>3, <1>4, AdvanceInv

(* The two ways AdvanceOutput() goes on. *)
OutputDone(w, new) ==
  /\ Advances(w, "propagate", new)
  /\ new.base = Now(w).base /\ new.fn = Now(w).fn
  /\ new.pc \in {"propagate", "owner", "except"}

LEMMA AdvanceOutputDone ==
  ASSUME TypeInv, NEW w \in Workers, At(w, "propagate"), NEW ok \in BOOLEAN,
         AdvanceOutput(w, ok)
  PROVE  \E new : OutputDone(w, new)
<1> DEFINE last == Now(w).i = Len(NextOf[Now(w).base][Now(w).fn])
           a == [Now(w) EXCEPT !.i = Now(w).i + 1]
           c == [base |-> Now(w).base, fn |-> Now(w).fn, inputs |-> Now(w).inputs,
                 i |-> 1, base_owner |-> Now(w).base_owner,
                 pc |-> IF ok THEN "owner" ELSE "except"]
<1>1. /\ ok /\ ~ last => Advances(w, "propagate", a)
      /\ ~ (ok /\ ~ last) => Advances(w, "propagate", c)
  BY AdvanceOutputJobs
<1>2. /\ c.base = Now(w).base /\ c.fn = Now(w).fn /\ c.pc \in {"owner", "except"}
  OBVIOUS
<1>3. CASE ok /\ ~ last
  <2>1. Advances(w, "propagate", a) BY <1>1, <1>3
  <2>2. a.base = Now(w).base /\ a.fn = Now(w).fn /\ a.pc = "propagate"
    BY <2>1 DEF Advances, JobOK, JobRecord
  <2> QED BY <2>1, <2>2 DEF OutputDone
<1>4. CASE ~ (ok /\ ~ last)
  <2>1. Advances(w, "propagate", c) BY <1>1, <1>4
  <2> QED BY <1>2, <2>1 DEF OutputDone
<1> QED BY <1>3, <1>4

LEMMA PropagateInvalidInv ==
  ASSUME EngineInv, TypeInv', NEW w \in Workers, PropagateInvalid(w)
  PROVE  CoreInv'
<1>1. At(w, "propagate") /\ AdvanceOutput(w, TRUE)
      /\ UNCHANGED <<ready, outstanding_tasks, owner, phase, dependencies,
                     not_ready, applied>>
  BY DEF PropagateInvalid, callVars, history
<1>2. PICK new : OutputDone(w, new) BY <1>1, AdvanceOutputDone DEF EngineInv
<1>3. applied[Now(w).base][Now(w).fn] # NoBuffer /\ Now(w).fn \in Nodes
  BY <1>2 DEF EngineInv, CoreInv, OnceInv, Advances, OutputDone, Now, Active, JobOK
<1>4. AdvanceOK(w, "propagate", new)
  BY <1>1, <1>2, <1>3, NamesAssumption DEF AdvanceOK, OutputDone, Handling, Active
<1> QED BY <1>1, <1>4, AdvanceInv

-----------------------------------------------------------------------------
(***************************************************************************)
(* Steps that take from a queue, add to one, or count down.                *)
(***************************************************************************)
LEMMA QueueTypes ==
  ASSUME TypeInv
  PROVE  /\ \A v \in Workers : \A x \in ready[v] :
              /\ x \in FunctionTask /\ x.base \in Tasks
              /\ x.fn # NullFn => x.fn \in Nodes
         /\ \A j \in Jobs : /\ job[j].base \in Tasks /\ j[1] \in Workers
                            /\ job[j].pc \in Active => job[j].fn \in Nodes
BY JobTypes DEF JobsOK, JobOK, JobRecord, TypeInv, TypeOK, FunctionTask

LEMMA PopInv ==
  ASSUME EngineInv, TypeInv', NEW w \in Workers, Pop(w)
  PROVE  CoreInv'
<1> USE DEF EngineInv, CoreInv
<1>0. PICK h : h = Here(w) OBVIOUS
<1>1. h \notin Jobs /\ h[1] = w /\ Entering' = Entering BY <1>0, PopJobs
<1>2. PICK x \in ready[w] : \E new :
         /\ x \in FunctionTask
         /\ ready' = [ready EXCEPT ![w] = @ \ {x}]
         /\ JobMoves(w, new)
         /\ new.base = x.base /\ new.fn = x.fn /\ new.inputs = x.inputs
         /\ new.pc = FirstStep(x)
  BY PopJobs
<1>3. PICK new :
         /\ x \in FunctionTask
         /\ ready' = [ready EXCEPT ![w] = @ \ {x}]
         /\ JobMoves(w, new)
         /\ new.base = x.base /\ new.fn = x.fn /\ new.inputs = x.inputs
         /\ new.pc = FirstStep(x)
  BY <1>2
<1>4. /\ Jobs' = Jobs \cup {h} /\ job'[h] = new
      /\ \A j \in Jobs : job'[j] = job[j]
  BY <1>0, <1>1, <1>3 DEF JobMoves
<1>5. UNCHANGED <<outstanding_tasks, owner, dependencies, not_ready, phase, applied>>
  BY DEF Pop, callVars, history, graphTaskVars
<1>6. /\ ready'[w] = ready[w] \ {x}
      /\ \A v \in Workers \ {w} : ready'[v] = ready[v]
      /\ \A v \in Workers : ready'[v] \subseteq ready[v]
  BY <1>3 DEF TypeInv, TypeOK
<1>7. /\ new.pc \in {"owner", "capture", "call"}
      /\ new.pc \in Handling /\ new.pc \notin {"decrement", "notify", "dummy"}
      /\ x.fn = NullFn => new.pc = "owner"
      /\ new.pc \in Active => new.pc \in {"capture", "call"}
  BY <1>3 DEF FirstStep, Handling, Active
<1>8. x.base \in Tasks BY <1>3 DEF FunctionTask
<1>9. \A t \in Tasks : Pending(t)' => Pending(t)
  BY <1>3, <1>4, <1>6 DEF Pending
<1>10. CountInv'
  <2>1. /\ Handled(x.base)' = Handled(x.base) \cup {h}
        /\ \A t \in Tasks \ {x.base} : Handled(t)' = Handled(t)
        /\ h \notin Handled(x.base)
    <3>1. \A t \in Tasks :
            /\ Handled(t) = {j \in Jobs : job[j].base = t /\ job[j].pc \in Handling}
            /\ Handled(t)' = {j \in Jobs' : job'[j].base = t /\ job'[j].pc \in Handling}
      BY HandledJobs, HandledJobsPrime
    <3>2. \A t \in Tasks : \A j :
            j \in Handled(t)' <=> j \in Handled(t) \/ (j = h /\ t = x.base)
      BY <1>1, <1>3, <1>4, <1>7, <3>1
    <3>3. h \notin Handled(x.base) BY <1>1, <1>8, <3>1
    <3> QED BY <1>8, <3>2, <3>3
  <2> QED BY <1>3, <1>5, <2>1, PopCount
<1>11. IdleInv'
  <2> SUFFICES ASSUME NEW t \in Tasks, phase[t] = "idle"
               PROVE  /\ \A v \in Workers : \A y \in ready'[v] : y.base # t
                      /\ \A j \in Jobs' : job'[j].base # t
                      /\ \A e \in Entering : e[2] # t
                      /\ owner[t] = NO_DEVICE
                      /\ \A g \in Nodes : applied[t][g] = NoBuffer
    BY <1>1, <1>5 DEF IdleInv
  <2>1. x.base # t BY DEF IdleInv
  <2> QED BY <1>3, <1>4, <1>6, <2>1 DEF IdleInv
<1>12. OwnerInv'
  <2>1. /\ (\A e \in Entering : owner[e[2]] = NO_DEVICE)'
        /\ (\A e, g \in Entering : e[2] = g[2] => e = g)'
    BY <1>1, <1>5 DEF OwnerInv
  <2>2. (\A j \in Jobs : job[j].pc \in {"decrement", "notify", "dummy"} =>
           job[j].base_owner \in {NO_DEVICE, owner[job[j].base]})'
    BY <1>4, <1>5, <1>7 DEF OwnerInv
  <2>3. (\A v \in Workers : \A y \in ready[v] :
           y.fn = NullFn => owner[y.base] = v /\ y.inputs = {})'
    BY <1>5, <1>6 DEF OwnerInv
  <2>4. (\A j \in Jobs : job[j].fn = NullFn =>
           /\ owner[job[j].base] = j[1]
           /\ job[j].pc \in {"owner", "decrement"}
           /\ job[j].pc = "decrement" => job[j].base_owner = j[1])'
    BY <1>1, <1>3, <1>4, <1>5, <1>7 DEF OwnerInv
  <2> QED BY <2>1, <2>2, <2>3, <2>4 DEF OwnerInv
<1>13. DrainInv'
  <2>1. (\A t \in Tasks : phase[t] = "returned" => ~ Pending(t))'
    BY <1>5, <1>9 DEF DrainInv
  <2>2. (\A v \in Workers : \A y \in ready[v] : y.fn = NullFn => ~ Pending(y.base))'
    BY <1>6, <1>9, QueueTypes DEF DrainInv
  <2>3. (\A j \in Jobs :
           job[j].fn = NullFn \/ job[j].pc \in {"notify", "dummy"} =>
             ~ Pending(job[j].base))'
    BY <1>3, <1>4, <1>7, <1>8, <1>9, QueueTypes DEF DrainInv
  <2> QED BY <2>1, <2>2, <2>3 DEF DrainInv
<1>14. DummyInv'
  <2>1. /\ \A j \in Jobs : Waking(j)' <=> Waking(j)
        /\ Waking(h)' <=> x.fn = NullFn
    BY <1>3, <1>4, <1>7 DEF Waking
  <2>2. (\A i, j \in Jobs :
           Waking(i) /\ Waking(j) /\ job[i].base = job[j].base => i = j)'
    BY <1>3, <1>4, <2>1 DEF DummyInv
  <2>3. x.fn = NullFn => \A v \in Workers : \A y \in ready[v] :
           y.fn = NullFn /\ y.base = x.base => v = w /\ y = x
    <3> SUFFICES ASSUME x.fn = NullFn, NEW v \in Workers, NEW y \in ready[v],
                        y.fn = NullFn, y.base = x.base
                 PROVE  v = w /\ y = x
      OBVIOUS
    <3>1. owner[x.base] = w /\ owner[y.base] = v /\ x.inputs = y.inputs
      BY DEF OwnerInv
    <3>2. y \in FunctionTask BY QueueTypes
    <3> QED BY <1>3, <3>1, <3>2 DEF FunctionTask
  <2>4. (\A j \in Jobs, v \in Workers : \A y \in ready[v] :
           Waking(j) /\ y.fn = NullFn => job[j].base # y.base)'
    <3> SUFFICES ASSUME NEW j \in Jobs', NEW v \in Workers, NEW y \in ready'[v],
                        Waking(j)', y.fn = NullFn
                 PROVE  job'[j].base # y.base
      OBVIOUS
    <3>1. CASE j = h BY <3>1, <1>3, <1>4, <1>6, <2>1, <2>3
    <3>2. CASE j \in Jobs BY <3>2, <1>4, <1>6, <2>1 DEF DummyInv
    <3> QED BY <3>1, <3>2, <1>4
  <2> QED BY <2>2, <2>4 DEF DummyInv
<1>15. OnceInv'
  <2>0. new.pc \in Active =>
          /\ x.fn # NullFn
          /\ x.fn \in Fns => dependencies[x.base][x.fn] = 0
          /\ applied[x.base][x.fn] = NoBuffer
    BY <1>7 DEF OnceInv, Active
  <2>1. (\A t \in Tasks, g \in Fns :
           applied[t][g] # NoBuffer => dependencies[t][g] = 0)'
    BY <1>5 DEF OnceInv
  <2>2. (\A v \in Workers : \A y \in ready[v] : y.fn # NullFn =>
           /\ y.fn \in Fns => dependencies[y.base][y.fn] = 0
           /\ applied[y.base][y.fn] = NoBuffer)'
    BY <1>5, <1>6 DEF OnceInv
  <2>3. (\A j \in Jobs : job[j].pc \in Active =>
           /\ job[j].fn \in Fns => dependencies[job[j].base][job[j].fn] = 0
           /\ job[j].pc \in {"capture", "call", "apply"} =>
                applied[job[j].base][job[j].fn] = NoBuffer
           /\ job[j].pc \in {"lock", "propagate"} =>
                applied[job[j].base][job[j].fn] # NoBuffer)'
    <3> SUFFICES ASSUME NEW j \in Jobs', job'[j].pc \in Active
                 PROVE
           /\ job'[j].fn \in Fns => dependencies[job'[j].base][job'[j].fn] = 0
           /\ job'[j].pc \in {"capture", "call", "apply"} =>
                applied[job'[j].base][job'[j].fn] = NoBuffer
           /\ job'[j].pc \in {"lock", "propagate"} =>
                applied[job'[j].base][job'[j].fn] # NoBuffer
      BY <1>5
    <3>1. CASE j = h BY <3>1, <1>3, <1>4, <1>7, <2>0
    <3>2. CASE j \in Jobs BY <3>2, <1>4 DEF OnceInv
    <3> QED BY <3>1, <3>2, <1>4
  <2>4. (\A u, v \in Workers : \A y \in ready[u], z \in ready[v] :
           y.fn # NullFn /\ y.fn = z.fn /\ y.base = z.base => u = v /\ y = z)'
    BY <1>6 DEF OnceInv
  <2>5. (\A i, j \in Jobs :
           /\ job[i].pc \in Active /\ job[j].pc \in Active
           /\ job[i].fn = job[j].fn /\ job[i].base = job[j].base
           => i = j)'
    <3>1. new.pc \in Active => \A j \in Jobs :
             job[j].pc \in Active /\ job[j].base = x.base => job[j].fn # x.fn
      BY DEF OnceInv
    <3> QED BY <1>3, <1>4, <3>1 DEF OnceInv
  <2>6. (\A j \in Jobs, v \in Workers : \A y \in ready[v] :
           job[j].pc \in Active /\ job[j].base = y.base => job[j].fn # y.fn)'
    <3> SUFFICES ASSUME NEW j \in Jobs', NEW v \in Workers, NEW y \in ready'[v],
                        job'[j].pc \in Active, job'[j].base = y.base
                 PROVE  job'[j].fn # y.fn
      OBVIOUS
    <3>1. CASE j = h
      <4>1. y \in ready[v] /\ (v = w => y # x) BY <1>6
      <4> QED BY <3>1, <4>1, <1>3, <1>4, <2>0 DEF OnceInv
    <3>2. CASE j \in Jobs BY <3>2, <1>4, <1>6 DEF OnceInv
    <3> QED BY <3>1, <3>2, <1>4
  <2> QED BY <2>1, <2>2, <2>3, <2>4, <2>5, <2>6 DEF OnceInv
<1>16. BufferInv' BY <1>5 DEF BufferInv
<1> QED BY <1>10, <1>11, <1>12, <1>13, <1>14, <1>15, <1>16

(* The job of w is over, except perhaps for telling somebody. *)
Retires(w, h) ==
  /\ h \in Jobs /\ h[1] = w
  /\ Jobs' \subseteq Jobs /\ Jobs \subseteq Jobs' \cup {h}
  /\ \A j \in Jobs' : j # h => job'[j] = job[j]
  /\ Entering' = Entering

LEMMA FinishRetires ==
  ASSUME NEW w \in Workers, NEW from, Finishes(w, from)
  PROVE  Retires(w, Here(w)) /\ Here(w) \notin Jobs'
BY DEF Finishes, Retires, JobEnds

LEMMA DecrementInv ==
  ASSUME EngineInv, TypeInv', NEW w \in Workers, Decrement(w)
  PROVE  CoreInv'
<1> USE DEF EngineInv, CoreInv
<1>0. PICK h : h = Here(w) OBVIOUS
<1>1. PICK b, g, o : b = Now(w).base /\ g = Now(w).fn /\ o = Now(w).base_owner
  OBVIOUS
<1>2. PICK left, pc : /\ left = outstanding_tasks[b] - 1
                      /\ pc = AfterDecrement(w, o, left)
  OBVIOUS
<1>3. /\ outstanding_tasks' = [outstanding_tasks EXCEPT ![b] = left]
      /\ pc \in {"loop", "notify", "dummy"}
      /\ pc = "loop" => Finishes(w, "decrement")
      /\ pc # "loop" => Advances(w, "decrement", [Now(w) EXCEPT !.pc = pc])
  BY <1>1, <1>2, DecrementJobs
<1>4. /\ h \in Jobs /\ h[1] = w /\ job[h] = Now(w) /\ Now(w) \in JobRecord
      /\ job[h].pc = "decrement"
      /\ job[h].base = b /\ job[h].fn = g /\ job[h].base_owner = o
      /\ b \in Tasks
  BY <1>0, <1>1, <1>3 DEF Finishes, Advances, Now, JobOK, JobRecord
<1>5. /\ Retires(w, h)
      /\ h \in Jobs' => /\ pc \in {"notify", "dummy"} /\ job'[h].pc = pc
                        /\ job'[h].base = b /\ job'[h].fn = g
                        /\ job'[h].base_owner = o
  <2>1. CASE pc = "loop" BY <2>1, <1>0, <1>3, FinishRetires
  <2>2. CASE pc # "loop"
    <3>1. /\ Jobs' = Jobs /\ job'[h] = [Now(w) EXCEPT !.pc = pc]
          /\ \A j \in Jobs : j # h => job'[j] = job[j]
          /\ Entering' = Entering
      BY <2>2, <1>0, <1>3, AdvanceFacts
    <3>2. /\ job'[h].pc = pc /\ job'[h].base = b /\ job'[h].fn = g
          /\ job'[h].base_owner = o
      BY <3>1, <1>1, <1>4 DEF JobRecord
    <3> QED BY <2>2, <3>1, <3>2, <1>3, <1>4 DEF Retires
  <2> QED BY <2>1, <2>2
<1>6. UNCHANGED <<ready, owner, dependencies, not_ready, phase, applied>>
  BY DEF Decrement, callVars
<1>7. /\ Jobs' \subseteq Jobs /\ Jobs \subseteq Jobs' \cup {h}
      /\ \A j \in Jobs' : j # h => job'[j] = job[j]
      /\ Entering' = Entering
      /\ h \in Jobs' => job'[h].pc \in {"notify", "dummy"}
      /\ \A j \in Jobs' : job'[j].base = job[j].base /\ job'[j].fn = job[j].fn
                          /\ job'[j].base_owner = job[j].base_owner
      /\ \A j \in Jobs' : job'[j].pc \in Handling \cup Active =>
                            j # h /\ job'[j] = job[j]
  BY <1>4, <1>5 DEF Retires, Handling, Active
<1>8. \A t \in Tasks : Pending(t)' => Pending(t)
  BY <1>6, <1>7 DEF Pending
<1>9. \A t \in Tasks :
        /\ Handled(t) = {j \in Jobs : job[j].base = t /\ job[j].pc \in Handling}
        /\ Handled(t)' = {j \in Jobs' : job'[j].base = t /\ job'[j].pc \in Handling}
  BY HandledJobs, HandledJobsPrime
<1>10. h \in Handled(b) BY <1>4, <1>9 DEF Handling
<1>11. CountInv'
  <2>1. \A t \in Tasks : \A j :
          j \in Handled(t)' <=> j \in Handled(t) /\ ~ (t = b /\ j = h)
    BY <1>4, <1>7, <1>9
  <2>2. /\ Handled(b)' = Handled(b) \ {h}
        /\ \A t \in Tasks \ {b} : Handled(t)' = Handled(t)
    BY <1>4, <2>1
  <2> QED BY <1>2, <1>3, <1>4, <1>6, <1>10, <2>2, DecrementCount
<1>12. h \in Jobs' => /\ outstanding_tasks[b] = 1 /\ o # w
                      /\ pc = "notify" => o = NO_DEVICE
  <2>1. outstanding_tasks[b] \in Int BY <1>4 DEF TypeInv, TypeOK
  <2> QED BY <1>2, <1>5, <2>1 DEF AfterDecrement
<1>13. h \in Jobs' => g # NullFn
  BY <1>4, <1>12 DEF OwnerInv
<1>14. h \in Jobs' =>
         /\ \A v \in Workers : \A x \in ready[v] : x.base # b
         /\ \A j \in Jobs : job[j].base = b /\ job[j].pc \in Handling => j = h
  BY <1>4, <1>10, <1>12, CounterOne
<1>15. h \in Jobs' => ~ Pending(b)'
  BY <1>5, <1>6, <1>7, <1>14 DEF Pending, Handling
<1>16. IdleInv' BY <1>6, <1>7 DEF IdleInv
<1>17. OwnerInv'
  <2>1. /\ (\A e \in Entering : owner[e[2]] = NO_DEVICE)'
        /\ (\A e, d \in Entering : e[2] = d[2] => e = d)'
        /\ (\A v \in Workers : \A y \in ready[v] :
              y.fn = NullFn => owner[y.base] = v /\ y.inputs = {})'
    BY <1>6, <1>7 DEF OwnerInv
  <2>2. (\A j \in Jobs : job[j].pc \in {"decrement", "notify", "dummy"} =>
           job[j].base_owner \in {NO_DEVICE, owner[job[j].base]})'
    BY <1>4, <1>6, <1>7 DEF OwnerInv
  <2>3. (\A j \in Jobs : job[j].fn = NullFn =>
           /\ owner[job[j].base] = j[1]
           /\ job[j].pc \in {"owner", "decrement"}
           /\ job[j].pc = "decrement" => job[j].base_owner = j[1])'
    BY <1>5, <1>6, <1>7, <1>13 DEF OwnerInv
  <2> QED BY <2>1, <2>2, <2>3 DEF OwnerInv
<1>18. DrainInv'
  <2>1. (\A t \in Tasks : phase[t] = "returned" => ~ Pending(t))'
    BY <1>6, <1>8 DEF DrainInv
  <2>2. (\A v \in Workers : \A y \in ready[v] : y.fn = NullFn => ~ Pending(y.base))'
    BY <1>6, <1>8, QueueTypes DEF DrainInv
  <2>3. (\A j \in Jobs :
           job[j].fn = NullFn \/ job[j].pc \in {"notify", "dummy"} =>
             ~ Pending(job[j].base))'
    <3> SUFFICES ASSUME NEW j \in Jobs',
                        job'[j].fn = NullFn \/ job'[j].pc \in {"notify", "dummy"}
                 PROVE  ~ Pending(job[j].base)'
      OBVIOUS
    <3>1. CASE j = h BY <3>1, <1>5, <1>15
    <3>2. CASE j # h
      <4>1. job'[j] = job[j] /\ j \in Jobs /\ job[j].base \in Tasks
        BY <3>2, <1>7, QueueTypes
      <4> QED BY <4>1, <1>8 DEF DrainInv
    <3> QED BY <3>1, <3>2
  <2> QED BY <2>1, <2>2, <2>3 DEF DrainInv
<1>19. DummyInv'
  <2>1. \A j \in Jobs' : j # h /\ Waking(j)' => Waking(j)
    BY <1>7 DEF Waking
  <2>2. h \in Jobs' => \A j \in Jobs : j # h /\ Waking(j) => job[j].base # b
    <3> SUFFICES ASSUME h \in Jobs', NEW j \in Jobs, j # h, Waking(j),
                        job[j].base = b
                 PROVE  FALSE
      OBVIOUS
    <3>1. job[j].pc \notin Handling BY <1>14
    <3>2. job[j].fn # NullFn /\ job[j].pc = "dummy"
      BY <3>1 DEF OwnerInv, Waking, Handling
    <3>3. ~ Pending(b) BY <3>2 DEF DrainInv
    <3>4. Pending(b) BY <1>4, <1>13 DEF Pending, Handling
    <3> QED BY <3>3, <3>4
  <2>3. (\A i, j \in Jobs :
           Waking(i) /\ Waking(j) /\ job[i].base = job[j].base => i = j)'
    <3> SUFFICES ASSUME NEW i \in Jobs', NEW j \in Jobs', Waking(i)', Waking(j)',
                        job'[i].base = job'[j].base
                 PROVE  i = j
      OBVIOUS
    <3>1. i \in Jobs /\ j \in Jobs /\ job[i].base = job[j].base BY <1>7
    <3>2. CASE i # h /\ j # h BY <3>1, <3>2, <2>1 DEF DummyInv
    <3>3. CASE i = h /\ j # h BY <3>1, <3>3, <2>1, <2>2, <1>4
    <3>4. CASE i # h /\ j = h BY <3>1, <3>4, <2>1, <2>2, <1>4
    <3> QED BY <3>2, <3>3, <3>4
  <2>4. (\A j \in Jobs, v \in Workers : \A y \in ready[v] :
           Waking(j) /\ y.fn = NullFn => job[j].base # y.base)'
    <3> SUFFICES ASSUME NEW j \in Jobs', NEW v \in Workers, NEW y \in ready[v],
                        Waking(j)', y.fn = NullFn
                 PROVE  job'[j].base # y.base
      BY <1>6
    <3>1. CASE j = h BY <3>1, <1>5, <1>14
    <3>2. CASE j # h BY <3>2, <1>7, <2>1 DEF DummyInv
    <3> QED BY <3>1, <3>2
  <2> QED BY <2>3, <2>4 DEF DummyInv
<1>20. OnceInv'
  <2>1. \A j \in Jobs' : job'[j].pc \in Active =>
          j \in Jobs /\ job[j].pc \in Active /\ job'[j] = job[j]
    BY <1>7
  <2> QED BY <1>6, <1>7, <2>1 DEF OnceInv
<1>21. BufferInv' BY <1>6 DEF BufferInv
<1> QED BY <1>11, <1>16, <1>17, <1>18, <1>19, <1>20, <1>21

LEMMA NotifyInv ==
  ASSUME EngineInv, TypeInv', NEW w \in Workers, Notify(w)
  PROVE  CoreInv'
<1> USE DEF EngineInv, CoreInv
<1>0. PICK h : h = Here(w) OBVIOUS
<1>1. /\ Finishes(w, "notify")
      /\ phase' = [phase EXCEPT ![Now(w).base] = IF @ = "waiting" THEN "woken" ELSE @]
  BY NotifyJobs
<1>2. /\ h \in Jobs /\ job[h].pc = "notify" /\ Jobs' = Jobs \ {h}
      /\ \A j \in Jobs' : job'[j] = job[j] /\ j \in Jobs
      /\ Entering' = Entering
  BY <1>0, <1>1 DEF Finishes, Now, JobEnds
<1>3. UNCHANGED <<ready, owner, dependencies, not_ready, outstanding_tasks, applied>>
  BY DEF Notify, graphTaskVars
<1>4. \A t \in Tasks : /\ phase'[t] = "idle" => phase[t] = "idle"
                       /\ phase'[t] = "returned" => phase[t] = "returned"
  BY <1>1 DEF TypeInv, TypeOK
<1>5. \A t \in Tasks : Pending(t)' => Pending(t)
  BY <1>2, <1>3 DEF Pending
<1>6. CountInv'
  <2>1. \A t \in Tasks :
          /\ Handled(t) = {j \in Jobs : job[j].base = t /\ job[j].pc \in Handling}
          /\ Handled(t)' = {j \in Jobs' : job'[j].base = t /\ job'[j].pc \in Handling}
    BY HandledJobs, HandledJobsPrime
  <2>2. \A t \in Tasks : \A j : j \in Handled(t)' <=> j \in Handled(t)
    BY <1>2, <2>1 DEF Handling
  <2>3. \A t \in Tasks : Handled(t)' = Handled(t) BY <2>2
  <2> QED BY <1>3, <2>3, SameCount
<1>7. IdleInv' BY <1>2, <1>3, <1>4 DEF IdleInv
<1>8. OwnerInv' BY <1>2, <1>3 DEF OwnerInv
<1>9. DrainInv' BY <1>2, <1>3, <1>4, <1>5, QueueTypes DEF DrainInv
<1>10. DummyInv' BY <1>2, <1>3 DEF DummyInv, Waking
<1>11. OnceInv' BY <1>2, <1>3 DEF OnceInv
<1>12. BufferInv' BY <1>3 DEF BufferInv
<1> QED BY <1>6, <1>7, <1>8, <1>9, <1>10, <1>11, <1>12

LEMMA PushDummyInv ==
  ASSUME EngineInv, TypeInv', NEW w \in Workers, PushDummy(w)
  PROVE  CoreInv'
<1> USE DEF EngineInv, CoreInv
<1>0. PICK h, b, d : h = Here(w) /\ b = Now(w).base /\ d = Now(w).base_owner
  OBVIOUS
<1>1. PICK item : item = [base |-> b, fn |-> NullFn, inputs |-> {}] OBVIOUS
<1>2. Finishes(w, "dummy") /\ Push(d, item) BY <1>0, <1>1, PushDummyJobs
<1>3. /\ h \in Jobs /\ job[h].pc = "dummy" /\ Jobs' = Jobs \ {h}
      /\ job[h].base = b /\ b \in Tasks /\ job[h].base_owner = d /\ d \in Workers
      /\ \A j \in Jobs' : job'[j] = job[j] /\ j \in Jobs /\ j # h
      /\ Entering' = Entering
  BY <1>0, <1>2 DEF Finishes, Now, JobEnds, JobOK, JobRecord
<1>4. UNCHANGED <<owner, dependencies, not_ready, phase, applied>>
  BY DEF PushDummy, callVars
<1>5. /\ item \in FunctionTask /\ item.base = b /\ item.fn = NullFn
      /\ item.inputs = {}
  BY <1>1, <1>3 DEF FunctionTask
<1>6. owner[b] = d BY <1>3, CPUWorker DEF OwnerInv
<1>7. /\ ready'[d] = ready[d] \cup {item}
      /\ \A v \in Workers \ {d} : ready'[v] = ready[v]
      /\ \A v \in Workers : \A x \in ready'[v] :
            x \in ready[v] \/ (x = item /\ v = d)
  BY <1>2, <1>3 DEF Push, TypeInv, TypeOK
<1>8. Waking(h) BY <1>3 DEF Waking
<1>9. item \notin ready[d] BY <1>3, <1>5, <1>8 DEF DummyInv
<1>10. \A t \in Tasks : Pending(t)' => Pending(t)
  BY <1>3, <1>5, <1>7 DEF Pending
<1>11. CountInv'
  <2>1. \A t \in Tasks :
          /\ Handled(t) = {j \in Jobs : job[j].base = t /\ job[j].pc \in Handling}
          /\ Handled(t)' = {j \in Jobs' : job'[j].base = t /\ job'[j].pc \in Handling}
    BY HandledJobs, HandledJobsPrime
  <2>2. \A t \in Tasks : \A j : j \in Handled(t)' <=> j \in Handled(t)
    BY <1>3, <2>1 DEF Handling
  <2>3. \A t \in Tasks : Handled(t)' = Handled(t) BY <2>2
  <2> QED BY <1>2, <1>3, <1>5, <1>9, <2>3, PushCount
<1>12. IdleInv'
  <2>1. phase[b] # "idle" BY <1>3 DEF IdleInv
  <2> QED BY <1>3, <1>4, <1>5, <1>7, <2>1 DEF IdleInv
<1>13. OwnerInv' BY <1>3, <1>4, <1>5, <1>6, <1>7 DEF OwnerInv
<1>14. DrainInv'
  <2>1. ~ Pending(b) BY <1>3 DEF DrainInv
  <2>2. (\A t \in Tasks : phase[t] = "returned" => ~ Pending(t))'
    BY <1>4, <1>10 DEF DrainInv
  <2>3. (\A v \in Workers : \A y \in ready[v] : y.fn = NullFn => ~ Pending(y.base))'
    BY <1>3, <1>5, <1>7, <1>10, <2>1, QueueTypes DEF DrainInv
  <2>4. (\A j \in Jobs :
           job[j].fn = NullFn \/ job[j].pc \in {"notify", "dummy"} =>
             ~ Pending(job[j].base))'
    BY <1>3, <1>10, QueueTypes DEF DrainInv
  <2> QED BY <2>2, <2>3, <2>4 DEF DrainInv
<1>15. DummyInv'
  <2>1. \A j \in Jobs' : Waking(j)' => Waking(j) /\ job[j].base # b
    <3> SUFFICES ASSUME NEW j \in Jobs', Waking(j)'
                 PROVE  Waking(j) /\ job[j].base # b
      OBVIOUS
    <3>1. j \in Jobs /\ j # h /\ job'[j] = job[j] BY <1>3
    <3>2. Waking(j) BY <3>1 DEF Waking
    <3> QED BY <1>3, <1>8, <3>1, <3>2 DEF DummyInv
  <2>2. (\A i, j \in Jobs :
           Waking(i) /\ Waking(j) /\ job[i].base = job[j].base => i = j)'
    BY <1>3, <2>1 DEF DummyInv
  <2>3. (\A j \in Jobs, v \in Workers : \A y \in ready[v] :
           Waking(j) /\ y.fn = NullFn => job[j].base # y.base)'
    BY <1>3, <1>5, <1>7, <2>1 DEF DummyInv
  <2> QED BY <2>2, <2>3 DEF DummyInv
<1>16. OnceInv'
  <2>1. (\A v \in Workers : \A x \in ready[v] : x.fn # NullFn =>
           /\ x.fn \in Fns => dependencies[x.base][x.fn] = 0
           /\ applied[x.base][x.fn] = NoBuffer)'
    BY <1>4, <1>5, <1>7 DEF OnceInv
  <2>2. (\A u, v \in Workers : \A x \in ready[u], y \in ready[v] :
           x.fn # NullFn /\ x.fn = y.fn /\ x.base = y.base => u = v /\ x = y)'
    BY <1>5, <1>7 DEF OnceInv
  <2>3. (\A j \in Jobs, v \in Workers : \A x \in ready[v] :
           job[j].pc \in Active /\ job[j].base = x.base => job[j].fn # x.fn)'
    <3>1. \A j \in Jobs : job[j].pc \in Active => job[j].fn # NullFn
      BY QueueTypes, NamesAssumption
    <3> QED BY <1>3, <1>5, <1>7, <3>1 DEF OnceInv
  <2> QED BY <1>3, <1>4, <2>1, <2>2, <2>3 DEF OnceInv
<1>17. BufferInv' BY <1>4 DEF BufferInv
<1> QED BY <1>11, <1>12, <1>13, <1>14, <1>15, <1>16, <1>17

-----------------------------------------------------------------------------
(***************************************************************************)
(* A gradient reaches the next function.                                   *)
(***************************************************************************)
LEMMA BufferDeviceType ==
  ASSUME NEW t \in Tasks, NEW f \in Fns, NEW buffer,
         \A e \in buffer : LeadsTo(t, e, f)
  PROVE  BufferDevice(t, f, buffer) \in Workers
<1> DEFINE positions == {n \in {InputNrOf(t, e) : e \in buffer} :
                           InputDevice[f][n] # CPU}
           least == CHOOSE n \in positions : \A m \in positions : n <= m
<1>1. InputDevice[f] \in Seq(Workers) BY GraphAssumption
<1>2. positions \subseteq DOMAIN InputDevice[f] BY InputNrType
<1>3. CASE positions = {} BY <1>3, CPUWorker DEF BufferDevice
<1>4. CASE positions # {}
  <2>1. positions \in SUBSET Nat BY <1>1, <1>2
  <2> HIDE DEF positions
  <2>2. \E n \in positions : \A m \in positions : n <= m
    BY <1>4, <2>1, MinExists
  <2>3. least \in positions BY <2>2
  <2>4. InputDevice[f][least] \in Workers BY <1>1, <1>2, <2>3
  <2> QED BY <1>4, <2>4 DEF BufferDevice, positions
<1> QED BY <1>3, <1>4

(* What Propagate(w) does, for the edge e from the job's function to f. *)
PropagateOK(w, new, b, f, e, buffer) ==
  /\ OutputDone(w, new)
  /\ b = Now(w).base /\ b \in Tasks /\ f \in Fns
  /\ e = <<Now(w).fn, Now(w).i>> /\ e \in Edges /\ Now(w).fn \in Nodes
  /\ LeadsTo(b, e, f)
  /\ buffer = BufferWith(b, f, e) /\ buffer \in SUBSET Edges
  /\ dependencies' = [dependencies EXCEPT ![b][f] =
                        IF dependencies[b][f] > 0 THEN @ - 1 ELSE @]
  /\ UNCHANGED <<phase, result, has_error, owner, captured_vars, applied>>

PropagateQueues(b, f, buffer) ==
  Push(BufferDevice(b, f, buffer), [base |-> b, fn |-> f, inputs |-> buffer])

PropagateEffect(w, new, b, f, e, buffer) ==
  /\ PropagateOK(w, new, b, f, e, buffer)
  /\ new.pc = "except" <=> dependencies[b][f] = 0
  /\ new.pc # "except" =>
       new.pc = IF Now(w).i = Len(NextOf[b][Now(w).fn]) THEN "owner"
                                                        ELSE "propagate"
  /\ new.pc = "propagate" => new.i = Now(w).i + 1
  /\ \/ /\ \/ dependencies[b][f] = 0
           \/ not_ready[b][f] = NoBuffer /\ ~ should_execute(b, f)
        /\ UNCHANGED <<ready, outstanding_tasks, not_ready>>
     \/ /\ dependencies[b][f] = 1
        /\ not_ready[b][f] = NoBuffer => should_execute(b, f)
        /\ PropagateQueues(b, f, buffer)
        /\ not_ready' = [not_ready EXCEPT ![b][f] = NoBuffer]
     \/ /\ dependencies[b][f] > 1
        /\ not_ready[b][f] = NoBuffer => should_execute(b, f)
        /\ not_ready' = [not_ready EXCEPT ![b][f] = buffer]
        /\ UNCHANGED <<ready, outstanding_tasks>>

LEMMA PropagateJobs ==
  ASSUME TypeInv, NEW w \in Workers, Propagate(w)
  PROVE  \E new, b, f, e, buffer : PropagateEffect(w, new, b, f, e, buffer)
<1>0. At(w, "propagate") /\ "propagate" \in Busy \ {"nested"}
  BY DEF Propagate, Busy, Handling
<1>1. PICK b, fn, i : b = Now(w).base /\ fn = Now(w).fn /\ i = Now(w).i OBVIOUS
<1>2. /\ Now(w) \in JobRecord /\ b \in Tasks /\ fn \in Nodes /\ Now(w).pc = "propagate"
      /\ i \in DOMAIN NextOf[b][fn]
      /\ b = Top(w).base /\ fn = Top(w).fn /\ i = Top(w).i
  BY <1>0, <1>1, NowFields DEF JobOK, JobRecord, Active
<1>3. PICK f, e : f = NextOf[b][fn][i] /\ e = <<fn, i>> OBVIOUS
<1>4. f # NullFn BY <1>2, <1>3 DEF Propagate
<1>5. NextOf[b][fn] \in Seq(Fns \cup {NullFn}) BY <1>2, NextOfType
<1>6. f \in Fns /\ i \in Nat \ {0} BY <1>2, <1>3, <1>4, <1>5
<1>7. e \in Edges /\ LeadsTo(b, e, f) BY <1>2, <1>3, <1>6 DEF Edges, LeadsTo
<1>8. PICK buffer : buffer = BufferWith(b, f, e) OBVIOUS
<1>9. buffer \in SUBSET Edges BY <1>2, <1>6, <1>7, <1>8, BufferWithType
<1>10. dependencies[b][f] \in Nat BY <1>2, <1>6 DEF TypeInv, TypeOK
<1> DEFINE known == dependencies[b][f] > 0
           skip == \/ ~ known
                   \/ not_ready[b][f] = NoBuffer /\ ~ should_execute(b, f)
<1>11. known \in BOOLEAN BY <1>10
<1>12. /\ dependencies' = [dependencies EXCEPT ![b][f] =
                             IF dependencies[b][f] > 0 THEN @ - 1 ELSE @]
       /\ \/ /\ skip
             /\ UNCHANGED <<ready, outstanding_tasks, not_ready>>
          \/ /\ ~ skip
             /\ IsReady(b, f)
             /\ PropagateQueues(b, f, buffer)
             /\ not_ready' = [not_ready EXCEPT ![b][f] = NoBuffer]
          \/ /\ ~ skip
             /\ ~ IsReady(b, f)
             /\ not_ready' = [not_ready EXCEPT ![b][f] = buffer]
             /\ UNCHANGED <<ready, outstanding_tasks>>
       /\ AdvanceOutput(w, known)
       /\ UNCHANGED <<phase, result, has_error, owner, captured_vars, applied>>
  BY <1>2, <1>3, <1>8, Zenon DEF Propagate, PropagateQueues, callVars, history
<1>13. \/ /\ \/ dependencies[b][f] = 0
             \/ not_ready[b][f] = NoBuffer /\ ~ should_execute(b, f)
          /\ UNCHANGED <<ready, outstanding_tasks, not_ready>>
       \/ /\ dependencies[b][f] = 1
          /\ not_ready[b][f] = NoBuffer => should_execute(b, f)
          /\ PropagateQueues(b, f, buffer)
          /\ not_ready' = [not_ready EXCEPT ![b][f] = NoBuffer]
       \/ /\ dependencies[b][f] > 1
          /\ not_ready[b][f] = NoBuffer => should_execute(b, f)
          /\ not_ready' = [not_ready EXCEPT ![b][f] = buffer]
          /\ UNCHANGED <<ready, outstanding_tasks>>
  <2>1. CASE skip
    <3>1. \/ dependencies[b][f] = 0
          \/ not_ready[b][f] = NoBuffer /\ ~ should_execute(b, f)
      BY <2>1, <1>10
    <3> QED BY <2>1, <3>1, <1>12
  <2>2. CASE ~ skip
    <3>1. /\ dependencies[b][f] > 0
          /\ not_ready[b][f] = NoBuffer => should_execute(b, f)
      BY <2>2
    <3>2. ~ IsReady(b, f) => dependencies[b][f] > 1
      BY <3>1, <1>10 DEF IsReady
    <3>3. IsReady(b, f) => dependencies[b][f] = 1 BY DEF IsReady
    <3> QED BY <2>2, <3>1, <3>2, <3>3, <1>12
  <2> QED BY <2>1, <2>2
<1>16. known <=> dependencies[b][f] # 0 BY <1>10
<1> HIDE DEF known, skip
<1> DEFINE last == i = Len(NextOf[b][fn])
           a == [Now(w) EXCEPT !.i = i + 1]
           c == [base |-> b, fn |-> fn, inputs |-> Now(w).inputs,
                 i |-> 1, base_owner |-> Now(w).base_owner,
                 pc |-> IF known THEN "owner" ELSE "except"]
<1>14. /\ known /\ ~ last => Advances(w, "propagate", a)
       /\ ~ (known /\ ~ last) => Advances(w, "propagate", c)
  BY <1>0, <1>1, <1>11, <1>12, AdvanceOutputJobs
<1>15. /\ a.base = b /\ a.fn = fn /\ a.pc = "propagate" /\ a.i = i + 1
       /\ c.base = b /\ c.fn = fn /\ c.pc = IF known THEN "owner" ELSE "except"
  BY <1>1, <1>2 DEF JobRecord
<1> HIDE DEF a, c, last
<1>17. \E new :
         /\ OutputDone(w, new)
         /\ new.pc = "except" <=> dependencies[b][f] = 0
         /\ new.pc # "except" =>
              new.pc = IF last THEN "owner" ELSE "propagate"
         /\ new.pc = "propagate" => new.i = i + 1
  <2>1. CASE known /\ ~ last
    <3>1. OutputDone(w, a) BY <2>1, <1>1, <1>14, <1>15 DEF OutputDone
    <3> QED BY <2>1, <3>1, <1>15, <1>16
  <2>2. CASE ~ (known /\ ~ last)
    <3>1. OutputDone(w, c) BY <2>2, <1>1, <1>14, <1>15 DEF OutputDone
    <3> QED BY <2>2, <3>1, <1>15, <1>16
  <2> QED BY <2>1, <2>2
<1>18. PICK new :
         /\ OutputDone(w, new)
         /\ new.pc = "except" <=> dependencies[b][f] = 0
         /\ new.pc # "except" =>
              new.pc = IF last THEN "owner" ELSE "propagate"
         /\ new.pc = "propagate" => new.i = i + 1
  BY <1>17
<1>19. PropagateOK(w, new, b, f, e, buffer)
  BY <1>1, <1>2, <1>3, <1>6, <1>7, <1>8, <1>9, <1>12, <1>18 DEF PropagateOK
<1>20. PropagateEffect(w, new, b, f, e, buffer)
  BY <1>1, <1>13, <1>18, <1>19 DEF PropagateEffect, last
<1> QED BY <1>20

(* The gradient is added to the buffer of a function that waits for more,  *)
(* or is not needed.                                                       *)
LEMMA PropagateDepInv ==
  ASSUME EngineInv, TypeInv', NEW w \in Workers,
         NEW new, NEW b, NEW f, NEW e, NEW buffer,
         PropagateOK(w, new, b, f, e, buffer),
         UNCHANGED <<ready, outstanding_tasks>>,
         \/ UNCHANGED not_ready
         \/ not_ready' = [not_ready EXCEPT ![b][f] = buffer]
  PROVE  CoreInv'
<1> USE DEF EngineInv, CoreInv
<1>1. \A t \in Tasks, g \in Fns :
         dependencies[t][g] = 0 => dependencies'[t][g] = 0
  <2>1. dependencies \in [Tasks -> [Fns -> Nat]] BY DEF TypeInv, TypeOK
  <2> QED BY <2>1 DEF PropagateOK
<1>2. \A x \in buffer : LeadsTo(b, x, f)
  BY DEF PropagateOK, BufferInv, BufferWith
<1>3. BufferInv'
  <2>1. not_ready \in [Tasks -> [Fns -> Buffers]] BY DEF TypeInv, TypeOK
  <2>2. \A t \in Tasks, g \in Fns :
          \/ not_ready'[t][g] = not_ready[t][g]
          \/ t = b /\ g = f /\ not_ready'[t][g] = buffer
    BY <2>1 DEF PropagateOK
  <2> QED BY <1>2, <2>2 DEF BufferInv
<1>4. applied[Now(w).base][Now(w).fn] # NoBuffer /\ Now(w).fn \in Nodes
  BY DEF OnceInv, Advances, OutputDone, PropagateOK, Now, Active
<1>5. UNCHANGED <<owner, phase, applied>> BY DEF PropagateOK
<1>6. AdvanceOK(w, "propagate", new)
  BY <1>4, <1>5, NamesAssumption
     DEF AdvanceOK, OutputDone, PropagateOK, Handling, Active
<1> QED BY <1>1, <1>3, <1>5, <1>6, AdvanceDepInv

(* The last gradient has come: the function is queued, and it is nowhere   *)
(* else.                                                                   *)
LEMMA PropagatePushInv ==
  ASSUME EngineInv, TypeInv', NEW w \in Workers,
         NEW new, NEW b, NEW f, NEW e, NEW buffer,
         PropagateOK(w, new, b, f, e, buffer), dependencies[b][f] = 1,
         PropagateQueues(b, f, buffer),
         not_ready' = [not_ready EXCEPT ![b][f] = NoBuffer]
  PROVE  CoreInv'
<1> USE DEF EngineInv, CoreInv
<1>0. PICK h, d, item : /\ h = Here(w) /\ d = BufferDevice(b, f, buffer)
                        /\ item = [base |-> b, fn |-> f, inputs |-> buffer]
  OBVIOUS
<1>1. /\ OutputDone(w, new) /\ b = Now(w).base /\ b \in Tasks /\ f \in Fns
      /\ buffer = BufferWith(b, f, e) /\ buffer \in SUBSET Edges
      /\ LeadsTo(b, e, f)
      /\ UNCHANGED <<phase, owner, applied>> /\ Push(d, item)
      /\ Now(w).fn \in Nodes
  BY <1>0 DEF PropagateOK, PropagateQueues
<1>2. /\ \A t \in Tasks, g \in Fns : t # b \/ g # f =>
           /\ dependencies'[t][g] = dependencies[t][g]
           /\ not_ready'[t][g] = not_ready[t][g]
      /\ dependencies'[b][f] = 0 /\ not_ready'[b][f] = NoBuffer
  <2>1. /\ dependencies \in [Tasks -> [Fns -> Nat]]
        /\ not_ready \in [Tasks -> [Fns -> Buffers]]
    BY DEF TypeInv, TypeOK
  <2>2. dependencies' = [dependencies EXCEPT ![b][f] = 0]
    BY <2>1 DEF PropagateOK
  <2> QED BY <2>1, <2>2, <1>1
<1>3. \A x \in buffer : LeadsTo(b, x, f)
  BY <1>1 DEF BufferInv, BufferWith
<1>4. d \in Workers BY <1>0, <1>1, <1>3, BufferDeviceType
<1>5. /\ item \in FunctionTask /\ item.base = b /\ item.fn = f /\ f \in Nodes
      /\ f # NullFn
  BY <1>0, <1>1, NamesAssumption DEF FunctionTask, Nodes
<1>6. /\ ready'[d] = ready[d] \cup {item}
      /\ \A v \in Workers \ {d} : ready'[v] = ready[v]
      /\ \A v \in Workers : \A x \in ready'[v] :
            x \in ready[v] \/ (x = item /\ v = d)
  BY <1>1, <1>4 DEF Push, TypeInv, TypeOK
<1>7. \A v \in Workers : \A x \in ready[v] : x.base = b => x.fn # f
  BY <1>1, <1>5 DEF OnceInv
<1>8. item \notin ready[d] BY <1>4, <1>5, <1>7
<1>9. /\ Jobs' = Jobs /\ h \in Jobs /\ h[1] = w /\ job'[h] = new
      /\ \A j \in Jobs : j # h => job'[j] = job[j]
      /\ job[h] = Now(w) /\ job[h].pc = "propagate"
      /\ Entering' = Entering
      /\ new.base = b /\ new.fn = job[h].fn /\ job[h].base = b
      /\ new.pc \in {"propagate", "owner", "except"}
  BY <1>0, <1>1, AdvanceFacts DEF OutputDone
<1>10. \A j \in Jobs : /\ job'[j].base = job[j].base /\ job'[j].fn = job[j].fn
                       /\ job'[j].pc \in Handling <=> job[j].pc \in Handling
                       /\ job'[j].pc \in Active => job[j].pc \in Active
  BY <1>9 DEF Handling, Active
<1>11. Pending(b)
  <2>1. job[h].fn # NullFn BY <1>1, <1>9, NamesAssumption
  <2> QED BY <1>9, <2>1 DEF Pending, Handling
<1>12. \A t \in Tasks : Pending(t)' => Pending(t)
  <2> SUFFICES ASSUME NEW t \in Tasks, t # b, Pending(t)' PROVE Pending(t)
    BY <1>11
  <2> QED BY <1>5, <1>6, <1>9, <1>10 DEF Pending
<1>13. CountInv'
  <2>1. \A t \in Tasks : Handled(t)' = Handled(t)
    BY <1>1, <1>9, AdvanceHandled DEF OutputDone, Handling
  <2> QED BY <1>1, <1>4, <1>5, <1>8, <2>1, PushCount
<1>14. IdleInv'
  <2>1. phase[b] # "idle" BY <1>1, <1>9 DEF IdleInv
  <2> QED BY <1>1, <1>5, <1>6, <1>9, <1>10, <2>1 DEF IdleInv
<1>15. OwnerInv'
  <2>1. /\ (\A c \in Entering : owner[c[2]] = NO_DEVICE)'
        /\ (\A c, g \in Entering : c[2] = g[2] => c = g)'
        /\ (\A v \in Workers : \A x \in ready[v] :
              x.fn = NullFn => owner[x.base] = v /\ x.inputs = {})'
    BY <1>1, <1>5, <1>6, <1>9 DEF OwnerInv
  <2>2. (\A j \in Jobs : job[j].pc \in {"decrement", "notify", "dummy"} =>
           job[j].base_owner \in {NO_DEVICE, owner[job[j].base]})'
    BY <1>1, <1>9 DEF OwnerInv
  <2>3. (\A j \in Jobs : job[j].fn = NullFn =>
           /\ owner[job[j].base] = j[1]
           /\ job[j].pc \in {"owner", "decrement"}
           /\ job[j].pc = "decrement" => job[j].base_owner = j[1])'
    BY <1>1, <1>9, NamesAssumption DEF OwnerInv
  <2> QED BY <2>1, <2>2, <2>3 DEF OwnerInv
<1>16. DrainInv'
  <2>1. (\A t \in Tasks : phase[t] = "returned" => ~ Pending(t))'
    BY <1>1, <1>12 DEF DrainInv
  <2>2. (\A v \in Workers : \A y \in ready[v] : y.fn = NullFn => ~ Pending(y.base))'
    BY <1>5, <1>6, <1>12, QueueTypes DEF DrainInv
  <2>3. (\A j \in Jobs :
           job[j].fn = NullFn \/ job[j].pc \in {"notify", "dummy"} =>
             ~ Pending(job[j].base))'
    <3> SUFFICES ASSUME NEW j \in Jobs,
                        job'[j].fn = NullFn \/ job'[j].pc \in {"notify", "dummy"}
                 PROVE  ~ Pending(job[j].base)'
      BY <1>9
    <3>1. job[j].fn = NullFn \/ job[j].pc \in {"notify", "dummy"} BY <1>9
    <3>2. ~ Pending(job[j].base) /\ job[j].base \in Tasks
      BY <3>1, QueueTypes DEF DrainInv
    <3>3. job'[j].base = job[j].base BY <1>10
    <3> QED BY <1>12, <3>2, <3>3
  <2> QED BY <2>1, <2>2, <2>3 DEF DrainInv
<1>17. DummyInv'
  <2>1. \A j \in Jobs : Waking(j)' => Waking(j) BY <1>9 DEF Waking
  <2>2. (\A i, j \in Jobs :
           Waking(i) /\ Waking(j) /\ job[i].base = job[j].base => i = j)'
    BY <1>9, <1>10, <2>1 DEF DummyInv
  <2>3. (\A j \in Jobs, v \in Workers : \A y \in ready[v] :
           Waking(j) /\ y.fn = NullFn => job[j].base # y.base)'
    BY <1>5, <1>6, <1>9, <1>10, <2>1 DEF DummyInv
  <2> QED BY <2>2, <2>3 DEF DummyInv
<1>18. OnceInv'
  <2>0. /\ applied[b][f] = NoBuffer
        /\ \A j \in Jobs : job[j].pc \in Active /\ job[j].base = b => job[j].fn # f
    BY <1>1 DEF OnceInv
  <2>a. \A t \in Tasks, g \in Fns :
           dependencies[t][g] = 0 => dependencies'[t][g] = 0
    BY <1>2
  <2>1. (\A t \in Tasks, g \in Fns :
           applied[t][g] # NoBuffer => dependencies[t][g] = 0)'
    BY <1>1, <2>a DEF OnceInv
  <2>2. (\A v \in Workers : \A x \in ready[v] : x.fn # NullFn =>
           /\ x.fn \in Fns => dependencies[x.base][x.fn] = 0
           /\ applied[x.base][x.fn] = NoBuffer)'
    <3> SUFFICES ASSUME NEW v \in Workers, NEW x \in ready'[v], x.fn # NullFn
                 PROVE  /\ x.fn \in Fns => dependencies'[x.base][x.fn] = 0
                        /\ applied[x.base][x.fn] = NoBuffer
      BY <1>1
    <3>1. CASE x \in ready[v]
      BY <3>1, <2>a, QueueTypes DEF OnceInv
    <3>2. CASE x = item BY <3>2, <1>2, <1>5, <2>0
    <3> QED BY <3>1, <3>2, <1>6
  <2>3. (\A j \in Jobs : job[j].pc \in Active =>
           /\ job[j].fn \in Fns => dependencies[job[j].base][job[j].fn] = 0
           /\ job[j].pc \in {"capture", "call", "apply"} =>
                applied[job[j].base][job[j].fn] = NoBuffer
           /\ job[j].pc \in {"lock", "propagate"} =>
                applied[job[j].base][job[j].fn] # NoBuffer)'
    <3> SUFFICES ASSUME NEW j \in Jobs, job'[j].pc \in Active
                 PROVE
           /\ job'[j].fn \in Fns => dependencies'[job'[j].base][job'[j].fn] = 0
           /\ job'[j].pc \in {"capture", "call", "apply"} =>
                applied[job'[j].base][job'[j].fn] = NoBuffer
           /\ job'[j].pc \in {"lock", "propagate"} =>
                applied[job'[j].base][job'[j].fn] # NoBuffer
      BY <1>1, <1>9
    <3>1. /\ job[j].pc \in Active /\ job'[j].base = job[j].base
          /\ job'[j].fn = job[j].fn /\ job[j].base \in Tasks
      BY <1>10, QueueTypes
    <3>2. job'[j].fn \in Fns => dependencies'[job'[j].base][job'[j].fn] = 0
      BY <2>a, <3>1 DEF OnceInv
    <3>3. CASE j = h
      <4>1. applied[b][job[h].fn] # NoBuffer BY <1>9 DEF OnceInv, Active
      <4> QED BY <1>9, <3>1, <3>2, <3>3, <4>1
    <3>4. CASE j # h BY <1>9, <3>1, <3>2, <3>4 DEF OnceInv
    <3> QED BY <3>3, <3>4
  <2>4. (\A u, v \in Workers : \A x \in ready[u], y \in ready[v] :
           x.fn # NullFn /\ x.fn = y.fn /\ x.base = y.base => u = v /\ x = y)'
    BY <1>5, <1>6, <1>7 DEF OnceInv
  <2>5. (\A i, j \in Jobs :
           /\ job[i].pc \in Active /\ job[j].pc \in Active
           /\ job[i].fn = job[j].fn /\ job[i].base = job[j].base
           => i = j)'
    BY <1>9, <1>10 DEF OnceInv
  <2>6. (\A j \in Jobs, v \in Workers : \A x \in ready[v] :
           job[j].pc \in Active /\ job[j].base = x.base => job[j].fn # x.fn)'
    BY <1>5, <1>6, <1>9, <1>10, <2>0 DEF OnceInv
  <2> QED BY <2>1, <2>2, <2>3, <2>4, <2>5, <2>6 DEF OnceInv
<1>19. BufferInv' BY <1>2 DEF BufferInv
<1> QED BY <1>13, <1>14, <1>15, <1>16, <1>17, <1>18, <1>19

LEMMA PropagateInv ==
  ASSUME EngineInv, TypeInv', NEW w \in Workers, Propagate(w)
  PROVE  CoreInv'
<1>0. PICK new, b, f, e, buffer : PropagateEffect(w, new, b, f, e, buffer)
  BY PropagateJobs DEF EngineInv
<1>1. /\ PropagateOK(w, new, b, f, e, buffer)
      /\ \/ UNCHANGED <<ready, outstanding_tasks, not_ready>>
         \/ /\ dependencies[b][f] = 1
            /\ PropagateQueues(b, f, buffer)
            /\ not_ready' = [not_ready EXCEPT ![b][f] = NoBuffer]
         \/ /\ not_ready' = [not_ready EXCEPT ![b][f] = buffer]
            /\ UNCHANGED <<ready, outstanding_tasks>>
  BY <1>0 DEF PropagateEffect
<1>2. CASE UNCHANGED <<ready, outstanding_tasks, not_ready>>
  BY <1>1, <1>2, PropagateDepInv
<1>3. CASE /\ dependencies[b][f] = 1
           /\ PropagateQueues(b, f, buffer)
           /\ not_ready' = [not_ready EXCEPT ![b][f] = NoBuffer]
  BY <1>1, <1>3, PropagatePushInv
<1>4. CASE /\ not_ready' = [not_ready EXCEPT ![b][f] = buffer]
           /\ UNCHANGED <<ready, outstanding_tasks>>
  BY <1>1, <1>4, PropagateDepInv
<1> QED BY <1>1, <1>2, <1>3, <1>4

-----------------------------------------------------------------------------
(***************************************************************************)
(* The invariant is inductive.                                             *)
(***************************************************************************)
LEMMA SameStack ==
  ASSUME UNCHANGED stack
  PROVE  JobsStay /\ Entering' = Entering
BY DEF JobsStay, Jobs, job, Job, Entering, At, Top

LEMMA EndTaskPhase ==
  ASSUME TypeInv, NEW t \in Tasks, EndTask(t)
  PROVE  /\ \A u \in Tasks : phase'[u] = "idle" => phase[u] = "idle"
         /\ \A u \in Tasks : phase'[u] = "returned" =>
              phase[u] = "returned" \/ outstanding_tasks[u] = 0
BY DEF EndTask, TypeInv, TypeOK

LEMMA CallerStepInv ==
  ASSUME EngineInv, TypeInv', NEW t \in Tasks, CallerStep(t)
  PROVE  CoreInv'
<1>1. phase \in [Tasks -> Phases] BY DEF EngineInv, TypeInv, TypeOK
<1>2. CASE Execute(t)
  <2>1. /\ StartTask(t) /\ UNCHANGED stack
        /\ phase' = [phase EXCEPT ![t] = "checking"]
    BY <1>2 DEF Execute
  <2> QED BY <2>1, SameStack, StartInv
<1>3. CASE WaitCheck(t)
  <2>1. /\ UNCHANGED <<stack, ready, outstanding_tasks, owner, dependencies,
                       applied, not_ready>>
        /\ \A u \in Tasks : phase'[u] = "idle" => phase[u] = "idle"
        /\ \A u \in Tasks : phase'[u] = "returned" => phase[u] = "returned"
    BY <1>1, <1>3 DEF WaitCheck, graphTaskVars, history
  <2> QED BY <2>1, SameStack, StayInv
<1>4. CASE WaitBlock(t)
  <2>1. /\ UNCHANGED <<stack, ready, outstanding_tasks, owner, dependencies,
                       applied, not_ready>>
        /\ \A u \in Tasks : phase'[u] = "idle" => phase[u] = "idle"
        /\ \A u \in Tasks : phase'[u] = "returned" => phase[u] = "returned"
    BY <1>1, <1>4 DEF WaitBlock, history
  <2> QED BY <2>1, SameStack, StayInv
<1>5. CASE WaitReacquire(t)
  <2>1. /\ UNCHANGED <<stack, ready, outstanding_tasks, owner, dependencies,
                       applied, not_ready>>
        /\ \A u \in Tasks : phase'[u] = "idle" => phase[u] = "idle"
        /\ \A u \in Tasks : phase'[u] = "returned" => phase[u] = "returned"
    BY <1>1, <1>5 DEF WaitReacquire, history
  <2> QED BY <2>1, SameStack, StayInv
<1>6. CASE ExecuteReturn(t)
  <2>1. /\ UNCHANGED <<stack, ready, outstanding_tasks, owner, dependencies,
                       applied, not_ready>>
        /\ EndTask(t)
    BY <1>6 DEF ExecuteReturn, history
  <2>2. /\ \A u \in Tasks : phase'[u] = "idle" => phase[u] = "idle"
        /\ \A u \in Tasks : phase'[u] = "returned" =>
             phase[u] = "returned" \/ outstanding_tasks[u] = 0
    BY <2>1, EndTaskPhase DEF EngineInv
  <2> QED BY <2>1, <2>2, SameStack, StayInv
<1>7. CASE SpuriousWakeup(t)
  <2>1. /\ UNCHANGED <<stack, ready, outstanding_tasks, owner, dependencies,
                       applied, not_ready>>
        /\ \A u \in Tasks : phase'[u] = "idle" => phase[u] = "idle"
        /\ \A u \in Tasks : phase'[u] = "returned" => phase[u] = "returned"
    BY <1>1, <1>7 DEF SpuriousWakeup, graphTaskVars, history
  <2> QED BY <2>1, SameStack, StayInv
<1> QED BY <1>2, <1>3, <1>4, <1>5, <1>6, <1>7 DEF CallerStep

LEMMA WorkerStepInv ==
  ASSUME EngineInv, TypeInv', NEW w \in Workers, WorkerStep(w)
  PROVE  CoreInv'
<1>0. TypeInv BY DEF EngineInv
<1>1. CASE LoopContinue(w)
  <2>1. UNCHANGED <<ready, outstanding_tasks, owner, dependencies, applied,
                    not_ready, phase>>
    BY <1>1 DEF LoopContinue, graphTaskVars, history, callVars
  <2>2. JobsStay /\ Entering' = Entering BY <1>0, <1>1, LoopContinueJobs
  <2> QED BY <2>1, <2>2, StayInv
<1>2. CASE LoopExit(w)
  <2>1. /\ UNCHANGED <<ready, outstanding_tasks, owner, dependencies, applied,
                       not_ready>>
        /\ EndTask(Top(w).loop)
    BY <1>2 DEF LoopExit, graphTaskVars, history
  <2>2. JobsStay /\ Entering' = Entering
    BY <1>0, <1>2, LoopExitJobs, LoopExitEntering
  <2>3. Top(w).loop \in Tasks
    BY <1>0, <1>2, TopOK DEF LoopExit, Frame
  <2>4. /\ \A u \in Tasks : phase'[u] = "idle" => phase[u] = "idle"
        /\ \A u \in Tasks : phase'[u] = "returned" =>
             phase[u] = "returned" \/ outstanding_tasks[u] = 0
    BY <1>0, <2>1, <2>3, EndTaskPhase
  <2> QED BY <2>1, <2>2, <2>4, StayInv
<1>3. ASSUME NEW t \in Tasks, Reenter(w, t) PROVE CoreInv'
  <2>1. StartTask(t) /\ phase' = [phase EXCEPT ![t] = "working"]
    BY <1>3 DEF Reenter
  <2>2. JobsStay /\ Entering' = Entering \cup {<<w, t>>}
    BY <1>0, <1>3, ReenterJobs, ReenterEntering
  <2> QED BY <2>1, <2>2, StartInv
<1> QED
  BY <1>1, <1>2, <1>3, PopInv, CaptureInv, CallFunctionInv, SetOwnerInv,
     ApplyReturnInv, ApplyThrowInv, LockGraphTaskInv, PropagateInvalidInv,
     PropagateInv, OnExceptionInv, ReadOwnerInv, DecrementInv, NotifyInv,
     PushDummyInv
     DEF WorkerStep

LEMMA EngineInit == Init => EngineInv
<1> SUFFICES ASSUME Init PROVE EngineInv OBVIOUS
<1>1. TypeInv BY TypeInit
<1>2. \A w \in Workers : /\ stack[w] = <<EmptyFrame(NoTask, "loop")>>
                         /\ Len(stack[w]) = 1 /\ stack[w][1].pc = "loop"
                         /\ Top(w).pc = "loop"
  BY DEF Init, Top, EmptyFrame
<1>3. Jobs = {}
  <2>0. \A k \in 1 .. 1 : k = 1 OBVIOUS
  <2>1. \A w \in Workers : \A k \in 1 .. Len(stack[w]) : k = 1 BY <1>2, <2>0
  <2> QED BY <1>2, <2>1, JobPlaces DEF Busy, Handling
<1>4. Entering = {} BY <1>2 DEF Entering, At
<1>5. \A t \in Tasks : Queued(t) = {} BY DEF Queued, Init
<1>6. \A t \in Tasks : Handled(t) = {}
  <2>1. \A t \in Tasks :
          Handled(t) = {j \in Jobs : job[j].base = t /\ job[j].pc \in Handling}
    BY <1>1, HandledJobs
  <2> QED BY <1>3, <2>1
<1>7. CountInv
  <2>1. IsFiniteSet({}) /\ Cardinality({}) = 0 BY FS_EmptySet
  <2>2. \A t \in Tasks : outstanding_tasks[t] = 0 BY DEF Init
  <2> SUFFICES ASSUME NEW t \in Tasks
               PROVE  /\ IsFiniteSet(Queued(t)) /\ IsFiniteSet(Handled(t))
                      /\ outstanding_tasks[t] =
                           Cardinality(Queued(t)) + Cardinality(Handled(t))
    BY DEF CountInv
  <2>3. Queued(t) = {} /\ Handled(t) = {} BY <1>5, <1>6
  <2> QED BY <2>1, <2>2, <2>3
<1>8. IdleInv BY <1>3, <1>4 DEF IdleInv, Init
<1>9. OwnerInv BY <1>3, <1>4 DEF OwnerInv, Init
<1>10. DrainInv BY <1>3 DEF DrainInv, Init
<1>11. DummyInv BY <1>3 DEF DummyInv
<1>12. OnceInv
  <2>1. \A t \in Tasks, f \in Fns : applied[t][f] = NoBuffer BY DEF Init, Nodes
  <2> QED BY <1>3, <2>1 DEF OnceInv, Init
<1>13. BufferInv BY DEF BufferInv, Init
<1> QED BY <1>1, <1>7, <1>8, <1>9, <1>10, <1>11, <1>12, <1>13 DEF EngineInv, CoreInv

LEMMA EngineStep == EngineInv /\ [Next]_vars => EngineInv'
<1> SUFFICES ASSUME EngineInv, [Next]_vars PROVE EngineInv' OBVIOUS
<1>1. TypeInv' BY TypeStep DEF EngineInv
<1>2. CASE Next
  <2>1. CoreInv' BY <1>1, <1>2, CallerStepInv, WorkerStepInv DEF Next
  <2> QED BY <1>1, <2>1 DEF EngineInv
<1>3. CASE UNCHANGED vars
  <2>1. /\ UNCHANGED <<stack, ready, outstanding_tasks, owner, dependencies,
                       applied, not_ready, phase>>
    BY <1>3 DEF vars, graphTaskVars, history, callVars
  <2>2. CoreInv' BY <1>1, <2>1, SameStack, StayInv
  <2> QED BY <1>1, <2>2 DEF EngineInv
<1> QED BY <1>2, <1>3

-----------------------------------------------------------------------------
(***************************************************************************)
(* The bookkeeping of the ready queues is right in every reachable state,  *)
(* for every graph, every number of devices, and every set of concurrent   *)
(* and reentrant calls.                                                    *)
(***************************************************************************)
THEOREM EngineInvariant == Spec => []EngineInv
BY EngineInit, EngineStep, PTL DEF Spec

(* GraphTask::outstanding_tasks is always the number of FunctionTasks of   *)
(* the call that are queued or being handled.                              *)
THEOREM CounterIsExact == Spec => []CounterExact
<1>1. EngineInv => CounterExact BY DEF EngineInv, CoreInv, CountInv, CounterExact
<1> QED BY <1>1, EngineInvariant, PTL

(* Once execute() has returned or thrown, no queue and no worker holds a   *)
(* function of the call.                                                   *)
THEOREM ReturnIsQuiescent == Spec => []QuiescentReturn
<1>1. EngineInv => QuiescentReturn
  <2> SUFFICES ASSUME EngineInv, NEW t \in Tasks, phase[t] = "returned"
               PROVE  /\ \A q \in Queued(t) : q[2].fn = NullFn
                      /\ \A h \in Handled(t) : stack[h[1]][h[2]].fn = NullFn
    BY DEF QuiescentReturn
  <2>1. ~ Pending(t) BY DEF EngineInv, CoreInv, DrainInv
  <2>2. \A q \in Queued(t) : q[2].fn = NullFn
    BY <2>1, QueuedMembers DEF Pending
  <2>3. \A h \in Handled(t) : stack[h[1]][h[2]].fn = NullFn
    <3> SUFFICES ASSUME NEW h \in Handled(t)
                 PROVE  stack[h[1]][h[2]].fn = NullFn
      OBVIOUS
    <3>1. h \in Jobs /\ job[h].base = t /\ job[h].pc \in Handling
      BY HandledJobs DEF EngineInv
    <3>2. job[h].fn = NullFn BY <2>1, <3>1 DEF Pending
    <3> QED BY <3>1, <3>2 DEF job, Job
  <2> QED BY <2>2, <2>3
<1> QED BY <1>1, EngineInvariant, PTL

(* Sets of at most one element. *)
LEMMA AtMostOne ==
  ASSUME NEW S, \A x, y \in S : x = y
  PROVE  /\ S = {} => Cardinality(S) = 0
         /\ S # {} => Cardinality(S) = 1
<1>1. CASE S = {} BY <1>1, FS_EmptySet
<1>2. CASE S # {}
  <2>1. PICK x \in S : TRUE BY <1>2
  <2>2. S = {x} BY <2>1
  <2> QED BY <1>2, <2>2, FS_Singleton
<1> QED BY <1>1, <1>2

(* Within one call a function is queued at most once: never while it waits *)
(* for gradients and never after it has been evaluated.                    *)
THEOREM QueuedOnce == Spec => []PushedOnce
<1>1. EngineInv => PushedOnce
  <2> SUFFICES ASSUME EngineInv, NEW t \in Tasks, NEW f \in Fns
               PROVE  LET queued == {q \in Queued(t) : q[2].fn = f}
                          popped == {h \in Handled(t) :
                             LET fr == stack[h[1]][h[2]]
                             IN  fr.fn = f /\ fr.pc \in {"capture", "call",
                                                        "apply", "nested"}}
                          copies == Cardinality(queued) + Cardinality(popped)
                      IN  /\ copies <= 1
                          /\ copies = 1 => /\ dependencies[t][f] = 0
                                           /\ applied[t][f] = NoBuffer
    BY DEF PushedOnce
  <2> DEFINE queued == {q \in Queued(t) : q[2].fn = f}
             popped == {h \in Handled(t) :
                          LET fr == stack[h[1]][h[2]]
                          IN  fr.fn = f /\ fr.pc \in {"capture", "call",
                                                     "apply", "nested"}}
  <2>1. f # NullFn /\ f \in Nodes BY NamesAssumption DEF Nodes
  <2>2. \A q \in queued : \E w \in Workers : \E x \in ready[w] :
          q = <<w, x>> /\ x.base = t /\ x.fn = f
    BY QueuedMembers
  <2>3. \A h \in popped : /\ h \in Jobs /\ job[h].base = t /\ job[h].fn = f
                          /\ job[h].pc \in {"capture", "call", "apply"}
    <3> SUFFICES ASSUME NEW h \in popped
                 PROVE  /\ h \in Jobs /\ job[h].base = t /\ job[h].fn = f
                        /\ job[h].pc \in {"capture", "call", "apply"}
      OBVIOUS
    <3>1. /\ h \in Jobs /\ job[h].base = t
      BY HandledJobs DEF EngineInv
    <3> QED BY <3>1 DEF job, Job
  <2> HIDE DEF queued, popped
  <2>4. \A x, y \in queued : x = y
    BY <2>1, <2>2 DEF EngineInv, CoreInv, OnceInv
  <2>5. \A x, y \in popped : x = y
    BY <2>3 DEF EngineInv, CoreInv, OnceInv, Active
  <2>6. queued = {} \/ popped = {}
    <3> SUFFICES ASSUME NEW q \in queued, NEW h \in popped PROVE FALSE
      OBVIOUS
    <3>1. PICK w \in Workers : \E x \in ready[w] :
            q = <<w, x>> /\ x.base = t /\ x.fn = f
      BY <2>2
    <3>2. PICK x \in ready[w] : q = <<w, x>> /\ x.base = t /\ x.fn = f
      BY <3>1
    <3> QED BY <2>3, <3>2 DEF EngineInv, CoreInv, OnceInv, Active
  <2>7. queued # {} \/ popped # {} =>
          dependencies[t][f] = 0 /\ applied[t][f] = NoBuffer
    BY <2>1, <2>2, <2>3 DEF EngineInv, CoreInv, OnceInv, Active
  <2>8. /\ queued = {} => Cardinality(queued) = 0
        /\ queued # {} => Cardinality(queued) = 1
        /\ popped = {} => Cardinality(popped) = 0
        /\ popped # {} => Cardinality(popped) = 1
    BY <2>4, <2>5, AtMostOne
  <2>9. /\ Cardinality(queued) + Cardinality(popped) <= 1
        /\ Cardinality(queued) + Cardinality(popped) = 1 =>
             queued # {} \/ popped # {}
    BY <2>6, <2>8
  <2> QED BY <2>7, <2>9 DEF queued, popped
<1> QED BY <1>1, EngineInvariant, PTL
=============================================================================
